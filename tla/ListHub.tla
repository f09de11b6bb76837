------------------------------- MODULE ListHub -------------------------------
(***************************************************************************)
(* The hub of the extension as far as the list of media passes through it, *)
(* with no word about tabs, commands or popups: pages change the list, and *)
(* what was changed while a port is open is scheduled to be pushed.  Lists *)
(* are sent by Push and Answers, and the list that is sent is the present  *)
(* one.                                                                    *)
(*                                                                         *)
(* MediaHub implements this specification (its WorksAsListHub), and        *)
(* MediaControl takes the steps of its hub from it.                        *)
(***************************************************************************)
CONSTANTS Lists,      \* the lists a hub can hold
          Empty       \* the list it starts with

VARIABLES
  worker,     \* does the service worker run?
  known,      \* its list
  timer,      \* is a push scheduled?
  port        \* is the native messaging port open?

vars == <<worker, known, timer, port>>

Init == worker = FALSE /\ known = Empty /\ timer = FALSE /\ port = FALSE

(* A push is scheduled, unless there is nobody to push to. *)
SchedulePush == timer' = (timer \/ port)

(* The pages report, and the list becomes another or is said again. *)
Report(list) ==
  /\ worker
  /\ known' = list
  /\ SchedulePush
  /\ UNCHANGED <<worker, port>>

(* The scheduled push: the list is sent if there is a port. *)
Push ==
  /\ worker /\ timer
  /\ timer' = FALSE
  /\ UNCHANGED <<worker, known, port>>

(* The list is sent as an answer, at once ... *)
Answers == worker /\ UNCHANGED vars

(* ... or after the pages were asked, when a push follows, too. *)
AnswersLate ==
  /\ worker
  /\ SchedulePush
  /\ UNCHANGED <<worker, known, port>>

(* Mutant: a new port is not told what it missed. *)
OpenPortQuietly(opened) == port' = opened /\ UNCHANGED timer

(* A port is asked for, in place of the one there may be; a new one is     *)
(* told the list.                                                          *)
OpenPort(opened) ==
  /\ port' = opened
  /\ timer' = (timer \/ opened)

Starts(opened) ==
  /\ ~worker
  /\ worker' = TRUE
  /\ OpenPort(opened)
  /\ UNCHANGED known

Connect(opened) ==
  /\ worker
  /\ OpenPort(opened)
  /\ UNCHANGED <<worker, known>>

PortLost ==
  /\ worker /\ port
  /\ port' = FALSE
  /\ UNCHANGED <<worker, known, timer>>

(* The worker is stopped and forgets everything. *)
Stops ==
  /\ worker
  /\ worker' = FALSE /\ known' = Empty /\ timer' = FALSE /\ port' = FALSE

Sending == Push \/ Answers \/ AnswersLate

Next ==
  \/ \E list \in Lists : Report(list)
  \/ Sending
  \/ \E opened \in BOOLEAN : Starts(opened) \/ Connect(opened)
  \/ PortLost \/ Stops

Fairness == WF_vars(Push)

Spec == Init /\ [][Next]_vars /\ Fairness
=============================================================================
