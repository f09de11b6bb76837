--------------------------- MODULE SingleInstance ---------------------------
(***************************************************************************)
(* How the desktop program starts (main.cpp): a process first tries to     *)
(* connect to the pipe of a running one, then asks for administrator       *)
(* rights by starting itself again, and only then creates the window,      *)
(* whose LocalServerHost listens on the pipe.                              *)
(*                                                                         *)
(* Closing the window hides it; the icon in the system tray, which is      *)
(* there as long as the process, brings it back and its menu ends the      *)
(* process (widget.cpp).                                                   *)
(*                                                                         *)
(* A process that was allowed to start itself again ends at once, without  *)
(* having listened, so the new process takes its place in the model.       *)
(***************************************************************************)
EXTENDS Naturals, FiniteSets

CONSTANT Procs      \* processes that can exist at a time

ASSUME ProcsAssumption == IsFiniteSet(Procs)

VARIABLES
  pc,           \* pc[p]: where process p is
  admin,        \* admin[p]: does p have administrator rights?
  debug,        \* debug[p]: g_debugMode
  listening,    \* listening[p]: did m_server of p start?
  visible,      \* visible[p]: is the window of p on the screen?
  gaveUp,       \* was the last thing the user did to refuse the rights?
  overlapped    \* has the user ever started one while another was starting?

vars == <<pc, admin, debug, listening, visible, gaveUp, overlapped>>

Starting == {"started", "passed", "asking", "creating"}
Running == {p \in Procs : pc[p] = "running"}
Serving == {p \in Procs : listening[p]}

(* main's arguments; the rights may have been given by the caller. *)
UserStarts(p) ==
  /\ pc[p] = "none"
  /\ pc' = [pc EXCEPT ![p] = "started"]
  /\ \E a, d \in BOOLEAN : /\ admin' = [admin EXCEPT ![p] = a]
                           /\ debug' = [debug EXCEPT ![p] = d]
  /\ gaveUp' = FALSE
  /\ overlapped' = (overlapped \/ \E q \in Procs : pc[q] \in Starting)
  /\ UNCHANGED <<listening, visible>>

(* Mutant: without WorldAccessOption the pipe of a process with            *)
(* administrator rights cannot be opened by one without.                   *)
ReachableAsOwner(p, q) == listening[q] /\ (admin[q] => admin[p])

(* Can p connect to the pipe of q? *)
Reachable(p, q) == listening[q]

(* connectToServer and waitForConnected; the warning is shown on success. *)
Probe(p) ==
  /\ pc[p] = "started"
  /\ pc' = [pc EXCEPT ![p] = IF \E q \in Procs : Reachable(p, q) THEN "warned" ELSE "passed"]
  /\ UNCHANGED <<admin, debug, listening, visible, gaveUp, overlapped>>

(* Mutant: the server outlives its window. *)
LeaveOpen(p) ==
  /\ pc' = [pc EXCEPT ![p] = "none"]
  /\ admin' = [admin EXCEPT ![p] = FALSE]
  /\ debug' = [debug EXCEPT ![p] = FALSE]
  /\ visible' = [visible EXCEPT ![p] = FALSE]
  /\ UNCHANGED listening

(* The process ends; its window and its server, if any, are closed. *)
Leave(p) ==
  /\ pc' = [pc EXCEPT ![p] = "none"]
  /\ admin' = [admin EXCEPT ![p] = FALSE]
  /\ debug' = [debug EXCEPT ![p] = FALSE]
  /\ listening' = [listening EXCEPT ![p] = FALSE]
  /\ visible' = [visible EXCEPT ![p] = FALSE]

WarningRead(p) == pc[p] = "warned" /\ Leave(p) /\ UNCHANGED <<gaveUp, overlapped>>

(* Mutant: the rights the process already has do not count. *)
AsksAlways(p) == ~debug[p]

(* restartWithAdminPrivileges: is the prompt of the system shown? *)
Asks(p) == ~debug[p] /\ ~admin[p]

CheckRights(p) ==
  /\ pc[p] = "passed"
  /\ pc' = [pc EXCEPT ![p] = IF Asks(p) THEN "asking" ELSE "creating"]
  /\ UNCHANGED <<admin, debug, listening, visible, gaveUp, overlapped>>

(* ShellExecuteEx starts the program again, without its arguments. *)
RightsGiven(p) ==
  /\ pc[p] = "asking"
  /\ pc' = [pc EXCEPT ![p] = "started"]
  /\ admin' = [admin EXCEPT ![p] = TRUE]
  /\ debug' = [debug EXCEPT ![p] = FALSE]
  /\ UNCHANGED <<listening, visible, gaveUp, overlapped>>

RightsRefused(p) == pc[p] = "asking" /\ Leave(p) /\ gaveUp' = TRUE /\ UNCHANGED overlapped

(* The constructors of Widget and LocalServerHost.  Windows lets several   *)
(* servers listen on one pipe; when listen fails the window is shown all   *)
(* the same.                                                               *)
CreateWindow(p) ==
  /\ pc[p] = "creating"
  /\ pc' = [pc EXCEPT ![p] = "running"]
  /\ \E started \in BOOLEAN : listening' = [listening EXCEPT ![p] = started]
  /\ visible' = [visible EXCEPT ![p] = TRUE]
  /\ UNCHANGED <<admin, debug, gaveUp, overlapped>>

(* closeEvent: the tray icon is visible, so the window is hidden only. *)
CloseWindow(p) ==
  /\ visible[p]
  /\ visible' = [visible EXCEPT ![p] = FALSE]
  /\ UNCHANGED <<pc, admin, debug, listening, gaveUp, overlapped>>

(* A click on the tray icon. *)
IconActivated(p) ==
  /\ pc[p] = "running" /\ ~visible[p]
  /\ visible' = [visible EXCEPT ![p] = TRUE]
  /\ UNCHANGED <<pc, admin, debug, listening, gaveUp, overlapped>>

(* Quit of the tray menu: exec returns and the window is destroyed. *)
UserQuits(p) == pc[p] = "running" /\ Leave(p) /\ UNCHANGED <<gaveUp, overlapped>>

Init ==
  /\ pc = [p \in Procs |-> "none"]
  /\ admin = [p \in Procs |-> FALSE]
  /\ debug = [p \in Procs |-> FALSE]
  /\ listening = [p \in Procs |-> FALSE]
  /\ visible = [p \in Procs |-> FALSE]
  /\ gaveUp = FALSE /\ overlapped = FALSE

Program(p) == Probe(p) \/ CheckRights(p) \/ CreateWindow(p)
Prompt(p) == RightsGiven(p) \/ RightsRefused(p)

Next == \E p \in Procs : \/ UserStarts(p) \/ Program(p) \/ Prompt(p)
                         \/ WarningRead(p) \/ UserQuits(p)
                         \/ CloseWindow(p) \/ IconActivated(p)

(* The program runs on, and the user answers the prompt of the system.  A  *)
(* warning may stay open for ever.                                         *)
Fairness == \A p \in Procs : WF_vars(Program(p)) /\ WF_vars(Prompt(p))

Spec == Init /\ [][Next]_vars /\ Fairness

-----------------------------------------------------------------------------
(* Properties. *)

(* Every variable holds values of its kind, and only a process that has    *)
(* its window, hidden or not, has a server that listens (LocalServerHost,  *)
(* constructor and destructor).                                            *)
TypeOK ==
  /\ pc \in [Procs -> Starting \cup {"none", "warned", "running"}]
  /\ admin \in [Procs -> BOOLEAN] /\ debug \in [Procs -> BOOLEAN]
  /\ listening \in [Procs -> BOOLEAN]
  /\ visible \in [Procs -> BOOLEAN]
  /\ \A p \in Procs : listening[p] \/ visible[p] => pc[p] = "running"
  /\ gaveUp \in BOOLEAN /\ overlapped \in BOOLEAN

(* At most one process serves the pipe, whatever the rights of each.  Two  *)
(* starts at the same time may both pass the probe before either listens   *)
(* (main.cpp 82-106).                                                      *)
OneServes == \A p, q \in Serving : p = q

(* If the user starts the program only after the previous start is over,   *)
(* one serves: the probe stays true through the prompt for the rights and  *)
(* the second start, and finds a server with more rights (main.cpp         *)
(* 82-110, WorldAccessOption).                                             *)
SerialOneServes == ~overlapped => OneServes

(* Starting the program ends with a window on the screen, or with the      *)
(* warning while another process has its icon in the tray, where the       *)
(* warning sends the user, unless he refuses the rights: starting again    *)
(* with rights does not go on for ever, nor does a start end in silence    *)
(* (main.cpp, restartWithAdminPrivileges; widget.cpp, closeEvent).         *)
StartShowsAWindow ==
  \A p \in Procs :
    pc[p] = "started" ~> \/ gaveUp
                         \/ \E q \in Procs : visible[q]
                         \/ pc[p] = "warned" /\ Running # {}
=============================================================================
