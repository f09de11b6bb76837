------------------------------ MODULE ListProxy ------------------------------
(***************************************************************************)
(* What the proxy process of a native messaging port promises those who    *)
(* send through it, with no word about goroutines, connections or readers: *)
(* a bounded queue that drops what does not fit, one link to the host, and *)
(* the oldest message first.  A link ends with the host and for no other   *)
(* reason; it costs one message at most, and a host that is there is       *)
(* found.                                                                  *)
(*                                                                         *)
(* E2CProxy implements this specification (its WorksAsListProxy), and      *)
(* MediaControl takes the steps of its proxy from it.                      *)
(***************************************************************************)
EXTENDS Naturals, Sequences

CONSTANTS Messages,   \* what may be sent
          Capacity    \* how many of them are kept

VARIABLES
  alive,      \* does the process run?
  queue,      \* what it keeps
  link,       \* its connection: "no", "yes", or "broken" and not noticed yet
  up          \* is there a host?

vars == <<alive, queue, link, up>>

Init ==
  /\ alive \in BOOLEAN
  /\ queue = <<>> /\ link = "no" /\ up = FALSE

HasRoom == Len(queue) < Capacity

(* A message comes in; a full queue drops it. *)
Put(m) ==
  /\ alive
  /\ queue' = IF HasRoom THEN Append(queue, m) ELSE queue
  /\ UNCHANGED <<alive, link, up>>

(* The process ends, and what it kept is lost; the browser may have        *)
(* started the next one in the same step.                                  *)
Ends(next) ==
  /\ alive' = next
  /\ queue' = <<>> /\ link' = "no"
  /\ UNCHANGED up

Dial ==
  /\ alive /\ link = "no" /\ up
  /\ link' = "yes"
  /\ UNCHANGED <<alive, queue, up>>

(* The end of the connection is seen by whoever reads from it ... *)
Notice ==
  /\ link = "broken"
  /\ link' = "no"
  /\ UNCHANGED <<alive, queue, up>>

(* ... or by the message that is lost with it. *)
WriteFails ==
  /\ link = "broken" /\ queue # <<>>
  /\ queue' = Tail(queue)
  /\ link' = "no"
  /\ UNCHANGED <<alive, up>>

(* Message m is handed to the host. *)
Forward(m) ==
  /\ link = "yes" /\ queue # <<>> /\ m = Head(queue)
  /\ queue' = Tail(queue)
  /\ UNCHANGED <<alive, link, up>>

HostStarts ==
  /\ ~up
  /\ up' = TRUE
  /\ UNCHANGED <<alive, queue, link>>

HostEnds ==
  /\ up
  /\ up' = FALSE
  /\ link' = IF link = "yes" THEN "broken" ELSE link
  /\ UNCHANGED <<alive, queue>>

ForwardsOne == \E m \in Messages : Forward(m)

Next ==
  \/ \E m \in Messages : Put(m)
  \/ \E next \in BOOLEAN : Ends(next)
  \/ Dial \/ Notice \/ WriteFails \/ ForwardsOne
  \/ HostStarts \/ HostEnds

(* The process goes on by itself, whatever host and browser do.            *)
Fairness == WF_vars(Dial) /\ WF_vars(Notice \/ WriteFails) /\ WF_vars(ForwardsOne)

Spec == Init /\ [][Next]_vars /\ Fairness
=============================================================================
