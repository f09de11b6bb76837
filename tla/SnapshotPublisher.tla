------------------------- MODULE SnapshotPublisher -------------------------
(***************************************************************************)
(* What the media hub promises the desktop host, with no word about tabs,  *)
(* timers or ports: a source owns a value that changes at will, and an     *)
(* observer that is online holds at most one copy of it.  The observer is  *)
(* only ever handed the current value, and an observer that stays online   *)
(* with an outdated copy is handed a new one.                              *)
(*                                                                         *)
(* MediaHub implements this specification (its PublishesTabs).             *)
(***************************************************************************)
CONSTANT Values     \* the values the source may hold

VARIABLES online,   \* is the observer reachable?
          value,    \* the value of the source
          shown     \* {} or {v}: the copy the observer holds

vars == <<online, value, shown>>

Init == /\ online = FALSE
        /\ value \in Values
        /\ shown = {}

(* The source changes; nobody is told in the same step. *)
Change == /\ value' \in Values
          /\ UNCHANGED <<online, shown>>

(* The observer receives the current value and nothing else. *)
Publish == /\ online
           /\ shown' = {value}
           /\ UNCHANGED <<online, value>>

(* A new observer (or the old one on a new connection) knows nothing. *)
GoOnline == /\ online' = TRUE
            /\ shown' = {}
            /\ UNCHANGED value

(* The connection ends; a source that dies with it starts over. *)
GoOffline == /\ online' = FALSE
             /\ shown' = {}
             /\ value' \in Values

Next == Change \/ Publish \/ GoOnline \/ GoOffline

Outdated == online /\ shown # {value}

Spec == Init /\ [][Next]_vars /\ WF_vars(Outdated /\ Publish)
=============================================================================
