------------------------ MODULE SingleInstanceProofs ------------------------
(***************************************************************************)
(* Theorems about SingleInstance, for any number of processes.             *)
(***************************************************************************)
EXTENDS SingleInstance, TLAPS

(* The windows and servers of the processes are of their types, always:    *)
(* the destructor closes what the constructor opened.                      *)
THEOREM TypeCorrect == Spec => []TypeOK
<1>1. Init => TypeOK
  BY DEF Init, TypeOK, Serving, Running, Starting
<1>2. TypeOK /\ [Next]_vars => TypeOK'
  <2> SUFFICES ASSUME TypeOK, [Next]_vars PROVE TypeOK'
    OBVIOUS
  <2> USE DEF TypeOK, Serving, Running, Starting
  <2>1. ASSUME NEW p \in Procs, UserStarts(p) PROVE TypeOK'
    BY <2>1 DEF UserStarts
  <2>2. ASSUME NEW p \in Procs, Probe(p) PROVE TypeOK'
    BY <2>2 DEF Probe
  <2>3. ASSUME NEW p \in Procs, CheckRights(p) PROVE TypeOK'
    BY <2>3 DEF CheckRights
  <2>4. ASSUME NEW p \in Procs, CreateWindow(p) PROVE TypeOK'
    BY <2>4 DEF CreateWindow
  <2>5. ASSUME NEW p \in Procs, RightsGiven(p) PROVE TypeOK'
    BY <2>5 DEF RightsGiven
  <2>6. ASSUME NEW p \in Procs, Leave(p), gaveUp' \in BOOLEAN, overlapped' \in BOOLEAN
        PROVE  TypeOK'
    BY <2>6 DEF Leave
  <2>7. ASSUME NEW p \in Procs, RightsRefused(p) \/ WarningRead(p) \/ UserQuits(p)
        PROVE  TypeOK'
    <3>1. Leave(p) /\ gaveUp' \in BOOLEAN /\ overlapped' \in BOOLEAN
      BY <2>7 DEF RightsRefused, WarningRead, UserQuits
    <3> QED BY <3>1, <2>6
  <2>8. CASE UNCHANGED vars
    BY <2>8 DEF vars
  <2>9. ASSUME NEW p \in Procs, CloseWindow(p) \/ IconActivated(p) PROVE TypeOK'
    BY <2>9 DEF CloseWindow, IconActivated
  <2> QED BY <2>1, <2>2, <2>3, <2>4, <2>5, <2>7, <2>8, <2>9 DEF Next, Program, Prompt
<1> QED BY <1>1, <1>2, PTL DEF Spec

-----------------------------------------------------------------------------
(* What makes the probe enough when starts do not overlap: one process is  *)
(* on its way, and what its probe found stays true until its window is     *)
(* there, through the prompt for the rights and the start it leads to.     *)
OnlyOneStarts == \A p, q \in Procs : pc[p] \in Starting /\ pc[q] \in Starting => p = q

ProbeStillTrue ==
  \A p \in Procs : pc[p] \in {"passed", "asking", "creating"} => Serving = {}

SerialInv == TypeOK /\ (~overlapped => OnlyOneStarts /\ ProbeStillTrue /\ OneServes)

(* A process that ends takes nothing away from what holds of the others. *)
LEMMA LeaveSerial ==
  ASSUME SerialInv, ~overlapped, NEW p \in Procs, Leave(p)
  PROVE  (OnlyOneStarts /\ ProbeStillTrue /\ OneServes)'
<1>1. \A q \in Procs : pc'[q] # "none" => q # p /\ pc'[q] = pc[q]
  BY DEF SerialInv, TypeOK, Leave
<1>2. Serving' \subseteq Serving
  BY DEF SerialInv, TypeOK, Leave, Serving
<1> QED BY <1>1, <1>2 DEF SerialInv, OnlyOneStarts, ProbeStillTrue, OneServes, Starting

(* If the user starts the program only after the previous start is over,   *)
(* at most one process serves the pipe: one probe is enough, although the  *)
(* rights are asked for between the probe and the server (main.cpp).       *)
THEOREM SerialStartsServeOne == Spec => []SerialOneServes
<1>1. Init => SerialInv
  BY DEF Init, SerialInv, TypeOK, OnlyOneStarts, ProbeStillTrue, OneServes, Serving,
         Running, Starting
<1>2. SerialInv /\ TypeOK' /\ [Next]_vars => SerialInv'
  <2> SUFFICES ASSUME SerialInv, TypeOK', [Next]_vars, ~overlapped'
               PROVE  (OnlyOneStarts /\ ProbeStillTrue /\ OneServes)'
    BY DEF SerialInv
  <2>1. ~overlapped
    BY DEF Next, Program, Prompt, UserStarts, Probe, CheckRights, CreateWindow, RightsGiven,
           RightsRefused, WarningRead, UserQuits, CloseWindow, IconActivated, vars
  <2> USE DEF SerialInv, OnlyOneStarts, ProbeStillTrue, OneServes, Starting
  <2>2. ASSUME NEW p \in Procs, UserStarts(p)
        PROVE  (OnlyOneStarts /\ ProbeStillTrue /\ OneServes)'
    <3>1. \A q \in Procs : q # p => pc'[q] = pc[q] /\ pc'[q] \notin Starting
      BY <2>1, <2>2 DEF UserStarts, TypeOK
    <3>2. pc'[p] = "started" /\ Serving' = Serving
      BY <2>1, <2>2 DEF UserStarts, TypeOK, Serving
    <3> QED BY <2>1, <3>1, <3>2
  <2>3. ASSUME NEW p \in Procs, Probe(p)
        PROVE  (OnlyOneStarts /\ ProbeStillTrue /\ OneServes)'
    <3>1. \A q \in Procs : q # p => pc'[q] = pc[q] /\ pc'[q] \notin Starting
      BY <2>1, <2>3 DEF Probe, TypeOK
    <3>2. Serving' = Serving /\ (pc'[p] \in Starting => Serving = {})
      BY <2>1, <2>3 DEF Probe, TypeOK, Serving, Reachable
    <3> QED BY <2>1, <3>1, <3>2
  <2>4. ASSUME NEW p \in Procs, CheckRights(p) \/ RightsGiven(p)
        PROVE  (OnlyOneStarts /\ ProbeStillTrue /\ OneServes)'
    <3>1. \A q \in Procs : q # p => pc'[q] = pc[q] /\ pc'[q] \notin Starting
      BY <2>1, <2>4 DEF CheckRights, RightsGiven, TypeOK
    <3>2. Serving' = Serving /\ Serving = {}
      BY <2>1, <2>4 DEF CheckRights, RightsGiven, TypeOK, Serving
    <3> QED BY <2>1, <3>1, <3>2
  <2>5. ASSUME NEW p \in Procs, CreateWindow(p)
        PROVE  (OnlyOneStarts /\ ProbeStillTrue /\ OneServes)'
    <3>1. \A q \in Procs : pc'[q] \notin Starting
      BY <2>1, <2>5 DEF CreateWindow, TypeOK
    <3>2. Serving' \subseteq {p}
      BY <2>1, <2>5 DEF CreateWindow, TypeOK, Serving
    <3> QED BY <2>1, <3>1, <3>2
  <2>6. ASSUME NEW p \in Procs, RightsRefused(p) \/ WarningRead(p) \/ UserQuits(p)
        PROVE  (OnlyOneStarts /\ ProbeStillTrue /\ OneServes)'
    <3>1. Leave(p)
      BY <2>6 DEF RightsRefused, WarningRead, UserQuits
    <3>2. SerialInv
      OBVIOUS
    <3> HIDE DEF SerialInv, OnlyOneStarts, ProbeStillTrue, OneServes
    <3> QED BY <2>1, <3>1, <3>2, LeaveSerial
  <2>7. ASSUME \/ UNCHANGED vars
               \/ \E p \in Procs : CloseWindow(p) \/ IconActivated(p)
        PROVE  (OnlyOneStarts /\ ProbeStillTrue /\ OneServes)'
    BY <2>1, <2>7 DEF vars, CloseWindow, IconActivated, Serving
  <2> QED BY <2>2, <2>3, <2>4, <2>5, <2>6, <2>7 DEF Next, Program, Prompt
<1>3. SerialInv => SerialOneServes
  BY DEF SerialInv, SerialOneServes
<1> QED BY <1>1, <1>2, <1>3, TypeCorrect, PTL DEF Spec
=============================================================================
