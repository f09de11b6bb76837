------------------------ MODULE ContentScriptProofs ------------------------
(***************************************************************************)
(* Theorems about ContentScript, for any frames and elements and any       *)
(* number of reports on their way.                                         *)
(***************************************************************************)
EXTENDS ContentScript, SequenceTheorems, WellFoundedInduction, TLAPS

-----------------------------------------------------------------------------
(* Lemmas about the operators the script is built from. *)

(* A set of elements that is not empty has a first one in document order. *)
LEMMA FirstExists ==
  ASSUME NEW S \in SUBSET Elements, S # {}
  PROVE  First(S) \in S /\ \A x \in S : First(S) <= x
<1>1. S \subseteq Nat
  BY ElementsAssumption
<1>2. PICK x \in S : \A y \in S : ~(<<y, x>> \in OpToRel(<, Nat))
  BY <1>1, WFMin, NatLessThanWellFounded
<1>3. \A y \in S : ~(y < x)
  BY <1>1, <1>2 DEF OpToRel
<1>4. \A y \in S : x <= y
  BY <1>1, <1>3
<1> QED BY <1>4 DEF First

(* find() finds an element of the frame that is in the page, if there is  *)
(* one, and else nothing.                                                 *)
LEMMA FindFinds ==
  ASSUME NEW f \in Frames
  PROVE  /\ media \cap Of(f) = {} => Find(f) = None
         /\ media \cap Of(f) # {} => Find(f) \in media \cap Of(f)
         /\ Find(f) \in Of(f) \cup {None}
<1>1. media \cap Of(f) \in SUBSET Elements /\ media \cap Of(f) \cap playing \in SUBSET Elements
  BY DEF Of
<1> QED BY <1>1, FirstExists DEF Find

(* What is reported of an element is never "gone". *)
LEMMA ReportOfElement ==
  ASSUME NEW e
  PROVE  Report(e) \in Reports /\ (Report(e) = "gone" <=> e = None)
  BY DEF Report, Reports

(* A report that is added is one more. *)
LEMMA AppendLonger ==
  ASSUME NEW s \in Seq(Reports), NEW r \in Reports
  PROVE  /\ Append(s, r) \in Seq(Reports)
         /\ Len(Append(s, r)) = Len(s) + 1
         /\ Append(s, r)[Len(s) + 1] = r
         /\ Append(s, r) # s
  BY AppendProperties

(* A report is added only as long as there is room. *)
LEMMA TellType ==
  ASSUME TypeOK, NEW f \in Frames, NEW r \in Reports, Tell(f, r)
  PROVE  /\ mail' \in [Frames -> Seq(Reports)]
         /\ \A g \in Frames : Len(mail'[g]) <= MaxMail
<1>1. CASE valid[f]
  <2>1. /\ Append(mail[f], r) \in Seq(Reports)
        /\ Len(Append(mail[f], r)) = Len(mail[f]) + 1
    BY AppendLonger DEF TypeOK
  <2>2. mail' = [mail EXCEPT ![f] = Append(mail[f], r)] /\ Len(mail[f]) < MaxMail
    BY <1>1 DEF Tell
  <2>3. Len(mail[f]) \in Nat
    BY LenProperties DEF TypeOK
  <2>4. Len(Append(mail[f], r)) <= MaxMail
    BY <2>1, <2>2, <2>3, MaxMailAssumption
  <2> QED BY <2>1, <2>2, <2>4 DEF TypeOK
<1>2. CASE ~valid[f]
  BY <1>2 DEF Tell, TypeOK
<1> QED BY <1>1, <1>2

(* Elements belong to one frame. *)
LEMMA OneFrame ==
  ASSUME NEW f \in Frames, NEW g \in Frames, f # g
  PROVE  Of(f) \cap Of(g) = {}
  BY DEF Of

(* What bind() does to the detector keeps the types. *)
LEMMA BindType ==
  ASSUME TypeOK, NEW f \in Frames, NEW el \in Of(f) \cup {None}, Bind(f, el)
  PROVE  /\ element' \in [Frames -> Elements \cup {None}]
         /\ bound' \subseteq Elements
         /\ \A g \in Frames : bound' \cap Of(g) = {element'[g]} \ {None}
<1>1. element' \in [Frames -> Elements \cup {None}] /\ bound' \subseteq Elements
  BY DEF TypeOK, Bind, Of
<1>2. element'[f] = el /\ bound' \cap Of(f) = {el} \ {None}
  BY DEF TypeOK, Bind, Of
<1>3. ASSUME NEW g \in Frames, g # f
      PROVE  bound' \cap Of(g) = {element'[g]} \ {None}
  <2>1. element'[g] = element[g]
    BY <1>3 DEF TypeOK, Bind
  <2>2. bound' \cap Of(g) = bound \cap Of(g)
    BY <1>3, OneFrame DEF Bind
  <2> QED BY <2>1, <2>2 DEF TypeOK
<1> QED BY <1>1, <1>2, <1>3

(* An element with listeners is the one its frame's detector has. *)
LEMMA BoundIsElement ==
  ASSUME TypeOK, NEW e \in bound
  PROVE  /\ frameOf[e] \in Frames
         /\ element[frameOf[e]] = e
         /\ e # None
<1>1. e \in Elements /\ frameOf[e] \in Frames /\ e \in Of(frameOf[e])
  BY DEF TypeOK, Of
<1>2. e \in {element[frameOf[e]]} \ {None}
  BY <1>1 DEF TypeOK
<1> QED BY <1>1, <1>2

-----------------------------------------------------------------------------
(* The type invariant. *)

(* The script's own steps keep the types. *)
LEMMA ScriptType ==
  ASSUME TypeOK, NEW f \in Frames,
         Check(f) \/ CheckStops(f) \/ OnQueryState(f) \/ OnExecute(f)
  PROVE  TypeOK'
<1>1. CASE Check(f)
  <2>1. Find(f) \in Of(f) \cup {None} /\ Report(Find(f)) \in Reports
    BY FindFinds, ReportOfElement
  <2>2. Bind(f, Find(f)) /\ Tell(f, Report(Find(f)))
    BY <1>1 DEF Check
  <2> QED BY <1>1, <2>1, <2>2, BindType, TellType DEF Check, TypeOK, Of, page
<1>2. CASE CheckStops(f)
  BY <1>2, BindType DEF CheckStops, TypeOK, Of, page
<1>3. CASE OnQueryState(f)
  <2>1. /\ mail' \in [Frames -> Seq(Reports)]
        /\ \A g \in Frames : Len(mail'[g]) <= MaxMail
    <3>1. CASE element[f] # None
      <4>1. Report(element[f]) \in Reports /\ Tell(f, Report(element[f]))
        BY <1>3, <3>1, ReportOfElement DEF OnQueryState
      <4> QED BY <4>1, TellType
    <3>2. CASE element[f] = None
      BY <1>3, <3>2 DEF OnQueryState, TypeOK
    <3> QED BY <3>1, <3>2
  <2> QED BY <1>3, <2>1 DEF OnQueryState, TypeOK, Of, page, script
<1>4. CASE OnExecute(f)
  <2>1. element[f] # None => element[f] \in Elements
    BY DEF TypeOK
  <2> QED BY <1>4, <2>1 DEF OnExecute, TypeOK, Of, script
<1> QED BY <1>1, <1>2, <1>3, <1>4

(* The events of an element keep the types. *)
LEMMA EventType ==
  ASSUME TypeOK, NEW e \in Elements, OnPlayPause(e) \/ OnTimeUpdate(e)
  PROVE  TypeOK'
<1>1. ASSUME Tell(frameOf[e], Report(element[frameOf[e]]))
      PROVE  /\ mail' \in [Frames -> Seq(Reports)]
             /\ \A g \in Frames : Len(mail'[g]) <= MaxMail
  BY <1>1, ReportOfElement, TellType DEF TypeOK
<1>2. CASE OnPlayPause(e)
  <2>1. /\ mail' \in [Frames -> Seq(Reports)]
        /\ \A g \in Frames : Len(mail'[g]) <= MaxMail
    <3>1. CASE e \in bound
      BY <1>1, <1>2, <3>1 DEF OnPlayPause
    <3>2. CASE e \notin bound
      BY <1>2, <3>2 DEF OnPlayPause, TypeOK
    <3> QED BY <3>1, <3>2
  <2> QED BY <1>2, <2>1 DEF OnPlayPause, TypeOK, Of, script
<1>3. CASE OnTimeUpdate(e)
  BY <1>1, <1>3 DEF OnTimeUpdate, TypeOK, Of, page, script
<1> QED BY <1>2, <1>3

(* What the page and its user do keeps the types. *)
LEMMA PageType ==
  ASSUME TypeOK,
         \/ \E e \in Elements : Appears(e) \/ Disappears(e) \/ Toggles(e)
         \/ \E f \in Frames : Navigates(f)
  PROVE  TypeOK'
<1>1. ASSUME NEW e \in Elements, Appears(e) \/ Disappears(e) \/ Toggles(e) PROVE TypeOK'
  BY <1>1 DEF Appears, Disappears, Toggles, TypeOK, Of, script
<1>2. ASSUME NEW f \in Frames, Navigates(f) PROVE TypeOK'
  <2>1. Bind(f, None)
    BY <1>2 DEF Navigates
  <2> QED BY <1>2, <2>1, BindType DEF Navigates, TypeOK, Of
<1> QED BY <1>1, <1>2

(* The hub's side keeps the types. *)
LEMMA HubType ==
  ASSUME TypeOK, (\E f \in Frames : Receives(f)) \/ Queries \/ Restarts \/ Reloads \/ Commands
  PROVE  TypeOK'
<1>1. ASSUME NEW f \in Frames, Receives(f) PROVE TypeOK'
  <2>1. mail[f] \in Seq(Reports) /\ mail[f] # <<>>
    BY <1>1 DEF Receives, TypeOK
  <2>2. /\ Head(mail[f]) \in Reports /\ Tail(mail[f]) \in Seq(Reports)
        /\ Len(Tail(mail[f])) = Len(mail[f]) - 1
    BY <2>1, HeadTailProperties
  <2>3. Len(mail[f]) \in Nat /\ Len(mail[f]) <= MaxMail
    BY <2>1, LenProperties DEF TypeOK
  <2>4. Len(Tail(mail[f])) <= MaxMail
    BY <2>2, <2>3, MaxMailAssumption
  <2>5. entry' \in {"none", "playing", "paused"}
    BY <1>1, <2>2 DEF Receives, Reports
  <2> QED BY <1>1, <2>2, <2>4, <2>5 DEF Receives, TypeOK, Of, page, script
<1>2. CASE Reloads
  <2>1. <<>> \in Seq(Reports) /\ Len(<<>>) = 0 /\ 0 <= MaxMail
    BY MaxMailAssumption
  <2>2. mail' \in [Frames -> Seq(Reports)] /\ \A f \in Frames : Len(mail'[f]) <= MaxMail
    BY <1>2, <2>1 DEF Reloads
  <2> QED BY <1>2, <2>2 DEF Reloads, TypeOK, Of, page
<1>3. CASE Queries \/ Restarts \/ Commands
  BY <1>3 DEF Queries, Restarts, Commands, SendToTab, TypeOK, Of, page, script
<1> QED BY <1>1, <1>2, <1>3

(* Whatever pages, users and the hub do, the detector's element is in its  *)
(* frame, it alone has listeners and the reports are bounded.              *)
THEOREM TypeCorrect == Spec => []TypeOK
<1>1. Init => TypeOK
  <2>1. <<>> \in Seq(Reports) /\ Len(<<>>) = 0 /\ 0 <= MaxMail
    BY MaxMailAssumption
  <2> QED BY <2>1, LayoutsAssumption DEF Init, TypeOK, Of
<1>2. TypeOK /\ [Next]_vars => TypeOK'
  <2> SUFFICES ASSUME TypeOK, [Next]_vars PROVE TypeOK'
    OBVIOUS
  <2>1. CASE UNCHANGED vars
    BY <2>1 DEF vars, page, script, TypeOK, Of
  <2> QED BY <2>1, ScriptType, EventType, PageType, HubType DEF Next, Quiet
<1> QED BY <1>1, <1>2, PTL DEF Spec

-----------------------------------------------------------------------------
(* "Gone" is said once. *)

(* A report that was just added is the one that Tell was given. *)
LEMMA TellAdds ==
  ASSUME TypeOK, NEW f \in Frames, NEW r \in Reports, Tell(f, r),
         NEW g \in Frames, mail'[g] = Append(mail[g], "gone")
  PROVE  g = f /\ r = "gone"
<1>1. mail[g] \in Seq(Reports) /\ mail[f] \in Seq(Reports) /\ "gone" \in Reports
  BY DEF TypeOK, Reports
<1>2. mail'[g] # mail[g]
  BY <1>1, AppendLonger
<1>3. g = f /\ mail'[f] = Append(mail[f], r)
  BY <1>2 DEF Tell, TypeOK
<1>4. Append(mail[f], r)[Len(mail[f]) + 1] = r
      /\ Append(mail[f], "gone")[Len(mail[f]) + 1] = "gone"
  BY <1>1, AppendLonger
<1> QED BY <1>3, <1>4

(* A step that adds nothing to the reports of g does not say "gone". *)
LEMMA NotAdded ==
  ASSUME TypeOK, NEW g \in Frames, mail'[g] = Append(mail[g], "gone"),
         \/ mail' = mail
         \/ mail' = [f \in Frames |-> <<>>]
         \/ \E f \in Frames : mail[f] # <<>> /\ mail' = [mail EXCEPT ![f] = Tail(@)]
  PROVE  FALSE
<1>1. mail[g] \in Seq(Reports) /\ "gone" \in Reports
  BY DEF TypeOK, Reports
<1>2. Len(mail'[g]) = Len(mail[g]) + 1 /\ Len(mail[g]) \in Nat /\ mail'[g] # mail[g]
  BY <1>1, AppendLonger, LenProperties
<1>3. CASE mail' = [f \in Frames |-> <<>>]
  <2>1. Len(mail'[g]) = 0
    BY <1>3
  <2> QED BY <1>2, <2>1
<1>4. ASSUME NEW f \in Frames, mail[f] # <<>>, mail' = [mail EXCEPT ![f] = Tail(@)]
      PROVE  FALSE
  <2>1. g = f /\ mail'[g] = Tail(mail[g])
    BY <1>2, <1>4 DEF TypeOK
  <2>2. Len(Tail(mail[g])) = Len(mail[g]) - 1
    BY <1>1, <1>4, <2>1, HeadTailProperties
  <2>3. Len(mail[g]) + 1 = Len(mail[g]) - 1
    <3>1. Len(mail'[g]) = Len(mail[g]) - 1
      BY <2>1, <2>2
    <3> QED BY <1>2, <3>1
  <2>4. \A n \in Nat : n + 1 # n - 1
    OBVIOUS
  <2> QED BY <1>2, <2>3, <2>4
<1> QED BY <1>2, <1>3, <1>4

(* However late events and answers come, "gone" is reported by the check   *)
(* that lost the element and by nothing else.                              *)
THEOREM GoneIsSaidOnce == Spec => GoneOnlyWhenLost
<1> DEFINE Lost(g) == element[g] # None /\ element'[g] = None
<1>1. ASSUME TypeOK, Next, NEW g \in Frames, mail'[g] = Append(mail[g], "gone")
      PROVE  Lost(g)
  <2>1. ASSUME NEW f \in Frames, Check(f) PROVE Lost(g)
    <3>1. Report(Find(f)) \in Reports /\ (Report(Find(f)) = "gone" <=> Find(f) = None)
      BY ReportOfElement
    <3>2. Tell(f, Report(Find(f))) /\ Bind(f, Find(f)) /\ ~(Find(f) = None /\ element[f] = None)
      BY <2>1 DEF Check
    <3>3. g = f /\ Find(f) = None
      BY <1>1, <3>1, <3>2, TellAdds
    <3> QED BY <1>1, <3>2, <3>3 DEF Bind, TypeOK
  <2>2. ASSUME NEW f \in Frames, OnQueryState(f) PROVE FALSE
    <3>1. CASE element[f] # None
      <4>1. /\ Tell(f, Report(element[f])) /\ Report(element[f]) \in Reports
            /\ Report(element[f]) # "gone"
        BY <2>2, <3>1, ReportOfElement DEF OnQueryState
      <4> QED BY <1>1, <4>1, TellAdds
    <3>2. CASE element[f] = None
      BY <1>1, <2>2, <3>2, NotAdded DEF OnQueryState
    <3> QED BY <3>1, <3>2
  <2>3. ASSUME NEW e \in Elements, OnPlayPause(e) \/ OnTimeUpdate(e) PROVE FALSE
    <3>1. CASE e \in bound
      <4>1. frameOf[e] \in Frames /\ element[frameOf[e]] # None
        BY <1>1, <3>1, BoundIsElement
      <4>2. /\ Tell(frameOf[e], Report(element[frameOf[e]]))
            /\ Report(element[frameOf[e]]) \in Reports
            /\ Report(element[frameOf[e]]) # "gone"
        BY <2>3, <3>1, <4>1, ReportOfElement DEF OnPlayPause, OnTimeUpdate
      <4> QED BY <1>1, <4>1, <4>2, TellAdds
    <3>2. CASE e \notin bound
      BY <1>1, <2>3, <3>2, NotAdded DEF OnPlayPause, OnTimeUpdate
    <3> QED BY <3>1, <3>2
  <2>4. ASSUME NEW f \in Frames,
               CheckStops(f) \/ OnExecute(f) \/ Navigates(f) \/ Receives(f)
        PROVE  FALSE
    BY <1>1, <2>4, NotAdded DEF CheckStops, OnExecute, Navigates, Receives
  <2>5. ASSUME NEW e \in Elements, Appears(e) \/ Disappears(e) \/ Toggles(e) PROVE FALSE
    BY <1>1, <2>5, NotAdded DEF Appears, Disappears, Toggles
  <2>6. ASSUME Queries \/ Restarts \/ Reloads \/ Commands PROVE FALSE
    BY <1>1, <2>6, NotAdded DEF Queries, Restarts, Reloads, Commands
  <2> QED BY <1>1, <2>1, <2>2, <2>3, <2>4, <2>5, <2>6 DEF Next, Quiet
<1>2. TypeOK /\ [Next]_vars =>
        [\A f \in Frames : mail'[f] = Append(mail[f], "gone")
           => element[f] # None /\ element'[f] = None]_vars
  BY <1>1
<1> QED BY <1>2, TypeCorrect, PTL DEF Spec, GoneOnlyWhenLost
=============================================================================
