------------------------- MODULE MediaControlProofs -------------------------
(***************************************************************************)
(* Theorems about MediaControl, for every capacity of the channel and      *)
(* every number of unread lines.                                           *)
(***************************************************************************)
EXTENDS MediaControl, SequenceTheorems, TLAPS

-----------------------------------------------------------------------------
(* Sequences of lists. *)

(* The first of a non-empty sequence, and what is left without it. *)
LEMMA TakeOne ==
  ASSUME NEW s \in Seq(AnyList), s # <<>>
  PROVE  /\ Head(s) \in AnyList /\ Tail(s) \in Seq(AnyList)
         /\ Len(s) \in Nat \ {0} /\ Len(Tail(s)) = Len(s) - 1
  BY HeadTailProperties, EmptySeq, LenProperties

(* What is appended is the last. *)
LEMMA LastAppended ==
  ASSUME NEW s \in Seq(AnyList), NEW list \in AnyList
  PROVE  /\ Append(s, list) \in Seq(AnyList) /\ Append(s, list) # <<>>
         /\ Len(Append(s, list)) = Len(s) + 1
         /\ LastOf(Append(s, list)) = list
  BY AppendProperties, LenProperties DEF LastOf

(* Without its first element a sequence has the same last one. *)
LEMMA LastOfTail ==
  ASSUME NEW s \in Seq(AnyList), s # <<>>
  PROVE  IF Tail(s) # <<>> THEN LastOf(Tail(s)) = LastOf(s) ELSE Head(s) = LastOf(s)
<1>1. /\ Tail(s) \in Seq(AnyList) /\ Len(s) \in Nat \ {0}
      /\ Len(Tail(s)) = Len(s) - 1
  BY TakeOne
<1>2. CASE Tail(s) # <<>>
  <2>1. Len(Tail(s)) \in Nat \ {0}
    BY <1>1, <1>2, EmptySeq, LenProperties
  <2>2. Tail(s)[Len(s) - 1] = s[Len(s) - 1 + 1]
    BY <1>1, <2>1, HeadTailProperties
  <2> QED BY <1>1, <1>2, <2>2 DEF LastOf
<1>3. CASE Tail(s) = <<>>
  <2>1. Len(s) = 1
    <3>1. Len(Tail(s)) = 0
      BY <1>1, <1>3, EmptySeq
    <3>2. Len(s) - 1 = 0
      BY <1>1, <3>1
    <3>3. \A n \in Nat : n - 1 = 0 => n = 1
      OBVIOUS
    <3>4. Len(s) \in Nat
      BY <1>1
    <3> QED BY <3>2, <3>3, <3>4
  <2>2. Head(s) = s[1]
    BY HeadTailProperties
  <2> QED BY <2>1, <2>2, <1>3 DEF LastOf
<1> QED BY <1>2, <1>3

-----------------------------------------------------------------------------
(* Types. *)

USE DEF page, hub, proxy, pipes, host, TheHub!vars, TheHub!SchedulePush, TheHub!OpenPort,
        TheProxy!HasRoom

(* What reaches the channel leaves its bound alone. *)
LEMMA SendType ==
  ASSUME TypeOK, NEW list \in AnyList, Send(list)
  PROVE  /\ queue' \in Seq(AnyList) /\ Len(queue') <= Capacity
         /\ missed' \in BOOLEAN
         /\ ~port => queue' = <<>>
         /\ UNCHANGED <<link, up>>
<1>1. CASE port /\ Len(queue) < Capacity
  <2>1. Append(queue, list) \in Seq(AnyList) /\ Len(Append(queue, list)) = Len(queue) + 1
    BY LastAppended DEF TypeOK
  <2>2. Len(queue) + 1 <= Capacity
    BY <1>1, CapacityAssumption, LenProperties DEF TypeOK
  <2> QED BY <1>1, <2>1, <2>2 DEF Send, Put, TheProxy!Put, Overtaken
<1>2. CASE port /\ ~(Len(queue) < Capacity)
  BY <1>2 DEF Send, Put, TheProxy!Put, Overtaken, TypeOK
<1>3. CASE ~port
  BY <1>3 DEF Send, TypeOK
<1> QED BY <1>1, <1>2, <1>3

(* A proxy that ends, or a host, leaves no more lines than there were. *)
LEMMA EndType ==
  ASSUME TypeOK, lines' = <<>>
  PROVE  /\ lines' \in Seq(AnyList)
         /\ oldLines' \in {<<>>, oldLines \o lines} =>
              /\ oldLines' \in Seq(AnyList)
              /\ Len(oldLines') + Len(lines') <= MaxLines
              /\ ~up => oldLines' = <<>>
         /\ queue' = <<>> => queue' \in Seq(AnyList) /\ Len(queue') <= Capacity
<1>1. /\ oldLines \o lines \in Seq(AnyList)
      /\ Len(oldLines \o lines) = Len(oldLines) + Len(lines)
  BY ConcatProperties DEF TypeOK
<1>2. <<>> \in Seq(AnyList)
  BY EmptySeq
<1>3. Len(<<>>) = 0
  OBVIOUS
<1>4. Len(oldLines) \in Nat /\ Len(lines) \in Nat
  BY LenProperties DEF TypeOK
<1>5. ~up => oldLines \o lines = <<>>
  <2>1. ~up => Len(oldLines \o lines) = 0
    BY <1>1, <1>3 DEF TypeOK
  <2> QED BY <1>1, <2>1, EmptySeq
<1>6. Len(oldLines \o lines) + 0 <= MaxLines /\ 0 + 0 <= MaxLines /\ 0 <= Capacity
  BY <1>1, <1>4, MaxLinesAssumption, CapacityAssumption DEF TypeOK
<1> QED BY <1>1, <1>2, <1>3, <1>5, <1>6

(* Initially every variable is in its type. *)
LEMMA InitType == Init => TypeOK
<1>1. <<>> \in Seq(AnyList) /\ 0 <= Capacity /\ 0 + 0 <= MaxLines
  BY EmptySeq, CapacityAssumption, MaxLinesAssumption
<1>2. Len(<<>>) = 0
  OBVIOUS
<1>3. NoMedia \in AnyList
  BY DEF AnyList
<1> QED BY <1>1, <1>2, <1>3 DEF Init, TypeOK

(* The steps of the page and of the hub keep the types. *)
LEMMA HubType ==
  ASSUME TypeOK,
         \/ MediaChange \/ PageLeft \/ TabCloses \/ PageReports \/ PushTimerFires
         \/ AnswerAtOnce \/ AskPages \/ AnswerLate
         \/ \E opened \in BOOLEAN : WorkerStarts(opened) \/ Connect(opened)
         \/ WorkerStops \/ PortLost
  PROVE  TypeOK'
<1>1. CASE MediaChange
  BY <1>1 DEF MediaChange, TypeOK
<1>0. NoMedia \in AnyList
  BY DEF AnyList
<1>2. CASE PageReports
  BY <1>0, <1>2 DEF PageReports, HearsNothing, TheHub!Report, TypeOK
<1>11. CASE PageLeft \/ TabCloses
  BY <1>0, <1>11 DEF PageLeft, TabCloses, HearsNothing, TheHub!Report, TypeOK
<1>3. CASE PushTimerFires
  <2>1. known \in AnyList /\ Send(known)
    BY <1>3 DEF PushTimerFires, TheHub!Push, TypeOK
  <2>2. /\ queue' \in Seq(AnyList) /\ Len(queue') <= Capacity
        /\ missed' \in BOOLEAN /\ (~port => queue' = <<>>)
        /\ UNCHANGED <<link, up>>
    BY <2>1, SendType
  <2> QED BY <1>3, <2>2 DEF PushTimerFires, TheHub!Push, TypeOK
<1>4. CASE AnswerAtOnce
  <2>1. known \in AnyList /\ Send(known)
    BY <1>4 DEF AnswerAtOnce, TheHub!Answers, TypeOK
  <2>2. /\ queue' \in Seq(AnyList) /\ Len(queue') <= Capacity
        /\ missed' \in BOOLEAN /\ (~port => queue' = <<>>)
        /\ UNCHANGED <<link, up>>
    BY <2>1, SendType
  <2> QED BY <1>4, <2>2 DEF AnswerAtOnce, TheHub!Answers, TypeOK
<1>5. CASE AskPages
  BY <1>5 DEF AskPages, TypeOK
<1>6. CASE AnswerLate
  <2>1. known \in AnyList /\ Send(known)
    BY <1>6 DEF AnswerLate, TheHub!AnswersLate, TypeOK
  <2>2. /\ queue' \in Seq(AnyList) /\ Len(queue') <= Capacity
        /\ missed' \in BOOLEAN /\ (~port => queue' = <<>>)
        /\ UNCHANGED <<link, up>>
    BY <2>1, SendType
  <2> QED BY <1>6, <2>2 DEF AnswerLate, TheHub!AnswersLate, TypeOK
<1>7. ASSUME NEW opened \in BOOLEAN, WorkerStarts(opened) PROVE TypeOK'
  BY <1>7 DEF WorkerStarts, TheHub!Starts, TypeOK
<1>8. ASSUME NEW opened \in BOOLEAN, Connect(opened) PROVE TypeOK'
  <2>1. CASE port
    <3>1. queue' = <<>> /\ lines' = <<>> /\ oldLines' = oldLines \o lines
      BY <1>8, <2>1 DEF Connect, EndProxy, TheProxy!Ends
    <3> QED BY <1>8, <2>1, <3>1, EndType DEF Connect, TheHub!Connect, EndProxy, TheProxy!Ends, TypeOK
  <2>2. CASE ~port
    BY <1>8, <2>2 DEF Connect, TheHub!Connect, TypeOK
  <2> QED BY <2>1, <2>2
<1>9. CASE WorkerStops
  <2>1. queue' = <<>> /\ lines' = <<>> /\ oldLines' = oldLines \o lines
    BY <1>9 DEF WorkerStops, TheHub!Stops, TheProxy!Ends
  <2>2. NoMedia \in AnyList
    BY DEF AnyList
  <2> QED BY <1>9, <2>1, <2>2, EndType DEF WorkerStops, TheHub!Stops, TheProxy!Ends, TypeOK
<1>10. CASE PortLost
  <2>1. queue' = <<>> /\ lines' = <<>> /\ oldLines' = oldLines \o lines
    BY <1>10 DEF PortLost, TheHub!PortLost, EndProxy, TheProxy!Ends
  <2> QED BY <1>10, <2>1, EndType DEF PortLost, TheHub!PortLost, EndProxy, TheProxy!Ends, TypeOK
<1> QED BY <1>1, <1>2, <1>3, <1>4, <1>5, <1>6, <1>7, <1>8, <1>9, <1>10, <1>11

(* The steps of the proxy and of the window keep the types. *)
LEMMA HostType ==
  ASSUME TypeOK,
         \/ Dial \/ Notice \/ Forward \/ WriteFails
         \/ HostStarts \/ HostEnds \/ ReadLine \/ ReadOldLine \/ Refresh
  PROVE  TypeOK'
<1> USE CapacityAssumption, MaxLinesAssumption
<1>1. CASE Dial
  BY <1>1 DEF Dial, TheProxy!Dial, TypeOK
<1>2. CASE Notice
  BY <1>2 DEF Notice, TheProxy!Notice, TypeOK
<1>3. CASE Forward
  <2>1. /\ Head(queue) \in AnyList /\ Tail(queue) \in Seq(AnyList)
        /\ Len(queue) \in Nat \ {0} /\ Len(Tail(queue)) = Len(queue) - 1
    BY <1>3, TakeOne DEF Forward, TheProxy!Forward, TypeOK
  <2>2. /\ Append(lines, Head(queue)) \in Seq(AnyList)
        /\ Len(Append(lines, Head(queue))) = Len(lines) + 1
    BY <2>1, LastAppended DEF TypeOK
  <2>3. Len(queue') <= Capacity
    BY <1>3, <2>1 DEF Forward, TheProxy!Forward, TypeOK
  <2>4. Len(oldLines) + (Len(lines) + 1) <= MaxLines
    <3>1. Len(oldLines) \in Nat /\ Len(lines) \in Nat
      BY LenProperties DEF TypeOK
    <3> QED BY <1>3, <3>1 DEF Forward, TheProxy!Forward
  <2>5. port /\ up
    BY <1>3 DEF Forward, TheProxy!Forward, TypeOK
  <2> QED BY <1>3, <2>1, <2>2, <2>3, <2>4, <2>5 DEF Forward, TheProxy!Forward, TypeOK
<1>4. CASE WriteFails
  <2>1. /\ Head(queue) \in AnyList /\ Tail(queue) \in Seq(AnyList)
        /\ Len(queue) \in Nat \ {0} /\ Len(Tail(queue)) = Len(queue) - 1
    BY <1>4, TakeOne DEF WriteFails, TheProxy!WriteFails, TypeOK
  <2>2. Len(queue') <= Capacity
    BY <1>4, <2>1 DEF WriteFails, TheProxy!WriteFails, TypeOK
  <2> QED BY <1>4, <2>1, <2>2 DEF WriteFails, TheProxy!WriteFails, TypeOK
<1>5. CASE HostStarts
  BY <1>5 DEF HostStarts, TheProxy!HostStarts, TypeOK
<1>6. CASE HostEnds
  <2>1. lines' = <<>> /\ oldLines' = <<>>
    BY <1>6 DEF HostEnds, TheProxy!HostEnds
  <2>2. NoMedia \in AnyList
    BY DEF AnyList
  <2>3. /\ link' \in {"no", "yes", "broken"} /\ link' # "yes" /\ up' = FALSE
        /\ ~port => link' = "no"
    BY <1>6 DEF HostEnds, TheProxy!HostEnds, TypeOK
  <2>4. /\ lines' \in Seq(AnyList) /\ oldLines' \in Seq(AnyList)
        /\ Len(oldLines') + Len(lines') <= MaxLines
    BY <2>1, EndType
  <2>5. /\ shown' = NoMedia /\ missed' = TRUE
        /\ UNCHANGED <<page, known, worker, timer, port, queue, request>>
    BY <1>6 DEF HostEnds, TheProxy!HostEnds
  <2> QED BY <2>1, <2>2, <2>3, <2>4, <2>5 DEF TypeOK
<1>7. CASE ReadLine
  <2>1. /\ Head(lines) \in AnyList /\ Tail(lines) \in Seq(AnyList)
        /\ Len(lines) \in Nat \ {0} /\ Len(Tail(lines)) = Len(lines) - 1
    BY <1>7, TakeOne DEF ReadLine, TypeOK
  <2>2. Len(oldLines) + (Len(lines) - 1) <= MaxLines
    BY <2>1, LenProperties DEF TypeOK
  <2>3. port /\ up
    BY <1>7 DEF ReadLine, TypeOK
  <2> QED BY <1>7, <2>1, <2>2, <2>3 DEF ReadLine, TypeOK
<1>8. CASE ReadOldLine
  <2>1. /\ Head(oldLines) \in AnyList /\ Tail(oldLines) \in Seq(AnyList)
        /\ Len(oldLines) \in Nat \ {0} /\ Len(Tail(oldLines)) = Len(oldLines) - 1
    BY <1>8, TakeOne DEF ReadOldLine, TypeOK
  <2>2. (Len(oldLines) - 1) + Len(lines) <= MaxLines
    BY <2>1, LenProperties DEF TypeOK
  <2>3. up
    BY <1>8 DEF ReadOldLine, TypeOK
  <2> QED BY <1>8, <2>1, <2>2, <2>3 DEF ReadOldLine, TypeOK
<1>9. CASE Refresh
  BY <1>9 DEF Refresh, TypeOK
<1> QED BY <1>1, <1>2, <1>3, <1>4, <1>5, <1>6, <1>7, <1>8, <1>9

(* Every step keeps the types. *)
LEMMA NextType == TypeOK /\ [Next]_vars => TypeOK'
<1> SUFFICES ASSUME TypeOK, [Next]_vars PROVE TypeOK'
  OBVIOUS
<1>1. CASE UNCHANGED vars
  BY <1>1 DEF vars, TypeOK
<1> QED BY <1>1, HubType, HostType DEF Next, Quiet

(* The proxy, its channel and its connection never outlast the port, and   *)
(* neither the channel nor the pipes exceed their bounds (bridge.ts,       *)
(* proxy.go).                                                              *)
THEOREM TypeCorrect == Spec => []TypeOK
  BY InitType, NextType, PTL DEF Spec

-----------------------------------------------------------------------------
(* What the window will show. *)

(* A list that is sent is the newest, or counts as missed. *)
LEMMA SendNewest ==
  ASSUME TypeOK, port, NEW list \in AnyList, Send(list), UNCHANGED <<oldLines, known>>,
         ~missed'
  PROVE  oldLines' = <<>> /\ Newest' = list
<1>1. queue' = Append(queue, list) /\ oldLines = <<>>
  BY DEF Send, Put, TheProxy!Put, Overtaken
<1>2. Append(queue, list) # <<>> /\ LastOf(Append(queue, list)) = list
  BY LastAppended DEF TypeOK
<1> QED BY <1>1, <1>2 DEF Newest, LastOf

(* The steps that lose a list, schedule a push, or send the list. *)
LEMMA HubKeepsUp ==
  ASSUME TypeOK, OnlyLossFallsBehind,
         \/ MediaChange \/ PageLeft \/ TabCloses \/ PageReports \/ PushTimerFires
         \/ AnswerAtOnce \/ AskPages \/ AnswerLate
         \/ \E opened \in BOOLEAN : WorkerStarts(opened) \/ Connect(opened)
         \/ WorkerStops \/ PortLost
  PROVE  OnlyLossFallsBehind'
<1> SUFFICES ASSUME port', ~timer', ~missed'
             PROVE  (oldLines = <<>> /\ Newest = known)'
  BY DEF OnlyLossFallsBehind
<1>1. CASE MediaChange
  BY <1>1 DEF MediaChange, OnlyLossFallsBehind, Newest, LastOf
<1>2. CASE PageReports
  BY <1>2 DEF PageReports, HearsNothing, TheHub!Report, OnlyLossFallsBehind, Newest, LastOf
<1>11. CASE PageLeft \/ TabCloses
  BY <1>11 DEF PageLeft, TabCloses, HearsNothing, TheHub!Report, OnlyLossFallsBehind,
               Newest, LastOf
<1>3. CASE PushTimerFires
  <2>1. /\ Send(known) /\ known \in AnyList /\ port
        /\ UNCHANGED <<oldLines, known>>
    BY <1>3 DEF PushTimerFires, TheHub!Push, TypeOK
  <2> QED BY <2>1, SendNewest
<1>4. CASE AnswerAtOnce
  <2>1. /\ Send(known) /\ known \in AnyList /\ port
        /\ UNCHANGED <<oldLines, known>>
    BY <1>4 DEF AnswerAtOnce, TheHub!Answers, TypeOK
  <2> QED BY <2>1, SendNewest
<1>5. CASE AskPages
  BY <1>5 DEF AskPages, OnlyLossFallsBehind, Newest, LastOf
<1>6. CASE AnswerLate
  BY <1>6 DEF AnswerLate, TheHub!AnswersLate
<1>7. ASSUME NEW opened \in BOOLEAN, WorkerStarts(opened) PROVE FALSE
  BY <1>7 DEF WorkerStarts, TheHub!Starts
<1>8. ASSUME NEW opened \in BOOLEAN, Connect(opened) PROVE FALSE
  BY <1>8 DEF Connect, TheHub!Connect
<1>9. CASE WorkerStops
  BY <1>9 DEF WorkerStops, TheHub!Stops, TheProxy!Ends
<1>10. CASE PortLost
  BY <1>10 DEF PortLost, TheHub!PortLost, EndProxy, TheProxy!Ends
<1> QED BY <1>1, <1>2, <1>3, <1>4, <1>5, <1>6, <1>7, <1>8, <1>9, <1>10, <1>11

(* A list that moves on from the channel to the pipe, or from the pipe to  *)
(* the window, is still the newest.                                        *)
LEMMA HostKeepsUp ==
  ASSUME TypeOK, OnlyLossFallsBehind,
         \/ Dial \/ Notice \/ Forward \/ WriteFails
         \/ HostStarts \/ HostEnds \/ ReadLine \/ ReadOldLine \/ Refresh
  PROVE  OnlyLossFallsBehind'
<1> SUFFICES ASSUME port', ~timer', ~missed'
             PROVE  (oldLines = <<>> /\ Newest = known)'
  BY DEF OnlyLossFallsBehind
<1>1. CASE Dial
  BY <1>1 DEF Dial, TheProxy!Dial, OnlyLossFallsBehind, Newest, LastOf
<1>2. CASE Notice
  BY <1>2 DEF Notice, TheProxy!Notice, OnlyLossFallsBehind, Newest, LastOf
<1>3. CASE Forward
  <2>1. /\ oldLines = <<>> /\ LastOf(queue) = known
        /\ UNCHANGED <<oldLines, known>> /\ queue # <<>>
    BY <1>3 DEF Forward, TheProxy!Forward, OnlyLossFallsBehind, Newest
  <2>2. IF Tail(queue) # <<>> THEN LastOf(Tail(queue)) = known ELSE Head(queue) = known
    BY <2>1, LastOfTail DEF TypeOK
  <2>3. /\ Append(lines, Head(queue)) # <<>>
        /\ LastOf(Append(lines, Head(queue))) = Head(queue)
    BY <2>1, TakeOne, LastAppended DEF TypeOK
  <2>4. queue' = Tail(queue) /\ lines' = Append(lines, Head(queue))
    BY <1>3 DEF Forward, TheProxy!Forward
  <2> QED BY <2>1, <2>2, <2>3, <2>4 DEF Newest, LastOf
<1>4. CASE WriteFails
  BY <1>4 DEF WriteFails, TheProxy!WriteFails
<1>5. CASE HostStarts
  BY <1>5 DEF HostStarts, TheProxy!HostStarts, OnlyLossFallsBehind, Newest, LastOf
<1>6. CASE HostEnds
  BY <1>6 DEF HostEnds, TheProxy!HostEnds
<1>7. CASE ReadLine
  <2>1. /\ oldLines = <<>> /\ Newest = known
        /\ UNCHANGED <<oldLines, known, queue>> /\ lines # <<>>
        /\ lines' = Tail(lines) /\ shown' = Head(lines)
    BY <1>7 DEF ReadLine, OnlyLossFallsBehind
  <2>2. IF Tail(lines) # <<>> THEN LastOf(Tail(lines)) = LastOf(lines)
                              ELSE Head(lines) = LastOf(lines)
    BY <2>1, LastOfTail DEF TypeOK
  <2> QED BY <2>1, <2>2 DEF Newest, LastOf
<1>8. CASE ReadOldLine
  BY <1>8 DEF ReadOldLine, OnlyLossFallsBehind
<1>9. CASE Refresh
  BY <1>9 DEF Refresh, OnlyLossFallsBehind, Newest, LastOf
<1> QED BY <1>1, <1>2, <1>3, <1>4, <1>5, <1>6, <1>7, <1>8, <1>9

(* Every step keeps the newest list on its way unless one is lost. *)
LEMMA NextKeepsUp == TypeOK /\ OnlyLossFallsBehind /\ [Next]_vars => OnlyLossFallsBehind'
<1> SUFFICES ASSUME TypeOK, OnlyLossFallsBehind, [Next]_vars PROVE OnlyLossFallsBehind'
  OBVIOUS
<1>1. CASE UNCHANGED vars
  BY <1>1 DEF vars, OnlyLossFallsBehind, Newest, LastOf
<1> QED BY <1>1, HubKeepsUp, HostKeepsUp DEF Next, Quiet

(* Only a full channel, a connection that ends with messages on it, or     *)
(* unread lines of an earlier proxy can leave the window behind the hub    *)
(* while nothing is scheduled (store.ts, bridge.ts, proxy.go).             *)
THEOREM AlwaysOnlyLoss == Spec => []OnlyLossFallsBehind
<1>1. Init => OnlyLossFallsBehind
  BY DEF Init, OnlyLossFallsBehind
<1> QED BY <1>1, InitType, NextType, NextKeepsUp, PTL DEF Spec
-----------------------------------------------------------------------------
(* The parts.                                                              *)

(* What is sent is put into the channel. *)
LEMMA SendPuts ==
  ASSUME NEW list \in AnyList, Send(list), UNCHANGED port
  PROVE  [TheProxy!Next]_(TheProxy!vars)
<1>1. CASE port
  BY <1>1 DEF Send, Put, TheProxy!Next
<1>2. CASE ~port
  BY <1>2 DEF Send, TheProxy!vars
<1> QED BY <1>1, <1>2

(* A step of page, hub or proxy as the hub and the proxy see it. *)
LEMMA HubSteps ==
  ASSUME TypeOK,
         \/ MediaChange \/ PageLeft \/ TabCloses \/ PageReports \/ PushTimerFires
         \/ AnswerAtOnce \/ AskPages \/ AnswerLate
         \/ \E opened \in BOOLEAN : WorkerStarts(opened) \/ Connect(opened)
         \/ WorkerStops \/ PortLost
  PROVE  [TheHub!Next]_(TheHub!vars) /\ [TheProxy!Next]_(TheProxy!vars)
<1>1. CASE MediaChange \/ PageLeft \/ AskPages
  BY <1>1 DEF MediaChange, PageLeft, AskPages, TheProxy!vars
<1>2. CASE PageReports \/ TabCloses
  <2>1. \/ \E list \in AnyList : TheHub!Report(list)
        \/ UNCHANGED hub
    BY <1>2 DEF PageReports, TabCloses, HearsNothing, AnyList, TypeOK
  <2>2. UNCHANGED TheProxy!vars
    <3>1. UNCHANGED port
      BY <2>1 DEF TheHub!Report
    <3> QED BY <1>2, <3>1 DEF PageReports, TabCloses, TheProxy!vars
  <2> QED BY <2>1, <2>2 DEF TheHub!Next
<1>3. CASE PushTimerFires \/ AnswerAtOnce \/ AnswerLate
  <2>1. TheHub!Sending /\ Send(known) /\ known \in AnyList
    BY <1>3 DEF PushTimerFires, AnswerAtOnce, AnswerLate, TheHub!Sending, TypeOK
  <2>2. UNCHANGED port
    BY <2>1 DEF TheHub!Sending, TheHub!Push, TheHub!Answers, TheHub!AnswersLate
  <2> QED BY <2>1, <2>2, SendPuts DEF TheHub!Next
<1>4. ASSUME NEW opened \in BOOLEAN, WorkerStarts(opened)
      PROVE  TheHub!Next /\ TheProxy!Next
  <2>1. TheProxy!Ends(opened)
    BY <1>4 DEF WorkerStarts, TheHub!Starts, TheProxy!Ends, TypeOK
  <2> QED BY <1>4, <2>1 DEF WorkerStarts, TheHub!Next, TheProxy!Next
<1>5. ASSUME NEW opened \in BOOLEAN, Connect(opened)
      PROVE  TheHub!Next /\ TheProxy!Next
  <2>1. TheProxy!Ends(opened)
    BY <1>5 DEF Connect, EndProxy, TheHub!Connect, TheProxy!Ends, TypeOK
  <2> QED BY <1>5, <2>1 DEF Connect, TheHub!Next, TheProxy!Next
<1>6. CASE WorkerStops \/ PortLost
  BY <1>6 DEF WorkerStops, PortLost, EndProxy, TheHub!Next, TheProxy!Next
<1> QED BY <1>1, <1>2, <1>3, <1>4, <1>5, <1>6

(* A step of proxy or window as the hub and the proxy see it. *)
LEMMA HostSteps ==
  ASSUME TypeOK,
         \/ Dial \/ Notice \/ Forward \/ WriteFails
         \/ HostStarts \/ HostEnds \/ ReadLine \/ ReadOldLine \/ Refresh
  PROVE  UNCHANGED TheHub!vars /\ [TheProxy!Next]_(TheProxy!vars)
<1>1. UNCHANGED TheHub!vars
  BY DEF Dial, Notice, Forward, WriteFails, HostStarts, HostEnds, ReadLine, ReadOldLine,
         Refresh
<1>2. CASE Dial \/ Notice \/ WriteFails \/ HostStarts \/ HostEnds
  BY <1>2 DEF Dial, Notice, WriteFails, HostStarts, HostEnds, TheProxy!Next
<1>3. CASE Forward
  <2>1. Head(queue) \in AnyList
    BY <1>3, TakeOne DEF Forward, TheProxy!Forward, TypeOK
  <2> QED BY <1>3, <2>1 DEF Forward, TheProxy!ForwardsOne, TheProxy!Next
<1>4. CASE ReadLine \/ ReadOldLine \/ Refresh
  BY <1>1, <1>4 DEF ReadLine, ReadOldLine, Refresh, TheProxy!vars
<1> QED BY <1>1, <1>2, <1>3, <1>4

(* Hub and proxy do in the whole what they promise alone, and no step of   *)
(* one forces the other out of its promise: MediaHub and E2CProxy, which   *)
(* keep these promises (ImplementsListHub, ImplementsListProxy), fit       *)
(* together (bridge.ts, proxy.go).                                         *)
THEOREM PartsKeepPromises ==
  Spec => /\ TheHub!Init /\ [][TheHub!Next]_(TheHub!vars)
          /\ TheProxy!Init /\ [][TheProxy!Next]_(TheProxy!vars)
<1>1. Init => TheHub!Init /\ TheProxy!Init
  BY DEF Init, TheHub!Init, TheProxy!Init
<1>2. TypeOK /\ [Next]_vars => [TheHub!Next]_(TheHub!vars) /\ [TheProxy!Next]_(TheProxy!vars)
  <2>1. CASE UNCHANGED vars
    BY <2>1 DEF vars, TheProxy!vars
  <2> QED BY <2>1, HubSteps, HostSteps DEF Next, Quiet
<1> QED BY <1>1, <1>2, TypeCorrect, PTL DEF Spec
=============================================================================
