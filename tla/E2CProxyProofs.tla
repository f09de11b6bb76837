--------------------------- MODULE E2CProxyProofs ---------------------------
(***************************************************************************)
(* Theorems about E2CProxy, for every capacity of the channel and all      *)
(* bounds on messages, lines and connections.                              *)
(***************************************************************************)
EXTENDS E2CProxy, SequenceTheorems, TLAPS

-----------------------------------------------------------------------------
(* Sequences of pieces. *)

(* The first piece of a buffer is a line of the host, or 0. *)
LEMMA HeadType ==
  ASSUME NEW buf \in Seq(Piece), buf # <<>>
  PROVE  Head(buf).line \in 0 .. MaxLines /\ Head(buf).complete \in BOOLEAN
<1>1. Head(buf) \in Piece
  BY HeadTailProperties
<1> QED BY <1>1 DEF Piece

(* Joining a chunk to a buffer keeps a sequence of pieces. *)
LEMMA JoinType ==
  ASSUME NEW buf \in Seq(Piece), NEW chunk \in Seq(Piece), chunk # <<>>
  PROVE  Join(buf, chunk) \in Seq(Piece)
<1>1. CASE buf # <<>> /\ ~buf[Len(buf)].complete
  <2>1. SubSeq(buf, 1, Len(buf) - 1) \in Seq(Piece)
    <3>1. Len(buf) \in Nat /\ \A i \in 1 .. Len(buf) - 1 : buf[i] \in Piece
      BY ElementOfSeq, LenProperties
    <3> QED BY <3>1, SubSeqProperties
  <2>2. [line |-> 0, complete |-> Head(chunk).complete] \in Piece
    <3>1. 0 \in 0 .. MaxLines
      BY BoundsAssumption
    <3> QED BY <3>1, HeadType DEF Piece
  <2>3. Tail(chunk) \in Seq(Piece)
    OBVIOUS
  <2> QED BY <1>1, <2>1, <2>2, <2>3 DEF Join
<1>2. CASE ~(buf # <<>> /\ ~buf[Len(buf)].complete)
  BY <1>2 DEF Join
<1> QED BY <1>1, <1>2

-----------------------------------------------------------------------------
(* The type invariant. *)

(* A reader that is about to write has something to write, and one that is *)
(* about to read, or does, has seen a connection.                          *)
ReadersReady ==
  \A k \in Conns : /\ pc[k] \in {"emit", "body"} => rbuf[k] # <<>>
                   /\ pc[k] \in {"load", "blocked"} => rconn[k] \in Conns

(* A failing ReadBytes only moves its goroutine. *)
LEMMA ReadFailsType ==
  ASSUME TypeOK, NEW k \in Conns, ReadFails(k)
  PROVE  /\ pc' \in [Conns -> {"unborn", "check", "load", "blocked", "emit", "body", "done"}]
         /\ rerr' \in [Conns -> BOOLEAN]
  BY DEF ReadFails, TypeOK

(* Initially every variable is in its type. *)
LEMMA InitType == Init => TypeOK
<1> SUFFICES ASSUME Init PROVE TypeOK
  OBVIOUS
<1>1. <<>> \in Seq(Piece) /\ <<>> \in Seq(Part) /\ <<>> \in Seq(Msgs) /\ Len(<<>>) <= Cap
  BY CapAssumption, EmptySeq
<1>2. inbox \in [Conns -> Seq(Piece)] /\ rbuf \in [Conns -> Seq(Piece)]
  BY <1>1 DEF Init
<1>3. 0 \in 0 .. MaxMsgs /\ 0 \in 0 .. MaxLines /\ 0 \in 0 .. MaxConns /\ 0 \in 0 .. 0
  BY BoundsAssumption
<1> QED BY <1>1, <1>2, <1>3 DEF Init, TypeOK

(* The steps of the main loop keep the types. *)
LEMMA MainLoopType == TypeOK /\ MainLoop => TypeOK'
<1> SUFFICES ASSUME TypeOK, MainLoop PROVE TypeOK'
  OBVIOUS
<1> USE DEF stdinVars, readerVars, hostVars
<1>1. CASE DialSucceeds
  BY <1>1 DEF DialSucceeds, TypeOK
<1>2. CASE DialFails
  BY <1>2 DEF DialFails, TypeOK
<1>3. CASE Wake
  BY <1>3 DEF Wake, TypeOK
<1>4. CASE ForwardMessage
  <2>1. queue \in Seq(Msgs) /\ queue # <<>> /\ delivered \in Seq(Msgs)
    BY <1>4 DEF ForwardMessage, TypeOK
  <2>2. /\ Head(queue) \in Msgs /\ Tail(queue) \in Seq(Msgs)
        /\ Len(Tail(queue)) = Len(queue) - 1
    BY <2>1
  <2>3. Append(delivered, Head(queue)) \in Seq(Msgs)
    BY <2>1, <2>2
  <2>4. Len(queue) - 1 <= Cap
    BY <2>1, CapAssumption DEF TypeOK
  <2>5. queue' \in Seq(Msgs) /\ Len(queue') <= Cap
    BY <1>4, <2>2, <2>4 DEF ForwardMessage
  <2>6. /\ delivered' \in Seq(Msgs)
        /\ main' \in {"dialing", "sleeping", "serving", "closing"}
    BY <1>4, <2>3 DEF ForwardMessage, TypeOK
  <2> QED BY <1>4, <2>5, <2>6 DEF ForwardMessage, TypeOK
<1>5. CASE ReaderIsDone
  BY <1>5 DEF ReaderIsDone, TypeOK
<1>6. CASE ClosePipe
  BY <1>6 DEF ClosePipe, TypeOK
<1> QED BY <1>1, <1>2, <1>3, <1>4, <1>5, <1>6 DEF MainLoop

(* The steps of the stdin reader and of the browser keep the types. *)
LEMMA StdinType == TypeOK /\ (ChromeSends \/ ChromeDisconnects \/ StdinReader) => TypeOK'
<1> SUFFICES ASSUME TypeOK, ChromeSends \/ ChromeDisconnects \/ StdinReader PROVE TypeOK'
  OBVIOUS
<1> USE DEF stdinVars, readerVars, hostVars
<1>1. CASE ChromeSends
  BY <1>1, BoundsAssumption DEF ChromeSends, TypeOK
<1>2. CASE ChromeDisconnects
  BY <1>2 DEF ChromeDisconnects, TypeOK
<1>3. CASE TakeMessage
  <2>1. read + 1 \in Msgs /\ read' \in 0 .. sent
    BY <1>3, BoundsAssumption DEF TakeMessage, TypeOK, Msgs
  <2>2. queue' \in Seq(Msgs) /\ Len(queue') <= Cap
    <3>1. CASE Len(queue) < Cap
      <4>1. /\ Append(queue, read + 1) \in Seq(Msgs)
            /\ Len(Append(queue, read + 1)) = Len(queue) + 1
        BY <2>1 DEF TypeOK
      <4>2. Len(queue) + 1 <= Cap
        BY <3>1, CapAssumption DEF TypeOK
      <4> QED BY <1>3, <3>1, <4>1, <4>2 DEF TakeMessage, Enqueue
    <3>2. CASE ~(Len(queue) < Cap)
      BY <1>3, <3>2 DEF TakeMessage, Enqueue, TypeOK
    <3> QED BY <3>1, <3>2
  <2> QED BY <1>3, <2>1, <2>2 DEF TakeMessage, TypeOK
<1>4. CASE StdinEOF
  BY <1>4 DEF StdinEOF, TypeOK
<1> QED BY <1>1, <1>2, <1>3, <1>4 DEF StdinReader

(* The steps of a pipe reader keep the types. *)
LEMMA PipeReaderType ==
  ASSUME TypeOK, ReadersReady, NEW k \in Conns, PipeReader(k)
  PROVE  TypeOK'
<1> USE DEF stdinVars, readerVars, hostVars
<1>1. CASE CheckConn(k)
  BY <1>1, ReadFailsType DEF CheckConn, TypeOK
<1>2. CASE LoadConn(k)
  <2>1. PICK seen \in {rconn[k], conn} :
          IF seen = 0
          THEN status' = "panicked" /\ UNCHANGED <<pc, rconn>>
          ELSE /\ pc' = [pc EXCEPT ![k] = "blocked"]
               /\ rconn' = [rconn EXCEPT ![k] = seen]
               /\ UNCHANGED status
    BY <1>2 DEF LoadConn
  <2>2. /\ status' \in {"running", "exited", "panicked"}
        /\ pc' \in [Conns -> {"unborn", "check", "load", "blocked", "emit", "body", "done"}]
        /\ rconn' \in [Conns -> Conns \cup {0}]
    <3>1. CASE seen = 0
      BY <2>1, <3>1 DEF TypeOK
    <3>2. CASE seen # 0
      <4>1. /\ pc' = [pc EXCEPT ![k] = "blocked"]
            /\ rconn' = [rconn EXCEPT ![k] = seen]
            /\ status' = status
        BY <2>1, <3>2
      <4>2. seen \in Conns \cup {0}
        BY DEF TypeOK
      <4>3. rconn' \in [Conns -> Conns \cup {0}]
        BY <4>1, <4>2 DEF TypeOK
      <4> QED BY <4>1, <4>3 DEF TypeOK
    <3> QED BY <3>1, <3>2
  <2> QED BY <1>2, <2>2 DEF LoadConn, TypeOK
<1>3. CASE ReceiveChunk(k)
  <2> DEFINE in == inbox[rconn[k]]
  <2>1. PICK n \in 1 .. Len(in) :
          /\ rbuf' = [rbuf EXCEPT ![k] = Join(@, SubSeq(in, 1, n))]
          /\ inbox' = [inbox EXCEPT ![rconn[k]] = SubSeq(@, n + 1, Len(@))]
    BY <1>3 DEF ReceiveChunk
  <2>2. rconn[k] \in Conns /\ in \in Seq(Piece)
    BY <1>3 DEF ReceiveChunk, ReadersReady, TypeOK
  <2>3. /\ SubSeq(in, 1, n) \in Seq(Piece) /\ SubSeq(in, 1, n) # <<>>
        /\ SubSeq(in, n + 1, Len(in)) \in Seq(Piece)
    <3>1. /\ Len(in) \in Nat /\ \A i \in 1 .. n : in[i] \in Piece
          /\ \A i \in n + 1 .. Len(in) : in[i] \in Piece
      BY <2>2, ElementOfSeq, LenProperties
    <3>2. SubSeq(in, 1, n) \in Seq(Piece) /\ Len(SubSeq(in, 1, n)) = n
      BY <3>1, SubSeqProperties
    <3>3. SubSeq(in, n + 1, Len(in)) \in Seq(Piece)
      BY <3>1, SubSeqProperties
    <3> QED BY <3>2, <3>3
  <2>4. rbuf' \in [Conns -> Seq(Piece)]
    BY <2>1, <2>3, JoinType DEF TypeOK
  <2>5. inbox' \in [Conns -> Seq(Piece)]
    BY <2>1, <2>3 DEF TypeOK
  <2>6. pc' \in [Conns -> {"unborn", "check", "load", "blocked", "emit", "body", "done"}]
    BY <1>3 DEF ReceiveChunk, TypeOK
  <2> QED BY <1>3, <2>4, <2>5, <2>6 DEF ReceiveChunk, TypeOK
<1>4. CASE ConnFails(k)
  BY <1>4, ReadFailsType DEF ConnFails, TypeOK
<1>5. CASE WriteLength(k)
  <2>1. rbuf[k] \in Seq(Piece) /\ rbuf[k] # <<>>
    BY <1>5 DEF WriteLength, ReadersReady, TypeOK
  <2>2. Head(rbuf[k]).line \in 0 .. MaxLines
    BY <2>1, HeadType
  <2>3. stdout' \in Seq(Part)
    BY <1>5, <2>2, AppendProperties DEF WriteLength, Part, TypeOK
  <2> QED BY <1>5, <2>3 DEF WriteLength, TypeOK
<1>6. CASE WriteBody(k)
  <2>1. rbuf[k] \in Seq(Piece) /\ rbuf[k] # <<>>
    BY <1>6 DEF WriteBody, ReadersReady, TypeOK
  <2>2. Head(rbuf[k]).line \in 0 .. MaxLines /\ Tail(rbuf[k]) \in Seq(Piece)
    BY <2>1, HeadType, HeadTailProperties
  <2>3. stdout' \in Seq(Part)
    BY <1>6, <2>2, AppendProperties DEF WriteBody, Part, TypeOK
  <2>4. rbuf' \in [Conns -> Seq(Piece)]
    BY <1>6, <2>2 DEF WriteBody, DropWritten, TypeOK
  <2>5. pc' \in [Conns -> {"unborn", "check", "load", "blocked", "emit", "body", "done"}]
    BY <1>6 DEF WriteBody, TypeOK
  <2> QED BY <1>6, <2>3, <2>4, <2>5 DEF WriteBody, TypeOK
<1>7. CASE WriteFails(k)
  BY <1>7 DEF WriteFails, TypeOK
<1> QED BY <1>1, <1>2, <1>3, <1>4, <1>5, <1>6, <1>7 DEF PipeReader

(* The steps of the host keep the types. *)
LEMMA HostType == TypeOK /\ (HostStarts \/ HostEnds \/ HostSends) => TypeOK'
<1> SUFFICES ASSUME TypeOK, HostStarts \/ HostEnds \/ HostSends PROVE TypeOK'
  OBVIOUS
<1> USE DEF stdinVars, readerVars, hostVars
<1>1. CASE HostStarts
  BY <1>1, BoundsAssumption DEF HostStarts, TypeOK
<1>2. CASE HostEnds
  <2>1. Torn \in Piece
    BY BoundsAssumption DEF Torn, Piece
  <2>2. inbox' \in [Conns -> Seq(Piece)]
    BY <1>2, <2>1, AppendProperties DEF HostEnds, TypeOK
  <2>3. link' \in [Conns -> {"none", "open", "hungup", "closed"}]
    BY <1>2 DEF HostEnds, TypeOK
  <2> QED BY <1>2, <2>2, <2>3 DEF HostEnds, TypeOK
<1>3. CASE HostSends
  <2>1. lines + 1 \in 0 .. MaxLines /\ Line(lines + 1) \in Piece
    BY <1>3, BoundsAssumption DEF HostSends, Line, Piece, TypeOK
  <2>2. inbox' \in [Conns -> Seq(Piece)]
    BY <1>3, <2>1, AppendProperties DEF HostSends, TypeOK
  <2> QED BY <1>3, <2>1, <2>2 DEF HostSends, TypeOK
<1> QED BY <1>1, <1>2, <1>3

(* A reader about to write has a piece to write, and so on, after every    *)
(* step of a reader; nobody else touches these variables but to start one. *)
LEMMA NextReady ==
  ASSUME TypeOK, ReadersReady, [Next]_vars
  PROVE  ReadersReady'
<1>1. CASE UNCHANGED <<pc, rconn, rbuf>>
  BY <1>1 DEF ReadersReady
<1>2. CASE DialSucceeds
  BY <1>2 DEF DialSucceeds, ReadersReady, TypeOK
<1>3. ASSUME NEW k \in Conns, CheckConn(k) PROVE ReadersReady'
  <2>1. CASE conn = 0
    BY <1>3, <2>1 DEF CheckConn, ReadFails, ReadersReady, TypeOK
  <2>2. CASE conn # 0
    BY <1>3, <2>2 DEF CheckConn, ReadersReady, TypeOK
  <2> QED BY <2>1, <2>2
<1>4. ASSUME NEW k \in Conns, LoadConn(k) PROVE ReadersReady'
  <2>1. PICK seen \in {rconn[k], conn} :
          IF seen = 0
          THEN UNCHANGED <<pc, rconn>>
          ELSE /\ pc' = [pc EXCEPT ![k] = "blocked"]
               /\ rconn' = [rconn EXCEPT ![k] = seen]
    BY <1>4 DEF LoadConn
  <2>2. seen \in Conns \cup {0} /\ rbuf' = rbuf
    BY <1>4 DEF LoadConn, TypeOK
  <2>3. CASE seen = 0
    BY <2>1, <2>2, <2>3 DEF ReadersReady
  <2>4. CASE seen # 0
    BY <2>1, <2>2, <2>4 DEF ReadersReady, TypeOK
  <2> QED BY <2>3, <2>4
<1>5. ASSUME NEW k \in Conns, ReceiveChunk(k) PROVE ReadersReady'
  BY <1>5 DEF ReceiveChunk, HasLine, ReadersReady, TypeOK
<1>6. ASSUME NEW k \in Conns, ConnFails(k) PROVE ReadersReady'
  BY <1>6 DEF ConnFails, ReadFails, ReadersReady, TypeOK
<1>7. ASSUME NEW k \in Conns, WriteLength(k) PROVE ReadersReady'
  BY <1>7 DEF WriteLength, ReadersReady, TypeOK
<1>8. ASSUME NEW k \in Conns, WriteBody(k) PROVE ReadersReady'
  BY <1>8 DEF WriteBody, HasLine, ReadersReady, TypeOK
<1>9. ASSUME \/ ChromeSends \/ ChromeDisconnects \/ StdinReader
             \/ DialFails \/ Wake \/ ForwardMessage \/ ReaderIsDone \/ ClosePipe
             \/ HostStarts \/ HostEnds \/ HostSends
             \/ \E k \in Conns : WriteFails(k)
             \/ UNCHANGED vars
      PROVE  UNCHANGED <<pc, rconn, rbuf>>
  BY <1>9 DEF ChromeSends, ChromeDisconnects, StdinReader, TakeMessage, StdinEOF,
              DialFails, Wake, ForwardMessage, ReaderIsDone, ClosePipe, HostStarts,
              HostEnds, HostSends, WriteFails, vars, readerVars
<1> QED BY <1>1, <1>2, <1>3, <1>4, <1>5, <1>6, <1>7, <1>8, <1>9
        DEF Next, MainLoop, PipeReader

(* Every step keeps every variable in its type. *)
LEMMA NextType ==
  ASSUME TypeOK, ReadersReady, [Next]_vars
  PROVE  TypeOK'
<1>1. CASE UNCHANGED vars
  BY <1>1 DEF vars, stdinVars, readerVars, hostVars, TypeOK
<1> QED BY <1>1, MainLoopType, StdinType, PipeReaderType, HostType DEF Next

(* Type correctness, with what a reader needs for its next step. *)
THEOREM TypeCorrect == Spec => [](TypeOK /\ ReadersReady)
<1>1. Init => TypeOK /\ ReadersReady
  BY InitType DEF Init, ReadersReady
<1>2. TypeOK /\ ReadersReady /\ [Next]_vars => TypeOK' /\ ReadersReady'
  BY NextType, NextReady
<1> QED BY <1>1, <1>2, PTL DEF Spec

-----------------------------------------------------------------------------
(* The order of the messages. *)

(* Nothing is delivered or queued that the stdin reader has not read. *)
NothingFromTheFuture ==
  /\ \A i \in DOMAIN delivered : delivered[i] <= read
  /\ \A i \in DOMAIN queue : queue[i] <= read

(* Appending a number beyond all elements keeps a sequence increasing. *)
LEMMA AppendIncreasing ==
  ASSUME NEW s \in Seq(Msgs), Increasing(s), NEW m \in Msgs,
         \A i \in DOMAIN s : s[i] < m
  PROVE  /\ Append(s, m) \in Seq(Msgs)
         /\ Increasing(Append(s, m))
         /\ \A i \in DOMAIN Append(s, m) : Append(s, m)[i] = m \/ \E j \in DOMAIN s : Append(s, m)[i] = s[j]
<1>1. /\ Append(s, m) \in Seq(Msgs)
      /\ Len(s) \in Nat
      /\ DOMAIN s = 1 .. Len(s)
      /\ DOMAIN Append(s, m) = 1 .. Len(s) + 1
      /\ \A i \in 1 .. Len(s) : Append(s, m)[i] = s[i]
      /\ Append(s, m)[Len(s) + 1] = m
  BY AppendProperties, LenProperties
<1>2. \A i \in DOMAIN Append(s, m) : i \in DOMAIN s \/ i = Len(s) + 1
  BY <1>1
<1>3. Increasing(Append(s, m))
  <2> SUFFICES ASSUME NEW i \in DOMAIN Append(s, m), NEW j \in DOMAIN Append(s, m), i < j
               PROVE  Append(s, m)[i] < Append(s, m)[j]
    BY DEF Increasing
  <2>1. i \in DOMAIN s
    BY <1>1
  <2> QED BY <1>1, <1>2, <2>1 DEF Increasing
<1> QED BY <1>1, <1>2, <1>3

(* The tail of an increasing sequence is increasing, and all of it is      *)
(* beyond the head.                                                        *)
LEMMA TailIncreasing ==
  ASSUME NEW s \in Seq(Msgs), Increasing(s), s # <<>>
  PROVE  /\ Increasing(Tail(s))
         /\ \A i \in DOMAIN Tail(s) : Head(s) < Tail(s)[i]
         /\ \A i \in DOMAIN Tail(s) : \E j \in DOMAIN s : Tail(s)[i] = s[j]
         /\ Head(s) \in Msgs /\ \E j \in DOMAIN s : Head(s) = s[j]
<1>1. /\ Len(s) \in Nat \ {0}
      /\ DOMAIN s = 1 .. Len(s)
      /\ DOMAIN Tail(s) = 1 .. Len(s) - 1
      /\ \A i \in 1 .. Len(s) - 1 : Tail(s)[i] = s[i + 1]
      /\ Head(s) = s[1] /\ Head(s) \in Msgs
  BY EmptySeq, HeadTailProperties, LenProperties
<1>2. \A i \in DOMAIN Tail(s) : i + 1 \in DOMAIN s /\ 1 \in DOMAIN s /\ 1 < i + 1
  BY <1>1
<1> QED BY <1>1, <1>2 DEF Increasing

(* Every step keeps the order. *)
LEMMA NextInOrder ==
  ASSUME TypeOK, DeliveredInOrder, NothingFromTheFuture, [Next]_vars
  PROVE  DeliveredInOrder' /\ NothingFromTheFuture'
<1>1. CASE TakeMessage
  <2>1. /\ read + 1 \in Msgs /\ read' = read + 1 /\ read \in Nat
        /\ queue \in Seq(Msgs) /\ delivered \in Seq(Msgs) /\ delivered' = delivered
    BY <1>1, BoundsAssumption DEF TakeMessage, TypeOK, Msgs
  <2>2. /\ \A i \in DOMAIN queue : queue[i] \in Msgs /\ queue[i] < read + 1
        /\ \A i \in DOMAIN delivered : delivered[i] \in Msgs /\ delivered[i] < read + 1
    <3>1. /\ \A i \in DOMAIN queue : queue[i] \in Msgs
          /\ \A i \in DOMAIN delivered : delivered[i] \in Msgs
      BY <2>1, ElementOfSeq, LenProperties
    <3>2. \A m \in Msgs : m <= read => m < read + 1
      BY <2>1, BoundsAssumption DEF Msgs
    <3> QED BY <3>1, <3>2 DEF NothingFromTheFuture
  <2>3. CASE queue' = queue
    BY <2>1, <2>2, <2>3 DEF DeliveredInOrder, NothingFromTheFuture, Msgs
  <2>4. CASE queue' = Append(queue, read + 1)
    <3>1. /\ Increasing(queue')
          /\ \A i \in DOMAIN queue' : queue'[i] = read + 1 \/ \E j \in DOMAIN queue : queue'[i] = queue[j]
      BY <2>1, <2>2, <2>4, AppendIncreasing DEF DeliveredInOrder
    <3> QED BY <2>1, <2>2, <3>1 DEF DeliveredInOrder, NothingFromTheFuture, Msgs
  <2> QED BY <1>1, <2>3, <2>4 DEF TakeMessage, Enqueue
<1>2. CASE ForwardMessage
  <2>1. /\ queue \in Seq(Msgs) /\ delivered \in Seq(Msgs) /\ queue # <<>>
        /\ queue' = Tail(queue) /\ read' = read
    BY <1>2 DEF ForwardMessage, TypeOK
  <2>2. /\ Increasing(queue')
        /\ \A i \in DOMAIN queue' : Head(queue) < queue'[i]
        /\ \A i \in DOMAIN queue' : \E j \in DOMAIN queue : queue'[i] = queue[j]
        /\ Head(queue) \in Msgs /\ \E j \in DOMAIN queue : Head(queue) = queue[j]
    BY <2>1, TailIncreasing DEF DeliveredInOrder
  <2>3. CASE delivered' = delivered
    BY <2>1, <2>2, <2>3 DEF DeliveredInOrder, NothingFromTheFuture
  <2>4. CASE delivered' = Append(delivered, Head(queue))
    <3>1. /\ Increasing(delivered')
          /\ \A i \in DOMAIN delivered' :
               delivered'[i] = Head(queue) \/ \E j \in DOMAIN delivered : delivered'[i] = delivered[j]
      BY <2>1, <2>2, <2>4, AppendIncreasing DEF DeliveredInOrder
    <3> QED BY <2>1, <2>2, <3>1 DEF DeliveredInOrder, NothingFromTheFuture
  <2> QED BY <1>2, <2>3, <2>4 DEF ForwardMessage
<1>3. CASE UNCHANGED <<delivered, queue, read>>
  BY <1>3 DEF DeliveredInOrder, NothingFromTheFuture
<1>4. ASSUME \/ ChromeSends \/ ChromeDisconnects \/ StdinEOF
             \/ DialSucceeds \/ DialFails \/ Wake \/ ReaderIsDone \/ ClosePipe
             \/ HostStarts \/ HostEnds \/ HostSends
             \/ \E k \in Conns : PipeReader(k)
             \/ UNCHANGED vars
      PROVE  UNCHANGED <<delivered, queue, read>>
  BY <1>4 DEF ChromeSends, ChromeDisconnects, StdinEOF, DialSucceeds, DialFails, Wake,
              ReaderIsDone, ClosePipe, HostStarts, HostEnds, HostSends, PipeReader,
              CheckConn, LoadConn, ReceiveChunk, ConnFails, WriteLength, WriteBody,
              WriteFails, vars, stdinVars
<1> QED BY <1>1, <1>2, <1>3, <1>4 DEF Next, StdinReader, MainLoop

(* The hosts receive the browser's messages in order and at most once, for *)
(* every capacity of the channel and any number of reconnections.          *)
THEOREM AlwaysInOrder == Spec => []DeliveredInOrder
<1>1. Init => DeliveredInOrder /\ NothingFromTheFuture
  BY DEF Init, DeliveredInOrder, NothingFromTheFuture, Increasing
<1>2. TypeOK /\ DeliveredInOrder /\ NothingFromTheFuture /\ [Next]_vars
        => DeliveredInOrder' /\ NothingFromTheFuture'
  BY NextInOrder
<1> QED BY <1>1, <1>2, TypeCorrect, PTL DEF Spec

-----------------------------------------------------------------------------
(* The connections. *)

(* The reader of the connection that is served reads from that connection, *)
(* and it has failed only if the host has hung up; a connection that was   *)
(* never made has no reader.                                               *)
OwnReader ==
  /\ \A k \in Conns : link[k] = "none" => pc[k] = "unborn" /\ ~rerr[k]
  /\ main = "serving" =>
       /\ pc[conn] \in {"load", "blocked"} => rconn[conn] = conn
       /\ rerr[conn] => link[conn] = "hungup"

(* The steps of the main loop keep at most one connection unclosed, and    *)
(* the one that is served has a reader of its own.                         *)
LEMMA MainLoopOneLive ==
  ASSUME TypeOK, OneLiveConnection, OwnReader, MainLoop
  PROVE  OneLiveConnection' /\ OwnReader'
<1>1. CASE DialSucceeds
  <2>1. PICK k \in Conns : /\ link[k] = "none" /\ conn' = k
                           /\ link' = [link EXCEPT ![k] = "open"]
                           /\ pc' = [pc EXCEPT ![k] = "check"]
    BY <1>1 DEF DialSucceeds
  <2>2. main = "dialing" /\ main' = "serving" /\ UNCHANGED <<rconn, rerr>>
    BY <1>1 DEF DialSucceeds
  <2>3. /\ link'[k] = "open" /\ pc'[k] = "check"
        /\ \A j \in Conns \ {k} : link'[j] = link[j] /\ pc'[j] = pc[j]
        /\ k # 0 /\ ~rerr[k]
    BY <2>1 DEF TypeOK, OwnReader, Conns
  <2> QED BY <2>1, <2>2, <2>3 DEF OneLiveConnection, OwnReader
<1>2. CASE ForwardMessage
  BY <1>2 DEF ForwardMessage, OneLiveConnection, OwnReader, readerVars
<1>3. CASE DialFails \/ Wake \/ ReaderIsDone
  BY <1>3 DEF DialFails, Wake, ReaderIsDone, OneLiveConnection, OwnReader, readerVars
<1>4. CASE ClosePipe
  BY <1>4 DEF ClosePipe, OneLiveConnection, OwnReader, readerVars, TypeOK
<1> QED BY <1>1, <1>2, <1>3, <1>4 DEF MainLoop

(* A reader that is done, or fails, reads from a connection that has       *)
(* ended; readers of earlier connections have no say.                      *)
LEMMA PipeReaderOneLive ==
  ASSUME TypeOK, OneLiveConnection, OwnReader, NEW k \in Conns, PipeReader(k)
  PROVE  OneLiveConnection' /\ OwnReader'
<1>1. UNCHANGED <<link, conn, main>> /\ pc[k] # "unborn"
  BY DEF PipeReader, CheckConn, LoadConn, ReceiveChunk, ConnFails, WriteLength, WriteBody,
         WriteFails
<1>2. /\ \A j \in Conns \ {k} : pc'[j] = pc[j] /\ rconn'[j] = rconn[j] /\ rerr'[j] = rerr[j]
      /\ pc'[k] \in {"load", "blocked"} =>
           rconn'[k] = conn \/ (rconn'[k] = rconn[k] /\ pc[k] \in {"load", "blocked"})
      /\ rerr'[k] \/ pc'[k] = "done" =>
           \/ rerr[k]
           \/ conn = 0
           \/ pc[k] = "blocked" /\ link[rconn[k]] \in {"closed", "hungup"}
  <2>1. CASE CheckConn(k)
    <3>1. CASE conn = 0
      BY <2>1, <3>1 DEF CheckConn, ReadFails, TypeOK
    <3>2. CASE conn # 0
      BY <2>1, <3>2 DEF CheckConn, TypeOK
    <3> QED BY <3>1, <3>2
  <2>2. CASE LoadConn(k)
    <3>1. PICK seen \in {rconn[k], conn} :
            IF seen = 0 THEN UNCHANGED <<pc, rconn>>
            ELSE /\ pc' = [pc EXCEPT ![k] = "blocked"]
                 /\ rconn' = [rconn EXCEPT ![k] = seen]
      BY <2>2 DEF LoadConn
    <3>2. rerr' = rerr /\ pc[k] = "load"
      BY <2>2 DEF LoadConn
    <3>3. CASE seen = 0
      BY <3>1, <3>2, <3>3 DEF TypeOK
    <3>4. CASE seen # 0
      BY <3>1, <3>2, <3>4 DEF TypeOK
    <3> QED BY <3>3, <3>4
  <2>3. CASE ReceiveChunk(k)
    BY <2>3 DEF ReceiveChunk, TypeOK
  <2>4. CASE ConnFails(k)
    BY <2>4 DEF ConnFails, ReadFails, TypeOK
  <2>5. CASE WriteLength(k)
    BY <2>5 DEF WriteLength, TypeOK
  <2>6. CASE WriteBody(k)
    BY <2>6 DEF WriteBody, TypeOK
  <2>7. CASE WriteFails(k)
    BY <2>7 DEF WriteFails, readerVars, TypeOK
  <2> QED BY <2>1, <2>2, <2>3, <2>4, <2>5, <2>6, <2>7 DEF PipeReader
<1>3. ASSUME main = "serving"
      PROVE  /\ conn \in Conns /\ conn # 0 /\ link[conn] \in {"open", "hungup"}
             /\ pc'[conn] \in {"load", "blocked"} => rconn'[conn] = conn
             /\ rerr'[conn] \/ pc'[conn] = "done" => link[conn] = "hungup"
  <2>1. conn \in Conns /\ conn # 0 /\ link[conn] \in {"open", "hungup"}
    BY <1>3 DEF OneLiveConnection, TypeOK
  <2>2. CASE conn = k
    BY <1>2, <1>3, <2>1, <2>2 DEF OneLiveConnection, OwnReader
  <2>3. CASE conn # k
    BY <1>2, <1>3, <2>1, <2>3 DEF OneLiveConnection, OwnReader
  <2> QED BY <2>1, <2>2, <2>3
<1>4. \A j \in Conns : link[j] = "none" => pc'[j] = "unborn" /\ ~rerr'[j]
  BY <1>1, <1>2 DEF OwnReader
<1> QED BY <1>1, <1>3, <1>4 DEF OneLiveConnection, OwnReader

(* Every step keeps at most one connection unclosed, the main loop's, and  *)
(* its reader at work as long as the host is.                              *)
LEMMA NextOneLive ==
  ASSUME TypeOK, OneLiveConnection, OwnReader, [Next]_vars
  PROVE  OneLiveConnection' /\ OwnReader'
<1>1. CASE HostEnds
  <2>1. /\ \A k \in Conns : link'[k] = IF link[k] = "open" THEN "hungup" ELSE link[k]
        /\ UNCHANGED <<main, conn, pc, rconn, rerr>>
    BY <1>1 DEF HostEnds, readerVars
  <2> QED BY <2>1 DEF OneLiveConnection, OwnReader, TypeOK
<1>2. CASE UNCHANGED <<link, conn, main, pc, rconn, rerr>>
  BY <1>2 DEF OneLiveConnection, OwnReader
<1>3. ASSUME \/ ChromeSends \/ ChromeDisconnects \/ TakeMessage \/ StdinEOF
             \/ HostStarts \/ HostSends
             \/ UNCHANGED vars
      PROVE  UNCHANGED <<link, conn, main, pc, rconn, rerr>>
  BY <1>3 DEF ChromeSends, ChromeDisconnects, TakeMessage, StdinEOF, HostStarts,
              HostSends, readerVars, vars
<1> QED BY <1>1, <1>2, <1>3, MainLoopOneLive, PipeReaderOneLive DEF Next, StdinReader

(* Initially there is no connection. *)
LEMMA InitOneLive == Init => OneLiveConnection /\ OwnReader
  BY DEF Init, OneLiveConnection, OwnReader

(* No reconnect leaves a connection behind, however many hosts come and    *)
(* go: only the main loop's current connection is ever unclosed, and it is *)
(* given up only after the host has ended it.                              *)
THEOREM AlwaysOneLive == Spec => [](OneLiveConnection /\ OwnReader)
<1>1. TypeOK /\ OneLiveConnection /\ OwnReader /\ [Next]_vars
        => OneLiveConnection' /\ OwnReader'
  BY NextOneLive
<1> QED BY <1>1, InitOneLive, TypeCorrect, PTL DEF Spec

-----------------------------------------------------------------------------
(* The lines of the host. *)

(* The lines in a sequence of pieces, and that none is there twice.  0 is  *)
(* a piece that is no line.                                                *)
Told(s) == {s[i].line : i \in DOMAIN s} \ {0}
Single(s) == \A i, j \in DOMAIN s : s[i].line = s[j].line /\ s[i].line # 0 => i = j

(* The lines whose bodies were written to stdout. *)
Written == {stdout[i].line : i \in {i \in DOMAIN stdout : stdout[i].part = "body"}} \ {0}

(* A line the host has written is in one place only: in the pipe of one    *)
(* connection, in the buffer of one reader, or on stdout.                  *)
LinesInOnePlace ==
  /\ \A k \in Conns : /\ Single(inbox[k]) /\ Single(rbuf[k])
                      /\ Told(inbox[k]) \subseteq 1 .. lines
                      /\ Told(rbuf[k]) \subseteq 1 .. lines
                      /\ Told(inbox[k]) \cap Written = {}
                      /\ Told(rbuf[k]) \cap Written = {}
  /\ \A k, j \in Conns : /\ k # j => /\ Told(inbox[k]) \cap Told(inbox[j]) = {}
                                     /\ Told(rbuf[k]) \cap Told(rbuf[j]) = {}
                         /\ Told(inbox[k]) \cap Told(rbuf[j]) = {}
  /\ Written \subseteq 1 .. lines

(* Cutting a sequence in two divides its lines. *)
LEMMA CutDivides ==
  ASSUME NEW s \in Seq(Piece), Single(s), NEW n \in 1 .. Len(s)
  PROVE  /\ Single(SubSeq(s, 1, n)) /\ Single(SubSeq(s, n + 1, Len(s)))
         /\ Told(SubSeq(s, 1, n)) \subseteq Told(s)
         /\ Told(SubSeq(s, n + 1, Len(s))) \subseteq Told(s)
         /\ Told(SubSeq(s, 1, n)) \cap Told(SubSeq(s, n + 1, Len(s))) = {}
<1> DEFINE a == SubSeq(s, 1, n)
           b == SubSeq(s, n + 1, Len(s))
<1>1. Len(s) \in Nat /\ DOMAIN s = 1 .. Len(s) /\ \A i \in 1 .. Len(s) : s[i] \in Piece
  BY ElementOfSeq, LenProperties
<1>2. DOMAIN a = 1 .. n /\ \A i \in 1 .. n : a[i] = s[i]
  BY <1>1, SubSeqProperties
<1>3. DOMAIN b = 1 .. Len(s) - n /\ \A i \in 1 .. Len(s) - n : b[i] = s[n + i]
  BY <1>1, SubSeqProperties
<1>4. \A i \in 1 .. Len(s) - n : n + i \in DOMAIN s /\ n + i > n
  BY <1>1
<1>5. \A i \in 1 .. n : i \in DOMAIN s
  BY <1>1
<1>6. Single(a) /\ Told(a) \subseteq Told(s)
  BY <1>2, <1>5 DEF Single, Told
<1>7. Single(b)
  <2> SUFFICES ASSUME NEW i \in 1 .. Len(s) - n, NEW j \in 1 .. Len(s) - n,
                      b[i].line = b[j].line, b[i].line # 0
               PROVE  i = j
    BY <1>3 DEF Single
  <2>1. n + i = n + j
    BY <1>3, <1>4 DEF Single
  <2> QED BY <1>1, <2>1
<1>8. Told(b) \subseteq Told(s)
  BY <1>3, <1>4 DEF Told
<1>9. Told(a) \cap Told(b) = {}
  <2> SUFFICES ASSUME NEW i \in 1 .. n, NEW j \in 1 .. Len(s) - n,
                      a[i].line = b[j].line, a[i].line # 0
               PROVE  FALSE
    BY <1>2, <1>3 DEF Told
  <2>1. i = n + j
    BY <1>2, <1>3, <1>4, <1>5 DEF Single
  <2> QED BY <1>1, <1>4, <2>1
<1> QED BY <1>6, <1>7, <1>8, <1>9

(* Each piece of a joined buffer is 0 or a piece of one of its two parts,  *)
(* and no piece is used for two.                                           *)
LEMMA JoinKeeps ==
  ASSUME NEW s \in Seq(Piece), NEW t \in Seq(Piece), t # <<>>,
         Single(s), Single(t), Told(s) \cap Told(t) = {}
  PROVE  Single(Join(s, t)) /\ Told(Join(s, t)) \subseteq Told(s) \cup Told(t)
<1>1. /\ Len(s) \in Nat /\ DOMAIN s = 1 .. Len(s)
      /\ Len(t) \in Nat \ {0} /\ DOMAIN t = 1 .. Len(t)
  BY EmptySeq, LenProperties
<1> DEFINE u == Join(s, t)
<1>2. CASE ~(s # <<>> /\ ~s[Len(s)].complete)
  <2>1. u = s \o t
    BY <1>2 DEF Join
  <2>2. /\ DOMAIN u = 1 .. Len(s) + Len(t)
        /\ \A i \in 1 .. Len(s) : u[i] = s[i]
        /\ \A i \in Len(s) + 1 .. Len(s) + Len(t) : u[i] = t[i - Len(s)]
    BY <1>1, <2>1, ConcatProperties
  <2>3. \A i \in DOMAIN u : \/ i \in DOMAIN s /\ u[i] = s[i]
                            \/ i - Len(s) \in DOMAIN t /\ u[i] = t[i - Len(s)]
    BY <1>1, <2>2
  <2> HIDE DEF u
  <2>4. Told(u) \subseteq Told(s) \cup Told(t)
    BY <2>3 DEF Told
  <2>5. Single(u)
    <3> SUFFICES ASSUME NEW i \in DOMAIN u, NEW j \in DOMAIN u,
                        u[i].line = u[j].line, u[i].line # 0
                 PROVE  i = j
      BY DEF Single
    <3>1. i \in Nat /\ j \in Nat
      BY <1>1, <2>2
    <3>2. CASE i \in DOMAIN s /\ u[i] = s[i] /\ j \in DOMAIN s /\ u[j] = s[j]
      BY <3>2 DEF Single
    <3>3. CASE /\ i - Len(s) \in DOMAIN t /\ u[i] = t[i - Len(s)]
               /\ j - Len(s) \in DOMAIN t /\ u[j] = t[j - Len(s)]
      <4>1. i - Len(s) = j - Len(s)
        BY <3>3 DEF Single
      <4> QED BY <1>1, <3>1, <4>1
    <3>4. ~(u[i].line \in Told(s) /\ u[j].line \in Told(t))
      OBVIOUS
    <3>5. ~(u[i].line \in Told(t) /\ u[j].line \in Told(s))
      OBVIOUS
    <3> QED BY <2>3, <3>2, <3>3, <3>4, <3>5 DEF Told
  <2> QED BY <2>4, <2>5 DEF u
<1>3. CASE s # <<>> /\ ~s[Len(s)].complete
  <2> DEFINE h == SubSeq(s, 1, Len(s) - 1)
             x == [line |-> 0, complete |-> Head(t).complete]
             v == h \o <<x>>
  <2>1. u = v \o Tail(t)
    BY <1>3 DEF Join
  <2>2. Len(s) \in Nat \ {0}
    BY <1>1, <1>3, EmptySeq
  <2>3. h \in Seq(Piece) /\ Len(h) = Len(s) - 1 /\ \A i \in 1 .. Len(s) - 1 : h[i] = s[i]
    <3>1. \A i \in 1 .. Len(s) - 1 : s[i] \in Piece
      BY <2>2, ElementOfSeq, LenProperties
    <3>2. Len(s) - 1 \in Nat
      BY <2>2
    <3> DEFINE m == Len(s) - 1
    <3> HIDE DEF m
    <3>3. m \in Nat /\ \A i \in 1 .. m : s[i] \in Piece
      BY <3>1, <3>2 DEF m
    <3>4. /\ SubSeq(s, 1, m) \in Seq(Piece) /\ Len(SubSeq(s, 1, m)) = m
          /\ \A i \in 1 .. m : SubSeq(s, 1, m)[i] = s[i]
      BY <3>3, SubSeqProperties
    <3> QED BY <3>4 DEF m
  <2>4. x \in Piece
    <3>1. 0 \in 0 .. MaxLines
      BY BoundsAssumption
    <3> QED BY <3>1, HeadType DEF Piece
  <2>5. /\ v \in Seq(Piece) /\ Len(v) = Len(s)
        /\ \A i \in 1 .. Len(s) - 1 : v[i] = s[i]
        /\ v[Len(s)] = x
    <3>1. v = Append(h, x)
      BY <2>3, <2>4
    <3>2. /\ Append(h, x) \in Seq(Piece) /\ Len(Append(h, x)) = Len(h) + 1
          /\ \A i \in 1 .. Len(h) : Append(h, x)[i] = h[i]
          /\ Append(h, x)[Len(h) + 1] = x
      BY <2>3, <2>4, AppendProperties
    <3> QED BY <2>2, <2>3, <3>1, <3>2
  <2>6. /\ Tail(t) \in Seq(Piece) /\ Len(Tail(t)) = Len(t) - 1
        /\ \A i \in 1 .. Len(t) - 1 : Tail(t)[i] = t[i + 1]
    BY <1>1, HeadTailProperties
  <2>7. /\ DOMAIN u = 1 .. Len(s) + Len(t) - 1
        /\ \A i \in 1 .. Len(s) : u[i] = v[i]
        /\ \A i \in Len(s) + 1 .. Len(s) + Len(t) - 1 : u[i] = Tail(t)[i - Len(s)]
    BY <1>1, <2>1, <2>5, <2>6, ConcatProperties
  <2> HIDE DEF u, v
  <2>8. \A i \in DOMAIN u : \/ i \in DOMAIN s /\ u[i] = s[i]
                            \/ u[i].line = 0
                            \/ i - Len(s) + 1 \in DOMAIN t /\ i > Len(s) /\ u[i] = t[i - Len(s) + 1]
    <3> TAKE i \in DOMAIN u
    <3>1. CASE i \in 1 .. Len(s) - 1
      BY <1>1, <2>2, <2>5, <2>7, <3>1
    <3>2. CASE i = Len(s)
      BY <2>2, <2>5, <2>7, <3>2
    <3>3. CASE i > Len(s)
      <4>1. i - Len(s) \in 1 .. Len(t) - 1
        BY <1>1, <2>7, <3>3
      <4>2. u[i] = Tail(t)[i - Len(s)] /\ Tail(t)[i - Len(s)] = t[i - Len(s) + 1]
        BY <1>1, <2>6, <2>7, <3>3, <4>1
      <4>3. i - Len(s) + 1 \in DOMAIN t
        BY <1>1, <4>1
      <4> QED BY <3>3, <4>2, <4>3
    <3> QED BY <1>1, <2>7, <3>1, <3>2, <3>3
  <2>9. Told(u) \subseteq Told(s) \cup Told(t)
    BY <2>8 DEF Told
  <2>10. Single(u)
    <3> SUFFICES ASSUME NEW i \in DOMAIN u, NEW j \in DOMAIN u,
                        u[i].line = u[j].line, u[i].line # 0
                 PROVE  i = j
      BY DEF Single
    <3>1. i \in Nat /\ j \in Nat
      BY <1>1, <2>7
    <3>2. CASE i \in DOMAIN s /\ u[i] = s[i] /\ j \in DOMAIN s /\ u[j] = s[j]
      BY <3>2 DEF Single
    <3>3. CASE /\ i - Len(s) + 1 \in DOMAIN t /\ u[i] = t[i - Len(s) + 1]
               /\ j - Len(s) + 1 \in DOMAIN t /\ u[j] = t[j - Len(s) + 1]
      <4>1. i - Len(s) + 1 = j - Len(s) + 1
        BY <3>3 DEF Single
      <4> QED BY <1>1, <3>1, <4>1
    <3>4. ~(u[i].line \in Told(s) /\ u[j].line \in Told(t))
      BY DEF Told
    <3>5. ~(u[i].line \in Told(t) /\ u[j].line \in Told(s))
      BY DEF Told
    <3> QED BY <2>8, <3>2, <3>3, <3>4, <3>5 DEF Told
  <2> QED BY <2>9, <2>10 DEF u
<1> QED BY <1>2, <1>3

(* The first piece is not among the others. *)
LEMMA TailLosesHead ==
  ASSUME NEW s \in Seq(Piece), Single(s), s # <<>>
  PROVE  /\ Single(Tail(s)) /\ Told(Tail(s)) \subseteq Told(s)
         /\ Head(s).line \notin Told(Tail(s))
         /\ Head(s).line # 0 => Head(s).line \in Told(s)
<1>1. /\ Len(s) \in Nat \ {0} /\ DOMAIN s = 1 .. Len(s)
      /\ DOMAIN Tail(s) = 1 .. Len(s) - 1
      /\ \A i \in 1 .. Len(s) - 1 : Tail(s)[i] = s[i + 1]
      /\ Head(s) = s[1]
  BY EmptySeq, HeadTailProperties, LenProperties
<1>2. \A i \in DOMAIN Tail(s) : i + 1 \in DOMAIN s /\ i + 1 # 1 /\ i \in Nat
  BY <1>1
<1>3. 1 \in DOMAIN s
  BY <1>1
<1>4. Single(Tail(s))
  <2> SUFFICES ASSUME NEW i \in DOMAIN Tail(s), NEW j \in DOMAIN Tail(s),
                      Tail(s)[i].line = Tail(s)[j].line, Tail(s)[i].line # 0
               PROVE  i = j
    BY DEF Single
  <2>1. i + 1 = j + 1
    BY <1>1, <1>2 DEF Single
  <2> QED BY <1>2, <2>1
<1>5. Told(Tail(s)) \subseteq Told(s)
  BY <1>1, <1>2 DEF Told
<1>6. Head(s).line \notin Told(Tail(s))
  BY <1>1, <1>2, <1>3 DEF Told, Single
<1> QED BY <1>1, <1>3, <1>4, <1>5, <1>6 DEF Told

(* Appending a piece that is no line, or one that is not there yet. *)
LEMMA AppendTold ==
  ASSUME NEW s \in Seq(Piece), Single(s), NEW x \in Piece, x.line \notin Told(s)
  PROVE  Single(Append(s, x)) /\ Told(Append(s, x)) = Told(s) \cup ({x.line} \ {0})
<1> DEFINE u == Append(s, x)
<1>1. /\ Len(s) \in Nat /\ DOMAIN s = 1 .. Len(s)
      /\ DOMAIN u = 1 .. Len(s) + 1
      /\ \A i \in 1 .. Len(s) : u[i] = s[i]
      /\ u[Len(s) + 1] = x
  BY AppendProperties, LenProperties
<1>2. \A i \in DOMAIN u : (i \in DOMAIN s /\ u[i] = s[i]) \/ (i = Len(s) + 1 /\ u[i] = x)
  BY <1>1
<1>3. DOMAIN s \subseteq DOMAIN u /\ Len(s) + 1 \in DOMAIN u
  BY <1>1
<1>4. Single(u)
  BY <1>2 DEF Single, Told
<1>5. Told(u) \subseteq Told(s) \cup ({x.line} \ {0})
  BY <1>2 DEF Told
<1>6. Told(s) \cup ({x.line} \ {0}) \subseteq Told(u)
  BY <1>1, <1>3 DEF Told
<1> QED BY <1>4, <1>5, <1>6

-----------------------------------------------------------------------------
(* What is written to stdout. *)

(* Appending a part keeps what was written; a length adds nothing to it, a *)
(* body its line, and a line that was not there stays a single one.        *)
LEMMA StdoutAppend ==
  ASSUME TypeOK, NoLineTwice, NEW x \in Part, stdout' = Append(stdout, x)
  PROVE  /\ Written' \subseteq Written \cup (IF x.part = "body" THEN {x.line} \ {0} ELSE {})
         /\ x.part = "length" \/ x.line \notin Written => NoLineTwice'
<1>1. stdout \in Seq(Part)
  BY DEF TypeOK
<1>2. /\ Len(stdout) \in Nat /\ DOMAIN stdout = 1 .. Len(stdout)
      /\ DOMAIN stdout' = 1 .. Len(stdout) + 1
      /\ \A i \in 1 .. Len(stdout) : stdout'[i] = stdout[i]
      /\ stdout'[Len(stdout) + 1] = x
  BY <1>1, AppendProperties, LenProperties
<1>3. \A i \in DOMAIN stdout' : \/ i \in DOMAIN stdout /\ stdout'[i] = stdout[i]
                                \/ i = Len(stdout) + 1 /\ stdout'[i] = x
  BY <1>2
<1>4. Written' \subseteq Written \cup (IF x.part = "body" THEN {x.line} \ {0} ELSE {})
  BY <1>3 DEF Written
<1>5. x.part = "length" \/ x.line \notin Written => NoLineTwice'
  BY <1>3 DEF NoLineTwice, Written
<1> QED BY <1>4, <1>5

(* Every step leaves each line in one place. *)
LEMMA NextLines ==
  ASSUME TypeOK, ReadersReady, LinesInOnePlace, NoLineTwice, [Next]_vars
  PROVE  LinesInOnePlace' /\ NoLineTwice'
<1>1. CASE UNCHANGED <<inbox, rbuf, stdout, lines>>
  BY <1>1 DEF LinesInOnePlace, NoLineTwice, Written
<1>2. ASSUME NEW k \in Conns, ReceiveChunk(k) PROVE LinesInOnePlace' /\ NoLineTwice'
  <2> DEFINE r == rconn[k]
  <2>1. PICK n \in 1 .. Len(inbox[r]) :
          /\ rbuf' = [rbuf EXCEPT ![k] = Join(@, SubSeq(inbox[r], 1, n))]
          /\ inbox' = [inbox EXCEPT ![r] = SubSeq(@, n + 1, Len(@))]
    BY <1>2 DEF ReceiveChunk
  <2> DEFINE chunk == SubSeq(inbox[r], 1, n)
             rest == SubSeq(inbox[r], n + 1, Len(inbox[r]))
  <2>2. r \in Conns /\ inbox[r] \in Seq(Piece) /\ rbuf[k] \in Seq(Piece)
    BY <1>2 DEF ReceiveChunk, ReadersReady, TypeOK
  <2>3. chunk \in Seq(Piece) /\ chunk # <<>>
    <3>1. Len(inbox[r]) \in Nat /\ \A i \in 1 .. n : inbox[r][i] \in Piece
      BY <2>2, ElementOfSeq, LenProperties
    <3>2. chunk \in Seq(Piece) /\ Len(chunk) = n
      BY <3>1, SubSeqProperties
    <3> QED BY <3>2
  <2>4. /\ Single(chunk) /\ Single(rest)
        /\ Told(chunk) \subseteq Told(inbox[r]) /\ Told(rest) \subseteq Told(inbox[r])
        /\ Told(chunk) \cap Told(rest) = {}
    BY <2>2, CutDivides DEF LinesInOnePlace
  <2>5. Told(rbuf[k]) \cap Told(chunk) = {}
    BY <2>2, <2>4 DEF LinesInOnePlace
  <2>6. /\ Single(Join(rbuf[k], chunk))
        /\ Told(Join(rbuf[k], chunk)) \subseteq Told(rbuf[k]) \cup Told(chunk)
    <3>1. Single(rbuf[k])
      BY DEF LinesInOnePlace
    <3> HIDE DEF chunk
    <3> QED BY <2>2, <2>3, <2>4, <2>5, <3>1, JoinKeeps
  <2>7. /\ \A j \in Conns : inbox'[j] = IF j = r THEN rest ELSE inbox[j]
        /\ \A j \in Conns : rbuf'[j] = IF j = k THEN Join(rbuf[k], chunk) ELSE rbuf[j]
    BY <2>1 DEF TypeOK
  <2>8. /\ \A j \in Conns : /\ Single(inbox'[j]) /\ Single(rbuf'[j])
                            /\ Told(inbox'[j]) \subseteq Told(inbox[j])
        /\ \A j \in Conns \ {k} : rbuf'[j] = rbuf[j]
        /\ Told(rbuf'[k]) \subseteq Told(rbuf[k]) \cup Told(chunk)
        /\ \A j \in Conns : Told(inbox'[j]) \cap Told(chunk) = {}
    <3>1. \A j \in Conns : Single(inbox'[j]) /\ Single(rbuf'[j])
      BY <2>4, <2>6, <2>7 DEF LinesInOnePlace
    <3>2. \A j \in Conns : Told(inbox'[j]) \subseteq Told(inbox[j])
      BY <2>4, <2>7
    <3>3. \A j \in Conns : Told(inbox'[j]) \cap Told(chunk) = {}
      BY <2>2, <2>4, <2>7 DEF LinesInOnePlace
    <3> QED BY <2>6, <2>7, <3>1, <3>2, <3>3
  <2>9. Written' = Written /\ lines' = lines /\ NoLineTwice'
    BY <1>2 DEF ReceiveChunk, Written, NoLineTwice, hostVars
  <2>10. Told(chunk) \subseteq 1 .. lines /\ Told(chunk) \cap Written = {}
    BY <2>2, <2>4 DEF LinesInOnePlace
  <2>11. \A j \in Conns : Told(rbuf[j]) \cap Told(chunk) = {}
    BY <2>2, <2>4 DEF LinesInOnePlace
  <2>12. \A j \in Conns : /\ Told(inbox'[j]) \subseteq 1 .. lines
                          /\ Told(rbuf'[j]) \subseteq 1 .. lines
                          /\ Told(inbox'[j]) \cap Written = {}
                          /\ Told(rbuf'[j]) \cap Written = {}
    BY <2>8, <2>10 DEF LinesInOnePlace
  <2>13. \A i, j \in Conns : /\ i # j => /\ Told(inbox'[i]) \cap Told(inbox'[j]) = {}
                                         /\ Told(rbuf'[i]) \cap Told(rbuf'[j]) = {}
                             /\ Told(inbox'[i]) \cap Told(rbuf'[j]) = {}
    <3> TAKE i, j \in Conns
    <3>1. i # j => Told(inbox'[i]) \cap Told(inbox'[j]) = {}
      BY <2>8 DEF LinesInOnePlace
    <3>2. i # j => Told(rbuf'[i]) \cap Told(rbuf'[j]) = {}
      BY <2>8, <2>11 DEF LinesInOnePlace
    <3>3. Told(inbox'[i]) \cap Told(rbuf'[j]) = {}
      BY <2>8 DEF LinesInOnePlace
    <3> QED BY <3>1, <3>2, <3>3
  <2>14. Written' \subseteq 1 .. lines'
    BY <2>9 DEF LinesInOnePlace
  <2> QED BY <2>8, <2>9, <2>12, <2>13, <2>14 DEF LinesInOnePlace
<1>3. ASSUME NEW k \in Conns, WriteLength(k) PROVE LinesInOnePlace' /\ NoLineTwice'
  <2> DEFINE x == [part |-> "length", by |-> k, line |-> Head(rbuf[k]).line]
  <2>1. rbuf[k] \in Seq(Piece) /\ rbuf[k] # <<>>
    BY <1>3 DEF WriteLength, ReadersReady, TypeOK
  <2>2. x \in Part /\ x.part = "length"
    BY <2>1, HeadType DEF Part
  <2>3. stdout' = Append(stdout, x) /\ UNCHANGED <<inbox, rbuf, lines>>
    BY <1>3 DEF WriteLength, hostVars
  <2>4. Written' \subseteq Written /\ NoLineTwice'
    BY <2>2, <2>3, StdoutAppend
  <2> QED BY <2>3, <2>4 DEF LinesInOnePlace
<1>4. ASSUME NEW k \in Conns, WriteBody(k) PROVE LinesInOnePlace' /\ NoLineTwice'
  <2> DEFINE x == [part |-> "body", by |-> k, line |-> Head(rbuf[k]).line]
  <2>1. rbuf[k] \in Seq(Piece) /\ rbuf[k] # <<>>
    BY <1>4 DEF WriteBody, ReadersReady, TypeOK
  <2>2. x \in Part /\ x.part = "body" /\ x.line = Head(rbuf[k]).line
    BY <2>1, HeadType DEF Part
  <2>3. /\ stdout' = Append(stdout, x)
        /\ rbuf' = [rbuf EXCEPT ![k] = Tail(@)]
        /\ UNCHANGED <<inbox, lines>>
    BY <1>4 DEF WriteBody, DropWritten, hostVars
  <2>4. /\ Single(Tail(rbuf[k])) /\ Told(Tail(rbuf[k])) \subseteq Told(rbuf[k])
        /\ x.line \notin Told(Tail(rbuf[k]))
        /\ x.line # 0 => x.line \in Told(rbuf[k])
    BY <2>1, <2>2, TailLosesHead DEF LinesInOnePlace
  <2>5. \A j \in Conns : rbuf'[j] = IF j = k THEN Tail(rbuf[k]) ELSE rbuf[j]
    BY <2>3 DEF TypeOK
  <2>6. x.line \notin Written
    BY <2>4 DEF LinesInOnePlace, Written
  <2>7. Written' \subseteq Written \cup ({x.line} \ {0}) /\ NoLineTwice'
    BY <2>2, <2>3, <2>6, StdoutAppend
  <2>8. \A j \in Conns : Single(rbuf'[j]) /\ Told(rbuf'[j]) \subseteq Told(rbuf[j])
    BY <2>4, <2>5 DEF LinesInOnePlace
  <2>9. \A j \in Conns : Told(rbuf'[j]) \cap ({x.line} \ {0}) = {}
    BY <2>4, <2>5 DEF LinesInOnePlace
  <2>10. \A j \in Conns : Told(inbox[j]) \cap ({x.line} \ {0}) = {}
    BY <2>4 DEF LinesInOnePlace
  <2>11. {x.line} \ {0} \subseteq 1 .. lines
    BY <2>4 DEF LinesInOnePlace
  <2>12. \A j \in Conns : /\ Told(rbuf'[j]) \subseteq 1 .. lines
                          /\ Told(inbox[j]) \cap Written' = {}
                          /\ Told(rbuf'[j]) \cap Written' = {}
    BY <2>7, <2>8, <2>9, <2>10 DEF LinesInOnePlace
  <2>13. \A i, j \in Conns : /\ i # j => Told(rbuf'[i]) \cap Told(rbuf'[j]) = {}
                             /\ Told(inbox[i]) \cap Told(rbuf'[j]) = {}
    BY <2>8 DEF LinesInOnePlace
  <2>14. Written' \subseteq 1 .. lines
    BY <2>7, <2>11 DEF LinesInOnePlace
  <2> QED BY <2>3, <2>7, <2>8, <2>12, <2>13, <2>14 DEF LinesInOnePlace
<1>5. CASE HostEnds
  <2>1. PICK torn \in SUBSET Conns :
          inbox' = [k \in Conns |-> IF k \in torn THEN Append(inbox[k], Torn) ELSE inbox[k]]
    BY <1>5 DEF HostEnds
  <2>2. UNCHANGED <<rbuf, stdout, lines>>
    BY <1>5 DEF HostEnds, readerVars
  <2>3. Torn \in Piece /\ Torn.line = 0
    BY BoundsAssumption DEF Torn, Piece
  <2>4. \A k \in Conns : Single(inbox'[k]) /\ Told(inbox'[k]) = Told(inbox[k])
    <3> TAKE k \in Conns
    <3>1. inbox[k] \in Seq(Piece) /\ Single(inbox[k]) /\ Torn.line \notin Told(inbox[k])
      BY <2>3 DEF TypeOK, LinesInOnePlace, Told
    <3>2. /\ Single(Append(inbox[k], Torn))
          /\ Told(Append(inbox[k], Torn)) = Told(inbox[k]) \cup ({Torn.line} \ {0})
      BY <2>3, <3>1, AppendTold
    <3> QED BY <2>1, <2>3, <3>1, <3>2
  <2>5. Written' = Written /\ NoLineTwice'
    BY <2>2 DEF Written, NoLineTwice
  <2> QED BY <2>2, <2>4, <2>5 DEF LinesInOnePlace
<1>6. CASE HostSends
  <2>1. PICK k \in Conns : inbox' = [inbox EXCEPT ![k] = Append(@, Line(lines + 1))]
    BY <1>6 DEF HostSends
  <2>2. lines' = lines + 1 /\ lines \in Nat /\ UNCHANGED <<rbuf, stdout>>
    BY <1>6, BoundsAssumption DEF HostSends, readerVars, TypeOK
  <2>3. Line(lines + 1) \in Piece /\ Line(lines + 1).line = lines + 1
    BY <1>6, BoundsAssumption DEF HostSends, Line, Piece, TypeOK
  <2>4. lines + 1 \notin 1 .. lines /\ 1 .. lines \subseteq 1 .. lines'
        /\ lines + 1 \in 1 .. lines'
    BY <2>2
  <2>5. inbox[k] \in Seq(Piece) /\ Single(inbox[k]) /\ lines + 1 \notin Told(inbox[k])
    BY <2>4 DEF TypeOK, LinesInOnePlace
  <2>6. /\ Single(Append(inbox[k], Line(lines + 1)))
        /\ Told(Append(inbox[k], Line(lines + 1))) \subseteq Told(inbox[k]) \cup {lines + 1}
    BY <2>3, <2>5, AppendTold
  <2>7. \A j \in Conns : inbox'[j] = IF j = k THEN Append(inbox[k], Line(lines + 1)) ELSE inbox[j]
    BY <2>1 DEF TypeOK
  <2>8. \A j \in Conns : /\ Single(inbox'[j])
                         /\ Told(inbox'[j]) \subseteq Told(inbox[j]) \cup (IF j = k THEN {lines + 1} ELSE {})
    BY <2>6, <2>7 DEF LinesInOnePlace
  <2>9. /\ \A j \in Conns : lines + 1 \notin Told(rbuf[j]) /\ lines + 1 \notin Told(inbox[j])
        /\ lines + 1 \notin Written
    BY <2>4 DEF LinesInOnePlace
  <2>10. Written' = Written /\ NoLineTwice'
    BY <2>2 DEF Written, NoLineTwice
  <2>11. \A j \in Conns : /\ Told(inbox'[j]) \subseteq 1 .. lines'
                          /\ Told(rbuf[j]) \subseteq 1 .. lines'
                          /\ Told(inbox'[j]) \cap Written = {}
    BY <2>4, <2>8, <2>9 DEF LinesInOnePlace
  <2>12. \A i, j \in Conns : /\ i # j => Told(inbox'[i]) \cap Told(inbox'[j]) = {}
                             /\ Told(inbox'[i]) \cap Told(rbuf[j]) = {}
    BY <2>8, <2>9 DEF LinesInOnePlace
  <2>13. Written \subseteq 1 .. lines'
    BY <2>4 DEF LinesInOnePlace
  <2> QED BY <2>2, <2>8, <2>10, <2>11, <2>12, <2>13 DEF LinesInOnePlace
<1>7. ASSUME \/ ChromeSends \/ ChromeDisconnects \/ StdinReader \/ MainLoop \/ HostStarts
             \/ \E k \in Conns : CheckConn(k) \/ LoadConn(k) \/ ConnFails(k) \/ WriteFails(k)
             \/ UNCHANGED vars
      PROVE  UNCHANGED <<inbox, rbuf, stdout, lines>>
  BY <1>7 DEF ChromeSends, ChromeDisconnects, StdinReader, TakeMessage, StdinEOF, MainLoop,
              DialSucceeds, DialFails, Wake, ForwardMessage, ReaderIsDone, ClosePipe,
              HostStarts, CheckConn, LoadConn, ConnFails, WriteFails, vars, readerVars,
              hostVars
<1> QED BY <1>1, <1>2, <1>3, <1>4, <1>5, <1>6, <1>7 DEF Next, PipeReader

(* No command of the desktop reaches the browser twice, however many       *)
(* connections and readers there are and in whatever order they run.       *)
THEOREM NeverTwice == Spec => []NoLineTwice
<1>1. Init => LinesInOnePlace /\ NoLineTwice
  BY DEF Init, LinesInOnePlace, NoLineTwice, Written, Told, Single
<1>2. TypeOK /\ ReadersReady /\ LinesInOnePlace /\ NoLineTwice /\ [Next]_vars
        => LinesInOnePlace' /\ NoLineTwice'
  BY NextLines
<1> QED BY <1>1, <1>2, TypeCorrect, PTL DEF Spec
-----------------------------------------------------------------------------
(* The proxy implements ListProxy (the steps; TLC checks the fairness).    *)

(* A process that exits or panics has ended. *)
LEMMA EndRefines ==
  ASSUME status = "running", status' # "running", hostUp' = hostUp
  PROVE  Promised!Next
<1>1. Promised!Ends(FALSE)
  BY DEF Promised!Ends, LinkOf
<1> QED BY <1>1 DEF Promised!Next

(* A step that ListProxy does not see. *)
LEMMA HiddenStep ==
  ASSUME UNCHANGED <<status, queue, hostUp>>, LinkOf' = LinkOf
  PROVE  UNCHANGED Promised!vars
  BY DEF Promised!vars

(* The stdin reader puts messages, and ends the process. *)
LEMMA StdinRefines ==
  ASSUME TypeOK, StdinReader
  PROVE  Promised!Next /\ PutAndForwarded
<1>1. CASE TakeMessage
  <2>1. /\ status = "running" /\ status' = "running" /\ read' = read + 1
        /\ queue' = IF Len(queue) < Cap THEN Append(queue, read + 1) ELSE queue
        /\ UNCHANGED <<main, conn, link, hostUp, delivered>>
    BY <1>1 DEF TakeMessage, Enqueue, hostVars
  <2>2. LinkOf' = LinkOf
    BY <2>1 DEF LinkOf
  <2>3. Promised!Put(read')
    BY <2>1, <2>2 DEF Promised!Put, Promised!HasRoom
  <2>4. read' \in Msgs
    BY <1>1, <2>1, BoundsAssumption DEF TakeMessage, TypeOK, Msgs
  <2> QED BY <2>1, <2>3, <2>4 DEF Promised!Next, PutAndForwarded
<1>2. CASE StdinEOF
  <2>1. Promised!Next
    BY <1>2, EndRefines DEF StdinEOF, hostVars
  <2> QED BY <1>2, <2>1 DEF StdinEOF, stdinVars, PutAndForwarded
<1> QED BY <1>1, <1>2 DEF StdinReader

(* The main loop dials, forwards the oldest message, and gives up a link   *)
(* that is broken; what it does otherwise is not seen.                     *)
LEMMA MainLoopRefines ==
  ASSUME TypeOK, OneLiveConnection, MainLoop
  PROVE  [Promised!Next]_(Promised!vars) /\ PutAndForwarded
<1> USE DEF stdinVars, hostVars
<1>1. CASE DialSucceeds
  <2>1. PICK k \in Conns : conn' = k /\ link' = [link EXCEPT ![k] = "open"]
    BY <1>1 DEF DialSucceeds
  <2>2. /\ status = "running" /\ main = "dialing" /\ main' = "serving" /\ hostUp
        /\ UNCHANGED <<status, queue, hostUp, read, delivered>>
    BY <1>1 DEF DialSucceeds
  <2>3. LinkOf = "no" /\ LinkOf' = "yes"
    BY <2>1, <2>2 DEF LinkOf, TypeOK
  <2>4. Promised!Dial
    BY <2>2, <2>3 DEF Promised!Dial
  <2> QED BY <2>2, <2>4 DEF Promised!Next, PutAndForwarded
<1>2. CASE DialFails \/ Wake \/ ClosePipe
  <2>1. /\ UNCHANGED <<status, queue, hostUp, read, delivered>>
        /\ main # "serving" /\ main' # "serving"
    BY <1>2 DEF DialFails, Wake, ClosePipe
  <2>2. LinkOf' = LinkOf
    BY <2>1 DEF LinkOf
  <2> QED BY <2>1, <2>2, HiddenStep DEF PutAndForwarded
<1>3. CASE ForwardMessage
  <2>1. /\ status = "running" /\ main = "serving" /\ queue # <<>> /\ queue' = Tail(queue)
        /\ UNCHANGED <<status, conn, link, hostUp, read>>
    BY <1>3 DEF ForwardMessage
  <2>2. CASE link[conn] = "open"
    <3>1. delivered' = Append(delivered, Head(queue)) /\ main' = main
      BY <1>3, <2>2 DEF ForwardMessage
    <3>2. LinkOf = "yes" /\ LinkOf' = "yes"
      BY <2>1, <2>2, <3>1 DEF LinkOf
    <3>3. Promised!Forward(Head(queue))
      BY <2>1, <3>2 DEF Promised!Forward
    <3>4. Head(queue) \in Msgs
      BY <2>1, HeadTailProperties DEF TypeOK
    <3> QED BY <2>1, <3>1, <3>3, <3>4 DEF Promised!Next, Promised!ForwardsOne, PutAndForwarded
  <2>3. CASE link[conn] # "open"
    <3>1. delivered' = delivered /\ main' = "closing"
      BY <1>3, <2>3 DEF ForwardMessage
    <3>2. LinkOf = "broken" /\ LinkOf' = "no"
      BY <2>1, <2>3, <3>1 DEF LinkOf
    <3>3. Promised!WriteFails
      BY <2>1, <3>2 DEF Promised!WriteFails
    <3> QED BY <2>1, <3>1, <3>3 DEF Promised!Next, PutAndForwarded
  <2> QED BY <2>2, <2>3
<1>4. CASE ReaderIsDone
  <2>1. /\ status = "running" /\ main = "serving" /\ main' = "closing"
        /\ link[conn] = "hungup"
        /\ UNCHANGED <<status, queue, hostUp, read, delivered>>
    BY <1>4 DEF ReaderIsDone, OneLiveConnection
  <2>2. LinkOf = "broken" /\ LinkOf' = "no"
    BY <2>1 DEF LinkOf
  <2>3. Promised!Notice
    BY <2>1, <2>2 DEF Promised!Notice
  <2> QED BY <2>1, <2>3 DEF Promised!Next, PutAndForwarded
<1> QED BY <1>1, <1>2, <1>3, <1>4 DEF MainLoop

(* The host starts, and ends with its side of every connection. *)
LEMMA HostRefines ==
  ASSUME TypeOK, OneLiveConnection, HostStarts \/ HostEnds \/ HostSends
  PROVE  [Promised!Next]_(Promised!vars) /\ PutAndForwarded
<1> USE DEF stdinVars, hostVars
<1>1. CASE HostStarts
  <2>1. /\ status = "running" /\ ~hostUp /\ hostUp' = TRUE
        /\ UNCHANGED <<status, queue, main, conn, link, read, delivered>>
    BY <1>1 DEF HostStarts
  <2>2. LinkOf' = LinkOf
    BY <2>1 DEF LinkOf
  <2>3. Promised!HostStarts
    BY <2>1, <2>2 DEF Promised!HostStarts
  <2> QED BY <2>1, <2>3 DEF Promised!Next, PutAndForwarded
<1>2. CASE HostEnds
  <2>1. /\ status = "running" /\ hostUp /\ hostUp' = FALSE
        /\ link' = [k \in Conns |-> IF link[k] = "open" THEN "hungup" ELSE link[k]]
        /\ UNCHANGED <<status, queue, main, conn, read, delivered>>
    BY <1>2 DEF HostEnds
  <2>2. LinkOf' = IF LinkOf = "yes" THEN "broken" ELSE LinkOf
    <3>1. CASE main = "serving"
      <4>1. conn \in Conns /\ link'[conn] = "hungup"
        BY <2>1, <3>1 DEF OneLiveConnection, TypeOK
      <4> QED BY <2>1, <3>1, <4>1 DEF LinkOf
    <3>2. CASE main # "serving"
      BY <2>1, <3>2 DEF LinkOf
    <3> QED BY <3>1, <3>2
  <2>3. Promised!HostEnds
    BY <2>1, <2>2 DEF Promised!HostEnds
  <2> QED BY <2>1, <2>3 DEF Promised!Next, PutAndForwarded
<1>3. CASE HostSends
  <2>1. UNCHANGED <<status, queue, main, conn, link, hostUp, read, delivered>>
    BY <1>3 DEF HostSends
  <2>2. LinkOf' = LinkOf
    BY <2>1 DEF LinkOf
  <2> QED BY <2>1, <2>2, HiddenStep DEF PutAndForwarded
<1> QED BY <1>1, <1>2, <1>3

(* The readers of all connections together do nothing that ListProxy sees, *)
(* unless one of them ends the process.                                    *)
LEMMA PipeReaderRefines ==
  ASSUME NEW k \in Conns, PipeReader(k)
  PROVE  [Promised!Next]_(Promised!vars) /\ PutAndForwarded
<1>1. /\ status = "running"
      /\ UNCHANGED <<queue, main, conn, link, hostUp, read, delivered>>
  BY DEF PipeReader, CheckConn, LoadConn, ReceiveChunk, ConnFails, WriteLength, WriteBody,
         WriteFails, stdinVars, hostVars
<1>2. CASE status' = status
  <2>1. LinkOf' = LinkOf
    BY <1>1, <1>2 DEF LinkOf
  <2> QED BY <1>1, <1>2, <2>1, HiddenStep DEF PutAndForwarded
<1>3. CASE status' # status
  BY <1>1, <1>3, EndRefines DEF PutAndForwarded
<1> QED BY <1>2, <1>3

(* Every step is a step of ListProxy, or not seen by it. *)
LEMMA StepRefines ==
  ASSUME TypeOK, OneLiveConnection, [Next]_vars
  PROVE  [Promised!Next]_(Promised!vars) /\ [PutAndForwarded]_vars
<1>1. ASSUME ChromeSends \/ ChromeDisconnects \/ UNCHANGED vars
      PROVE  [Promised!Next]_(Promised!vars) /\ [PutAndForwarded]_vars
  <2>1. UNCHANGED <<status, queue, main, conn, link, hostUp, read, delivered>>
    BY <1>1 DEF ChromeSends, ChromeDisconnects, vars, stdinVars, hostVars
  <2>2. LinkOf' = LinkOf
    BY <2>1 DEF LinkOf
  <2> QED BY <2>1, <2>2, HiddenStep DEF PutAndForwarded
<1> QED BY <1>1, StdinRefines, MainLoopRefines, HostRefines, PipeReaderRefines DEF Next

(* Whatever its goroutines do, the process keeps the promises of           *)
(* ListProxy: a bounded queue, the oldest message first, and a link that   *)
(* is given up only when the host has ended it (proxy.go, Run).            *)
THEOREM ImplementsListProxy == Spec => StepsOfListProxy
<1>1. Init => Promised!Init
  BY DEF Init, Promised!Init, LinkOf
<1>2. TypeOK /\ OneLiveConnection /\ [Next]_vars
        => [Promised!Next]_(Promised!vars) /\ [PutAndForwarded]_vars
  BY StepRefines
<1> QED BY <1>1, <1>2, TypeCorrect, AlwaysOneLive, PTL DEF Spec, StepsOfListProxy
=============================================================================
