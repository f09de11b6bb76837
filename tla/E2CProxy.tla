------------------------------ MODULE E2CProxy ------------------------------
(***************************************************************************)
(* The proxy process that the browser starts for each native messaging     *)
(* port (E2C_Proxy): proxy/proxy.go with pipeclient and nativemsg.         *)
(*                                                                         *)
(* Three kinds of goroutines share the process: the stdin reader, the main *)
(* loop, and one pipe reader per connection that was ever made.  A step is *)
(* what a goroutine does between two accesses to what it shares: the       *)
(* channel chromeMsgs, the field Client.conn, which is read and written    *)
(* without the mutex, the connections and stdout.                          *)
(*                                                                         *)
(* The desktop host and the browser are modelled as far as the proxy can   *)
(* see them.  Seconds are not modelled: the 3 s pauses only separate       *)
(* steps.  The bound MaxConns limits the host's restarts.                  *)
(***************************************************************************)
EXTENDS Naturals, Sequences, FiniteSets

CONSTANTS Cap,        \* capacity of chromeMsgs (100)
          MaxMsgs,    \* messages the browser sends, numbered from 1
          MaxLines,   \* lines the host sends, numbered from 1
          MaxConns    \* lives of the host, hence connections

ASSUME CapAssumption == Cap \in Nat \ {0}
ASSUME BoundsAssumption == MaxMsgs \in Nat /\ MaxLines \in Nat /\ MaxConns \in Nat

VARIABLES
  status,     \* "running", "exited" or "panicked"
  stdinOpen,  \* has the browser kept its end of stdin open?
  sent,       \* messages the browser wrote to stdin are 1 .. sent
  read,       \* messages the stdin reader has taken are 1 .. read
  queue,      \* chromeMsgs
  main,       \* the main loop: "dialing", "sleeping", "serving" or "closing"
  conn,       \* Client.conn: the number of a connection, 0 for nil
  link,       \* link[k]: "none", "open", "hungup" (by the host), "closed" (by us)
  inbox,      \* inbox[k]: what the host wrote to connection k and nobody read
  pc,         \* pc[k]: the reader goroutine started with connection k
  rconn,      \* rconn[k]: the connection its pending Read is on
  rbuf,       \* rbuf[k]: its bufio buffer
  rerr,       \* rerr[k]: did its ReadBytes return an error?
  stdout,     \* the parts of frames written to stdout, in order
  hostUp,     \* is a host listening?
  hostLives,  \* how often a host has been started
  lines,      \* lines the host has written are 1 .. lines
  delivered   \* messages written to an open pipe, in order

stdinVars == <<stdinOpen, sent, read, queue>>
readerVars == <<pc, rconn, rbuf, rerr, stdout>>
hostVars == <<hostUp, hostLives, lines>>
vars == <<status, stdinVars, main, conn, link, inbox, readerVars, hostVars, delivered>>

Msgs == 1 .. MaxMsgs
Conns == 1 .. MaxConns

(* A piece of the byte stream: a line of the host, 0 if it is not one line *)
(* as the host wrote it, and whether it ends with a line feed.             *)
Piece == [line : 0 .. MaxLines, complete : BOOLEAN]
Line(n) == [line |-> n, complete |-> TRUE]
Torn == [line |-> 0, complete |-> FALSE]

(* A part of a frame: its length or its body. *)
Part == [part : {"length", "body"}, by : Conns, line : 0 .. MaxLines]

(* bufio: bytes that follow an incomplete line belong to the same line. *)
Join(buf, chunk) ==
  IF buf # <<>> /\ ~buf[Len(buf)].complete
  THEN SubSeq(buf, 1, Len(buf) - 1)
         \o <<[line |-> 0, complete |-> Head(chunk).complete]>> \o Tail(chunk)
  ELSE buf \o chunk

HasLine(buf) == buf # <<>> /\ Head(buf).complete

-----------------------------------------------------------------------------
(* The browser. *)

ChromeSends ==
  /\ status = "running" /\ stdinOpen /\ sent < MaxMsgs
  /\ sent' = sent + 1
  /\ UNCHANGED <<status, stdinOpen, read, queue, main, conn, link, inbox,
                 readerVars, hostVars, delivered>>

(* The port is disconnected: the browser closes stdin and stdout. *)
ChromeDisconnects ==
  /\ status = "running" /\ stdinOpen
  /\ stdinOpen' = FALSE
  /\ UNCHANGED <<status, sent, read, queue, main, conn, link, inbox,
                 readerVars, hostVars, delivered>>

-----------------------------------------------------------------------------
(* Goroutine 1: stdin to chromeMsgs. *)

(* Mutants: an unbounded channel; a send without the default case.         *)
EnqueueUnbounded(m) == queue' = Append(queue, m)
EnqueueBlocks(m) == Len(queue) < Cap /\ queue' = Append(queue, m)

(* The select with a default: a full channel drops the new message. *)
Enqueue(m) == queue' = IF Len(queue) < Cap THEN Append(queue, m) ELSE queue

TakeMessage ==
  /\ status = "running" /\ read < sent
  /\ read' = read + 1
  /\ Enqueue(read + 1)
  /\ UNCHANGED <<status, stdinOpen, sent, main, conn, link, inbox, readerVars,
                 hostVars, delivered>>

(* ReadMessage fails at the end of stdin: os.Exit(0). *)
StdinEOF ==
  /\ status = "running" /\ ~stdinOpen /\ read = sent
  /\ status' = "exited"
  /\ UNCHANGED <<stdinVars, main, conn, link, inbox, readerVars, hostVars, delivered>>

-----------------------------------------------------------------------------
(* The main loop. *)

(* Connect succeeds and a reader is started for the connection. *)
DialSucceeds ==
  /\ status = "running" /\ main = "dialing" /\ hostUp
  /\ \E k \in Conns :
       /\ link[k] = "none"
       /\ \A j \in Conns : j < k => link[j] # "none"
       /\ conn' = k
       /\ link' = [link EXCEPT ![k] = "open"]
       /\ pc' = [pc EXCEPT ![k] = "check"]
  /\ main' = "serving"
  /\ UNCHANGED <<status, stdinVars, inbox, rconn, rbuf, rerr, stdout, hostVars, delivered>>

DialFails ==
  /\ status = "running" /\ main = "dialing" /\ ~hostUp
  /\ main' = "sleeping"
  /\ UNCHANGED <<status, stdinVars, conn, link, inbox, readerVars, hostVars, delivered>>

(* Mutant: the loop returns where it should go on. *)
WakeNever == FALSE

Wake ==
  /\ status = "running" /\ main = "sleeping"
  /\ main' = "dialing"
  /\ UNCHANGED <<status, stdinVars, conn, link, inbox, readerVars, hostVars, delivered>>

(* Mutant: a message that could not be written is queued again. *)
ForwardOrRequeue ==
  /\ status = "running" /\ main = "serving" /\ queue # <<>>
  /\ IF link[conn] = "open"
     THEN /\ delivered' = Append(delivered, Head(queue))
          /\ queue' = Tail(queue)
          /\ UNCHANGED main
     ELSE /\ main' = "closing"
          /\ queue' = Append(Tail(queue), Head(queue))
          /\ UNCHANGED delivered
  /\ UNCHANGED <<status, stdinOpen, sent, read, conn, link, inbox,
                 readerVars, hostVars>>

(* A message is taken from the channel and written; if that fails the      *)
(* message is gone and so is the connection.                               *)
ForwardMessage ==
  /\ status = "running" /\ main = "serving" /\ queue # <<>>
  /\ queue' = Tail(queue)
  /\ IF link[conn] = "open"
     THEN /\ delivered' = Append(delivered, Head(queue))
          /\ UNCHANGED main
     ELSE /\ main' = "closing"
          /\ UNCHANGED delivered
  /\ UNCHANGED <<status, stdinOpen, sent, read, conn, link, inbox,
                 readerVars, hostVars>>

(* The other case of the select: the reader of this connection is done. *)
ReaderIsDone ==
  /\ status = "running" /\ main = "serving" /\ pc[conn] = "done"
  /\ main' = "closing"
  /\ UNCHANGED <<status, stdinVars, conn, link, inbox, readerVars, hostVars, delivered>>

(* Mutant: the next round dials without closing the old connection. *)
ForgetPipe ==
  /\ status = "running" /\ main = "closing"
  /\ conn' = 0
  /\ main' = "sleeping"
  /\ UNCHANGED <<status, stdinVars, link, inbox, readerVars, hostVars, delivered>>

(* pipe.Close(): the handle is closed and the field set to nil. *)
ClosePipe ==
  /\ status = "running" /\ main = "closing"
  /\ link' = [link EXCEPT ![conn] = "closed"]
  /\ conn' = 0
  /\ main' = "sleeping"
  /\ UNCHANGED <<status, stdinVars, inbox, readerVars, hostVars, delivered>>

-----------------------------------------------------------------------------
(* Goroutine 2, one for each connection: pipe to stdout. *)

(* ReadBytes returns an error with what is left in the buffer, which is    *)
(* written out although it is no complete line.                            *)
ReadFails(k) ==
  IF rbuf[k] = <<>>
  THEN /\ pc' = [pc EXCEPT ![k] = "done"]
       /\ UNCHANGED rerr
  ELSE /\ pc' = [pc EXCEPT ![k] = "emit"]
       /\ rerr' = [rerr EXCEPT ![k] = TRUE]

(* Client.Read tests c.conn ... *)
CheckConn(k) ==
  /\ status = "running" /\ pc[k] = "check"
  /\ IF conn = 0
     THEN /\ ReadFails(k)
          /\ UNCHANGED rconn
     ELSE /\ pc' = [pc EXCEPT ![k] = "load"]
          /\ rconn' = [rconn EXCEPT ![k] = conn]
          /\ UNCHANGED rerr
  /\ UNCHANGED <<status, stdinVars, main, conn, link, inbox, rbuf, stdout, hostVars,
                 delivered>>

(* ... and calls its Read.  Nothing orders this access with the main       *)
(* loop's: the call may use what the test saw or load the two words of the *)
(* interface again, and a call on nil panics.                              *)
LoadConn(k) ==
  /\ status = "running" /\ pc[k] = "load"
  /\ \E seen \in {rconn[k], conn} :
       IF seen = 0
       THEN /\ status' = "panicked"
            /\ UNCHANGED <<pc, rconn>>
       ELSE /\ pc' = [pc EXCEPT ![k] = "blocked"]
            /\ rconn' = [rconn EXCEPT ![k] = seen]
            /\ UNCHANGED status
  /\ UNCHANGED <<stdinVars, main, conn, link, inbox, rbuf, rerr, stdout, hostVars, delivered>>

(* The pending Read returns some of the bytes that are there. *)
ReceiveChunk(k) ==
  /\ status = "running" /\ pc[k] = "blocked"
  /\ link[rconn[k]] # "closed"
  /\ \E n \in 1 .. Len(inbox[rconn[k]]) :
       /\ rbuf' = [rbuf EXCEPT ![k] = Join(@, SubSeq(inbox[rconn[k]], 1, n))]
       /\ inbox' = [inbox EXCEPT ![rconn[k]] = SubSeq(@, n + 1, Len(@))]
  /\ pc' = [pc EXCEPT ![k] = IF HasLine(rbuf'[k]) THEN "emit" ELSE "check"]
  /\ UNCHANGED <<status, stdinVars, main, conn, link, rconn, rerr, stdout, hostVars,
                 delivered>>

(* The pending Read fails: the host hung up and all is read, or we closed. *)
ConnFails(k) ==
  /\ status = "running" /\ pc[k] = "blocked"
  /\ \/ link[rconn[k]] = "closed"
     \/ link[rconn[k]] = "hungup" /\ inbox[rconn[k]] = <<>>
  /\ ReadFails(k)
  /\ UNCHANGED <<status, stdinVars, main, conn, link, inbox, rconn, rbuf, stdout,
                 hostVars, delivered>>

(* WriteMessage makes two writes: the length ... *)
WriteLength(k) ==
  /\ status = "running" /\ pc[k] = "emit" /\ stdinOpen
  /\ stdout' = Append(stdout, [part |-> "length", by |-> k, line |-> Head(rbuf[k]).line])
  /\ pc' = [pc EXCEPT ![k] = "body"]
  /\ UNCHANGED <<status, stdinVars, main, conn, link, inbox, rconn, rbuf, rerr,
                 hostVars, delivered>>

(* What is left in the buffer after a line; mutant: the line itself, too. *)
KeepWritten(buf) == buf
DropWritten(buf) == Tail(buf)

(* ... and the body. *)
WriteBody(k) ==
  /\ status = "running" /\ pc[k] = "body" /\ stdinOpen
  /\ stdout' = Append(stdout, [part |-> "body", by |-> k, line |-> Head(rbuf[k]).line])
  /\ rbuf' = [rbuf EXCEPT ![k] = DropWritten(@)]
  /\ pc' = [pc EXCEPT ![k] = IF rerr[k] THEN "done"
                             ELSE IF HasLine(rbuf'[k]) THEN "emit" ELSE "check"]
  /\ UNCHANGED <<status, stdinVars, main, conn, link, inbox, rconn, rerr, hostVars,
                 delivered>>

(* Either write fails once the browser has disconnected: os.Exit(0). *)
WriteFails(k) ==
  /\ status = "running" /\ pc[k] \in {"emit", "body"} /\ ~stdinOpen
  /\ status' = "exited"
  /\ UNCHANGED <<stdinVars, main, conn, link, inbox, readerVars, hostVars, delivered>>

-----------------------------------------------------------------------------
(* The desktop host. *)

HostStarts ==
  /\ status = "running" /\ ~hostUp /\ hostLives < MaxConns
  /\ hostUp' = TRUE
  /\ hostLives' = hostLives + 1
  /\ UNCHANGED <<status, stdinVars, main, conn, link, inbox, readerVars, lines, delivered>>

(* A host ends; a write that was under way leaves a piece of a line. *)
HostEnds ==
  /\ status = "running" /\ hostUp
  /\ hostUp' = FALSE
  /\ link' = [k \in Conns |-> IF link[k] = "open" THEN "hungup" ELSE link[k]]
  /\ \E torn \in SUBSET {k \in Conns : link[k] = "open"} :
       inbox' = [k \in Conns |-> IF k \in torn THEN Append(inbox[k], Torn) ELSE inbox[k]]
  /\ UNCHANGED <<status, stdinVars, main, conn, readerVars, hostLives, lines, delivered>>

HostSends ==
  /\ status = "running" /\ hostUp /\ lines < MaxLines
  /\ \E k \in Conns : /\ link[k] = "open"
                      /\ inbox' = [inbox EXCEPT ![k] = Append(@, Line(lines + 1))]
  /\ lines' = lines + 1
  /\ UNCHANGED <<status, stdinVars, main, conn, link, readerVars, hostUp, hostLives,
                 delivered>>

-----------------------------------------------------------------------------
Init ==
  /\ status = "running"
  /\ stdinOpen = TRUE /\ sent = 0 /\ read = 0 /\ queue = <<>>
  /\ main = "dialing" /\ conn = 0
  /\ link = [k \in Conns |-> "none"]
  /\ inbox = [k \in Conns |-> <<>>]
  /\ pc = [k \in Conns |-> "unborn"]
  /\ rconn = [k \in Conns |-> 0]
  /\ rbuf = [k \in Conns |-> <<>>]
  /\ rerr = [k \in Conns |-> FALSE]
  /\ stdout = <<>>
  /\ hostUp = FALSE /\ hostLives = 0 /\ lines = 0
  /\ delivered = <<>>

StdinReader == TakeMessage \/ StdinEOF

MainLoop == \/ DialSucceeds \/ DialFails \/ Wake
            \/ ForwardMessage \/ ReaderIsDone \/ ClosePipe

PipeReader(k) == \/ CheckConn(k) \/ LoadConn(k) \/ ReceiveChunk(k) \/ ConnFails(k)
                 \/ WriteLength(k) \/ WriteBody(k) \/ WriteFails(k)

Next == \/ ChromeSends \/ ChromeDisconnects
        \/ StdinReader \/ MainLoop
        \/ \E k \in Conns : PipeReader(k)
        \/ HostStarts \/ HostEnds \/ HostSends

(* The Go scheduler runs every goroutine that can proceed, and the browser *)
(* drains stdout; browser and host owe nothing else.                       *)
Fairness ==
  /\ WF_vars(StdinReader)
  /\ WF_vars(MainLoop)
  /\ \A k \in Conns : WF_vars(PipeReader(k))

Spec == Init /\ [][Next]_vars /\ Fairness

-----------------------------------------------------------------------------
(* Properties. *)

(* Every variable holds values of its kind, the channel no more than its   *)
(* capacity.                                                               *)
TypeOK ==
  /\ status \in {"running", "exited", "panicked"}
  /\ stdinOpen \in BOOLEAN /\ hostUp \in BOOLEAN
  /\ sent \in 0 .. MaxMsgs /\ read \in 0 .. sent
  /\ queue \in Seq(Msgs) /\ Len(queue) <= Cap
  /\ main \in {"dialing", "sleeping", "serving", "closing"}
  /\ conn \in Conns \cup {0}
  /\ link \in [Conns -> {"none", "open", "hungup", "closed"}]
  /\ inbox \in [Conns -> Seq(Piece)]
  /\ pc \in [Conns -> {"unborn", "check", "load", "blocked", "emit", "body", "done"}]
  /\ rconn \in [Conns -> Conns \cup {0}]
  /\ rbuf \in [Conns -> Seq(Piece)]
  /\ rerr \in [Conns -> BOOLEAN]
  /\ stdout \in Seq(Part)
  /\ hostLives \in 0 .. MaxConns /\ lines \in 0 .. MaxLines
  /\ delivered \in Seq(Msgs)

Increasing(s) == \A i, j \in DOMAIN s : i < j => s[i] < s[j]

(* Whatever is dropped at a full channel or lost with a broken pipe, the   *)
(* hosts receive the browser's messages in the order they were sent, none  *)
(* twice, over all reconnections: an older snapshot never overwrites a     *)
(* newer one (proxy.go, channel and write path).                           *)
DeliveredInOrder ==
  /\ Increasing(delivered)
  /\ Increasing(queue)
  /\ \A i \in DOMAIN delivered, j \in DOMAIN queue : delivered[i] < queue[j]

(* The main loop never dials while it holds a connection, and holds the    *)
(* newest one: a reconnect leaks no handle on which a host would count a   *)
(* dead client (proxy.go, pipe.Close before the next round).  And what it  *)
(* serves is a connection that it has not closed, whose own reader is done *)
(* only when the host has hung up: no reader of an earlier connection,     *)
(* whatever it reads from this one, brings it down.                        *)
OneLiveConnection ==
  /\ \A k \in Conns : link[k] \in {"open", "hungup"} =>
                        k = conn /\ main \in {"serving", "closing"}
  /\ main = "serving" => /\ conn # 0 /\ link[conn] \in {"open", "hungup"}
                         /\ pc[conn] = "done" => link[conn] = "hungup"

(* No line of the host reaches the browser twice, whichever reader takes   *)
(* it: a command is not executed a second time (proxy.go, reader loop).    *)
NoLineTwice ==
  \A i, j \in DOMAIN stdout :
    stdout[i].part = "body" /\ stdout[j].part = "body" /\ i # j
      => stdout[i].line # stdout[j].line \/ stdout[i].line = 0

(* A proxy whose browser is gone goes away, whatever state the pipe and    *)
(* the channel are in: no zombies.                                         *)
EOFExits == ~stdinOpen ~> status # "running"

(* All that the rest of the system relies on: seen from outside, with its  *)
(* goroutines, connections and readers, the process is a ListProxy.  The   *)
(* link is that of the connection the main loop serves; it is given up     *)
(* only after the host has ended it, whatever readers of earlier           *)
(* connections do.  A message that is read is put, and one that is         *)
(* delivered is the oldest (proxy.go, Run).                                *)
LinkOf == IF status # "running" \/ main # "serving" THEN "no"
          ELSE IF link[conn] = "open" THEN "yes" ELSE "broken"

Promised == INSTANCE ListProxy
              WITH Messages <- Msgs, Capacity <- Cap,
                   alive <- status = "running",
                   queue <- IF status = "running" THEN queue ELSE <<>>,
                   link <- LinkOf, up <- hostUp

PutAndForwarded ==
  /\ read' # read => Promised!Put(read')
  /\ delivered' # delivered =>
       \E m \in Msgs : Promised!Forward(m) /\ delivered' = Append(delivered, m)

StepsOfListProxy ==
  Promised!Init /\ [][Promised!Next]_(Promised!vars) /\ [][PutAndForwarded]_vars

(* And it goes on by itself: it dials while a host is there, forwards what *)
(* is in the channel and notices the end of the link, so that no message   *)
(* waits for ever while a host listens, whoever was started first.         *)
WorksAsListProxy == StepsOfListProxy /\ Promised!Fairness

(* What the roadmap says of concurrent reading and writing, for stdout:    *)
(* the browser finds each length followed by the body it belongs to.       *)
FramesWhole ==
  \A i \in DOMAIN stdout :
    IF i % 2 = 1 THEN stdout[i].part = "length"
    ELSE /\ stdout[i].part = "body"
         /\ stdout[i].by = stdout[i - 1].by /\ stdout[i].line = stdout[i - 1].line

(* The same for the connection field: the proxy stays up as long as its    *)
(* browser.                                                                *)
NeverPanics == status # "panicked"
=============================================================================
