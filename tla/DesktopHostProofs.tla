-------------------------- MODULE DesktopHostProofs --------------------------
(***************************************************************************)
(* Theorems about DesktopHost, for every finite set of browsers and any    *)
(* number of commands and pending lists.                                   *)
(***************************************************************************)
EXTENDS DesktopHost, FiniteSetTheorems, SequenceTheorems, TLAPS

(* Every change of the state is a command, or an action of one browser     *)
(* that gives out no id.                                                   *)
SendsCommand ==
  \/ RefreshMediaList \/ StartupTimerFires
  \/ \E requested \in AllTabs \cup {NoTab} : Control(requested)

Connects(b) == ProxyConnects(b) \/ OnNewConnection(b) \/ ProxyHangsUp(b) \/ OnDisconnected(b)

-----------------------------------------------------------------------------
(* Lemmas about the operators the host is built from. *)

(* The status text counts the clients. *)
LEMMA StatusForType ==
  ASSUME NEW cs \in SUBSET Browsers
  PROVE  StatusFor(cs) \in [tone : {"success", "warning", "danger"}, count : Nat]
<1>1. Cardinality(cs) \in Nat
  BY BrowsersAssumption, FS_Subset, FS_CardinalityType
<1> QED BY <1>1 DEF StatusFor

(* A list is made of tabs of its browser. *)
LEMMA ListShape ==
  ASSUME NEW b \in Browsers, NEW l \in Lists(b)
  PROVE  /\ l = [active |-> l.active, tabs |-> l.tabs]
         /\ l.active \in AllTabs \cup {NoTab}
         /\ l.tabs \subseteq AllTabs
  BY DEF Lists, AllTabs

(* There is one item for each tab. *)
LEMMA ItemsForType ==
  ASSUME NEW ts, NEW active
  PROVE  ItemsFor(ts, active) \in [ts -> BOOLEAN]
  BY DEF ItemsFor

(* Broadcasting keeps the commands on their way commands. *)
LEMMA BroadcastType ==
  ASSUME outbox \in [Browsers -> Seq(Command)], NEW c \in Command, Broadcast(c)
  PROVE  outbox' \in [Browsers -> Seq(Command)]
<1>1. \A b \in Browsers : outbox[b] \in Seq(Command) /\ Append(outbox[b], c) \in Seq(Command)
  BY AppendProperties
<1> QED BY <1>1 DEF Broadcast

(* A command is sent with the next id; if it was clicked on an item, the   *)
(* page is one of the list that is shown, and the command has its tab.     *)
LEMMA CommandSent ==
  ASSUME TypeOK, SendsCommand
  PROVE  \E name \in {"GetMediaList", "control"}, tab \in AllTabs \cup {NoTab},
            clicked \in SUBSET (owner \X tabs) :
           /\ SendCommand(name, tab, clicked)
           /\ \A page \in clicked : name = "control" /\ tab = page[2]
           /\ startup' \in BOOLEAN
<1>0. ASSUME SendCommand("GetMediaList", NoTab, {}), startup' \in BOOLEAN
      PROVE  \E name \in {"GetMediaList", "control"}, tab \in AllTabs \cup {NoTab},
                clicked \in SUBSET (owner \X tabs) :
               /\ SendCommand(name, tab, clicked)
               /\ \A page \in clicked : name = "control" /\ tab = page[2]
               /\ startup' \in BOOLEAN
  <2> WITNESS "GetMediaList" \in {"GetMediaList", "control"}
  <2> WITNESS NoTab \in AllTabs \cup {NoTab}
  <2> WITNESS {} \in SUBSET (owner \X tabs)
  <2> QED BY <1>0
<1>1. CASE RefreshMediaList
  BY <1>0, <1>1 DEF RefreshMediaList, TypeOK
<1>2. CASE StartupTimerFires
  BY <1>0, <1>2 DEF StartupTimerFires
<1>3. ASSUME NEW requested \in AllTabs \cup {NoTab}, Control(requested)
      PROVE  \E name \in {"GetMediaList", "control"}, tab \in AllTabs \cup {NoTab},
                clicked \in SUBSET (owner \X tabs) :
               /\ SendCommand(name, tab, clicked)
               /\ \A page \in clicked : name = "control" /\ tab = page[2]
               /\ startup' \in BOOLEAN
  <2> DEFINE clicked == IF requested # NoTab THEN owner \X {requested} ELSE {}
  <2>1. SendCommand("control", ResolveTabId(requested), clicked) /\ startup' \in BOOLEAN
    BY <1>3 DEF Control, TypeOK
  <2>2. /\ ResolveTabId(requested) \in AllTabs \cup {NoTab}
        /\ requested # NoTab => ResolveTabId(requested) = requested
    BY DEF ResolveTabId, TypeOK
  <2>3. clicked \in SUBSET (owner \X tabs)
    <3>1. requested # NoTab => requested \in tabs
      BY <1>3 DEF Control, TypeOK
    <3> QED BY <3>1
  <2>4. \A page \in clicked : ResolveTabId(requested) = page[2]
    BY <2>2
  <2> HIDE DEF clicked
  <2> QED BY <2>1, <2>2, <2>3, <2>4
<1> QED BY <1>1, <1>2, <1>3 DEF SendsCommand

-----------------------------------------------------------------------------
(* The type invariant. *)

(* A connection comes or goes. *)
LEMMA ConnectsType ==
  ASSUME TypeOK, NEW b \in Browsers, Connects(b)
  PROVE  TypeOK'
<1>1. /\ sock' \in [Browsers -> {"none", "pending", "open", "hungup"}]
      /\ clients' \in SUBSET Browsers
  BY DEF Connects, ProxyConnects, OnNewConnection, ProxyHangsUp, OnDisconnected, TypeOK
<1>2. status' \in [tone : {"success", "warning", "danger"}, count : Nat]
  <2>1. status' = status \/ status' = StatusFor(clients')
    BY DEF Connects, ProxyConnects, OnNewConnection, ProxyHangsUp, OnDisconnected
  <2> QED BY <2>1, <1>1, StatusForType DEF TypeOK
<1>3. outbox' \in [Browsers -> Seq(Command)]
  <2>1. <<>> \in Seq(Command)
    BY EmptySeq
  <2> QED BY <2>1 DEF Connects, ProxyConnects, OnNewConnection, ProxyHangsUp,
                      OnDisconnected, TypeOK
<1>4. UNCHANGED <<listening, shown, nextId, startup, inbox, history>>
  BY DEF Connects, ProxyConnects, OnNewConnection, ProxyHangsUp, OnDisconnected
<1> QED BY <1>1, <1>2, <1>3, <1>4 DEF TypeOK, shown, history, Lists

(* A browser writes a list. *)
LEMMA WriteType ==
  ASSUME TypeOK, NEW b \in Browsers, NEW l \in Lists(b), CanWrite(b),
         inbox' = [inbox EXCEPT ![b] = Append(@, l)]
  PROVE  /\ DOMAIN inbox' = Browsers
         /\ \A a \in Browsers : inbox'[a] \in Seq(Lists(a)) /\ Len(inbox'[a]) <= MaxPending
<1>1. inbox[b] \in Seq(Lists(b)) /\ Len(inbox[b]) < MaxPending
  BY DEF TypeOK, CanWrite
<1>2. /\ Append(inbox[b], l) \in Seq(Lists(b))
      /\ Len(Append(inbox[b], l)) = Len(inbox[b]) + 1
      /\ Len(inbox[b]) \in Nat
  BY <1>1, AppendProperties, LenProperties
<1>3. /\ DOMAIN inbox' = Browsers /\ inbox'[b] = Append(inbox[b], l)
      /\ \A a \in Browsers : a # b => inbox'[a] = inbox[a]
  BY DEF TypeOK
<1>4. Len(inbox'[b]) <= MaxPending
  BY <1>1, <1>2, <1>3, LimitsAssumption
<1> QED BY <1>2, <1>3, <1>4 DEF TypeOK

(* The window reads the lists of a browser. *)
LEMMA ReadType ==
  ASSUME TypeOK, NEW b \in Browsers, OnReadyRead(b)
  PROVE  TypeOK'
<1> DEFINE l == inbox[b][Len(inbox[b])]
<1>1. l \in Lists(b)
  <2>1. inbox[b] \in Seq(Lists(b)) /\ inbox[b] # <<>>
    BY DEF TypeOK, OnReadyRead
  <2>2. Len(inbox[b]) \in 1 .. Len(inbox[b])
    BY <2>1, EmptySeq, LenProperties
  <2> QED BY <2>1, <2>2, ElementOfSeq
<1>2. activeTab' = l.active /\ tabs' = l.tabs /\ items' = ItemsFor(l.tabs, l.active)
  BY DEF OnReadyRead, Show
<1>3. /\ activeTab' \in AllTabs \cup {NoTab} /\ tabs' \subseteq AllTabs
      /\ items' \in [tabs' -> BOOLEAN] /\ owner' = {b}
  BY <1>1, <1>2, ListShape, ItemsForType DEF OnReadyRead
<1>4. /\ DOMAIN inbox' = Browsers
      /\ \A a \in Browsers : inbox'[a] \in Seq(Lists(a)) /\ Len(inbox'[a]) <= MaxPending
  <2>1. /\ DOMAIN inbox' = Browsers /\ inbox'[b] = <<>>
        /\ \A a \in Browsers : a # b => inbox'[a] = inbox[a]
    BY DEF OnReadyRead, TypeOK
  <2>2. <<>> \in Seq(Lists(b)) /\ Len(<<>>) <= MaxPending
    BY EmptySeq, LimitsAssumption
  <2> QED BY <2>1, <2>2 DEF TypeOK
<1>5. status' \in [tone : {"success", "warning", "danger"}, count : Nat]
  BY StatusForType DEF OnReadyRead, TypeOK
<1>6. UNCHANGED <<server, nextId, startup, outbox, history>>
  BY DEF OnReadyRead
<1> QED BY <1>3, <1>4, <1>5, <1>6 DEF TypeOK, server, history, Lists

(* A command is sent. *)
LEMMA SendType ==
  ASSUME TypeOK, SendsCommand
  PROVE  TypeOK'
<1>1. PICK name \in {"GetMediaList", "control"}, tab \in AllTabs \cup {NoTab},
           clicked \in SUBSET (owner \X tabs) :
        SendCommand(name, tab, clicked) /\ startup' \in BOOLEAN
  BY CommandSent
<1>2. nextId \in Ids /\ nextId' \in 1 .. MaxCmds + 1
  BY <1>1, LimitsAssumption DEF SendCommand, TypeOK, Ids
<1>3. outbox' \in [Browsers -> Seq(Command)]
  <2>1. [id |-> nextId, name |-> name, tab |-> tab] \in Command
    BY <1>2 DEF Command
  <2> QED BY <1>1, <2>1, BroadcastType DEF SendCommand, TypeOK
<1>4. status' \in [tone : {"success", "warning", "danger"}, count : Nat]
  BY <1>1, StatusForType DEF SendCommand, TypeOK
<1>5. asked' \in [Ids -> SUBSET (Browsers \X AllTabs)]
  <2>1. clicked \in SUBSET (Browsers \X AllTabs)
    BY DEF TypeOK
  <2> QED BY <1>1, <2>1 DEF SendCommand, TypeOK
<1>6. UNCHANGED <<server, shown, inbox, acted>>
  BY <1>1 DEF SendCommand
<1> QED BY <1>1, <1>2, <1>3, <1>4, <1>5, <1>6 DEF TypeOK, server, shown, Lists

(* What a hub does with the first command on its way. *)
LEMMA FirstCommand ==
  ASSUME TypeOK, NEW b \in Browsers, outbox[b] # <<>>
  PROVE  /\ outbox[b] \in Seq(Command)
         /\ Head(outbox[b]) = outbox[b][1] /\ Head(outbox[b]) \in Command
         /\ Tail(outbox[b]) \in Seq(Command)
         /\ Len(outbox[b]) \in Nat /\ Len(Tail(outbox[b])) = Len(outbox[b]) - 1
         /\ 1 \in DOMAIN outbox[b]
         /\ \A i \in DOMAIN Tail(outbox[b]) :
              i \in Nat /\ i + 1 \in DOMAIN outbox[b] /\ Tail(outbox[b])[i] = outbox[b][i + 1]
<1>1. outbox[b] \in Seq(Command)
  BY DEF TypeOK
<1> QED BY <1>1, HeadTailProperties, LenProperties, EmptySeq

(* A hub executes a command. *)
LEMMA ExecuteType ==
  ASSUME TypeOK, NEW b \in Browsers, HubExecutes(b)
  PROVE  TypeOK'
<1>1. outbox' \in [Browsers -> Seq(Command)]
  BY FirstCommand DEF HubExecutes, TypeOK
<1>2. /\ DOMAIN inbox' = Browsers
      /\ \A a \in Browsers : inbox'[a] \in Seq(Lists(a)) /\ Len(inbox'[a]) <= MaxPending
  <2>1. \/ inbox' = inbox
        \/ CanWrite(b) /\ \E l \in Lists(b) : inbox' = [inbox EXCEPT ![b] = Append(@, l)]
    BY DEF HubExecutes
  <2> QED BY <2>1, WriteType DEF TypeOK
<1>3. acted' \in [Ids -> SUBSET Pages]
  <2>1. \/ acted' = acted
        \/ \E i, l : acted' = [acted EXCEPT ![i] =
                       @ \cup ({b} \X (TabsOf[b] \cap {TargetIn(Head(outbox[b]), l)}))]
    BY DEF HubExecutes
  <2>2. \A l : {b} \X (TabsOf[b] \cap {TargetIn(Head(outbox[b]), l)})
                \subseteq Pages
    BY DEF AllTabs, Pages
  <2> QED BY <2>1, <2>2 DEF TypeOK
<1>4. UNCHANGED <<server, shown, status, nextId, startup, asked>>
  BY DEF HubExecutes
<1> QED BY <1>1, <1>2, <1>3, <1>4 DEF TypeOK, server, shown, Lists

(* Every variable of the host keeps its type: the window has one item for  *)
(* each tab and every pending list and command is whole.                   *)
THEOREM TypeCorrect == Spec => []TypeOK
<1>1. Init => TypeOK
  <2> SUFFICES ASSUME Init PROVE TypeOK
    OBVIOUS
  <2>1. /\ <<>> \in Seq(Command) /\ Len(<<>>) <= MaxPending
        /\ \A b \in Browsers : <<>> \in Seq(Lists(b))
    BY EmptySeq, LimitsAssumption
  <2>2. status \in [tone : {"success", "warning", "danger"}, count : Nat]
    BY StatusForType DEF Init
  <2>3. items \in [tabs -> BOOLEAN]
    BY ItemsForType DEF Init
  <2>4. owner = {} /\ \A i \in Ids : asked[i] = {} /\ acted[i] = {}
    BY DEF Init
  <2> QED BY <2>1, <2>2, <2>3, <2>4, LimitsAssumption DEF Init, TypeOK, Ids
<1>2. TypeOK /\ [Next]_vars => TypeOK'
  <2> SUFFICES ASSUME TypeOK, [Next]_vars PROVE TypeOK'
    OBVIOUS
  <2>1. ASSUME NEW b \in Browsers, HubPushes(b) PROVE TypeOK'
    <3>1. /\ DOMAIN inbox' = Browsers
          /\ \A a \in Browsers : inbox'[a] \in Seq(Lists(a)) /\ Len(inbox'[a]) <= MaxPending
      BY <2>1, WriteType DEF HubPushes
    <3> QED BY <3>1, <2>1 DEF HubPushes, TypeOK, server, shown, history, Lists
  <2>2. CASE UNCHANGED vars
    BY <2>2 DEF vars, server, shown, history, TypeOK, Lists
  <2> QED BY <2>1, <2>2, ConnectsType, ReadType, SendType, ExecuteType
          DEF Next, Slot, Connects, SendsCommand
<1> QED BY <1>1, <1>2, PTL DEF Spec

-----------------------------------------------------------------------------
(* The status text and the shown list. *)

(* No client is forgotten and no dead one counted, and the status text     *)
(* says so after every signal and every command.                           *)
THEOREM AlwaysTruthful == Spec => []StatusTruthful
<1>1. Init => StatusTruthful
  <2> SUFFICES ASSUME Init PROVE StatusTruthful
    OBVIOUS
  <2>1. clients = {} /\ status = StatusFor({}) /\ \A b \in Browsers : sock[b] = "none"
    BY DEF Init
  <2> QED BY <2>1 DEF StatusTruthful
<1>2. TypeOK /\ StatusTruthful /\ [Next]_vars => StatusTruthful'
  <2> SUFFICES ASSUME TypeOK, StatusTruthful, [Next]_vars PROVE StatusTruthful'
    OBVIOUS
  <2>1. ASSUME NEW b \in Browsers, Connects(b) PROVE StatusTruthful'
    <3>1. listening' = listening /\ status' = StatusFor(clients')
      BY <2>1 DEF Connects, ProxyConnects, OnNewConnection, ProxyHangsUp, OnDisconnected,
                  StatusTruthful
    <3>2. clients' = {a \in Browsers : sock'[a] \in {"open", "hungup"}}
      <4>1. /\ \A a \in Browsers : a # b => sock'[a] = sock[a]
            /\ clients' = IF sock'[b] \in {"open", "hungup"} THEN clients \cup {b}
                                                             ELSE clients \ {b}
        BY <2>1 DEF Connects, ProxyConnects, OnNewConnection, ProxyHangsUp, OnDisconnected,
                    TypeOK, StatusTruthful
      <4> QED BY <4>1 DEF StatusTruthful
    <3> QED BY <3>1, <3>2 DEF StatusTruthful, StatusFor
  <2>2. ASSUME UNCHANGED server, status' = status \/ status' = StatusFor(clients)
        PROVE  StatusTruthful'
    BY <2>2 DEF server, StatusTruthful, StatusFor
  <2>3. CASE SendsCommand
    BY <2>3, <2>2, CommandSent DEF SendCommand
  <2>4. ASSUME NEW b \in Browsers, OnReadyRead(b) \/ HubPushes(b) \/ HubExecutes(b)
        PROVE  StatusTruthful'
    BY <2>4, <2>2 DEF OnReadyRead, HubPushes, HubExecutes
  <2>5. CASE UNCHANGED vars
    BY <2>5, <2>2 DEF vars
  <2> QED BY <2>1, <2>3, <2>4, <2>5 DEF Next, Slot, Connects, SendsCommand
<1> QED BY <1>1, <1>2, TypeCorrect, PTL DEF Spec

(* The window never mixes two lists: tabs, active tab and highlight are of *)
(* one list of one browser.                                                *)
THEOREM AlwaysOneList == Spec => []ShownIsOneList
<1>1. Init => ShownIsOneList
  BY DEF Init, ShownIsOneList
<1>2. TypeOK /\ ShownIsOneList /\ [Next]_vars => ShownIsOneList'
  <2> SUFFICES ASSUME TypeOK, ShownIsOneList, [Next]_vars PROVE ShownIsOneList'
    OBVIOUS
  <2>1. CASE UNCHANGED shown
    BY <2>1 DEF shown, ShownIsOneList, ItemsFor, Lists
  <2>2. ASSUME NEW b \in Browsers, OnReadyRead(b) PROVE ShownIsOneList'
    <3> DEFINE l == inbox[b][Len(inbox[b])]
    <3>1. l \in Lists(b)
      <4>1. inbox[b] \in Seq(Lists(b)) /\ inbox[b] # <<>>
        BY <2>2 DEF TypeOK, OnReadyRead
      <4>2. Len(inbox[b]) \in 1 .. Len(inbox[b])
        BY <4>1, EmptySeq, LenProperties
      <4> QED BY <4>1, <4>2, ElementOfSeq
    <3>2. /\ activeTab' = l.active /\ tabs' = l.tabs /\ items' = ItemsFor(tabs', activeTab')
          /\ owner' = {b}
      BY <2>2 DEF OnReadyRead, Show
    <3>3. [active |-> activeTab', tabs |-> tabs'] \in Lists(b)
      BY <3>1, <3>2, ListShape
    <3> QED BY <3>2, <3>3 DEF ShownIsOneList, ItemsFor, Lists
  <2>3. CASE SendsCommand
    BY <2>3, <2>1, CommandSent DEF SendCommand
  <2>4. ASSUME NEW b \in Browsers, Connects(b) \/ HubPushes(b) \/ HubExecutes(b)
        PROVE  ShownIsOneList'
    BY <2>4, <2>1 DEF Connects, ProxyConnects, OnNewConnection, ProxyHangsUp, OnDisconnected,
                      HubPushes, HubExecutes
  <2>5. CASE UNCHANGED vars
    BY <2>5, <2>1 DEF vars
  <2> QED BY <2>2, <2>3, <2>4, <2>5 DEF Next, Slot, Connects, SendsCommand
<1> QED BY <1>1, <1>2, TypeCorrect, PTL DEF Spec

-----------------------------------------------------------------------------
(* Commands. *)

(* Nothing is on its way to a proxy that is not connected: a connection    *)
(* starts with no command of the one before.                               *)
NothingToNobody == \A b \in Browsers : sock[b] # "open" => outbox[b] = <<>>

OrderInv == StatusTruthful /\ NothingToNobody /\ CommandsInOrder

(* Ids, lengths and positions in a run: one more at its end, one less at   *)
(* its start.                                                              *)
LEMMA RunArithmetic ==
  ASSUME NEW id \in Nat, NEW len \in Nat, NEW next \in Nat, NEW j \in Nat
  PROVE  /\ id + len = (next - 1) + j => id + (len + 1) = ((next + 1) - 1) + j
         /\ id + len = (next - 1) + (j + 1) => id + (len - 1) = (next - 1) + j
OBVIOUS

(* Sending a command prolongs the run of ids of every client. *)
LEMMA SendKeepsOrder ==
  ASSUME TypeOK, OrderInv, SendsCommand
  PROVE  NothingToNobody' /\ CommandsInOrder'
<1>1. PICK name \in {"GetMediaList", "control"}, tab \in AllTabs \cup {NoTab},
           clicked \in SUBSET (owner \X tabs) : SendCommand(name, tab, clicked)
  BY CommandSent
<1> DEFINE c == [id |-> nextId, name |-> name, tab |-> tab]
<1>2. Broadcast(c) /\ nextId' = nextId + 1 /\ sock' = sock
  BY <1>1 DEF SendCommand, server
<1>3. nextId \in Nat /\ c.id = nextId
  BY DEF TypeOK
<1>4. ASSUME NEW b \in Browsers
      PROVE  /\ sock'[b] # "open" => outbox'[b] = <<>>
             /\ \A i \in DOMAIN outbox'[b] :
                  outbox'[b][i].id + Len(outbox'[b]) = nextId' - 1 + i
  <2>1. CASE sock[b] = "open"
    <3>1. outbox'[b] = Append(outbox[b], c)
      BY <1>2, <2>1 DEF Broadcast, OrderInv, StatusTruthful
    <3>2. outbox[b] \in Seq(Command) /\ Len(outbox[b]) \in Nat
      BY LenProperties DEF TypeOK
    <3>3. /\ DOMAIN outbox'[b] = 1 .. Len(outbox[b]) + 1
          /\ Len(outbox'[b]) = Len(outbox[b]) + 1
          /\ \A i \in 1 .. Len(outbox[b]) : outbox'[b][i] = outbox[b][i]
          /\ outbox'[b][Len(outbox[b]) + 1] = c
      <4>1. c \in Command
        BY <1>1, <1>3, LimitsAssumption DEF SendCommand, TypeOK, Command, Ids
      <4> QED BY <3>1, <3>2, <4>1, AppendProperties, LenProperties
    <3>4. \A i \in 1 .. Len(outbox[b]) :
            outbox[b][i].id \in Nat /\ outbox[b][i].id + Len(outbox[b]) = nextId - 1 + i
      <4>1. \A i \in 1 .. Len(outbox[b]) : outbox[b][i] \in Command
        BY <3>2, ElementOfSeq
      <4> QED BY <3>2, <4>1, LenProperties DEF OrderInv, CommandsInOrder, Command, Ids
    <3>5. ASSUME NEW i \in DOMAIN outbox'[b]
          PROVE  outbox'[b][i].id + Len(outbox'[b]) = nextId' - 1 + i
      <4>1. CASE i \in 1 .. Len(outbox[b])
        <5>1. /\ outbox'[b][i].id = outbox[b][i].id /\ outbox[b][i].id \in Nat
              /\ Len(outbox'[b]) = Len(outbox[b]) + 1 /\ i \in Nat
              /\ outbox[b][i].id + Len(outbox[b]) = nextId - 1 + i
          BY <3>2, <3>3, <3>4, <4>1
        <5>2. /\ outbox[b][i].id \in Nat /\ Len(outbox[b]) \in Nat
              /\ nextId \in Nat /\ i \in Nat
          BY <1>3, <3>2, <5>1
        <5>3. outbox[b][i].id + Len(outbox[b]) = (nextId - 1) + i
          BY <5>1
        <5>4. outbox[b][i].id + (Len(outbox[b]) + 1) = ((nextId + 1) - 1) + i
          BY <5>2, <5>3, RunArithmetic
        <5> QED BY <1>2, <5>1, <5>4
      <4>2. CASE i = Len(outbox[b]) + 1
        <5>1. outbox'[b][i].id = nextId
          BY <1>3, <3>3, <4>2
        <5>2. Len(outbox'[b]) = i /\ i \in Nat
          BY <3>2, <3>3, <4>2
        <5> QED BY <1>2, <1>3, <5>1, <5>2
      <4> QED BY <3>2, <3>3, <4>1, <4>2
    <3> QED BY <1>2, <2>1, <3>5
  <2>2. CASE sock[b] # "open"
    <3>1. outbox'[b] = <<>>
      BY <1>2, <2>2 DEF Broadcast, OrderInv, NothingToNobody
    <3> QED BY <3>1
  <2> QED BY <2>1, <2>2
<1> QED BY <1>4 DEF NothingToNobody, CommandsInOrder

(* Executing a command takes away the first id of a run. *)
LEMMA ExecuteKeepsOrder ==
  ASSUME TypeOK, OrderInv, NEW b \in Browsers, HubExecutes(b)
  PROVE  NothingToNobody' /\ CommandsInOrder'
<1>1. /\ outbox[b] # <<>> /\ outbox' = [outbox EXCEPT ![b] = Tail(@)]
      /\ sock' = sock /\ nextId' = nextId
  BY DEF HubExecutes, server
<1>2. /\ outbox'[b] = Tail(outbox[b])
      /\ \A a \in Browsers : a # b => outbox'[a] = outbox[a]
  BY <1>1 DEF TypeOK
<1>3. sock[b] = "open"
  BY <1>1 DEF OrderInv, NothingToNobody
<1>4. ASSUME NEW i \in DOMAIN outbox'[b]
      PROVE  outbox'[b][i].id + Len(outbox'[b]) = nextId' - 1 + i
  <2>1. /\ i \in Nat /\ i + 1 \in DOMAIN outbox[b] /\ outbox'[b][i] = outbox[b][i + 1]
        /\ Len(outbox[b]) \in Nat /\ Len(outbox'[b]) = Len(outbox[b]) - 1
    BY <1>1, <1>2, FirstCommand
  <2>2. outbox[b][i + 1].id + Len(outbox[b]) = nextId - 1 + (i + 1)
    BY <2>1 DEF OrderInv, CommandsInOrder
  <2>3. outbox[b][i + 1].id \in Nat /\ nextId \in Nat
    <3>1. outbox[b][i + 1] \in Command
      BY <1>1, <2>1, FirstCommand, ElementOfSeq, LenProperties
    <3> QED BY <3>1 DEF Command, Ids, TypeOK
  <2>4. outbox[b][i + 1].id + (Len(outbox[b]) - 1) = nextId - 1 + i
    BY <2>1, <2>2, <2>3, RunArithmetic
  <2> QED BY <1>1, <2>1, <2>4
<1> QED BY <1>1, <1>2, <1>3, <1>4 DEF OrderInv, NothingToNobody, CommandsInOrder

(* A client gets every command sent while it is connected, once and in     *)
(* order, however often proxies come and go.                               *)
THEOREM AlwaysInOrder == Spec => [](NothingToNobody /\ CommandsInOrder)
<1>1. Init => NothingToNobody /\ CommandsInOrder
  <2> SUFFICES ASSUME Init PROVE NothingToNobody /\ CommandsInOrder
    OBVIOUS
  <2>1. \A b \in Browsers : outbox[b] = <<>> /\ DOMAIN outbox[b] = {}
    <3>1. DOMAIN <<>> = {}
      BY EmptySeq, LenProperties
    <3> QED BY <3>1 DEF Init
  <2> QED BY <2>1 DEF NothingToNobody, CommandsInOrder
<1>2. TypeOK /\ OrderInv /\ [Next]_vars => (NothingToNobody /\ CommandsInOrder)'
  <2> SUFFICES ASSUME TypeOK, OrderInv, [Next]_vars
               PROVE  (NothingToNobody /\ CommandsInOrder)'
    OBVIOUS
  <2>1. ASSUME NEW b \in Browsers, Connects(b)
        PROVE  (NothingToNobody /\ CommandsInOrder)'
    <3>1. /\ nextId' = nextId
          /\ \A a \in Browsers : a # b => sock'[a] = sock[a] /\ outbox'[a] = outbox[a]
          /\ outbox'[b] = outbox[b] \/ outbox'[b] = <<>>
          /\ outbox'[b] # <<>> => FALSE
      BY <2>1 DEF Connects, ProxyConnects, OnNewConnection, ProxyHangsUp, OnDisconnected,
                  TypeOK, OrderInv, NothingToNobody
    <3>2. DOMAIN <<>> = {}
      BY EmptySeq, LenProperties
    <3> QED BY <3>1, <3>2 DEF OrderInv, NothingToNobody, CommandsInOrder
  <2>2. ASSUME UNCHANGED <<sock, outbox, nextId>>
        PROVE  (NothingToNobody /\ CommandsInOrder)'
    BY <2>2 DEF OrderInv, NothingToNobody, CommandsInOrder
  <2>3. ASSUME NEW b \in Browsers, OnReadyRead(b) \/ HubPushes(b)
        PROVE  (NothingToNobody /\ CommandsInOrder)'
    BY <2>3, <2>2 DEF OnReadyRead, HubPushes, server
  <2>4. CASE UNCHANGED vars
    BY <2>4, <2>2 DEF vars, server
  <2> QED BY <2>1, <2>3, <2>4, SendKeepsOrder, ExecuteKeepsOrder
          DEF Next, Slot, Connects, SendsCommand
<1> QED BY <1>1, <1>2, TypeCorrect, AlwaysTruthful, PTL DEF Spec, OrderInv

(* What makes UnsharedPageOnly inductive: a command is passed only to      *)
(* pages with the tab id of its item, a command on its way still has that  *)
(* id, no command was executed before it was sent, and what was clicked on *)
(* is a page.                                                              *)
SameTab == \A i \in Ids : \A page \in asked[i], other \in acted[i] : other[2] = page[2]

IssuedInv ==
  /\ \A b \in Browsers : \A i \in DOMAIN outbox[b] :
       /\ outbox[b][i].id < nextId
       /\ \A page \in asked[outbox[b][i].id] :
            outbox[b][i].name = "control" /\ outbox[b][i].tab = page[2]
  /\ \A i \in Ids : i >= nextId => acted[i] = {}

ClickedInv == IssuedInv /\ SameTab /\ asked \in [Ids -> SUBSET Pages]

(* Sending a command adds one whose tab is that of its item. *)
LEMMA SendKeepsTabs ==
  ASSUME TypeOK, ShownIsOneList, ClickedInv, SendsCommand
  PROVE  ClickedInv'
<1>1. PICK name \in {"GetMediaList", "control"}, tab \in AllTabs \cup {NoTab},
           clicked \in SUBSET (owner \X tabs) :
        /\ SendCommand(name, tab, clicked)
        /\ \A page \in clicked : name = "control" /\ tab = page[2]
  BY CommandSent
<1> DEFINE c == [id |-> nextId, name |-> name, tab |-> tab]
<1>2. /\ Broadcast(c) /\ nextId' = nextId + 1 /\ nextId \in Ids /\ acted' = acted
      /\ asked' = [asked EXCEPT ![nextId] = clicked]
  BY <1>1 DEF SendCommand, TypeOK, Ids
<1>3. \A i \in Ids : i # nextId => asked'[i] = asked[i]
  BY <1>2 DEF TypeOK
<1>4. asked'[nextId] = clicked
  BY <1>2 DEF TypeOK
<1>9. asked' \in [Ids -> SUBSET Pages]
  <2>1. clicked \in SUBSET Pages
    <3>1. \A page \in owner \X tabs : page \in Pages
      BY DEF ShownIsOneList, Lists, Pages, TypeOK
    <3> QED BY <3>1
  <2> QED BY <1>2, <2>1 DEF ClickedInv
<1>5. nextId \in Nat /\ \A i \in Ids : i \in Nat
  BY <1>2 DEF Ids
<1>6. ASSUME NEW b \in Browsers, NEW i \in DOMAIN outbox'[b]
      PROVE  /\ outbox'[b][i].id < nextId'
             /\ \A page \in asked'[outbox'[b][i].id] :
                  outbox'[b][i].name = "control" /\ outbox'[b][i].tab = page[2]
  <2>1. outbox[b] \in Seq(Command) /\ c \in Command
    BY <1>2 DEF TypeOK, Command
  <2>2. CASE i \in DOMAIN outbox[b] /\ outbox'[b][i] = outbox[b][i]
    <3>1. outbox[b][i].id \in Ids /\ outbox[b][i].id < nextId
      <4>1. outbox[b][i] \in Command
        BY <2>1, <2>2, ElementOfSeq, LenProperties
      <4> QED BY <2>2, <4>1 DEF ClickedInv, IssuedInv, Command
    <3>2. asked'[outbox[b][i].id] = asked[outbox[b][i].id]
      BY <1>3, <1>5, <3>1
    <3>3. outbox[b][i].id < nextId + 1
      BY <1>5, <3>1
    <3> QED BY <1>2, <2>2, <3>2, <3>3 DEF ClickedInv, IssuedInv
  <2>3. CASE outbox'[b][i] = c
    <3>1. c.id = nextId /\ c.name = name /\ c.tab = tab
      OBVIOUS
    <3>2. nextId < nextId + 1
      BY <1>5
    <3> QED BY <1>1, <1>2, <1>4, <2>3, <3>1, <3>2
  <2>4. outbox'[b] = outbox[b] \/ outbox'[b] = Append(outbox[b], c)
    BY <1>2 DEF Broadcast
  <2>5. \/ i \in DOMAIN outbox[b] /\ outbox'[b][i] = outbox[b][i]
        \/ outbox'[b][i] = c
    <3>1. CASE outbox'[b] = outbox[b]
      BY <3>1
    <3>2. CASE outbox'[b] = Append(outbox[b], c)
      BY <2>1, <3>2, AppendProperties, LenProperties
    <3> QED BY <2>4, <3>1, <3>2
  <2> QED BY <2>2, <2>3, <2>5
<1>7. \A i \in Ids : i >= nextId' => acted'[i] = {}
  <2>1. \A i \in Ids : i >= nextId + 1 => i >= nextId
    BY <1>5
  <2>2. \A i \in Ids : i >= nextId => acted[i] = {}
    BY DEF ClickedInv, IssuedInv
  <2> QED BY <1>2, <2>1, <2>2
<1>8. SameTab'
  <2>1. acted[nextId] = {}
    BY <1>2, <1>5 DEF ClickedInv, IssuedInv
  <2> QED BY <1>2, <1>3, <2>1 DEF ClickedInv, SameTab
<1> QED BY <1>6, <1>7, <1>8, <1>9 DEF ClickedInv, IssuedInv

(* Executing a command that was clicked on an item reaches that tab. *)
LEMMA ExecuteKeepsTabs ==
  ASSUME TypeOK, ClickedInv, NEW b \in Browsers, HubExecutes(b)
  PROVE  ClickedInv'
<1> DEFINE c == Head(outbox[b])
<1>1. /\ outbox[b] # <<>> /\ outbox' = [outbox EXCEPT ![b] = Tail(@)]
      /\ nextId' = nextId /\ asked' = asked
  BY DEF HubExecutes
<1>2. /\ c \in Command /\ c.id \in Ids /\ c.id < nextId
      /\ \A page \in asked[c.id] : c.name = "control" /\ c.tab = page[2] /\ page \in Pages
  <2>1. c = outbox[b][1] /\ c \in Command /\ 1 \in DOMAIN outbox[b]
    BY <1>1, FirstCommand
  <2> QED BY <2>1 DEF ClickedInv, IssuedInv, Command
<1>3. \A i \in Ids : i # c.id => acted'[i] = acted[i]
  BY <1>2 DEF HubExecutes, TypeOK
<1>4. ASSUME NEW page \in asked[c.id], NEW other \in acted'[c.id]
      PROVE  other[2] = page[2]
  <2>1. CASE other \in acted[c.id]
    BY <1>2, <2>1 DEF ClickedInv, SameTab
  <2>2. CASE other \notin acted[c.id]
    <3>1. PICK l \in Lists(b) : other[2] = TargetIn(c, l.active)
      BY <1>2, <2>2 DEF HubExecutes, TypeOK
    <3>2. page[2] # NoTab
      BY <1>2, TabsOfAssumption DEF Pages
    <3>3. TargetIn(c, l.active) = page[2]
      BY <1>2, <3>2 DEF TargetIn
    <3> QED BY <3>1, <3>3
  <2> QED BY <2>1, <2>2
<1>5. SameTab' /\ asked' \in [Ids -> SUBSET Pages]
  BY <1>1, <1>2, <1>3, <1>4 DEF ClickedInv, SameTab
<1>6. ASSUME NEW a \in Browsers, NEW i \in DOMAIN outbox'[a]
      PROVE  \E j \in DOMAIN outbox[a] : outbox'[a][i] = outbox[a][j]
  <2>1. CASE a = b
    <3>1. outbox'[a] = Tail(outbox[b])
      BY <1>1, <2>1 DEF TypeOK
    <3> QED BY <1>1, <2>1, <3>1, FirstCommand
  <2>2. CASE a # b
    BY <1>1, <2>2 DEF TypeOK
  <2> QED BY <2>1, <2>2
<1>7. ASSUME NEW a \in Browsers, NEW i \in DOMAIN outbox'[a]
      PROVE  /\ outbox'[a][i].id < nextId'
             /\ \A page \in asked'[outbox'[a][i].id] :
                  outbox'[a][i].name = "control" /\ outbox'[a][i].tab = page[2]
  <2>1. PICK j \in DOMAIN outbox[a] : outbox'[a][i] = outbox[a][j]
    BY <1>6
  <2> QED BY <1>1, <2>1 DEF ClickedInv, IssuedInv
<1>8. \A i \in Ids : i >= nextId' => acted'[i] = {}
  <2>1. c.id \in Nat /\ nextId \in Nat /\ \A i \in Ids : i \in Nat
    BY <1>2 DEF Ids, TypeOK
  <2> QED BY <1>1, <1>2, <1>3, <2>1 DEF ClickedInv, IssuedInv
<1> QED BY <1>5, <1>7, <1>8 DEF ClickedInv, IssuedInv

(* The pages with one tab id are one page unless browsers share the id. *)
LEMMA SameTabSamePage == TypeOK /\ ClickedInv => UnsharedPageOnly
<1> SUFFICES ASSUME TypeOK, ClickedInv,
                    NEW i \in Ids, asked[i] # {}, \A page \in asked[i] : ~Shared(page[2]),
                    NEW other \in acted[i]
             PROVE  other \in asked[i]
  BY DEF UnsharedPageOnly
<1>1. PICK page \in asked[i] : TRUE
  OBVIOUS
<1>2. page \in Pages /\ other \in Pages
  BY DEF ClickedInv, TypeOK
<1>3. other[2] = page[2]
  BY DEF ClickedInv, SameTab
<1>4. other[1] = page[1]
  BY <1>2, <1>3 DEF Shared, Pages
<1>5. page = <<page[1], page[2]>> /\ other = <<other[1], other[2]>>
  BY <1>2 DEF Pages
<1> QED BY <1>3, <1>4, <1>5

(* A command clicked on an item is passed to the page of that item and to  *)
(* no other, whatever the list that is shown by then, if no other browser  *)
(* has a tab with the same id.                                             *)
THEOREM AlwaysUnsharedPage == Spec => []UnsharedPageOnly
<1>1. Init => ClickedInv
  <2> SUFFICES ASSUME Init PROVE ClickedInv
    OBVIOUS
  <2>1. \A b \in Browsers : DOMAIN outbox[b] = {}
    <3>1. DOMAIN <<>> = {}
      BY EmptySeq, LenProperties
    <3> QED BY <3>1 DEF Init
  <2> QED BY <2>1 DEF Init, ClickedInv, IssuedInv, SameTab
<1>2. TypeOK /\ ShownIsOneList /\ ClickedInv /\ [Next]_vars => ClickedInv'
  <2> SUFFICES ASSUME TypeOK, ShownIsOneList, ClickedInv, [Next]_vars PROVE ClickedInv'
    OBVIOUS
  <2>1. ASSUME NEW b \in Browsers, Connects(b) PROVE ClickedInv'
    <3>1. /\ UNCHANGED <<nextId, history>>
          /\ \A a \in Browsers : outbox'[a] = outbox[a] \/ outbox'[a] = <<>>
      BY <2>1 DEF Connects, ProxyConnects, OnNewConnection, ProxyHangsUp, OnDisconnected,
                  TypeOK
    <3>2. DOMAIN <<>> = {}
      BY EmptySeq, LenProperties
    <3> QED BY <3>1, <3>2 DEF ClickedInv, IssuedInv, SameTab, history
  <2>2. ASSUME UNCHANGED <<outbox, nextId, history>> PROVE ClickedInv'
    BY <2>2 DEF ClickedInv, IssuedInv, SameTab, history
  <2>3. ASSUME NEW b \in Browsers, OnReadyRead(b) \/ HubPushes(b) PROVE ClickedInv'
    BY <2>3, <2>2 DEF OnReadyRead, HubPushes
  <2>4. CASE UNCHANGED vars
    BY <2>4, <2>2 DEF vars
  <2> QED BY <2>1, <2>3, <2>4, SendKeepsTabs, ExecuteKeepsTabs
          DEF Next, Slot, Connects, SendsCommand
<1> QED BY <1>1, <1>2, SameTabSamePage, TypeCorrect, AlwaysOneList, PTL DEF Spec
=============================================================================
