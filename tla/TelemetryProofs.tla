-------------------------- MODULE TelemetryProofs --------------------------
(***************************************************************************)
(* Theorems about Telemetry, for any kinds, ports, limits and numbers of   *)
(* frames, components and unread lines.                                    *)
(***************************************************************************)
EXTENDS Telemetry, SequenceTheorems, WellFoundedInduction, TLAPS

-----------------------------------------------------------------------------
(* Lemmas about the operators. *)

(* A set of ports that is not empty has a first one. *)
LEMMA LeastExists ==
  ASSUME NEW S \in SUBSET Ports, S # {}
  PROVE  Least(S) \in S
<1>1. S \subseteq Nat
  BY PortsAssumption
<1>2. PICK x \in S : \A y \in S : ~(<<y, x>> \in OpToRel(<, Nat))
  BY <1>1, WFMin, NatLessThanWellFounded
<1>3. \A y \in S : ~(y < x)
  BY <1>1, <1>2 DEF OpToRel
<1>4. \A y \in S : x <= y
  BY <1>1, <1>3
<1> QED BY <1>4 DEF Least

(* A set of positions that is not empty has a last one. *)
LEMMA LastExists ==
  ASSUME NEW n \in Nat, NEW S \in SUBSET (1 .. n), S # {}
  PROVE  LastIndex(S) \in S
<1> DEFINE D == {n - i : i \in S}
<1>1. D \subseteq Nat /\ D # {}
  <2>1. \A i \in S : n - i \in Nat
    <3> SUFFICES ASSUME NEW i \in S PROVE n - i \in Nat
      OBVIOUS
    <3>1. i \in 1 .. n
      OBVIOUS
    <3> QED BY <3>1
  <2> QED BY <2>1
<1>2. PICK d \in D : \A e \in D : ~(<<e, d>> \in OpToRel(<, Nat))
  BY <1>1, WFMin, NatLessThanWellFounded
<1>3. \A e \in D : ~(e < d)
  BY <1>1, <1>2 DEF OpToRel
<1>4. PICK x \in S : d = n - x
  BY <1>2
<1>5. \A y \in S : ~(n - y < n - x)
  BY <1>3, <1>4
<1>6. \A y \in S : y <= x
  <2> SUFFICES ASSUME NEW y \in S PROVE y <= x
    OBVIOUS
  <2>1. x \in Nat /\ y \in Nat /\ ~(n - y < n - x)
    BY <1>5
  <2> QED BY <2>1
<1> QED BY <1>6 DEF LastIndex

(* Only components of the monitor get a headline. *)
LEMMA ByKindType ==
  ASSUME NEW nodes \in Seq(Entries)
  PROVE  ByKind(nodes) \in Values
<1> SUFFICES ASSUME NEW k \in Kinds
             PROVE  ByKind(nodes)[k] \in {NoValue} \cup Nodes
  BY DEF ByKind, Values
<1> DEFINE at == {i \in DOMAIN nodes : nodes[i].kind = k}
<1>1. Len(nodes) \in Nat /\ DOMAIN nodes = 1 .. Len(nodes)
  BY LenProperties
<1>2. CASE at = {}
  BY <1>2 DEF ByKind
<1>3. CASE at # {}
  <2>1. LastIndex(at) \in at
    BY <1>1, <1>3, LastExists
  <2>2. nodes[LastIndex(at)] \in Entries /\ nodes[LastIndex(at)].kind = k
    BY <2>1, <1>1, ElementOfSeq
  <2>3. nodes[LastIndex(at)] \in Nodes
    BY <2>2, KindsAssumption DEF Entries
  <2> QED BY <1>3, <2>3 DEF ByKind
<1> QED BY <1>2, <1>3

(* A history keeps to its limit. *)
LEMMA KeepLastType ==
  ASSUME NEW T, NEW h \in Seq(T), Len(h) <= Limit, NEW v \in T
  PROVE  KeepLast(h, v) \in Seq(T) /\ Len(KeepLast(h, v)) <= Limit
<1> DEFINE all == Append(h, v)
<1>1. all \in Seq(T) /\ Len(all) = Len(h) + 1 /\ Len(h) \in Nat
  BY AppendProperties, LenProperties
<1>2. all # <<>>
  BY <1>1, EmptySeq
<1>3. Tail(all) \in Seq(T) /\ Len(Tail(all)) = Len(all) - 1
  BY <1>1, <1>2, HeadTailProperties
<1>4. Limit \in Nat
  BY BoundsAssumption
<1>5. CASE Len(all) > Limit
  <2>1. KeepLast(h, v) = Tail(all)
    BY <1>5 DEF KeepLast
  <2> HIDE DEF all
  <2> QED BY <2>1, <1>1, <1>3, <1>4
<1>6. CASE ~(Len(all) > Limit)
  <2>1. KeepLast(h, v) = all
    BY <1>6 DEF KeepLast
  <2> HIDE DEF all
  <2> QED BY <2>1, <1>1, <1>4, <1>6
<1> QED BY <1>5, <1>6

(* A line that is written is added, if there is room. *)
LEMMA WritesType ==
  ASSUME TypeOK, NEW line \in Line, Writes(line)
  PROVE  unread' \in Seq(Line) /\ Len(unread') <= MaxUnread
<1>1. unread \in Seq(Line) /\ Len(unread) < MaxUnread /\ unread' = Append(unread, line)
  BY DEF TypeOK, Writes
<1>2. Append(unread, line) \in Seq(Line) /\ Len(Append(unread, line)) = Len(unread) + 1
  BY <1>1, AppendProperties
<1>3. Len(unread) \in Nat /\ MaxUnread \in Nat
  BY <1>1, LenProperties, BoundsAssumption
<1> QED BY <1>1, <1>2, <1>3

(* The list of ports keeps its type. *)
LEMMA RefreshType ==
  ASSUME TypeOK, RefreshPorts
  PROVE  listed' \subseteq Ports /\ selected' \in Ports \cup {NoPort}
  BY LeastExists DEF TypeOK, RefreshPorts

-----------------------------------------------------------------------------
(* TypeOK holds: in particular the histories keep to their limit and the   *)
(* window believes to be connected exactly when it has a port open.        *)
THEOREM TypeCorrect == Spec => []TypeOK
<1>1. Init => TypeOK
  <2> SUFFICES ASSUME Init PROVE TypeOK
    OBVIOUS
  <2>1. <<>> \in Seq(Line) /\ <<>> \in Seq(Entries) /\ <<>> \in Seq({NoValue} \cup Nodes)
        /\ Len(<<>>) = 0
    BY EmptySeq
  <2>2. selected \in Ports \cup {NoPort}
    BY LeastExists DEF Init
  <2>3. /\ overview \in Values
        /\ history \in [Kinds -> Seq({NoValue} \cup Nodes)]
        /\ \A k \in Kinds : Len(history[k]) <= Limit
    BY <2>1, BoundsAssumption DEF Init, Values
  <2>4. /\ unread \in Seq(Line) /\ Len(unread) <= MaxUnread
        /\ received \in Seq(Entries) /\ cards \in Seq(Entries)
    BY <2>1, BoundsAssumption DEF Init
  <2>5. frame \in 0 .. MaxFrames /\ size \in [Frames -> 0 .. MaxNodes]
    BY BoundsAssumption DEF Init
  <2> QED BY <2>2, <2>3, <2>4, <2>5, PortsAssumption DEF Init, TypeOK, NoPort
<1>2. TypeOK /\ [Next]_vars => TypeOK'
  <2> SUFFICES ASSUME TypeOK, [Next]_vars
               PROVE  TypeOK'
    OBVIOUS
  <2>1. CASE MonitorBegins
    <3>1. unread' \in Seq(Line) /\ Len(unread') <= MaxUnread
      BY <2>1, WritesType DEF MonitorBegins, Line
    <3>2. frame' \in 0 .. MaxFrames
      BY <2>1, BoundsAssumption DEF MonitorBegins, TypeOK
    <3> QED BY <2>1, <3>1, <3>2
            DEF MonitorBegins, TypeOK, shownVars, portVars, serialVars, Values
  <2>2. ASSUME NEW k \in Kinds \cup {Generic}, MonitorWritesNode(k)
        PROVE  TypeOK'
    <3> DEFINE line == [what |-> "node", kind |-> k, frame |-> frame, nth |-> size[frame] + 1]
    <3>1. frame \in Frames /\ size[frame] \in 0 .. MaxNodes /\ size[frame] < MaxNodes
      BY <2>2, BoundsAssumption DEF MonitorWritesNode, TypeOK, Frames
    <3>2. size[frame] + 1 \in 1 .. MaxNodes
      BY <3>1, BoundsAssumption
    <3>3. line \in Line
      BY <3>1, <3>2 DEF Line, Entries, Nodes
    <3>4. unread' \in Seq(Line) /\ Len(unread') <= MaxUnread
      BY <2>2, <3>3, WritesType DEF MonitorWritesNode
    <3>5. size' \in [Frames -> 0 .. MaxNodes]
      BY <2>2, <3>1, <3>2 DEF MonitorWritesNode, TypeOK
    <3> QED BY <2>2, <3>4, <3>5
            DEF MonitorWritesNode, TypeOK, shownVars, portVars, serialVars, Values
  <2>3. CASE MonitorEnds
    <3>1. unread' \in Seq(Line) /\ Len(unread') <= MaxUnread
      BY <2>3, WritesType DEF MonitorEnds, Line
    <3> QED BY <2>3, <3>1 DEF MonitorEnds, TypeOK, shownVars, portVars, serialVars, Values
  <2>4. CASE MonitorPrints
    <3>1. unread' \in Seq(Line) /\ Len(unread') <= MaxUnread
      BY <2>4, WritesType DEF MonitorPrints, Line, Entries
    <3> QED BY <2>4, <3>1 DEF MonitorPrints, TypeOK, shownVars, portVars, serialVars, Values
  <2>5. CASE MonitorDies
    BY <2>5 DEF MonitorDies, TypeOK, shownVars, portVars, serialVars, Values
  <2>6. CASE ReadLine
    <3>1. /\ Head(unread) \in Line /\ unread' \in Seq(Line) /\ Len(unread') <= MaxUnread
      <4>1. unread \in Seq(Line) /\ unread # <<>> /\ unread' = Tail(unread)
            /\ Len(unread) <= MaxUnread
        BY <2>6 DEF ReadLine, TypeOK
      <4>2. /\ Head(unread) \in Line /\ Tail(unread) \in Seq(Line)
            /\ Len(Tail(unread)) = Len(unread) - 1 /\ Len(unread) \in Nat
        BY <4>1, HeadTailProperties, LenProperties
      <4> QED BY <4>1, <4>2, BoundsAssumption
    <3>2. CASE Head(unread).what = "BEGIN"
      <4>1. received' \in Seq(Entries)
        BY <2>6, <3>2, EmptySeq DEF ReadLine, Begin
      <4> QED BY <2>6, <3>1, <3>2, <4>1
              DEF ReadLine, Begin, TypeOK, monitorVars, shownVars, portVars, Values
    <3>3. CASE Head(unread).what = "END"
      <4>1. ResolveData(received) /\ received' = received
        BY <2>6, <3>3 DEF ReadLine
      <4>2. ByKind(received) \in Values
        BY ByKindType DEF TypeOK
      <4>3. history' \in [Kinds -> Seq({NoValue} \cup Nodes)]
            /\ \A k \in Kinds : Len(history'[k]) <= Limit
        <5>1. history' = [k \in Kinds |-> KeepLast(history[k], ByKind(received)[k])]
          BY <4>1 DEF ResolveData, ShowFrame, AppendSamples
        <5>2. \A k \in Kinds : /\ KeepLast(history[k], ByKind(received)[k])
                                     \in Seq({NoValue} \cup Nodes)
                                /\ Len(KeepLast(history[k], ByKind(received)[k])) <= Limit
          BY <4>2, KeepLastType DEF TypeOK, Values
        <5> QED BY <5>1, <5>2
      <4>4. listed' \subseteq Ports /\ selected' \in Ports \cup {NoPort}
        BY <4>1, RefreshType DEF ResolveData
      <4>5. fed' \subseteq Values
        BY <4>1, <4>2 DEF ResolveData, WriteJson, TypeOK
      <4>6. cards' = received /\ overview' = ByKind(received)
        BY <4>1 DEF ResolveData, ShowFrame
      <4>7. UNCHANGED <<monitor, frame, size, plugged, connected, open, live, box>>
        BY <2>6 DEF ReadLine, monitorVars
      <4> HIDE DEF ByKind, ResolveData
      <4>8. /\ overview' \in Values /\ received' \in Seq(Entries) /\ cards' \in Seq(Entries)
        BY <4>1, <4>2, <4>6 DEF TypeOK
      <4>9. /\ monitor' \in {"idle", "chatty", "inside", "dead"}
            /\ frame' \in 0 .. MaxFrames /\ (monitor' = "inside" => frame' # 0)
            /\ size' \in [Frames -> 0 .. MaxNodes]
            /\ plugged' \subseteq Ports /\ connected' \in BOOLEAN
            /\ open' \in Ports \cup {NoPort} /\ (connected' <=> open' # NoPort)
            /\ live' \in BOOLEAN /\ box' \in BOOLEAN
        BY <4>7 DEF TypeOK
      <4> QED BY <3>1, <4>3, <4>4, <4>5, <4>8, <4>9 DEF TypeOK
    <3>4. CASE Head(unread).what \in {"node", "noise"}
      <4>1. Head(unread) \in Entries
        BY <3>1, <3>4 DEF Line
      <4>2. received' \in Seq(Entries)
        <5>1. received' = Append(received, Head(unread))
          BY <2>6, <3>4 DEF ReadLine
        <5>2. received \in Seq(Entries)
          BY DEF TypeOK
        <5> QED BY <4>1, <5>1, <5>2, AppendProperties
      <4> QED BY <2>6, <3>1, <3>4, <4>2
              DEF ReadLine, TypeOK, monitorVars, shownVars, portVars, Values
    <3> QED BY <2>6, <3>2, <3>3, <3>4 DEF ReadLine
  <2>7. CASE RefreshButton
    <3>1. listed' \subseteq Ports /\ selected' \in Ports \cup {NoPort}
      BY <2>7, RefreshType DEF RefreshButton
    <3> QED BY <2>7, <3>1
            DEF RefreshButton, UserActs, TypeOK, monitorVars, shownVars, serialVars, Values
  <2>8. CASE OpenSucceeds \/ OpenFails \/ CloseSerial \/ BoxClosed
    <3> USE DEF UserActs, TypeOK, monitorVars, shownVars, portVars, serialVars, Values
    <3>1. CASE OpenSucceeds
      BY <3>1, PortsAssumption DEF OpenSucceeds
    <3>2. CASE OpenFails
      BY <3>2 DEF OpenFails
    <3>3. CASE CloseSerial
      BY <3>3 DEF CloseSerial
    <3>4. CASE BoxClosed
      BY <3>4 DEF BoxClosed
    <3> QED BY <2>8, <3>1, <3>2, <3>3, <3>4
  <2>9. ASSUME NEW p \in Ports, SetSelectedPort(p) \/ Plug(p) \/ Unplug(p)
        PROVE  TypeOK'
    <3> USE DEF TypeOK, monitorVars, shownVars, portVars, serialVars, Values
    <3>1. CASE SetSelectedPort(p)
      BY <3>1 DEF SetSelectedPort, UserActs
    <3>2. CASE Plug(p)
      BY <3>2 DEF Plug
    <3>3. CASE Unplug(p)
      BY <3>3 DEF Unplug
    <3> QED BY <2>9, <3>1, <3>2, <3>3
  <2>10. CASE UNCHANGED vars
    BY <2>10 DEF vars, TypeOK, monitorVars, shownVars, portVars, serialVars, Values
  <2> QED
    BY <2>1, <2>2, <2>3, <2>4, <2>5, <2>6, <2>7, <2>8, <2>9, <2>10
    DEF Next, Monitor, ReadProcessData, User, Devices
<1> QED BY <1>1, <1>2, PTL DEF Spec

-----------------------------------------------------------------------------
(* A refresh leaves a selection that is listed. *)
LEMMA RefreshListed ==
  ASSUME TypeOK, SelectedIsListed, RefreshPorts
  PROVE  SelectedIsListed'
<1>1. plugged # {} => Least(plugged) \in plugged
  BY LeastExists DEF TypeOK
<1>2. listed' = plugged
  BY DEF RefreshPorts
<1>3. selected' = IF plugged = listed \/ selected \in plugged THEN selected
                  ELSE IF plugged = {} THEN NoPort ELSE Least(plugged)
  BY DEF RefreshPorts
<1>4. CASE plugged = listed
  BY <1>2, <1>3, <1>4 DEF SelectedIsListed
<1>5. CASE plugged # listed
  BY <1>1, <1>2, <1>3, <1>5 DEF SelectedIsListed
<1> QED BY <1>4, <1>5

(* SelectedIsListed holds: refreshPorts keeps it from the constructor on,  *)
(* whenever the list changes.                                              *)
THEOREM AlwaysListed == Spec => []SelectedIsListed
<1>1. Init => SelectedIsListed
  BY LeastExists DEF Init, SelectedIsListed
<1>2. TypeOK /\ SelectedIsListed /\ [Next]_vars => SelectedIsListed'
  <2> SUFFICES ASSUME TypeOK, SelectedIsListed, [Next]_vars
               PROVE  SelectedIsListed'
    OBVIOUS
  <2>1. CASE Monitor
    BY <2>1 DEF Monitor, MonitorBegins, MonitorEnds, MonitorPrints, MonitorDies,
                MonitorWritesNode, portVars, SelectedIsListed
  <2>2. CASE ReadLine
    <3>1. UNCHANGED portVars \/ RefreshPorts
      BY <2>2 DEF ReadLine, ResolveData
    <3> QED BY <3>1, RefreshListed DEF portVars, SelectedIsListed
  <2>3. CASE RefreshButton
    BY <2>3, RefreshListed DEF RefreshButton
  <2>4. CASE OpenSucceeds \/ OpenFails \/ CloseSerial \/ BoxClosed
    BY <2>4 DEF OpenSucceeds, OpenFails, CloseSerial, BoxClosed, portVars, SelectedIsListed
  <2>5. ASSUME NEW p \in Ports, SetSelectedPort(p)
        PROVE  SelectedIsListed'
    BY <2>5 DEF SetSelectedPort, SelectedIsListed
  <2>6. ASSUME NEW p \in Ports, Plug(p) \/ Unplug(p)
        PROVE  SelectedIsListed'
    BY <2>6 DEF Plug, Unplug, portVars, SelectedIsListed
  <2>7. CASE UNCHANGED vars
    BY <2>7 DEF vars, portVars, SelectedIsListed
  <2> QED BY <2>1, <2>2, <2>3, <2>4, <2>5, <2>6, <2>7 DEF Next, ReadProcessData, User, Devices
<1> QED BY <1>1, <1>2, TypeCorrect, PTL DEF Spec

(* FedWhatIsShown holds: a frame is written after it is shown, and only a  *)
(* connection or the end of the device comes in between.                   *)
THEOREM AlwaysFed == Spec => []FedWhatIsShown
<1>1. Init => FedWhatIsShown
  BY DEF Init, FedWhatIsShown
<1>2. TypeOK /\ FedWhatIsShown /\ [Next]_vars => FedWhatIsShown'
  <2> SUFFICES ASSUME TypeOK, FedWhatIsShown, [Next]_vars
               PROVE  FedWhatIsShown'
    OBVIOUS
  <2> USE DEF FedWhatIsShown, shownVars, serialVars
  <2>1. CASE Monitor
    BY <2>1 DEF Monitor, MonitorBegins, MonitorEnds, MonitorPrints, MonitorDies,
                MonitorWritesNode
  <2>2. CASE ReadLine
    <3>1. UNCHANGED <<connected, open, live>>
      BY <2>2 DEF ReadLine
    <3>2. CASE UNCHANGED <<shownVars, fed>>
      BY <3>1, <3>2
    <3>3. CASE ResolveData(received)
      <4>1. overview' = ByKind(received)
        BY <3>3 DEF ResolveData, ShowFrame
      <4>2. connected /\ live => fed' = {ByKind(received)}
        BY <3>3 DEF ResolveData, WriteJson, TypeOK
      <4> QED BY <3>1, <4>1, <4>2
    <3> QED BY <2>2, <3>2, <3>3 DEF ReadLine
  <2>3. CASE RefreshButton
    BY <2>3 DEF RefreshButton, UserActs
  <2>4. CASE OpenSucceeds
    BY <2>4 DEF OpenSucceeds
  <2>5. CASE OpenFails \/ CloseSerial \/ BoxClosed
    BY <2>5 DEF OpenFails, CloseSerial, BoxClosed, UserActs
  <2>6. ASSUME NEW p \in Ports, SetSelectedPort(p) \/ Plug(p) \/ Unplug(p)
        PROVE  FedWhatIsShown'
    <3>1. CASE SetSelectedPort(p)
      BY <3>1 DEF SetSelectedPort, UserActs
    <3>2. CASE Plug(p)
      BY <3>2 DEF Plug
    <3>3. CASE Unplug(p)
      <4>1. UNCHANGED <<overview, connected, fed>> /\ (live' => live)
        BY <3>3 DEF Unplug, TypeOK
      <4> QED BY <4>1
    <3> QED BY <2>6, <3>1, <3>2, <3>3
  <2>7. CASE UNCHANGED vars
    BY <2>7 DEF vars
  <2> QED BY <2>1, <2>2, <2>3, <2>4, <2>5, <2>6, <2>7 DEF Next, ReadProcessData, User, Devices
<1> QED BY <1>1, <1>2, TypeCorrect, PTL DEF Spec

-----------------------------------------------------------------------------
(* The invariant behind ShownIsOneFrame follows a frame from the monitor   *)
(* through the pipe into m_receivedData: each line fits the one before it, *)
(* the first one that is unread fits what was received, and what the       *)
(* monitor writes next will fit the last one.                              *)

Closed(n) == n \in Frames /\ n <= frame /\ (n = frame => monitor # "inside")

(* The last components of the frames that the monitor has ended. *)
Done == {l \in Nodes : Closed(l.frame) /\ l.nth = size[l.frame]}

(* The first components of frame n, in order. *)
Part(s, n) == \A i \in DOMAIN s : s[i] \in Nodes /\ s[i].frame = n /\ s[i].nth = i

IsFrame(s, D) == s = <<>> \/ ((\E n \in Frames : Part(s, n)) /\ s[Len(s)] \in D)

Follows(a, b, D) ==
  /\ b.what = "node" => \/ a.what = "BEGIN" /\ b.nth = 1
                        \/ a \in Nodes /\ b.frame = a.frame /\ b.nth = a.nth + 1
  /\ b.what = "END" => a.what = "BEGIN" \/ a \in D

Ordered(s, D) == \A i \in 1 .. Len(s) - 1 : Follows(s[i], s[i + 1], D)

Fits(b, r, D) ==
  /\ b.what = "node" => Part(r, b.frame) /\ b.nth = Len(r) + 1
  /\ b.what = "END" => IsFrame(r, D)

LastFits ==
  monitor = "inside" =>
    IF unread = <<>> THEN Part(received, frame) /\ Len(received) = size[frame]
    ELSE LET last == unread[Len(unread)] IN
           \/ last.what = "BEGIN" /\ size[frame] = 0
           \/ last \in Nodes /\ last.frame = frame /\ last.nth = size[frame]

NoneAhead == \A n \in Frames : n > frame => size[n] = 0

FrameInv ==
  /\ Ordered(unread, Done)
  /\ unread # <<>> => Fits(unread[1], received, Done)
  /\ LastFits
  /\ NoneAhead
  /\ overview = ByKind(cards) /\ IsFrame(cards, Done)

(* A line that fits the last one may be added. *)
LEMMA LineAdded ==
  ASSUME NEW s \in Seq(Line), NEW b \in Line, NEW r \in Seq(Entries), NEW D, NEW E, D \subseteq E,
         Ordered(s, D), s # <<>> => Fits(s[1], r, D),
         s # <<>> => Follows(s[Len(s)], b, E),
         s = <<>> => Fits(b, r, E)
  PROVE  /\ Ordered(Append(s, b), E)
         /\ Append(s, b) # <<>>
         /\ Fits(Append(s, b)[1], r, E)
<1> DEFINE t == Append(s, b)
<1>1. /\ t \in Seq(Line) /\ Len(t) = Len(s) + 1 /\ t[Len(s) + 1] = b
      /\ \A i \in 1 .. Len(s) : t[i] = s[i]
      /\ Len(s) \in Nat
  BY AppendProperties, LenProperties
<1>2. t # <<>>
  BY <1>1, EmptySeq
<1>3. Ordered(t, E)
  <2> SUFFICES ASSUME NEW i \in 1 .. Len(t) - 1
               PROVE  Follows(t[i], t[i + 1], E)
    BY DEF Ordered
  <2>1. i \in 1 .. Len(s)
    BY <1>1
  <2>2. CASE i = Len(s)
    <3>1. s # <<>>
      BY <2>1, EmptySeq
    <3>2. t[i] = s[Len(s)] /\ t[i + 1] = b
      BY <1>1, <2>1, <2>2
    <3> QED BY <3>1, <3>2
  <2>3. CASE i # Len(s)
    <3>1. i \in 1 .. Len(s) - 1 /\ i + 1 \in 1 .. Len(s)
      BY <1>1, <2>1, <2>3
    <3>2. Follows(s[i], s[i + 1], D)
      BY <3>1 DEF Ordered
    <3>3. t[i] = s[i] /\ t[i + 1] = s[i + 1]
      BY <1>1, <2>1, <3>1
    <3> HIDE DEF t
    <3> QED BY <3>2, <3>3 DEF Follows
  <2> QED BY <2>2, <2>3
<1>4. Fits(t[1], r, E)
  <2>1. CASE s = <<>>
    <3>1. t[1] = b
      BY <1>1, <2>1, EmptySeq
    <3> QED BY <2>1, <3>1
  <2>2. CASE s # <<>>
    <3>1. t[1] = s[1]
      BY <1>1, <2>2, EmptySeq
    <3> HIDE DEF t
    <3> QED BY <2>2, <3>1 DEF Fits, IsFrame
  <2> QED BY <2>1, <2>2
<1> QED BY <1>2, <1>3, <1>4

(* The next component of a frame may be added to the first ones. *)
LEMMA PartGrows ==
  ASSUME NEW r \in Seq(Entries), NEW l \in Nodes, Part(r, l.frame), l.nth = Len(r) + 1
  PROVE  /\ Part(Append(r, l), l.frame)
         /\ Len(Append(r, l)) = Len(r) + 1 /\ Append(r, l)[Len(r) + 1] = l
<1> DEFINE q == Append(r, l)
<1>1. /\ Len(q) = Len(r) + 1 /\ q[Len(r) + 1] = l /\ Len(r) \in Nat
      /\ DOMAIN q = 1 .. Len(q) /\ DOMAIN r = 1 .. Len(r)
      /\ \A i \in 1 .. Len(r) : q[i] = r[i]
  <2>1. l \in Entries
    BY DEF Entries
  <2> QED BY <2>1, AppendProperties, LenProperties
<1> HIDE DEF q
<1>2. ASSUME NEW i \in DOMAIN q
      PROVE  q[i] \in Nodes /\ q[i].frame = l.frame /\ q[i].nth = i
  <2>1. CASE i = Len(r) + 1
    BY <1>1, <2>1
  <2>2. CASE i # Len(r) + 1
    <3>1. i \in DOMAIN r /\ q[i] = r[i]
      BY <1>1, <2>2
    <3> QED BY <3>1 DEF Part
  <2> QED BY <2>1, <2>2
<1> QED BY <1>1, <1>2 DEF Part, q

(* A line that is read leaves an order, and the next one fits. *)
LEMMA LineRemoved ==
  ASSUME NEW s \in Seq(Line), s # <<>>, NEW r \in Seq(Entries), NEW D, D \subseteq Nodes,
         Ordered(s, D), Fits(s[1], r, D)
  PROVE  /\ Ordered(Tail(s), D)
         /\ Tail(s) # <<>> =>
              /\ s[1].what = "BEGIN" => Fits(Tail(s)[1], <<>>, D)
              /\ s[1].what = "END" => Fits(Tail(s)[1], r, D)
              /\ s[1] \in Entries => Fits(Tail(s)[1], Append(r, s[1]), D)
<1> DEFINE t == Tail(s)
<1>1. /\ t \in Seq(Line) /\ Len(t) = Len(s) - 1 /\ Len(s) \in Nat
      /\ \A i \in 1 .. Len(t) : t[i] = s[i + 1]
  BY HeadTailProperties, LenProperties
<1>2. Ordered(t, D)
  <2> SUFFICES ASSUME NEW i \in 1 .. Len(t) - 1
               PROVE  Follows(t[i], t[i + 1], D)
    BY DEF Ordered
  <2>1. i + 1 \in 1 .. Len(s) - 1 /\ i \in 1 .. Len(t) /\ i + 1 \in 1 .. Len(t)
    BY <1>1
  <2>2. t[i] = s[i + 1] /\ t[i + 1] = s[(i + 1) + 1]
    BY <1>1, <2>1
  <2> HIDE DEF t
  <2> QED BY <2>1, <2>2 DEF Ordered
<1>3. ASSUME t # <<>>
      PROVE  /\ s[1].what = "BEGIN" => Fits(t[1], <<>>, D)
             /\ s[1].what = "END" => Fits(t[1], r, D)
             /\ s[1] \in Entries => Fits(t[1], Append(r, s[1]), D)
  <2>1. Len(t) \in Nat \ {0}
    BY <1>1, <1>3, EmptySeq
  <2>2. t[1] = s[2] /\ Follows(s[1], s[2], D) /\ s[1] \in Line /\ t[1] \in Line
    BY <1>1, <2>1, ElementOfSeq DEF Ordered
  <2> HIDE DEF t
  <2>3. ASSUME s[1].what = "BEGIN" PROVE Fits(t[1], <<>>, D)
    <3>1. s[1] \notin Nodes
      BY <2>3 DEF Nodes
    <3>2. t[1].what = "node" => t[1].nth = 1
      BY <2>2, <3>1 DEF Follows
    <3>3. Len(<<>>) = 0 /\ \A n : Part(<<>>, n)
      BY DEF Part
    <3> QED BY <3>2, <3>3 DEF Fits, IsFrame
  <2>4. ASSUME s[1].what = "END" PROVE Fits(t[1], r, D)
    <3>1. s[1] \notin Nodes
      BY <2>4 DEF Nodes
    <3>2. t[1].what # "node" /\ t[1].what # "END"
      BY <2>2, <2>4, <3>1 DEF Follows
    <3> QED BY <3>2 DEF Fits
  <2>5. ASSUME s[1] \in Entries, s[1] \notin Nodes PROVE Fits(t[1], Append(r, s[1]), D)
    <3>1. s[1].what = "noise"
      BY <2>5 DEF Entries
    <3>2. t[1].what # "node" /\ t[1].what # "END"
      BY <2>2, <2>5, <3>1 DEF Follows
    <3> QED BY <3>2 DEF Fits
  <2>6. ASSUME s[1] \in Nodes PROVE Fits(t[1], Append(r, s[1]), D)
    <3> DEFINE q == Append(r, s[1])
    <3>1. s[1].what = "node" /\ s[1].frame \in Frames
      BY <2>6 DEF Nodes
    <3>2. Part(r, s[1].frame) /\ s[1].nth = Len(r) + 1
      BY <3>1 DEF Fits
    <3>3. Part(q, s[1].frame) /\ Len(q) = Len(r) + 1 /\ q[Len(r) + 1] = s[1]
      BY <2>6, <3>2, PartGrows
    <3> HIDE DEF q
    <3>5. t[1].what = "node" => Part(q, t[1].frame) /\ t[1].nth = Len(q) + 1
      BY <2>2, <3>1, <3>2, <3>3 DEF Follows
    <3>6. t[1].what = "END" => IsFrame(q, D)
      <4>1. t[1].what = "END" => q[Len(q)] \in D
        BY <2>2, <3>1, <3>3 DEF Follows
      <4> QED BY <3>1, <3>3, <4>1 DEF IsFrame
    <3> QED BY <3>5, <3>6 DEF Fits, q
  <2> QED BY <2>3, <2>4, <2>5, <2>6
<1> QED BY <1>2, <1>3

(* What a step leaves to prove that neither reads nor shows a line. *)
LEMMA LineWritten ==
  ASSUME TypeOK, FrameInv, NEW b \in Line, Writes(b),
         UNCHANGED <<received, cards, overview>>, Done \subseteq Done',
         unread # <<>> => Follows(unread[Len(unread)], b, Done'),
         unread = <<>> => Fits(b, received, Done')
  PROVE  /\ Ordered(unread', Done')
         /\ unread' # <<>> /\ Fits(unread'[1], received', Done')
         /\ unread'[Len(unread')] = b
         /\ overview' = ByKind(cards') /\ IsFrame(cards', Done')
<1>1. unread' = Append(unread, b) /\ unread \in Seq(Line) /\ received \in Seq(Entries)
  BY DEF Writes, TypeOK
<1>2. /\ Ordered(unread, Done)
      /\ unread # <<>> => Fits(unread[1], received, Done)
      /\ overview = ByKind(cards) /\ IsFrame(cards, Done)
  BY DEF FrameInv
<1>3. /\ Ordered(Append(unread, b), Done')
      /\ Append(unread, b) # <<>> /\ Fits(Append(unread, b)[1], received, Done')
  BY <1>1, <1>2, LineAdded
<1>4. Append(unread, b)[Len(Append(unread, b))] = b
  BY <1>1, AppendProperties
<1> QED BY <1>1, <1>2, <1>3, <1>4 DEF IsFrame

(* What no line depends on may change. *)
LEMMA Unmoved ==
  ASSUME FrameInv, UNCHANGED <<monitor, frame, size, unread, received, cards, overview>>
  PROVE  FrameInv'
<1>1. Done' = Done
  BY DEF Done, Closed
<1> QED BY <1>1 DEF FrameInv, LastFits, NoneAhead, Ordered, Follows, Fits, IsFrame, Part

(* FrameInv holds. *)
LEMMA FrameByFrame == Spec => []FrameInv
<1>1. Init => FrameInv
  <2> SUFFICES ASSUME Init PROVE FrameInv
    OBVIOUS
  <2>1. unread = <<>> /\ cards = <<>> /\ monitor = "idle" /\ Len(unread) = 0
    BY EmptySeq DEF Init
  <2>2. overview = ByKind(cards)
    <3>1. ByKind(<<>>) = [k \in Kinds |-> NoValue]
      BY DEF ByKind
    <3> QED BY <3>1 DEF Init
  <2> QED BY <2>1, <2>2 DEF Init, FrameInv, Ordered, LastFits, NoneAhead, IsFrame
<1>2. TypeOK /\ FrameInv /\ [Next]_vars => FrameInv'
  <2> SUFFICES ASSUME TypeOK, FrameInv, [Next]_vars
               PROVE  FrameInv'
    OBVIOUS
  <2>0. LastFits /\ NoneAhead
    BY DEF FrameInv
  <2>1. CASE MonitorBegins
    <3> DEFINE b == [what |-> "BEGIN"]
    <3>1. /\ b \in Line /\ Writes(b) /\ UNCHANGED <<received, cards, overview, size>>
          /\ frame' = frame + 1 /\ monitor' = "inside" /\ frame \in Nat
      BY <2>1 DEF MonitorBegins, shownVars, Line, TypeOK
    <3>2. Done \subseteq Done'
      BY <3>1 DEF Done, Closed, Frames
    <3>3. /\ Ordered(unread', Done')
          /\ unread' # <<>> /\ Fits(unread'[1], received', Done')
          /\ unread'[Len(unread')] = b
          /\ overview' = ByKind(cards') /\ IsFrame(cards', Done')
      BY <3>1, <3>2, LineWritten DEF Follows, Fits
    <3>4. frame' \in Frames /\ size'[frame'] = 0
      BY <2>1, <2>0, <3>1, BoundsAssumption DEF MonitorBegins, NoneAhead, Frames
    <3>5. NoneAhead'
      BY <2>0, <3>1, BoundsAssumption DEF NoneAhead, Frames
    <3>6. LastFits'
      BY <3>3, <3>4 DEF LastFits
    <3> QED BY <3>3, <3>5, <3>6 DEF FrameInv
  <2>2. ASSUME NEW k \in Kinds \cup {Generic}, MonitorWritesNode(k)
        PROVE  FrameInv'
    <3> DEFINE b == [what |-> "node", kind |-> k, frame |-> frame, nth |-> size[frame] + 1]
    <3>1. /\ frame \in Frames /\ size[frame] \in 0 .. MaxNodes /\ size[frame] < MaxNodes
          /\ monitor = "inside" /\ UNCHANGED <<monitor, frame, received, cards, overview>>
          /\ size' = [size EXCEPT ![frame] = size[frame] + 1] /\ size \in [Frames -> 0 .. MaxNodes]
          /\ Writes(b)
      BY <2>2, BoundsAssumption DEF MonitorWritesNode, TypeOK, Frames, shownVars
    <3>2. size[frame] + 1 \in 1 .. MaxNodes
      BY <3>1, BoundsAssumption
    <3>3. b \in Nodes /\ b \in Line
      BY <3>1, <3>2 DEF Line, Entries, Nodes
    <3>4. Done \subseteq Done'
      <4>1. \A n \in Frames : Closed(n) => size'[n] = size[n]
        BY <3>1 DEF Closed
      <4>2. \A n : Closed(n) <=> Closed(n)'
        BY <3>1 DEF Closed
      <4> QED BY <4>1, <4>2 DEF Done, Closed
    <3>5. unread # <<>> => Follows(unread[Len(unread)], b, Done')
      <4> SUFFICES ASSUME unread # <<>> PROVE Follows(unread[Len(unread)], b, Done')
        OBVIOUS
      <4> DEFINE last == unread[Len(unread)]
      <4>1. \/ last.what = "BEGIN" /\ size[frame] = 0
            \/ last \in Nodes /\ last.frame = frame /\ last.nth = size[frame]
        BY <2>0, <3>1 DEF LastFits
      <4>2. b.what = "node" /\ b.frame = frame /\ b.nth = size[frame] + 1
        OBVIOUS
      <4> HIDE DEF b, last
      <4>3. Follows(last, b, Done')
        BY <4>1, <4>2 DEF Follows
      <4> QED BY <4>3 DEF last
    <3>6. unread = <<>> => Fits(b, received, Done')
      BY <2>0, <3>1 DEF LastFits, Fits
    <3>7. /\ Ordered(unread', Done')
          /\ unread' # <<>> /\ Fits(unread'[1], received', Done')
          /\ unread'[Len(unread')] = b
          /\ overview' = ByKind(cards') /\ IsFrame(cards', Done')
      BY <3>1, <3>3, <3>4, <3>5, <3>6, LineWritten
    <3>8. NoneAhead'
      BY <2>0, <3>1, BoundsAssumption DEF NoneAhead, Frames
    <3>9. size'[frame'] = size[frame] + 1
      BY <3>1
    <3>10. LastFits'
      BY <3>1, <3>3, <3>7, <3>9 DEF LastFits
    <3> QED BY <3>7, <3>8, <3>10 DEF FrameInv
  <2>3. CASE MonitorEnds
    <3> DEFINE b == [what |-> "END"]
    <3>1. /\ b \in Line /\ Writes(b)
          /\ UNCHANGED <<frame, size, received, cards, overview>>
          /\ monitor = "inside" /\ monitor' = "idle" /\ frame \in Frames
      BY <2>3, BoundsAssumption DEF MonitorEnds, shownVars, Line, TypeOK, Frames
    <3>2. Done \subseteq Done' /\ Closed(frame)'
      BY <3>1, BoundsAssumption DEF Done, Closed, Frames
    <3>3. \A l \in Nodes : l.frame = frame /\ l.nth = size[frame] => l \in Done'
      BY <3>1, <3>2 DEF Done
    <3>4. unread # <<>> => Follows(unread[Len(unread)], b, Done')
      <4> SUFFICES ASSUME unread # <<>> PROVE Follows(unread[Len(unread)], b, Done')
        OBVIOUS
      <4> DEFINE last == unread[Len(unread)]
      <4>1. last.what = "BEGIN" \/ last \in Done'
        BY <2>0, <3>1, <3>3 DEF LastFits
      <4> QED BY <4>1 DEF Follows
    <3>5. unread = <<>> => Fits(b, received, Done')
      <4> SUFFICES ASSUME unread = <<>> PROVE IsFrame(received, Done')
        BY DEF Fits
      <4>1. Part(received, frame) /\ Len(received) = size[frame]
        BY <2>0, <3>1 DEF LastFits
      <4>2. CASE received # <<>>
        <5>1. Len(received) \in DOMAIN received
          BY <4>2, EmptySeq, LenProperties DEF TypeOK
        <5>2. received[Len(received)] \in Done'
          BY <4>1, <5>1, <3>3 DEF Part
        <5> QED BY <3>1, <4>1, <5>2 DEF IsFrame
      <4> QED BY <4>2 DEF IsFrame
    <3>6. /\ Ordered(unread', Done')
          /\ unread' # <<>> /\ Fits(unread'[1], received', Done')
          /\ overview' = ByKind(cards') /\ IsFrame(cards', Done')
      BY <3>1, <3>2, <3>4, <3>5, LineWritten
    <3>7. NoneAhead' /\ LastFits'
      BY <2>0, <3>1 DEF NoneAhead, LastFits
    <3> QED BY <3>6, <3>7 DEF FrameInv
  <2>4. CASE MonitorPrints
    <3> DEFINE b == [what |-> "noise", kind |-> Generic]
    <3>1. /\ b \in Line /\ Writes(b)
          /\ UNCHANGED <<frame, size, received, cards, overview>>
          /\ monitor = "idle" /\ monitor' = "chatty"
      BY <2>4 DEF MonitorPrints, shownVars, Line, Entries
    <3>2. Done \subseteq Done'
      BY <3>1 DEF Done, Closed
    <3>3. /\ Ordered(unread', Done')
          /\ unread' # <<>> /\ Fits(unread'[1], received', Done')
          /\ overview' = ByKind(cards') /\ IsFrame(cards', Done')
      BY <3>1, <3>2, LineWritten DEF Follows, Fits
    <3>4. NoneAhead' /\ LastFits'
      BY <2>0, <3>1 DEF NoneAhead, LastFits
    <3> QED BY <3>3, <3>4 DEF FrameInv
  <2>5. CASE MonitorDies
    <3>1. /\ UNCHANGED <<frame, size, unread, received, cards, overview>>
          /\ monitor' = "dead"
      BY <2>5 DEF MonitorDies, shownVars
    <3>2. Done \subseteq Done'
      BY <3>1 DEF Done, Closed
    <3>3. Ordered(unread', Done') /\ (unread' # <<>> => Fits(unread'[1], received', Done'))
          /\ overview' = ByKind(cards') /\ IsFrame(cards', Done')
      BY <3>1, <3>2 DEF FrameInv, Ordered, Follows, Fits, IsFrame
    <3>4. NoneAhead' /\ LastFits'
      BY <2>0, <3>1 DEF NoneAhead, LastFits
    <3> QED BY <3>3, <3>4 DEF FrameInv
  <2>6. CASE ReadLine
    <3>1. /\ unread \in Seq(Line) /\ unread # <<>> /\ unread' = Tail(unread)
          /\ received \in Seq(Entries)
          /\ UNCHANGED <<monitor, frame, size>>
          /\ unread[1] = Head(unread) /\ unread[1] \in Line
      BY <2>6, HeadTailProperties DEF ReadLine, TypeOK, monitorVars
    <3>2. Done' = Done /\ Done \subseteq Nodes
      BY <3>1 DEF Done, Closed
    <3>3. NoneAhead'
      BY <2>0, <3>1 DEF NoneAhead
    <3>4. Ordered(unread, Done) /\ Fits(unread[1], received, Done)
          /\ overview = ByKind(cards) /\ IsFrame(cards, Done)
      BY <3>1 DEF FrameInv
    <3>5. /\ Ordered(unread', Done')
          /\ unread' # <<>> =>
               /\ unread[1].what = "BEGIN" => Fits(unread'[1], <<>>, Done')
               /\ unread[1].what = "END" => Fits(unread'[1], received, Done')
               /\ unread[1] \in Entries => Fits(unread'[1], Append(received, unread[1]), Done')
      BY <3>1, <3>2, <3>4, LineRemoved
    <3>6. monitor = "inside" /\ unread' = <<>> =>
            \/ unread[1].what = "BEGIN" /\ size[frame] = 0
            \/ unread[1] \in Nodes /\ unread[1].frame = frame /\ unread[1].nth = size[frame]
      <4>1. unread' = <<>> => Len(unread) = 1
        <5>1. Len(Tail(unread)) = Len(unread) - 1 /\ Len(unread) \in Nat
          BY <3>1, HeadTailProperties, LenProperties
        <5>2. Len(<<>>) = 0
          OBVIOUS
        <5>3. unread' = <<>> => Len(Tail(unread)) = 0
          BY <3>1, <5>2
        <5> QED BY <5>1, <5>3
      <4> QED BY <2>0, <3>1, <4>1 DEF LastFits
    <3>7. unread' # <<>> => unread'[Len(unread')] = unread[Len(unread)]
      <4>1. /\ Len(Tail(unread)) = Len(unread) - 1 /\ Len(unread) \in Nat
            /\ \A i \in 1 .. Len(Tail(unread)) : Tail(unread)[i] = unread[i + 1]
            /\ Tail(unread) \in Seq(Line)
        BY <3>1, HeadTailProperties, LenProperties
      <4>2. Tail(unread) # <<>> => Len(Tail(unread)) \in 1 .. Len(Tail(unread))
        BY <4>1, EmptySeq
      <4> QED BY <3>1, <4>1, <4>2
    <3>8. CASE unread[1].what = "BEGIN"
      <4>1. received' = <<>> /\ UNCHANGED <<cards, overview>>
        BY <2>6, <3>1, <3>8 DEF ReadLine, Begin, shownVars
      <4>2. monitor = "inside" /\ unread' = <<>> => Len(received') = size[frame]
        BY <3>8, <3>6, <4>1, EmptySeq DEF Nodes
      <4>3. Part(received', frame)
        BY <4>1 DEF Part
      <4> QED BY <3>1, <3>2, <3>3, <3>4, <3>5, <3>8, <3>7, <4>1, <4>2, <4>3
              DEF FrameInv, LastFits
    <3>9. CASE unread[1].what = "END"
      <4>1. /\ received' = received /\ cards' = received /\ overview' = ByKind(received)
        BY <2>6, <3>1, <3>9 DEF ReadLine, ResolveData, ShowFrame
      <4>2. IsFrame(received, Done)
        BY <3>4, <3>9 DEF Fits
      <4>3. ~(monitor = "inside" /\ unread' = <<>>)
        BY <3>6, <3>9 DEF Nodes
      <4> QED BY <3>1, <3>2, <3>3, <3>5, <3>7, <3>9, <4>1, <4>2, <4>3
              DEF FrameInv, LastFits
    <3>10. CASE unread[1].what \in {"node", "noise"}
      <4>1. received' = Append(received, unread[1]) /\ UNCHANGED <<cards, overview>>
        BY <2>6, <3>1, <3>10 DEF ReadLine, shownVars
      <4>2. unread[1] \in Entries
        BY <3>1, <3>10 DEF Line
      <4>3. monitor = "inside" /\ unread' = <<>> =>
              Part(received', frame) /\ Len(received') = size[frame]
        <5> SUFFICES ASSUME monitor = "inside", unread' = <<>>
                     PROVE  Part(received', frame) /\ Len(received') = size[frame]
          OBVIOUS
        <5>1. unread[1] \in Nodes /\ unread[1].frame = frame /\ unread[1].nth = size[frame]
          BY <3>6, <3>10
        <5>2. unread[1].what = "node"
          BY <5>1 DEF Nodes
        <5>3. Part(received, unread[1].frame) /\ unread[1].nth = Len(received) + 1
          BY <3>4, <5>2 DEF Fits
        <5>4. /\ Part(Append(received, unread[1]), unread[1].frame)
              /\ Len(Append(received, unread[1])) = Len(received) + 1
          BY <3>1, <5>1, <5>3, PartGrows
        <5> QED BY <4>1, <5>1, <5>3, <5>4
      <4> QED BY <3>1, <3>2, <3>3, <3>4, <3>5, <3>7, <4>1, <4>2, <4>3
              DEF FrameInv, LastFits
    <3> QED BY <3>1, <3>8, <3>9, <3>10 DEF Line, Entries, Nodes
  <2>7. CASE RefreshButton \/ OpenSucceeds \/ OpenFails \/ CloseSerial \/ BoxClosed
    <3>1. UNCHANGED <<monitor, frame, size, unread, received, cards, overview>>
      BY <2>7 DEF RefreshButton, OpenSucceeds, OpenFails, CloseSerial, BoxClosed, UserActs,
                  monitorVars, shownVars
    <3> QED BY <3>1, Unmoved
  <2>8. ASSUME NEW p \in Ports, SetSelectedPort(p) \/ Plug(p) \/ Unplug(p)
        PROVE  FrameInv'
    <3>1. UNCHANGED <<monitor, frame, size, unread, received, cards, overview>>
      BY <2>8 DEF SetSelectedPort, Plug, Unplug, UserActs, monitorVars, shownVars
    <3> QED BY <3>1, Unmoved
  <2>9. CASE UNCHANGED vars
    BY <2>9, Unmoved DEF vars, monitorVars, shownVars
  <2> QED
    BY <2>1, <2>2, <2>3, <2>4, <2>5, <2>6, <2>7, <2>8, <2>9
    DEF Next, Monitor, ReadProcessData, User, Devices
<1> QED BY <1>1, <1>2, TypeCorrect, PTL DEF Spec

(* ShownIsOneFrame holds, by FrameInv.                                     *)
THEOREM AlwaysOneFrame == Spec => []ShownIsOneFrame
<1>1. TypeOK /\ FrameInv => ShownIsOneFrame
  <2> SUFFICES ASSUME TypeOK, FrameInv, cards # <<>>
               PROVE  \E n \in Frames :
                        /\ Len(cards) = size[n]
                        /\ \A i \in DOMAIN cards :
                             cards[i].what = "node" /\ cards[i].frame = n /\ cards[i].nth = i
    BY DEF FrameInv, ShownIsOneFrame
  <2>1. PICK n \in Frames : Part(cards, n)
    BY DEF FrameInv, IsFrame
  <2>2. cards[Len(cards)] \in Done
    BY DEF FrameInv, IsFrame
  <2>3. Len(cards) \in DOMAIN cards
    BY EmptySeq, LenProperties DEF TypeOK
  <2>4. cards[Len(cards)].nth = Len(cards) /\ cards[Len(cards)].frame = n
    BY <2>1, <2>3 DEF Part
  <2>5. Len(cards) = size[n]
    BY <2>2, <2>4 DEF Done
  <2>6. \A i \in DOMAIN cards :
          cards[i].what = "node" /\ cards[i].frame = n /\ cards[i].nth = i
    BY <2>1 DEF Part, Nodes
  <2> QED BY <2>5, <2>6
<1> QED BY <1>1, FrameByFrame, TypeCorrect, PTL

-----------------------------------------------------------------------------
(* The invariant behind HistoriesAligned: whatever is still to be shown is *)
(* of a later frame than what the histories hold.                          *)

Recorded == {v \in Nodes : \E k \in Kinds : \E i \in DOMAIN history[k] : history[k][i] = v}

NodesIn(s) == {l \in Nodes : \E i \in DOMAIN s : s[i] = l}

Less(a, b) == a.frame < b.frame \/ (a.frame = b.frame /\ a.nth < b.nth)

(* The next END will show what was received. *)
Unshown == IF unread = <<>> THEN monitor = "inside" ELSE unread[1].what \in {"node", "END"}

Rising(s) ==
  \A i, j \in DOMAIN s : i < j /\ s[i] \in Nodes /\ s[j] \in Nodes => Less(s[i], s[j])

OrderInv ==
  /\ \A l \in NodesIn(unread) \cup NodesIn(received) : l.frame <= frame /\ l.nth <= size[l.frame]
  /\ Rising(unread)
  /\ \A a \in NodesIn(received), b \in NodesIn(unread) : Less(a, b)
  /\ \A v \in Recorded :
       /\ Closed(v.frame)
       /\ \A b \in NodesIn(unread) : v.frame < b.frame
       /\ Unshown => \A a \in NodesIn(received) : v.frame < a.frame

(* How many samples go to make room for a new one. *)
Dropped(h) == IF Len(h) + 1 > Limit THEN 1 ELSE 0

(* What a history keeps is its samples and the new one, moved by at most   *)
(* one place.                                                              *)
LEMMA KeepLastIndex ==
  ASSUME NEW T, NEW h \in Seq(T), NEW v \in T
  PROVE  /\ Dropped(h) \in {0, 1}
         /\ Len(KeepLast(h, v)) = Len(h) + 1 - Dropped(h)
         /\ KeepLast(h, v) \in Seq(T)
         /\ \A i \in 1 .. Len(h) + 1 - Dropped(h) :
              KeepLast(h, v)[i] = IF i + Dropped(h) = Len(h) + 1 THEN v ELSE h[i + Dropped(h)]
<1> DEFINE all == Append(h, v)
<1>1. /\ all \in Seq(T) /\ Len(all) = Len(h) + 1 /\ Len(h) \in Nat
      /\ all[Len(h) + 1] = v /\ \A i \in 1 .. Len(h) : all[i] = h[i]
  BY AppendProperties, LenProperties
<1>2. all # <<>>
  BY <1>1, EmptySeq
<1>3. /\ Tail(all) \in Seq(T) /\ Len(Tail(all)) = Len(all) - 1
      /\ \A i \in 1 .. Len(Tail(all)) : Tail(all)[i] = all[i + 1]
  BY <1>1, <1>2, HeadTailProperties
<1>4. KeepLast(h, v) = IF Len(all) > Limit THEN Tail(all) ELSE all
  BY DEF KeepLast
<1> HIDE DEF all
<1>5. CASE Len(all) > Limit
  <2>1. KeepLast(h, v) = Tail(all) /\ Dropped(h) = 1
    BY <1>1, <1>4, <1>5 DEF Dropped
  <2>2. \A i \in 1 .. Len(h) : Tail(all)[i] = IF i + 1 = Len(h) + 1 THEN v ELSE h[i + 1]
    <3> SUFFICES ASSUME NEW i \in 1 .. Len(h)
                 PROVE  Tail(all)[i] = IF i + 1 = Len(h) + 1 THEN v ELSE h[i + 1]
      OBVIOUS
    <3>1. Tail(all)[i] = all[i + 1] /\ (i + 1 = Len(h) + 1 \/ i + 1 \in 1 .. Len(h))
      BY <1>1, <1>3
    <3> QED BY <1>1, <3>1
  <2>3. Len(h) + 1 - 1 = Len(h) /\ Len(Tail(all)) = Len(h)
    BY <1>1, <1>3
  <2> QED BY <1>3, <2>1, <2>2, <2>3
<1>6. CASE ~(Len(all) > Limit)
  <2>1. KeepLast(h, v) = all /\ Dropped(h) = 0
    BY <1>1, <1>4, <1>6 DEF Dropped
  <2>2. \A i \in 1 .. Len(h) + 1 : all[i] = IF i + 0 = Len(h) + 1 THEN v ELSE h[i + 0]
    <3> SUFFICES ASSUME NEW i \in 1 .. Len(h) + 1
                 PROVE  all[i] = IF i + 0 = Len(h) + 1 THEN v ELSE h[i + 0]
      OBVIOUS
    <3>1. i + 0 = i /\ (i = Len(h) + 1 \/ i \in 1 .. Len(h))
      BY <1>1
    <3> QED BY <1>1, <3>1
  <2>3. Len(h) + 1 - 0 = Len(h) + 1
    BY <1>1
  <2> QED BY <1>1, <2>1, <2>2, <2>3
<1> QED BY <1>5, <1>6

(* A frame that is later than all that is recorded keeps the histories     *)
(* aligned.                                                                *)
LEMMA SamplesAligned ==
  ASSUME TypeOK, HistoriesAligned, NEW values \in Values, NEW n \in Nat, AppendSamples(values),
         \A k \in Kinds : values[k] # NoValue => values[k].frame = n,
         \A v \in Recorded : v.frame < n
  PROVE  /\ HistoriesAligned'
         /\ Recorded' \subseteq Recorded \cup {values[k] : k \in Kinds}
<1> DEFINE T == {NoValue} \cup Nodes
<1>1. /\ history \in [Kinds -> Seq(T)]
      /\ history' = [k \in Kinds |-> KeepLast(history[k], values[k])]
      /\ values \in [Kinds -> T]
  BY DEF TypeOK, AppendSamples, Values
<1>2. ASSUME NEW k \in Kinds
      PROVE  /\ Dropped(history[k]) \in {0, 1}
             /\ Len(history'[k]) = Len(history[k]) + 1 - Dropped(history[k])
             /\ history'[k] \in Seq(T)
             /\ \A i \in 1 .. Len(history[k]) + 1 - Dropped(history[k]) :
                  history'[k][i] = IF i + Dropped(history[k]) = Len(history[k]) + 1
                                   THEN values[k] ELSE history[k][i + Dropped(history[k])]
  <2>1. history[k] \in Seq(T) /\ values[k] \in T /\ history'[k] = KeepLast(history[k], values[k])
    BY <1>1
  <2> DEFINE h == history[k]
             v == values[k]
             g == history'[k]
  <2>2. h \in Seq(T) /\ v \in T /\ g = KeepLast(h, v)
    BY <2>1
  <2>3. /\ Dropped(h) \in {0, 1}
        /\ Len(g) = Len(h) + 1 - Dropped(h)
        /\ g \in Seq(T)
        /\ \A i \in 1 .. Len(h) + 1 - Dropped(h) :
             g[i] = IF i + Dropped(h) = Len(h) + 1 THEN v ELSE h[i + Dropped(h)]
    <3> HIDE DEF T, h, v, g
    <3>1. /\ Dropped(h) \in {0, 1}
          /\ Len(KeepLast(h, v)) = Len(h) + 1 - Dropped(h)
          /\ KeepLast(h, v) \in Seq(T)
          /\ \A i \in 1 .. Len(h) + 1 - Dropped(h) :
               KeepLast(h, v)[i] = IF i + Dropped(h) = Len(h) + 1 THEN v ELSE h[i + Dropped(h)]
      BY <2>2, KeepLastIndex
    <3> QED BY <2>2, <3>1
  <2> QED BY <2>3
<1>3. \A k \in Kinds : /\ history[k] \in Seq(T) /\ Len(history[k]) \in Nat
                        /\ DOMAIN history[k] = 1 .. Len(history[k])
                        /\ \A i \in 1 .. Len(history[k]) : history[k][i] \in T
  <2> SUFFICES ASSUME NEW k \in Kinds
               PROVE  /\ history[k] \in Seq(T) /\ Len(history[k]) \in Nat
                      /\ DOMAIN history[k] = 1 .. Len(history[k])
                      /\ \A i \in 1 .. Len(history[k]) : history[k][i] \in T
    OBVIOUS
  <2>1. history[k] \in Seq(T)
    BY <1>1
  <2> HIDE DEF T
  <2> QED BY <2>1, LenProperties, ElementOfSeq
<1>4. \A k \in Kinds : \A i \in DOMAIN history[k] :
        history[k][i] # NoValue => history[k][i] \in Recorded /\ history[k][i].frame < n
  BY <1>3 DEF Recorded
<1>5. ASSUME NEW k \in Kinds, NEW l \in Kinds
      PROVE  /\ Len(history'[k]) = Len(history'[l])
             /\ \A i \in DOMAIN history'[k], j \in DOMAIN history'[l] :
                  history'[k][i] # NoValue /\ history'[l][j] # NoValue =>
                    (i <= j => history'[k][i].frame <= history'[l][j].frame)
                      /\ (i < j => history'[k][i].frame < history'[l][j].frame)
  <2> DEFINE m == Len(history[k])
  <2>1. m \in Nat /\ Len(history[l]) = m
    BY <1>3 DEF HistoriesAligned
  <2> DEFINE d == Dropped(history[k])
  <2>2. /\ d \in {0, 1} /\ Len(history'[k]) = m + 1 - d /\ history'[k] \in Seq(T)
        /\ \A i \in 1 .. m + 1 - d :
             history'[k][i] = IF i + d = m + 1 THEN values[k] ELSE history[k][i + d]
    BY <1>2
  <2>3. d = Dropped(history[l])
    BY <2>1 DEF Dropped
  <2>4. /\ Len(history'[l]) = m + 1 - d /\ history'[l] \in Seq(T)
        /\ \A i \in 1 .. m + 1 - d :
             history'[l][i] = IF i + d = m + 1 THEN values[l] ELSE history[l][i + d]
    BY <1>2, <2>1, <2>3
  <2> HIDE DEF d, m
  <2>5. ASSUME NEW i \in DOMAIN history'[k], NEW j \in DOMAIN history'[l],
               history'[k][i] # NoValue, history'[l][j] # NoValue
        PROVE  (i <= j => history'[k][i].frame <= history'[l][j].frame)
                 /\ (i < j => history'[k][i].frame < history'[l][j].frame)
    <3>1. i \in 1 .. m + 1 - d /\ j \in 1 .. m + 1 - d
      BY <2>2, <2>4, LenProperties
    <3>2. /\ history'[k][i] = IF i + d = m + 1 THEN values[k] ELSE history[k][i + d]
          /\ history'[l][j] = IF j + d = m + 1 THEN values[l] ELSE history[l][j + d]
      BY <2>2, <2>4, <3>1
    <3>3. /\ i + d = m + 1 \/ i + d \in 1 .. m
          /\ j + d = m + 1 \/ j + d \in 1 .. m
          /\ i \in Nat /\ j \in Nat /\ d \in Nat
      <4>1. d = 0 \/ d = 1
        BY <2>2
      <4>2. m \in Nat
        BY <2>1
      <4> QED BY <3>1, <4>1, <4>2
    <3>4. CASE i + d = m + 1
      <4>1. history'[k][i].frame = n
        BY <2>5, <3>2, <3>4
      <4>2. CASE j + d = m + 1
        <5>1. history'[l][j].frame = n /\ ~(i < j)
          BY <2>5, <3>2, <3>3, <3>4, <4>2
        <5> QED BY <4>1, <5>1
      <4>3. CASE j + d \in 1 .. m
        <5>1. ~(i <= j) /\ ~(i < j)
          BY <2>1, <3>3, <3>4, <4>3
        <5> QED BY <5>1
      <4> QED BY <3>3, <4>2, <4>3
    <3>5. CASE i + d \in 1 .. m
      <4>1. history'[k][i] = history[k][i + d] /\ i + d \in DOMAIN history[k]
        <5>1. i + d # m + 1
          BY <2>1, <3>5
        <5> QED BY <3>2, <3>5, <5>1, <1>3 DEF m
      <4>2. CASE j + d = m + 1
        <5>1. history'[l][j].frame = n
          BY <2>5, <3>2, <4>2
        <5>2. history'[k][i] \in Recorded /\ history'[k][i].frame < n
          BY <1>4, <2>5, <4>1
        <5>3. history'[k][i].frame \in Nat
          BY <5>2 DEF Recorded, Nodes, Frames
        <5> QED BY <5>1, <5>2, <5>3
      <4>3. CASE j + d \in 1 .. m
        <5>1. history'[l][j] = history[l][j + d] /\ j + d \in DOMAIN history[l]
          BY <2>1, <3>2, <4>3, <1>3
        <5>2. /\ i + d <= j + d => history[k][i + d].frame <= history[l][j + d].frame
              /\ i + d < j + d => history[k][i + d].frame < history[l][j + d].frame
          BY <2>5, <4>1, <5>1 DEF HistoriesAligned
        <5>3. (i <= j => i + d <= j + d) /\ (i < j => i + d < j + d)
          BY <3>3
        <5> QED BY <4>1, <5>1, <5>2, <5>3
      <4> QED BY <3>3, <4>2, <4>3
    <3> QED BY <3>3, <3>4, <3>5
  <2> QED BY <2>2, <2>4, <2>5
<1>6. ASSUME NEW v \in Recorded'
      PROVE  v \in Recorded \cup {values[k] : k \in Kinds}
  <2>1. PICK k \in Kinds : \E i \in DOMAIN history'[k] : history'[k][i] = v
    BY DEF Recorded
  <2>2. PICK i \in DOMAIN history'[k] : history'[k][i] = v
    BY <2>1
  <2> DEFINE d == Dropped(history[k])
  <2>3. /\ d \in {0, 1} /\ Len(history'[k]) = Len(history[k]) + 1 - d /\ history'[k] \in Seq(T)
        /\ \A j \in 1 .. Len(history[k]) + 1 - d :
             history'[k][j] = IF j + d = Len(history[k]) + 1 THEN values[k] ELSE history[k][j + d]
    BY <1>2
  <2> HIDE DEF d
  <2>4. i \in 1 .. Len(history[k]) + 1 - d
    BY <2>2, <2>3, LenProperties
  <2>5. CASE i + d = Len(history[k]) + 1
    BY <2>2, <2>3, <2>4, <2>5
  <2>6. CASE i + d # Len(history[k]) + 1
    <3>1. v = history[k][i + d]
      BY <2>2, <2>3, <2>4, <2>6
    <3>2. i + d \in DOMAIN history[k]
      BY <1>3, <2>3, <2>4, <2>6
    <3>3. v \in Nodes
      BY DEF Recorded
    <3> QED BY <3>1, <3>2, <3>3 DEF Recorded
  <2> QED BY <2>5, <2>6
<1> QED BY <1>5, <1>6 DEF HistoriesAligned

(* What is added to a sequence is all that its nodes get, and it rises on  *)
(* if it rises to what is added.                                           *)
LEMMA NodeAdded ==
  ASSUME NEW T, NEW s \in Seq(T), NEW b \in T
  PROVE  /\ NodesIn(Append(s, b)) \subseteq NodesIn(s) \cup {b}
         /\ b \notin Nodes => NodesIn(Append(s, b)) \subseteq NodesIn(s)
         /\ Rising(s) /\ (b \in Nodes => \A l \in NodesIn(s) : Less(l, b)) => Rising(Append(s, b))
<1> DEFINE t == Append(s, b)
<1>1. /\ DOMAIN t = 1 .. Len(s) + 1 /\ DOMAIN s = 1 .. Len(s) /\ Len(s) \in Nat
      /\ t[Len(s) + 1] = b /\ \A i \in 1 .. Len(s) : t[i] = s[i]
  BY AppendProperties, LenProperties
<1> HIDE DEF t
<1>2. \A i \in DOMAIN t : (i = Len(s) + 1 /\ t[i] = b) \/ (i \in DOMAIN s /\ t[i] = s[i])
  BY <1>1
<1>3. NodesIn(t) \subseteq NodesIn(s) \cup {b} /\ (b \notin Nodes => NodesIn(t) \subseteq NodesIn(s))
  BY <1>2 DEF NodesIn
<1>4. ASSUME Rising(s), b \in Nodes => \A l \in NodesIn(s) : Less(l, b),
             NEW i \in DOMAIN t, NEW j \in DOMAIN t, i < j, t[i] \in Nodes, t[j] \in Nodes
      PROVE  Less(t[i], t[j])
  <2>1. i \in DOMAIN s /\ t[i] = s[i]
    BY <1>1, <1>4
  <2>2. CASE j \in DOMAIN s
    BY <1>1, <1>4, <2>1, <2>2 DEF Rising
  <2>3. CASE j \notin DOMAIN s
    BY <1>2, <1>4, <2>1, <2>3 DEF NodesIn
  <2> QED BY <2>2, <2>3
<1> QED BY <1>3, <1>4 DEF Rising, t

(* What is removed from the front of a sequence that rises is less than    *)
(* all that is left.                                                       *)
LEMMA NodeRemoved ==
  ASSUME NEW s \in Seq(Line), s # <<>>, Rising(s)
  PROVE  /\ NodesIn(Tail(s)) \subseteq NodesIn(s)
         /\ Rising(Tail(s))
         /\ s[1] \in Nodes => s[1] \in NodesIn(s) /\ \A b \in NodesIn(Tail(s)) : Less(s[1], b)
<1> DEFINE t == Tail(s)
<1>1. /\ DOMAIN t = 1 .. Len(s) - 1 /\ DOMAIN s = 1 .. Len(s) /\ Len(s) \in Nat \ {0}
      /\ \A i \in DOMAIN t : t[i] = s[i + 1]
  BY HeadTailProperties, LenProperties, EmptySeq
<1> HIDE DEF t
<1>2. \A i \in DOMAIN t : i + 1 \in DOMAIN s /\ t[i] = s[i + 1] /\ 1 < i + 1
  BY <1>1
<1>3. 1 \in DOMAIN s
  BY <1>1
<1>4. NodesIn(t) \subseteq NodesIn(s)
  BY <1>2 DEF NodesIn
<1>5. Rising(t)
  <2> SUFFICES ASSUME NEW i \in DOMAIN t, NEW j \in DOMAIN t, i < j, t[i] \in Nodes, t[j] \in Nodes
               PROVE  Less(t[i], t[j])
    BY DEF Rising
  <2>1. i + 1 < j + 1
    BY <1>1
  <2> QED BY <1>2, <2>1 DEF Rising
<1>6. ASSUME s[1] \in Nodes
      PROVE  s[1] \in NodesIn(s) /\ \A b \in NodesIn(t) : Less(s[1], b)
  <2>1. ASSUME NEW b \in NodesIn(t) PROVE Less(s[1], b)
    <3>1. PICK i \in DOMAIN t : t[i] = b
      BY DEF NodesIn
    <3>2. b \in Nodes
      BY DEF NodesIn
    <3> QED BY <1>2, <1>3, <1>6, <3>1, <3>2 DEF Rising
  <2> QED BY <1>3, <1>6, <2>1 DEF NodesIn
<1> QED BY <1>4, <1>5, <1>6 DEF t

(* A line that the monitor writes keeps the order. *)
LEMMA OrderWritten ==
  ASSUME TypeOK, OrderInv, NEW b \in Line, Writes(b), UNCHANGED <<received, history>>,
         frame' \in Nat, frame <= frame', \A n \in Frames : size[n] <= size'[n], TypeOK',
         \A n \in Frames : Closed(n) => Closed(n)',
         b \in Nodes => /\ monitor = "inside" /\ frame' = frame
                       /\ b.frame = frame /\ b.nth = size[frame] + 1 /\ size'[frame] = b.nth,
         b.what \in {"node", "END"} => monitor = "inside"
  PROVE  OrderInv'
<1>1. unread' = Append(unread, b) /\ unread \in Seq(Line)
  BY DEF Writes, TypeOK
<1>2. /\ frame \in Nat /\ size \in [Frames -> Nat] /\ size' \in [Frames -> Nat]
      /\ \A l \in Nodes : l.frame \in Frames /\ l.frame \in Nat /\ l.nth \in Nat
  <2>1. frame \in 0 .. MaxFrames /\ size \in [Frames -> 0 .. MaxNodes]
    BY DEF TypeOK
  <2>2. size' \in [Frames -> 0 .. MaxNodes]
    BY DEF TypeOK
  <2>3. MaxFrames \in Nat /\ MaxNodes \in Nat
    BY BoundsAssumption
  <2>4. \A l \in Nodes : l.frame \in Frames /\ l.frame \in Nat /\ l.nth \in Nat
    BY <2>3 DEF Nodes, Frames
  <2> QED BY <2>1, <2>2, <2>3, <2>4
<1>3. \A l \in NodesIn(unread) \cup NodesIn(received) :
        l \in Nodes /\ l.frame <= frame /\ l.nth <= size[l.frame]
  BY DEF OrderInv, NodesIn
<1>4. ASSUME b \in Nodes
      PROVE  /\ \A l \in NodesIn(unread) \cup NodesIn(received) : Less(l, b)
             /\ \A v \in Recorded : v.frame < b.frame
  <2>1. ASSUME NEW l \in NodesIn(unread) \cup NodesIn(received) PROVE Less(l, b)
    <3>1. l \in Nodes /\ l.frame <= frame /\ l.nth <= size[l.frame]
      BY <1>3
    <3> QED BY <1>2, <1>4, <3>1 DEF Less
  <2>2. ASSUME NEW v \in Recorded PROVE v.frame < b.frame
    <3>1. v \in Nodes /\ Closed(v.frame)
      BY DEF OrderInv, Recorded
    <3> QED BY <1>2, <1>4, <3>1 DEF Closed
  <2> QED BY <2>1, <2>2
<1>5. /\ NodesIn(unread') \subseteq NodesIn(unread) \cup {b}
      /\ b \notin Nodes => NodesIn(unread') \subseteq NodesIn(unread)
      /\ Rising(unread')
  BY <1>1, <1>4, NodeAdded DEF OrderInv
<1>6. \A l \in NodesIn(unread') \cup NodesIn(received') : l.frame <= frame' /\ l.nth <= size'[l.frame]
  <2> SUFFICES ASSUME NEW l \in NodesIn(unread') \cup NodesIn(received')
               PROVE  l.frame <= frame' /\ l.nth <= size'[l.frame]
    OBVIOUS
  <2>1. CASE l \in NodesIn(unread) \cup NodesIn(received)
    <3>1. /\ l \in Nodes /\ l.frame <= frame /\ l.nth <= size[l.frame]
          /\ size[l.frame] <= size'[l.frame]
      BY <1>2, <1>3, <2>1
    <3> QED BY <1>2, <3>1
  <2>2. CASE l = b /\ b \in Nodes
    BY <1>2, <2>2
  <2> QED BY <1>5, <2>1, <2>2
<1>7. Recorded' = Recorded
  BY DEF Recorded
<1>8. Unshown' => Unshown
  <2>1. CASE unread = <<>>
    <3>1. unread' # <<>> /\ unread'[1] = b
      <4>1. Len(unread) = 0
        BY <2>1
      <4> QED BY <1>1, <2>1, <4>1, AppendProperties, EmptySeq
    <3> QED BY <2>1, <3>1 DEF Unshown
  <2>2. CASE unread # <<>>
    <3>1. unread' # <<>> /\ unread'[1] = unread[1]
      <4>1. Len(unread) \in Nat \ {0}
        BY <1>1, <2>2, EmptySeq, LenProperties
      <4> QED BY <1>1, <4>1, AppendProperties, EmptySeq
    <3> QED BY <2>2, <3>1 DEF Unshown
  <2> QED BY <2>1, <2>2
<1>9. \A a \in NodesIn(received'), c \in NodesIn(unread') : Less(a, c)
  BY <1>4, <1>5 DEF OrderInv, NodesIn
<1>10. ASSUME NEW v \in Recorded'
       PROVE  /\ Closed(v.frame)'
              /\ \A c \in NodesIn(unread') : v.frame < c.frame
              /\ Unshown' => \A a \in NodesIn(received') : v.frame < a.frame
  <2>1. v \in Recorded /\ v.frame \in Frames
    BY <1>7, <1>2 DEF Recorded
  <2>2. \A c \in NodesIn(unread') : v.frame < c.frame
    BY <1>4, <1>5, <2>1 DEF OrderInv, NodesIn
  <2> QED BY <1>8, <2>1, <2>2 DEF OrderInv
<1> QED BY <1>5, <1>6, <1>9, <1>10 DEF OrderInv

(* After a line that ends a frame or belongs to none, nothing is unshown. *)
LEMMA SilenceLasts ==
  ASSUME TypeOK, FrameInv, unread # <<>>, unread' = Tail(unread), UNCHANGED monitor,
         unread[1].what \in {"END", "noise"}
  PROVE  ~Unshown'
<1>1. /\ unread \in Seq(Line) /\ Len(unread) \in Nat \ {0} /\ unread' \in Seq(Line)
      /\ Len(unread') = Len(unread) - 1
      /\ \A i \in 1 .. Len(unread') : unread'[i] = unread[i + 1]
  BY HeadTailProperties, LenProperties, EmptySeq DEF TypeOK
<1>2. unread[1] \notin Nodes /\ unread[1].what # "BEGIN"
  BY DEF Nodes
<1>3. CASE unread' = <<>>
  <2>1. Len(unread) = 1
    <3>1. Len(<<>>) = 0
      OBVIOUS
    <3>2. Len(unread') = 0
      BY <1>3, <3>1
    <3> QED BY <1>1, <3>2
  <2>2. monitor # "inside"
    BY <1>2, <2>1 DEF FrameInv, LastFits
  <2> QED BY <1>3, <2>2 DEF Unshown
<1>4. CASE unread' # <<>>
  <2>1. Len(unread') \in Nat \ {0}
    BY <1>1, <1>4, EmptySeq
  <2>2. unread'[1] = unread[2] /\ 1 \in 1 .. Len(unread) - 1
    BY <1>1, <2>1
  <2>3. Follows(unread[1], unread[2], Done)
    BY <2>2 DEF FrameInv, Ordered
  <2>4. unread[2].what \notin {"node", "END"}
    BY <1>2, <2>3 DEF Follows, Done
  <2> QED BY <1>4, <2>2, <2>4 DEF Unshown
<1> QED BY <1>3, <1>4

(* A headline is the value of a component that is there. *)
LEMMA HeadlineIsNode ==
  ASSUME NEW nodes \in Seq(Entries), NEW k \in Kinds, ByKind(nodes)[k] # NoValue
  PROVE  \E i \in DOMAIN nodes : ByKind(nodes)[k] = nodes[i]
<1> DEFINE at == {i \in DOMAIN nodes : nodes[i].kind = k}
<1>1. Len(nodes) \in Nat /\ DOMAIN nodes = 1 .. Len(nodes)
  BY LenProperties
<1>2. at # {}
  BY DEF ByKind
<1>3. LastIndex(at) \in at
  BY <1>1, <1>2, LastExists
<1> QED BY <1>2, <1>3 DEF ByKind

(* A line that is read keeps the order, and the histories aligned. *)
LEMMA OrderRead ==
  ASSUME TypeOK, FrameInv, OrderInv, HistoriesAligned, ReadLine, FrameInv'
  PROVE  OrderInv' /\ HistoriesAligned'
<1> DEFINE line == unread[1]
<1>1. /\ unread \in Seq(Line) /\ unread # <<>> /\ unread' = Tail(unread)
      /\ received \in Seq(Entries) /\ line = Head(unread) /\ line \in Line
      /\ UNCHANGED <<monitor, frame, size>>
  BY HeadTailProperties DEF ReadLine, TypeOK, monitorVars
<1>2. /\ NodesIn(unread') \subseteq NodesIn(unread)
      /\ Rising(unread')
      /\ line \in Nodes => line \in NodesIn(unread) /\ \A b \in NodesIn(unread') : Less(line, b)
  BY <1>1, NodeRemoved DEF OrderInv
<1>3. \A n : Closed(n)' <=> Closed(n)
  BY <1>1 DEF Closed
<1>4. /\ Frames \subseteq Nat /\ frame \in Nat /\ MaxFrames \in Nat
      /\ \A l \in Nodes : l.frame \in Frames /\ l.frame \in Nat /\ l.nth \in Nat
  BY BoundsAssumption DEF TypeOK, Nodes, Frames
<1>5. CASE line.what = "BEGIN"
  <2>1. received' = <<>> /\ UNCHANGED history
    BY <1>1, <1>5 DEF ReadLine, Begin, shownVars
  <2>2. NodesIn(received') = {} /\ Recorded' = Recorded
    BY <2>1 DEF NodesIn, Recorded
  <2> QED BY <1>1, <1>2, <1>3, <2>1, <2>2 DEF OrderInv, HistoriesAligned
<1>6. CASE line.what \in {"node", "noise"}
  <2>1. received' = Append(received, line) /\ UNCHANGED history
    BY <1>1, <1>6 DEF ReadLine, shownVars
  <2>2. line \in Entries /\ Recorded' = Recorded
    BY <1>1, <1>6, <2>1 DEF Line, Recorded
  <2>3. /\ NodesIn(received') \subseteq NodesIn(received) \cup {line}
        /\ line \notin Nodes => NodesIn(received') \subseteq NodesIn(received)
    BY <1>1, <2>1, <2>2, NodeAdded
  <2>4. NodesIn(received') \subseteq NodesIn(received) \cup NodesIn(unread)
    BY <1>2, <2>3
  <2>5. \A a \in NodesIn(received'), b \in NodesIn(unread') : Less(a, b)
    BY <1>2, <2>3 DEF OrderInv
  <2>6. Unshown' => line.what = "node"
    BY <1>1, <1>6, SilenceLasts
  <2>7. ASSUME Unshown', NEW v \in Recorded, NEW a \in NodesIn(received')
        PROVE  v.frame < a.frame
    <3>1. Unshown
      BY <1>1, <2>6, <2>7 DEF Unshown
    <3> QED BY <1>2, <2>3, <2>7, <3>1 DEF OrderInv
  <2>8. HistoriesAligned'
    BY <2>1 DEF HistoriesAligned
  <2> QED BY <1>1, <1>2, <1>3, <2>2, <2>4, <2>5, <2>7, <2>8 DEF OrderInv
<1>7. CASE line.what = "END"
  <2> DEFINE values == ByKind(received)
  <2>1. received' = received /\ AppendSamples(values) /\ values \in Values
    BY <1>1, <1>7, ByKindType DEF ReadLine, ResolveData, ShowFrame
  <2>2. IsFrame(received, Done)
    BY <1>1, <1>7 DEF FrameInv, Fits
  <2>3. ~Unshown'
    BY <1>1, <1>7, SilenceLasts
  <2>4. Unshown
    BY <1>1, <1>7 DEF Unshown
  <2>5. CASE received = <<>>
    <3>1. values = [k \in Kinds |-> NoValue]
      BY <2>5 DEF ByKind
    <3>2. \A v \in Recorded : v.frame < MaxFrames + 1
      BY <1>4 DEF Recorded, Frames
    <3>3. \A k \in Kinds : values[k] # NoValue => values[k].frame = MaxFrames + 1
      BY <3>1
    <3>4. MaxFrames + 1 \in Nat
      BY <1>4
    <3>5. /\ HistoriesAligned'
          /\ Recorded' \subseteq Recorded \cup {values[k] : k \in Kinds}
      <4> HIDE DEF values
      <4> QED BY <2>1, <3>2, <3>3, <3>4, SamplesAligned
    <3>6. Recorded' \subseteq Recorded
      BY <3>1, <3>5 DEF Recorded, Nodes, NoValue
    <3> QED BY <1>1, <1>2, <1>3, <2>1, <2>3, <3>5, <3>6 DEF OrderInv
  <2>6. CASE received # <<>>
    <3> DEFINE last == received[Len(received)]
    <3>1. PICK n \in Frames : Part(received, n)
      BY <2>2, <2>6 DEF IsFrame
    <3>2. Len(received) \in DOMAIN received /\ last \in Done
      BY <1>1, <2>2, <2>6, EmptySeq, LenProperties DEF IsFrame
    <3>3. last \in NodesIn(received) /\ last.frame = n /\ last.nth = size[n] /\ Closed(n)
      BY <3>1, <3>2 DEF Done, NodesIn, Part
    <3>4. \A v \in Recorded : v.frame < n
      BY <2>4, <3>3 DEF OrderInv
    <3>5. \A k \in Kinds : values[k] # NoValue => values[k].frame = n
      BY <1>1, <3>1, HeadlineIsNode DEF Part
    <3>6. /\ HistoriesAligned'
          /\ Recorded' \subseteq Recorded \cup {values[k] : k \in Kinds}
      <4> HIDE DEF values
      <4> QED BY <1>4, <2>1, <3>4, <3>5, SamplesAligned
    <3>7. ASSUME NEW b \in NodesIn(unread')
          PROVE  n < b.frame
      <4>1. /\ Less(last, b) /\ b.nth <= size[b.frame] /\ b \in Nodes /\ last \in Nodes
        BY <1>2, <3>3 DEF OrderInv, NodesIn
      <4> HIDE DEF last
      <4> QED BY <1>4, <3>3, <4>1 DEF Less
    <3>8. ASSUME NEW v \in Recorded'
          PROVE  Closed(v.frame) /\ \A b \in NodesIn(unread') : v.frame < b.frame
      <4>1. CASE v \in Recorded
        BY <1>2, <4>1 DEF OrderInv
      <4>2. CASE v \in {values[k] : k \in Kinds}
        <5>1. v # NoValue
          BY DEF Recorded, Nodes, NoValue
        <5>2. v.frame = n
          BY <3>5, <4>2, <5>1
        <5> QED BY <3>3, <3>7, <5>2
      <4> QED BY <3>6, <4>1, <4>2
    <3> QED BY <1>1, <1>2, <1>3, <2>1, <2>3, <3>6, <3>8 DEF OrderInv
  <2> QED BY <2>5, <2>6
<1> QED BY <1>1, <1>5, <1>6, <1>7 DEF Line, Entries, Nodes

(* HistoriesAligned holds, by induction with OrderInv.                     *)
THEOREM AlwaysAligned == Spec => []HistoriesAligned
<1>1. Init => OrderInv /\ HistoriesAligned
  BY DEF Init, OrderInv, HistoriesAligned, NodesIn, Recorded, Rising
<1>2. TypeOK /\ TypeOK' /\ FrameInv /\ FrameInv' /\ OrderInv /\ HistoriesAligned /\ [Next]_vars
        => OrderInv' /\ HistoriesAligned'
  <2> SUFFICES ASSUME TypeOK, TypeOK', FrameInv, FrameInv', OrderInv, HistoriesAligned, [Next]_vars
               PROVE  OrderInv' /\ HistoriesAligned'
    OBVIOUS
  <2>1. CASE ReadLine
    BY <2>1, OrderRead
  <2>2. frame \in Nat /\ \A n \in Frames : size[n] \in Nat
    BY BoundsAssumption DEF TypeOK
  <2>3. CASE MonitorBegins
    <3> DEFINE b == [what |-> "BEGIN"]
    <3>1. /\ b \in Line /\ Writes(b) /\ UNCHANGED <<received, history, size>>
          /\ frame' = frame + 1 /\ b.what = "BEGIN" /\ monitor # "inside"
      BY <2>3 DEF MonitorBegins, shownVars, Line
    <3>2. b \notin Nodes
      BY DEF Nodes
    <3>3. \A n \in Frames : Closed(n) => Closed(n)'
      BY <2>2, <3>1 DEF Closed, Frames
    <3>4. OrderInv'
      <4> HIDE DEF b
      <4>1. frame' \in Nat /\ frame <= frame' /\ \A n \in Frames : size[n] <= size'[n]
        BY <2>2, <3>1
      <4> QED BY <3>1, <3>2, <3>3, <4>1, OrderWritten
    <3> QED BY <3>1, <3>4 DEF HistoriesAligned
  <2>4. ASSUME NEW k \in Kinds \cup {Generic}, MonitorWritesNode(k)
        PROVE  OrderInv' /\ HistoriesAligned'
    <3> DEFINE b == [what |-> "node", kind |-> k, frame |-> frame, nth |-> size[frame] + 1]
    <3>1. /\ frame \in Frames /\ size[frame] \in 0 .. MaxNodes /\ size[frame] < MaxNodes
          /\ monitor = "inside" /\ UNCHANGED <<monitor, frame, received, history>>
          /\ size' = [size EXCEPT ![frame] = size[frame] + 1] /\ size \in [Frames -> 0 .. MaxNodes]
          /\ Writes(b)
      BY <2>4, BoundsAssumption DEF MonitorWritesNode, TypeOK, Frames, shownVars
    <3>2. size[frame] + 1 \in 1 .. MaxNodes
      BY <3>1, BoundsAssumption
    <3>3. b \in Nodes /\ b \in Line /\ b.frame = frame /\ b.nth = size[frame] + 1
      BY <3>1, <3>2 DEF Line, Entries, Nodes
    <3>4. \A n \in Frames : Closed(n) => Closed(n)'
      BY <3>1 DEF Closed
    <3>5. size'[frame] = b.nth /\ \A n \in Frames : size[n] <= size'[n]
      BY <2>2, <3>1
    <3>6. OrderInv'
      <4> HIDE DEF b
      <4>1. frame' \in Nat /\ frame <= frame'
        BY <2>2, <3>1
      <4> QED BY <3>1, <3>3, <3>4, <3>5, <4>1, OrderWritten
    <3> QED BY <3>1, <3>6 DEF HistoriesAligned
  <2>5. CASE MonitorEnds \/ MonitorPrints
    <3> DEFINE b == IF MonitorEnds THEN [what |-> "END"] ELSE [what |-> "noise", kind |-> Generic]
    <3>1. /\ b \in Line /\ b \notin Nodes /\ Writes(b)
          /\ UNCHANGED <<received, history, size, frame>> /\ monitor' # "inside"
          /\ b.what = "END" => monitor = "inside"
          /\ b.what # "node"
      BY <2>5 DEF MonitorEnds, MonitorPrints, shownVars, Line, Entries, Nodes
    <3> HIDE DEF b
    <3>2. \A n \in Frames : Closed(n) => Closed(n)'
      BY <3>1 DEF Closed
    <3>3. frame' \in Nat /\ frame <= frame' /\ \A n \in Frames : size[n] <= size'[n]
      BY <2>2, <3>1
    <3>4. OrderInv'
      BY <3>1, <3>2, <3>3, OrderWritten
    <3> QED BY <3>1, <3>4 DEF HistoriesAligned
  <2>6. CASE MonitorDies
    <3>1. UNCHANGED <<frame, size, unread, received, history>> /\ monitor' = "dead"
      BY <2>6 DEF MonitorDies, shownVars
    <3>2. \A n : Closed(n) => Closed(n)'
      BY <3>1 DEF Closed
    <3>3. (Unshown' => Unshown) /\ Recorded' = Recorded
      BY <3>1 DEF Unshown, Recorded
    <3> QED BY <3>1, <3>2, <3>3 DEF OrderInv, HistoriesAligned
  <2>7. CASE UNCHANGED <<monitor, frame, size, unread, received, history>>
    <3>1. Unshown' = Unshown /\ Recorded' = Recorded /\ \A n : Closed(n)' = Closed(n)
      BY <2>7 DEF Unshown, Recorded, Closed
    <3> QED BY <2>7, <3>1 DEF OrderInv, HistoriesAligned
  <2>8. CASE RefreshButton \/ OpenSucceeds \/ OpenFails \/ CloseSerial \/ BoxClosed
    BY <2>7, <2>8 DEF RefreshButton, OpenSucceeds, OpenFails, CloseSerial, BoxClosed, UserActs,
                      monitorVars, shownVars
  <2>9. ASSUME NEW p \in Ports, SetSelectedPort(p) \/ Plug(p) \/ Unplug(p)
        PROVE  OrderInv' /\ HistoriesAligned'
    BY <2>7, <2>9 DEF SetSelectedPort, Plug, Unplug, UserActs, monitorVars, shownVars
  <2>10. CASE UNCHANGED vars
    BY <2>7, <2>10 DEF vars, monitorVars, shownVars
  <2> QED BY <2>1, <2>3, <2>4, <2>5, <2>6, <2>8, <2>9, <2>10
          DEF Next, Monitor, ReadProcessData, User, Devices
<1> QED BY <1>1, <1>2, TypeCorrect, FrameByFrame, PTL DEF Spec
=============================================================================
