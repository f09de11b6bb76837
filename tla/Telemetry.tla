----------------------------- MODULE Telemetry -----------------------------
(***************************************************************************)
(* The hardware telemetry of the desktop program (widget.cpp): CmdMonitor  *)
(* writes frames of lines to its stdout, the window shows each whole frame *)
(* and passes it on to a device on a serial port.                          *)
(*                                                                         *)
(* The slots run in the thread of the window, one at a time; a message box *)
(* lets the other slots run but not the user.  readProcessData handles the *)
(* lines that have come; they may come one at a time, so each of them is a *)
(* step.  A component of a frame, its title and values, is one line here,  *)
(* and its kind the one that both componentKind and resolvedata find.      *)
(***************************************************************************)
EXTENDS Naturals, Sequences, Functions

CONSTANTS Kinds,      \* components with a headline and a history: cpu, gpu, ...
          Ports,      \* serial ports, in the order of their names
          Limit,      \* samples in a history (32)
          MaxFrames,  \* frames the monitor begins, numbered from 1
          MaxNodes,   \* components in a frame
          MaxTotal,   \* components in all frames
          MaxUnread   \* lines that may wait to be read

Generic == "generic"  \* the kind of any other component
NoPort == 0           \* the empty string
NoValue == [what |-> "none"]  \* a component that is not in the frame

ASSUME KindsAssumption == Generic \notin Kinds
ASSUME PortsAssumption == Ports \subseteq Nat \ {NoPort}
ASSUME BoundsAssumption ==
  /\ Limit \in Nat \ {0} /\ MaxUnread \in Nat
  /\ MaxFrames \in Nat /\ MaxNodes \in Nat /\ MaxTotal \in Nat

VARIABLES
  monitor,    \* the monitor: "idle", "chatty" (it printed between frames), "inside", "dead"
  frame,      \* frames the monitor has begun
  size,       \* size[n]: components that it wrote into frame n
  unread,     \* lines in the pipe
  received,   \* m_receivedData
  cards,      \* m_componentCards
  overview,   \* m_performanceOverview: a headline for each kind
  history,    \* history[k]: m_cpuHistory and so on
  plugged,    \* ports that exist
  listed,     \* m_serialPorts
  selected,   \* m_selectedPort
  connected,  \* m_serialConnected
  open,       \* the port that m_serialPort has open
  live,       \* is its device still the one that was opened?
  fed,        \* what was last written to it, {} or {json}
  box         \* is a message box open?

monitorVars == <<monitor, frame, size>>
shownVars == <<cards, overview, history>>
portVars == <<listed, selected>>
serialVars == <<connected, open, live, fed>>
vars == <<monitorVars, unread, received, shownVars, plugged, portVars,
          serialVars, box>>

Frames == 1 .. MaxFrames
Nodes == [what : {"node"}, kind : Kinds \cup {Generic}, frame : Frames, nth : 1 .. MaxNodes]
Entries == Nodes \cup [what : {"noise"}, kind : {Generic}]
Line == Entries \cup [what : {"BEGIN", "END"}]
Values == [Kinds -> {NoValue} \cup Nodes]

LastIndex(S) == CHOOSE i \in S : \A j \in S : j <= i
Least(S) == CHOOSE p \in S : \A q \in S : p <= q

(* A later component of the same kind replaces an earlier one. *)
ByKind(nodes) ==
  [k \in Kinds |->
     LET at == {i \in DOMAIN nodes : nodes[i].kind = k} IN
       IF at = {} THEN NoValue ELSE nodes[LastIndex(at)]]

-----------------------------------------------------------------------------
(* CmdMonitor.  It is started once and not started again. *)

Written == FoldFunction(+, 0, size)

Writes(line) == Len(unread) < MaxUnread /\ unread' = Append(unread, line)

MonitorBegins ==
  /\ monitor \in {"idle", "chatty"} /\ frame < MaxFrames
  /\ monitor' = "inside"
  /\ frame' = frame + 1
  /\ Writes([what |-> "BEGIN"])
  /\ UNCHANGED <<size, received, shownVars, plugged, portVars, serialVars, box>>

MonitorWritesNode(k) ==
  /\ monitor = "inside" /\ size[frame] < MaxNodes /\ Written < MaxTotal
  /\ size' = [size EXCEPT ![frame] = @ + 1]
  /\ Writes([what |-> "node", kind |-> k, frame |-> frame, nth |-> size[frame] + 1])
  /\ UNCHANGED <<monitor, frame, received, shownVars, plugged, portVars,
                 serialVars, box>>

MonitorEnds ==
  /\ monitor = "inside"
  /\ monitor' = "idle"
  /\ Writes([what |-> "END"])
  /\ UNCHANGED <<frame, size, received, shownVars, plugged, portVars, serialVars, box>>

(* Anything else that it prints between two frames; once stands for often. *)
MonitorPrints ==
  /\ monitor = "idle"
  /\ monitor' = "chatty"
  /\ Writes([what |-> "noise", kind |-> Generic])
  /\ UNCHANGED <<frame, size, received, shownVars, plugged, portVars, serialVars, box>>

MonitorDies ==
  /\ monitor # "dead"
  /\ monitor' = "dead"
  /\ UNCHANGED <<frame, size, unread, received, shownVars, plugged, portVars,
                 serialVars, box>>

-----------------------------------------------------------------------------
(* The list of ports. *)

(* Mutant: the selected port is kept when it is gone. *)
RefreshKeeping ==
  /\ listed' = plugged
  /\ selected' = IF selected = NoPort /\ plugged # {} THEN Least(plugged) ELSE selected

(* refreshPorts: nothing if the list is the same; a selected port that is  *)
(* gone is replaced by the first.                                          *)
RefreshPorts ==
  /\ listed' = plugged
  /\ selected' = IF plugged = listed \/ selected \in plugged THEN selected
                 ELSE IF plugged = {} THEN NoPort ELSE Least(plugged)

-----------------------------------------------------------------------------
(* The frames. *)

(* appendHistorySample. *)
KeepLast(samples, v) ==
  LET all == Append(samples, v) IN IF Len(all) > Limit THEN Tail(all) ELSE all

(* Mutant: a kind that is not in the frame adds no sample. *)
AppendSamplesPresent(values) ==
  history' = [k \in Kinds |-> IF values[k] = NoValue THEN history[k]
                                                     ELSE KeepLast(history[k], values[k])]

(* Mutant: the oldest sample is never removed. *)
AppendSamplesForever(values) ==
  history' = [k \in Kinds |-> Append(history[k], values[k])]

(* A sample for every kind, zero for one that is not there. *)
AppendSamples(values) == history' = [k \in Kinds |-> KeepLast(history[k], values[k])]

(* updatePerformanceModel. *)
ShowFrame(nodes) ==
  /\ cards' = nodes
  /\ overview' = ByKind(nodes)
  /\ AppendSamples(ByKind(nodes))

(* Mutant: the device is sent the headlines of the frame before. *)
WriteOverview(nodes) ==
  fed' = IF connected /\ open # NoPort /\ live THEN {overview} ELSE fed

(* What is written to a device that was pulled out is lost. *)
WriteJson(nodes) ==
  fed' = IF connected /\ open # NoPort /\ live THEN {ByKind(nodes)} ELSE fed

(* resolvedata; what precedes the first title of a frame is a component    *)
(* like the others only if it follows BEGIN.                               *)
ResolveData(lines) ==
  /\ ShowFrame(lines)
  /\ WriteJson(lines)
  /\ RefreshPorts

(* Mutant: lines are added to those of the frame before. *)
BeginKeeping == UNCHANGED received

Begin == received' = <<>>

(* A step of the loop of readProcessData. *)
ReadLine ==
  /\ unread # <<>>
  /\ unread' = Tail(unread)
  /\ LET line == Head(unread) IN
       \/ /\ line.what = "BEGIN" /\ Begin
          /\ UNCHANGED <<shownVars, portVars, fed>>
       \/ /\ line.what = "END" /\ ResolveData(received)
          /\ UNCHANGED received
       \/ /\ line.what \in {"node", "noise"}
          /\ received' = Append(received, line)
          /\ UNCHANGED <<shownVars, portVars, fed>>
  /\ UNCHANGED <<monitorVars, plugged, connected, open, live, box>>

(* Mutant: the slot waits for the user to close the box. *)
ReadUnlessBox == ~box /\ ReadLine

(* readyRead calls the slot, whatever box is open. *)
ReadProcessData == ReadLine

-----------------------------------------------------------------------------
(* The devices, and the user, who is kept out by a box but nothing else is. *)

Plug(p) ==
  /\ p \in Ports \ plugged
  /\ plugged' = plugged \cup {p}
  /\ UNCHANGED <<monitorVars, unread, received, shownVars, portVars, serialVars, box>>

(* No slot is told: the port stays open, and what is written is lost. *)
Unplug(p) ==
  /\ p \in plugged
  /\ plugged' = plugged \ {p}
  /\ live' = (live /\ p # open)
  /\ UNCHANGED <<monitorVars, unread, received, shownVars, portVars, connected,
                 open, fed, box>>

UserActs ==
  /\ ~box
  /\ UNCHANGED <<monitorVars, unread, received, shownVars, plugged>>

RefreshButton ==
  /\ UserActs
  /\ RefreshPorts
  /\ UNCHANGED <<serialVars, box>>

SetSelectedPort(p) ==
  /\ UserActs
  /\ p \in listed
  /\ selected' = p
  /\ UNCHANGED <<listed, serialVars, box>>

OpenSucceeds ==
  /\ UserActs
  /\ ~connected /\ selected \in plugged
  /\ connected' = TRUE /\ open' = selected /\ live' = TRUE /\ fed' = {}
  /\ UNCHANGED <<portVars, box>>

(* No port is selected, or it is gone or used by another program. *)
OpenFails ==
  /\ UserActs
  /\ ~connected
  /\ box' = TRUE
  /\ UNCHANGED <<portVars, serialVars>>

CloseSerial ==
  /\ UserActs
  /\ connected
  /\ connected' = FALSE /\ open' = NoPort /\ live' = FALSE
  /\ UNCHANGED <<portVars, fed, box>>

BoxClosed ==
  /\ box
  /\ box' = FALSE
  /\ UNCHANGED <<monitorVars, unread, received, shownVars, plugged, portVars, serialVars>>

-----------------------------------------------------------------------------
Init ==
  /\ monitor = "idle" /\ frame = 0 /\ size = [n \in Frames |-> 0]
  /\ unread = <<>> /\ received = <<>>
  /\ cards = <<>> /\ overview = [k \in Kinds |-> NoValue] /\ history = [k \in Kinds |-> <<>>]
  /\ plugged \in SUBSET Ports
  /\ listed = plugged
  /\ selected = IF plugged = {} THEN NoPort ELSE Least(plugged)
  /\ connected = FALSE /\ open = NoPort /\ live = FALSE /\ fed = {}
  /\ box = FALSE

Monitor ==
  \/ MonitorBegins \/ MonitorEnds \/ MonitorPrints \/ MonitorDies
  \/ \E k \in Kinds \cup {Generic} : MonitorWritesNode(k)

User ==
  \/ RefreshButton \/ OpenSucceeds \/ OpenFails \/ CloseSerial \/ BoxClosed
  \/ \E p \in Ports : SetSelectedPort(p)

Devices == \E p \in Ports : Plug(p) \/ Unplug(p)

Next == Monitor \/ ReadProcessData \/ User \/ Devices

(* Qt calls a slot whose data has come, and a slot that runs goes on. *)
Fairness == WF_vars(ReadProcessData)

Spec == Init /\ [][Next]_vars /\ Fairness

-----------------------------------------------------------------------------
(* Every variable has its type, and the histories keep to their limit      *)
(* (appendHistorySample).                                                  *)
TypeOK ==
  /\ monitor \in {"idle", "chatty", "inside", "dead"}
  /\ frame \in 0 .. MaxFrames /\ (monitor = "inside" => frame # 0)
  /\ size \in [Frames -> 0 .. MaxNodes]
  /\ unread \in Seq(Line) /\ Len(unread) <= MaxUnread
  /\ received \in Seq(Entries)
  /\ cards \in Seq(Entries)
  /\ overview \in Values
  /\ history \in [Kinds -> Seq({NoValue} \cup Nodes)]
  /\ \A k \in Kinds : Len(history[k]) <= Limit
  /\ plugged \subseteq Ports /\ listed \subseteq Ports
  /\ selected \in Ports \cup {NoPort}
  /\ connected \in BOOLEAN
  /\ open \in Ports \cup {NoPort} /\ (connected <=> open # NoPort)
  /\ live \in BOOLEAN /\ box \in BOOLEAN
  /\ fed \subseteq Values

(* The window shows the components of one frame of the monitor, all of     *)
(* them and in its order, whatever the monitor prints before or after it   *)
(* and wherever it dies, and the headlines are those of the cards          *)
(* (readProcessData and updatePerformanceModel, by way of m_receivedData). *)
ShownIsOneFrame ==
  /\ overview = ByKind(cards)
  /\ cards # <<>> =>
       \E n \in Frames :
         /\ Len(cards) = size[n]
         /\ \A i \in DOMAIN cards :
              cards[i].what = "node" /\ cards[i].frame = n /\ cards[i].nth = i

(* The curves have a common time axis: the samples at one place are of one *)
(* frame, later places of later frames, in spite of components that come   *)
(* and go (the four calls of appendHistorySample).                         *)
HistoriesAligned ==
  \A k, l \in Kinds :
    /\ Len(history[k]) = Len(history[l])
    /\ \A i \in DOMAIN history[k], j \in DOMAIN history[l] :
         history[k][i] # NoValue /\ history[l][j] # NoValue =>
           (i <= j => history[k][i].frame <= history[l][j].frame)
             /\ (i < j => history[k][i].frame < history[l][j].frame)

(* The selected port is in the list that the user sees, and one is         *)
(* selected as soon as there is one, in spite of what is plugged and       *)
(* pulled and of frames that refresh the list under an open box            *)
(* (refreshPorts, setSelectedPort).                                        *)
SelectedIsListed == IF listed = {} THEN selected = NoPort ELSE selected \in listed

(* A device that is still there was last sent the headlines that the       *)
(* window shows, or nothing since it was opened (resolvedata writes after  *)
(* it updates the model).                                                  *)
FedWhatIsShown == connected /\ live /\ fed # {} => fed = {overview}

(* What the monitor writes gets read, also while the user leaves a box     *)
(* open (the box runs an event loop of its own).                           *)
NothingStaysUnread == unread # <<>> ~> unread = <<>>
=============================================================================
