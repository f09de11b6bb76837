--------------------------- MODULE MediaHubProofs ---------------------------
(***************************************************************************)
(* Theorems about MediaHub, for every set of tabs, stamps and commands.    *)
(***************************************************************************)
EXTENDS MediaHub, TLAPS

-----------------------------------------------------------------------------
(* Lemmas about the operators the hub is built from. *)

(* A media map is a function from some of the tabs to entries. *)
LEMMA MediaMapShape ==
  ASSUME NEW m \in MediaMaps
  PROVE  /\ DOMAIN m \subseteq Tabs
         /\ m \in [DOMAIN m -> Entry]
         /\ \A u \in DOMAIN m : m[u] \in Entry
  BY DEF MediaMaps

(* Adding or replacing the entry of a tab gives a media map. *)
LEMMA WithTabIsMediaMap ==
  ASSUME NEW m \in MediaMaps, NEW t \in Tabs, NEW e \in Entry
  PROVE  WithTab(m, t, e) \in MediaMaps
<1>1. /\ DOMAIN m \cup {t} \in SUBSET Tabs
      /\ \A u \in DOMAIN m : m[u] \in Entry
  BY MediaMapShape
<1>2. WithTab(m, t, e) \in [DOMAIN m \cup {t} -> Entry]
  BY <1>1 DEF WithTab
<1> QED BY <1>1, <1>2 DEF MediaMaps

(* Forgetting a tab gives a media map. *)
LEMMA WithoutTabIsMediaMap ==
  ASSUME NEW m \in MediaMaps, NEW t
  PROVE  WithoutTab(m, t) \in MediaMaps
<1>1. /\ DOMAIN m \ {t} \in SUBSET Tabs
      /\ \A u \in DOMAIN m : m[u] \in Entry
  BY MediaMapShape
<1>2. WithoutTab(m, t) \in [DOMAIN m \ {t} -> Entry]
  BY <1>1 DEF WithoutTab
<1> QED BY <1>1, <1>2 DEF MediaMaps

(* The empty list is a media map. *)
LEMMA NoMediaIsMediaMap == NoMedia \in MediaMaps /\ DOMAIN NoMedia = {}
<1>1. NoMedia \in [{} -> Entry] /\ {} \in SUBSET Tabs
  BY DEF NoMedia
<1> QED BY <1>1 DEF MediaMaps, NoMedia

(* The sort's order is asymmetric, so at most one tab is its head. *)
LEMMA HeadUnique ==
  ASSUME NEW m \in MediaMaps, NEW t \in Heads(m), NEW u \in Heads(m)
  PROVE  t = u
<1> SUFFICES ASSUME t # u PROVE FALSE
  OBVIOUS
<1>1. /\ t \in DOMAIN m /\ u \in DOMAIN m
      /\ Before(m, t, u) /\ Before(m, u, t)
  BY DEF Heads
<1>2. /\ t \in Nat /\ u \in Nat
      /\ m[t].playing \in BOOLEAN /\ m[u].playing \in BOOLEAN
      /\ m[t].lastActiveAt \in Nat /\ m[u].lastActiveAt \in Nat
  BY <1>1, MediaMapShape, TabsAssumption, StampsAssumption DEF Entry
<1> QED BY <1>1, <1>2 DEF Before

(* The choice of the active tab is deterministic ... *)
LEMMA ActiveTabUnique ==
  ASSUME NEW m \in MediaMaps, NEW f,
         NEW t \in ActiveTabs(m, f), NEW u \in ActiveTabs(m, f)
  PROVE  t = u
  BY HeadUnique DEF ActiveTabs

(* ... and yields a tab or no tab. *)
LEMMA ActiveTabType ==
  ASSUME NEW m \in MediaMaps, NEW f, NEW t \in ActiveTabs(m, f)
  PROVE  t \in Tabs \cup {NoTab}
  BY MediaMapShape DEF ActiveTabs, Heads

-----------------------------------------------------------------------------
(* The type invariant. *)

(* What the popup is sent is a view. *)
LEMMA ViewType ==
  ASSUME popup \in SUBSET Views, NEW flag \in BOOLEAN, NEW active \in Tabs \cup {NoTab},
         NEW tabs \in MediaMaps, NotifyUI(flag, active, tabs)
  PROVE  popup' \in SUBSET Views
<1>1. [connected |-> flag, active |-> active, tabs |-> tabs] \in Views
  BY DEF Views
<1> QED BY <1>1 DEF NotifyUI

(* What removeTab does to the store keeps the types. *)
LEMMA RemoveTabType ==
  ASSUME TypeOK, NEW t, RemoveTab(t)
  PROVE  /\ byTab' \in MediaMaps
         /\ activeTab' \in Tabs \cup {NoTab}
         /\ focusedTab' \in Tabs \cup {NoTab}
         /\ notifyTimer' \in BOOLEAN
         /\ popup' \in SUBSET Views
<1>1. CASE t \in DOMAIN byTab
  <2>1. byTab' \in MediaMaps
    BY <1>1, WithoutTabIsMediaMap DEF RemoveTab, TypeOK
  <2>2. activeTab' \in Tabs \cup {NoTab}
    BY <1>1, <2>1, ActiveTabType DEF RemoveTab, RecomputeActiveTab
  <2>3. popup' \in SUBSET Views
    BY <1>1, <2>1, <2>2, ViewType DEF RemoveTab, TypeOK
  <2> QED BY <1>1, <2>1, <2>2, <2>3 DEF RemoveTab, NotifyDesktop, TypeOK
<1>2. CASE t \notin DOMAIN byTab
  BY <1>2 DEF RemoveTab, store, TypeOK
<1> QED BY <1>1, <1>2

(* A snapshot of a typed state, sent or not, keeps the type of pushed. *)
LEMMA SendSnapshotType ==
  ASSUME TypeOK, SendSnapshot
  PROVE  pushed' \in SUBSET Snapshots
<1>1. Snapshot \in Snapshots
  BY DEF TypeOK, Snapshot, Snapshots
<1> QED BY <1>1 DEF TypeOK, SendSnapshot

(* The initial state of the module is typed. *)
LEMMA InitType == Init => TypeOK
  BY NoMediaIsMediaMap DEF Init, TypeOK, Phases, Replies

(* Every step of the hub keeps every variable in its type. *)
LEMMA NextType == TypeOK /\ [Next]_vars => TypeOK'
<1> SUFFICES ASSUME TypeOK, [Next]_vars PROVE TypeOK'
  OBVIOUS
<1>1. ASSUME NEW t \in Tabs, Report(t) PROVE TypeOK'
  <2>1. PICK playing \in BOOLEAN, interaction \in BOOLEAN, stamp \in Stamps :
          UpdateMediaState(t, playing, stamp, interaction)
    BY <1>1 DEF Report
  <2>2. KeptStamp(t, playing, stamp, interaction) \in Stamps
    BY MediaMapShape DEF KeptStamp, TypeOK, Entry
  <2>3. [playing |-> playing,
         lastActiveAt |-> KeptStamp(t, playing, stamp, interaction)] \in Entry
    BY <2>2 DEF Entry
  <2>4. byTab' \in MediaMaps
    BY <2>1, <2>3, WithTabIsMediaMap DEF UpdateMediaState, TypeOK
  <2>5. activeTab' \in Tabs \cup {NoTab}
    BY <2>1, <2>4, ActiveTabType DEF UpdateMediaState, RecomputeActiveTab
  <2>6. popup' \in SUBSET Views
    BY <2>1, <2>4, <2>5, ViewType DEF UpdateMediaState, TypeOK
  <2> QED BY <2>1, <2>4, <2>5, <2>6
          DEF UpdateMediaState, NotifyDesktop, TypeOK, bridge, commands
<1>2. ASSUME NEW t \in Tabs, MediaGone(t) PROVE TypeOK'
  BY <1>2, RemoveTabType DEF MediaGone, TypeOK, bridge, commands
<1>3. ASSUME NEW t \in Tabs, SetFocusedTab(t) PROVE TypeOK'
  <2>1. activeTab' \in Tabs \cup {NoTab}
    BY <1>3, ActiveTabType DEF SetFocusedTab, RecomputeActiveTab, TypeOK
  <2>2. popup' \in SUBSET Views
    BY <1>3, <2>1, ViewType DEF SetFocusedTab, TypeOK
  <2> QED BY <1>3, <2>1, <2>2 DEF SetFocusedTab, TypeOK, bridge, commands
<1>4. CASE NotifyTimerFires
  BY <1>4, SendSnapshotType DEF NotifyTimerFires, TypeOK, store, bridge, commands
<1>5. ASSUME NEW c \in Cmds, GetMediaListKnown(c) PROVE TypeOK'
  BY <1>5, SendSnapshotType
  DEF GetMediaListKnown, Answer, TypeOK, store, bridge, Phases, Replies
<1>6. ASSUME NEW c \in Cmds, GetMediaListUnknown(c) PROVE TypeOK'
  BY <1>6 DEF GetMediaListUnknown, TypeOK, store, bridge, Phases
<1>7. ASSUME NEW c \in Cmds, QueryTimerFires(c) PROVE TypeOK'
  BY <1>7, SendSnapshotType
  DEF QueryTimerFires, Answer, NotifyDesktop, TypeOK, store, bridge, Phases, Replies
<1>8. ASSUME NEW c \in Cmds, NEW tab \in Tabs \cup {NoTab}, NEW origin,
             ExecuteCommand(c, tab, origin)
      PROVE  TypeOK'
  <2>1. target' \in [Cmds -> Tabs \cup {NoTab}]
    BY <1>8 DEF ExecuteCommand, TypeOK
  <2>2. phase' \in [Cmds -> Phases] /\ reply' \in [Cmds -> Replies]
    BY <1>8 DEF ExecuteCommand, Started, TypeOK, Phases, Replies
  <2> QED BY <1>8, <2>1, <2>2 DEF ExecuteCommand, TypeOK, store, bridge
<1>9. ASSUME NEW c \in Cmds, ExecuteSucceeds(c) PROVE TypeOK'
  BY <1>9 DEF ExecuteSucceeds, Answer, TypeOK, store, bridge, Phases, Replies
<1>10. ASSUME NEW c \in Cmds, ExecuteFails(c) PROVE TypeOK'
  <2>1. phase' \in [Cmds -> Phases] /\ reply' \in [Cmds -> Replies]
    BY <1>10 DEF ExecuteFails, Answer, TypeOK, Phases, Replies
  <2> QED BY <1>10, <2>1, RemoveTabType DEF ExecuteFails, TypeOK, bridge
<1>11. ASSUME NEW opened \in BOOLEAN, Connect(opened) PROVE TypeOK'
  <2>1. popup' \in SUBSET Views
    BY <1>11, ViewType DEF Connect, OpenPort, TypeOK
  <2> QED BY <1>11, <2>1 DEF Connect, OpenPort, TypeOK, store, commands
<1>12. ASSUME NEW opened \in BOOLEAN, Start(opened) PROVE TypeOK'
  <2>1. popup' \in SUBSET Views
    BY <1>12, ViewType DEF Start, OpenPort, TypeOK
  <2> QED BY <1>12, <2>1 DEF Start, OpenPort, TypeOK, store, commands
<1>13. CASE Disconnect \/ PortLost
  <2>1. popup' \in SUBSET Views
    BY <1>13, ViewType DEF Disconnect, PortLost, ClosePort, TypeOK
  <2> QED BY <1>13, <2>1 DEF Disconnect, PortLost, ClosePort, TypeOK, store, commands
<1>14. CASE Stop
  BY <1>14, NoMediaIsMediaMap DEF Stop, TypeOK, Phases
<1>16. CASE GetState \/ PopupCloses
  <2>1. [connected |-> connected, active |-> activeTab, tabs |-> byTab] \in Views
    BY DEF TypeOK, Views
  <2> QED BY <1>16, <2>1 DEF GetState, PopupCloses, TypeOK, store, bridge, commands
<1>15. CASE UNCHANGED vars
  BY <1>15 DEF vars, store, bridge, commands, TypeOK
<1> QED
  BY <1>1, <1>2, <1>3, <1>4, <1>5, <1>6, <1>7, <1>8, <1>9, <1>10, <1>11, <1>12,
     <1>13, <1>14, <1>15, <1>16 DEF Next

(* Type correctness: whatever tabs report and commands are issued, every   *)
(* variable of the hub stays in its type.                                  *)
THEOREM TypeCorrect == Spec => []TypeOK
  BY InitType, NextType, PTL DEF Spec

-----------------------------------------------------------------------------
(* The active tab. *)

(* ActiveIsBest is not inductive in the form a reader wants; the active    *)
(* tab always being a result of the sort is.                               *)
ActiveIsSorted == activeTab \in ActiveTabs(byTab, focusedTab)

(* removeTab recomputes the active tab or changes nothing it depends on. *)
LEMMA RemoveTabSorted ==
  ASSUME ActiveIsSorted, NEW t, RemoveTab(t)
  PROVE  ActiveIsSorted'
  BY DEF RemoveTab, RecomputeActiveTab, ActiveIsSorted, store

(* Every step recomputes the active tab or keeps the list and the focus. *)
LEMMA NextSorted ==
  ASSUME TypeOK, ActiveIsSorted, [Next]_vars
  PROVE  ActiveIsSorted'
<1>1. ASSUME NEW t \in Tabs, Report(t) PROVE ActiveIsSorted'
  BY <1>1 DEF Report, UpdateMediaState, RecomputeActiveTab, ActiveIsSorted
<1>2. ASSUME NEW t \in Tabs, MediaGone(t) PROVE ActiveIsSorted'
  BY <1>2, RemoveTabSorted DEF MediaGone
<1>3. ASSUME NEW t \in Tabs, SetFocusedTab(t) PROVE ActiveIsSorted'
  BY <1>3 DEF SetFocusedTab, RecomputeActiveTab, ActiveIsSorted
<1>4. ASSUME NEW c \in Cmds, ExecuteFails(c) PROVE ActiveIsSorted'
  BY <1>4, RemoveTabSorted DEF ExecuteFails
<1>5. CASE Stop
  BY <1>5, NoMediaIsMediaMap, TabsAssumption DEF Stop, ActiveIsSorted, ActiveTabs
<1>6. CASE UNCHANGED store
  BY <1>6 DEF store, ActiveIsSorted
<1> QED
  <2>1. CASE NotifyTimerFires
    BY <2>1, <1>6 DEF NotifyTimerFires
  <2>2. ASSUME NEW c \in Cmds,
               GetMediaListKnown(c) \/ GetMediaListUnknown(c) \/ QueryTimerFires(c)
                 \/ ExecuteSucceeds(c)
        PROVE  ActiveIsSorted'
    BY <2>2, <1>6
    DEF GetMediaListKnown, GetMediaListUnknown, QueryTimerFires, ExecuteSucceeds
  <2>3. ASSUME NEW c \in Cmds, NEW tab, NEW origin, ExecuteCommand(c, tab, origin)
        PROVE  ActiveIsSorted'
    BY <2>3, <1>6 DEF ExecuteCommand
  <2>4. ASSUME NEW opened \in BOOLEAN, Connect(opened) \/ Start(opened)
        PROVE  ActiveIsSorted'
    BY <2>4, <1>6 DEF Connect, Start
  <2>5. CASE Disconnect \/ PortLost \/ GetState \/ PopupCloses
    BY <2>5, <1>6 DEF Disconnect, PortLost, GetState, PopupCloses
  <2>6. CASE UNCHANGED vars
    BY <2>6, <1>6 DEF vars
  <2> QED BY <1>1, <1>2, <1>3, <1>4, <1>5, <2>1, <2>2, <2>3, <2>4, <2>5, <2>6 DEF Next

(* A result of the sort is the best tab in the sense of ActiveIsBest. *)
LEMMA SortedIsBest ==
  ASSUME TypeOK, ActiveIsSorted
  PROVE  ActiveIsBest
<1>1. byTab \in MediaMaps
  BY DEF TypeOK
<1>2. /\ DOMAIN byTab \subseteq Nat \ {NoTab}
      /\ \A u \in DOMAIN byTab : byTab[u].playing \in BOOLEAN /\ byTab[u].lastActiveAt \in Nat
  BY <1>1, MediaMapShape, TabsAssumption, StampsAssumption DEF Entry
<1>3. CASE focusedTab \in DOMAIN byTab
  BY <1>2, <1>3 DEF ActiveIsSorted, ActiveTabs, ActiveIsBest
<1>4. CASE focusedTab \notin DOMAIN byTab /\ DOMAIN byTab = {}
  BY <1>4 DEF ActiveIsSorted, ActiveTabs, ActiveIsBest
<1>5. CASE focusedTab \notin DOMAIN byTab /\ DOMAIN byTab # {}
  <2>1. activeTab \in Heads(byTab)
    BY <1>5 DEF ActiveIsSorted, ActiveTabs
  <2>2. /\ activeTab \in DOMAIN byTab
        /\ \A u \in DOMAIN byTab \ {activeTab} : Before(byTab, activeTab, u)
    BY <2>1 DEF Heads
  <2>3. ASSUME NEW u \in DOMAIN byTab
        PROVE  /\ byTab[u].playing => byTab[activeTab].playing
               /\ byTab[u].playing = byTab[activeTab].playing
                    => byTab[u].lastActiveAt <= byTab[activeTab].lastActiveAt
    <3>1. CASE u = activeTab
      BY <3>1, <1>2
    <3>2. CASE u # activeTab
      BY <3>2, <1>2, <2>2 DEF Before
    <3> QED BY <3>1, <3>2
  <2> QED BY <1>2, <1>5, <2>2, <2>3 DEF ActiveIsBest
<1> QED BY <1>3, <1>4, <1>5

(* The active tab is a result of the sort in every reachable state. *)
THEOREM AlwaysSorted == Spec => []ActiveIsSorted
<1>1. Init => ActiveIsSorted
  BY TabsAssumption DEF Init, NoMedia, ActiveIsSorted, ActiveTabs
<1>2. TypeOK /\ ActiveIsSorted /\ [Next]_vars => ActiveIsSorted'
  BY NextSorted
<1> QED BY <1>1, <1>2, TypeCorrect, PTL DEF Spec

(* The active tab is the focused tab if that has media, and otherwise a    *)
(* playing one before a paused one and a recent one before an older one;   *)
(* it is never a tab that lost its media, however it was lost.             *)
THEOREM AlwaysBest == Spec => []ActiveIsBest
<1>1. TypeOK /\ ActiveIsSorted => ActiveIsBest
  BY SortedIsBest
<1> QED BY <1>1, TypeCorrect, AlwaysSorted, PTL

(* A repeated report changes neither the list nor, the sort being          *)
(* deterministic, the active tab.                                          *)
LEMMA RepeatStep ==
  ASSUME TypeOK, ActiveIsSorted, [Next]_vars,
         NEW t \in DOMAIN byTab, NEW stamp \in Stamps,
         UpdateMediaState(t, byTab[t].playing, stamp, FALSE)
  PROVE  activeTab' = activeTab
<1>1. byTab \in MediaMaps /\ byTab[t] \in Entry
  BY MediaMapShape DEF TypeOK
<1>2. [playing |-> byTab[t].playing, lastActiveAt |-> byTab[t].lastActiveAt] = byTab[t]
  BY <1>1 DEF Entry
<1>3. byTab' = WithTab(byTab, t, byTab[t])
  BY <1>2 DEF UpdateMediaState, KeptStamp
<1>4. byTab' = byTab
  BY <1>1, <1>3, MediaMapShape DEF WithTab
<1>5. activeTab' \in ActiveTabs(byTab, focusedTab)
  BY <1>4 DEF UpdateMediaState, RecomputeActiveTab
<1> QED BY <1>1, <1>5, ActiveTabUnique DEF ActiveIsSorted

(* Pages that repeat their state cannot take the active tab over. *)
THEOREM RepeatsKeepActive == Spec => RepeatKeepsActive
<1>1. TypeOK /\ ActiveIsSorted /\ [Next]_vars
        => [\A t \in Tabs, stamp \in Stamps :
              (/\ t \in DOMAIN byTab
               /\ UpdateMediaState(t, byTab[t].playing, stamp, FALSE))
              => activeTab' = activeTab]_vars
  BY RepeatStep
<1> QED BY <1>1, TypeCorrect, AlwaysSorted, PTL DEF Spec, RepeatKeepsActive

(* A command is answered "failed" only by executeCommand: without a tab to *)
(* send it to, or after its target has been removed.                       *)
LEMMA FailedStep ==
  ASSUME TypeOK, ActiveIsSorted, [Next]_vars, NEW c \in Cmds,
         reply[c] = "none", reply'[c] = "failed"
  PROVE  /\ target'[c] \notin DOMAIN byTab'
         /\ target'[c] # NoTab => activeTab' # target'[c]
<1>1. TypeOK' /\ ActiveIsSorted'
  BY NextType, NextSorted
<1>2. ActiveIsBest' /\ NoTab \notin DOMAIN byTab'
  <2>1. ActiveIsSorted' /\ TypeOK' => ActiveIsBest'
    BY SortedIsBest, PTL
  <2>2. DOMAIN byTab' \subseteq Tabs
    BY <1>1, MediaMapShape DEF TypeOK
  <2> QED BY <1>1, <2>1, <2>2, TabsAssumption
<1>3. ASSUME NEW tab, NEW origin, ExecuteCommand(c, tab, origin)
      PROVE  target'[c] = NoTab
  BY <1>3 DEF ExecuteCommand, Started, TypeOK
<1>4. ASSUME ExecuteFails(c)
      PROVE  target'[c] \notin DOMAIN byTab'
  BY <1>4 DEF ExecuteFails, RemoveTab, WithoutTab, store
<1>5. (\E tab, origin : ExecuteCommand(c, tab, origin)) \/ ExecuteFails(c)
  <2>1. ~UNCHANGED reply
    OBVIOUS
  <2>2. ~UNCHANGED commands /\ ~UNCHANGED vars
    BY <2>1 DEF commands, vars
  <2>3. PICK d \in Cmds :
          \/ GetMediaListKnown(d) \/ QueryTimerFires(d) \/ ExecuteSucceeds(d)
          \/ \E tab, origin : ExecuteCommand(d, tab, origin)
          \/ ExecuteFails(d)
    BY <2>1, <2>2
    DEF Next, Report, UpdateMediaState, MediaGone, SetFocusedTab, NotifyTimerFires,
        GetMediaListUnknown, Connect, Start, Disconnect, PortLost, Stop, GetState,
        PopupCloses
  <2>4. d = c
    BY <2>3 DEF TypeOK, GetMediaListKnown, QueryTimerFires, ExecuteSucceeds,
                ExecuteCommand, ExecuteFails, Started, Answer
  <2> QED BY <2>3, <2>4
          DEF TypeOK, GetMediaListKnown, QueryTimerFires, ExecuteSucceeds, Answer
<1> QED BY <1>2, <1>3, <1>4, <1>5 DEF ActiveIsBest

(* A failed command never leaves its dead target in the list or active. *)
THEOREM FailedTargetsForgotten == Spec => FailedTargetForgotten
<1>1. TypeOK /\ ActiveIsSorted /\ [Next]_vars
        => [\A c \in Cmds : reply[c] = "none" /\ reply'[c] = "failed"
              => target'[c] \notin DOMAIN byTab'
                 /\ (target'[c] # NoTab => activeTab' # target'[c])]_vars
  BY FailedStep
<1> QED BY <1>1, TypeCorrect, AlwaysSorted, PTL DEF Spec, FailedTargetForgotten

-----------------------------------------------------------------------------
(* What the popup shows and the freshness of the pushed list. *)

(* removeTab schedules a push whenever it changes the list. *)
LEMMA RemoveTabSchedules ==
  ASSUME NEW t, RemoveTab(t)
  PROVE  \/ notifyTimer' = (notifyTimer \/ port)
         \/ byTab' = byTab /\ notifyTimer' = notifyTimer
  BY DEF RemoveTab, NotifyDesktop, store

(* The stored connection flag and the port of the bridge agree: what the   *)
(* popup is sent is taken from the flag.                                   *)
FlagIsPort == connected = port

(* What a popup is sent, if it is sent the state that the step leaves. *)
LEMMA SentIsCurrent ==
  ASSUME FlagIsPort', NotifyUI(connected', activeTab', byTab')
  PROVE  PopupIsCurrent'
  BY DEF NotifyUI, PopupIsCurrent, FlagIsPort

(* removeTab tells the popup of every change. *)
LEMMA RemoveTabTells ==
  ASSUME FlagIsPort, PopupIsCurrent, NEW t, RemoveTab(t), UNCHANGED bridge, UNCHANGED running
  PROVE  FlagIsPort' /\ PopupIsCurrent'
<1>1. FlagIsPort'
  BY DEF FlagIsPort, bridge
<1>2. CASE t \in DOMAIN byTab
  BY <1>1, <1>2, SentIsCurrent DEF RemoveTab, bridge
<1>3. CASE t \notin DOMAIN byTab
  BY <1>1, <1>3 DEF RemoveTab, PopupIsCurrent, store, bridge
<1> QED BY <1>1, <1>2, <1>3

(* Flag and port change together, and with the popup: every step sends it  *)
(* the new state or keeps what it shows.                                   *)
LEMMA NextCurrent ==
  ASSUME FlagIsPort, PopupIsCurrent, [Next]_vars
  PROVE  FlagIsPort' /\ PopupIsCurrent'
<1>1. ASSUME NEW t \in Tabs, Report(t) \/ SetFocusedTab(t)
      PROVE  FlagIsPort' /\ PopupIsCurrent'
  <2>1. UNCHANGED bridge
    BY <1>1 DEF Report, UpdateMediaState, SetFocusedTab
  <2>2. FlagIsPort'
    BY <2>1 DEF FlagIsPort, bridge
  <2>3. NotifyUI(connected', activeTab', byTab')
    BY <1>1, <2>1 DEF Report, UpdateMediaState, SetFocusedTab, bridge
  <2> QED BY <2>2, <2>3, SentIsCurrent
<1>2. ASSUME NEW t \in Tabs, MediaGone(t) PROVE FlagIsPort' /\ PopupIsCurrent'
  BY <1>2, RemoveTabTells DEF MediaGone
<1>3. ASSUME NEW c \in Cmds, ExecuteFails(c) PROVE FlagIsPort' /\ PopupIsCurrent'
  BY <1>3, RemoveTabTells DEF ExecuteFails
<1>4. ASSUME NEW opened \in BOOLEAN, Connect(opened) \/ Start(opened)
      PROVE  FlagIsPort' /\ PopupIsCurrent'
  <2>1. FlagIsPort'
    BY <1>4 DEF Connect, Start, OpenPort, FlagIsPort
  <2>2. NotifyUI(connected', activeTab', byTab')
    BY <1>4 DEF Connect, Start, OpenPort, store
  <2> QED BY <2>1, <2>2, SentIsCurrent
<1>5. CASE Disconnect \/ PortLost
  <2>1. FlagIsPort'
    BY <1>5 DEF Disconnect, PortLost, ClosePort, FlagIsPort
  <2>2. NotifyUI(connected', activeTab', byTab')
    BY <1>5 DEF Disconnect, PortLost, ClosePort, store
  <2> QED BY <2>1, <2>2, SentIsCurrent
<1>6. CASE Stop
  BY <1>6 DEF Stop, FlagIsPort, PopupIsCurrent
<1>7. CASE GetState \/ PopupCloses
  BY <1>7 DEF GetState, PopupCloses, FlagIsPort, PopupIsCurrent, store, bridge
<1>8. ASSUME UNCHANGED <<running, byTab, activeTab, connected, port, popup>>
      PROVE  FlagIsPort' /\ PopupIsCurrent'
  BY <1>8 DEF FlagIsPort, PopupIsCurrent
<1>9. ASSUME NEW c \in Cmds,
             \/ GetMediaListKnown(c) \/ GetMediaListUnknown(c) \/ QueryTimerFires(c)
             \/ \E tab, origin : ExecuteCommand(c, tab, origin)
             \/ ExecuteSucceeds(c)
      PROVE  UNCHANGED <<running, byTab, activeTab, connected, port, popup>>
  BY <1>9 DEF GetMediaListKnown, GetMediaListUnknown, QueryTimerFires,
              ExecuteCommand, ExecuteSucceeds, store, bridge
<1>10. CASE NotifyTimerFires \/ UNCHANGED vars
  BY <1>8, <1>10 DEF NotifyTimerFires, vars, store, bridge
<1> QED BY <1>1, <1>2, <1>3, <1>4, <1>5, <1>6, <1>7, <1>8, <1>9, <1>10 DEF Next

(* A step that calls notifyDesktop has a push scheduled or no port. *)
LEMMA ScheduledIsFresh ==
  ASSUME TypeOK, NotifyDesktop, port' = port
  PROVE  PushedTabsFresh'
<1>1. port' => notifyTimer'
  <2>1. CASE port
    BY <2>1 DEF NotifyDesktop
  <2>2. CASE ~port
    BY <2>2
  <2> QED BY <2>1, <2>2
<1> QED BY <1>1 DEF PushedTabsFresh

(* Every step keeps the pushed list current or has a push scheduled. *)
LEMMA NextFresh ==
  ASSUME TypeOK, PushedTabsFresh, [Next]_vars
  PROVE  PushedTabsFresh'
<1>1. ASSUME NEW t \in Tabs, Report(t) PROVE PushedTabsFresh'
  BY <1>1, ScheduledIsFresh DEF Report, UpdateMediaState, bridge
<1>2. ASSUME NEW t \in Tabs, MediaGone(t) PROVE PushedTabsFresh'
  <2>1. CASE notifyTimer' = (notifyTimer \/ port)
    BY <1>2, <2>1, ScheduledIsFresh DEF MediaGone, NotifyDesktop, bridge
  <2>2. CASE byTab' = byTab /\ notifyTimer' = notifyTimer
    BY <1>2, <2>2 DEF MediaGone, PushedTabsFresh, bridge
  <2> QED BY <1>2, <2>1, <2>2, RemoveTabSchedules DEF MediaGone
<1>3. ASSUME NEW c \in Cmds, ExecuteFails(c) PROVE PushedTabsFresh'
  <2>1. CASE notifyTimer' = (notifyTimer \/ port)
    BY <1>3, <2>1, ScheduledIsFresh DEF ExecuteFails, NotifyDesktop, bridge
  <2>2. CASE byTab' = byTab /\ notifyTimer' = notifyTimer
    BY <1>3, <2>2 DEF ExecuteFails, PushedTabsFresh, bridge
  <2> QED BY <1>3, <2>1, <2>2, RemoveTabSchedules DEF ExecuteFails
<1>4. CASE NotifyTimerFires
  BY <1>4 DEF NotifyTimerFires, SendSnapshot, Snapshot, PushedTabsFresh, store, bridge
<1>5. ASSUME NEW c \in Cmds, GetMediaListKnown(c) \/ QueryTimerFires(c)
      PROVE  PushedTabsFresh'
  <2>1. CASE GetMediaListKnown(c)
    BY <2>1 DEF GetMediaListKnown, SendSnapshot, Snapshot, PushedTabsFresh, store, bridge
  <2>2. CASE QueryTimerFires(c)
    BY <2>2, ScheduledIsFresh DEF QueryTimerFires, bridge
  <2> QED BY <1>5, <2>1, <2>2
<1>6. ASSUME NEW opened \in BOOLEAN, Connect(opened) \/ Start(opened)
      PROVE  PushedTabsFresh'
  BY <1>6 DEF Connect, Start, OpenPort, PushedTabsFresh
<1>7. CASE Disconnect \/ PortLost \/ Stop
  BY <1>7 DEF Disconnect, PortLost, Stop, ClosePort, PushedTabsFresh
<1>8. CASE UNCHANGED <<byTab, port, notifyTimer, pushed>>
  BY <1>8 DEF PushedTabsFresh
<1>9. ASSUME \/ \E t \in Tabs : SetFocusedTab(t)
             \/ \E c \in Cmds : \/ GetMediaListUnknown(c) \/ ExecuteSucceeds(c)
                                \/ \E tab, origin : ExecuteCommand(c, tab, origin)
             \/ GetState \/ PopupCloses
             \/ UNCHANGED vars
      PROVE  PushedTabsFresh'
  BY <1>8, <1>9 DEF SetFocusedTab, GetMediaListUnknown, ExecuteSucceeds,
                    ExecuteCommand, GetState, PopupCloses, vars, store, bridge
<1> QED BY <1>1, <1>2, <1>3, <1>4, <1>5, <1>6, <1>7, <1>9 DEF Next

(* Whatever happens, the last state that an open popup was sent is the     *)
(* current one, as long as the service worker lives.                       *)
THEOREM PopupAlwaysCurrent == Spec => []PopupIsCurrent
<1>1. Init => FlagIsPort /\ PopupIsCurrent
  BY DEF Init, FlagIsPort, PopupIsCurrent
<1>2. FlagIsPort /\ PopupIsCurrent /\ [Next]_vars => (FlagIsPort /\ PopupIsCurrent)'
  BY NextCurrent
<1> QED BY <1>1, <1>2, PTL DEF Spec

(* No change of the media list is ever forgotten by the debounced push.    *)
THEOREM AlwaysFresh == Spec => []PushedTabsFresh
<1>1. Init => PushedTabsFresh
  BY DEF Init, PushedTabsFresh
<1>2. TypeOK /\ PushedTabsFresh /\ [Next]_vars => PushedTabsFresh'
  BY NextFresh
<1> QED BY <1>1, <1>2, TypeCorrect, PTL DEF Spec

-----------------------------------------------------------------------------
(* The hub implements SnapshotPublisher (the safety part; TLC checks the   *)
(* fairness).                                                              *)

(* Sending a snapshot publishes the list, or nothing without a port. *)
LEMMA SendPublishes ==
  ASSUME SendSnapshot, port' = port, byTab' = byTab
  PROVE  [Publisher!Next]_(Publisher!vars)
<1>1. CASE port
  <2>1. SentList' = {byTab}
    BY <1>1 DEF SendSnapshot, Snapshot, SentList
  <2> QED BY <1>1, <2>1 DEF Publisher!Next, Publisher!Publish
<1>2. CASE ~port
  <2>1. SentList' = SentList
    BY <1>2 DEF SendSnapshot, SentList
  <2> QED BY <2>1 DEF Publisher!vars
<1> QED BY <1>1, <1>2

(* Every step of the hub is a step of the publisher or leaves it alone. *)
LEMMA StepRefines ==
  ASSUME TypeOK, TypeOK', [Next]_vars
  PROVE  [Publisher!Next]_(Publisher!vars)
<1>1. byTab' \in MediaMaps
  BY DEF TypeOK
<1>2. ASSUME port' = port, pushed' = pushed
      PROVE  [Publisher!Next]_(Publisher!vars)
  BY <1>1, <1>2 DEF Publisher!Next, Publisher!Change, SentList
<1>3. ASSUME NEW t \in Tabs, Report(t) \/ MediaGone(t) \/ SetFocusedTab(t)
      PROVE  port' = port /\ pushed' = pushed
  BY <1>3 DEF Report, UpdateMediaState, MediaGone, SetFocusedTab, bridge
<1>4. ASSUME NEW c \in Cmds,
             \/ GetMediaListUnknown(c) \/ ExecuteSucceeds(c) \/ ExecuteFails(c)
             \/ \E tab, origin : ExecuteCommand(c, tab, origin)
      PROVE  port' = port /\ pushed' = pushed
  BY <1>4 DEF GetMediaListUnknown, ExecuteCommand, ExecuteSucceeds, ExecuteFails, bridge
<1>5. ASSUME \/ NotifyTimerFires
             \/ \E c \in Cmds : GetMediaListKnown(c) \/ QueryTimerFires(c)
      PROVE  SendSnapshot /\ port' = port /\ byTab' = byTab
  BY <1>5 DEF NotifyTimerFires, GetMediaListKnown, QueryTimerFires, store, bridge
<1>6. ASSUME NEW opened \in BOOLEAN, Connect(opened) \/ Start(opened)
      PROVE  Publisher!Next
  <2>1. /\ port' = opened /\ byTab' = byTab
        /\ SentList' = {}
    BY <1>6 DEF Connect, Start, OpenPort, store, SentList
  <2>2. CASE opened = TRUE
    BY <2>1, <2>2 DEF Publisher!Next, Publisher!GoOnline
  <2>3. CASE opened = FALSE
    BY <1>1, <2>1, <2>3 DEF Publisher!Next, Publisher!GoOffline
  <2> QED BY <2>2, <2>3
<1>7. ASSUME Disconnect \/ PortLost \/ Stop
      PROVE  Publisher!Next
  <2>1. port' = FALSE /\ SentList' = {}
    BY <1>7 DEF Disconnect, PortLost, ClosePort, Stop, SentList
  <2> QED BY <1>1, <2>1 DEF Publisher!Next, Publisher!GoOffline
<1>8. CASE GetState \/ PopupCloses \/ UNCHANGED vars
  BY <1>2, <1>8 DEF GetState, PopupCloses, vars, bridge
<1> QED BY <1>2, <1>3, <1>4, <1>5, <1>6, <1>7, <1>8, SendPublishes DEF Next

(* The observer of the tabs is only ever handed the current list: the hub, *)
(* with its timers, answers and reconnections, is a SnapshotPublisher.     *)
THEOREM ImplementsPublisher ==
  Spec => Publisher!Init /\ [][Publisher!Next]_(Publisher!vars)
<1>1. Init => Publisher!Init
  <2>1. Init => byTab \in MediaMaps /\ port = FALSE /\ SentList = {}
    BY NoMediaIsMediaMap DEF Init, SentList
  <2> QED BY <2>1 DEF Publisher!Init
<1>2. TypeOK /\ TypeOK' /\ [Next]_vars => [Publisher!Next]_(Publisher!vars)
  BY StepRefines
<1> QED BY <1>1, <1>2, TypeCorrect, PTL DEF Spec
-----------------------------------------------------------------------------
(* The hub implements ListHub (the steps; TLC checks the fairness).        *)

(* What ListHub does not see. *)
LEMMA HiddenStep ==
  ASSUME UNCHANGED <<running, byTab, notifyTimer, port, pushed, reply>>
  PROVE  UNCHANGED Promised!vars /\ SendsTheList
  BY DEF Promised!vars, SendsTheList, SendIsDue, SentList

(* A step that sends nothing, answers no query and clears no timer of a    *)
(* living hub owes nothing about the list that is sent.                    *)
LEMMA NothingSent ==
  ASSUME SentList' \in {SentList, {}},
         notifyTimer /\ ~notifyTimer' => ~running',
         \A c \in Cmds : reply'[c] = "list" => reply[c] = "list"
  PROVE  SendsTheList
  BY DEF SendsTheList, SendIsDue

(* The list that goes out with a port is the present one. *)
LEMMA SnapshotSent ==
  ASSUME SendSnapshot, byTab' = byTab
  PROVE  IF port THEN SentList' = {byTab'} ELSE SentList' = SentList
  BY DEF SendSnapshot, Snapshot, SentList

(* Only a hub with a port answers with a list. *)
LEMMA AnswerType ==
  ASSUME TypeOK, NEW c \in Cmds, NEW what, Answer(c, what)
  PROVE  \A d \in Cmds : reply'[d] # reply[d] => d = c /\ port /\ reply'[d] = what
  BY DEF Answer, TypeOK

(* The list without a tab is a new list, or nothing happens. *)
LEMMA RemoveTabReports ==
  ASSUME TypeOK', NEW t, RemoveTab(t), running, UNCHANGED <<running, port>>
  PROVE  /\ [Promised!Next]_(Promised!vars)
         /\ notifyTimer => notifyTimer'
<1>1. CASE t \in DOMAIN byTab
  <2>1. notifyTimer' = (notifyTimer \/ port) /\ byTab' \in MediaMaps
    BY <1>1 DEF RemoveTab, NotifyDesktop, TypeOK
  <2>2. Promised!Report(byTab')
    BY <2>1 DEF Promised!Report, Promised!SchedulePush
  <2> QED BY <2>1, <2>2 DEF Promised!Next
<1>2. CASE t \notin DOMAIN byTab
  BY <1>2 DEF RemoveTab, store, Promised!vars
<1> QED BY <1>1, <1>2

(* Reports of pages, and tabs that go. *)
LEMMA ReportRefines ==
  ASSUME TypeOK, TypeOK', NEW t \in Tabs, Report(t) \/ MediaGone(t)
  PROVE  [Promised!Next]_(Promised!vars) /\ SendsTheList
<1>1. UNCHANGED <<running, port, pushed, reply>> /\ running
  BY DEF Report, UpdateMediaState, MediaGone, bridge, commands
<1>2. [Promised!Next]_(Promised!vars) /\ (notifyTimer => notifyTimer')
  <2>1. CASE Report(t)
    <3>1. notifyTimer' = (notifyTimer \/ port) /\ byTab' \in MediaMaps
      BY <2>1 DEF Report, UpdateMediaState, NotifyDesktop, TypeOK
    <3>2. Promised!Report(byTab')
      BY <1>1, <3>1 DEF Promised!Report, Promised!SchedulePush
    <3> QED BY <3>1, <3>2 DEF Promised!Next
  <2>2. CASE MediaGone(t)
    BY <1>1, <2>2, RemoveTabReports DEF MediaGone
  <2> QED BY <2>1, <2>2
<1>3. SendsTheList
  <2>1. SentList' = SentList
    BY <1>1 DEF SentList
  <2> QED BY <1>1, <1>2, <2>1, NothingSent
<1> QED BY <1>2, <1>3

(* The push and the answers send the list. *)
LEMMA SendingRefines ==
  ASSUME TypeOK,
         \/ NotifyTimerFires
         \/ \E c \in Cmds : GetMediaListKnown(c) \/ QueryTimerFires(c)
  PROVE  Promised!Next /\ SendsTheList
<1>1. SendSnapshot /\ UNCHANGED <<running, byTab, port>> /\ running
  BY DEF NotifyTimerFires, GetMediaListKnown, QueryTimerFires, store, bridge
<1>2. IF port THEN SentList' = {byTab'} ELSE SentList' = SentList
  BY <1>1, SnapshotSent
<1>3. Promised!Sending
  <2>1. CASE NotifyTimerFires
    BY <1>1, <2>1 DEF NotifyTimerFires, Promised!Sending, Promised!Push
  <2>2. ASSUME NEW c \in Cmds, GetMediaListKnown(c) PROVE Promised!Sending
    BY <1>1, <2>2 DEF GetMediaListKnown, Promised!Sending, Promised!Answers, Promised!vars
  <2>3. ASSUME NEW c \in Cmds, QueryTimerFires(c) PROVE Promised!Sending
    BY <1>1, <2>3 DEF QueryTimerFires, NotifyDesktop, Promised!Sending,
                      Promised!AnswersLate, Promised!SchedulePush
  <2> QED BY <2>1, <2>2, <2>3
<1>4. ~port => \A c \in Cmds : reply'[c] = reply[c]
  <2>1. CASE NotifyTimerFires
    BY <2>1 DEF NotifyTimerFires, commands
  <2>2. ASSUME NEW c \in Cmds, GetMediaListKnown(c) \/ QueryTimerFires(c)
        PROVE  ~port => \A d \in Cmds : reply'[d] = reply[d]
    BY <2>2, AnswerType DEF GetMediaListKnown, QueryTimerFires
  <2> QED BY <2>1, <2>2
<1>5. SendsTheList
  BY <1>2, <1>3, <1>4 DEF SendsTheList, SendIsDue
<1> QED BY <1>3, <1>5 DEF Promised!Next

(* Commands send no list; a failed one may remove its tab. *)
LEMMA CommandRefines ==
  ASSUME TypeOK, TypeOK', NEW c \in Cmds,
         \/ GetMediaListUnknown(c) \/ ExecuteSucceeds(c) \/ ExecuteFails(c)
         \/ \E tab, origin : ExecuteCommand(c, tab, origin)
  PROVE  [Promised!Next]_(Promised!vars) /\ SendsTheList
<1>1. UNCHANGED <<running, port, pushed>> /\ running
  BY DEF GetMediaListUnknown, ExecuteCommand, ExecuteSucceeds, ExecuteFails, bridge
<1>2. [Promised!Next]_(Promised!vars) /\ (notifyTimer => notifyTimer')
  <2>1. CASE ExecuteFails(c)
    BY <1>1, <2>1, RemoveTabReports DEF ExecuteFails
  <2>2. CASE ~ExecuteFails(c)
    BY <1>1, <2>2 DEF GetMediaListUnknown, ExecuteCommand, ExecuteSucceeds, store,
                      Promised!vars
  <2> QED BY <2>1, <2>2
<1>3. \A d \in Cmds : reply'[d] = "list" => reply[d] = "list"
  <2>1. CASE GetMediaListUnknown(c)
    BY <2>1 DEF GetMediaListUnknown
  <2>2. CASE ExecuteSucceeds(c)
    BY <2>2, AnswerType DEF ExecuteSucceeds
  <2>3. CASE ExecuteFails(c)
    BY <2>3, AnswerType DEF ExecuteFails
  <2>4. ASSUME NEW tab, NEW origin, ExecuteCommand(c, tab, origin)
        PROVE  \A d \in Cmds : reply'[d] = "list" => reply[d] = "list"
    BY <2>4 DEF ExecuteCommand, Started, TypeOK
  <2> QED BY <2>1, <2>2, <2>3, <2>4
<1>4. SentList' = SentList
  BY <1>1 DEF SentList
<1> QED BY <1>2, <1>3, <1>4, NothingSent

(* The port is opened and closed, the worker starts and stops. *)
LEMMA PortRefines ==
  ASSUME TypeOK,
         \/ \E opened \in BOOLEAN : Connect(opened) \/ Start(opened)
         \/ Disconnect \/ PortLost \/ Stop
  PROVE  Promised!Next /\ SendsTheList
<1>1. reply' = reply /\ SentList' = {}
  BY DEF Connect, Start, Disconnect, PortLost, Stop, OpenPort, ClosePort, commands, SentList
<1>2. Promised!Next /\ (notifyTimer /\ ~notifyTimer' => ~running')
  <2>1. ASSUME NEW opened \in BOOLEAN, Connect(opened)
        PROVE  Promised!Connect(opened)
    BY <2>1 DEF Connect, OpenPort, store, Promised!Connect, Promised!OpenPort
  <2>2. ASSUME NEW opened \in BOOLEAN, Start(opened)
        PROVE  Promised!Starts(opened)
    BY <2>2 DEF Start, OpenPort, store, Promised!Starts, Promised!OpenPort
  <2>3. CASE Disconnect \/ PortLost
    <3>1. Promised!PortLost
      BY <2>3 DEF Disconnect, PortLost, ClosePort, store, Promised!PortLost
    <3> QED BY <3>1 DEF Promised!Next, Promised!PortLost
  <2>4. CASE Stop
    <3>1. Promised!Stops /\ ~running'
      BY <2>4 DEF Stop, Promised!Stops
    <3> QED BY <3>1 DEF Promised!Next
  <2> QED BY <2>1, <2>2, <2>3, <2>4
      DEF Promised!Next, Promised!Connect, Promised!Starts, Promised!OpenPort
<1> QED BY <1>1, <1>2, NothingSent

(* Every step of the hub is a step of ListHub or not seen by it. *)
LEMMA StepRefinesListHub ==
  ASSUME TypeOK, TypeOK', [Next]_vars
  PROVE  [Promised!Next]_(Promised!vars) /\ [SendsTheList]_vars
<1>1. ASSUME \/ \E t \in Tabs : SetFocusedTab(t)
             \/ GetState \/ PopupCloses \/ UNCHANGED vars
      PROVE  [Promised!Next]_(Promised!vars) /\ [SendsTheList]_vars
  <2>1. UNCHANGED <<running, byTab, notifyTimer, port, pushed, reply>>
    BY <1>1 DEF SetFocusedTab, GetState, PopupCloses, vars, store, bridge, commands
  <2> QED BY <2>1, HiddenStep
<1> QED BY <1>1, ReportRefines, SendingRefines, CommandRefines, PortRefines DEF Next

(* To the list of media, the hub with its tabs, commands, timers and ports *)
(* is a ListHub, and what it sends is the list it has (store.ts,           *)
(* router.ts, bridge.ts).                                                  *)
THEOREM ImplementsListHub == Spec => StepsOfListHub
<1>1. Init => Promised!Init
  BY DEF Init, Promised!Init
<1>2. TypeOK /\ TypeOK' /\ [Next]_vars
        => [Promised!Next]_(Promised!vars) /\ [SendsTheList]_vars
  BY StepRefinesListHub
<1> QED BY <1>1, <1>2, TypeCorrect, PTL DEF Spec, StepsOfListHub
=============================================================================
