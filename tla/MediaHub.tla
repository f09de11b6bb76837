------------------------------ MODULE MediaHub ------------------------------
(***************************************************************************)
(* The hub of the browser extension: the service worker (SW) that keeps    *)
(* the media state of every tab (sw/hub/store.ts), routes the messages of  *)
(* content scripts, popup and desktop (sw/hub/router.ts, sw/index.ts) and  *)
(* owns the native messaging port (sw/desktop/bridge.ts).                  *)
(*                                                                         *)
(* The SW is one JavaScript thread, so an event handler is one action; the *)
(* points where a handler gives the thread up are actions of their own:    *)
(* the two timers and the settling of chrome.tabs.sendMessage.  The SW may *)
(* be stopped by the browser at any time and loses everything.             *)
(*                                                                         *)
(* The popup (ui/App.vue) is the view of the state it was last sent; its   *)
(* buttons are messages to the SW.  Messages of the SW reach it in order.  *)
(*                                                                         *)
(* Not kept: titles, artwork and positions of the media, the error text of *)
(* the connection.                                                         *)
(***************************************************************************)
EXTENDS Naturals

CONSTANTS Tabs,       \* ids of browser tabs, positive: 0 is "no tab" in JavaScript's if
          Stamps,     \* values of lastActiveAt (Date.now of the reporting page)
          Cmds        \* commands of the desktop and the popup, each issued at most once

NoTab == 0            \* null or undefined: falsy where the code tests a tab id

ASSUME TabsAssumption == Tabs \subseteq Nat \ {NoTab}
ASSUME StampsAssumption == Stamps \subseteq Nat

VARIABLES
  running,       \* is the SW alive?
  byTab,         \* state.media.byTabId, a function on the tabs known to have media
  activeTab,     \* state.media.activeTabId
  focusedTab,    \* state.ui.lastFocusedTabId
  connected,     \* state.connection.connected
  port,          \* bridge: port # null
  notifyTimer,   \* _desktopNotifyTimer # null
  phase,         \* phase[c]: what has become of command c
  target,        \* target[c]: targetTabId of the executeCommand call for c
  reply,         \* reply[c]: the res sent for c, "unwanted" if c has no id
  pushed,        \* {} or {s}: the last snapshot sent on the current port
  popup          \* {} or {v}: the state the open popup was last sent

store == <<byTab, activeTab, focusedTab>>
bridge == <<connected, port>>
commands == <<phase, target, reply>>
vars == <<running, store, bridge, notifyTimer, commands, pushed, popup>>

Entry == [playing : BOOLEAN, lastActiveAt : Stamps]
MediaMaps == UNION {[D -> Entry] : D \in SUBSET Tabs}
Snapshots == [active : Tabs \cup {NoTab}, tabs : MediaMaps]
Views == [connected : BOOLEAN, active : Tabs \cup {NoTab}, tabs : MediaMaps]
NoMedia == [t \in {} |-> NoTab]

Phases == {"unsent", "executing", "querying", "settled", "lost"}
Replies == {"none", "unwanted", "ok", "failed", "list"}

-----------------------------------------------------------------------------
(* The choice of the active tab: recomputeActiveTab. *)

(* Mutant: the most recent tab first, playing or not. *)
BeforeByStamp(m, t, u) ==
  \/ m[t].lastActiveAt > m[u].lastActiveAt
  \/ m[t].lastActiveAt = m[u].lastActiveAt /\ t < u

(* The order of the sort: playing first, then the more recent; the sort is *)
(* stable and Object.entries lists integer keys in increasing order, so a  *)
(* tie goes to the smaller tab id.                                         *)
Before(m, t, u) ==
  \/ m[t].playing /\ ~m[u].playing
  \/ /\ m[t].playing = m[u].playing
     /\ \/ m[t].lastActiveAt > m[u].lastActiveAt
        \/ m[t].lastActiveAt = m[u].lastActiveAt /\ t < u

(* The head of the sorted list: no other tab comes before it. *)
Heads(m) == {t \in DOMAIN m : \A u \in DOMAIN m \ {t} : Before(m, t, u)}

(* A set that holds the one possible result. *)
ActiveTabs(m, focus) ==
  IF focus \in DOMAIN m THEN {focus}
  ELSE IF DOMAIN m = {} THEN {NoTab}
  ELSE Heads(m)

RecomputeActiveTab == activeTab' \in ActiveTabs(byTab', focusedTab')

-----------------------------------------------------------------------------
(* Telling the popup and the desktop. *)

Snapshot == [active |-> activeTab, tabs |-> byTab]

(* notifyUI: the popup, if there is one, is sent the whole state. *)
NotifyUI(flag, active, tabs) ==
  popup' = IF popup = {} THEN {}
           ELSE {[connected |-> flag, active |-> active, tabs |-> tabs]}

(* Mutant: a change of the list schedules nothing. *)
NotifyNobody == UNCHANGED notifyTimer

(* notifyDesktop: nothing while disconnected, else the 100 ms timer runs. *)
NotifyDesktop == notifyTimer' = (notifyTimer \/ port)

(* bridge.send of a message that carries the media list. *)
SendSnapshot == pushed' = IF port THEN {Snapshot} ELSE pushed

(* Mutant: without a port the command is not brought to an end. *)
AnswerOnlineOnly(c, what) ==
  port /\ reply' = [reply EXCEPT ![c] = IF @ = "none" THEN what ELSE @]

(* The res for command c; the popup wants none, and without a port it is   *)
(* dropped.                                                                *)
Answer(c, what) ==
  reply' = [reply EXCEPT ![c] = IF port /\ @ = "none" THEN what ELSE @]

-----------------------------------------------------------------------------
(* The store's operations on byTab.  They leave the rest of the state to   *)
(* their callers.                                                          *)

WithTab(m, t, e) == [u \in DOMAIN m \cup {t} |-> IF u = t THEN e ELSE m[u]]

WithoutTab(m, t) == [u \in DOMAIN m \ {t} |-> m[u]]

(* Mutant: every report brings its own stamp. *)
OwnStamp(t, playing, stamp, interaction) == stamp

(* lastActiveAt of the new entry: a report that is no interaction and does *)
(* not flip playing keeps the old one.                                     *)
KeptStamp(t, playing, stamp, interaction) ==
  IF t \in DOMAIN byTab /\ ~interaction /\ byTab[t].playing = playing
  THEN byTab[t].lastActiveAt ELSE stamp

RemoveTab(t) ==
  IF t \in DOMAIN byTab
  THEN /\ byTab' = WithoutTab(byTab, t)
       /\ UNCHANGED focusedTab
       /\ RecomputeActiveTab
       /\ NotifyUI(connected, activeTab', byTab')
       /\ NotifyDesktop
  ELSE UNCHANGED <<store, notifyTimer, popup>>

-----------------------------------------------------------------------------
(* Events from the browser and the content scripts. *)

(* stateUpdate with hasMedia from a page of tab t. *)
UpdateMediaState(t, playing, stamp, interaction) ==
  /\ running
  /\ byTab' = WithTab(byTab, t,
                      [playing |-> playing,
                       lastActiveAt |-> KeptStamp(t, playing, stamp, interaction)])
  /\ UNCHANGED focusedTab
  /\ RecomputeActiveTab
  /\ NotifyUI(connected, activeTab', byTab')
  /\ NotifyDesktop
  /\ UNCHANGED <<running, bridge, commands, pushed>>

(* stateUpdate without hasMedia, or tabs.onRemoved. *)
MediaGone(t) ==
  /\ running
  /\ RemoveTab(t)
  /\ UNCHANGED <<running, bridge, commands, pushed>>

(* tabs.onActivated: setFocusedTab tells the popup, not the desktop. *)
SetFocusedTab(t) ==
  /\ running
  /\ focusedTab' = t
  /\ UNCHANGED byTab
  /\ RecomputeActiveTab
  /\ NotifyUI(connected, activeTab', byTab)
  /\ UNCHANGED <<running, bridge, notifyTimer, commands, pushed>>

(* The 100 ms are over: the current state is sent, if there is a port. *)
NotifyTimerFires ==
  /\ running /\ notifyTimer
  /\ notifyTimer' = FALSE
  /\ SendSnapshot
  /\ UNCHANGED <<running, store, bridge, commands, popup>>

-----------------------------------------------------------------------------
(* Commands. *)

(* GetMediaList with media known: answered at once. *)
GetMediaListKnown(c) ==
  /\ running /\ port /\ phase[c] = "unsent"
  /\ DOMAIN byTab # {}
  /\ phase' = [phase EXCEPT ![c] = "settled"]
  /\ Answer(c, "list")
  /\ SendSnapshot
  /\ UNCHANGED <<running, store, bridge, notifyTimer, target, popup>>

(* GetMediaList with no media known: every tab is asked for its state and  *)
(* the answer waits for 600 ms.                                            *)
GetMediaListUnknown(c) ==
  /\ running /\ port /\ phase[c] = "unsent"
  /\ DOMAIN byTab = {}
  /\ phase' = [phase EXCEPT ![c] = "querying"]
  /\ UNCHANGED <<running, store, bridge, notifyTimer, target, reply, pushed, popup>>

(* The 600 ms are over: whatever is known now is the answer, and an evt    *)
(* follows.                                                                *)
QueryTimerFires(c) ==
  /\ running /\ phase[c] = "querying"
  /\ phase' = [phase EXCEPT ![c] = "settled"]
  /\ Answer(c, "list")
  /\ SendSnapshot
  /\ NotifyDesktop
  /\ UNCHANGED <<running, store, bridge, target, popup>>

(* What becomes of the reply when a command starts. *)
Started(c, origin) ==
  [reply EXCEPT ![c] = IF origin = "popup" THEN "unwanted"
                       ELSE IF target'[c] = NoTab THEN "failed" ELSE @]

(* Mutant: the message is sent even if there is no tab to send it to. *)
ExecuteUnchecked(c, tab, origin) ==
  /\ running /\ (port \/ origin = "popup") /\ phase[c] = "unsent"
  /\ target' = [target EXCEPT ![c] = IF tab # NoTab THEN tab ELSE activeTab]
  /\ phase' = [phase EXCEPT ![c] = "executing"]
  /\ reply' = Started(c, origin)
  /\ UNCHANGED <<running, store, bridge, notifyTimer, pushed, popup>>

(* Any other command, from the desktop or the popup: executeCommand up to  *)
(* its await.  Without a tab id it goes to the active tab.                 *)
ExecuteCommand(c, tab, origin) ==
  /\ running /\ (port \/ origin = "popup") /\ phase[c] = "unsent"
  /\ target' = [target EXCEPT ![c] = IF tab # NoTab THEN tab ELSE activeTab]
  /\ phase' = [phase EXCEPT ![c] = IF target'[c] = NoTab THEN "settled" ELSE "executing"]
  /\ reply' = Started(c, origin)
  /\ UNCHANGED <<running, store, bridge, notifyTimer, pushed, popup>>

(* sendMessage resolved: a content script took the command. *)
ExecuteSucceeds(c) ==
  /\ running /\ phase[c] = "executing"
  /\ phase' = [phase EXCEPT ![c] = "settled"]
  /\ Answer(c, "ok")
  /\ UNCHANGED <<running, store, bridge, notifyTimer, target, pushed, popup>>

(* Mutant: the dead tab is not cleaned up. *)
ExecuteFailsOnly(c) ==
  /\ running /\ phase[c] = "executing"
  /\ phase' = [phase EXCEPT ![c] = "settled"]
  /\ Answer(c, "failed")
  /\ UNCHANGED <<running, store, bridge, notifyTimer, target, pushed, popup>>

(* sendMessage rejected: nobody listens in the tab, which is forgotten -   *)
(* whatever it reported since the command was sent.                        *)
ExecuteFails(c) ==
  /\ running /\ phase[c] = "executing"
  /\ RemoveTab(target[c])
  /\ phase' = [phase EXCEPT ![c] = "settled"]
  /\ Answer(c, "failed")
  /\ UNCHANGED <<running, bridge, target, pushed>>

-----------------------------------------------------------------------------
(* The connection to the desktop host. *)

(* Mutant: the new port is not told the list it missed. *)
OpenPortQuietly(opened) ==
  /\ port' = opened
  /\ connected' = opened
  /\ pushed' = {}
  /\ NotifyUI(opened, activeTab, byTab)
  /\ UNCHANGED notifyTimer

(* connect(): an open port is closed first; a new port is told the current *)
(* list (setConnectionState(true)); connectNative may throw.               *)
OpenPort(opened) ==
  /\ port' = opened
  /\ connected' = opened
  /\ notifyTimer' = (notifyTimer \/ opened)
  /\ pushed' = {}
  /\ NotifyUI(opened, activeTab, byTab)

(* Mutant: onDisconnect forgets setConnectionState(false). *)
ClosePortSilently ==
  /\ port' = FALSE
  /\ pushed' = {}
  /\ UNCHANGED <<connected, notifyTimer, popup>>

(* disconnect() and onDisconnect. *)
ClosePort ==
  /\ port' = FALSE
  /\ connected' = FALSE
  /\ pushed' = {}
  /\ NotifyUI(FALSE, activeTab, byTab)
  /\ UNCHANGED notifyTimer

(* connectNative message of the popup.  Retry sends it when the channel of *)
(* its disconnectNative is closed: at any time, answered it never is.      *)
Connect(opened) ==
  /\ running
  /\ OpenPort(opened)
  /\ UNCHANGED <<running, store, commands>>

(* disconnectNative message of the popup. *)
Disconnect ==
  /\ running /\ port
  /\ ClosePort
  /\ UNCHANGED <<running, store, commands>>

(* port.onDisconnect: the proxy is gone or could not be started. *)
PortLost ==
  /\ running /\ port
  /\ ClosePort
  /\ UNCHANGED <<running, store, commands>>

-----------------------------------------------------------------------------
(* The life of the service worker. *)

(* Module initialisation, down to the connect() at the end of index.ts. *)
Start(opened) ==
  /\ ~running
  /\ running' = TRUE
  /\ OpenPort(opened)
  /\ UNCHANGED <<store, commands>>

(* The browser stops the SW: all state is lost, the port closes with it    *)
(* and nobody waits for the commands any more.                             *)
Stop ==
  /\ running
  /\ running' = FALSE
  /\ byTab' = NoMedia /\ activeTab' = NoTab /\ focusedTab' = NoTab
  /\ port' = FALSE /\ connected' = FALSE
  /\ notifyTimer' = FALSE
  /\ pushed' = {}
  /\ phase' = [c \in Cmds |-> IF phase[c] \in {"executing", "querying"}
                              THEN "lost" ELSE phase[c]]
  /\ UNCHANGED <<target, reply, popup>>

-----------------------------------------------------------------------------
(* The popup. *)

(* onMounted: the SW, woken if need be, answers getState.  With no media   *)
(* known it also asks every page, which reports as after GetMediaList.     *)
GetState ==
  /\ running /\ popup = {}
  /\ popup' = {[connected |-> connected, active |-> activeTab, tabs |-> byTab]}
  /\ UNCHANGED <<running, store, bridge, notifyTimer, commands, pushed>>

PopupCloses ==
  /\ popup # {}
  /\ popup' = {}
  /\ UNCHANGED <<running, store, bridge, notifyTimer, commands, pushed>>

Init ==
  /\ running = FALSE
  /\ byTab = NoMedia /\ activeTab = NoTab /\ focusedTab = NoTab
  /\ port = FALSE /\ connected = FALSE
  /\ notifyTimer = FALSE
  /\ pushed = {}
  /\ popup = {}
  /\ phase = [c \in Cmds |-> "unsent"]
  /\ target = [c \in Cmds |-> NoTab]
  /\ reply = [c \in Cmds |-> "none"]

Report(t) == \E playing, interaction \in BOOLEAN, stamp \in Stamps :
               UpdateMediaState(t, playing, stamp, interaction)

Next ==
  \/ \E t \in Tabs : Report(t) \/ MediaGone(t) \/ SetFocusedTab(t)
  \/ NotifyTimerFires
  \/ \E c \in Cmds :
       \/ GetMediaListKnown(c) \/ GetMediaListUnknown(c) \/ QueryTimerFires(c)
       \/ \E tab \in Tabs \cup {NoTab}, origin \in {"desktop", "popup"} :
            ExecuteCommand(c, tab, origin)
       \/ ExecuteSucceeds(c) \/ ExecuteFails(c)
  \/ \E opened \in BOOLEAN : Connect(opened) \/ Start(opened)
  \/ Disconnect \/ PortLost \/ Stop
  \/ GetState \/ PopupCloses

(* Timers of a living SW fire and the promise of sendMessage settles, one  *)
(* way or the other.  Users, pages and the desktop owe nothing.            *)
Fairness ==
  /\ WF_vars(NotifyTimerFires)
  /\ \A c \in Cmds : /\ WF_vars(QueryTimerFires(c))
                     /\ WF_vars(ExecuteSucceeds(c) \/ ExecuteFails(c))

Spec == Init /\ [][Next]_vars /\ Fairness

-----------------------------------------------------------------------------
(* Properties. *)

(* Every variable holds a value of its kind; only tabs and commands the    *)
(* hub was told about appear, and no message is on its way to no tab       *)
(* (router.ts executeCommand, if (!targetTabId)).                          *)
TypeOK ==
  /\ running \in BOOLEAN
  /\ byTab \in MediaMaps
  /\ activeTab \in Tabs \cup {NoTab}
  /\ focusedTab \in Tabs \cup {NoTab}
  /\ connected \in BOOLEAN
  /\ port \in BOOLEAN
  /\ notifyTimer \in BOOLEAN
  /\ phase \in [Cmds -> Phases]
  /\ target \in [Cmds -> Tabs \cup {NoTab}]
  /\ reply \in [Cmds -> Replies]
  /\ pushed \in SUBSET Snapshots
  /\ popup \in SUBSET Views
  /\ \A c \in Cmds : phase[c] = "executing" => target[c] # NoTab

(* The active tab, which every command without a tab id goes to, is never  *)
(* a tab without media: it is the focused tab if that has media, else no   *)
(* playing tab is passed over for a paused one, nor a more recent tab for  *)
(* an older one of the same kind (store.ts, recomputeActiveTab).           *)
ActiveIsBest ==
  /\ activeTab = NoTab <=> DOMAIN byTab = {}
  /\ activeTab # NoTab => activeTab \in DOMAIN byTab
  /\ focusedTab \in DOMAIN byTab => activeTab = focusedTab
  /\ focusedTab \notin DOMAIN byTab =>
       \A u \in DOMAIN byTab :
         /\ byTab[u].playing => byTab[activeTab].playing
         /\ byTab[u].playing = byTab[activeTab].playing
              => byTab[u].lastActiveAt <= byTab[activeTab].lastActiveAt

(* The popup never lags behind a living SW: the last state it was sent has *)
(* the list, the active tab and a connection light that agrees with the    *)
(* port, after every report, change of focus, connect, failed connect,     *)
(* disconnect, loss and restart (store.ts notifyUI, bridge.ts).            *)
PopupIsCurrent ==
  running =>
    \A v \in popup : v = [connected |-> port, active |-> activeTab, tabs |-> byTab]

(* The debounced push never forgets a change of the list: whenever a port  *)
(* is open and no push is scheduled, the last list that went through this  *)
(* port is the current one - across timers that outlive a port, snapshots  *)
(* sent as answers and failed commands (store.ts notifyDesktop).           *)
PushedTabsFresh ==
  port /\ ~notifyTimer => {s.tabs : s \in pushed} = {byTab}

(* The same for the active tab, as the module description of the hub has   *)
(* it (changes of the state are pushed, debounced).                        *)
PushedActiveFresh ==
  port /\ ~notifyTimer => {s.active : s \in pushed} = {activeTab}

(* A page that merely repeats its state every two seconds does not take    *)
(* the active tab over, however recent its stamp (store.ts                 *)
(* updateMediaState).                                                      *)
RepeatKeepsActive ==
  [][\A t \in Tabs, stamp \in Stamps :
       (/\ t \in DOMAIN byTab
        /\ UpdateMediaState(t, byTab[t].playing, stamp, FALSE))
       => activeTab' = activeTab]_vars

(* A command that was answered "failed" leaves no dead tab behind: its     *)
(* target is not in the list, nor is it the active tab (router.ts          *)
(* executeCommand).                                                        *)
FailedTargetForgotten ==
  [][\A c \in Cmds : reply[c] = "none" /\ reply'[c] = "failed"
       => target'[c] \notin DOMAIN byTab' /\ (target'[c] # NoTab => activeTab' # target'[c])]_vars

(* Every command that reached a living SW comes to an end. *)
CommandsSettle ==
  \A c \in Cmds : phase[c] \in {"executing", "querying"}
                    ~> phase[c] \in {"settled", "lost"}

(* All that the rest of the system relies on: to the list, every event     *)
(* that comes in, from pages, tabs, commands, timers and ports, is a step  *)
(* of ListHub.  The list that goes out is the present one, a push or an    *)
(* answer that could go out did, and nothing else is sent (store.ts,       *)
(* router.ts, bridge.ts).                                                  *)
Promised == INSTANCE ListHub
              WITH Lists <- MediaMaps, Empty <- NoMedia, worker <- running,
                   known <- byTab, timer <- notifyTimer

SentList == {s.tabs : s \in pushed}

SendIsDue ==
  \/ port /\ notifyTimer /\ ~notifyTimer' /\ running'
  \/ \E c \in Cmds : reply[c] # "list" /\ reply'[c] = "list"

SendsTheList ==
  /\ SentList' \notin {SentList, {}} => port /\ Promised!Sending /\ SentList' = {byTab'}
  /\ SendIsDue => SentList' = {byTab'}

StepsOfListHub ==
  Promised!Init /\ [][Promised!Next]_(Promised!vars) /\ [][SendsTheList]_vars

WorksAsListHub == StepsOfListHub /\ Promised!Fairness

(* A desktop that stays connected is sent the current list again and again *)
(* and is never sent another one: the hub implements SnapshotPublisher     *)
(* with the list as the value, and ListHub.                                *)
Publisher == INSTANCE SnapshotPublisher
               WITH Values <- MediaMaps, online <- port, value <- byTab,
                    shown <- SentList
PublishesTabs == Publisher!Spec /\ WorksAsListHub
=============================================================================
