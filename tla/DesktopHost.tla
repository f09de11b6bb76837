----------------------------- MODULE DesktopHost -----------------------------
(***************************************************************************)
(* The media side of the desktop program HxMonitor: the pipe server        *)
(* (localserverhost.cpp) and the part of the main window that shows the    *)
(* media list and sends commands (widget.cpp).                             *)
(*                                                                         *)
(* Qt delivers signals one at a time, so each slot is one action; between  *)
(* two slots the proxies may connect, write and hang up.  A browser with   *)
(* its proxy is modelled by what crosses the pipe: any list its hub can    *)
(* hold, at any time, and the commands it receives, in order.              *)
(***************************************************************************)
EXTENDS Naturals, Sequences, FiniteSets

CONSTANTS Browsers,    \* browsers, each with one proxy
          TabsOf,      \* TabsOf[b]: the ids of the tabs of browser b, positive
          MaxCmds,     \* commands sent by the desktop
          MaxPending   \* lists on their way from one browser

NoTab == 0             \* activeTabId -1 of the window, null of the extension

AllTabs == UNION {TabsOf[b] : b \in Browsers}

ASSUME BrowsersAssumption == IsFiniteSet(Browsers)
ASSUME TabsOfAssumption == AllTabs \subseteq Nat \ {NoTab}
ASSUME LimitsAssumption == MaxCmds \in Nat /\ MaxPending \in Nat

VARIABLES
  listening,    \* did m_server start?
  clients,      \* m_clients
  sock,         \* sock[b]: "none", "pending", "open" or "hungup" (by the proxy)
  inbox,        \* inbox[b]: lists written by b's proxy and not read
  outbox,       \* outbox[b]: commands written to b's proxy and not executed
  activeTab,    \* m_activeTabId
  tabs,         \* m_mediaTabsRaw: the tabs of the last list
  items,        \* m_mediaItems: the tabs of the items, and which are highlighted
  owner,        \* history: {} or {b}, the browser that sent that list
  status,       \* m_nmStatusTone and the client count of m_nmStatusText
  nextId,       \* m_nextId
  startup,      \* is the 500 ms timer of the constructor running?
  asked,        \* history: {} or the page of the item that command i was clicked on
  acted         \* history: acted[i], the pages command i was passed to

shown == <<activeTab, tabs, items, owner>>
server == <<listening, clients, sock>>
history == <<asked, acted>>
vars == <<server, shown, status, nextId, startup, inbox, outbox, history>>

Ids == 1 .. MaxCmds

(* A page is a tab of a browser; the same id may be one of two browsers.   *)
Pages == {p \in Browsers \X AllTabs : p[2] \in TabsOf[p[1]]}

Shared(t) == \E a, b \in Browsers : a # b /\ t \in TabsOf[a] \cap TabsOf[b]

(* The lists a hub can hold: the active tab is one of the tabs. *)
Lists(b) == {l \in [active : TabsOf[b] \cup {NoTab}, tabs : SUBSET TabsOf[b]] :
               IF l.tabs = {} THEN l.active = NoTab ELSE l.active \in l.tabs}

Command == [id : Ids, name : {"GetMediaList", "control"}, tab : AllTabs \cup {NoTab}]

(* updateMediaItems: one item for each tab, the active one highlighted. *)
ItemsFor(ts, active) == [t \in ts |-> t = active]

(* updateNmStatus. *)
StatusFor(cs) == [tone |-> IF cs # {} THEN "success"
                           ELSE IF listening THEN "warning" ELSE "danger",
                  count |-> Cardinality(cs)]

-----------------------------------------------------------------------------
(* The pipe server. *)

ProxyConnects(b) ==
  /\ listening /\ sock[b] = "none"
  /\ sock' = [sock EXCEPT ![b] = "pending"]
  /\ UNCHANGED <<listening, clients, shown, status, nextId, startup, inbox, outbox, history>>

OnNewConnection(b) ==
  /\ sock[b] = "pending"
  /\ sock' = [sock EXCEPT ![b] = "open"]
  /\ clients' = clients \cup {b}
  /\ status' = StatusFor(clients')
  /\ UNCHANGED <<listening, shown, nextId, startup, inbox, outbox, history>>

(* The other end is closed; commands on their way are lost with it. *)
ProxyHangsUp(b) ==
  /\ sock[b] = "open"
  /\ sock' = [sock EXCEPT ![b] = "hungup"]
  /\ outbox' = [outbox EXCEPT ![b] = <<>>]
  /\ UNCHANGED <<listening, clients, shown, status, nextId, startup, inbox, history>>

(* Mutant: the status text is not refreshed. *)
OnDisconnectedSilently(b) ==
  /\ sock[b] = "hungup" /\ inbox[b] = <<>>
  /\ sock' = [sock EXCEPT ![b] = "none"]
  /\ clients' = clients \ {b}
  /\ UNCHANGED <<listening, shown, status, nextId, startup, inbox, outbox, history>>

(* What was written before the hang-up has been read.  The media list      *)
(* stays as it is.                                                         *)
OnDisconnected(b) ==
  /\ sock[b] = "hungup" /\ inbox[b] = <<>>
  /\ sock' = [sock EXCEPT ![b] = "none"]
  /\ clients' = clients \ {b}
  /\ status' = StatusFor(clients')
  /\ UNCHANGED <<listening, shown, nextId, startup, inbox, outbox, history>>

(* Mutants: the items are rebuilt only when the set of tabs, or only when  *)
(* the active tab, is a new one.                                           *)
ShowNewTabs(l) ==
  /\ activeTab' = l.active
  /\ tabs' = l.tabs
  /\ items' = IF l.tabs = tabs THEN items ELSE ItemsFor(tabs', activeTab')

ShowNewActive(l) ==
  /\ activeTab' = l.active
  /\ tabs' = l.tabs
  /\ items' = IF l.active = activeTab THEN items ELSE ItemsFor(tabs', activeTab')

(* onNativeMessage: the list replaces what was shown, whoever sent it. *)
Show(l) ==
  /\ activeTab' = l.active
  /\ tabs' = l.tabs
  /\ items' = ItemsFor(tabs', activeTab')

(* onReadyRead reads every complete line; the last list stays. *)
OnReadyRead(b) ==
  /\ sock[b] \in {"open", "hungup"} /\ inbox[b] # <<>>
  /\ Show(inbox[b][Len(inbox[b])])
  /\ owner' = {b}
  /\ inbox' = [inbox EXCEPT ![b] = <<>>]
  /\ status' = StatusFor(clients)
  /\ UNCHANGED <<server, nextId, startup, outbox, history>>

-----------------------------------------------------------------------------
(* Commands. *)

(* Mutant: only the first client gets the command. *)
BroadcastToFirst(c) ==
  outbox' = [b \in Browsers |-> IF b \in clients /\ sock[b] = "open"
                                   /\ b = CHOOSE first \in clients : TRUE
                                THEN Append(outbox[b], c) ELSE outbox[b]]

(* broadcastMessage: to every client whose socket is still connected. *)
Broadcast(c) ==
  outbox' = [b \in Browsers |-> IF b \in clients /\ sock[b] = "open"
                                THEN Append(outbox[b], c) ELSE outbox[b]]

(* sendIpcCommand and sendCommand: the id is used up and the status        *)
(* refreshed even if nobody listens.                                       *)
SendCommand(name, tab, clicked) ==
  /\ nextId <= MaxCmds
  /\ nextId' = nextId + 1
  /\ Broadcast([id |-> nextId, name |-> name, tab |-> tab])
  /\ asked' = [asked EXCEPT ![nextId] = clicked]
  /\ status' = StatusFor(clients)
  /\ UNCHANGED <<server, shown, inbox, acted>>

(* The refresh buttons, and the timer of the constructor. *)
RefreshMediaList == SendCommand("GetMediaList", NoTab, {}) /\ UNCHANGED startup

StartupTimerFires ==
  /\ startup
  /\ startup' = FALSE
  /\ SendCommand("GetMediaList", NoTab, {})

(* Mutant: the active tab comes first. *)
ResolveToActive(requested) == IF activeTab # NoTab THEN activeTab ELSE requested

(* resolveTabId: the tab of the clicked item, else the active tab. *)
ResolveTabId(requested) == IF requested # NoTab THEN requested ELSE activeTab

(* The media buttons, with the tab of an item or with none.  The tab is    *)
(* all that is sent of the page.                                           *)
Control(requested) ==
  /\ requested \in DOMAIN items \cup {NoTab}
  /\ SendCommand("control", ResolveTabId(requested),
                 IF requested # NoTab THEN owner \X {requested} ELSE {})
  /\ UNCHANGED startup

-----------------------------------------------------------------------------
(* The browsers. *)

CanWrite(b) == sock[b] \in {"pending", "open"} /\ Len(inbox[b]) < MaxPending

(* evt/MediaList. *)
HubPushes(b) ==
  /\ CanWrite(b)
  /\ \E l \in Lists(b) : inbox' = [inbox EXCEPT ![b] = Append(@, l)]
  /\ UNCHANGED <<server, shown, status, nextId, startup, outbox, history>>

(* The tab executeCommand of the extension sends a command to. *)
TargetIn(c, active) == IF c.tab # NoTab THEN c.tab ELSE active

(* GetMediaList is answered with the list.  Any other command reaches a    *)
(* page if its target is a tab of this browser, whichever browser's tab was *)
(* meant; its answer shows nothing.                                        *)
HubExecutes(b) ==
  /\ outbox[b] # <<>>
  /\ LET c == Head(outbox[b]) IN
       \E l \in Lists(b) :
         IF c.name = "GetMediaList"
         THEN /\ CanWrite(b)
              /\ inbox' = [inbox EXCEPT ![b] = Append(@, l)]
              /\ UNCHANGED acted
         ELSE /\ acted' = [acted EXCEPT ![c.id] =
                              @ \cup ({b} \X (TabsOf[b] \cap {TargetIn(c, l.active)}))]
              /\ UNCHANGED inbox
  /\ outbox' = [outbox EXCEPT ![b] = Tail(@)]
  /\ UNCHANGED <<server, shown, status, nextId, startup, asked>>

-----------------------------------------------------------------------------
(* The constructor of the window: the server listens or fails to. *)
Init ==
  /\ listening \in BOOLEAN
  /\ clients = {}
  /\ sock = [b \in Browsers |-> "none"]
  /\ inbox = [b \in Browsers |-> <<>>]
  /\ outbox = [b \in Browsers |-> <<>>]
  /\ activeTab = NoTab /\ tabs = {} /\ items = ItemsFor({}, NoTab) /\ owner = {}
  /\ status = StatusFor({})
  /\ nextId = 1
  /\ startup = TRUE
  /\ asked = [i \in Ids |-> {}]
  /\ acted = [i \in Ids |-> {}]

Slot(b) == OnNewConnection(b) \/ OnReadyRead(b) \/ OnDisconnected(b)

Next ==
  \/ \E b \in Browsers : \/ ProxyConnects(b) \/ ProxyHangsUp(b) \/ Slot(b)
                         \/ HubPushes(b) \/ HubExecutes(b)
  \/ RefreshMediaList \/ StartupTimerFires
  \/ \E requested \in AllTabs \cup {NoTab} : Control(requested)

(* The event loop of Qt delivers every signal, and the proxies and hubs    *)
(* handle what they receive.                                               *)
Fairness == \A b \in Browsers : WF_vars(Slot(b)) /\ WF_vars(HubExecutes(b))

Spec == Init /\ [][Next]_vars /\ Fairness

-----------------------------------------------------------------------------
(* Properties. *)

(* Every variable holds values of its kind. *)
TypeOK ==
  /\ listening \in BOOLEAN
  /\ clients \subseteq Browsers
  /\ sock \in [Browsers -> {"none", "pending", "open", "hungup"}]
  /\ DOMAIN inbox = Browsers
  /\ \A b \in Browsers : inbox[b] \in Seq(Lists(b)) /\ Len(inbox[b]) <= MaxPending
  /\ outbox \in [Browsers -> Seq(Command)]
  /\ activeTab \in AllTabs \cup {NoTab}
  /\ tabs \subseteq AllTabs
  /\ items \in [tabs -> BOOLEAN] /\ owner \subseteq Browsers
  /\ status \in [tone : {"success", "warning", "danger"}, count : Nat]
  /\ nextId \in 1 .. MaxCmds + 1
  /\ startup \in BOOLEAN
  /\ asked \in [Ids -> SUBSET (Browsers \X AllTabs)]
  /\ acted \in [Ids -> SUBSET Pages]

(* The status text never disagrees with the client list, and a client is   *)
(* a proxy that connected and whose end was not yet handled: no dead       *)
(* client is counted, none forgotten (localserverhost.cpp slots,           *)
(* widget.cpp updateNmStatus).                                             *)
StatusTruthful ==
  /\ status = StatusFor(clients)
  /\ clients = {b \in Browsers : sock[b] \in {"open", "hungup"}}

(* The window always shows one list as its browser sent it: the highlight  *)
(* is on the active tab of the same list the items come from, and some     *)
(* item has it unless there is none (widget.cpp onNativeMessage,           *)
(* updateMediaItems).                                                      *)
ShownIsOneList ==
  /\ items = ItemsFor(tabs, activeTab)
  /\ \/ tabs = {} /\ activeTab = NoTab /\ owner = {}
     \/ \E b \in Browsers : owner = {b} /\ [active |-> activeTab, tabs |-> tabs] \in Lists(b)

(* A client gets every command sent while it is connected, once and in the *)
(* order of the ids: what it has not executed yet is a run of ids that     *)
(* ends with the last one given out (sendCommand, broadcastMessage).       *)
CommandsInOrder ==
  \A b \in Browsers : \A i \in DOMAIN outbox[b] :
    outbox[b][i].id + Len(outbox[b]) = nextId - 1 + i

(* A command clicked on an item is passed to the page of that item and to  *)
(* no other, whatever list has replaced the one it was clicked in, as long *)
(* as no other browser has a tab with the same id (widget.cpp              *)
(* resolveTabId, router.ts executeCommand).                                *)
UnsharedPageOnly ==
  \A i \in Ids :
    asked[i] # {} /\ (\A page \in asked[i] : ~Shared(page[2])) => acted[i] \subseteq asked[i]

(* What the documents say of commands that go to every browser: a hub does *)
(* not execute a command whose tab is not its own ("05-", 5.2), and the    *)
(* broadcast makes no conflict (protocol.md, 2).  The code does not keep   *)
(* it: of two tabs with the same id, in two browsers, a click on one is    *)
(* passed to both, since router.ts asks nobody whose tab it is.            *)
ClickedPageOnly == \A i \in Ids : asked[i] # {} => acted[i] \subseteq asked[i]
=============================================================================
