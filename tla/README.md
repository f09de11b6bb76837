# HxController in TLA+

This directory holds a TLA+ model of HxController: modules for the parts of the
program that run concurrently or have to agree with each other, TLC
configurations that check them on small instances, and proofs of their main
invariants that TLAPS checks for every instance.

## 1. The system

HxController lets a Windows desktop program, HxMonitor, show and control the
media that play in the tabs of one or more browsers. It also shows the load of
the computer and passes it on to a device on a serial port.

```
page ── content script ─┐                                      ┌─ window (Widget, QML)
page ── content script ─┼─ media hub ── E2C proxy ── pipe ── LocalServerHost
popup ──────────────────┘  (service     (one process            └─ serial port ── device
                            worker)      per port)   CmdMonitor ── Widget
```

| component | source | state | operations | talks to |
|---|---|---|---|---|
| media hub | `media_control_extenion/extension/sw` | `byTabId`, `activeTabId`, `lastFocusedTabId`, connection flag, port, debounce timer, commands under way | reports of pages, tab removed, tab focused, commands, connect, disconnect, both timers, start and stop of the service worker | pages and popup (runtime messages), proxy (native messaging port) |
| E2C proxy | `E2C_Proxy` | channel `chromeMsgs`, `Client.conn`, `pipeConnected`, the buffer of every pipe reader | read stdin, queue or drop, dial, forward, read pipe, write frame, close, exit | browser (stdin, stdout), host (named pipe) |
| desktop media host | `HxMonitor/localserverhost.cpp`, `HxMonitor/widget.cpp` | `m_clients`, `m_nextId`, `m_activeTabId`, `m_mediaTabsRaw`, `m_mediaItems`, the status text | connection comes and goes, lines read, buttons, startup timer | proxies (named pipe) |
| program start and tray | `HxMonitor/main.cpp`, `HxMonitor/widget.cpp` | processes, their rights, who listens on the pipe, whose window is on the screen | probe, ask for rights, create the window, hide it, bring it back, quit | the pipe of another process |
| content script | `extension/content` | observed element, listeners, interval | poll, bind, report, execute | hub, page |
| popup | `extension/ui/App.vue` | copy of the hub's state | opened (`getState`), closed, buttons | hub |
| telemetry and serial port | `HxMonitor/widget.cpp` | lines of the current frame, cards, port list, selected and open port, histories | line read, frame resolved, ports refreshed, connect | CmdMonitor (stdout), device |

Not part of the program's logic: `third_party`, `build` and `dist` directories,
the installation scripts, `MainView.qml` (calls the methods of `Widget`), and
`monitorlabel.cpp` (used by nothing).

What is hard about it:

* *Concurrency.* The hub is one thread, but `executeCommand` awaits, two timers
  run, and the browser stops the worker at will. The proxy has one goroutine per
  connection it ever made, sharing one `Client` and one stdout without a lock.
* *Failure.* Each of the three processes may end and start again on its own. The
  proxy reconnects; the hub does not know; the host keeps what it showed.
* *Ordering.* Lists are snapshots: an old one that overtakes a new one, or a
  change that no snapshot follows, stays on the screen.
* *Fan-out.* The host broadcasts every command to all browsers and shows the
  list of whoever spoke last.

What makes each part correct:

* hub: the active tab is the right one; no change of the list is forgotten by the
  debounced push; commands come to an end and dead tabs are forgotten; a page
  that repeats itself takes nothing over.
* proxy: messages in order and at most once; no connection leaked; lines not
  repeated; frames whole; no panic; ends with its browser; reconnects by itself.
* host: client list and status tell the truth; one list is shown, not a mixture;
  every client gets each command once, in order; a click reaches the page it was
  aimed at and no other, as far as the tab id tells the pages apart.
* start: one process serves the pipe; a start ends with a window, or sends the
  user to one that is in the tray.
* content script: what the hub knows of a tab follows its pages, in spite of
  several frames, late events, restarts of the hub and orphaned scripts; media
  that are gone are forgotten.
* popup: an open one shows the list, the active tab and the connection of the hub.
* the whole way: the window ends up showing what plays, whatever was restarted;
  the newest list is lost where the parts cannot help it and nowhere else.
* telemetry: only whole frames are shown; the curves share a time axis; the port
  list, the selection and the connection agree as far as they must; the device
  gets what the window shows.
* sections of a frame: no line gets lost or into a wrong section; a value said by
  a label is shown as what the label says; window and device read the same in what is written plainly.

## 2. Modules

| module | what it is |
|---|---|
| `MediaHub` | the service worker: `store.ts`, `router.ts`, `bridge.ts`, `index.ts`, and the popup as its observer (`App.vue`) |
| `SnapshotPublisher` | abstract: an observer that is online is only handed the current value, and again when its copy is outdated |
| `MCMediaHub` | instances of `MediaHub`; checks that the order of the sort picks exactly one tab |
| `MediaHubProofs` | theorems about `MediaHub` |
| `E2CProxy` | the proxy process: `proxy.go`, `pipeclient.go`, `nativemsg.go` |
| `E2CProxyProofs` | theorems about `E2CProxy` |
| `DesktopHost` | `localserverhost.cpp` and the media side of `widget.cpp` |
| `MCDesktopHost` | the tabs of two browsers for `DesktopHost` |
| `DesktopHostProofs` | theorems about `DesktopHost` |
| `SingleInstance` | `main.cpp`: probe, rights, window; `widget.cpp`: tray |
| `SingleInstanceProofs` | theorems about `SingleInstance` |
| `ContentScript` | the scripts of one tab: `media.ts`, `control.ts`, `content/index.ts` |
| `MCContentScript` | frames and elements for `ContentScript` |
| `ContentScriptProofs` | theorems about `ContentScript` |
| `Telemetry` | the telemetry and serial side of `widget.cpp` |
| `MCTelemetry` | kinds and ports for `Telemetry` |
| `TelemetryProofs` | theorems about `Telemetry` |
| `Sections` | how `widget.cpp` divides a frame and finds kinds and values in it |
| `MCSections` | the lines of a frame for `Sections` |
| `SectionsProofs` | theorems about `Sections` |
| `ListHub` | abstract: what the hub does to the list of media, with no word about tabs, commands and popups |
| `ListProxy` | abstract: a queue that drops what does not fit, and one link to the host |
| `MediaControl` | composition: page, hub, proxy and window, each reduced to what it does to the list on its way; its hub is `ListHub`, its proxy `ListProxy` |
| `MediaControlProofs` | theorems about `MediaControl` |

Definitions whose comment begins with *Mutant* are wrong variants of the
definition that follows. They are used by nothing; putting one in the place of
the other must break a property, which shows that the property says something.

### MediaHub

One action per event handler of the worker, since JavaScript runs a handler to
its end; `executeCommand` is cut at its `await` into `ExecuteCommand` and
`ExecuteSucceeds`/`ExecuteFails`, and both `setTimeout` callbacks are actions.
`Stop` loses every variable and every pending callback, `Start` runs the module
body down to its `connect()`. A tab's entry keeps what the hub decides on,
`playing` and `lastActiveAt`; titles, artwork and positions are left out. `NoTab
= 0` stands for `null` and `undefined`, which the code tests as false. `pushed`
is the last list sent on the present port, whether as event or as answer.

The popup has no state of its own but the view it was last sent: `popup` is empty
while it is closed, `GetState` is its opening and `NotifyUI` a message of
`notifyUI`, which every handler has to send that changes something of the view.
Its commands are those of the desktop with another origin: they want no `res`. *Retry* is a `disconnectNative` and, when that is answered,
a `connectNative`; the listener never answers the first, so the second comes when
the browser closes the channel, and `Connect` may come at any time.

Two abstract modules say what the rest of the system needs to know of the hub.
`SnapshotPublisher` is the view of the desktop: who is online is handed the
current list. `ListHub` is the view of the list: it is changed by reports, sent by
pushes and answers, and pushed again after every change while there is a port.
`StepsOfListHub` maps `byTab` to its list, `running`, `notifyTimer` and `port` to
the rest, and says besides that what goes out is the present list and that a push
or answer that is due goes out (`SendsTheList`).

`removeTab` is an operator, not an action: it is the tail of three handlers.
`RecomputeActiveTab` is part of every action that calls it. `closeTab` and
`activateTab` ask the browser for something and change nothing in the hub; what
follows is a `MediaGone` or a `SetFocusedTab`.

### E2CProxy

A step is what a goroutine does between two accesses to something shared. The
field `Client.conn` is accessed without a lock, so its test (`CheckConn`) and its
use (`LoadConn`) are two steps, and the use may see the tested value or the
present one, including `nil`. `WriteMessage` writes length and body in two
calls, hence `WriteLength` and `WriteBody`. A connection that ends while the host
writes leaves a piece of a line in the pipe (`Torn`); what is read after it
belongs to the same line (`Join`, which is `bufio.Reader`). Times are not
modelled: a pause of 3 s separates two steps and nothing more.

`ListProxy` is the process seen from outside. Its `link` is that of the connection
the main loop serves (`LinkOf`): "yes" while the host holds it, "broken" from the
end of the host until the main loop notices, "no" while it closes, sleeps and
dials. Its queue is the channel, empty once the process has ended. The interesting
step is `Notice`, the only one that gives a link up without a message, and only a
broken one: a reader of an earlier connection that reads from the present one,
as `proxy_frames` shows, must not bring it down.

### DesktopHost

Qt delivers one signal at a time, so every slot is an action. `sock[b]` is the
state of the connection of browser `b` as the system has it, `clients` what the
host believes. `Show` is the tail of `OnReadyRead`, `SendCommand` that of every
button and of the startup timer. The browsers may send any list a hub can hold
and execute a command as `router.ts` does. Each browser numbers its tabs by itself:
a page is a tab *of a browser* (`Pages`), and two browsers may have tabs of the same
id. Three variables are history. `owner` is the browser whose list is shown, which
the window does not keep; with it `asked` records the page of the item that was
clicked, while the command carries the id alone; `acted` records what pages it was
passed to, of whatever browser. No action decides anything by them.

### SingleInstance

One action per stage of `main`. A process that may start itself again ends
without ever having listened, so the new process takes its place. `Reachable`
is what `WorldAccessOption` gives. Windows lets several servers listen on one
pipe name, and `listen` may fail; the window is then shown without a server.
`overlapped` records whether the user ever started one process while another was
starting; no action reads it. Closing the window hides it (`CloseWindow`), since
the icon in the tray is there as long as the process; `IconActivated` brings it
back and `UserQuits` is the menu of the icon.

### ContentScript

Each frame of a page runs its own script under the same tab id. `frameOf` says
which element is in which frame; it is chosen at the start among the `Layouts` of
the instance and stays. A step is one
task of a frame's event loop: `Check` is the callback of the interval (and the
first `check()`), `OnPlayPause` and `OnTimeUpdate` are the listeners that
`bind()` attached, `OnQueryState` and `OnExecute` the two messages of the hub.
`pending` holds the elements whose play or pause event is queued; the event is
reported for the element the detector has when it is handled, as `getState`
reads `this.element`. The reports of one frame arrive in order, those of
different frames in any. A report is `playing`, `paused` or `gone`; what
`find()` filters out (empty, muted, tiny or short elements) counts as not in the
page. `Navigates` replaces the document of a frame: the old script disappears
without a word. `Reloads` orphans all scripts, whose `chrome.runtime.id` is then
undefined. The hub is reduced to `entry`, what it knows of the tab, which the
handlers of `MediaHub` change in the same way; its loss in `Restarts` is `Stop`
of `MediaHub`.

### Telemetry

CmdMonitor is not in the repository; it is modelled from what `readProcessData`
expects of it, and it may print between frames and die anywhere. A component,
its title with its values, is one line. `readProcessData` is cut into lines,
because a line may come alone; `ResolveData` is the whole of `resolvedata` with
`updatePerformanceModel`, the write to the device and `refreshPorts`. A message
box is `box`: it keeps the user out and lets everything else run.
`size[n]`, and the number in each line, record what the monitor wrote into
frame `n`; no slot reads them. `live` records whether the device that was opened
is still there, which no slot of the program learns.

### Sections

A text is a sequence of tokens, and a token a word that some rule knows or a
number with its unit; a regular expression is then a condition on neighbouring
tokens (`FirstAt`, `Labelled`, `LooksLikeCelsius`). `Nodes` is the loop of
`resolvedata` that divides the lines, `SectionKind` and `Json` what it sends to
the device, `ComponentKind` and `Card` what `updatePerformanceModel` shows, and
`AddCard` the numbers of the curves. `Metrics` has the rows of a card, with the
lines themselves where no value is known; how such a line is divided into label
and value (`splitMetric`), is layout. The loops of the source are recursive
functions (`Divided` over the lines, `Levels` over the cards). A frame is read line by line and resolved in
one step, and nothing else changes the state: what can go wrong here is the data.
`Telemetry` has the timing, and one kind for a section; `DeviceAgreesOnPlain`
says when the two sets of rules give one kind.

### MediaControl

One browser and one of its tabs; a list is what is known of that tab. What hub and
proxy do to their own state is taken from `ListHub` and `ListProxy`, which
`MediaHub` and `E2CProxy` implement; `MediaControl` adds who is told what. Each part is
reduced to the state that the way of a list passes through: `known`, `timer` and
`port` of the hub, `queue` and `link` of the proxy, the `lines` in the pipe and
`shown` of the window. `oldLines` are what the window has not read of proxies that
are gone: `onReadyRead` of the old connection may come after that of the new one,
so `ReadOldLine` and `ReadLine` go in any order. Each of the parts stops at any
time and loses what it kept: `WorkerStops`, `PortLost` (the proxy ends, too),
`HostEnds`. `AnswerAtOnce`, `AskPages` and `AnswerLate` are the two halves of
`GetMediaList`. `missed` records that the newest list was lost or may be
overtaken; no action reads it.

The page is `media`, what there is in the tab, and `element`, whether its script has
found an element. Both are needed because a page says that it has media again and
again, but that they are gone only once, from the script that had the element
(`PageReports`, as `Check` of `ContentScript`). A closed tab is reported by the
browser (`TabCloses`). A page that is left, by a link or by reloading it, says nothing
and its successor has nothing to take back (`PageLeft`): the hub keeps the entry and
answers with it until the worker stops, the tab is closed or media are played in it
again. `left` records that this is so and is read by `RefreshSettles` only.

## 3. What the runs check

| run | instance | shows |
|---|---|---|
| `control` | 2 lists and none, channel of 2, 2 lines in the pipes, a page that is left, closed or comes and goes, any number of restarts of each part (225 000 states) | `TypeOK`, `OnlyLossFallsBehind`, `WindowSettles`, `RefreshSettles` |
| `hub` | 2 tabs, 2 stamps, a command of desktop or popup, a popup that comes and goes, any number of restarts (140 000 states) | `TypeOK`, `ActiveIsBest`, `PopupIsCurrent`, `PushedTabsFresh`, `RepeatKeepsActive`, `FailedTargetForgotten`, `CommandsSettle`; the hub implements `SnapshotPublisher` and `ListHub`, with their fairness (`PublishesTabs`) |
| `proxy` | channel of 2, 3 messages, 1 line, 2 lives of the host (417 000 states) | `TypeOK`, `DeliveredInOrder`, `OneLiveConnection`, `NoLineTwice`, `EOFExits`; the process implements `ListProxy`, with its fairness (`WorksAsListProxy`) |
| `desktop` | 2 browsers with the tabs 1, 2 and 2, 2 commands (821 000 states) | `TypeOK`, `StatusTruthful`, `ShownIsOneList` (with the browser it is of), `CommandsInOrder`, `UnsharedPageOnly` (about ids that one browser has) |
| `start` | 3 processes, any starts (36 000 states) | `TypeOK`, `SerialOneServes` (about runs whose starts do not overlap), `StartShowsAWindow` |
| `content` | 2 elements, in one of 2 frames or in both, 1 report under way per frame (85 000 states) | `TypeOK`, `GoneOnlyWhenLost`, `MediaBecomesKnown`, `ReportsSettle` |
| `telemetry` | 2 kinds and a generic one, 2 ports, 3 frames with 3 components in all, histories of 2 (890 000 states) | `TypeOK`, `ShownIsOneFrame`, `HistoriesAligned`, `SelectedIsListed`, `FedWhatIsShown`, `NothingStaysUnread` |
| `sections` | every frame of up to 4 of 16 lines (140 000 states) | `TypeOK` with the range of the curves, `LinesKeptInPlace`, `ShownAsLabelled`, `DeviceAgreesOnPlain` |

Runs that end in a violation, because the code does not do what a document says:

| run | claim | what happens |
|---|---|---|
| `hub_active_pushed` | changes of the state are pushed (`02-模块职责.md:35`) | `setFocusedTab` changes the active tab and pushes nothing: the desktop goes on showing, and commanding, the old one |
| `proxy_frames` | concurrent reading and writing is safe (`architecture_and_roadmap.md:48`) | after a failed write the old reader survives the reconnection, reads from the new connection and mixes its frames with those of the new reader |
| `proxy_panic` | the same | `Read` tests `conn`, `Close` sets it to `nil`, `Read` calls it |
| `content_forgotten` | a closed or reloaded tab is cleaned up (`06-开发规范.md:69`), media that go are reported (`05-技术实现要点.md:31`) | a page that is left for one without media never says so: the new script has lost nothing; the tab stays in the list, and a command to it is even answered `ok` |

More disagreements with the documents follow from the modules at once and have no
run of their own. `Show` of `DesktopHost` replaces one browser's list by
another's, where `02-模块职责.md:90` speaks of an aggregated list. `executeCommand`
does not ask whose tab a command is for: `HubExecutes` passes it to the tab of that
id in every browser that has one, and without an id to the active tab of each, where
`05-技术实现要点.md:112` says that a hub does not execute a command for a tab that is
not its own and `protocol.md:20` that a broadcast does not clash. `ClickedPageOnly`
states the claim for a click on an item; as an invariant of the instance of `desktop`,
TLC finds it violated as soon as Edge's tab 2 is clicked while Chrome, which has a tab
2 too, is connected. `UnsharedPageOnly` is what the code does guarantee. Two starts that overlap can both pass the probe
(`OneServes` without the condition of `SerialOneServes`), where
`HxMonitor/README.md:13` promises one instance.

And there is what no document denies, and what the conditions of the properties
therefore leave out: without a Refresh the window may go on showing media that are
gone, since a page without media repeats nothing (`WindowSettles` is about media
that are there); with one it gets what the hub lists, which is right, also when there
is nothing, but for a page that was left without a word (`RefreshSettles`; that this
exception is the code's is what `content_forgotten` shows); a label at the end of a
line takes the number that the next line begins with, because the lines are joined
before they are searched (`ShownAsLabelled` leaves such sections out); the device is not told of sections with English titles, which the
window knows (`Plain`); 900 KB/s is drawn as 100 and 1 MB/s as 12
(`NetworkLevel`); a `CommandResult` of `ok` says that the page was reached, not
that it had an element (`ExecuteSucceeds`, `OnExecute`).

That a message in the channel does not wait for ever while a host listens is part of
`WorksAsListProxy`: the fairness of `ListProxy` makes the link be dialled and then
the queue be forwarded, message by message, until the host ends. It is also the
fairness that `MediaControl` assumes of its proxy, as that of `ListHub` is what it
assumes of the push.

### Bounds

*Two tabs* are what the choice of the active tab compares; that the order also
picks one of three is an `ASSUME` of `MCMediaHub`. *Two stamps* tell older from
newer. *One command*, of the desktop or of the popup, meets every other event
between its two halves; the hub keeps nothing of a command that another one reads.
*A channel of two* holds messages that could change places, and drops the third. *Two lives of the host* are one reconnection, which is where two readers
meet. A *line* suffices to see one repeated (`proxy`); `proxy_frames` has two, for one
to be mixed with the other. *Two commands* of
the desktop are enough for one to overtake the other; its two browsers have one tab
id in common and one tab that only Edge has; `MaxPending = 1` keeps at
most one list unread per browser (with two, checked once, nothing changed).
*Three processes* are two that race and one that finds either. *Two frames* of a
page are the one that speaks and the one it contradicts, *two elements* in one
frame the one that is bound and the one that `find()` prefers. *One report* of a
frame under way can be out of date before it arrives, and overtake or be overtaken
by that of the other frame. *Three frames* of CmdMonitor fill a
history of two and push a sample out; *two ports* let another one be selected
than is open; `MaxUnread = 1` makes the monitor wait for the window, which takes
nothing away, because no slot looks at more than the first line. *Two lists*
besides the empty one are an old and a new one; a *channel of two* and *two lines*
hold both, in the wrong order too, and are full with them. *Four lines* of a frame
make two sections with a line each, or one with values out of place; a second
frame starts from nothing, so `sections` has one. The proofs do without these
bounds.

Where `CHECK_DEADLOCK FALSE` is set the system may stop: a proxy exits, a desktop
whose server did not start has nothing to do once the commands of the instance are
used up, the monitor dies, and the frames of `sections` come to an end.

### Fairness

* hub: a timer that was set fires and the promise of `sendMessage` settles, one
  way or the other, as long as the worker lives. Nothing is assumed of pages,
  users, the desktop or the browser.
* proxy: every goroutine that can run does; the browser reads stdout. Nothing is
  assumed of the host.
* host: Qt delivers signals. (`desktop` has safety properties only; that what was
  sent gets shown is a question of the whole way, `control`.)
* the whole way: pages with media repeat themselves, and a script that lost its
  element comes to its next check if the page is not left before (`PageReports` is
  enabled in these two cases only), the timers of a running hub
  fire, the proxy dials, forwards and notices the end of its connection, the window
  reads. All of it is weak fairness: each of these steps stays possible until it is
  taken. Nothing is assumed of whatever starts and ends the parts, of the media and
  of the user: `WindowSettles` and `RefreshSettles` are about behaviours in which
  they are left alone from some time on (`<>[][Quiet]_vars`), and the user of
  `RefreshSettles` presses the button again and again.
* content script: the interval of a frame fires, its messages arrive. The
  fairness of `Check` is strong only because of `MaxMail`: other reports may use
  up the place for its own again and again, which in the program has no limit.
  Nothing is assumed of pages, users and the hub. `ReportsSettle` and
  `ForgottenWhenGone` are about behaviours in which the page is left alone from
  some time on (`<>[][Quiet]_vars`).
* telemetry: Qt calls a slot whose data has come. Nothing is assumed of the
  monitor, the devices and the user, who may leave a box open for ever.
* start: a process runs on and the prompt for rights is answered. A warning may
  stay on the screen for ever.

## 4. What is proved

All theorems hold for arbitrary constants, under the named assumptions of the
modules: tab ids are positive, stamps are natural numbers (`MediaHub`); the
channel has at least one place and the bounds are natural numbers (`E2CProxy`);
the empty list is none of the others, channel and pipes have at least one place
(`MediaControl`); there are finitely many browsers (`DesktopHost`) and processes
(`SingleInstance`); the kinds do not include the generic one,
ports are positive numbers in the order of their names, a history has room for a
sample, and the bounds are natural numbers (`Telemetry`); what the monitor may write
are lines of tokens, and the bounds are natural numbers, that of the memory
positive (`Sections`).

| theorem | says | by induction on |
|---|---|---|
| `MediaHubProofs!TypeCorrect` | `TypeOK` | itself |
| `AlwaysBest` | `ActiveIsBest` | `ActiveIsSorted`: `activeTab` is the result of the sort on the present list. Stronger than `ActiveIsBest`, which does not decide ties and hence not what a repeated report leaves alone |
| `RepeatsKeepActive` | `RepeatKeepsActive` | the same: a repeated report leaves the sorted map as it is |
| `FailedTargetsForgotten` | `FailedTargetForgotten` | the type invariant and `ActiveIsSorted` |
| `PopupAlwaysCurrent` | `PopupIsCurrent` | with `FlagIsPort`: the flag that the popup is told is that of the port |
| `AlwaysFresh` | `PushedTabsFresh` | itself: every change of the list with a port sets the timer |
| `ImplementsPublisher` | every step of the hub is a step of `SnapshotPublisher` or leaves list, port and copy alone | the type invariant |
| `ImplementsListHub` | `StepsOfListHub`: every step of the hub is a step of `ListHub` or hidden from it, and `SendsTheList` | the type invariant |
| `E2CProxyProofs!TypeCorrect` | `TypeOK` | `TypeOK` and `ReadersReady`: a reader about to write has something to write, one about to read has seen a connection |
| `AlwaysInOrder` | `DeliveredInOrder` | `NothingFromTheFuture`: nothing queued or delivered has a number the stdin reader has not reached |
| `AlwaysOneLive` | `OneLiveConnection` | with `OwnReader`: the reader of the served connection reads from that connection and no later one, and it has failed only if the host has hung up; a connection that was never made has no reader that could have failed |
| `NeverTwice` | `NoLineTwice` | `LinesInOnePlace`: a line of the host is in the pipe of one connection, in the buffer of one reader or on stdout, and in one of them only; the lemmas about cutting, joining and the first piece of a buffer say that no step copies it |
| `ImplementsListProxy` | `StepsOfListProxy`: every step of the process is a step of `ListProxy` or hidden from it, what is read is put and what is delivered is the oldest | `TypeOK` and `OneLiveConnection`: without its second part a reader that is done could give up a link that is not broken |
| `MediaControlProofs!TypeCorrect` | `TypeOK` | itself |
| `AlwaysOnlyLoss` | `OnlyLossFallsBehind` | itself: whoever changes the hub's list or opens the port schedules a push, and a push that is not dropped is the newest on the way |
| `PartsKeepPromises` | in the whole, hub and proxy take steps of `ListHub` and `ListProxy` only | the type invariant: a port that is opened anew finds the queue empty and the link down |
| `DesktopHostProofs!TypeCorrect` | `TypeOK` | itself |
| `AlwaysTruthful` | `StatusTruthful` | itself |
| `AlwaysOneList` | `ShownIsOneList` | itself |
| `AlwaysInOrder` | `CommandsInOrder` | with `NothingToNobody`: nothing is on its way to a proxy that is not connected, so a connection starts with an empty run |
| `AlwaysUnsharedPage` | `UnsharedPageOnly` | `IssuedInv` and `ClickedInv`: the item that was clicked is a page of the browser shown, a command on its way carries its tab id, and no command is executed before it is sent; every page it is passed to then has that id (`SameTab`), and a page whose id no other browser has is told by it |
| `SingleInstanceProofs!TypeCorrect` | `TypeOK` | itself |
| `SerialStartsServeOne` | `SerialOneServes` | `ProbeStillTrue`: what a probe found is still so when the window is created, through the second start with rights |
| `ContentScriptProofs!TypeCorrect` | `TypeOK`, with the listeners on the detector's element | itself |
| `GoneIsSaidOnce` | `GoneOnlyWhenLost` | `TypeOK`: an element with listeners is its frame's element, so a late event reports no loss |
| `TelemetryProofs!TypeCorrect` | `TypeOK`, with the limit of the histories | itself |
| `AlwaysOneFrame` | `ShownIsOneFrame` | `FrameInv`: each unread line fits the one before it, the first one fits what was received, and what the monitor writes next will fit the last; only the last component of a frame that was ended can precede an `END` |
| `AlwaysAligned` | `HistoriesAligned` | with `FrameInv` and `OrderInv`: components come in increasing order through the pipe, and what is still to be shown is of a later frame than every sample; after an `END` what was received is not shown again before a `BEGIN` clears it (`Unshown`) |
| `AlwaysListed` | `SelectedIsListed` | itself |
| `AlwaysFed` | `FedWhatIsShown` | itself |
| `SectionsProofs!TypeCorrect` | `TypeOK`, with the range of the curves | with `FromLines`: what is shown and sent is what the sections say, and the sections are those of the lines received; a level is the result of a loop, so its range is proved over the cards |
| `AlwaysInPlace` | `LinesKeptInPlace` | `FromLines`, and over the lines of a frame (`NodesTellAll`): what the loop has divided so far are the lines so far, each under its title |
| `AlwaysAsLabelled` | `ShownAsLabelled` | `FromLines`; a value behind a label in the joined lines is behind it in one of them unless a line ends in the label (`JoinedSays`), and what a line says is in the joined lines (`SaidInJoined`); a labelled rate is at its place in the list that `RateValues` builds, of which the places are read (`RatePlaces`) |
| `AlwaysAgree` | `DeviceAgreesOnPlain` | `FromLines`: a plain title has nothing that the rules for lines look for, so that they find the same with the title as without (`...BehindTitle`), and its name decides the kind for both sets of rules (`PlainKind`) |

`MediaControl` rests on its parts in this way: `MediaHub` implements `ListHub`
(`ImplementsListHub`), `E2CProxy` implements `ListProxy` (`ImplementsListProxy`), and
`MediaControl` puts a `ListHub` and a `ListProxy` together without either leaving its
promise (`PartsKeepPromises`). What it adds of pages and window is checked against
`ContentScript` and `DesktopHost` by reading only.

The loops of `Sections` are recursive functions, and in TLA+ such a function is the
`CHOOSE` of one that satisfies its equation. `SectionsProofs` first proves that there
is one, from the least element of a set of natural numbers (`LeastExists`,
`SetInduction`, `RecursionHasSolution`), and then the invariants of the loops by
`SetInduction` over the sets of indices for which they hold. The attempt to prove
`AlwaysAgree` showed that `Plain` had been too weak: a title that has a label in it,
such as a component named after what it measures, is read differently by window and
device. `Plain` now rules that out, and the lines of `MCSections` include one.

Stated by theorems are thus all safety invariants and action properties of the
passing runs. Only model-checked is everything with `~>` or fairness, which the
prover does not handle: `CommandsSettle`, the fairness in `PublishesTabs` and
`WorksAsListProxy`, `EOFExits`, `StartShowsAWindow`, `MediaBecomesKnown`,
`ReportsSettle`, `NothingStaysUnread`, `WindowSettles`, `RefreshSettles`.

## 5. What is not modelled

* Text: titles, times, log lines, JSON. The models pass the fields the code
  decides on; `Sections` has the tokens its rules ask for.
* Real time: timers fire at some time after they were set. That 500 ms after its
  start a window mostly has no client yet is in `MediaControl` only as far as a
  `Refresh` reaches nobody without a connection.
* The rules by which `find()` filters elements: an element that they leave out
  counts as not in the page.
* The end of the window's process after `Quit`. `main` deletes the log file before
  the window is destroyed, whose server writes to it, and the sockets of the
  proxies are deleted while the list of them is gone over; both are listed as
  hazards in `PROJECT.json`. What such an access does is undefined, so that a
  model of it would say nothing.
* `MainView.qml` (presentation; calls the methods of `Widget`), `monitorlabel.cpp`
  (a widget nothing creates), `third_party`, `build` and `dist`, the installation
  scripts: no logic of this program, or none that runs.

## 6. Plan

Done: the modules of section 2, their runs and proofs. What is left, in this
order:

1. That the window of `MediaControl` and the `entry` of `ContentScript` are what
   `DesktopHost` and `MediaHub` make of them, as `ListHub` and `ListProxy` show it for
   hub and proxy.
2. Two browsers in `MediaControl`: whose list the window shows at the end.
3. The filter of `find()` as an operator, checked against a plain statement of its
   rules.
