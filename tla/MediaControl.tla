---------------------------- MODULE MediaControl ----------------------------
(***************************************************************************)
(* How what plays in a browser gets into the window: page, hub, proxy and  *)
(* desktop host in one behaviour.  Each part is reduced to what it does to *)
(* the list on its way; the modules MediaHub, E2CProxy, ContentScript and  *)
(* DesktopHost have the details.  Hub and proxy are the abstract ones that *)
(* MediaHub and E2CProxy implement: what they do to their own state here   *)
(* is a step of ListHub and of ListProxy.                                  *)
(*                                                                         *)
(* There is one browser, and a list is what is known of one of its tabs:   *)
(* other tabs repeat themselves in the same way.  The page in the tab may  *)
(* be left for another one without a word to the hub.  Of a connection     *)
(* that was replaced, lines may still be unread.  At most one GetMediaList *)
(* is on its way.  The query that a window sends 500 ms after its start is *)
(* a Refresh; it reaches nobody unless a proxy is back by then.            *)
(***************************************************************************)
EXTENDS Naturals, Sequences

CONSTANTS Lists,      \* lists that show media
          NoMedia,    \* the empty list
          Capacity,   \* messages the proxy keeps (100)
          MaxLines    \* lines in the pipes that the window has not read

ASSUME NoMediaAssumption == NoMedia \notin Lists
ASSUME CapacityAssumption == Capacity \in Nat \ {0}
ASSUME MaxLinesAssumption == MaxLines \in Nat \ {0}

VARIABLES
  media,      \* what there is in the tab
  element,    \* has the script of its page found an element?
  left,       \* history: was the page left since the hub last heard of it?
  worker,     \* does the service worker run?
  known,      \* its list
  timer,      \* is a push scheduled?
  port,       \* native messaging port open, hence a proxy running
  queue,      \* messages the proxy keeps
  link,       \* its connection: "no", "yes", or "broken" and not noticed yet
  lines,      \* lines written to that connection
  oldLines,   \* lines on connections of proxies that are gone
  up,         \* does the window exist?
  shown,      \* its list
  request,    \* GetMediaList: "none", "sent", or "waiting" for the pages
  missed      \* is the newest list lost, or overtaken by an older one?

page == <<media, element, left>>
hub == <<worker, known, timer, port>>
proxy == <<queue, link>>
pipes == <<lines, oldLines>>
host == <<up, shown>>
vars == <<page, hub, proxy, pipes, host, request, missed>>

AnyList == Lists \cup {NoMedia}

TheHub == INSTANCE ListHub WITH Lists <- AnyList, Empty <- NoMedia
TheProxy == INSTANCE ListProxy WITH Messages <- AnyList, alive <- port

-----------------------------------------------------------------------------
(* The way into the proxy. *)

(* Lines of a proxy that is gone may be read after those that follow.      *)
Overtaken == oldLines # <<>>

(* Mutant: the channel takes any number of messages. *)
PutAlways(list) ==
  /\ queue' = Append(queue, list) /\ missed' = Overtaken
  /\ UNCHANGED <<link, up>>

(* postMessage, and the stdin reader: a full channel drops the newest.     *)
Put(list) == TheProxy!Put(list) /\ missed' = (Overtaken \/ ~TheProxy!HasRoom)

(* bridge.send. *)
Send(list) == IF port THEN Put(list) ELSE UNCHANGED <<proxy, up, missed>>

(* The proxy ends with its port; what it had not written is lost.          *)
EndProxy(opened) ==
  /\ TheProxy!Ends(opened)
  /\ lines' = <<>> /\ oldLines' = oldLines \o lines
  /\ request' = IF request = "sent" THEN "none" ELSE request
  /\ missed' = TRUE

-----------------------------------------------------------------------------
(* The page. *)

MediaChange ==
  /\ \E list \in AnyList : media' = list
  /\ UNCHANGED <<element, left, hub, proxy, pipes, host, request, missed>>

(* The hub hears that there is nothing: a tab it does not list is no news. *)
HearsNothing == IF known # NoMedia THEN TheHub!Report(NoMedia) ELSE UNCHANGED hub

(* Mutant: only a change is pushed. *)
PageReportsChange ==
  /\ media # known
  /\ TheHub!Report(media)
  /\ element' = (media # NoMedia) /\ left' = FALSE
  /\ UNCHANGED <<media, proxy, pipes, host, request, missed>>

(* The script of a page with media repeats itself every two seconds, and   *)
(* the repetition is pushed like a change; when its element is gone it     *)
(* says so, once.                                                          *)
PageReports ==
  /\ worker
  /\ media # NoMedia \/ element
  /\ IF media # NoMedia THEN TheHub!Report(media) ELSE HearsNothing
  /\ element' = (media # NoMedia) /\ left' = FALSE
  /\ UNCHANGED <<media, proxy, pipes, host, request, missed>>

(* The tab goes to another page, or the same one again: its script is gone *)
(* and has said nothing, the new one has never had an element.             *)
PageLeft ==
  /\ media' = NoMedia /\ element' = FALSE /\ left' = TRUE
  /\ UNCHANGED <<hub, proxy, pipes, host, request, missed>>

(* The browser tells the hub of a tab that is closed; another tab takes    *)
(* its place.                                                              *)
TabCloses ==
  /\ media' = NoMedia /\ element' = FALSE /\ left' = FALSE
  /\ HearsNothing
  /\ UNCHANGED <<proxy, pipes, host, request, missed>>

-----------------------------------------------------------------------------
(* The hub. *)

PushTimerFires ==
  /\ TheHub!Push
  /\ Send(known)
  /\ UNCHANGED <<page, pipes, shown, request>>

(* GetMediaList with media known is answered at once; else the pages are   *)
(* asked, and whatever is known 600 ms later is sent and pushed.           *)
AnswerAtOnce ==
  /\ request = "sent" /\ known # NoMedia
  /\ request' = "none"
  /\ TheHub!Answers
  /\ Send(known)
  /\ UNCHANGED <<page, pipes, shown>>

(* Mutant: a hub without media does not answer. *)
AskNobody ==
  /\ request = "sent" /\ known = NoMedia
  /\ request' = "none"
  /\ UNCHANGED <<page, hub, proxy, pipes, host, missed>>

AskPages ==
  /\ request = "sent" /\ known = NoMedia
  /\ request' = "waiting"
  /\ UNCHANGED <<page, hub, proxy, pipes, host, missed>>

AnswerLate ==
  /\ request = "waiting"
  /\ request' = "none"
  /\ TheHub!AnswersLate
  /\ Send(known)
  /\ UNCHANGED <<page, pipes, shown>>

WorkerStarts(opened) ==
  /\ TheHub!Starts(opened)
  /\ UNCHANGED <<page, proxy, pipes, host, request, missed>>

(* Retry; a port that is open is closed first. *)
Connect(opened) ==
  /\ TheHub!Connect(opened)
  /\ IF port THEN EndProxy(opened) ELSE UNCHANGED <<proxy, pipes, up, request, missed>>
  /\ UNCHANGED <<page, shown>>

WorkerStops ==
  /\ TheHub!Stops
  /\ TheProxy!Ends(FALSE)
  /\ lines' = <<>> /\ oldLines' = oldLines \o lines
  /\ request' = "none" /\ missed' = TRUE
  /\ left' = FALSE                      \* and so is what it listed
  /\ UNCHANGED <<media, element, shown>>

(* The proxy ends, or the user disconnects. *)
PortLost ==
  /\ TheHub!PortLost
  /\ EndProxy(FALSE)
  /\ UNCHANGED <<page, shown>>

-----------------------------------------------------------------------------
(* The proxy. *)

(* A try every three seconds. *)
Dial ==
  /\ TheProxy!Dial
  /\ UNCHANGED <<page, hub, pipes, shown, request, missed>>

(* The reader sees the end of the connection. *)
Notice ==
  /\ TheProxy!Notice
  /\ UNCHANGED <<page, hub, pipes, shown, request, missed>>

Forward ==
  /\ Len(oldLines) + Len(lines) < MaxLines
  /\ TheProxy!Forward(Head(queue))
  /\ lines' = Append(lines, Head(queue))
  /\ UNCHANGED <<page, hub, oldLines, shown, request, missed>>

(* The message is lost with the connection. *)
WriteFails ==
  /\ TheProxy!WriteFails
  /\ missed' = TRUE
  /\ UNCHANGED <<page, hub, pipes, shown, request>>

-----------------------------------------------------------------------------
(* The window. *)

HostStarts ==
  /\ TheProxy!HostStarts
  /\ UNCHANGED <<page, hub, pipes, shown, request, missed>>

(* Its lines are gone, and the next window shows nothing at first. *)
HostEnds ==
  /\ TheProxy!HostEnds
  /\ shown' = NoMedia
  /\ lines' = <<>> /\ oldLines' = <<>>
  /\ missed' = TRUE
  /\ UNCHANGED <<page, hub, request>>

ReadLine ==
  /\ lines # <<>>
  /\ shown' = Head(lines)
  /\ lines' = Tail(lines)
  /\ UNCHANGED <<page, hub, proxy, oldLines, up, request, missed>>

(* The last lines of a client that has hung up, in any order with others.  *)
ReadOldLine ==
  /\ oldLines # <<>>
  /\ shown' = Head(oldLines)
  /\ oldLines' = Tail(oldLines)
  /\ UNCHANGED <<page, hub, proxy, lines, up, request, missed>>

(* GetMediaList goes to the clients that are connected. *)
Refresh ==
  /\ link = "yes" /\ request = "none"
  /\ request' = "sent"
  /\ UNCHANGED <<page, hub, proxy, pipes, host, missed>>

-----------------------------------------------------------------------------
Init ==
  /\ media \in AnyList /\ element = FALSE /\ left = FALSE
  /\ worker = FALSE /\ known = NoMedia /\ timer = FALSE /\ port = FALSE
  /\ queue = <<>> /\ link = "no"
  /\ lines = <<>> /\ oldLines = <<>>
  /\ up = FALSE /\ shown = NoMedia
  /\ request = "none" /\ missed = FALSE

(* What goes on while every part stays as it is. *)
Quiet ==
  \/ PageReports \/ PushTimerFires \/ AnswerAtOnce \/ AskPages \/ AnswerLate
  \/ Dial \/ Notice \/ Forward \/ WriteFails
  \/ ReadLine \/ ReadOldLine \/ Refresh

Next ==
  \/ Quiet
  \/ MediaChange \/ PageLeft \/ TabCloses
  \/ \E opened \in BOOLEAN : WorkerStarts(opened) \/ Connect(opened)
  \/ WorkerStops \/ PortLost \/ HostStarts \/ HostEnds

(* Pages repeat themselves, timers fire, the proxy and the window go on.   *)
(* Nothing is assumed of the user, nor of what starts and ends the parts.  *)
Fairness ==
  /\ WF_vars(PageReports) /\ WF_vars(PushTimerFires)
  /\ WF_vars(AnswerAtOnce \/ AskPages) /\ WF_vars(AnswerLate)
  /\ WF_vars(Dial) /\ WF_vars(Notice \/ WriteFails) /\ WF_vars(Forward)
  /\ WF_vars(ReadLine) /\ WF_vars(ReadOldLine)

Spec == Init /\ [][Next]_vars /\ Fairness

-----------------------------------------------------------------------------
(* Properties. *)

(* Every variable holds values of its kind; a proxy, its messages and its  *)
(* connection last no longer than the port, the lines no longer than the   *)
(* window, and both stay within their bounds (bridge.ts, proxy.go).        *)
TypeOK ==
  /\ media \in AnyList /\ known \in AnyList /\ shown \in AnyList
  /\ element \in BOOLEAN /\ left \in BOOLEAN
  /\ worker \in BOOLEAN /\ timer \in BOOLEAN /\ port \in BOOLEAN
  /\ up \in BOOLEAN /\ missed \in BOOLEAN
  /\ queue \in Seq(AnyList) /\ Len(queue) <= Capacity
  /\ lines \in Seq(AnyList) /\ oldLines \in Seq(AnyList)
  /\ Len(oldLines) + Len(lines) <= MaxLines
  /\ link \in {"no", "yes", "broken"}
  /\ request \in {"none", "sent", "waiting"}
  /\ port => worker
  /\ ~port => queue = <<>> /\ link = "no" /\ lines = <<>> /\ request # "sent"
  /\ ~worker => known = NoMedia /\ ~timer /\ request = "none"
  /\ ~up => lines = <<>> /\ oldLines = <<>> /\ shown = NoMedia /\ link # "yes"

LastOf(s) == s[Len(s)]

(* The list the window will show when all that is under way has arrived.   *)
Newest == IF queue # <<>> THEN LastOf(queue)
          ELSE IF lines # <<>> THEN LastOf(lines) ELSE shown

(* The newest list is lost in three ways only: the channel was full,       *)
(* a connection ends with messages on it, or lines of an earlier proxy are *)
(* still unread.  Otherwise the newest list on the way is the hub's, or a  *)
(* push of it is scheduled - through reconnections, restarts and answers   *)
(* (store.ts notifyDesktop, bridge.ts connect, proxy.go).                  *)
OnlyLossFallsBehind ==
  port /\ ~timer /\ ~missed => oldLines = <<>> /\ Newest = known

(* Whatever was lost before: once the parts stay up, media in the tab gets *)
(* shown as it is, because the page repeats itself (media.ts check,        *)
(* store.ts updateMediaState, proxy.go).                                   *)
WindowSettles ==
  <>[][Quiet]_vars => <>[](up /\ port /\ media # NoMedia => shown = media)

(* A user who presses Refresh now and then gets the hub's list, whatever   *)
(* was lost before, and that list is right also when there is no media and *)
(* hence no page that repeats anything: an element that is gone, a closed  *)
(* tab and a worker that forgot all count.  The exception is a page that   *)
(* was left for one without media; the hub goes on answering with what it  *)
(* listed (router.ts GetMediaList, store.ts removeTab, media.ts check).    *)
RefreshSettles ==
  <>[][Quiet]_vars /\ []<><<Refresh>>_vars =>
    <>[](up /\ port => shown = known /\ (shown = media \/ left))
=============================================================================
