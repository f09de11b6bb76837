--------------------------- MODULE ContentScript ---------------------------
(***************************************************************************)
(* The content scripts of one tab (extension/content): every frame of the  *)
(* page runs one, which looks for a media element, listens to it, reports  *)
(* its state to the hub and executes the hub's commands on it.             *)
(*                                                                         *)
(* A step is one task of a frame's event loop: the interval's check, an    *)
(* event of an element, a message of the hub.  The reports of a frame      *)
(* reach the hub in order; those of different frames in any order.  Of the *)
(* hub, MediaHub, only what it knows of this tab is kept.  An element that *)
(* find() filters out counts as not in the page.                           *)
(***************************************************************************)
EXTENDS Naturals, Sequences

CONSTANTS Frames,     \* frames of the tab
          Elements,   \* audio and video elements, numbered in document order
          Layouts,    \* which elements belong to which frame, in the pages considered
          MaxMail     \* reports of a frame on their way to the hub

None == 0             \* null

ASSUME ElementsAssumption == Elements \subseteq Nat \ {None}
ASSUME LayoutsAssumption == Layouts \subseteq [Elements -> Frames]
ASSUME MaxMailAssumption == MaxMail \in Nat \ {0}

VARIABLES
  frameOf,    \* frameOf[e]: the frame that element e belongs to
  media,      \* elements that are in the page and that find() accepts
  playing,    \* elements that are not paused, in the page or not
  pending,    \* elements with a play or pause event that was not handled yet
  valid,      \* valid[f]: chrome.runtime.id of f's script
  interval,   \* interval[f]: _intervalId # null
  element,    \* element[f]: mediaDetector.element
  bound,      \* elements that carry the listeners of bind()
  mail,       \* mail[f]: reports of f on their way
  todo,       \* todo[f]: the hub's message on its way to f
  entry       \* what the hub knows of the tab: byTabId

page == <<frameOf, media, playing, pending>>
script == <<valid, interval, element, bound>>
vars == <<page, script, mail, todo, entry>>

Of(f) == {e \in Elements : frameOf[e] = f}
Reports == {"playing", "paused", "gone"}

First(S) == CHOOSE e \in S : \A x \in S : e <= x

(* find(): a playing element before a paused one, else in document order. *)
Find(f) ==
  LET here == media \cap Of(f) IN
    IF here \cap playing # {} THEN First(here \cap playing)
    ELSE IF here # {} THEN First(here) ELSE None

(* getState(), as far as the hub tells reports apart. *)
Report(e) == IF e = None THEN "gone" ELSE IF e \in playing THEN "playing" ELSE "paused"

(* safeSendMessage: an orphaned script sends nothing. *)
Tell(f, report) ==
  IF valid[f] THEN /\ Len(mail[f]) < MaxMail
                   /\ mail' = [mail EXCEPT ![f] = Append(@, report)]
              ELSE UNCHANGED mail

-----------------------------------------------------------------------------
(* The script. *)

(* Mutant: the listeners of the old element stay. *)
BindLeaving(f, el) ==
  /\ bound' = bound \cup ({el} \ {None})
  /\ element' = [element EXCEPT ![f] = el]

(* bind(), but for its report. *)
Bind(f, el) ==
  /\ bound' = (bound \ Of(f)) \cup ({el} \ {None})
  /\ element' = [element EXCEPT ![f] = el]

(* Mutants: a known element is not reported again; it is kept while it is  *)
(* in the page.                                                            *)
CheckOnce(f) ==
  /\ interval[f] /\ valid[f] /\ Find(f) # element[f]
  /\ Bind(f, Find(f))
  /\ Tell(f, Report(Find(f)))
  /\ UNCHANGED <<page, valid, interval, todo, entry>>
CheckKeeping(f) ==
  LET el == IF element[f] \in media THEN element[f] ELSE Find(f) IN
  /\ interval[f] /\ valid[f] /\ ~(el = None /\ element[f] = None)
  /\ Bind(f, el)
  /\ Tell(f, Report(el))
  /\ UNCHANGED <<page, valid, interval, todo, entry>>

(* check(), every two seconds: a new element is bound and reported, a lost *)
(* one is reported gone, the same one is reported again.                   *)
Check(f) ==
  /\ interval[f] /\ valid[f] /\ ~(Find(f) = None /\ element[f] = None)
  /\ Bind(f, Find(f))
  /\ Tell(f, Report(Find(f)))
  /\ UNCHANGED <<page, valid, interval, todo, entry>>

(* check() of an orphaned script: stop(). *)
CheckStops(f) ==
  /\ interval[f] /\ ~valid[f]
  /\ interval' = [interval EXCEPT ![f] = FALSE]
  /\ Bind(f, None)
  /\ UNCHANGED <<page, valid, mail, todo, entry>>

(* onPlay and onPause, for whatever element the detector has by then. *)
OnPlayPause(e) ==
  /\ e \in pending
  /\ pending' = pending \ {e}
  /\ IF e \in bound THEN Tell(frameOf[e], Report(element[frameOf[e]])) ELSE UNCHANGED mail
  /\ UNCHANGED <<frameOf, media, playing, script, todo, entry>>

OnTimeUpdate(e) ==
  /\ e \in bound \cap playing
  /\ Tell(frameOf[e], Report(element[frameOf[e]]))
  /\ UNCHANGED <<page, script, todo, entry>>

(* Mutant: the answer is not limited to frames with media. *)
OnQueryStateAlways(f) ==
  /\ todo[f] = "queryState"
  /\ todo' = [todo EXCEPT ![f] = "none"]
  /\ Tell(f, Report(element[f]))
  /\ UNCHANGED <<page, script, entry>>

(* queryState: a frame without media keeps quiet. *)
OnQueryState(f) ==
  /\ todo[f] = "queryState"
  /\ todo' = [todo EXCEPT ![f] = "none"]
  /\ IF element[f] # None THEN Tell(f, Report(element[f])) ELSE UNCHANGED mail
  /\ UNCHANGED <<page, script, entry>>

(* PlayPause; play() may be refused.  The other commands move the position *)
(* or the picture, which no report distinguishes.                          *)
OnExecute(f) ==
  /\ todo[f] = "execute"
  /\ todo' = [todo EXCEPT ![f] = "none"]
  /\ \/ /\ element[f] # None /\ element[f] \in playing
        /\ playing' = playing \ {element[f]} /\ pending' = pending \cup {element[f]}
     \/ /\ element[f] # None /\ element[f] \notin playing
        /\ playing' = playing \cup {element[f]} /\ pending' = pending \cup {element[f]}
     \/ /\ element[f] \notin playing
        /\ UNCHANGED <<playing, pending>>
  /\ UNCHANGED <<frameOf, media, script, mail, entry>>

-----------------------------------------------------------------------------
(* The page and its user. *)

Appears(e) ==
  /\ e \notin media
  /\ media' = media \cup {e}
  /\ \/ UNCHANGED <<playing, pending>>
     \/ playing' = playing \cup {e} /\ pending' = pending \cup {e}
  /\ UNCHANGED <<frameOf, script, mail, todo, entry>>

(* An element that is taken out of the page is paused. *)
Disappears(e) ==
  /\ e \in media
  /\ media' = media \ {e}
  /\ playing' = playing \ {e}
  /\ pending' = IF e \in playing THEN pending \cup {e} ELSE pending
  /\ UNCHANGED <<frameOf, script, mail, todo, entry>>

Toggles(e) ==
  /\ e \in media
  /\ playing' = IF e \in playing THEN playing \ {e} ELSE playing \cup {e}
  /\ pending' = pending \cup {e}
  /\ UNCHANGED <<frameOf, media, script, mail, todo, entry>>

(* The frame loads a document: its script goes without a word, the new one *)
(* starts (mediaDetector.start).                                           *)
Navigates(f) ==
  /\ media' = media \ Of(f) /\ playing' = playing \ Of(f) /\ pending' = pending \ Of(f)
  /\ valid' = [valid EXCEPT ![f] = TRUE]
  /\ interval' = [interval EXCEPT ![f] = TRUE]
  /\ Bind(f, None)
  /\ todo' = [todo EXCEPT ![f] = "none"]
  /\ UNCHANGED <<frameOf, mail, entry>>

-----------------------------------------------------------------------------
(* The hub. *)

(* stateUpdate: updateMediaState or removeTab. *)
Receives(f) ==
  /\ mail[f] # <<>>
  /\ mail' = [mail EXCEPT ![f] = Tail(@)]
  /\ entry' = IF Head(mail[f]) = "gone" THEN "none" ELSE Head(mail[f])
  /\ UNCHANGED <<page, script, todo>>

Restarts ==
  /\ entry' = "none"
  /\ UNCHANGED <<page, script, mail, todo>>

(* The extension is updated or reloaded: every script is orphaned. *)
Reloads ==
  /\ valid' = [f \in Frames |-> FALSE]
  /\ mail' = [f \in Frames |-> <<>>]
  /\ todo' = [f \in Frames |-> "none"]
  /\ entry' = "none"
  /\ UNCHANGED <<page, interval, element, bound>>

(* A message to the tab goes to every frame with a living script.  One is  *)
(* on its way at a time.                                                   *)
SendToTab(what) ==
  /\ \A f \in Frames : todo[f] = "none"
  /\ todo' = [f \in Frames |-> IF valid[f] THEN what ELSE "none"]

(* executeCommand; if nobody listens the tab is removed. *)
Commands ==
  /\ entry # "none"
  /\ SendToTab("execute")
  /\ entry' = IF \E f \in Frames : valid[f] THEN entry ELSE "none"
  /\ UNCHANGED <<page, script, mail>>

(* GetMediaList of an empty hub. *)
Queries ==
  /\ entry = "none"
  /\ SendToTab("queryState")
  /\ UNCHANGED <<page, script, mail, entry>>

Init ==
  /\ frameOf \in Layouts
  /\ media = {} /\ playing = {} /\ pending = {}
  /\ valid = [f \in Frames |-> TRUE]
  /\ interval = [f \in Frames |-> TRUE]
  /\ element = [f \in Frames |-> None]
  /\ bound = {}
  /\ mail = [f \in Frames |-> <<>>]
  /\ todo = [f \in Frames |-> "none"]
  /\ entry = "none"

(* What goes on in a page that nobody touches, under a hub that lives. *)
Quiet == \/ \E f \in Frames : \/ Check(f) \/ CheckStops(f) \/ OnQueryState(f) \/ OnExecute(f)
                              \/ Receives(f)
         \/ \E e \in Elements : OnPlayPause(e) \/ OnTimeUpdate(e)
         \/ Queries

Next == \/ Quiet
        \/ \E e \in Elements : Appears(e) \/ Disappears(e) \/ Toggles(e)
        \/ \E f \in Frames : Navigates(f)
        \/ Restarts \/ Reloads \/ Commands

(* The interval fires and messages arrive.  Strong fairness only makes up  *)
(* for the bound MaxMail, which other reports may exhaust in turn.         *)
Fairness == \A f \in Frames : /\ SF_vars(Check(f)) /\ WF_vars(Receives(f))
                              /\ WF_vars(OnExecute(f))

Spec == Init /\ [][Next]_vars /\ Fairness

-----------------------------------------------------------------------------
(* Properties. *)

(* Every variable holds values of its kind, and the listeners are on the   *)
(* detector's element and on no other (bind, stop).                        *)
TypeOK ==
  /\ frameOf \in [Elements -> Frames]
  /\ media \subseteq Elements /\ playing \subseteq Elements /\ pending \subseteq Elements
  /\ valid \in [Frames -> BOOLEAN] /\ interval \in [Frames -> BOOLEAN]
  /\ element \in [Frames -> Elements \cup {None}]
  /\ \A f \in Frames : bound \cap Of(f) = {element[f]} \ {None}
  /\ bound \subseteq Elements
  /\ mail \in [Frames -> Seq(Reports)]
  /\ \A f \in Frames : Len(mail[f]) <= MaxMail
  /\ todo \in [Frames -> {"none", "execute", "queryState"}]
  /\ entry \in {"none", "playing", "paused"}

(* A frame without media does not take the tab out of the list over and    *)
(* over, against the frames that have media: "gone" is said once, when the *)
(* element is lost, and not by an event of it that comes late nor by an    *)
(* answer to the hub (check, bind, onMessage).                             *)
GoneOnlyWhenLost ==
  [][\A f \in Frames :
       mail'[f] = Append(mail[f], "gone")
         => element[f] # None /\ element'[f] = None]_vars

(* Media that stays is known to the hub some time, however often the hub   *)
(* is restarted and other frames lose theirs: the check repeats itself.    *)
MediaBecomesKnown ==
  \A f \in Frames :
    valid[f] /\ media \cap Of(f) # {}
      ~> entry # "none" \/ ~valid[f] \/ media \cap Of(f) = {}

(* Once the page is left alone and one frame has media, the hub's entry    *)
(* ends up with the state of the element that find() chooses, whatever     *)
(* was on its way (check, getState).                                       *)
Settled ==
  \A f \in Frames :
    /\ valid[f] /\ media \cap Of(f) # {}
    /\ \A g \in Frames \ {f} : media \cap Of(g) = {}
    => entry = Report(Find(f))
ReportsSettle == <>[][Quiet]_vars => <>[]Settled

(* What the development rules ask of closing and reloading a page, and the *)
(* technical notes of media that goes: the tab leaves the list.            *)
ForgottenWhenGone == <>[][Quiet]_vars => <>[](media = {} => entry = "none")
=============================================================================
