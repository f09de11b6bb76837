------------------------------ MODULE Sections ------------------------------
(***************************************************************************)
(* What the desktop program reads out of a frame of CmdMonitor             *)
(* (widget.cpp): resolvedata divides the lines into sections and takes     *)
(* from each what it sends to the device; updatePerformanceModel takes     *)
(* what it shows in the window.  Both find out by themselves what kind of  *)
(* section they have, and where its values are.                            *)
(*                                                                         *)
(* A text is a sequence of tokens.  A token is a word that some rule knows *)
(* or a number with its unit; "CPU:" has an ASCII colon, "cpu" stands for  *)
(* any other spelling, "Neicun" and "Wangluo" are the Chinese words for    *)
(* memory and network.  Labels are the English ones; those in Chinese are  *)
(* read alike but tell no kind.  "model" is a name that ends in a digit.   *)
(***************************************************************************)
EXTENDS Naturals, SequencesExt

CONSTANTS Written,    \* lines that the monitor may write
          MaxLines,   \* lines of a frame
          MaxFrames,  \* frames
          Total       \* the memory there is, n in some unit

Names == {"cpu", "CPU", "CPU:", "gpu", "GPU", "GPU:", "memory", "Neicun", "network", "Wangluo"}
Labels == {"power", "temp", "upload", "download"}
Units == {"celsius", "watt", "percent", "capacity", "rate", "model"}

Token == [is : Names \cup Labels \cup Units, n : Nat,
          unit : {"", "%", "W", "C", "KB", "MB", "GB"}]
Text == Seq(Token)
Line == [title : BOOLEAN, text : Text]
Node == [title : Text, infolist : Seq(Text)]

ASSUME WrittenAssumption == Written \subseteq Line
ASSUME BoundsAssumption == MaxLines \in Nat /\ MaxFrames \in Nat
ASSUME TotalAssumption == Total.n \in Nat \ {0}

VARIABLES
  phase,      \* the monitor: "idle", "inside" a frame, or at its "end"
  frames,     \* frames begun
  received,   \* m_receivedData
  nodes,      \* the sections of the last frame
  cards,      \* m_componentCards
  level,      \* its MetricSnapshot: the numbers
  json        \* what the device is sent

vars == <<phase, frames, received, nodes, cards, level, json>>

Kinds == {"cpu", "gpu", "memory", "network"}
Generic == "generic"
None == [is |-> "none", n |-> 0, unit |-> ""]   \* the empty string

Mentions(text, words) == \E i \in DOMAIN text : text[i].is \in words
StartsWith(text, words) == text # <<>> /\ text[1].is \in words

-----------------------------------------------------------------------------
(* Lines to sections. *)

(* Mutant: what follows the last title is not kept. *)
ResultOnly(so) == so.result

NoNode == [title |-> <<>>, infolist |-> <<>>]

(* The result, and the current node unless it is empty. *)
WithCurrent(so) ==
  IF so.current # NoNode THEN Append(so.result, so.current) ELSE so.result

AddLine(so, line) ==
  IF line.title
  THEN [result |-> WithCurrent(so), current |-> [NoNode EXCEPT !.title = line.text]]
  ELSE IF line.text # <<>>
  THEN [so EXCEPT !.current.infolist = Append(@, line.text)]
  ELSE so

(* What the loop has after each of the lines. *)
Divided(lines) ==
  LET so[n \in 0 .. Len(lines)] ==
        IF n = 0 THEN [result |-> <<>>, current |-> NoNode]
        ELSE AddLine(so[n - 1], lines[n])
  IN so

Nodes(lines) == WithCurrent(Divided(lines)[Len(lines)])

Joined(node) == FlattenSeq(node.infolist)

-----------------------------------------------------------------------------
(* The kind of a section. *)

TitleRules ==
  <<[kind |-> "cpu", words |-> {"cpu", "CPU", "CPU:"}],
    [kind |-> "gpu", words |-> {"gpu", "GPU", "GPU:"}],
    [kind |-> "memory", words |-> {"memory", "Neicun"}],
    [kind |-> "network", words |-> {"network", "Wangluo"}]>>

LineRules ==
  <<TitleRules[1], TitleRules[2],
    [kind |-> "network", words |-> {"upload", "download"}],
    [kind |-> "memory", words |-> {"Neicun"}],
    [kind |-> "network", words |-> {"Wangluo"}]>>

(* The kind of the first rule that knows a word of the text. *)
KindBy(rules, text) ==
  LET hit == SelectInSeq(rules, LAMBDA rule : Mentions(text, rule.words))
  IN IF hit = 0 THEN Generic ELSE rules[hit].kind

(* For the window: by the title, else by the first line that tells. *)
ComponentKind(node) ==
  LET hit == SelectInSeq(node.infolist, LAMBDA line : KindBy(LineRules, line) # Generic)
  IN IF KindBy(TitleRules, node.title) # Generic THEN KindBy(TitleRules, node.title)
     ELSE IF hit = 0 THEN Generic ELSE KindBy(LineRules, node.infolist[hit])

(* Mutant: a name without a colon is not known. *)
SectionKindColon(node) ==
  LET all == node.title \o Joined(node) IN
    IF Mentions(all, {"CPU:"}) THEN "cpu"
    ELSE IF Mentions(all, {"GPU:"}) THEN "gpu"
    ELSE IF Mentions(all, {"Neicun"}) THEN "memory"
    ELSE IF Mentions(all, {"Wangluo"}) THEN "network"
    ELSE Generic

(* For the device: by title and lines together, the CPU before the others. *)
SectionKind(node) ==
  LET all == node.title \o Joined(node) IN
    IF StartsWith(node.title, {"CPU", "CPU:"}) \/ Mentions(all, {"CPU:"}) THEN "cpu"
    ELSE IF StartsWith(node.title, {"GPU", "GPU:"}) \/ Mentions(all, {"GPU:"}) THEN "gpu"
    ELSE IF Mentions(all, {"Neicun"}) THEN "memory"
    ELSE IF Mentions(all, {"Wangluo"}) THEN "network"
    ELSE Generic

-----------------------------------------------------------------------------
(* The values of a section: the regular expressions. *)

FirstAt(text, Is(_)) ==
  LET hits == {i \in DOMAIN text : Is(i)}
  IN IF hits = {} THEN None ELSE text[Min(hits)]

First(text, what) == FirstAt(text, LAMBDA i : text[i].is = what)

Labelled(text, label, what) ==
  FirstAt(text, LAMBDA i : i > 1 /\ text[i - 1].is = label /\ text[i].is = what)

Or(value, other) == IF value # None THEN value ELSE other

(* A number, up to four other characters, and a c of any word: 45% CPU. *)
LooksLikeCelsius(text) ==
  FirstAt(text, LAMBDA i :
    \/ text[i].is = "celsius"
    \/ /\ text[i].is \in Units /\ i < Len(text)
       /\ text[i + 1].is \in {"cpu", "CPU", "CPU:"})

PowerIn(text) == Or(Labelled(text, "power", "watt"), First(text, "watt"))

(* What follows the first label counts only if it is a temperature.        *)
TemperatureIn(text) ==
  LET next == FirstAt(text, LAMBDA i : i > 1 /\ text[i - 1].is = "temp")
  IN IF next.is = "celsius" THEN next ELSE LooksLikeCelsius(text)

Second(text, what) ==
  FirstAt(text, LAMBDA i :
    text[i].is = what /\ \E j \in DOMAIN text : j < i /\ text[j].is = what)

(* All the rates in a text; more than two are never looked at. *)
TwoRates(text) ==
  IF First(text, "rate") = None THEN <<>>
  ELSE IF Second(text, "rate") = None THEN <<First(text, "rate")>>
  ELSE <<First(text, "rate"), Second(text, "rate")>>

IfAny(value) == IF value # None THEN <<value>> ELSE <<>>

(* Mutant: what is downloaded goes first. *)
RateValuesSwapped(text) ==
  LET labelled == IfAny(Labelled(text, "download", "rate"))
                    \o IfAny(Labelled(text, "upload", "rate"))
  IN IF labelled # <<>> THEN labelled ELSE TwoRates(text)

(* The labelled rates, upload first; without any, those there are. *)
RateValues(text) ==
  LET labelled == IfAny(Labelled(text, "upload", "rate"))
                    \o IfAny(Labelled(text, "download", "rate"))
  IN IF labelled # <<>> THEN labelled ELSE TwoRates(text)

(* rates.value, of a list that may be too short. *)
ValueAt(rates, n) == IF n \in DOMAIN rates THEN rates[n] ELSE None

UploadIn(text) == ValueAt(RateValues(text), 1)

(* With one rate only, it is both. *)
DownloadIn(text) ==
  LET rates == RateValues(text) IN ValueAt(rates, IF Len(rates) > 1 THEN 2 ELSE 1)

Section(kind, text) ==
  CASE kind \in {"cpu", "gpu"} ->
         [usage |-> First(text, "percent"), power |-> PowerIn(text),
          temp |-> TemperatureIn(text),
          capacity |-> IF kind = "gpu" THEN First(text, "capacity") ELSE None]
    [] kind = "memory" ->
         [capacity |-> First(text, "capacity"), usage |-> First(text, "percent")]
    [] kind = "network" ->
         [upload |-> UploadIn(text), download |-> DownloadIn(text)]
    [] OTHER -> <<>>

-----------------------------------------------------------------------------
(* Numbers for the curves. *)

Clamp(n) == IF n > 100 THEN 100 ELSE n

ParsePercent(value) == Clamp(value.n)

(* Only the figures are compared, whatever their units. *)
CapacityPercent(value) == Clamp((value.n * 100) \div Total.n)

(* Mutant: the level is not limited. *)
NetworkLevelUnlimited(value) ==
  value.n * (CASE value.unit = "GB" -> 100 [] value.unit = "MB" -> 12 [] OTHER -> 1)

NetworkLevel(value) ==
  Clamp(value.n * (CASE value.unit = "GB" -> 100 [] value.unit = "MB" -> 12 [] OTHER -> 1))

Larger(m, n) == IF m > n THEN m ELSE n

(* The snapshot after another card. *)
AddCard(snapshot, card) ==
  LET s == card.section IN
    CASE card.kind \in {"cpu", "gpu"} -> [snapshot EXCEPT ![card.kind] = ParsePercent(s.usage)]
      [] card.kind = "memory" ->
           [snapshot EXCEPT !["memory"] =
              IF s.usage # None THEN ParsePercent(s.usage)
              ELSE IF s.capacity # None THEN CapacityPercent(s.capacity) ELSE @]
      [] card.kind = "network" ->
           [snapshot EXCEPT !["network"] =
              Larger(NetworkLevel(s.upload), NetworkLevel(s.download))]
      [] OTHER -> snapshot

(* The snapshot after each of the cards. *)
Levels(all) ==
  LET snapshot[n \in 0 .. Len(all)] ==
        IF n = 0 THEN [k \in Kinds |-> 0] ELSE AddCard(snapshot[n - 1], all[n])
  IN snapshot

(* The rows of a card: the fields with a value; where none has one, the    *)
(* lines as they are.                                                      *)
Metrics(node, s) ==
  LET known == {field \in DOMAIN s : s[field] # None}
  IN [fields |-> known, lines |-> IF known = {} THEN node.infolist ELSE <<>>]

Card(node) ==
  LET kind == ComponentKind(node)  s == Section(kind, Joined(node))
  IN [kind |-> kind, section |-> s, metrics |-> Metrics(node, s)]

(* The last section of a kind replaces those before it. *)
Json(sections) ==
  LET at(k) == {i \in DOMAIN sections : SectionKind(sections[i]) = k}
      text(i) == sections[i].title \o Joined(sections[i])
  IN [k \in {k \in Kinds : at(k) # {}} |-> Section(k, text(Max(at(k))))]

-----------------------------------------------------------------------------
(* Frames. *)

Begin ==
  /\ phase \in {"idle", "end"} /\ frames < MaxFrames
  /\ phase' = "inside"
  /\ frames' = frames + 1
  /\ received' = <<>>
  /\ UNCHANGED <<nodes, cards, level, json>>

ReadLine(line) ==
  /\ phase = "inside" /\ Len(received) < MaxLines
  /\ received' = Append(received, line)
  /\ UNCHANGED <<phase, frames, nodes, cards, level, json>>

(* resolvedata and updatePerformanceModel. *)
ResolveData ==
  /\ phase = "inside"
  /\ phase' = "end"
  /\ nodes' = Nodes(received)
  /\ cards' = [i \in DOMAIN nodes' |-> Card(nodes'[i])]
  /\ level' = Levels(cards')[Len(cards')]
  /\ json' = Json(nodes')
  /\ UNCHANGED <<frames, received>>

Init ==
  /\ phase = "idle" /\ frames = 0
  /\ received = <<>> /\ nodes = <<>> /\ cards = <<>>
  /\ level = [k \in Kinds |-> 0]
  /\ json = <<>>

Next == Begin \/ ResolveData \/ \E line \in Written : ReadLine(line)

Spec == Init /\ [][Next]_vars

-----------------------------------------------------------------------------
(* Properties. *)

(* Frames keep to their bounds, every section is of one of the kinds, and  *)
(* every curve between 0 and 100 (widget.cpp, MetricSnapshot,              *)
(* parseNetworkLevel).                                                     *)
TypeOK ==
  /\ phase \in {"idle", "inside", "end"} /\ frames \in 0 .. MaxFrames
  /\ received \in Seq(Line) /\ Len(received) <= MaxLines
  /\ nodes \in Seq(Node)
  /\ DOMAIN cards = DOMAIN nodes
  /\ \A i \in DOMAIN cards : cards[i].kind \in Kinds \cup {Generic}
  /\ level \in [Kinds -> 0 .. 100]
  /\ DOMAIN json \subseteq Kinds

(* The last title among the first i of the lines.                          *)
TitleOf(lines, i) ==
  LET above == {j \in 1 .. i : lines[j].title}
  IN IF above = {} THEN <<>> ELSE lines[Max(above)].text

(* What has to be kept of a line, and what a section keeps of its lines.   *)
Kept(lines, i) ==
  IF lines[i].text = <<>> THEN <<>>
  ELSE << <<TitleOf(lines, i), IF lines[i].title THEN <<>> ELSE lines[i].text>> >>

Told(node) ==
  (IF node.title # <<>> THEN << <<node.title, <<>>>> >> ELSE <<>>)
    \o [j \in DOMAIN node.infolist |-> <<node.title, node.infolist[j]>>]

(* The sections have every line that is not blank once and in its place,   *)
(* under the title above it, and every title that is not blank, whether or *)
(* not lines follow (widget.cpp resolvedata).                              *)
LinesKeptInPlace ==
  phase = "end" =>
    FlattenSeq([n \in DOMAIN nodes |-> Told(nodes[n])])
      = FlattenSeq([i \in DOMAIN received |-> Kept(received, i)])

(* What a line, and what a section says right behind a label. *)
SaidIn(line, label, what) ==
  {line[i] : i \in {i \in 2 .. Len(line) : line[i - 1].is = label /\ line[i].is = what}}

Said(node, label, what) ==
  UNION {SaidIn(node.infolist[j], label, what) : j \in DOMAIN node.infolist}

(* A label at the end of a line goes with what the next line begins with. *)
EndsIn(node, label) ==
  \E j \in DOMAIN node.infolist :
    node.infolist[j] # <<>> /\ node.infolist[j][Len(node.infolist[j])].is = label

(* Where a line of a section says a power, an upload or a download by its  *)
(* label, the window shows in that place a value that was said so - never  *)
(* one of another label, one without a label, or one that two lines make   *)
(* up between them - whatever else the lines say and in whatever order     *)
(* (widget.cpp join, extractPowerValue, extractRateValues and the          *)
(* positions in its list, updatePerformanceModel).                         *)
ShownAsLabelled ==
  \A i \in DOMAIN cards :
    LET s == cards[i].section
        Shows(value, label, what) ==
          Said(nodes[i], label, what) # {} /\ ~EndsIn(nodes[i], label) =>
            value \in Said(nodes[i], label, what)
    IN /\ cards[i].kind \in {"cpu", "gpu"} => Shows(s.power, "power", "watt")
       /\ cards[i].kind = "network" => /\ Shows(s.upload, "upload", "rate")
                                       /\ Shows(s.download, "download", "rate")

(* A section as CmdMonitor is documented to write it: the name first, no   *)
(* other name after it, no label in the title, and a number in the title   *)
(* only above a labelled temperature.                                      *)
Plain(node) ==
  /\ StartsWith(node.title, {"CPU", "CPU:", "GPU", "GPU:", "Neicun", "Wangluo"})
  /\ LET mine == KindBy(TitleRules, <<node.title[1]>>)
         names == UNION {TitleRules[r].words :
                           r \in {r \in DOMAIN TitleRules : TitleRules[r].kind # mine}}
     IN ~Mentions(node.title \o Joined(node), names)
  /\ ~Mentions(node.title, (Units \ {"model"}) \cup Labels)
  /\ Mentions(node.title, {"model"}) =>
       FirstAt(Joined(node), LAMBDA i : i > 1 /\ Joined(node)[i - 1].is = "temp").is = "celsius"

(* What the window shows of each kind in this frame. *)
ShownLast ==
  LET at(k) == {i \in DOMAIN cards : cards[i].kind = k}
  IN [k \in {k \in Kinds : at(k) # {}} |-> cards[Max(at(k))].section]

(* Window and device are told the same by two sets of rules, as long as    *)
(* sections are written plainly (widget.cpp resolvedata, componentKind).   *)
DeviceAgreesOnPlain ==
  (\A i \in DOMAIN nodes : Plain(nodes[i])) => json = ShownLast
=============================================================================
