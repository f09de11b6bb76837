--------------------------- MODULE SectionsProofs ---------------------------
(***************************************************************************)
(* Sections: what resolvedata and updatePerformanceModel make of a frame,  *)
(* for every set of lines that the monitor may write and frames of every   *)
(* length.                                                                 *)
(***************************************************************************)
EXTENDS Sections, Integers, SequenceTheorems, WellFoundedInduction, TLAPS

-----------------------------------------------------------------------------
(* Induction and recursion. *)

(* A set of numbers has a least one: the first match of a pattern in a     *)
(* text.                                                                   *)
LEMMA LeastExists ==
  ASSUME NEW T \in SUBSET Nat, T # {}
  PROVE  \E x \in T : \A y \in T : x <= y
<1> DEFINE R == OpToRel(<, Nat)
<1>1. IsWellFoundedOn(R, Nat)
  BY NatLessThanWellFounded, Zenon
<1>2. \A x, y \in Nat : x < y => <<x, y>> \in R
  BY Zenon DEF OpToRel
<1> HIDE DEF R
<1>3. PICK x \in T : \A y \in T : ~ (<<y, x>> \in R)
  BY <1>1, WFMin
<1>4. \A y \in T : ~ (y < x)
  <2> SUFFICES ASSUME NEW y \in T, y < x PROVE FALSE
    OBVIOUS
  <2>1. x \in Nat /\ y \in Nat
    OBVIOUS
  <2> QED
    BY <2>1, <1>2, <1>3
<1>5. \A y \in T : x <= y
  BY <1>4
<1> QED
  BY <1>5

(* Induction over the naturals, for the set of those that have a property: *)
(* the loops of resolvedata and updatePerformanceModel are run line by     *)
(* line.                                                                   *)
LEMMA SetInduction ==
  ASSUME NEW S \in SUBSET Nat, 0 \in S, \A n \in S : n + 1 \in S
  PROVE  S = Nat
<1>1. SUFFICES ASSUME S # Nat PROVE FALSE
  OBVIOUS
<1> DEFINE T == Nat \ S
<1>2. PICK x \in T : \A y \in T : x <= y
  BY <1>1, LeastExists
<1>3. x # 0 /\ x - 1 \in Nat /\ x - 1 \notin T
  BY <1>2
<1> QED
  BY <1>3

(* What a loop has after each of L steps, beginning with a, within X.      *)
Runs(g, X, a, L, step) ==
  /\ g \in [0 .. L -> X]
  /\ g[0] = a
  /\ \A n \in 1 .. L : g[n] = step[n][g[n - 1]]

(* Every such loop runs: those over lines and cards do (resolvedata,       *)
(* updatePerformanceModel).                                                *)
LEMMA RecursionHasSolution ==
  ASSUME NEW X, NEW a \in X, NEW L \in Nat, NEW step \in [1 .. L -> [X -> X]]
  PROVE  \E g : Runs(g, X, a, L, step)
<1> DEFINE Solves(g, m) == g[0] = a /\ \A n \in 1 .. m : g[n] = step[n][g[n - 1]]
           S == {m \in Nat : m <= L => \E g \in [0 .. m -> X] : Solves(g, m)}
<1>1. 0 \in S
  <2>1. [n \in 0 .. 0 |-> a] \in [0 .. 0 -> X] /\ Solves([n \in 0 .. 0 |-> a], 0)
    OBVIOUS
  <2> QED
    BY <2>1
<1>2. ASSUME NEW m \in S PROVE m + 1 \in S
  <2>1. m \in Nat
    OBVIOUS
  <2>2. SUFFICES ASSUME m + 1 <= L PROVE \E g \in [0 .. m + 1 -> X] : Solves(g, m + 1)
    BY <2>1
  <2>3. PICK g \in [0 .. m -> X] : Solves(g, m)
    BY <2>1, <2>2
  <2> DEFINE h == [n \in 0 .. m + 1 |-> IF n = m + 1 THEN step[m + 1][g[m]] ELSE g[n]]
  <2>4. step[m + 1][g[m]] \in X
    BY <2>1, <2>2, <2>3
  <2>5. h \in [0 .. m + 1 -> X]
    BY <2>1, <2>3, <2>4
  <2>6. h[0] = a
    BY <2>1, <2>3
  <2>7. ASSUME NEW n \in 1 .. m + 1 PROVE h[n] = step[n][h[n - 1]]
    <3>1. CASE n = m + 1
      BY <3>1, <2>1
    <3>2. CASE n # m + 1
      BY <3>2, <2>1, <2>3
    <3> QED
      BY <3>1, <3>2
  <2> HIDE DEF h
  <2> QED
    BY <2>5, <2>6, <2>7
<1>3. S = Nat
  <2>1. S \in SUBSET Nat
    OBVIOUS
  <2> HIDE DEF S
  <2> QED
    BY <1>1, <1>2, <2>1, SetInduction
<1> QED
  BY <1>3 DEF Runs

-----------------------------------------------------------------------------
(* Lines joined to a text. *)

(* The text after n of the sequences is the one before with the n-th       *)
(* behind it (QStringList::join).                                          *)
Joins(f, ss, T) ==
  /\ f \in [0 .. Len(ss) -> Seq(T)]
  /\ f[0] = <<>>
  /\ \A n \in 1 .. Len(ss) : f[n] = f[n - 1] \o ss[n]

(* Joining a sequence of sequences goes through one after the other.       *)
LEMMA FlattenRuns ==
  ASSUME NEW T, NEW ss \in Seq(Seq(T))
  PROVE  \E f : Joins(f, ss, T) /\ FlattenSeq(ss) = f[Len(ss)]
<1> DEFINE L == Len(ss)
           X == Seq(T)
           none == <<>>
           step == [n \in 1 .. L |-> [x \in X |-> x \o ss[n]]]
<1>1. L \in Nat /\ none \in X /\ \A n \in 1 .. L : ss[n] \in X
  BY LenProperties, EmptySeq
<1>2. \A x, y \in X : x \o y \in X
  BY ConcatProperties
<1>3. step \in [1 .. L -> [X -> X]]
  BY <1>1, <1>2
<1>4. \A n \in 1 .. L : \A x \in X : step[n][x] = x \o ss[n]
  OBVIOUS
<1>5. \A x \in X : none \o x = x
  BY ConcatEmptySeq
<1> HIDE DEF step, X, none, L
<1>6. PICK g : Runs(g, X, none, L, step)
  BY <1>1, <1>3, RecursionHasSolution
<1>7. g[0] = none
  BY <1>6 DEF Runs
<1>8. ASSUME NEW n \in 1 .. L
      PROVE  g[n] = g[n - 1] \o ss[n]
  <2>1. g[n - 1] \in X
    BY <1>1, <1>6 DEF Runs
  <2> QED
    BY <1>4, <1>6, <2>1 DEF Runs
<1>9. Joins(g, ss, T)
  BY <1>6, <1>7, <1>8 DEF Runs, Joins, L, X, none
<1>10. CASE L = 0
  <2>1. FlattenSeq(ss) = ss
    BY <1>10 DEF FlattenSeq, L
  <2>2. ss = none
    BY <1>10, EmptySeq DEF L, none
  <2> QED
    BY <1>7, <1>9, <1>10, <2>1, <2>2 DEF L
<1>11. CASE L # 0
  <2> DEFINE Solves(f) ==
               f = [i \in 1 .. L |-> IF i = 1 THEN ss[i] ELSE f[i - 1] \o ss[i]]
             c == CHOOSE f : Solves(f)
             h == [n \in 1 .. L |-> g[n]]
  <2>1. FlattenSeq(ss) = c[L]
    BY <1>11, Zenon DEF FlattenSeq, L
  <2>2. h = [i \in 1 .. L |-> IF i = 1 THEN ss[i] ELSE h[i - 1] \o ss[i]]
    <3>1. ASSUME NEW i \in 1 .. L
          PROVE  h[i] = IF i = 1 THEN ss[i] ELSE h[i - 1] \o ss[i]
      <4>1. h[i] = g[i - 1] \o ss[i]
        BY <1>8
      <4>2. CASE i = 1
        <5>1. g[i - 1] = none /\ ss[i] \in X
          BY <1>1, <1>7, <4>2
        <5> QED
          BY <1>5, <4>1, <4>2, <5>1
      <4>3. CASE i # 1
        <5>1. i - 1 \in 1 .. L
          BY <1>1, <4>3
        <5>2. h[i - 1] = g[i - 1]
          BY <5>1
        <5> QED
          BY <4>1, <4>3, <5>2
      <4> QED
        BY <4>2, <4>3
    <3> QED
      BY <3>1, Zenon
  <2>3. Solves(c)
    <3>1. Solves(h)
      BY <2>2
    <3> HIDE DEF h, Solves
    <3> QED
      BY <3>1
  <2> HIDE DEF c
  <2>4. \A i \in 1 .. L : c[i] = IF i = 1 THEN ss[i] ELSE c[i - 1] \o ss[i]
    BY <2>3, Zenon
  <2> DEFINE S == {n \in Nat : n + 1 <= L => c[n + 1] = g[n + 1]}
  <2>5. 0 \in S
    <3>1. 1 \in 1 .. L /\ ss[1] \in X
      BY <1>1, <1>11
    <3>2. c[1] = ss[1]
      BY <3>1, <2>4
    <3>3. g[1] = g[1 - 1] \o ss[1]
      BY <3>1, <1>8
    <3>4. g[1 - 1] = none
      BY <1>7
    <3>5. c[1] = g[1]
      BY <1>5, <3>1, <3>2, <3>3, <3>4, Zenon
    <3> QED
      BY <3>5
  <2>6. ASSUME NEW n \in S PROVE n + 1 \in S
    <3>1. SUFFICES ASSUME (n + 1) + 1 <= L PROVE c[(n + 1) + 1] = g[(n + 1) + 1]
      OBVIOUS
    <3>2. (n + 1) + 1 \in 1 .. L /\ (n + 1) + 1 # 1 /\ ((n + 1) + 1) - 1 = n + 1
      BY <1>1, <3>1
    <3>3. c[n + 1] = g[n + 1]
      BY <1>1, <3>1
    <3>4. c[(n + 1) + 1] = c[n + 1] \o ss[(n + 1) + 1]
      BY <2>4, <3>2
    <3>5. g[(n + 1) + 1] = g[n + 1] \o ss[(n + 1) + 1]
      BY <1>8, <3>2
    <3> QED
      BY <3>3, <3>4, <3>5
  <2>7. S = Nat
    <3>1. S \in SUBSET Nat
      OBVIOUS
    <3> HIDE DEF S
    <3> QED
      BY <2>5, <2>6, <3>1, SetInduction
  <2>8. L - 1 \in Nat /\ (L - 1) + 1 = L /\ L <= L
    BY <1>1, <1>11
  <2>9. c[L] = g[L]
    BY <2>7, <2>8
  <2> QED
    BY <1>9, <2>1, <2>9 DEF L
<1> QED
  BY <1>10, <1>11

(* Joined texts are texts.                                                 *)
LEMMA FlattenType ==
  ASSUME NEW T, NEW ss \in Seq(Seq(T))
  PROVE  FlattenSeq(ss) \in Seq(T)
<1>1. PICK f : Joins(f, ss, T) /\ FlattenSeq(ss) = f[Len(ss)]
  BY FlattenRuns
<1>2. Len(ss) \in Nat
  BY LenProperties
<1> QED
  BY <1>1, <1>2 DEF Joins

(* One line more comes behind what was joined before.                      *)
LEMMA FlattenAppend ==
  ASSUME NEW T, NEW ss \in Seq(Seq(T)), NEW s \in Seq(T)
  PROVE  FlattenSeq(Append(ss, s)) = FlattenSeq(ss) \o s
<1> DEFINE L == Len(ss)  tt == Append(ss, s)
<1>1. L \in Nat /\ tt \in Seq(Seq(T)) /\ Len(tt) = L + 1 /\ tt[L + 1] = s
      /\ \A n \in 1 .. L : tt[n] = ss[n]
  BY AppendProperties, LenProperties
<1> HIDE DEF tt, L
<1>2. PICK f : Joins(f, ss, T) /\ FlattenSeq(ss) = f[L]
  BY FlattenRuns DEF L
<1>3. PICK g : Joins(g, tt, T) /\ FlattenSeq(tt) = g[Len(tt)]
  BY <1>1, FlattenRuns
<1> DEFINE S == {n \in Nat : n <= L => f[n] = g[n]}
<1>4. 0 \in S
  BY <1>2, <1>3 DEF Joins
<1>5. ASSUME NEW n \in S PROVE n + 1 \in S
  <2>1. SUFFICES ASSUME n + 1 <= L PROVE f[n + 1] = g[n + 1]
    OBVIOUS
  <2>2. n + 1 \in 1 .. L /\ n + 1 \in 1 .. L + 1 /\ (n + 1) - 1 = n
    BY <1>1, <2>1
  <2>3. f[n + 1] = f[n] \o ss[n + 1]
    BY <1>2, <2>2 DEF Joins, L
  <2>4. g[n + 1] = g[n] \o tt[n + 1]
    BY <1>1, <1>3, <2>2 DEF Joins
  <2>5. f[n] = g[n]
    BY <1>1, <2>1
  <2> QED
    BY <1>1, <2>2, <2>3, <2>4, <2>5
<1>6. S = Nat
  <2>1. S \in SUBSET Nat
    OBVIOUS
  <2> HIDE DEF S
  <2> QED
    BY <1>4, <1>5, <2>1, SetInduction
<1>7. f[L] = g[L]
  BY <1>1, <1>6
<1>8. g[L + 1] = g[L] \o s
  <2>1. L + 1 \in 1 .. L + 1 /\ (L + 1) - 1 = L
    BY <1>1
  <2> QED
    BY <1>1, <1>3, <2>1 DEF Joins
<1> QED
  BY <1>1, <1>2, <1>3, <1>7, <1>8 DEF tt

-----------------------------------------------------------------------------
(* Lines to sections. *)

(* What the loop of resolvedata has: the result and the current node.      *)
Loop == [result : Seq(Node), current : Node]

(* An empty section is a section, without a title and without lines.       *)
LEMMA NoNodeType == NoNode \in Node /\ NoNode.title = <<>> /\ NoNode.infolist = <<>>
  BY EmptySeq DEF NoNode, Node, Text

(* The current node goes to the result whole.                              *)
LEMMA WithCurrentType ==
  ASSUME NEW so \in Loop
  PROVE  WithCurrent(so) \in Seq(Node)
<1>1. so.result \in Seq(Node) /\ so.current \in Node
  BY DEF Loop
<1>2. Append(so.result, so.current) \in Seq(Node)
  BY <1>1, AppendProperties
<1> QED
  BY <1>1, <1>2 DEF WithCurrent

(* A line leaves the loop with sections.                                   *)
LEMMA AddLineType ==
  ASSUME NEW so \in Loop, NEW line \in Line
  PROVE  AddLine(so, line) \in Loop
<1>1. so.result \in Seq(Node) /\ so.current \in Node
      /\ so = [result |-> so.result, current |-> so.current]
  BY DEF Loop
<1>2. line.text \in Text /\ line.title \in BOOLEAN
  BY DEF Line
<1>3. CASE line.title
  <2>1. [NoNode EXCEPT !.title = line.text] \in Node
    BY <1>2, NoNodeType DEF Node
  <2>2. AddLine(so, line)
          = [result |-> WithCurrent(so), current |-> [NoNode EXCEPT !.title = line.text]]
    BY <1>3 DEF AddLine
  <2> QED
    BY <2>1, <2>2, WithCurrentType DEF Loop
<1>4. CASE ~line.title /\ line.text # <<>>
  <2>1. Append(so.current.infolist, line.text) \in Seq(Text)
    BY <1>1, <1>2, AppendProperties DEF Node
  <2>2. AddLine(so, line)
          = [so EXCEPT !.current.infolist = Append(so.current.infolist, line.text)]
    BY <1>4 DEF AddLine
  <2> DEFINE more == Append(so.current.infolist, line.text)
  <2> HIDE DEF more
  <2>3. [so EXCEPT !.current.infolist = more] \in Loop
    <3>1. more \in Seq(Text)
      BY <2>1 DEF more
    <3> QED
      BY <3>1 DEF Loop, Node
  <2> QED
    BY <2>2, <2>3 DEF more
<1>5. CASE ~line.title /\ line.text = <<>>
  BY <1>5 DEF AddLine
<1> QED
  BY <1>2, <1>3, <1>4, <1>5

(* The loop of resolvedata is run line by line, from nothing.              *)
LEMMA DividedRuns ==
  ASSUME NEW lines \in Seq(Line)
  PROVE  /\ Divided(lines)[0] = [result |-> <<>>, current |-> NoNode]
         /\ \A n \in 1 .. Len(lines) :
              Divided(lines)[n] = AddLine(Divided(lines)[n - 1], lines[n])
         /\ \A n \in 0 .. Len(lines) : Divided(lines)[n] \in Loop
<1> DEFINE L == Len(lines)
           a == [result |-> <<>>, current |-> NoNode]
           X == Loop
           step == [n \in 1 .. L |-> [so \in X |-> AddLine(so, lines[n])]]
           Solves(so) ==
             so = [n \in 0 .. L |-> IF n = 0 THEN a ELSE AddLine(so[n - 1], lines[n])]
           c == CHOOSE so : Solves(so)
<1>1. L \in Nat /\ \A n \in 1 .. L : lines[n] \in Line
  BY LenProperties
<1>2. a \in X
  BY EmptySeq, NoNodeType DEF Loop
<1>3. \A n \in 1 .. L : \A so \in X : AddLine(so, lines[n]) \in X
  BY <1>1, AddLineType
<1>4. step \in [1 .. L -> [X -> X]]
  BY <1>3
<1>5. \A n \in 1 .. L : \A so \in X : step[n][so] = AddLine(so, lines[n])
  OBVIOUS
<1>6. Divided(lines) = c
  BY Zenon DEF Divided
<1> HIDE DEF step, X, a, L
<1>7. PICK g : Runs(g, X, a, L, step)
  BY <1>1, <1>2, <1>4, RecursionHasSolution
<1>8. Solves(g)
  <2>1. \A n \in 1 .. L : g[n - 1] \in X
    BY <1>1, <1>7 DEF Runs
  <2>2. \A n \in 1 .. L : g[n] = AddLine(g[n - 1], lines[n])
    BY <1>5, <1>7, <2>1 DEF Runs
  <2>3. g = [n \in 0 .. L |-> g[n]]
    BY <1>7 DEF Runs
  <2>4. \A n \in 0 .. L : g[n] = IF n = 0 THEN a ELSE AddLine(g[n - 1], lines[n])
    BY <1>1, <1>7, <2>2 DEF Runs
  <2> QED
    BY <2>3, <2>4, Zenon
<1>9. Solves(c)
  <2> HIDE DEF Solves
  <2> QED
    BY <1>8
<1> HIDE DEF c
<1>10. \A n \in 0 .. L : c[n] = IF n = 0 THEN a ELSE AddLine(c[n - 1], lines[n])
  BY <1>9, Zenon
<1>11. c[0] = a /\ \A n \in 1 .. L : c[n] = AddLine(c[n - 1], lines[n])
  BY <1>1, <1>10
<1> DEFINE S == {n \in Nat : n <= L => c[n] \in X}
<1>12. 0 \in S
  BY <1>2, <1>11
<1>13. ASSUME NEW n \in S PROVE n + 1 \in S
  <2>1. SUFFICES ASSUME n + 1 <= L PROVE c[n + 1] \in X
    OBVIOUS
  <2>2. n + 1 \in 1 .. L /\ (n + 1) - 1 = n /\ c[n] \in X
    BY <1>1, <2>1
  <2> QED
    BY <1>3, <1>11, <2>2
<1>14. S = Nat
  <2>1. S \in SUBSET Nat
    OBVIOUS
  <2> HIDE DEF S
  <2> QED
    BY <1>12, <1>13, <2>1, SetInduction
<1>15. \A n \in 0 .. L : c[n] \in X
  BY <1>1, <1>14
<1> QED
  BY <1>6, <1>11, <1>15 DEF L, X, a

(* What is read from a frame is a sequence of sections.                    *)
LEMMA NodesType ==
  ASSUME NEW lines \in Seq(Line)
  PROVE  Nodes(lines) \in Seq(Node)
<1>1. Len(lines) \in 0 .. Len(lines)
  BY LenProperties
<1> QED
  BY <1>1, DividedRuns, WithCurrentType DEF Nodes

-----------------------------------------------------------------------------
(* Every line in its place. *)

(* A member no other exceeds is the greatest one.                          *)
LEMMA MaxIs ==
  ASSUME NEW S \in SUBSET Int, NEW m \in S, \A n \in S : m >= n
  PROVE  Max(S) = m
<1>1. \A x \in S : (\A y \in S : x >= y) => x = m
  <2> SUFFICES ASSUME NEW x \in S, \A y \in S : x >= y PROVE x = m
    OBVIOUS
  <2>1. x \in Int /\ m \in Int /\ x >= m /\ m >= x
    OBVIOUS
  <2> QED
    BY <2>1
<1> QED
  BY <1>1, Zenon DEF Max

(* What has one element more than a sequence is the sequence with it.      *)
HasMore(f, seq, elt) ==
  /\ f = [j \in 1 .. Len(seq) + 1 |-> f[j]]
  /\ f[Len(seq) + 1] = elt
  /\ \A j \in 1 .. Len(seq) : f[j] = seq[j]

(* What keeps the elements of a sequence and has one more is the sequence  *)
(* with that one appended.                                                 *)
LEMMA IsAppended ==
  ASSUME NEW S, NEW seq \in Seq(S), NEW elt \in S, NEW f, HasMore(f, seq, elt)
  PROVE  f = Append(seq, elt)
<1> DEFINE k == Len(seq)  more == Append(seq, elt)
<1>1. k \in Nat /\ more \in Seq(S) /\ Len(more) = k + 1 /\ more[k + 1] = elt
      /\ \A j \in 1 .. k : more[j] = seq[j]
  BY LenProperties, AppendProperties
<1>2. more = [j \in 1 .. k + 1 |-> more[j]]
  <2> HIDE DEF more, k
  <2>1. more \in [1 .. k + 1 -> S]
    BY <1>1, LenProperties
  <2> QED
    BY <2>1
<1>3. \A j \in 1 .. k + 1 : more[j] = f[j]
  <2> HIDE DEF more
  <2> QED
    BY <1>1 DEF HasMore
<1> HIDE DEF more, k
<1>4. f = [j \in 1 .. k + 1 |-> f[j]]
  BY DEF k, HasMore
<1> QED
  BY <1>2, <1>3, <1>4 DEF more

(* A title and a line of it, or no line: what is said of sections.         *)
Entry == Text \X Text

(* What a section tells is a sequence of texts under their titles.         *)
LEMMA ToldType ==
  ASSUME NEW node \in Node
  PROVE  Told(node) \in Seq(Entry)
<1>1. node.title \in Text /\ node.infolist \in Seq(Text) /\ <<>> \in Text
  BY EmptySeq DEF Node, Text
<1>2. Len(node.infolist) \in Nat /\ DOMAIN node.infolist = 1 .. Len(node.infolist)
      /\ \A j \in DOMAIN node.infolist : node.infolist[j] \in Text
  BY <1>1, LenProperties
<1>3. [j \in DOMAIN node.infolist |-> <<node.title, node.infolist[j]>>] \in Seq(Entry)
  <2> DEFINE k == Len(node.infolist)
  <2>1. \A j \in 1 .. k : <<node.title, node.infolist[j]>> \in Entry
    BY <1>1, <1>2 DEF Entry
  <2> HIDE DEF k
  <2>2. [j \in 1 .. k |-> <<node.title, node.infolist[j]>>] \in Seq(Entry)
    BY <1>2, <2>1 DEF k
  <2> QED
    BY <1>2, <2>2 DEF k
<1>4. << <<node.title, <<>>>> >> \in Seq(Entry)
  BY <1>1 DEF Entry
<1>5. <<>> \in Seq(Entry)
  BY EmptySeq
<1> QED
  BY <1>3, <1>4, <1>5, ConcatProperties DEF Told

(* An empty section tells nothing.                                         *)
LEMMA ToldNothing == Told(NoNode) = <<>>
<1>1. NoNode.title = <<>> /\ NoNode.infolist = <<>>
  BY NoNodeType
<1>2. [j \in DOMAIN NoNode.infolist |-> <<NoNode.title, NoNode.infolist[j]>>] = <<>>
  BY <1>1
<1>3. <<>> \o <<>> = <<>>
  BY EmptySeq, ConcatEmptySeq
<1> QED
  BY <1>1, <1>2, <1>3 DEF Told

(* A section is told line by line, and one line more behind the others.    *)
LEMMA ToldAnother ==
  ASSUME NEW node \in Node, NEW text \in Text
  PROVE  Told([node EXCEPT !.infolist = Append(node.infolist, text)])
           = Told(node) \o << <<node.title, text>> >>
<1> DEFINE k == Len(node.infolist)
           more == Append(node.infolist, text)
           title == node.title
           head == IF title # <<>> THEN << <<title, <<>>>> >> ELSE <<>>
           lines == [j \in 1 .. k |-> <<title, node.infolist[j]>>]
           pair == <<title, text>>
<1>1. k \in Nat /\ DOMAIN node.infolist = 1 .. k /\ node.infolist \in Seq(Text)
      /\ title \in Text /\ <<>> \in Text
  BY LenProperties, EmptySeq DEF Node, Text
<1>2. DOMAIN more = 1 .. k + 1 /\ more[k + 1] = text
      /\ \A j \in 1 .. k : more[j] = node.infolist[j]
  BY <1>1, AppendProperties
<1>3. lines \in Seq(Entry) /\ Len(lines) = k
  <2>1. \A j \in 1 .. k : <<title, node.infolist[j]>> \in Entry
    BY <1>1, LenProperties DEF Entry
  <2> HIDE DEF k
  <2> QED
    BY <1>1, <2>1
<1>4. pair \in Entry /\ head \in Seq(Entry)
  <2>1. pair \in Entry /\ <<title, <<>>>> \in Entry
    BY <1>1 DEF Entry
  <2>2. << <<title, <<>>>> >> \in Seq(Entry) /\ <<>> \in Seq(Entry)
    BY <2>1, EmptySeq
  <2> QED
    BY <2>1, <2>2
<1>5. [node EXCEPT !.infolist = more].title = title
      /\ [node EXCEPT !.infolist = more].infolist = more
  BY DEF Node
<1>6. [j \in DOMAIN more |-> <<title, more[j]>>] = Append(lines, pair)
  <2> DEFINE all == [j \in 1 .. k + 1 |-> <<title, more[j]>>]
  <2>1. ASSUME NEW j \in 1 .. k PROVE all[j] = lines[j]
    <3>1. lines[j] = <<title, node.infolist[j]>>
      OBVIOUS
    <3>2. j \in 1 .. k + 1
      BY <1>1
    <3>3. all[j] = <<title, more[j]>>
      BY <3>2, Zenon
    <3> QED
      BY <1>2, <3>1, <3>3, Zenon
  <2>2. all[k + 1] = pair
    <3>1. k + 1 \in 1 .. k + 1
      BY <1>1
    <3> HIDE DEF more, k
    <3> QED
      BY <1>2, <3>1
  <2>3. all = [j \in 1 .. k + 1 |-> all[j]]
    OBVIOUS
  <2> HIDE DEF lines, pair, all
  <2>4. all = Append(lines, pair)
    <3>1. HasMore(all, lines, pair)
      BY <1>3, <2>1, <2>2, <2>3 DEF HasMore
    <3> QED
      BY <1>3, <1>4, <3>1, IsAppended
  <2> HIDE DEF more
  <2> QED
    BY <1>2, <2>4 DEF all
<1>7. Append(lines, pair) = lines \o <<pair>>
  <2> HIDE DEF lines, pair
  <2> QED
    BY <1>3, <1>4, AppendIsConcat
<1>8. Told([node EXCEPT !.infolist = more]) = head \o (lines \o <<pair>>)
  <2> DEFINE longer == [node EXCEPT !.infolist = more]
  <2> HIDE DEF longer
  <2>1. Told(longer) = (IF title # <<>> THEN << <<title, <<>>>> >> ELSE <<>>)
                         \o [j \in DOMAIN more |-> <<title, more[j]>>]
    <3>1. longer.title = title /\ longer.infolist = more
      BY <1>5 DEF longer
    <3> HIDE DEF title, more
    <3> QED
      BY <3>1, Zenon DEF Told
  <2> HIDE DEF more, lines
  <2> QED
    BY <1>6, <1>7, <2>1 DEF longer
<1>9. Told(node) = head \o lines
  BY <1>1, Zenon DEF Told
<1>10. head \o (lines \o <<pair>>) = (head \o lines) \o <<pair>>
  <2>1. <<pair>> \in Seq(Entry)
    BY <1>4
  <2> HIDE DEF lines, pair, head
  <2> QED
    BY <1>3, <1>4, <2>1, ConcatAssociative
<1> QED
  BY <1>8, <1>9, <1>10, Zenon

(* What all sections tell.                                                 *)
ToldAll(sections) == [n \in DOMAIN sections |-> Told(sections[n])]

(* Every section tells something of its own.                               *)
LEMMA ToldAllType ==
  ASSUME NEW sections \in Seq(Node)
  PROVE  ToldAll(sections) \in Seq(Seq(Entry)) /\ Len(ToldAll(sections)) = Len(sections)
<1> DEFINE k == Len(sections)
<1>1. k \in Nat /\ DOMAIN sections = 1 .. k
  BY LenProperties
<1>2. \A n \in 1 .. k : Told(sections[n]) \in Seq(Entry)
  BY ToldType, LenProperties
<1>3. ToldAll(sections) = [n \in 1 .. k |-> Told(sections[n])]
  BY <1>1, Zenon DEF ToldAll
<1> HIDE DEF k
<1>4. [n \in 1 .. k |-> Told(sections[n])] \in Seq(Seq(Entry))
  BY <1>1, <1>2
<1>5. Len([n \in 1 .. k |-> Told(sections[n])]) = k
  BY <1>1, <1>2
<1> QED
  BY <1>3, <1>4, <1>5 DEF k

(* The sections with the current one tell what the others do, and then     *)
(* what it does.                                                           *)
LEMMA ToldWithCurrent ==
  ASSUME NEW so \in Loop
  PROVE  FlattenSeq(ToldAll(WithCurrent(so)))
           = FlattenSeq(ToldAll(so.result)) \o Told(so.current)
<1> DEFINE k == Len(so.result)
           others == ToldAll(so.result)
           last == Told(so.current)
           more == Append(so.result, so.current)
<1>1. so.result \in Seq(Node) /\ so.current \in Node
  BY DEF Loop
<1>2. others \in Seq(Seq(Entry)) /\ Len(others) = k /\ last \in Seq(Entry) /\ k \in Nat
  BY <1>1, ToldAllType, ToldType, LenProperties
<1>3. CASE so.current = NoNode
  <2>1. last = <<>> /\ WithCurrent(so) = so.result
    BY <1>3, ToldNothing DEF WithCurrent
  <2>2. FlattenSeq(others) \in Seq(Entry)
    BY <1>2, FlattenType
  <2>3. FlattenSeq(others) \o <<>> = FlattenSeq(others)
    BY <2>2, ConcatEmptySeq
  <2> QED
    BY <2>1, <2>3
<1>4. CASE so.current # NoNode
  <2>1. WithCurrent(so) = more
    BY <1>4 DEF WithCurrent
  <2>2. DOMAIN more = 1 .. k + 1 /\ more[k + 1] = so.current
        /\ \A n \in 1 .. k : more[n] = so.result[n]
    BY <1>1, <1>2, AppendProperties
  <2>3. /\ \A n \in 1 .. k : Told(more[n]) = others[n]
        /\ Told(more[k + 1]) = last
    <3>1. \A n \in 1 .. k : others[n] = Told(so.result[n])
      BY <1>1, LenProperties DEF ToldAll
    <3> HIDE DEF k, others, more
    <3> QED
      BY <1>2, <2>2, <3>1
  <2>4. ToldAll(more) = Append(others, last)
    <3>1. ToldAll(more) = [n \in 1 .. k + 1 |-> Told(more[n])]
      BY <2>2, Zenon DEF ToldAll
    <3> DEFINE f == [n \in 1 .. k + 1 |-> Told(more[n])]
    <3>2. f[k + 1] = last /\ \A n \in 1 .. k : f[n] = others[n]
      <4> HIDE DEF k, others, more, last
      <4> QED
        BY <1>2, <2>3
    <3>3. f = [n \in 1 .. k + 1 |-> f[n]]
      OBVIOUS
    <3> HIDE DEF f, others, last, more, k
    <3>4. HasMore(f, others, last)
      BY <1>2, <3>2, <3>3 DEF HasMore
    <3>5. f = Append(others, last)
      BY <1>2, <3>4, IsAppended
    <3> QED
      BY <3>1, <3>5 DEF f
  <2>6. FlattenSeq(Append(others, last)) = FlattenSeq(others) \o last
    BY <1>2, FlattenAppend
  <2> QED
    BY <2>1, <2>4, <2>6
<1> QED
  BY <1>3, <1>4

(* A line of a frame has its text, and is a title or not.                  *)
LEMMA LineType ==
  ASSUME NEW lines \in Seq(Line), NEW n \in 1 .. Len(lines)
  PROVE  lines[n].title \in BOOLEAN /\ lines[n].text \in Text /\ lines[n] \in Line
<1>1. lines[n] \in Line
  BY ElementOfSeq
<1> QED
  BY <1>1 DEF Line

(* The title above a line is the last one: the line itself if it is one,   *)
(* else that above the line before.                                        *)
LEMMA TitleOfNext ==
  ASSUME NEW lines \in Seq(Line), NEW n \in Nat, n + 1 <= Len(lines)
  PROVE  TitleOf(lines, n + 1)
           = IF lines[n + 1].title THEN lines[n + 1].text ELSE TitleOf(lines, n)
<1> DEFINE above(m) == {j \in 1 .. m : lines[j].title}
<1>1. CASE lines[n + 1].title
  <2>1. n + 1 \in above(n + 1) /\ above(n + 1) \in SUBSET Int
        /\ \A j \in above(n + 1) : n + 1 >= j
    BY <1>1
  <2> HIDE DEF above
  <2>2. Max(above(n + 1)) = n + 1 /\ above(n + 1) # {}
    BY <2>1, MaxIs
  <2> QED
    BY <1>1, <2>2, Zenon DEF TitleOf, above
<1>2. CASE ~lines[n + 1].title
  <2>1. above(n + 1) = above(n)
    BY <1>2
  <2> QED
    BY <1>2, <2>1, Zenon DEF TitleOf, above
<1> QED
  BY <1>1, <1>2

(* Every line stands below a text, the empty one before the first title.   *)
LEMMA TitleOfType ==
  ASSUME NEW lines \in Seq(Line), NEW n \in 0 .. Len(lines)
  PROVE  TitleOf(lines, n) \in Text
<1> DEFINE S == {m \in Nat : m <= Len(lines) => TitleOf(lines, m) \in Text}
<1>1. Len(lines) \in Nat /\ \A m \in 1 .. Len(lines) : lines[m].text \in Text
  BY LenProperties, LineType
<1>2. 0 \in S
  <2>1. {j \in 1 .. 0 : lines[j].title} = {}
    OBVIOUS
  <2>2. TitleOf(lines, 0) = <<>>
    BY <2>1, Zenon DEF TitleOf
  <2> QED
    BY <2>2, EmptySeq DEF Text
<1>3. ASSUME NEW m \in S PROVE m + 1 \in S
  <2>1. SUFFICES ASSUME m + 1 <= Len(lines) PROVE TitleOf(lines, m + 1) \in Text
    OBVIOUS
  <2>2. m \in Nat /\ m + 1 \in 1 .. Len(lines) /\ TitleOf(lines, m) \in Text
    BY <1>1, <2>1
  <2> QED
    BY <1>1, <2>1, <2>2, TitleOfNext
<1>4. S = Nat
  <2>1. S \in SUBSET Nat
    OBVIOUS
  <2> HIDE DEF S
  <2> QED
    BY <1>2, <1>3, <2>1, SetInduction
<1> QED
  BY <1>1, <1>4

(* What has to be kept of a line is a sequence of texts under their        *)
(* titles.                                                                 *)
LEMMA KeptType ==
  ASSUME NEW lines \in Seq(Line), NEW n \in 1 .. Len(lines)
  PROVE  Kept(lines, n) \in Seq(Entry)
<1>1. TitleOf(lines, n) \in Text /\ lines[n].text \in Text
  <2>1. n \in 0 .. Len(lines)
    BY LenProperties
  <2> QED
    BY <2>1, TitleOfType, LineType
<1>5. <<>> \in Text
  BY EmptySeq DEF Text
<1> DEFINE said == <<TitleOf(lines, n), IF lines[n].title THEN <<>> ELSE lines[n].text>>
<1>2. said \in Entry
  BY <1>1, <1>5 DEF Entry
<1>3. <<said>> \in Seq(Entry) /\ <<>> \in Seq(Entry)
  <2> HIDE DEF said
  <2> QED
    BY <1>2, EmptySeq
<1>4. Kept(lines, n) = IF lines[n].text = <<>> THEN <<>> ELSE <<said>>
  BY Zenon DEF Kept
<1> HIDE DEF said
<1> QED
  BY <1>3, <1>4

(* What has to be kept of the first n of the lines.                        *)
KeptUpTo(lines, n) == FlattenSeq([i \in 1 .. n |-> Kept(lines, i)])

(* What has to be kept up to a line is what had to be before, and then     *)
(* that of the line.                                                       *)
LEMMA KeptUpToNext ==
  ASSUME NEW lines \in Seq(Line), NEW n \in Nat, n + 1 <= Len(lines)
  PROVE  /\ KeptUpTo(lines, n) \in Seq(Entry)
         /\ KeptUpTo(lines, n + 1) = KeptUpTo(lines, n) \o Kept(lines, n + 1)
<1> DEFINE before == [i \in 1 .. n |-> Kept(lines, i)]
           with == [i \in 1 .. n + 1 |-> Kept(lines, i)]
<1>1. \A i \in 1 .. n + 1 : Kept(lines, i) \in Seq(Entry)
  BY KeptType, LenProperties
<1>2. before \in Seq(Seq(Entry)) /\ Len(before) = n
  BY <1>1
<1>3. with[n + 1] = Kept(lines, n + 1) /\ \A i \in 1 .. n : with[i] = before[i]
  OBVIOUS
<1>4. with = [i \in 1 .. n + 1 |-> with[i]]
  OBVIOUS
<1> HIDE DEF before, with
<1>5. HasMore(with, before, Kept(lines, n + 1))
  BY <1>2, <1>3, <1>4 DEF HasMore
<1>6. with = Append(before, Kept(lines, n + 1)) /\ Kept(lines, n + 1) \in Seq(Entry)
  BY <1>1, <1>2, <1>5, IsAppended
<1>7. FlattenSeq(with) = FlattenSeq(before) \o Kept(lines, n + 1)
  BY <1>2, <1>6, FlattenAppend
<1>8. FlattenSeq(before) \in Seq(Entry)
  BY <1>2, FlattenType
<1> QED
  BY <1>7, <1>8, Zenon DEF KeptUpTo, before, with

(* A line adds to what the sections tell what has to be kept of it.        *)
LEMMA LineIsTold ==
  ASSUME NEW lines \in Seq(Line), NEW n \in Nat, n + 1 <= Len(lines), NEW so \in Loop,
         so.current.title = TitleOf(lines, n),
         FlattenSeq(ToldAll(WithCurrent(so))) = KeptUpTo(lines, n)
  PROVE  LET after == AddLine(so, lines[n + 1]) IN
           /\ after.current.title = TitleOf(lines, n + 1)
           /\ FlattenSeq(ToldAll(WithCurrent(after))) = KeptUpTo(lines, n + 1)
<1> DEFINE line == lines[n + 1]
           after == AddLine(so, line)
           told(s) == FlattenSeq(ToldAll(s))
<1>1. line \in Line /\ line.text \in Text /\ line.title \in BOOLEAN
      /\ Kept(lines, n + 1) \in Seq(Entry)
  <2>1. n + 1 \in 1 .. Len(lines)
    BY LenProperties
  <2> QED
    BY <2>1, LineType, KeptType
<1>2. so.result \in Seq(Node) /\ so.current \in Node /\ so.current.infolist \in Seq(Text)
  BY DEF Loop, Node
<1>3. after \in Loop
  BY <1>1, AddLineType
<1>4. told(WithCurrent(after)) = told(after.result) \o Told(after.current)
  BY <1>3, ToldWithCurrent
<1>5. KeptUpTo(lines, n + 1) = KeptUpTo(lines, n) \o Kept(lines, n + 1)
      /\ KeptUpTo(lines, n) \in Seq(Entry)
  BY KeptUpToNext
<1>6. TitleOf(lines, n + 1) = IF line.title THEN line.text ELSE TitleOf(lines, n)
  BY TitleOfNext
<1>7. CASE line.title
  <2>1. after.result = WithCurrent(so) /\ after.current = [NoNode EXCEPT !.title = line.text]
    BY <1>7 DEF AddLine
  <2>2. after.current.title = line.text /\ after.current.infolist = <<>>
    BY <2>1, NoNodeType DEF Node
  <2>3. Told(after.current) = Kept(lines, n + 1)
    <3> DEFINE said == IF line.text # <<>> THEN << <<line.text, <<>>>> >> ELSE <<>>
    <3>1. [j \in DOMAIN <<>> |-> <<line.text, <<>>[j]>>] = <<>>
      OBVIOUS
    <3>2. Told(after.current) = said \o [j \in DOMAIN <<>> |-> <<line.text, <<>>[j]>>]
      <4> DEFINE c == after.current  t == line.text
      <4>1. c.title = t /\ c.infolist = <<>>
        BY <2>2
      <4> HIDE DEF c, t
      <4>2. Told(c) = (IF t # <<>> THEN << <<t, <<>>>> >> ELSE <<>>)
                        \o [j \in DOMAIN <<>> |-> <<t, <<>>[j]>>]
        BY <4>1, Zenon DEF Told
      <4> QED
        BY <4>2 DEF c, t
    <3>3. Kept(lines, n + 1) = said
      BY <1>6, <1>7, Zenon DEF Kept
    <3>4. said \in Seq(Entry)
      BY <1>1, <3>3
    <3>5. said \o <<>> = said
      <4> HIDE DEF said
      <4> QED
        BY <3>4, ConcatEmptySeq
    <3> HIDE DEF said
    <3> QED
      BY <3>1, <3>2, <3>3, <3>5
  <2> QED
    BY <1>4, <1>5, <1>6, <1>7, <2>1, <2>2, <2>3
<1>8. CASE ~line.title /\ line.text # <<>>
  <2> DEFINE longer == [so.current EXCEPT !.infolist = Append(so.current.infolist, line.text)]
             pair == <<so.current.title, line.text>>
  <2>1. after.result = so.result /\ after.current = longer
    <3> DEFINE more == Append(so.current.infolist, line.text)
    <3>1. after = [so EXCEPT !.current.infolist = more]
      BY <1>8 DEF AddLine
    <3> HIDE DEF more, after
    <3>2. so = [result |-> so.result, current |-> so.current]
      BY DEF Loop
    <3>3. after.result = so.result /\ after.current = [so.current EXCEPT !.infolist = more]
      BY <3>1, <3>2
    <3> QED
      BY <3>3 DEF more
  <2>2. longer.title = so.current.title
    BY <1>2 DEF Node
  <2>3. Told(longer) = Told(so.current) \o <<pair>>
    BY <1>1, <1>2, ToldAnother
  <2>4. Kept(lines, n + 1) = <<pair>>
    BY <1>6, <1>8, Zenon DEF Kept
  <2>5. told(WithCurrent(so)) = told(so.result) \o Told(so.current)
    BY ToldWithCurrent
  <2>6. told(so.result) \in Seq(Entry) /\ Told(so.current) \in Seq(Entry)
        /\ <<pair>> \in Seq(Entry)
    <3>1. ToldAll(so.result) \in Seq(Seq(Entry))
      BY <1>2, ToldAllType
    <3>2. <<pair>> \in Seq(Entry)
      BY <1>1, <2>4
    <3> QED
      BY <1>2, <3>1, <3>2, FlattenType, ToldType
  <2>7. (told(so.result) \o Told(so.current)) \o <<pair>>
          = told(so.result) \o (Told(so.current) \o <<pair>>)
    <3> HIDE DEF told, pair
    <3> QED
      BY <2>6, ConcatAssociative
  <2> HIDE DEF longer, pair, told
  <2> QED
    BY <1>4, <1>5, <1>6, <1>8, <2>1, <2>2, <2>3, <2>4, <2>5, <2>7 DEF told
<1>9. CASE ~line.title /\ line.text = <<>>
  <2>1. after = so
    BY <1>9 DEF AddLine
  <2>2. Kept(lines, n + 1) = <<>>
    BY <1>9, Zenon DEF Kept
  <2>3. KeptUpTo(lines, n) \o <<>> = KeptUpTo(lines, n)
    BY <1>5, ConcatEmptySeq
  <2> QED
    BY <1>5, <1>6, <1>9, <2>1, <2>2, <2>3
<1> QED
  BY <1>1, <1>7, <1>8, <1>9

(* The sections of a frame tell all that has to be kept of its lines, in   *)
(* their order: so it is after every line.                                 *)
LEMMA NodesTellAll ==
  ASSUME NEW lines \in Seq(Line)
  PROVE  FlattenSeq(ToldAll(Nodes(lines))) = KeptUpTo(lines, Len(lines))
<1> DEFINE L == Len(lines)
           so(n) == Divided(lines)[n]
           Right(n) == /\ so(n).current.title = TitleOf(lines, n)
                       /\ FlattenSeq(ToldAll(WithCurrent(so(n)))) = KeptUpTo(lines, n)
           S == {n \in Nat : n <= L => Right(n)}
<1>1. L \in Nat
  BY LenProperties
<1>2. /\ so(0) = [result |-> <<>>, current |-> NoNode]
      /\ \A n \in 1 .. L : so(n) = AddLine(so(n - 1), lines[n])
      /\ \A n \in 0 .. L : so(n) \in Loop
  BY DividedRuns
<1>3. 0 \in S
  <2>1. so(0).current.title = <<>> /\ WithCurrent(so(0)) = <<>>
    BY <1>2, NoNodeType DEF WithCurrent
  <2>2. {j \in 1 .. 0 : lines[j].title} = {}
    OBVIOUS
  <2>3. TitleOf(lines, 0) = <<>>
    BY <2>2, Zenon DEF TitleOf
  <2>4. ToldAll(<<>>) = <<>> /\ [i \in 1 .. 0 |-> Kept(lines, i)] = <<>>
    BY DEF ToldAll
  <2>5. FlattenSeq(<<>>) = <<>>
    BY EmptySeq DEF FlattenSeq
  <2>6. KeptUpTo(lines, 0) = <<>>
    BY <2>4, <2>5 DEF KeptUpTo
  <2> HIDE DEF so
  <2> QED
    BY <2>1, <2>3, <2>4, <2>5, <2>6
<1> HIDE DEF so, L
<1>4. ASSUME NEW n \in S PROVE n + 1 \in S
  <2>1. SUFFICES ASSUME n + 1 <= L PROVE Right(n + 1)
    OBVIOUS
  <2>2. n \in Nat /\ n \in 0 .. L /\ n + 1 \in 1 .. L /\ (n + 1) - 1 = n /\ Right(n)
    BY <1>1, <2>1
  <2>3. so(n) \in Loop /\ so(n + 1) = AddLine(so(n), lines[n + 1])
    BY <1>2, <2>2
  <2>4. n + 1 <= Len(lines)
    BY <2>1 DEF L
  <2> QED
    BY <2>2, <2>3, <2>4, LineIsTold
<1>5. S = Nat
  <2>1. S \in SUBSET Nat
    OBVIOUS
  <2> HIDE DEF S
  <2> QED
    BY <1>3, <1>4, <2>1, SetInduction
<1>6. Right(L)
  BY <1>1, <1>5
<1> QED
  BY <1>6, Zenon DEF Nodes, so, L

-----------------------------------------------------------------------------
(* The values of a section, and what the curves make of them. *)

(* The first match of a pattern is a match, and none is before it.         *)
LEMMA MinIsLeast ==
  ASSUME NEW S \in SUBSET Nat, S # {}
  PROVE  Min(S) \in S /\ \A n \in S : Min(S) <= n
<1>1. \E x \in S : \A y \in S : x <= y
  BY LeastExists
<1> QED
  BY <1>1, Zenon DEF Min

(* A value is a token, or none.                                            *)
Value == Token \cup {None}

(* Whatever a pattern gives, a token or nothing, has a number.             *)
LEMMA ValueType ==
  ASSUME NEW value \in Value
  PROVE  value.n \in Nat
<1>1. CASE value \in Token
  BY <1>1 DEF Token
<1>2. CASE value = None
  BY <1>2 DEF None
<1> QED
  BY <1>1, <1>2 DEF Value

(* Whatever is found in a text is a token of it, or none.                  *)
LEMMA FoundType ==
  ASSUME NEW text \in Text, NEW hits, hits \subseteq DOMAIN text
  PROVE  (IF hits = {} THEN None ELSE text[Min(hits)]) \in Value
<1>1. DOMAIN text \subseteq Nat /\ \A i \in DOMAIN text : text[i] \in Token
  <2>1. text \in Seq(Token)
    BY DEF Text
  <2> HIDE DEF Token
  <2> QED
    BY <2>1, LenProperties
<1>2. CASE hits = {}
  BY <1>2 DEF Value
<1>3. CASE hits # {}
  <2>1. Min(hits) \in hits
    BY <1>1, <1>3, MinIsLeast
  <2> QED
    BY <1>1, <1>3, <2>1 DEF Value
<1> QED
  BY <1>2, <1>3

(* The first match of a pattern is a token or nothing.                     *)
LEMMA FirstType ==
  ASSUME NEW text \in Text, NEW what
  PROVE  First(text, what) \in Value
<1> DEFINE hits == {i \in DOMAIN text : text[i].is = what}
<1>1. First(text, what) = IF hits = {} THEN None ELSE text[Min(hits)]
  BY Zenon DEF First, FirstAt
<1>2. hits \subseteq DOMAIN text
  OBVIOUS
<1> HIDE DEF hits
<1> QED
  BY <1>1, <1>2, FoundType

(* So is the second match.                                                 *)
LEMMA SecondType ==
  ASSUME NEW text \in Text, NEW what
  PROVE  Second(text, what) \in Value
<1> DEFINE hits == {i \in DOMAIN text :
                      text[i].is = what /\ \E j \in DOMAIN text : j < i /\ text[j].is = what}
<1>1. Second(text, what) = IF hits = {} THEN None ELSE text[Min(hits)]
  BY Zenon DEF Second, FirstAt
<1>2. hits \subseteq DOMAIN text
  OBVIOUS
<1> HIDE DEF hits
<1> QED
  BY <1>1, <1>2, FoundType

(* So is the match behind a label.                                         *)
LEMMA LabelledType ==
  ASSUME NEW text \in Text, NEW label, NEW what
  PROVE  Labelled(text, label, what) \in Value
<1> DEFINE hits == {i \in DOMAIN text :
                      i > 1 /\ text[i - 1].is = label /\ text[i].is = what}
<1>1. Labelled(text, label, what) = IF hits = {} THEN None ELSE text[Min(hits)]
  BY Zenon DEF Labelled, FirstAt
<1>2. hits \subseteq DOMAIN text
  OBVIOUS
<1> HIDE DEF hits
<1> QED
  BY <1>1, <1>2, FoundType

(* A list of one value or of two. *)
LEMMA ListsOfTwo ==
  ASSUME NEW a, NEW b
  PROVE  /\ <<a>> # <<>> /\ Len(<<a>>) = 1 /\ 1 \in DOMAIN <<a>> /\ <<a>>[1] = a
         /\ <<a, b>> # <<>> /\ Len(<<a, b>>) = 2
         /\ 1 \in DOMAIN <<a, b>> /\ 2 \in DOMAIN <<a, b>>
         /\ <<a, b>>[1] = a /\ <<a, b>>[2] = b
         /\ <<a>> \o <<b>> = <<a, b>>
         /\ <<a>> \o <<>> = <<a>> /\ <<>> \o <<a>> = <<a>>
<1> DEFINE V == {a, b}
<1>1. <<a>> \in Seq(V) /\ <<b>> \in Seq(V) /\ <<a, b>> \in Seq(V)
  OBVIOUS
<1>2. /\ <<a>> # <<>> /\ Len(<<a>>) = 1 /\ 1 \in DOMAIN <<a>> /\ <<a>>[1] = a
      /\ Len(<<b>>) = 1 /\ <<b>>[1] = b
      /\ <<a, b>> # <<>> /\ Len(<<a, b>>) = 2
      /\ 1 \in DOMAIN <<a, b>> /\ 2 \in DOMAIN <<a, b>>
      /\ <<a, b>>[1] = a /\ <<a, b>>[2] = b
  OBVIOUS
<1>3. <<a>> \o <<>> = <<a>> /\ <<>> \o <<a>> = <<a>>
  BY <1>1, ConcatEmptySeq
<1>4. <<a>> \o <<b>> = <<a, b>>
  <2> DEFINE both == <<a>> \o <<b>>  pair == <<a, b>>
  <2>1. /\ both \in Seq(V) /\ Len(both) = 2
        /\ \A i \in 1 .. 2 : both[i] = IF i <= 1 THEN <<a>>[i] ELSE <<b>>[i - 1]
    BY <1>1, <1>2, ConcatProperties
  <2>2. both[1] = a /\ both[2] = b
    BY <1>2, <2>1
  <2>3. pair \in Seq(V) /\ Len(pair) = 2 /\ pair[1] = a /\ pair[2] = b
    BY <1>1, <1>2
  <2> HIDE DEF both, pair, V
  <2>4. \A i \in 1 .. Len(both) : both[i] = pair[i]
    BY <2>1, <2>2, <2>3
  <2> QED
    BY <2>1, <2>3, <2>4, SeqEqual DEF both, pair
<1> QED
  BY <1>2, <1>3, <1>4

(* The places of upload and download in the list of rates, with and        *)
(* without labels (rates.value).                                           *)
LEMMA RatePlaces ==
  ASSUME NEW text
  PROVE  /\ UploadIn(text) =
              Or(Labelled(text, "upload", "rate"),
                 Or(Labelled(text, "download", "rate"), First(text, "rate")))
         /\ DownloadIn(text) =
              Or(Labelled(text, "download", "rate"),
                 Or(Labelled(text, "upload", "rate"),
                    IF First(text, "rate") = None THEN None
                    ELSE Or(Second(text, "rate"), First(text, "rate"))))
<1> DEFINE up == Labelled(text, "upload", "rate")
           down == Labelled(text, "download", "rate")
           one == First(text, "rate")
           two == Second(text, "rate")
           labelled == IfAny(up) \o IfAny(down)
           found == TwoRates(text)
           rates == RateValues(text)
<1>1. /\ rates = IF labelled # <<>> THEN labelled ELSE found
      /\ found = IF one = None THEN <<>> ELSE IF two = None THEN <<one>> ELSE <<one, two>>
      /\ UploadIn(text) = ValueAt(rates, 1)
      /\ DownloadIn(text) = ValueAt(rates, IF Len(rates) > 1 THEN 2 ELSE 1)
  BY Zenon DEF RateValues, TwoRates, UploadIn, DownloadIn
<1>2. /\ up # None /\ down # None => labelled = <<up, down>>
      /\ up # None /\ down = None => labelled = <<up>>
      /\ up = None /\ down # None => labelled = <<down>>
      /\ up = None /\ down = None => labelled = <<>>
  <2>1. <<>> \o <<>> = <<>>
    <3>1. <<>> \in Seq({})
      BY EmptySeq
    <3> QED
      BY <3>1, ConcatEmptySeq
  <2> HIDE DEF up, down
  <2> QED
    BY <2>1, ListsOfTwo DEF IfAny
<1> HIDE DEF up, down, one, two, labelled, found, rates
<1>3. \A x, y : /\ ValueAt(<<x>>, 1) = x
                /\ ValueAt(<<x, y>>, 1) = x /\ ValueAt(<<x, y>>, 2) = y
  BY ListsOfTwo DEF ValueAt
<1>4. ValueAt(<<>>, 1) = None /\ Len(<<>>) = 0
  BY DEF ValueAt
<1>5. /\ \A x : rates = <<x>> => UploadIn(text) = x /\ DownloadIn(text) = x
      /\ \A x, y : rates = <<x, y>> => UploadIn(text) = x /\ DownloadIn(text) = y
      /\ rates = <<>> => UploadIn(text) = None /\ DownloadIn(text) = None
  <2>1. ASSUME NEW x, rates = <<x>> PROVE UploadIn(text) = x /\ DownloadIn(text) = x
    <3>1. ~(Len(rates) > 1)
      BY <2>1, ListsOfTwo
    <3> QED
      BY <1>1, <1>3, <2>1, <3>1
  <2>2. ASSUME NEW x, NEW y, rates = <<x, y>>
        PROVE  UploadIn(text) = x /\ DownloadIn(text) = y
    <3>1. Len(rates) > 1
      BY <2>2, ListsOfTwo
    <3> QED
      BY <1>1, <1>3, <2>2, <3>1
  <2>3. ASSUME rates = <<>> PROVE UploadIn(text) = None /\ DownloadIn(text) = None
    <3>1. ~(Len(rates) > 1)
      BY <1>4, <2>3
    <3> QED
      BY <1>1, <1>4, <2>3, <3>1
  <2> QED
    BY <2>1, <2>2, <2>3
<1>6. /\ UploadIn(text) = Or(up, Or(down, one))
      /\ DownloadIn(text) = Or(down, Or(up, IF one = None THEN None ELSE Or(two, one)))
  <2>1. CASE up # None /\ down # None
    <3>1. rates = <<up, down>>
      BY <1>1, <1>2, <2>1, ListsOfTwo
    <3> QED
      BY <1>5, <2>1, <3>1 DEF Or
  <2>2. CASE up # None /\ down = None
    <3>1. rates = <<up>>
      BY <1>1, <1>2, <2>2, ListsOfTwo
    <3> QED
      BY <1>5, <2>2, <3>1 DEF Or
  <2>3. CASE up = None /\ down # None
    <3>1. rates = <<down>>
      BY <1>1, <1>2, <2>3, ListsOfTwo
    <3> QED
      BY <1>5, <2>3, <3>1 DEF Or
  <2>4. CASE up = None /\ down = None
    <3>1. rates = IF one = None THEN <<>> ELSE IF two = None THEN <<one>> ELSE <<one, two>>
      BY <1>1, <1>2, <2>4
    <3> QED
      BY <1>5, <2>4, <3>1 DEF Or
  <2> QED
    BY <2>1, <2>2, <2>3, <2>4
<1> QED
  BY <1>6 DEF up, down, one, two

(* So are the rates found in a text (NETWORK).                             *)
LEMMA RatesType ==
  ASSUME NEW text \in Text
  PROVE  UploadIn(text) \in Value /\ DownloadIn(text) \in Value
<1>1. None \in Value
  BY DEF Value
<1> QED
  BY <1>1, RatePlaces, FirstType, SecondType, LabelledType DEF Or

(* So is the power found in a text.                                        *)
LEMMA PowerType ==
  ASSUME NEW text \in Text
  PROVE  PowerIn(text) \in Value
  BY FirstType, LabelledType DEF PowerIn, Or

(* So is the temperature found in a text.                                  *)
LEMMA TemperatureType ==
  ASSUME NEW text \in Text
  PROVE  TemperatureIn(text) \in Value
<1> DEFINE next == {i \in DOMAIN text : i > 1 /\ text[i - 1].is = "temp"}
           alike == {i \in DOMAIN text :
                       \/ text[i].is = "celsius"
                       \/ /\ text[i].is \in Units /\ i < Len(text)
                          /\ text[i + 1].is \in {"cpu", "CPU", "CPU:"}}
           nextValue == IF next = {} THEN None ELSE text[Min(next)]
           alikeValue == IF alike = {} THEN None ELSE text[Min(alike)]
<1>1. next \subseteq DOMAIN text /\ alike \subseteq DOMAIN text
  OBVIOUS
<1>2. TemperatureIn(text) = IF nextValue.is = "celsius" THEN nextValue ELSE alikeValue
  BY Zenon DEF TemperatureIn, LooksLikeCelsius, FirstAt
<1>3. nextValue \in Value /\ alikeValue \in Value
  <2> HIDE DEF next, alike
  <2> QED
    BY <1>1, FoundType
<1> HIDE DEF nextValue, alikeValue
<1> QED
  BY <1>2, <1>3

(* The lines of a section are joined to one text.                          *)
LEMMA JoinedType ==
  ASSUME NEW node \in Node
  PROVE  Joined(node) \in Text
<1>1. node.infolist \in Seq(Seq(Token))
  BY DEF Node, Text
<1> QED
  BY <1>1, FlattenType DEF Joined, Text

-----------------------------------------------------------------------------
(* The kind of a section. *)

(* A text has the kind of one of the rules, or none.                       *)
LEMMA KindByTitle ==
  ASSUME NEW text
  PROVE  KindBy(TitleRules, text) =
           IF Mentions(text, {"cpu", "CPU", "CPU:"}) THEN "cpu"
           ELSE IF Mentions(text, {"gpu", "GPU", "GPU:"}) THEN "gpu"
           ELSE IF Mentions(text, {"memory", "Neicun"}) THEN "memory"
           ELSE IF Mentions(text, {"network", "Wangluo"}) THEN "network"
           ELSE Generic
<1> DEFINE hits == {r \in 1 .. Len(TitleRules) : Mentions(text, TitleRules[r].words)}
           hit == IF hits # {} THEN Min(hits) ELSE 0
<1>1. KindBy(TitleRules, text) = IF hit = 0 THEN Generic ELSE TitleRules[hit].kind
  BY Zenon DEF KindBy, SelectInSeq
<1>2. /\ Len(TitleRules) = 4
      /\ TitleRules[1] = [kind |-> "cpu", words |-> {"cpu", "CPU", "CPU:"}]
      /\ TitleRules[2] = [kind |-> "gpu", words |-> {"gpu", "GPU", "GPU:"}]
      /\ TitleRules[3] = [kind |-> "memory", words |-> {"memory", "Neicun"}]
      /\ TitleRules[4] = [kind |-> "network", words |-> {"network", "Wangluo"}]
  BY DEF TitleRules
<1>3. hits \in SUBSET Nat
  BY <1>2
<1>4. hits # {} => Min(hits) \in hits /\ \A r \in hits : Min(hits) <= r
  <2> HIDE DEF hits
  <2> QED
    BY <1>3, MinIsLeast
<1>5. hits \subseteq 1 .. 4 /\ \A r \in 1 .. 4 : r \in hits <=> Mentions(text, TitleRules[r].words)
  BY <1>2
<1> HIDE DEF hits
<1> DEFINE rule(r) == Mentions(text, TitleRules[r].words)
<1>6. KindBy(TitleRules, text) = IF rule(1) THEN "cpu" ELSE IF rule(2) THEN "gpu"
                                 ELSE IF rule(3) THEN "memory" ELSE IF rule(4) THEN "network"
                                 ELSE Generic
  <2>1. ASSUME NEW r \in 1 .. 4, r \in hits, \A q \in hits : r <= q
        PROVE  hit = r
    <3> DEFINE m == Min(hits)
    <3>1. m \in hits /\ m <= r /\ hit = m
      BY <1>4, <2>1
    <3> HIDE DEF m, hit
    <3>2. m \in 1 .. 4 /\ r <= m
      BY <1>5, <2>1, <3>1
    <3> QED
      BY <3>1, <3>2
  <2>2. /\ TitleRules[1].kind = "cpu" /\ TitleRules[2].kind = "gpu"
        /\ TitleRules[3].kind = "memory" /\ TitleRules[4].kind = "network"
    BY <1>2
  <2> HIDE DEF hit, rule
  <2>3. CASE rule(1)
    <3>1. hit = 1
      BY <1>5, <2>1, <2>3 DEF rule
    <3> QED
      BY <1>1, <2>2, <2>3, <3>1
  <2>4. CASE ~rule(1) /\ rule(2)
    <3>1. hit = 2
      BY <1>5, <2>1, <2>4 DEF rule
    <3> QED
      BY <1>1, <2>2, <2>4, <3>1
  <2>5. CASE ~rule(1) /\ ~rule(2) /\ rule(3)
    <3>1. hit = 3
      BY <1>5, <2>1, <2>5 DEF rule
    <3> QED
      BY <1>1, <2>2, <2>5, <3>1
  <2>6. CASE ~rule(1) /\ ~rule(2) /\ ~rule(3) /\ rule(4)
    <3>1. hit = 4
      BY <1>5, <2>1, <2>6 DEF rule
    <3> QED
      BY <1>1, <2>2, <2>6, <3>1
  <2>7. CASE ~rule(1) /\ ~rule(2) /\ ~rule(3) /\ ~rule(4)
    <3>1. hits = {}
      BY <1>5, <2>7 DEF rule
    <3>2. hit = 0
      BY <3>1 DEF hit
    <3> QED
      BY <1>1, <2>7, <3>2
  <2> QED
    BY <2>3, <2>4, <2>5, <2>6, <2>7
<1>7. /\ rule(1) = Mentions(text, {"cpu", "CPU", "CPU:"})
      /\ rule(2) = Mentions(text, {"gpu", "GPU", "GPU:"})
      /\ rule(3) = Mentions(text, {"memory", "Neicun"})
      /\ rule(4) = Mentions(text, {"network", "Wangluo"})
  BY <1>2
<1> HIDE DEF rule
<1> QED
  BY <1>6, <1>7, Zenon

(* A rule that is hit is one of the rules.                                 *)
LEMMA HitType ==
  ASSUME NEW I \in SUBSET Nat, 0 \notin I
  PROVE  LET hit == IF I # {} THEN Min(I) ELSE 0 IN hit # 0 => hit \in I
  BY MinIsLeast

(* The rules for lines give a known kind, or the generic one.              *)
LEMMA KindByLine ==
  ASSUME NEW text
  PROVE  KindBy(LineRules, text) \in Kinds \cup {Generic}
<1> DEFINE hits == {r \in 1 .. Len(LineRules) : Mentions(text, LineRules[r].words)}
           hit == IF hits # {} THEN Min(hits) ELSE 0
<1>1. KindBy(LineRules, text) = IF hit = 0 THEN Generic ELSE LineRules[hit].kind
  BY Zenon DEF KindBy, SelectInSeq
<1>2. Len(LineRules) = 5 /\ \A r \in 1 .. 5 : LineRules[r].kind \in Kinds
  BY DEF LineRules, TitleRules, Kinds
<1>3. hits \in SUBSET Nat /\ 0 \notin hits /\ hits \subseteq 1 .. 5
  BY <1>2
<1>4. hit # 0 => hit \in hits
  <2> HIDE DEF hits
  <2> QED
    BY <1>3, HitType
<1> HIDE DEF hits, hit
<1> QED
  BY <1>1, <1>2, <1>3, <1>4

(* Every section has a known kind, or the generic one                      *)
(* (inferComponentKind).                                                   *)
LEMMA ComponentKindType ==
  ASSUME NEW node \in Node
  PROVE  ComponentKind(node) \in Kinds \cup {Generic}
<1> DEFINE hits == {l \in 1 .. Len(node.infolist) : KindBy(LineRules, node.infolist[l]) # Generic}
           hit == IF hits # {} THEN Min(hits) ELSE 0
<1>1. ComponentKind(node) =
        IF KindBy(TitleRules, node.title) # Generic THEN KindBy(TitleRules, node.title)
        ELSE IF hit = 0 THEN Generic ELSE KindBy(LineRules, node.infolist[hit])
  BY Zenon DEF ComponentKind, SelectInSeq
<1>2. KindBy(TitleRules, node.title) \in Kinds \cup {Generic}
  BY KindByTitle DEF Kinds
<1>3. KindBy(LineRules, node.infolist[hit]) \in Kinds \cup {Generic}
  BY KindByLine
<1> QED
  BY <1>1, <1>2, <1>3

-----------------------------------------------------------------------------
(* Cards and curves. *)

(* What a card has of a section: for every kind its own values.            *)
Fitting(card) ==
  LET s == card.section IN
    /\ card.kind \in Kinds \cup {Generic}
    /\ card.kind \in {"cpu", "gpu"} => s.usage \in Value
    /\ card.kind = "memory" => s.usage \in Value /\ s.capacity \in Value
    /\ card.kind = "network" => s.upload \in Value /\ s.download \in Value

(* The card of any section fits: its levels, its kind and its text.        *)
LEMMA CardType ==
  ASSUME NEW node \in Node
  PROVE  Fitting(Card(node))
<1> DEFINE kind == ComponentKind(node)
           text == Joined(node)
           s == Section(kind, text)
<1>1. kind \in Kinds \cup {Generic} /\ text \in Text
  BY ComponentKindType, JoinedType
<1>2. Card(node).kind = kind /\ Card(node).section = s
  BY DEF Card
<1> HIDE DEF kind, text
<1>3. kind \in {"cpu", "gpu"} => s.usage \in Value
  <2>1. kind \in {"cpu", "gpu"} => s.usage = First(text, "percent")
    BY DEF Section
  <2> QED
    BY <1>1, <2>1, FirstType
<1>4. kind = "memory" => s.usage \in Value /\ s.capacity \in Value
  <2>1. kind = "memory" => s.usage = First(text, "percent") /\ s.capacity = First(text, "capacity")
    BY DEF Section
  <2> QED
    BY <1>1, <2>1, FirstType
<1>5. kind = "network" => s.upload \in Value /\ s.download \in Value
  <2>1. kind = "network" => s.upload = UploadIn(text) /\ s.download = DownloadIn(text)
    BY DEF Section
  <2> QED
    BY <1>1, <2>1, RatesType
<1> HIDE DEF s
<1> QED
  BY <1>1, <1>2, <1>3, <1>4, <1>5 DEF Fitting

(* Every level is between 0 and 100, however large the number.             *)
LEMMA LevelsBounded ==
  ASSUME NEW value \in Value
  PROVE  /\ ParsePercent(value) \in 0 .. 100
         /\ CapacityPercent(value) \in 0 .. 100
         /\ NetworkLevel(value) \in 0 .. 100
<1>1. value.n \in Nat
  BY ValueType
<1> DEFINE n == value.n
           factor == CASE value.unit = "GB" -> 100 [] value.unit = "MB" -> 12 [] OTHER -> 1
<1> HIDE DEF n
<1>2. factor \in Nat
  OBVIOUS
<1>3. \A m \in Nat : Clamp(m) \in 0 .. 100
  BY DEF Clamp
<1>4. n * factor \in Nat
  <2> HIDE DEF factor
  <2> QED
    BY <1>1, <1>2 DEF n
<1>5. (n * 100) \div Total.n \in Nat
  <2>1. n * 100 \in Nat /\ Total.n \in Nat \ {0}
    BY <1>1, TotalAssumption DEF n
  <2>2. \A a \in Nat, b \in Nat \ {0} : a \div b \in Nat
    OBVIOUS
  <2> QED
    BY <2>1, <2>2
<1> HIDE DEF factor
<1> QED
  BY <1>1, <1>3, <1>4, <1>5, Zenon DEF ParsePercent, CapacityPercent, NetworkLevel, n, factor

(* A card leaves the curves between 0 and 100.                             *)
LEMMA AddCardType ==
  ASSUME NEW snapshot \in [Kinds -> 0 .. 100], NEW card, Fitting(card)
  PROVE  AddCard(snapshot, card) \in [Kinds -> 0 .. 100]
<1> DEFINE s == card.section
<1>1. CASE card.kind \in {"cpu", "gpu"}
  <2>1. AddCard(snapshot, card) = [snapshot EXCEPT ![card.kind] = ParsePercent(s.usage)]
    BY <1>1 DEF AddCard
  <2>2. ParsePercent(s.usage) \in 0 .. 100
    BY <1>1, LevelsBounded DEF Fitting
  <2> QED
    BY <2>1, <2>2
<1>2. CASE card.kind = "memory"
  <2> DEFINE m == IF s.usage # None THEN ParsePercent(s.usage)
                  ELSE IF s.capacity # None THEN CapacityPercent(s.capacity)
                  ELSE snapshot["memory"]
  <2>1. AddCard(snapshot, card) = [snapshot EXCEPT !["memory"] = m]
    BY <1>2 DEF AddCard
  <2>2. m \in 0 .. 100
    <3>1. ParsePercent(s.usage) \in 0 .. 100 /\ CapacityPercent(s.capacity) \in 0 .. 100
      BY <1>2, LevelsBounded DEF Fitting
    <3>2. snapshot["memory"] \in 0 .. 100
      BY DEF Kinds
    <3> QED
      BY <3>1, <3>2
  <2> HIDE DEF m
  <2> QED
    BY <2>1, <2>2
<1>3. CASE card.kind = "network"
  <2> DEFINE m == Larger(NetworkLevel(s.upload), NetworkLevel(s.download))
  <2>1. AddCard(snapshot, card) = [snapshot EXCEPT !["network"] = m]
    BY <1>3 DEF AddCard
  <2>2. m \in 0 .. 100
    BY <1>3, LevelsBounded DEF Fitting, Larger
  <2> HIDE DEF m
  <2> QED
    BY <2>1, <2>2
<1>4. CASE card.kind = Generic
  BY <1>4 DEF AddCard, Generic
<1> QED
  BY <1>1, <1>2, <1>3, <1>4 DEF Fitting, Kinds

(* The curves are between 0 and 100 after every card.                      *)
LEMMA LevelsType ==
  ASSUME NEW all, NEW L \in Nat, L = Len(all), \A n \in 1 .. L : Fitting(all[n])
  PROVE  Levels(all)[L] \in [Kinds -> 0 .. 100]
<1> DEFINE a == [k \in Kinds |-> 0]
           X == [Kinds -> 0 .. 100]
           step == [n \in 1 .. L |-> [x \in X |-> AddCard(x, all[n])]]
           Solves(g) ==
             g = [n \in 0 .. L |-> IF n = 0 THEN a ELSE AddCard(g[n - 1], all[n])]
           c == CHOOSE g : Solves(g)
<1>1. a \in X
  OBVIOUS
<1>2. \A n \in 1 .. L : \A x \in X : AddCard(x, all[n]) \in X
  BY AddCardType
<1>3. step \in [1 .. L -> [X -> X]]
  BY <1>2
<1>4. \A n \in 1 .. L : \A x \in X : step[n][x] = AddCard(x, all[n])
  OBVIOUS
<1>5. Levels(all) = c
  BY Zenon DEF Levels
<1> HIDE DEF step, X, a
<1>6. PICK g : Runs(g, X, a, L, step)
  BY <1>1, <1>3, RecursionHasSolution
<1>7. Solves(g)
  <2>1. \A n \in 1 .. L : g[n - 1] \in X
    BY <1>6 DEF Runs
  <2>2. \A n \in 1 .. L : g[n] = AddCard(g[n - 1], all[n])
    BY <1>4, <1>6, <2>1 DEF Runs
  <2>3. g = [n \in 0 .. L |-> g[n]]
    BY <1>6 DEF Runs
  <2>4. \A n \in 0 .. L : g[n] = IF n = 0 THEN a ELSE AddCard(g[n - 1], all[n])
    BY <1>6, <2>2 DEF Runs
  <2> QED
    BY <2>3, <2>4, Zenon
<1>8. Solves(c)
  <2> HIDE DEF Solves
  <2> QED
    BY <1>7
<1> HIDE DEF c
<1>9. \A n \in 0 .. L : c[n] = IF n = 0 THEN a ELSE AddCard(c[n - 1], all[n])
  BY <1>8, Zenon
<1> DEFINE S == {n \in Nat : n <= L => c[n] \in X}
<1>10. 0 \in S
  BY <1>1, <1>9
<1>11. ASSUME NEW n \in S PROVE n + 1 \in S
  <2>1. SUFFICES ASSUME n + 1 <= L PROVE c[n + 1] \in X
    OBVIOUS
  <2>2. n + 1 \in 0 .. L /\ n + 1 \in 1 .. L /\ n + 1 # 0 /\ (n + 1) - 1 = n /\ c[n] \in X
    BY <2>1
  <2> QED
    BY <1>2, <1>9, <2>2
<1>12. S = Nat
  <2>1. S \in SUBSET Nat
    OBVIOUS
  <2> HIDE DEF S
  <2> QED
    BY <1>10, <1>11, <2>1, SetInduction
<1>13. c[L] \in X
  BY <1>12
<1> QED
  BY <1>5, <1>13 DEF X

-----------------------------------------------------------------------------
(* The invariants. *)

(* Window and device have what the sections of the last frame give them,   *)
(* and these sections are those of the lines (resolvedata).                *)
FromLines ==
  /\ phase = "end" => nodes = Nodes(received)
  /\ cards = [i \in DOMAIN nodes |-> Card(nodes[i])]
  /\ json = Json(nodes)

IInv == TypeOK /\ FromLines

(* Before the first frame nothing is known of any kind.                    *)
LEMMA InitFits == Init => IInv
<1> SUFFICES ASSUME Init PROVE IInv
  OBVIOUS
<1> USE DEF Init
<1>1. phase \in {"idle", "inside", "end"} /\ frames \in 0 .. MaxFrames
  BY BoundsAssumption
<1>2. received \in Seq(Line) /\ nodes \in Seq(Node) /\ Len(received) <= MaxLines
  BY EmptySeq, BoundsAssumption
<1>3. level \in [Kinds -> 0 .. 100]
  OBVIOUS
<1>4. cards = [i \in DOMAIN nodes |-> Card(nodes[i])] /\ DOMAIN cards = DOMAIN nodes
      /\ DOMAIN cards = {}
  OBVIOUS
<1>5. json = Json(nodes) /\ DOMAIN json \subseteq Kinds
  <2> DEFINE at(k) == {i \in DOMAIN nodes : SectionKind(nodes[i]) = k}
             told == {k \in Kinds : at(k) # {}}
             text(i) == nodes[i].title \o Joined(nodes[i])
  <2>1. told = {}
    <3>1. DOMAIN nodes = {}
      OBVIOUS
    <3>2. \A k \in Kinds : at(k) = {}
      BY <3>1
    <3> HIDE DEF at
    <3> QED
      BY <3>2
  <2>2. Json(nodes) = [k \in told |-> Section(k, text(Max(at(k))))]
    BY Zenon DEF Json
  <2> HIDE DEF told
  <2>3. Json(nodes) = <<>>
    BY <2>1, <2>2
  <2> QED
    BY <2>3
<1> QED
  BY <1>1, <1>2, <1>3, <1>4, <1>5 DEF IInv, TypeOK, FromLines

(* Reading a line, whatever it is.                                         *)
LEMMA ReadLineFits ==
  ASSUME IInv, NEW line \in Written, ReadLine(line)
  PROVE  IInv'
<1> USE DEF IInv, ReadLine
<1>1. line \in Line
  BY WrittenAssumption
<1>2. received' \in Seq(Line) /\ Len(received') = Len(received) + 1
  BY <1>1, AppendProperties DEF TypeOK
<1>3. Len(received) \in Nat /\ Len(received) < MaxLines
  BY LenProperties DEF TypeOK
<1>4. Len(received') <= MaxLines
  BY <1>2, <1>3, BoundsAssumption
<1>5. UNCHANGED <<nodes, cards, level, json, phase, frames>>
  OBVIOUS
<1>6. TypeOK'
  BY <1>2, <1>4, <1>5 DEF TypeOK
<1>7. FromLines'
  BY <1>5 DEF FromLines
<1> QED
  BY <1>6, <1>7

(* Beginning a frame drops the lines received, and leaves what is shown.   *)
LEMMA BeginFits ==
  ASSUME IInv, Begin
  PROVE  IInv'
<1> USE DEF IInv, Begin
<1>1. received' \in Seq(Line) /\ Len(received') <= MaxLines
  BY EmptySeq, BoundsAssumption
<1>2. frames' \in 0 .. MaxFrames
  BY BoundsAssumption DEF TypeOK
<1>3. UNCHANGED <<nodes, cards, level, json>> /\ phase' = "inside"
  OBVIOUS
<1>4. TypeOK'
  BY <1>1, <1>2, <1>3 DEF TypeOK
<1>5. FromLines'
  BY <1>3 DEF FromLines
<1> QED
  BY <1>4, <1>5

(* What resolvedata makes of the lines is fit to be shown and sent.        *)
LEMMA ResolveDataFits ==
  ASSUME IInv, ResolveData
  PROVE  IInv'
<1> USE DEF IInv
<1> DEFINE ns == Nodes(received)
           all == [i \in DOMAIN ns |-> Card(ns[i])]
           L == Len(ns)
<1>1. phase' = "end" /\ nodes' = ns /\ cards' = all /\ level' = Levels(all)[Len(all)]
      /\ json' = Json(ns) /\ received' = received /\ frames' = frames
  BY DEF ResolveData
<1>2. ns \in Seq(Node)
  BY NodesType DEF TypeOK
<1> HIDE DEF ns
<1>3. L \in Nat /\ DOMAIN ns = 1 .. L /\ \A i \in 1 .. L : ns[i] \in Node
  BY <1>2, LenProperties
<1>4. Len(all) = L /\ DOMAIN all = 1 .. L /\ \A i \in 1 .. L : all[i] = Card(ns[i])
  <2>1. all = [i \in 1 .. L |-> Card(ns[i])]
    BY <1>3
  <2> HIDE DEF all, L
  <2> QED
    BY <1>3, <2>1
<1>5. \A i \in 1 .. L : Fitting(all[i])
  BY <1>3, <1>4, CardType
<1>6. level' \in [Kinds -> 0 .. 100]
  <2> HIDE DEF all, L
  <2> QED
    BY <1>1, <1>3, <1>4, <1>5, LevelsType
<1>7. DOMAIN json' \subseteq Kinds
  BY <1>1 DEF Json
<1>8. \A i \in DOMAIN cards' : cards'[i].kind \in Kinds \cup {Generic}
  BY <1>1, <1>4, <1>5 DEF Fitting
<1>9. DOMAIN cards' = DOMAIN nodes'
  BY <1>1, <1>3, <1>4
<1>10. TypeOK'
  BY <1>1, <1>2, <1>6, <1>7, <1>8, <1>9 DEF TypeOK
<1>11. FromLines'
  BY <1>1 DEF FromLines, ns
<1> QED
  BY <1>10, <1>11

(* Every step keeps the invariant.                                         *)
LEMMA NextFits == IInv /\ [Next]_vars => IInv'
<1> SUFFICES ASSUME IInv, [Next]_vars PROVE IInv'
  OBVIOUS
<1>1. CASE Begin
  BY <1>1, BeginFits
<1>2. CASE ResolveData
  BY <1>2, ResolveDataFits
<1>3. ASSUME NEW line \in Written, ReadLine(line) PROVE IInv'
  BY <1>3, ReadLineFits
<1>4. CASE UNCHANGED vars
  BY <1>4 DEF vars, IInv, TypeOK, FromLines
<1> QED
  BY <1>1, <1>2, <1>3, <1>4 DEF Next

(* So it holds for ever.                                                   *)
LEMMA AlwaysFits == Spec => []IInv
  BY InitFits, NextFits, PTL DEF Spec

(* Every curve stays between 0 and 100 and every section is of a known     *)
(* kind, whatever lines the monitor writes and however many                *)
(* (updatePerformanceModel).                                               *)
THEOREM TypeCorrect == Spec => []TypeOK
<1>1. IInv => TypeOK
  BY DEF IInv
<1> QED
  BY <1>1, AlwaysFits, PTL

(* No line that is not blank is lost, told twice or put under another      *)
(* title, in frames of any length (resolvedata).                           *)
THEOREM AlwaysInPlace == Spec => []LinesKeptInPlace
<1>1. IInv => LinesKeptInPlace
  <2> SUFFICES ASSUME IInv, phase = "end" PROVE
        FlattenSeq([n \in DOMAIN nodes |-> Told(nodes[n])])
          = FlattenSeq([i \in DOMAIN received |-> Kept(received, i)])
    BY DEF LinesKeptInPlace
  <2>1. received \in Seq(Line) /\ nodes = Nodes(received)
    BY DEF IInv, TypeOK, FromLines
  <2>2. FlattenSeq(ToldAll(nodes)) = KeptUpTo(received, Len(received))
    BY <2>1, NodesTellAll
  <2>3. DOMAIN received = 1 .. Len(received)
    BY <2>1, LenProperties
  <2> QED
    BY <2>2, <2>3, Zenon DEF ToldAll, KeptUpTo
<1> QED
  BY <1>1, AlwaysFits, PTL

-----------------------------------------------------------------------------
(* What the window shows. *)

(* A text behind another: the lines behind their title, or a line behind   *)
(* those before it.                                                        *)
LEMMA TitledText ==
  ASSUME NEW title \in Text, NEW text \in Text
  PROVE  /\ Len(title) \in Nat /\ Len(text) \in Nat
         /\ DOMAIN title = 1 .. Len(title) /\ DOMAIN text = 1 .. Len(text)
         /\ title \o text \in Text
         /\ Len(title \o text) = Len(title) + Len(text)
         /\ DOMAIN (title \o text) = 1 .. Len(title) + Len(text)
         /\ \A i \in 1 .. Len(title) : (title \o text)[i] = title[i]
         /\ \A i \in 1 .. Len(text) : (title \o text)[Len(title) + i] = text[i]
<1>1. title \in Seq(Token) /\ text \in Seq(Token)
  BY DEF Text
<1> HIDE DEF Token
<1>2. Len(title) \in Nat /\ Len(text) \in Nat
      /\ DOMAIN title = 1 .. Len(title) /\ DOMAIN text = 1 .. Len(text)
  BY <1>1, LenProperties
<1> DEFINE all == title \o text
<1>3. all \in Seq(Token) /\ Len(all) = Len(title) + Len(text)
      /\ \A i \in 1 .. Len(title) + Len(text) :
           all[i] = IF i <= Len(title) THEN title[i] ELSE text[i - Len(title)]
  BY <1>1, ConcatProperties
<1> HIDE DEF all
<1>4. DOMAIN all = 1 .. Len(title) + Len(text)
  BY <1>3, LenProperties
<1>5. \A i \in 1 .. Len(title) : all[i] = title[i]
  BY <1>2, <1>3
<1>6. ASSUME NEW i \in 1 .. Len(text) PROVE all[Len(title) + i] = text[i]
  <2>1. Len(title) + i \in 1 .. Len(title) + Len(text) /\ ~(Len(title) + i <= Len(title))
        /\ (Len(title) + i) - Len(title) = i
    BY <1>2
  <2> QED
    BY <1>3, <2>1
<1> QED
  BY <1>2, <1>3, <1>4, <1>5, <1>6 DEF Text, all

(* What two texts say behind a label they say when joined, and nothing     *)
(* more, unless the first ends in the label.                               *)
LEMMA SaidInJoined ==
  ASSUME NEW a \in Text, NEW b \in Text, NEW label, NEW what,
         a # <<>> => a[Len(a)].is # label
  PROVE  SaidIn(a \o b, label, what) = SaidIn(a, label, what) \cup SaidIn(b, label, what)
<1> DEFINE ab == a \o b  m == Len(a)  n == Len(b)
           At(text, i) == text[i - 1].is = label /\ text[i].is = what
<1>1. /\ m \in Nat /\ n \in Nat /\ Len(ab) = m + n
      /\ \A i \in 1 .. m : ab[i] = a[i]
      /\ \A i \in 1 .. n : ab[m + i] = b[i]
  BY TitledText
<1>2. m # 0 => a[m].is # label
  <2>1. a \in Seq(Token)
    BY DEF Text
  <2> HIDE DEF Token
  <2> QED
    BY <2>1, EmptySeq, LenProperties
<1> HIDE DEF ab, m, n
<1>3. ASSUME NEW i \in 2 .. m PROVE ab[i] = a[i] /\ (At(ab, i) <=> At(a, i))
  <2>1. i \in 1 .. m /\ i - 1 \in 1 .. m
    BY <1>1
  <2> QED
    BY <1>1, <2>1
<1>4. ASSUME NEW i \in 2 .. n PROVE ab[m + i] = b[i] /\ (At(ab, m + i) <=> At(b, i))
  <2>1. i \in 1 .. n /\ i - 1 \in 1 .. n /\ (m + i) - 1 = m + (i - 1)
    BY <1>1
  <2> QED
    BY <1>1, <2>1
<1>5. ASSUME NEW i \in 2 .. m + n, At(ab, i)
      PROVE  i \in 2 .. m \/ i - m \in 2 .. n
  <2>1. CASE i = m + 1
    <3>1. m # 0 /\ m \in 1 .. m /\ i - 1 = m
      BY <1>1, <2>1
    <3> QED
      BY <1>1, <1>2, <1>5, <3>1
  <2>2. CASE i # m + 1
    BY <1>1, <2>2
  <2> QED
    BY <2>1, <2>2
<1>6. ASSUME NEW t
      PROVE  (\E i \in 2 .. m + n : At(ab, i) /\ t = ab[i])
               <=> \/ \E i \in 2 .. m : At(a, i) /\ t = a[i]
                   \/ \E i \in 2 .. n : At(b, i) /\ t = b[i]
  <2>1. ASSUME NEW i \in 2 .. m + n, At(ab, i), t = ab[i]
        PROVE  \/ \E k \in 2 .. m : At(a, k) /\ t = a[k]
               \/ \E k \in 2 .. n : At(b, k) /\ t = b[k]
    <3>1. CASE i \in 2 .. m
      <4>1. At(a, i) /\ t = a[i]
        BY <1>3, <2>1, <3>1
      <4> QED
        BY <3>1, <4>1
    <3>2. CASE i - m \in 2 .. n
      <4>1. m + (i - m) = i
        BY <1>1
      <4>2. At(b, i - m) /\ t = b[i - m]
        BY <1>4, <2>1, <3>2, <4>1
      <4> QED
        BY <3>2, <4>2
    <3> QED
      BY <1>5, <2>1, <3>1, <3>2
  <2>2. ASSUME NEW i \in 2 .. m, At(a, i), t = a[i]
        PROVE  \E k \in 2 .. m + n : At(ab, k) /\ t = ab[k]
    <3>1. i \in 2 .. m + n
      BY <1>1
    <3>2. At(ab, i) /\ t = ab[i]
      BY <1>3, <2>2
    <3> QED
      BY <3>1, <3>2
  <2>3. ASSUME NEW i \in 2 .. n, At(b, i), t = b[i]
        PROVE  \E k \in 2 .. m + n : At(ab, k) /\ t = ab[k]
    <3>1. m + i \in 2 .. m + n
      BY <1>1
    <3>2. At(ab, m + i) /\ t = ab[m + i]
      BY <1>4, <2>3
    <3> QED
      BY <3>1, <3>2
  <2> HIDE DEF At
  <2> QED
    BY <2>1, <2>2, <2>3
<1>7. \A text, t : t \in SaidIn(text, label, what)
                    <=> \E i \in 2 .. Len(text) : At(text, i) /\ t = text[i]
  BY DEF SaidIn
<1> HIDE DEF At
<1>8. \A t : t \in SaidIn(ab, label, what)
               <=> t \in SaidIn(a, label, what) \/ t \in SaidIn(b, label, what)
  <2> SUFFICES ASSUME NEW t
               PROVE  t \in SaidIn(ab, label, what)
                        <=> t \in SaidIn(a, label, what) \/ t \in SaidIn(b, label, what)
    OBVIOUS
  <2>1. /\ t \in SaidIn(ab, label, what) <=> \E i \in 2 .. m + n : At(ab, i) /\ t = ab[i]
        /\ t \in SaidIn(a, label, what) <=> \E i \in 2 .. m : At(a, i) /\ t = a[i]
        /\ t \in SaidIn(b, label, what) <=> \E i \in 2 .. n : At(b, i) /\ t = b[i]
    <3>1. Len(ab) = m + n /\ Len(a) = m /\ Len(b) = n
      BY <1>1 DEF m, n
    <3>2. \A text : t \in SaidIn(text, label, what)
                      <=> \E i \in 2 .. Len(text) : At(text, i) /\ t = text[i]
      BY <1>7
    <3> QED
      BY <3>1, <3>2, Zenon
  <2> QED
    BY <1>6, <2>1
<1> QED
  BY <1>8, Zenon DEF ab

(* The joined lines say behind a label what the lines say, and no more,    *)
(* unless one of them ends in the label (QStringList::join).               *)
LEMMA JoinedSays ==
  ASSUME NEW node \in Node, NEW label, NEW what, ~EndsIn(node, label)
  PROVE  SaidIn(Joined(node), label, what) = Said(node, label, what)
<1> DEFINE ss == node.infolist
           L == Len(ss)
           Upto(n) == UNION {SaidIn(ss[j], label, what) : j \in 1 .. n}
           NotLast(text) == text # <<>> => text[Len(text)].is # label
<1>1. ss \in Seq(Seq(Token)) /\ \A j \in DOMAIN ss : NotLast(ss[j])
  BY DEF Node, Text, EndsIn
<1> HIDE DEF ss, L
<1>2. L \in Nat /\ DOMAIN ss = 1 .. L /\ \A j \in 1 .. L : ss[j] \in Seq(Token)
  <2> HIDE DEF Token
  <2> QED
    BY <1>1, LenProperties DEF L
<1>3. PICK f : Joins(f, ss, Token) /\ FlattenSeq(ss) = f[L]
  BY <1>1, FlattenRuns DEF L
<1>4. /\ f \in [0 .. L -> Seq(Token)] /\ f[0] = <<>>
      /\ \A n \in 1 .. L : f[n] = f[n - 1] \o ss[n]
  BY <1>3 DEF Joins, L
<1> DEFINE S == {n \in Nat : n <= L => SaidIn(f[n], label, what) = Upto(n) /\ NotLast(f[n])}
<1>5. 0 \in S
  <2>1. SaidIn(f[0], label, what) = {}
    <3>1. Len(f[0]) = 0
      BY <1>4
    <3> QED
      BY <3>1 DEF SaidIn
  <2>2. Upto(0) = {}
    OBVIOUS
  <2>3. NotLast(f[0])
    BY <1>4
  <2> HIDE DEF Upto, NotLast
  <2> QED
    BY <2>1, <2>2, <2>3
<1>6. ASSUME NEW n \in S PROVE n + 1 \in S
  <2>1. SUFFICES ASSUME n + 1 <= L
                 PROVE  SaidIn(f[n + 1], label, what) = Upto(n + 1) /\ NotLast(f[n + 1])
    OBVIOUS
  <2>2. n \in Nat /\ n <= L /\ n \in 0 .. L /\ n + 1 \in 1 .. L /\ (n + 1) - 1 = n
    BY <1>2, <2>1
  <2>3. SaidIn(f[n], label, what) = Upto(n) /\ NotLast(f[n])
    BY <2>2
  <2> DEFINE a == f[n]  b == ss[n + 1]
  <2>4. a \in Text /\ b \in Text /\ f[n + 1] = a \o b /\ NotLast(a) /\ NotLast(b)
    BY <1>1, <1>2, <1>4, <2>2, <2>3 DEF Text
  <2> HIDE DEF a, b
  <2>5. SaidIn(a \o b, label, what) = SaidIn(a, label, what) \cup SaidIn(b, label, what)
    BY <2>4, SaidInJoined
  <2>6. Upto(n + 1) = Upto(n) \cup SaidIn(ss[n + 1], label, what)
    <3>1. 1 .. n + 1 = (1 .. n) \cup {n + 1}
      BY <2>2
    <3> QED
      BY <3>1
  <2>7. NotLast(a \o b)
    <3>1. /\ Len(a) \in Nat /\ Len(b) \in Nat /\ Len(a \o b) = Len(a) + Len(b)
          /\ \A i \in 1 .. Len(a) : (a \o b)[i] = a[i]
          /\ \A i \in 1 .. Len(b) : (a \o b)[Len(a) + i] = b[i]
      BY <2>4, TitledText
    <3>2. a \in Seq(Token) /\ b \in Seq(Token) /\ a \o b \in Seq(Token)
      BY <2>4, TitledText DEF Text
    <3>3. (a = <<>> <=> Len(a) = 0) /\ (b = <<>> <=> Len(b) = 0)
          /\ (a \o b = <<>> <=> Len(a \o b) = 0)
      <4> HIDE DEF Token
      <4> QED
        BY <3>2, EmptySeq
    <3>4. CASE Len(b) = 0
      <4>1. Len(a \o b) = Len(a) /\ (Len(a) # 0 => Len(a) \in 1 .. Len(a))
        BY <3>1, <3>4
      <4> QED
        BY <2>4, <3>1, <3>3, <4>1
    <3>5. CASE Len(b) # 0
      <4>1. Len(b) \in 1 .. Len(b)
        BY <3>1, <3>5
      <4> QED
        BY <2>4, <3>1, <3>3, <3>5, <4>1
    <3> QED
      BY <3>4, <3>5
  <2> HIDE DEF Upto, NotLast
  <2> QED
    BY <2>3, <2>4, <2>5, <2>6, <2>7 DEF a, b
<1>7. S = Nat
  <2>1. S \in SUBSET Nat
    OBVIOUS
  <2> HIDE DEF S
  <2> QED
    BY <1>5, <1>6, <2>1, SetInduction
<1>8. SaidIn(f[L], label, what) = Upto(L)
  BY <1>2, <1>7
<1>9. Joined(node) = f[L]
  BY <1>3 DEF Joined, ss
<1>10. Upto(L) = Said(node, label, what)
  BY <1>2, Zenon DEF Said, ss
<1> HIDE DEF Upto
<1> QED
  BY <1>8, <1>9, <1>10

(* What is found behind a label is one of the things said there, and there *)
(* is something to be found if anything is said.                           *)
LEMMA LabelledIsSaid ==
  ASSUME NEW text \in Text, NEW label, NEW what \in Units, SaidIn(text, label, what) # {}
  PROVE  /\ Labelled(text, label, what) \in SaidIn(text, label, what)
         /\ Labelled(text, label, what) # None
<1> DEFINE hits == {i \in DOMAIN text :
                      i > 1 /\ text[i - 1].is = label /\ text[i].is = what}
<1>1. Labelled(text, label, what) = IF hits = {} THEN None ELSE text[Min(hits)]
  BY Zenon DEF Labelled, FirstAt
<1>2. Len(text) \in Nat /\ DOMAIN text = 1 .. Len(text)
  BY TitledText
<1>3. hits = {i \in 2 .. Len(text) : text[i - 1].is = label /\ text[i].is = what}
  BY <1>2
<1>4. SaidIn(text, label, what) = {text[i] : i \in hits}
  BY <1>3 DEF SaidIn
<1>5. \A i \in hits : text[i].is = what
  OBVIOUS
<1>6. hits \in SUBSET Nat
  BY <1>2
<1> HIDE DEF hits
<1>7. hits # {}
  BY <1>4
<1>8. Min(hits) \in hits
  BY <1>6, <1>7, MinIsLeast
<1>9. text[Min(hits)].is = what /\ what # "none"
  BY <1>5, <1>8 DEF Units
<1>10. None.is = "none"
  BY DEF None
<1> QED
  BY <1>1, <1>4, <1>7, <1>8, <1>9, <1>10

(* A value that the lines of a section say by its label is shown, in the   *)
(* place of that label, in frames of any length and whatever else they say *)
(* (extractPowerValue, extractRateValues, updatePerformanceModel).         *)
THEOREM AlwaysAsLabelled == Spec => []ShownAsLabelled
<1>1. IInv => ShownAsLabelled
  <2> SUFFICES ASSUME IInv, NEW i \in DOMAIN cards PROVE
        LET s == cards[i].section
            Shows(value, label, what) ==
              Said(nodes[i], label, what) # {} /\ ~EndsIn(nodes[i], label) =>
                value \in Said(nodes[i], label, what)
        IN /\ cards[i].kind \in {"cpu", "gpu"} => Shows(s.power, "power", "watt")
           /\ cards[i].kind = "network" => /\ Shows(s.upload, "upload", "rate")
                                           /\ Shows(s.download, "download", "rate")
    BY Zenon DEF ShownAsLabelled
  <2> DEFINE node == nodes[i]
             text == Joined(node)
             kind == ComponentKind(node)
             s == Section(kind, text)
  <2>1. cards[i] = Card(node) /\ node \in Node
    <3>1. /\ nodes \in Seq(Node) /\ cards = [n \in DOMAIN nodes |-> Card(nodes[n])]
      BY DEF IInv, TypeOK, FromLines
    <3> HIDE DEF Node
    <3> QED
      BY <3>1, LenProperties
  <2>2. cards[i].kind = kind /\ cards[i].section = s /\ text \in Text
    BY <2>1, JoinedType DEF Card
  <2> HIDE DEF kind, text, node
  <2>3. kind \in {"cpu", "gpu"} => s.power = PowerIn(text)
    BY DEF Section
  <2>4. kind = "network" => s.upload = UploadIn(text) /\ s.download = DownloadIn(text)
    BY DEF Section
  <2> HIDE DEF s
  <2>5. ASSUME NEW label, NEW what \in Units, Said(node, label, what) # {}, ~EndsIn(node, label)
        PROVE  /\ Labelled(text, label, what) \in Said(node, label, what)
               /\ Labelled(text, label, what) # None
    <3>1. SaidIn(text, label, what) = Said(node, label, what)
      BY <2>1, <2>5, JoinedSays DEF text
    <3> QED
      BY <2>2, <2>5, <3>1, LabelledIsSaid
  <2>6. "watt" \in Units /\ "rate" \in Units
    BY DEF Units
  <2>7. Said(node, "power", "watt") # {} /\ ~EndsIn(node, "power") =>
          PowerIn(text) \in Said(node, "power", "watt")
    BY <2>5, <2>6 DEF PowerIn, Or
  <2>8. Said(node, "upload", "rate") # {} /\ ~EndsIn(node, "upload") =>
          UploadIn(text) \in Said(node, "upload", "rate")
    BY <2>5, <2>6, RatePlaces DEF Or
  <2>9. Said(node, "download", "rate") # {} /\ ~EndsIn(node, "download") =>
          DownloadIn(text) \in Said(node, "download", "rate")
    BY <2>5, <2>6, RatePlaces DEF Or
  <2> QED
    BY <2>2, <2>3, <2>4, <2>7, <2>8, <2>9 DEF node
<1> QED
  BY <1>1, AlwaysFits, PTL

-----------------------------------------------------------------------------
(* Window and device. *)

(* A set of numbers with a bound, not empty, has a greatest one.           *)
LEMMA MaxIsGreatest ==
  ASSUME NEW L \in Nat, NEW S \in SUBSET (1 .. L), S # {}
  PROVE  Max(S) \in S
<1> DEFINE T == {n \in Nat : L - n \in S}
<1>1. T # {}
  <2>1. PICK x \in S : TRUE
    OBVIOUS
  <2>2. L - x \in Nat /\ L - (L - x) = x
    OBVIOUS
  <2> QED
    BY <2>1, <2>2
<1>2. PICK n \in T : \A m \in T : n <= m
  <2> HIDE DEF T
  <2>1. T \in SUBSET Nat
    BY DEF T
  <2> QED
    BY <1>1, <2>1, LeastExists
<1>3. L - n \in S /\ \A y \in S : L - n >= y
  <2>1. \A y \in S : L - y \in T
    <3> SUFFICES ASSUME NEW y \in S PROVE L - y \in T
      OBVIOUS
    <3>1. L - y \in Nat /\ L - (L - y) = y
      OBVIOUS
    <3> QED
      BY <3>1
  <2>2. \A y \in S : n <= L - y
    BY <1>2, <2>1
  <2>3. n \in Nat
    OBVIOUS
  <2> QED
    BY <2>2, <2>3
<1>4. \E x \in S : \A y \in S : x >= y
  BY <1>3
<1> QED
  BY <1>4, Zenon DEF Max

(* A text behind a title mentions what the one or the other does.          *)
LEMMA TitledMentions ==
  ASSUME NEW title \in Text, NEW text \in Text, NEW words
  PROVE  Mentions(title \o text, words) <=> Mentions(title, words) \/ Mentions(text, words)
<1> DEFINE all == title \o text  k == Len(title)
<1>1. /\ k \in Nat /\ Len(text) \in Nat
      /\ DOMAIN title = 1 .. k /\ DOMAIN text = 1 .. Len(text) /\ DOMAIN all = 1 .. k + Len(text)
      /\ \A i \in 1 .. k : all[i] = title[i]
      /\ \A i \in 1 .. Len(text) : all[k + i] = text[i]
  BY TitledText
<1> HIDE DEF all, k
<1>2. ASSUME Mentions(all, words) PROVE Mentions(title, words) \/ Mentions(text, words)
  <2>1. PICK i \in DOMAIN all : all[i].is \in words
    BY <1>2 DEF Mentions
  <2>2. CASE i \in 1 .. k
    BY <1>1, <2>1, <2>2 DEF Mentions
  <2>3. CASE i \notin 1 .. k
    <3>1. i - k \in 1 .. Len(text) /\ k + (i - k) = i
      BY <1>1, <2>3
    <3>2. text[i - k].is \in words
      BY <1>1, <2>1, <3>1
    <3> QED
      BY <1>1, <3>1, <3>2 DEF Mentions
  <2> QED
    BY <2>2, <2>3
<1>3. ASSUME Mentions(title, words) PROVE Mentions(all, words)
  <2>1. PICK i \in DOMAIN title : title[i].is \in words
    BY <1>3 DEF Mentions
  <2>2. i \in DOMAIN all /\ all[i] = title[i]
    BY <1>1
  <2> QED
    BY <2>1, <2>2 DEF Mentions
<1>4. ASSUME Mentions(text, words) PROVE Mentions(all, words)
  <2>1. PICK i \in DOMAIN text : text[i].is \in words
    BY <1>4 DEF Mentions
  <2>2. k + i \in DOMAIN all /\ all[k + i] = text[i]
    BY <1>1
  <2> QED
    BY <2>1, <2>2 DEF Mentions
<1> QED
  BY <1>2, <1>3, <1>4 DEF all

(* The first of the hits, and hits that are all behind the title.          *)
Found(text, hits) == IF hits = {} THEN None ELSE text[Min(hits)]

Behind(title, text, hits, inText) ==
  /\ hits \subseteq DOMAIN (title \o text) /\ inText \subseteq DOMAIN text
  /\ \A i \in 1 .. Len(title) : i \notin hits
  /\ \A i \in 1 .. Len(text) : Len(title) + i \in hits <=> i \in inText

(* What is found behind the title only is found in the lines.              *)
LEMMA FoundBehindTitle ==
  ASSUME NEW title \in Text, NEW text \in Text, NEW hits, NEW inText,
         Behind(title, text, hits, inText)
  PROVE  Found(title \o text, hits) = Found(text, inText)
<1> DEFINE all == title \o text  k == Len(title)
<1>1. /\ k \in Nat /\ Len(text) \in Nat
      /\ DOMAIN text = 1 .. Len(text) /\ DOMAIN all = 1 .. k + Len(text)
      /\ \A i \in 1 .. Len(text) : all[k + i] = text[i]
  BY TitledText
<1>2. hits \subseteq DOMAIN all /\ inText \subseteq DOMAIN text
      /\ (\A i \in 1 .. k : i \notin hits)
      /\ \A i \in 1 .. Len(text) : k + i \in hits <=> i \in inText
  BY DEF Behind
<1> HIDE DEF all, k
<1>3. ASSUME NEW i \in hits PROVE i - k \in inText /\ k + (i - k) = i
  <2>1. i \in 1 .. k + Len(text) /\ i \notin 1 .. k
    BY <1>1, <1>2
  <2>2. i - k \in 1 .. Len(text) /\ k + (i - k) = i
    BY <1>1, <2>1
  <2> QED
    BY <1>2, <2>2
<1>4. CASE inText = {}
  <2>1. hits = {}
    BY <1>3, <1>4
  <2> QED
    BY <1>4, <2>1 DEF Found
<1>5. CASE inText # {}
  <2> DEFINE m == Min(inText)  a == Min(hits)
  <2>1. m \in inText /\ (\A i \in inText : m <= i)
    <3>1. inText \in SUBSET Nat
      BY <1>1, <1>2
    <3> QED
      BY <1>5, <3>1, MinIsLeast
  <2>2. m \in 1 .. Len(text) /\ k + m \in hits
    BY <1>1, <1>2, <2>1
  <2>3. a \in hits /\ (\A i \in hits : a <= i)
    <3>1. hits \in SUBSET Nat
      BY <1>1, <1>2
    <3> QED
      BY <2>2, <3>1, MinIsLeast
  <2> HIDE DEF m, a
  <2>4. a = k + m
    <3>1. a - k \in inText /\ k + (a - k) = a
      BY <1>3, <2>3
    <3>2. m <= a - k /\ a <= k + m
      BY <2>1, <2>2, <2>3, <3>1
    <3>3. a \in Int /\ m \in Int /\ k \in Int
      BY <1>1, <1>2, <2>2, <2>3
    <3> QED
      BY <3>2, <3>3
  <2>5. all[a] = text[m]
    BY <1>1, <2>2, <2>4
  <2> QED
    BY <1>5, <2>2, <2>5 DEF Found, all, m, a
<1> QED
  BY <1>4, <1>5

(* A title that has no values and no labels.                               *)
Bare == (Units \ {"model"}) \cup Labels

(* With a bare title, what is looked for is found where it is found in the *)
(* lines alone.                                                            *)
LEMMA FirstBehindTitle ==
  ASSUME NEW title \in Text, NEW text \in Text, ~Mentions(title, Bare),
         NEW what \in Bare
  PROVE  First(title \o text, what) = First(text, what)
<1> DEFINE all == title \o text
           hits == {i \in DOMAIN all : all[i].is = what}
           inText == {i \in DOMAIN text : text[i].is = what}
<1>1. \A i \in 1 .. Len(title) : title[i].is # what
  BY TitledText DEF Mentions
<1>2. \A i \in 1 .. Len(title) : i \notin hits
  BY <1>1, TitledText
<1>3. \A i \in 1 .. Len(text) : Len(title) + i \in hits <=> i \in inText
  <2>1. \A i \in 1 .. Len(text) : Len(title) + i \in DOMAIN all /\ i \in DOMAIN text
    <3>1. Len(title) \in Nat /\ Len(text) \in Nat /\ DOMAIN text = 1 .. Len(text)
          /\ DOMAIN all = 1 .. Len(title) + Len(text)
      BY TitledText
    <3> HIDE DEF all
    <3> QED
      BY <3>1
  <2>2. \A i \in 1 .. Len(text) : all[Len(title) + i] = text[i]
    BY TitledText
  <2> HIDE DEF all
  <2> QED
    BY <2>1, <2>2
<1>4. First(all, what) = Found(all, hits)
  BY Zenon DEF First, FirstAt, Found
<1>5. First(text, what) = Found(text, inText)
  BY Zenon DEF First, FirstAt, Found
<1>6. hits \subseteq DOMAIN all /\ inText \subseteq DOMAIN text
  OBVIOUS
<1> HIDE DEF hits, inText
<1>7. Behind(title, text, hits, inText)
  BY <1>2, <1>3, <1>6 DEF Behind
<1> QED
  BY <1>4, <1>5, <1>7, FoundBehindTitle

(* A title without labels and units hides no labelled value of its lines.  *)
LEMMA LabelledBehindTitle ==
  ASSUME NEW title \in Text, NEW text \in Text, ~Mentions(title, Bare),
         NEW label \in Bare, NEW what \in Bare
  PROVE  Labelled(title \o text, label, what) = Labelled(text, label, what)
<1> DEFINE all == title \o text  k == Len(title)
           hits == {i \in DOMAIN all : i > 1 /\ all[i - 1].is = label /\ all[i].is = what}
           inText == {i \in DOMAIN text : i > 1 /\ text[i - 1].is = label /\ text[i].is = what}
<1>1. /\ k \in Nat /\ Len(text) \in Nat
      /\ DOMAIN text = 1 .. Len(text) /\ DOMAIN all = 1 .. k + Len(text)
      /\ \A i \in 1 .. k : all[i] = title[i]
      /\ \A i \in 1 .. Len(text) : all[k + i] = text[i]
  BY TitledText
<1>2. \A i \in 1 .. k : title[i].is # what /\ title[i].is # label
  BY TitledText DEF Mentions
<1> HIDE DEF all, k
<1>3. \A i \in 1 .. k : i \notin hits
  BY <1>1, <1>2
<1>4. ASSUME NEW i \in 1 .. Len(text) PROVE k + i \in hits <=> i \in inText
  <2>1. k + i \in DOMAIN all /\ all[k + i] = text[i] /\ i \in DOMAIN text
    BY <1>1
  <2>2. CASE i = 1
    <3>1. i \notin inText
      BY <2>2
    <3>2. k + i \notin hits
      <4>1. SUFFICES ASSUME k + i \in hits PROVE FALSE
        OBVIOUS
      <4>2. k + i > 1 /\ (k + i) - 1 = k /\ all[(k + i) - 1].is = label
        BY <1>1, <2>2, <4>1
      <4>3. k \in 1 .. k
        BY <1>1, <2>2, <4>2
      <4> QED
        BY <1>1, <1>2, <4>2, <4>3
    <3> QED
      BY <3>1, <3>2
  <2>3. CASE i # 1
    <3>1. i - 1 \in 1 .. Len(text) /\ (k + i) - 1 = k + (i - 1) /\ i > 1 /\ k + i > 1
      BY <1>1, <2>3
    <3>2. all[(k + i) - 1] = text[i - 1]
      BY <1>1, <3>1
    <3> QED
      BY <2>1, <3>1, <3>2
  <2> QED
    BY <2>2, <2>3
<1>5. Labelled(all, label, what) = Found(all, hits)
  BY Zenon DEF Labelled, FirstAt, Found
<1>6. Labelled(text, label, what) = Found(text, inText)
  BY Zenon DEF Labelled, FirstAt, Found
<1>7. hits \subseteq DOMAIN all /\ inText \subseteq DOMAIN text
  OBVIOUS
<1> HIDE DEF hits, inText
<1>8. Behind(title, text, hits, inText)
  BY <1>3, <1>4, <1>7 DEF Behind, all, k
<1> QED
  BY <1>5, <1>6, <1>8, FoundBehindTitle DEF all

(* Nor does it become a match that is counted before those of the lines.   *)
LEMMA SecondBehindTitle ==
  ASSUME NEW title \in Text, NEW text \in Text, ~Mentions(title, Bare),
         NEW what \in Bare
  PROVE  Second(title \o text, what) = Second(text, what)
<1> DEFINE all == title \o text  k == Len(title)
           hits == {i \in DOMAIN all :
                      all[i].is = what /\ \E j \in DOMAIN all : j < i /\ all[j].is = what}
           inText == {i \in DOMAIN text :
                        text[i].is = what /\ \E j \in DOMAIN text : j < i /\ text[j].is = what}
<1>1. /\ k \in Nat /\ Len(text) \in Nat
      /\ DOMAIN text = 1 .. Len(text) /\ DOMAIN all = 1 .. k + Len(text)
      /\ \A i \in 1 .. k : all[i] = title[i]
      /\ \A i \in 1 .. Len(text) : all[k + i] = text[i]
  BY TitledText
<1>2. \A i \in 1 .. k : title[i].is # what
  BY TitledText DEF Mentions
<1> HIDE DEF all, k
<1>3. \A i \in 1 .. k : i \notin hits
  BY <1>1, <1>2
<1>4. ASSUME NEW i \in 1 .. Len(text) PROVE k + i \in hits <=> i \in inText
  <2>1. k + i \in DOMAIN all /\ all[k + i] = text[i] /\ i \in DOMAIN text
    BY <1>1
  <2>2. ASSUME NEW j \in DOMAIN text, j < i, text[j].is = what
        PROVE  k + j \in DOMAIN all /\ k + j < k + i /\ all[k + j].is = what
    BY <1>1, <2>2
  <2>3. ASSUME NEW j \in DOMAIN all, j < k + i, all[j].is = what
        PROVE  j - k \in DOMAIN text /\ j - k < i /\ text[j - k].is = what
    <3>1. j \notin 1 .. k
      BY <1>1, <1>2, <2>3
    <3>2. j - k \in 1 .. Len(text) /\ k + (j - k) = j /\ j - k < i
      BY <1>1, <2>3, <3>1
    <3> QED
      BY <1>1, <2>3, <3>2
  <2>4. (\E j \in DOMAIN all : j < k + i /\ all[j].is = what)
          <=> (\E j \in DOMAIN text : j < i /\ text[j].is = what)
    BY <2>2, <2>3
  <2> QED
    BY <2>1, <2>4
<1>5. Second(all, what) = Found(all, hits)
  BY Zenon DEF Second, FirstAt, Found
<1>6. Second(text, what) = Found(text, inText)
  BY Zenon DEF Second, FirstAt, Found
<1>7. hits \subseteq DOMAIN all /\ inText \subseteq DOMAIN text
  OBVIOUS
<1> HIDE DEF hits, inText
<1>8. Behind(title, text, hits, inText)
  BY <1>3, <1>4, <1>7 DEF Behind, all, k
<1> QED
  BY <1>5, <1>6, <1>8, FoundBehindTitle DEF all

(* A number in the title is harmless only above a labelled temperature.    *)
AfterTemp(text) ==
  Found(text, {i \in DOMAIN text : i > 1 /\ text[i - 1].is = "temp"})

Alike(text) ==
  Found(text, {i \in DOMAIN text :
    \/ text[i].is = "celsius"
    \/ /\ text[i].is \in Units /\ i < Len(text)
       /\ text[i + 1].is \in {"cpu", "CPU", "CPU:"}})

(* The temperature is the one behind its label, if that is one, else what  *)
(* looks like one.                                                         *)
LEMMA TemperatureIs ==
  ASSUME NEW text
  PROVE  TemperatureIn(text) = IF AfterTemp(text).is = "celsius" THEN AfterTemp(text) ELSE Alike(text)
  BY Zenon DEF TemperatureIn, LooksLikeCelsius, FirstAt, AfterTemp, Alike, Found

(* A title without the label hides no value behind the label.              *)
LEMMA AfterTempBehindTitle ==
  ASSUME NEW title \in Text, NEW text \in Text, ~Mentions(title, {"temp"})
  PROVE  AfterTemp(title \o text) = AfterTemp(text)
<1> DEFINE all == title \o text  k == Len(title)
           hits == {i \in DOMAIN all : i > 1 /\ all[i - 1].is = "temp"}
           inText == {i \in DOMAIN text : i > 1 /\ text[i - 1].is = "temp"}
<1>1. /\ k \in Nat /\ Len(text) \in Nat
      /\ DOMAIN text = 1 .. Len(text) /\ DOMAIN all = 1 .. k + Len(text)
      /\ \A i \in 1 .. k : all[i] = title[i]
      /\ \A i \in 1 .. Len(text) : all[k + i] = text[i]
  BY TitledText
<1>2. \A i \in 1 .. k : title[i].is # "temp"
  BY TitledText DEF Mentions
<1> HIDE DEF all, k
<1>3. ASSUME NEW i \in 1 .. k PROVE i \notin hits
  <2>1. SUFFICES ASSUME i \in hits PROVE FALSE
    OBVIOUS
  <2>2. i - 1 \in 1 .. k /\ all[i - 1].is = "temp"
    BY <1>1, <2>1
  <2> QED
    BY <1>1, <1>2, <2>2
<1>4. ASSUME NEW i \in 1 .. Len(text) PROVE k + i \in hits <=> i \in inText
  <2>1. k + i \in DOMAIN all /\ i \in DOMAIN text
    BY <1>1
  <2>2. CASE i = 1
    <3>1. i \notin inText
      BY <2>2
    <3>2. k + i \notin hits
      <4>1. SUFFICES ASSUME k + i \in hits PROVE FALSE
        OBVIOUS
      <4>2. k + i > 1 /\ (k + i) - 1 = k /\ all[(k + i) - 1].is = "temp"
        BY <1>1, <2>2, <4>1
      <4>3. k \in 1 .. k
        BY <1>1, <2>2, <4>2
      <4> QED
        BY <1>1, <1>2, <4>2, <4>3
    <3> QED
      BY <3>1, <3>2
  <2>3. CASE i # 1
    <3>0. k \in Nat /\ Len(text) \in Nat
      BY <1>1
    <3>1. i - 1 \in 1 .. Len(text) /\ (k + i) - 1 = k + (i - 1) /\ i > 1 /\ k + i > 1
      BY <2>3, <3>0
    <3>2. all[(k + i) - 1] = text[i - 1]
      BY <1>1, <3>1
    <3> QED
      BY <2>1, <3>1, <3>2
  <2> QED
    BY <2>2, <2>3
<1>5. hits \subseteq DOMAIN all /\ inText \subseteq DOMAIN text
  OBVIOUS
<1>6. AfterTemp(all) = Found(all, hits) /\ AfterTemp(text) = Found(text, inText)
  BY Zenon DEF AfterTemp
<1> HIDE DEF hits, inText
<1>7. Behind(title, text, hits, inText)
  BY <1>3, <1>4, <1>5 DEF Behind, all, k
<1> QED
  BY <1>6, <1>7, FoundBehindTitle DEF all

(* A title without units hides nothing that looks like a temperature.      *)
LEMMA AlikeBehindTitle ==
  ASSUME NEW title \in Text, NEW text \in Text, ~Mentions(title, Units)
  PROVE  Alike(title \o text) = Alike(text)
<1> DEFINE all == title \o text  k == Len(title)
           Is(t, i) == \/ t[i].is = "celsius"
                       \/ /\ t[i].is \in Units /\ i < Len(t)
                          /\ t[i + 1].is \in {"cpu", "CPU", "CPU:"}
           hits == {i \in DOMAIN all : Is(all, i)}
           inText == {i \in DOMAIN text : Is(text, i)}
<1>1. /\ k \in Nat /\ Len(text) \in Nat
      /\ DOMAIN text = 1 .. Len(text) /\ DOMAIN all = 1 .. k + Len(text)
      /\ Len(all) = k + Len(text)
      /\ \A i \in 1 .. k : all[i] = title[i]
      /\ \A i \in 1 .. Len(text) : all[k + i] = text[i]
  BY TitledText
<1>2. \A i \in 1 .. k : title[i].is \notin Units
  BY TitledText DEF Mentions
<1>3. "celsius" \in Units
  BY DEF Units
<1> HIDE DEF all, k
<1>4. \A i \in 1 .. k : i \notin hits
  BY <1>1, <1>2, <1>3
<1>5. ASSUME NEW i \in 1 .. Len(text) PROVE k + i \in hits <=> i \in inText
  <2>1. k + i \in DOMAIN all /\ all[k + i] = text[i] /\ i \in DOMAIN text
    BY <1>1
  <2>2. k + i < Len(all) <=> i < Len(text)
    BY <1>1
  <2>3. i < Len(text) => all[(k + i) + 1] = text[i + 1]
    <3>1. SUFFICES ASSUME i < Len(text) PROVE all[(k + i) + 1] = text[i + 1]
      OBVIOUS
    <3>2. i + 1 \in 1 .. Len(text) /\ (k + i) + 1 = k + (i + 1)
      BY <1>1, <3>1
    <3> QED
      BY <1>1, <3>2
  <2> QED
    BY <2>1, <2>2, <2>3
<1>6. hits \subseteq DOMAIN all /\ inText \subseteq DOMAIN text
  OBVIOUS
<1>7. Alike(all) = Found(all, hits) /\ Alike(text) = Found(text, inText)
  BY Zenon DEF Alike
<1> HIDE DEF hits, inText
<1>8. Behind(title, text, hits, inText)
  BY <1>4, <1>5, <1>6 DEF Behind, all, k
<1> QED
  BY <1>7, <1>8, FoundBehindTitle DEF all

(* So the temperature is the same with the title and without, for the      *)
(* titles that are plain.                                                  *)
LEMMA TemperatureBehindTitle ==
  ASSUME NEW title \in Text, NEW text \in Text, ~Mentions(title, Bare),
         Mentions(title, {"model"}) => AfterTemp(text).is = "celsius"
  PROVE  TemperatureIn(title \o text) = TemperatureIn(text)
<1>1. AfterTemp(title \o text) = AfterTemp(text)
  <2>1. ~Mentions(title, {"temp"})
    BY DEF Mentions, Bare, Labels
  <2> QED
    BY <2>1, AfterTempBehindTitle
<1>2. CASE AfterTemp(text).is = "celsius"
  BY <1>1, <1>2, TemperatureIs
<1>3. CASE ~Mentions(title, {"model"})
  <2>1. ~Mentions(title, Units)
    BY <1>3 DEF Mentions, Bare
  <2>2. Alike(title \o text) = Alike(text)
    BY <2>1, AlikeBehindTitle
  <2> QED
    BY <1>1, <2>2, TemperatureIs
<1> QED
  BY <1>2, <1>3

(* The device is told of a section what the lines alone say.               *)
LEMMA SectionBehindTitle ==
  ASSUME NEW title \in Text, NEW text \in Text, ~Mentions(title, Bare), NEW kind \in Kinds,
         Mentions(title, {"model"}) => AfterTemp(text).is = "celsius"
  PROVE  Section(kind, title \o text) = Section(kind, text)
<1> DEFINE all == title \o text
<1>1. /\ "percent" \in Bare /\ "watt" \in Bare /\ "capacity" \in Bare /\ "rate" \in Bare
      /\ "power" \in Bare /\ "upload" \in Bare /\ "download" \in Bare
  BY DEF Bare, Units, Labels
<1>2. TemperatureIn(all) = TemperatureIn(text)
  BY TemperatureBehindTitle
<1>3. /\ First(all, "percent") = First(text, "percent")
      /\ First(all, "watt") = First(text, "watt")
      /\ First(all, "capacity") = First(text, "capacity")
      /\ First(all, "rate") = First(text, "rate")
  BY <1>1, FirstBehindTitle
<1>4. Second(all, "rate") = Second(text, "rate")
  BY <1>1, SecondBehindTitle
<1>5. /\ Labelled(all, "power", "watt") = Labelled(text, "power", "watt")
      /\ Labelled(all, "upload", "rate") = Labelled(text, "upload", "rate")
      /\ Labelled(all, "download", "rate") = Labelled(text, "download", "rate")
  BY <1>1, LabelledBehindTitle
<1> HIDE DEF all
<1>6. PowerIn(all) = PowerIn(text)
  BY <1>3, <1>5 DEF PowerIn
<1>7. UploadIn(all) = UploadIn(text) /\ DownloadIn(all) = DownloadIn(text)
  BY <1>3, <1>4, <1>5, RatePlaces
<1>8. CASE kind \in {"cpu", "gpu"}
  BY <1>2, <1>3, <1>6, <1>8 DEF Section, all
<1>9. CASE kind = "memory"
  BY <1>3, <1>9 DEF Section, all
<1>10. CASE kind = "network"
  BY <1>7, <1>10 DEF Section, all
<1> QED
  BY <1>8, <1>9, <1>10 DEF Kinds

(* A plain section has no name of another kind.                            *)
LEMMA NoOtherName ==
  ASSUME NEW node \in Node, Plain(node), NEW r \in 1 .. 4,
         TitleRules[r].kind # KindBy(TitleRules, <<node.title[1]>>)
  PROVE  ~Mentions(node.title \o Joined(node), TitleRules[r].words)
<1> DEFINE all == node.title \o Joined(node)
           mine == KindBy(TitleRules, <<node.title[1]>>)
           others == {q \in DOMAIN TitleRules : TitleRules[q].kind # mine}
           names == UNION {TitleRules[q].words : q \in others}
<1>1. ~Mentions(all, names)
  BY Zenon DEF Plain
<1>2. r \in others
  <2>1. DOMAIN TitleRules = 1 .. 4
    BY DEF TitleRules
  <2> HIDE DEF mine
  <2> QED
    BY <2>1 DEF mine
<1>3. TitleRules[r].words \subseteq names
  <2> HIDE DEF others
  <2> QED
    BY <1>2
<1> HIDE DEF names, all
<1> QED
  BY <1>1, <1>3 DEF Mentions, all

(* Both sets of rules find the kind of a plain section.                    *)
LEMMA PlainKind ==
  ASSUME NEW node \in Node, Plain(node)
  PROVE  SectionKind(node) = ComponentKind(node) /\ ComponentKind(node) \in Kinds
<1> DEFINE title == node.title  text == Joined(node)  all == title \o text
           w == title[1].is
           mine == KindBy(TitleRules, <<title[1]>>)
<1>1. title \in Text /\ text \in Text
  BY JoinedType DEF Node
<1>2. title # <<>> /\ w \in {"CPU", "CPU:", "GPU", "GPU:", "Neicun", "Wangluo"}
  BY DEF Plain, StartsWith
<1>3. 1 \in DOMAIN title
  <2>1. title \in Seq(Token)
    BY <1>1 DEF Text
  <2> HIDE DEF Token
  <2> QED
    BY <1>2, <2>1, LenProperties, EmptySeq
<1>4. \A words : w \in words => Mentions(title, words)
  BY <1>3 DEF Mentions
<1>5. \A words : Mentions(<<title[1]>>, words) <=> w \in words
  <2>1. DOMAIN <<title[1]>> = {1} /\ <<title[1]>>[1] = title[1]
    OBVIOUS
  <2> QED
    BY <2>1 DEF Mentions
<1>6. \A words : Mentions(all, words) <=> Mentions(title, words) \/ Mentions(text, words)
  BY <1>1, TitledMentions
<1>7. /\ TitleRules[1] = [kind |-> "cpu", words |-> {"cpu", "CPU", "CPU:"}]
      /\ TitleRules[2] = [kind |-> "gpu", words |-> {"gpu", "GPU", "GPU:"}]
      /\ TitleRules[3] = [kind |-> "memory", words |-> {"memory", "Neicun"}]
      /\ TitleRules[4] = [kind |-> "network", words |-> {"network", "Wangluo"}]
  BY DEF TitleRules
<1>8. /\ mine # "cpu" => ~Mentions(all, {"cpu", "CPU", "CPU:"})
      /\ mine # "gpu" => ~Mentions(all, {"gpu", "GPU", "GPU:"})
      /\ mine # "memory" => ~Mentions(all, {"memory", "Neicun"})
  <2>1. ASSUME NEW r \in 1 .. 4, TitleRules[r].kind # mine
        PROVE  ~Mentions(all, TitleRules[r].words)
    BY <2>1, NoOtherName
  <2> HIDE DEF all, mine
  <2>2. /\ TitleRules[1].kind = "cpu" /\ TitleRules[1].words = {"cpu", "CPU", "CPU:"}
        /\ TitleRules[2].kind = "gpu" /\ TitleRules[2].words = {"gpu", "GPU", "GPU:"}
        /\ TitleRules[3].kind = "memory" /\ TitleRules[3].words = {"memory", "Neicun"}
    BY <1>7
  <2>3. 1 \in 1 .. 4 /\ 2 \in 1 .. 4 /\ 3 \in 1 .. 4
    OBVIOUS
  <2> QED
    BY <2>1, <2>2, <2>3
<1>9. mine = IF w \in {"cpu", "CPU", "CPU:"} THEN "cpu"
             ELSE IF w \in {"gpu", "GPU", "GPU:"} THEN "gpu"
             ELSE IF w \in {"memory", "Neicun"} THEN "memory"
             ELSE IF w \in {"network", "Wangluo"} THEN "network" ELSE Generic
  BY <1>5, KindByTitle
<1>10. KindBy(TitleRules, title) =
         IF Mentions(title, {"cpu", "CPU", "CPU:"}) THEN "cpu"
         ELSE IF Mentions(title, {"gpu", "GPU", "GPU:"}) THEN "gpu"
         ELSE IF Mentions(title, {"memory", "Neicun"}) THEN "memory"
         ELSE IF Mentions(title, {"network", "Wangluo"}) THEN "network" ELSE Generic
  BY KindByTitle
<1>11. KindBy(TitleRules, title) # Generic => ComponentKind(node) = KindBy(TitleRules, title)
  BY Zenon DEF ComponentKind
<1>12. SectionKind(node) =
         IF StartsWith(title, {"CPU", "CPU:"}) \/ Mentions(all, {"CPU:"}) THEN "cpu"
         ELSE IF StartsWith(title, {"GPU", "GPU:"}) \/ Mentions(all, {"GPU:"}) THEN "gpu"
         ELSE IF Mentions(all, {"Neicun"}) THEN "memory"
         ELSE IF Mentions(all, {"Wangluo"}) THEN "network" ELSE Generic
  BY Zenon DEF SectionKind
<1>13. \A words : StartsWith(title, words) <=> w \in words
  BY <1>2 DEF StartsWith
<1>14. /\ Mentions(all, {"CPU:"}) => Mentions(all, {"cpu", "CPU", "CPU:"})
       /\ Mentions(all, {"GPU:"}) => Mentions(all, {"gpu", "GPU", "GPU:"})
       /\ Mentions(all, {"Neicun"}) => Mentions(all, {"memory", "Neicun"})
  BY DEF Mentions
<1> HIDE DEF title, text, all, mine, w
<1>15. CASE w \in {"CPU", "CPU:"}
  <2>1. KindBy(TitleRules, title) = "cpu"
    BY <1>4, <1>10, <1>15
  <2>2. SectionKind(node) = "cpu"
    BY <1>12, <1>13, <1>15
  <2> QED
    BY <1>11, <2>1, <2>2 DEF Generic, Kinds
<1>16. CASE w \in {"GPU", "GPU:"}
  <2>1. mine = "gpu"
    BY <1>9, <1>16
  <2>2. ~Mentions(all, {"cpu", "CPU", "CPU:"}) /\ ~Mentions(title, {"cpu", "CPU", "CPU:"})
    BY <1>6, <1>8, <2>1
  <2>3. Mentions(title, {"gpu", "GPU", "GPU:"})
    BY <1>4, <1>16
  <2>4. KindBy(TitleRules, title) = "gpu"
    BY <1>10, <2>2, <2>3
  <2>5. ~StartsWith(title, {"CPU", "CPU:"}) /\ StartsWith(title, {"GPU", "GPU:"})
    BY <1>13, <1>16
  <2>6. SectionKind(node) = "gpu"
    BY <1>12, <1>14, <2>2, <2>5
  <2> QED
    BY <1>11, <2>4, <2>6 DEF Generic, Kinds
<1>17. CASE w = "Neicun"
  <2>1. mine = "memory"
    BY <1>9, <1>17
  <2>2. /\ ~Mentions(all, {"cpu", "CPU", "CPU:"}) /\ ~Mentions(title, {"cpu", "CPU", "CPU:"})
        /\ ~Mentions(all, {"gpu", "GPU", "GPU:"}) /\ ~Mentions(title, {"gpu", "GPU", "GPU:"})
    BY <1>6, <1>8, <2>1
  <2>3. Mentions(title, {"memory", "Neicun"}) /\ Mentions(all, {"Neicun"})
    BY <1>4, <1>6, <1>17
  <2>4. KindBy(TitleRules, title) = "memory"
    BY <1>10, <2>2, <2>3
  <2>5. ~StartsWith(title, {"CPU", "CPU:"}) /\ ~StartsWith(title, {"GPU", "GPU:"})
    BY <1>13, <1>17
  <2>6. SectionKind(node) = "memory"
    BY <1>12, <1>14, <2>2, <2>3, <2>5
  <2> QED
    BY <1>11, <2>4, <2>6 DEF Generic, Kinds
<1>18. CASE w = "Wangluo"
  <2>1. mine = "network"
    BY <1>9, <1>18
  <2>2. /\ ~Mentions(all, {"cpu", "CPU", "CPU:"}) /\ ~Mentions(title, {"cpu", "CPU", "CPU:"})
        /\ ~Mentions(all, {"gpu", "GPU", "GPU:"}) /\ ~Mentions(title, {"gpu", "GPU", "GPU:"})
        /\ ~Mentions(all, {"memory", "Neicun"}) /\ ~Mentions(title, {"memory", "Neicun"})
    BY <1>6, <1>8, <2>1
  <2>3. Mentions(title, {"network", "Wangluo"}) /\ Mentions(all, {"Wangluo"})
    BY <1>4, <1>6, <1>18
  <2>4. KindBy(TitleRules, title) = "network"
    BY <1>10, <2>2, <2>3
  <2>5. ~StartsWith(title, {"CPU", "CPU:"}) /\ ~StartsWith(title, {"GPU", "GPU:"})
    BY <1>13, <1>18
  <2>6. SectionKind(node) = "network"
    BY <1>12, <1>14, <2>2, <2>3, <2>5
  <2> QED
    BY <1>11, <2>4, <2>6 DEF Generic, Kinds
<1> QED
  BY <1>2, <1>15, <1>16, <1>17, <1>18

(* What the device is told of a plain section is what the window shows.    *)
LEMMA PlainSection ==
  ASSUME NEW node \in Node, Plain(node)
  PROVE  Section(ComponentKind(node), node.title \o Joined(node)) = Card(node).section
<1> DEFINE title == node.title  text == Joined(node)  kind == ComponentKind(node)
<1>1. title \in Text /\ text \in Text /\ kind \in Kinds
  BY JoinedType, PlainKind DEF Node
<1>2. ~Mentions(title, Bare)
  BY Zenon DEF Plain, Bare
<1>3. Mentions(title, {"model"}) => AfterTemp(text).is = "celsius"
  BY Zenon DEF Plain, FirstAt, AfterTemp, Found
<1>4. Card(node).section = Section(kind, text)
  BY DEF Card
<1> HIDE DEF title, text, kind
<1>5. Section(kind, title \o text) = Section(kind, text)
  BY <1>1, <1>2, <1>3, SectionBehindTitle
<1> QED
  BY <1>4, <1>5 DEF title, text, kind

(* Window and device are told the same of every kind, however long the     *)
(* frame and whatever it says, as long as its sections are written plainly *)
(* (resolvedata, componentKind).                                           *)
THEOREM AlwaysAgree == Spec => []DeviceAgreesOnPlain
<1>1. IInv => DeviceAgreesOnPlain
  <2> SUFFICES ASSUME IInv, \A i \in DOMAIN nodes : Plain(nodes[i]) PROVE json = ShownLast
    BY DEF DeviceAgreesOnPlain
  <2> DEFINE L == Len(nodes)
             told(k) == {i \in DOMAIN nodes : SectionKind(nodes[i]) = k}
             shown(k) == {i \in DOMAIN cards : cards[i].kind = k}
             Of(i) == Section(ComponentKind(nodes[i]), nodes[i].title \o Joined(nodes[i]))
  <2>1. /\ nodes \in Seq(Node) /\ cards = [i \in DOMAIN nodes |-> Card(nodes[i])]
        /\ json = Json(nodes)
    BY DEF IInv, TypeOK, FromLines
  <2>2. L \in Nat /\ DOMAIN nodes = 1 .. L /\ \A i \in 1 .. L : nodes[i] \in Node
    <3> HIDE DEF L
    <3> QED
      BY <2>1, LenProperties DEF L
  <2>3. ASSUME NEW i \in 1 .. L
        PROVE  /\ SectionKind(nodes[i]) = cards[i].kind
               /\ Section(cards[i].kind, nodes[i].title \o Joined(nodes[i])) = cards[i].section
    <3>1. nodes[i] \in Node /\ Plain(nodes[i]) /\ cards[i] = Card(nodes[i])
      BY <2>1, <2>2
    <3>2. Card(nodes[i]).kind = ComponentKind(nodes[i])
      BY DEF Card
    <3>3. SectionKind(nodes[i]) = ComponentKind(nodes[i])
      BY <3>1, PlainKind
    <3>4. Section(ComponentKind(nodes[i]), nodes[i].title \o Joined(nodes[i]))
            = Card(nodes[i]).section
      BY <3>1, PlainSection
    <3> QED
      BY <3>1, <3>2, <3>3, <3>4
  <2>4. DOMAIN cards = 1 .. L
    BY <2>1, <2>2
  <2>5. \A k : told(k) = shown(k)
    BY <2>2, <2>3, <2>4
  <2>6. ASSUME NEW k, told(k) # {}
        PROVE  Section(k, nodes[Max(told(k))].title \o Joined(nodes[Max(told(k))]))
                 = cards[Max(shown(k))].section
    <3> DEFINE m == Max(told(k))
    <3>1. m \in told(k)
      <4>1. told(k) \in SUBSET (1 .. L)
        BY <2>2
      <4> HIDE DEF told
      <4> QED
        BY <2>2, <2>6, <4>1, MaxIsGreatest
    <3>2. Max(shown(k)) = m
      BY <2>5, Zenon
    <3> HIDE DEF m
    <3>3. m \in 1 .. L /\ cards[m].kind = k
      BY <2>2, <2>3, <3>1
    <3> QED
      BY <2>3, <3>2, <3>3 DEF m
  <2>7. Json(nodes) = [k \in {k \in Kinds : told(k) # {}} |->
                         Section(k, nodes[Max(told(k))].title \o Joined(nodes[Max(told(k))]))]
    BY Zenon DEF Json
  <2>8. ShownLast = [k \in {k \in Kinds : shown(k) # {}} |-> cards[Max(shown(k))].section]
    BY Zenon DEF ShownLast
  <2> DEFINE toldKinds == {k \in Kinds : told(k) # {}}
             shownKinds == {k \in Kinds : shown(k) # {}}
  <2>9. toldKinds = shownKinds
    BY <2>5, Zenon
  <2> HIDE DEF told, shown
  <2>10. \A k \in toldKinds :
           Section(k, nodes[Max(told(k))].title \o Joined(nodes[Max(told(k))]))
             = cards[Max(shown(k))].section
    BY <2>6
  <2> QED
    BY <2>1, <2>7, <2>8, <2>9, <2>10, Zenon
<1> QED
  BY <1>1, AlwaysFits, PTL
=============================================================================
