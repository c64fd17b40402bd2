------------------------ MODULE TextTransformsProofs ------------------------
(***************************************************************************)
(* What detection and replacement promise for texts and findings of any    *)
(* length, any word lists and any plan.  The text is scanned as it came    *)
(* (StageOK), so that a theorem about the scanner holds of what was found; *)
(* the loop then works on a working copy of which ReplacedSoFar says what  *)
(* it is at every place in the queue: the input, each usable finding that  *)
(* was passed replaced whole.  That offsets of the input still fit the     *)
(* working copy is the core: nothing in front of the next finding has been *)
(* touched, because the queue goes from the end of the text to its start.  *)
(***************************************************************************)
EXTENDS TextTransforms, SequenceLemmas, TLAPS

\* Every finding that a scan or a client may give, of whatever range.
FindingSet == [type : EntityTypes, start : Int, end : Int, size : Nat]

-----------------------------------------------------------------------------
(* Names *)

\* A word and its place.
TokenSet == [text : Words, at : Nat]

\* The tokens of a text stand in it from left to right.
LEMMA TokensInOrder ==
  ASSUME NEW txt \in Seq(Words)
  PROVE  /\ Tokens(txt) \in Seq(TokenSet)
         /\ \A a \in 1..Len(Tokens(txt)) : Tokens(txt)[a].at \in 1..Len(txt)
         /\ \A a, b \in 1..Len(Tokens(txt)) : a < b => Tokens(txt)[a].at < Tokens(txt)[b].at
<1> DEFINE piece(i) == IF txt[i] \in Blanks THEN <<>> ELSE << [text |-> txt[i], at |-> i] >>
           s == [i \in DOMAIN txt |-> piece(i)]
           u == FlattenSeq(s)
<1>1. Tokens(txt) = u
  BY DEF Tokens
<1>2. Len(txt) \in Nat /\ DOMAIN txt = 1..Len(txt)
  OBVIOUS
<1>3. \A i \in 1..Len(txt) : piece(i) \in Seq(TokenSet) /\ Len(piece(i)) <= 1
  <2>1. SUFFICES ASSUME NEW i \in 1..Len(txt) PROVE piece(i) \in Seq(TokenSet) /\ Len(piece(i)) <= 1
    OBVIOUS
  <2>2. txt[i] \in Words /\ i \in Nat
    BY <1>2
  <2>3. [text |-> txt[i], at |-> i] \in TokenSet
    BY <2>2 DEF TokenSet
  <2> QED BY <2>3
<1>4. s \in Seq(Seq(TokenSet)) /\ Len(s) = Len(txt) /\ \A i \in 1..Len(txt) : s[i] = piece(i)
  <2> HIDE DEF piece
  <2> QED BY <1>2, <1>3
<1>5. u \in Seq(TokenSet)
  <2> HIDE DEF s
  <2> QED BY <1>4, FlattenSeqType
<1>6. PICK place : Places(place, u, s, Len(s))
  <2>1. \A i \in 1..Len(s) : Len(s[i]) <= 1
    BY <1>3, <1>4
  <2> HIDE DEF s
  <2> QED BY <1>4, <2>1, FlattenSeqFilter
<1> HIDE DEF u, s
<1>7. \A a \in 1..Len(u) : u[a].at = place[a] /\ place[a] \in 1..Len(txt)
  <2>1. SUFFICES ASSUME NEW a \in 1..Len(u) PROVE u[a].at = place[a] /\ place[a] \in 1..Len(txt)
    OBVIOUS
  <2>2. place[a] \in 1..Len(txt) /\ s[place[a]] = <<u[a]>>
    BY <1>4, <1>6 DEF Places
  <2>3. piece(place[a]) = <<u[a]>>
    BY <1>4, <2>2
  <2> QED BY <2>2, <2>3
<1> QED
  BY <1>1, <1>5, <1>6, <1>7 DEF Places

\* A span ends where it does not go on.
LEMMA SpanEndDef ==
  ASSUME NEW B, NEW tokens \in Seq(B), NEW n \in 1..Len(tokens)
  PROVE  /\ SpanEnd(tokens, n) \in n..Len(tokens)
         /\ ~GoesOn(tokens, SpanEnd(tokens, n) + 1)
         /\ \A j \in (n + 1)..SpanEnd(tokens, n) : GoesOn(tokens, j)
<1> DEFINE L == Len(tokens)
           Stops == {e \in n..L : ~GoesOn(tokens, e + 1)}
<1>1. L \in Nat /\ n \in Nat /\ n <= L
  OBVIOUS
<1>2. L \in Stops
  BY <1>1 DEF GoesOn
<1>3. PICK e \in Stops : \A m \in Stops : e <= m
  <2>1. \A m \in Stops : m \in Nat
    BY <1>1
  <2> HIDE DEF Stops
  <2>2. Stops \subseteq Nat /\ Stops # {}
    BY <1>2, <2>1
  <2> QED BY <2>2, LeastOf
<1>4. \A j \in (n + 1)..e : GoesOn(tokens, j)
  <2>1. SUFFICES ASSUME NEW j \in (n + 1)..e, ~GoesOn(tokens, j) PROVE FALSE
    OBVIOUS
  <2>2. j - 1 \in n..L /\ j = (j - 1) + 1 /\ ~ (e <= j - 1)
    BY <1>1
  <2> QED BY <1>3, <2>1, <2>2
<1>5. \E x \in n..Len(tokens) : ~GoesOn(tokens, x + 1) /\ \A j \in (n + 1)..x : GoesOn(tokens, j)
  BY <1>4
<1> HIDE DEF Stops, L
<1> QED
  BY <1>5, Zenon DEF SpanEnd

\* Every word of a span is in the same span as the first.
LEMMA SpanEndShared ==
  ASSUME NEW B, NEW tokens \in Seq(B), NEW n \in 1..Len(tokens), NEW j \in n..SpanEnd(tokens, n)
  PROVE  j \in 1..Len(tokens) /\ SpanEnd(tokens, j) = SpanEnd(tokens, n)
<1> DEFINE e == SpanEnd(tokens, n)
           x == SpanEnd(tokens, j)
<1>1. e \in n..Len(tokens) /\ ~GoesOn(tokens, e + 1) /\ \A i \in (n + 1)..e : GoesOn(tokens, i)
  BY SpanEndDef
<1>2. j \in 1..Len(tokens)
  BY <1>1
<1>3. x \in j..Len(tokens) /\ ~GoesOn(tokens, x + 1) /\ \A i \in (j + 1)..x : GoesOn(tokens, i)
  BY <1>2, SpanEndDef
<1>4. j \in n..e
  OBVIOUS
<1> HIDE DEF e, x
<1>5. ~ (e < x)
  <2>1. SUFFICES ASSUME e < x PROVE e + 1 \in (j + 1)..x
    BY <1>1, <1>3
  <2> QED BY <1>1, <1>3, <1>4, <2>1
<1>6. ~ (x < e)
  <2>1. SUFFICES ASSUME x < e PROVE x + 1 \in (n + 1)..e
    BY <1>1, <1>3
  <2> QED BY <1>1, <1>2, <1>3, <1>4, <2>1
<1> QED
  BY <1>1, <1>2, <1>3, <1>5, <1>6 DEF e, x

\* What is reported for a span lies between its first and its last word.
LEMMA NameInSpan ==
  ASSUME NEW txt \in Seq(Words), NEW wanted, NEW n \in 1..Len(Tokens(txt)),
         Classes(txt, Tokens(txt), n, wanted) # {}
  PROVE  LET name == Name(txt, Tokens(txt), n, wanted) IN
         /\ name \in FindingSet /\ name.type \in wanted \cap NameTypes
         /\ Tokens(txt)[n].at - 1 <= name.start /\ name.start < name.end
         /\ name.end = Tokens(txt)[SpanEnd(Tokens(txt), n)].at
         /\ \E c \in Classes(txt, Tokens(txt), n, wanted) :
              name.type = Heuristics[c] /\ \A d \in Classes(txt, Tokens(txt), n, wanted) : c <= d
<1> DEFINE tokens == Tokens(txt)
           e == SpanEnd(tokens, n)
           cs == Classes(txt, tokens, n, wanted)
           type == Heuristics[Min(cs)]
           from == NameStart(tokens, n, type)
<1>1. /\ tokens \in Seq(TokenSet)
      /\ \A a \in 1..Len(tokens) : tokens[a].at \in 1..Len(txt)
      /\ \A a, b \in 1..Len(tokens) : a < b => tokens[a].at < tokens[b].at
  BY TokensInOrder
<1>2. e \in n..Len(tokens)
  <2>1. n \in 1..Len(tokens)
    OBVIOUS
  <2> HIDE DEF tokens
  <2> QED BY <1>1, <2>1, SpanEndDef
<1>3. Min(cs) \in cs /\ \A d \in cs : Min(cs) <= d
  <2>1. \A c \in cs : c \in Nat
    BY DEF Classes, Heuristics
  <2> HIDE DEF cs
  <2>2. cs \subseteq Nat /\ cs # {}
    BY <2>1 DEF cs
  <2>3. \E x \in cs : \A y \in cs : x <= y
    BY <2>2, LeastOf
  <2> QED BY <2>3 DEF Min
<1>4. type \in wanted \cap NameTypes
  <2>1. \A c \in cs : Heuristics[c] \in wanted /\ c \in DOMAIN Heuristics
    BY DEF Classes
  <2>2. \A c \in DOMAIN Heuristics : Heuristics[c] \in NameTypes
    BY DEF Heuristics, NameTypes
  <2> HIDE DEF cs
  <2> QED BY <1>3, <2>1, <2>2
<1>5. from \in n..e
  <2>1. from = n \/ (from = n + 1 /\ e > n)
    BY DEF NameStart
  <2> HIDE DEF from, e
  <2> QED BY <1>2, <2>1
<1> HIDE DEF tokens, e, cs, type, from
<1>6. /\ from \in 1..Len(tokens) /\ e \in 1..Len(tokens) /\ n \in 1..Len(tokens)
      /\ tokens[from].at \in 1..Len(txt) /\ tokens[e].at \in 1..Len(txt) /\ tokens[n].at \in 1..Len(txt)
  BY <1>1, <1>2, <1>5 DEF tokens
<1>7. tokens[n].at <= tokens[from].at /\ tokens[from].at <= tokens[e].at
  <2>1. (n = from \/ n < from) /\ (from = e \/ from < e)
    BY <1>2, <1>5, <1>6
  <2> QED BY <1>1, <1>6, <2>1
<1>8. Name(txt, tokens, n, wanted) = Finding(type, tokens[from].at, tokens[e].at)
  BY DEF Name, type, cs, from, e
<1>9. type \in EntityTypes
  BY <1>4, PatternsAssumption
<1> DEFINE name == Finding(type, tokens[from].at, tokens[e].at)
<1>10. /\ name \in FindingSet /\ name.type = type /\ name.end = tokens[e].at
       /\ tokens[n].at - 1 <= name.start /\ name.start < name.end
  <2>1. name = [type |-> type, start |-> tokens[from].at - 1, end |-> tokens[e].at,
                size |-> tokens[e].at - tokens[from].at + 1]
    BY DEF Finding
  <2>2. /\ tokens[from].at - 1 \in Int /\ tokens[e].at \in Int /\ tokens[e].at - tokens[from].at + 1 \in Nat
        /\ tokens[n].at - 1 <= tokens[from].at - 1 /\ tokens[from].at - 1 < tokens[e].at
    BY <1>6, <1>7
  <2> QED BY <1>9, <2>1, <2>2 DEF FindingSet
<1> QED
  BY <1>3, <1>4, <1>8, <1>10 DEF tokens, e, cs, type

\* The recursion of scanNERWithFilter over the tokens.
NamesFrom(f, txt, wanted) ==
  LET tokens == Tokens(txt) IN
  /\ f[Len(tokens) + 1] = <<>>
  /\ \A i \in 1..Len(tokens) :
       f[i] = IF Classes(txt, tokens, i, wanted) = {} THEN f[i + 1]
              ELSE <<Name(txt, tokens, i, wanted)>> \o f[SpanEnd(tokens, i) + 1]

\* There is such a function, and the scan is its value at the first token.
LEMMA ScanNamesDef ==
  ASSUME NEW txt \in Seq(Words), NEW wanted
  PROVE  \E f : NamesFrom(f, txt, wanted) /\ ScanNames(txt, wanted) = f[1]
<1> DEFINE tokens == Tokens(txt)
           L == Len(tokens)
           none(i) == Classes(txt, tokens, i, wanted) = {}
           name(i) == Name(txt, tokens, i, wanted)
           after(i) == SpanEnd(tokens, i) + 1
           Rec(f) == f = [i \in 1..(L + 1) |->
                            IF i > L THEN <<>>
                            ELSE IF none(i) THEN f[i + 1]
                            ELSE <<name(i)>> \o f[after(i)]]
           g == CHOOSE f : Rec(f)
<1>1. ScanNames(txt, wanted) = g[1]
  BY DEF ScanNames
<1>2. L \in Nat
  BY TokensInOrder
<1>3. \A i \in 1..L : after(i) \in (i + 1)..(L + 1)
  <2>1. tokens \in Seq(TokenSet)
    BY TokensInOrder
  <2>2. SUFFICES ASSUME NEW i \in 1..L PROVE after(i) \in (i + 1)..(L + 1)
    OBVIOUS
  <2>3. SpanEnd(tokens, i) \in i..L
    <3> HIDE DEF tokens
    <3> QED BY <2>1, SpanEndDef
  <2> QED BY <1>2, <2>3
<1>4. \E f : Rec(f)
  <2> DEFINE piece == [i \in 1..L |-> IF none(i) THEN <<>> ELSE <<name(i)>>]
             next == [i \in 1..L |-> IF none(i) THEN i + 1 ELSE after(i)]
  <2>1. piece \in [1..L -> Seq(FindingSet)]
    <3>1. SUFFICES ASSUME NEW i \in 1..L PROVE (IF none(i) THEN <<>> ELSE <<name(i)>>) \in Seq(FindingSet)
      OBVIOUS
    <3>2. ~none(i) => name(i) \in FindingSet
      BY NameInSpan
    <3> HIDE DEF none, name
    <3> QED BY <3>2
  <2> HIDE DEF tokens, none, name, after
  <2>2. LeadsOn(next, L)
    <3>1. \A i \in 1..L : after(i) \in 1..(L + 1) /\ i < after(i) /\ i + 1 \in 1..(L + 1) /\ i < i + 1
      BY <1>2, <1>3
    <3> HIDE DEF L
    <3> QED BY <3>1 DEF LeadsOn
  <2> HIDE DEF L, piece, next
  <2>3. PICK f \in [1..(L + 1) -> Seq(FindingSet)] :
          Collects(f, piece, next, L)
    BY <1>2, <2>1, <2>2, DownwardRecursion, Zenon
  <2>4. ASSUME NEW i \in 1..(L + 1)
        PROVE  f[i] = IF i > L THEN <<>> ELSE IF none(i) THEN f[i + 1] ELSE <<name(i)>> \o f[after(i)]
    <3>1. CASE i > L
      <4>1. i = L + 1
        BY <1>2, <3>1
      <4> QED BY <2>3, <3>1, <4>1 DEF Collects
    <3>2. CASE ~ (i > L)
      <4>1. i \in 1..L
        BY <1>2, <3>2
      <4>2. f[i] = piece[i] \o f[next[i]]
        BY <2>3, <4>1 DEF Collects
      <4>3. CASE none(i)
        <5>1. piece[i] = <<>> /\ next[i] = i + 1
          BY <4>1, <4>3 DEF piece, next
        <5>2. f[i + 1] \in Seq(FindingSet)
          BY <1>2, <4>1
        <5> QED BY <3>2, <4>2, <4>3, <5>1, <5>2, ConcatEmptySeq
      <4>4. CASE ~none(i)
        <5>1. piece[i] = <<name(i)>> /\ next[i] = after(i)
          BY <4>1, <4>4 DEF piece, next
        <5> QED BY <3>2, <4>2, <4>4, <5>1
      <4> QED BY <4>3, <4>4
    <3> QED BY <3>1, <3>2
  <2>5. Rec(f)
    BY <2>4
  <2> HIDE DEF Rec
  <2> QED BY <2>5
<1>5. Rec(g)
  <2> HIDE DEF Rec
  <2> QED BY <1>4
<1>6. NamesFrom(g, txt, wanted)
  <2> HIDE DEF g
  <2>1. L + 1 \in 1..(L + 1) /\ L + 1 > L /\ \A i \in 1..L : i \in 1..(L + 1) /\ ~ (i > L)
    BY <1>2
  <2> HIDE DEF L, none, name, after
  <2>2. g[L + 1] = <<>>
    BY <1>5, <2>1
  <2>3. \A i \in 1..L : g[i] = IF none(i) THEN g[i + 1] ELSE <<name(i)>> \o g[after(i)]
    BY <1>5, <2>1
  <2> QED BY <2>2, <2>3 DEF NamesFrom, L, none, name, after
<1> QED
  BY <1>1, <1>6

\* Each of s ends before the later ones start.
Apart(s) == \A a, b \in 1..Len(s) : a < b => s[a].end <= s[b].start

\* s holds names of the types asked for, apart, none of them before place.
NamesAfter(s, wanted, place) ==
  /\ s \in Seq(FindingSet) /\ Apart(s)
  /\ \A a \in 1..Len(s) : s[a].type \in wanted \cap NameTypes /\ place - 1 <= s[a].start

\* From every token on, the names found are apart.
LEMMA NamesFromAfter ==
  ASSUME NEW txt \in Seq(Words), NEW wanted, NEW f, NamesFrom(f, txt, wanted)
  PROVE  \A i \in 1..(Len(Tokens(txt)) + 1) : NamesAfter(f[i], wanted, 1)
<1> DEFINE tokens == Tokens(txt)
           L == Len(tokens)
           at(i) == IF i > L THEN Len(txt) + 1 ELSE tokens[i].at
<1>1. /\ tokens \in Seq(TokenSet) /\ L \in Nat
      /\ \A a \in 1..L : tokens[a].at \in 1..Len(txt)
      /\ \A a, b \in 1..L : a < b => tokens[a].at < tokens[b].at
  BY TokensInOrder
<1>2. NamesFrom(f, txt, wanted)
  OBVIOUS
<1> DEFINE G == {i \in 1..(L + 1) : NamesAfter(f[i], wanted, at(i))}
<1>3. Len(txt) \in Nat /\ \A i \in 1..(L + 1) : at(i) \in 1..(Len(txt) + 1)
  <2>1. Len(txt) \in Nat
    OBVIOUS
  <2>2. SUFFICES ASSUME NEW i \in 1..(L + 1) PROVE at(i) \in 1..(Len(txt) + 1)
    BY <2>1
  <2>3. CASE i > L
    BY <2>1, <2>3
  <2>4. CASE ~ (i > L)
    <3>1. i \in 1..L
      BY <1>1, <2>4
    <3>2. tokens[i].at \in 1..Len(txt)
      BY <1>1, <3>1
    <3> HIDE DEF tokens
    <3> QED BY <2>1, <2>4, <3>2
  <2> QED BY <2>3, <2>4
<1>4. \A i, j \in 1..(L + 1) : i < j => at(i) < at(j)
  <2>1. SUFFICES ASSUME NEW i \in 1..(L + 1), NEW j \in 1..(L + 1), i < j PROVE at(i) < at(j)
    OBVIOUS
  <2>2. i \in 1..L /\ at(i) = tokens[i].at /\ at(i) \in 1..Len(txt)
    BY <1>1, <2>1
  <2>3. CASE j > L
    <3>1. at(j) = Len(txt) + 1
      BY <2>3
    <3> HIDE DEF at
    <3> QED BY <1>3, <2>2, <3>1
  <2>4. CASE ~ (j > L)
    <3>1. j \in 1..L /\ at(j) = tokens[j].at
      BY <1>1, <2>4
    <3> HIDE DEF at, L
    <3> QED BY <1>1, <2>1, <2>2, <3>1
  <2> QED BY <2>3, <2>4
<1> HIDE DEF at
<1>5. L + 1 \in G
  <2>1. f[L + 1] = <<>> /\ L + 1 \in 1..(L + 1)
    BY <1>1, <1>2 DEF NamesFrom
  <2>2. NamesAfter(<<>>, wanted, at(L + 1))
    BY DEF NamesAfter, Apart
  <2> QED BY <2>1, <2>2
<1>6. ASSUME NEW i \in 1..L, \A j \in (i + 1)..(L + 1) : j \in G PROVE i \in G
  <2> DEFINE none == Classes(txt, tokens, i, wanted) = {}
             e == SpanEnd(tokens, i)
             name == Name(txt, tokens, i, wanted)
  <2>1. e \in i..L
    <3>1. i \in 1..Len(tokens)
      OBVIOUS
    <3> HIDE DEF tokens
    <3> QED BY <1>1, <3>1, SpanEndDef
  <2>2. f[i] = IF none THEN f[i + 1] ELSE <<name>> \o f[e + 1]
    BY <1>2 DEF NamesFrom
  <2>3. ~none => /\ name \in FindingSet /\ name.type \in wanted \cap NameTypes
                 /\ tokens[i].at - 1 <= name.start /\ name.start < name.end /\ name.end = tokens[e].at
    BY NameInSpan
  <2>4. /\ i \in 1..(L + 1) /\ i + 1 \in (i + 1)..(L + 1) /\ e + 1 \in (i + 1)..(L + 1) /\ e \in 1..(L + 1)
        /\ at(i) = tokens[i].at /\ at(e) = tokens[e].at /\ i < i + 1 /\ e < e + 1 /\ i <= e
        /\ i + 1 \in 1..(L + 1) /\ e + 1 \in 1..(L + 1)
    BY <1>1, <2>1 DEF at
  <2> HIDE DEF none, e, name, tokens, L
  <2>5. /\ at(i) \in Nat /\ at(i + 1) \in Nat /\ at(e) \in Nat /\ at(e + 1) \in Nat
        /\ at(i) < at(i + 1) /\ at(e) < at(e + 1)
    BY <1>3, <1>4, <2>4
  <2>6. NamesAfter(f[i + 1], wanted, at(i + 1)) /\ NamesAfter(f[e + 1], wanted, at(e + 1))
    BY <1>6, <2>4
  <2>7. CASE none
    <3>1. f[i] \in Seq(FindingSet) /\ Apart(f[i])
      BY <2>2, <2>6, <2>7 DEF NamesAfter
    <3>2. ASSUME NEW a \in 1..Len(f[i]) PROVE f[i][a].type \in wanted \cap NameTypes /\ at(i) - 1 <= f[i][a].start
      <4>1. f[i][a].type \in wanted \cap NameTypes /\ at(i + 1) - 1 <= f[i][a].start /\ f[i][a] \in FindingSet
        BY <2>2, <2>6, <2>7, <3>1 DEF NamesAfter
      <4>2. f[i][a].start \in Int
        BY <4>1 DEF FindingSet
      <4> QED BY <2>5, <4>1, <4>2
    <3> QED BY <2>4, <3>1, <3>2 DEF NamesAfter
  <2>8. CASE ~none
    <3> DEFINE s == f[e + 1]
               u == <<name>> \o s
    <3>1. s \in Seq(FindingSet) /\ Apart(s) /\ name \in FindingSet
      BY <2>3, <2>6, <2>8 DEF NamesAfter
    <3>2. \A a \in 1..Len(s) : s[a].type \in wanted \cap NameTypes /\ at(e + 1) - 1 <= s[a].start
      BY <2>6 DEF NamesAfter
    <3> HIDE DEF s
    <3>3. /\ u \in Seq(FindingSet) /\ Len(u) = Len(s) + 1 /\ u[1] = name
          /\ \A a \in 2..(Len(s) + 1) : a - 1 \in 1..Len(s) /\ u[a] = s[a - 1]
          /\ \A a \in 1..(Len(s) + 1) : a = 1 \/ a \in 2..(Len(s) + 1)
      BY <3>1, ConsProperties
    <3> HIDE DEF u
    <3>4. name.start \in Int /\ name.end \in Int /\ \A a \in 1..Len(s) : s[a].start \in Int /\ s[a].end \in Int
      <4>1. \A a \in 1..Len(s) : s[a] \in FindingSet
        BY <3>1
      <4> QED BY <3>1, <4>1 DEF FindingSet
    <3>5. name.type \in wanted \cap NameTypes /\ at(i) - 1 <= name.start /\ name.start < name.end /\ name.end = at(e)
      BY <2>3, <2>4, <2>8
    <3>6. ASSUME NEW a \in 1..Len(u) PROVE u[a].type \in wanted \cap NameTypes /\ at(i) - 1 <= u[a].start
      <4>1. CASE a = 1
        BY <3>3, <3>5, <4>1
      <4>2. CASE a \in 2..(Len(s) + 1)
        <5>1. at(i) < at(e + 1)
          BY <1>4, <2>4
        <5>2. u[a].type \in wanted \cap NameTypes /\ at(e + 1) - 1 <= u[a].start /\ u[a].start \in Int
          BY <3>2, <3>3, <3>4, <4>2
        <5> QED BY <2>5, <5>1, <5>2
      <4> QED BY <3>3, <4>1, <4>2
    <3>7. ASSUME NEW a \in 1..Len(u), NEW b \in 1..Len(u), a < b PROVE u[a].end <= u[b].start
      <4>1. b \in 2..(Len(s) + 1)
        BY <3>3, <3>7
      <4>2. CASE a = 1
        <5>1. at(e + 1) - 1 <= u[b].start /\ u[b].start \in Int
          BY <3>2, <3>3, <3>4, <4>1
        <5> QED BY <2>5, <3>3, <3>5, <4>2, <5>1
      <4>3. CASE a \in 2..(Len(s) + 1)
        <5>1. a - 1 \in 1..Len(s) /\ b - 1 \in 1..Len(s) /\ a - 1 < b - 1
          BY <3>3, <3>7, <4>1, <4>3
        <5> QED BY <3>1, <3>3, <4>1, <4>3, <5>1 DEF Apart
      <4> QED BY <3>3, <4>2, <4>3
    <3>8. f[i] = u
      BY <2>2, <2>8 DEF u, s
    <3> QED BY <2>4, <3>3, <3>6, <3>7, <3>8 DEF NamesAfter, Apart
  <2> QED BY <2>7, <2>8
<1>7. 1..(L + 1) \subseteq G
  <2> HIDE DEF G, L
  <2> QED BY <1>1, <1>5, <1>6, DownwardInduction
<1>8. ASSUME NEW i \in 1..(L + 1) PROVE NamesAfter(f[i], wanted, 1)
  <2>1. NamesAfter(f[i], wanted, at(i)) /\ at(i) \in Nat /\ 1 <= at(i)
    BY <1>3, <1>7
  <2>2. ASSUME NEW a \in 1..Len(f[i]) PROVE 1 - 1 <= f[i][a].start
    <3>1. at(i) - 1 <= f[i][a].start /\ f[i][a] \in FindingSet
      BY <2>1 DEF NamesAfter
    <3>2. f[i][a].start \in Int
      BY <3>1 DEF FindingSet
    <3> QED BY <2>1, <3>1, <3>2
  <2> QED BY <2>1, <2>2 DEF NamesAfter
<1> QED
  BY <1>8

\* The names that a scan reports are of the types asked for and stand apart.
LEMMA ScannedNames ==
  ASSUME NEW txt \in Seq(Words), NEW wanted
  PROVE  ScanNames(txt, wanted) \in Seq(FindingSet) /\ NamesAfter(ScanNames(txt, wanted), wanted, 1)
<1>1. PICK f : NamesFrom(f, txt, wanted) /\ ScanNames(txt, wanted) = f[1]
  BY ScanNamesDef
<1>2. 1 \in 1..(Len(Tokens(txt)) + 1)
  BY TokensInOrder
<1> QED
  BY <1>1, <1>2, NamesFromAfter DEF NamesAfter

\* What is found behind a span is found from its first word on too.
LEMMA LaterNamesStay ==
  ASSUME NEW txt \in Seq(Words), NEW wanted, NEW f, NamesFrom(f, txt, wanted), NEW x
  PROVE  \A n \in 1..Len(Tokens(txt)) : Has(f[SpanEnd(Tokens(txt), n) + 1], x) => Has(f[n], x)
<1> DEFINE tokens == Tokens(txt)
           L == Len(tokens)
           G == {n \in 1..(L + 1) : n <= L /\ Has(f[SpanEnd(tokens, n) + 1], x) => Has(f[n], x)}
<1>1. tokens \in Seq(TokenSet) /\ L \in Nat
  BY TokensInOrder
<1>2. L + 1 \in G
  BY <1>1
<1>3. ASSUME NEW n \in 1..L, \A j \in (n + 1)..(L + 1) : j \in G PROVE n \in G
  <2> DEFINE e == SpanEnd(tokens, n)
             none == Classes(txt, tokens, n, wanted) = {}
             name == Name(txt, tokens, n, wanted)
  <2>1. n \in 1..Len(tokens) /\ n \in Nat
    OBVIOUS
  <2>2. f[n] = IF none THEN f[n + 1] ELSE <<name>> \o f[e + 1]
    BY DEF NamesFrom
  <2>3. ~none => name \in FindingSet
    BY NameInSpan
  <2>4. e \in n..L
    <3> HIDE DEF tokens
    <3> QED BY <1>1, <2>1, SpanEndDef
  <2>5. e + 1 \in 1..(L + 1) /\ n + 1 \in (n + 1)..(L + 1) /\ n \in 1..(L + 1)
    BY <1>1, <2>4
  <2>6. f[e + 1] \in Seq(FindingSet)
    <3>1. NamesAfter(f[e + 1], wanted, 1)
      BY <2>5, NamesFromAfter
    <3> QED BY <3>1 DEF NamesAfter
  <2>7. SUFFICES ASSUME Has(f[e + 1], x) PROVE Has(f[n], x)
    BY <2>5
  <2>8. CASE ~none
    <3> HIDE DEF none, name, e
    <3>1. f[n] = <<name>> \o f[e + 1] /\ name \in FindingSet
      BY <2>2, <2>3, <2>8
    <3> QED BY <2>6, <2>7, <3>1, HasCons
  <2>9. CASE none
    <3>1. CASE n = e
      BY <2>2, <2>7, <2>9, <3>1
    <3>2. CASE n # e
      <4>1. n + 1 \in n..e /\ n + 1 \in (n + 1)..(L + 1) /\ n + 1 <= L
        BY <1>1, <2>4, <3>2
      <4>2. SpanEnd(tokens, n + 1) = e
        <5> HIDE DEF tokens
        <5> QED BY <1>1, <2>1, <4>1, SpanEndShared
      <4>3. Has(f[n + 1], x)
        BY <1>3, <2>7, <4>1, <4>2
      <4> QED BY <2>2, <2>9, <4>3
    <3> QED BY <3>1, <3>2
  <2> QED BY <2>8, <2>9
<1>4. 1..(L + 1) \subseteq G
  <2> HIDE DEF G, L
  <2> QED BY <1>1, <1>2, <1>3, DownwardInduction
<1>5. ASSUME NEW n \in 1..L PROVE Has(f[SpanEnd(tokens, n) + 1], x) => Has(f[n], x)
  <2>1. n \in 1..(L + 1) /\ n <= L
    BY <1>1
  <2> QED BY <1>4, <2>1
<1> QED
  BY <1>5

\* Asking for one type finds all the names of that type that asking for more does.
LEMMA NamesOfOneType ==
  ASSUME NEW txt \in Seq(Words), NEW wanted, NEW type \in NameTypes \cap wanted,
         NEW x \in FindingSet, x.type = type, Has(ScanNames(txt, wanted), x)
  PROVE  Has(ScanNames(txt, {type}), x)
<1> DEFINE tokens == Tokens(txt)
           L == Len(tokens)
<1>1. PICK f : NamesFrom(f, txt, wanted) /\ ScanNames(txt, wanted) = f[1]
  BY ScanNamesDef
<1>2. PICK g : NamesFrom(g, txt, {type}) /\ ScanNames(txt, {type}) = g[1]
  BY ScanNamesDef
<1> DEFINE G == {n \in 1..(L + 1) : Has(f[n], x) => Has(g[n], x)}
<1>3. tokens \in Seq(TokenSet) /\ L \in Nat
  BY TokensInOrder
<1>4. L + 1 \in G
  <2>1. f[L + 1] = <<>>
    BY <1>1 DEF NamesFrom
  <2> QED BY <1>3, <2>1 DEF Has
<1>5. ASSUME NEW n \in 1..L, \A j \in (n + 1)..(L + 1) : j \in G PROVE n \in G
  <2> DEFINE e == SpanEnd(tokens, n)
             some == Classes(txt, tokens, n, wanted)
             one == Classes(txt, tokens, n, {type})
             name == Name(txt, tokens, n, wanted)
  <2>1. n \in 1..Len(tokens) /\ n \in Nat
    OBVIOUS
  <2>2. f[n] = IF some = {} THEN f[n + 1] ELSE <<name>> \o f[e + 1]
    BY <1>1 DEF NamesFrom
  <2>3. g[n] = IF one = {} THEN g[n + 1] ELSE <<Name(txt, tokens, n, {type})>> \o g[e + 1]
    BY <1>2 DEF NamesFrom
  <2>4. e \in n..L
    <3> HIDE DEF tokens
    <3> QED BY <1>3, <2>1, SpanEndDef
  <2>5. /\ e + 1 \in 1..(L + 1) /\ e + 1 \in (n + 1)..(L + 1) /\ n + 1 \in (n + 1)..(L + 1)
        /\ n \in 1..(L + 1)
    BY <1>3, <2>4
  <2>6. f[e + 1] \in Seq(FindingSet) /\ g[e + 1] \in Seq(FindingSet)
    <3>1. NamesAfter(f[e + 1], wanted, 1) /\ NamesAfter(g[e + 1], {type}, 1)
      BY <1>1, <1>2, <2>5, NamesFromAfter
    <3> QED BY <3>1 DEF NamesAfter
  <2>7. one = {c \in some : Heuristics[c] = type}
    BY DEF Classes
  <2>8. SUFFICES ASSUME Has(f[n], x) PROVE Has(g[n], x)
    BY <2>5
  <2>9. CASE some = {}
    BY <1>5, <2>2, <2>3, <2>5, <2>7, <2>8, <2>9
  <2>10. CASE some # {}
    <3>1. /\ name \in FindingSet
          /\ \E c \in some : name.type = Heuristics[c] /\ \A d \in some : c <= d
      BY <2>10, NameInSpan
    <3>2. x = name \/ Has(f[e + 1], x)
      <4> HIDE DEF name, e, some
      <4> QED BY <2>2, <2>6, <2>8, <2>10, <3>1, HasCons
    <3>3. CASE Has(f[e + 1], x)
      <4>1. Has(g[e + 1], x)
        BY <1>5, <2>5, <3>3
      <4> QED BY <1>2, <4>1, LaterNamesStay
    <3>4. CASE x = name
      <4>1. PICK c \in some : type = Heuristics[c] /\ \A d \in some : c <= d
        BY <3>1, <3>4
      <4>2. \A d \in some : Heuristics[d] = type => d = c
        BY <4>1 DEF Classes, Heuristics
      <4>3. \A d \in some : d \in Nat
        BY DEF Classes, Heuristics
      <4> HIDE DEF some, one
      <4>4. one = {c}
        BY <2>7, <4>1, <4>2
      <4>5. Min(some) = c /\ Min(one) = c
        <5>1. \A m \in some : (\A d \in some : m <= d) => m = c
          BY <4>1, <4>3
        <5>2. Min(some) = c
          BY <4>1, <5>1 DEF Min
        <5>3. c <= c
          BY <4>1, <4>3
        <5> QED BY <4>4, <5>2, <5>3 DEF Min
      <4>6. Name(txt, tokens, n, {type}) = name
        BY <4>5 DEF Name, some, one
      <4>7. g[n] = <<name>> \o g[e + 1]
        BY <2>3, <4>4, <4>6
      <4> HIDE DEF name, e
      <4> QED BY <2>6, <3>1, <3>4, <4>7, HasCons
    <3> QED BY <3>2, <3>3, <3>4
  <2> QED BY <2>9, <2>10
<1>6. 1..(L + 1) \subseteq G
  <2> HIDE DEF G, L
  <2> QED BY <1>3, <1>4, <1>5, DownwardInduction
<1>7. 1 \in G
  BY <1>3, <1>6
<1> QED
  BY <1>1, <1>2, <1>7

-----------------------------------------------------------------------------
(* Patterns *)

\* x is a match of a pattern that the filter lets through.
PatternFinding(x, txt, filter) ==
  \E n \in 1..Len(Patterns) :
    /\ filter = {} \/ Patterns[n] \in filter
    /\ \E i \in 1..Len(txt) : txt[i] \in Matches[Patterns[n]] /\ x = Finding(Patterns[n], i, i)

\* The scan for patterns reports their matches and nothing else.
LEMMA ScannedPatterns ==
  ASSUME NEW txt \in Seq(Words), NEW filter
  PROVE  /\ ScanPatterns(txt, filter) \in Seq(FindingSet)
         /\ \A x \in FindingSet :
              Has(ScanPatterns(txt, filter), x) <=> PatternFinding(x, txt, filter)
<1> DEFINE P == Patterns
           hit(n, i) == IF txt[i] \in Matches[P[n]] THEN <<Finding(P[n], i, i)>> ELSE <<>>
           hits(n) == [i \in DOMAIN txt |-> hit(n, i)]
           asked(n) == filter = {} \/ P[n] \in filter
           piece(n) == IF asked(n) THEN FlattenSeq(hits(n)) ELSE <<>>
           pieces == [n \in DOMAIN P |-> piece(n)]
<1>1. ScanPatterns(txt, filter) = FlattenSeq(pieces)
  BY DEF ScanPatterns
<1>2. /\ Len(txt) \in Nat /\ DOMAIN txt = 1..Len(txt)
      /\ P \in Seq(EntityTypes) /\ Len(P) \in Nat /\ DOMAIN P = 1..Len(P)
  BY PatternsAssumption
<1>3. ASSUME NEW n \in 1..Len(P), NEW i \in 1..Len(txt)
      PROVE  Finding(P[n], i, i) \in FindingSet
  <2>1. P[n] \in EntityTypes /\ i \in Int
    BY <1>2
  <2> HIDE DEF P
  <2> QED BY <2>1 DEF Finding, FindingSet
<1> HIDE DEF P
<1>4. ASSUME NEW n \in 1..Len(P)
      PROVE  /\ FlattenSeq(hits(n)) \in Seq(FindingSet)
             /\ \A x \in FindingSet :
                  Has(FlattenSeq(hits(n)), x)
                    <=> \E i \in 1..Len(txt) : txt[i] \in Matches[P[n]] /\ x = Finding(P[n], i, i)
  <2> DEFINE h == hits(n)
  <2>1. h \in Seq(Seq(FindingSet)) /\ Len(h) = Len(txt) /\ \A i \in 1..Len(txt) : h[i] = hit(n, i)
    <3>1. \A i \in 1..Len(txt) : hit(n, i) \in Seq(FindingSet)
      BY <1>3
    <3> HIDE DEF hit
    <3> QED BY <1>2, <3>1
  <2> HIDE DEF h
  <2>2. FlattenSeq(h) \in Seq(FindingSet)
    BY <2>1, FlattenSeqType
  <2>3. ASSUME NEW x \in FindingSet
        PROVE  Has(FlattenSeq(h), x)
                 <=> \E i \in 1..Len(txt) : txt[i] \in Matches[P[n]] /\ x = Finding(P[n], i, i)
    <3>1. Has(FlattenSeq(h), x)
            <=> \E i \in 1..Len(h) : Has(h[i], x)
      BY <2>1, FlattenSeqElements
    <3>2. \A i \in 1..Len(txt) :
            Has(hit(n, i), x)
              <=> txt[i] \in Matches[P[n]] /\ x = Finding(P[n], i, i)
      <4> SUFFICES ASSUME NEW i \in 1..Len(txt)
                   PROVE Has(hit(n, i), x)
                           <=> txt[i] \in Matches[P[n]] /\ x = Finding(P[n], i, i)
        OBVIOUS
      <4>1. CASE txt[i] \in Matches[P[n]]
        BY <4>1 DEF Has
      <4>2. CASE txt[i] \notin Matches[P[n]]
        BY <4>2 DEF Has
      <4> QED BY <4>1, <4>2
    <3> HIDE DEF hit
    <3> QED BY <2>1, <3>1, <3>2
  <2> QED BY <2>2, <2>3 DEF h
<1> HIDE DEF hits
<1>5. pieces \in Seq(Seq(FindingSet)) /\ Len(pieces) = Len(P) /\ \A n \in 1..Len(P) : pieces[n] = piece(n)
  <2>1. \A n \in 1..Len(P) : piece(n) \in Seq(FindingSet)
    BY <1>4
  <2> HIDE DEF piece
  <2> QED BY <1>2, <2>1
<1> HIDE DEF pieces
<1>6. FlattenSeq(pieces) \in Seq(FindingSet)
  BY <1>5, FlattenSeqType
<1>7. ASSUME NEW x \in FindingSet
      PROVE  Has(FlattenSeq(pieces), x) <=> PatternFinding(x, txt, filter)
  <2>1. Has(FlattenSeq(pieces), x)
          <=> \E n \in 1..Len(pieces) : Has(pieces[n], x)
    BY <1>5, FlattenSeqElements
  <2>2. ASSUME NEW n \in 1..Len(P)
        PROVE Has(piece(n), x)
                <=> asked(n) /\ \E i \in 1..Len(txt) : txt[i] \in Matches[P[n]] /\ x = Finding(P[n], i, i)
    <3>1. CASE asked(n)
      <4>1. piece(n) = FlattenSeq(hits(n))
        BY <3>1
      <4> HIDE DEF piece, asked
      <4> QED BY <1>4, <3>1, <4>1
    <3>2. CASE ~asked(n)
      BY <3>2 DEF Has
    <3> QED BY <3>1, <3>2
  <2> HIDE DEF piece
  <2> QED BY <1>5, <2>1, <2>2 DEF PatternFinding, P
<1> QED
  BY <1>1, <1>6, <1>7

-----------------------------------------------------------------------------
(* The inductive invariant.  The text is scanned as it came, findings and    *)
(* plans are typed, and what has been spliced in so far is what is promised. *)

\* A byte: of the input when the first part is 0, of replacement i when it is i.
Byte == Nat \X Nat

\* What each stage may find.
StageOK ==
  /\ text = <<>> \/ text \in Texts
  /\ stage = "scan" => text \in Texts
  /\ stage = "idle" => text = <<>>
  /\ stage # "idle" => job \in Jobs \cup ScannedJobs
  /\ stage = "plan" /\ text # <<>> => findings = ScanText(text, {})

\* Findings and plans are typed.
TypesOK ==
  /\ findings \in Seq(FindingSet)
  /\ plan \in Seq(EntityTypes \X Modes)
  /\ queue \in Seq(Nat)

\* The queue holds the findings that the plan covers, all of them, and from the end of
\* the text to its start.
QueueOK ==
  stage \in {"loop", "done"} =>
    /\ \A a \in DOMAIN queue : queue[a] \in Covered
    /\ \A i \in Covered : \E a \in DOMAIN queue : queue[a] = i
    /\ \A a, b \in DOMAIN queue : a < b => GoesBefore(queue[a], queue[b])

\* Where the loop stands in its queue.
LoopOK ==
  /\ k \in 1..(Len(queue) + 1)
  /\ stage \in {"idle", "scan", "plan", "sort"} => k = 1 /\ queue = <<>>
  /\ stage = "done" => k = Len(queue) + 1

\* The working copy is typed and the input keeps its order in it.
BytesOK == bytes \in Seq(Byte) /\ InputKeepsOrder

\* The usable findings among the first n - 1 of the queue.
HereOf(fs, q, n) == {i \in DOMAIN fs : Usable(fs[i]) /\ \E a \in DOMAIN q : a < n /\ q[a] = i}
\* The same in the current queue.
Here(n) == HereOf(findings, queue, n)

\* The mode of the last step for the type of finding i.
ModeFor(fs, steps, i) == steps[SelectLastInSeq(steps, LAMBDA step : step[1] = fs[i].type)][2]
\* The length of its replacement: a mask is as long as the value it hides.
SizeFor(fs, steps, i) ==
  IF ModeFor(fs, steps, i) = "mask" THEN fs[i].size ELSE Length[ModeFor(fs, steps, i)]
\* The same for the current findings and plan.
SizeOf(i) == SizeFor(findings, plan, i)

\* Finding i covers byte p of the input.
Covers(i, p) == findings[i].start < p /\ p <= findings[i].end

\* What stands for the p-th byte of the input when the findings of here are replaced.
PieceOf(fs, steps, here, p) ==
  IF \E i \in here : fs[i].start < p /\ p <= fs[i].end
    THEN LET i == CHOOSE i \in here : fs[i].start < p /\ p <= fs[i].end
         IN IF p = fs[i].start + 1 THEN [j \in 1..SizeFor(fs, steps, i) |-> <<i, j>>] ELSE <<>>
    ELSE << <<0, p>> >>
\* The same when the loop is at place n of the current queue.
Piece(p, n) == PieceOf(findings, plan, Here(n), p)

\* The input with the findings of here replaced, each in its place.
Whole(fs, steps, here) == FlattenSeq([p \in 1..N |-> PieceOf(fs, steps, here, p)])

\* The loop has replaced the usable findings it passed, whole, and counted them.
ReplacedSoFar ==
  Disjoint => bytes = Whole(findings, plan, Here(k)) /\ count = Cardinality(Here(k))

\* The inductive invariant of the types and the stages.
TypeInv == StageOK /\ TypesOK /\ QueueOK /\ LoopOK

-----------------------------------------------------------------------------
(* Findings and plans are typed. *)

\* Every text is N words long.
LEMMA TextsAreWords ==
  ASSUME NEW txt \in Texts
  PROVE  txt \in Seq(Words) /\ Len(txt) = N
BY FindingsAssumption, LengthAssumption

\* A scan returns findings.
LEMMA ScannedText ==
  ASSUME NEW txt \in Seq(Words), NEW filter
  PROVE  ScanText(txt, filter) \in Seq(FindingSet)
<1>1. ScanPatterns(txt, filter) \in Seq(FindingSet)
  BY ScannedPatterns
<1>2. ScanNames(txt, Wanted(filter)) \in Seq(FindingSet)
  BY ScannedNames
<1> QED
  BY <1>1, <1>2, ConcatProperties DEF ScanText

\* The findings of a request are findings.
LEMMA InputsAreFindings ==
  ASSUME NEW input \in Inputs
  PROVE  input \in Seq(FindingSet)
<1>1. input \in Seq(Findings) /\ \A f \in Findings : f \in FindingSet
  BY FindingsAssumption DEF FindingSet
<1> QED
  BY <1>1

\* An ordering of a finite set is as long as the set is large.
LEMMA OrderingsOfSet ==
  ASSUME NEW S, IsFiniteSet(S), NEW o \in SetToSeqs(S)
  PROVE  /\ o \in Seq(S) /\ Cardinality(S) \in Nat /\ DOMAIN o = 1..Cardinality(S) /\ Len(o) = Cardinality(S)
         /\ \A x \in S : \E a \in DOMAIN o : o[a] = x
<1> DEFINE n == Cardinality(S)
<1>1. n \in Nat
  BY FS_CardinalityType
<1>2. o \in [1..n -> S] /\ \A a, b \in 1..n : a # b => o[a] # o[b]
  BY DEF SetToSeqs
<1> HIDE DEF n
<1>3. IsFiniteSet(1..n) /\ Cardinality(1..n) = n
  <2>1. 1 \in Int /\ n \in Int /\ (1 > n => n = 0) /\ (~ (1 > n) => n - 1 + 1 = n)
    BY <1>1
  <2> QED
    BY <1>1, <2>1, FS_Interval
<1>4. o \in Injection(1..n, S)
  BY <1>2 DEF Injection, IsInjective
<1>5. o \in Surjection(1..n, S)
  BY <1>3, <1>4, FS_Injection DEF n
<1>6. \A x \in S : \E a \in DOMAIN o : o[a] = x
  BY <1>2, <1>5 DEF Surjection
<1> QED
  BY <1>1, <1>2, <1>6 DEF n

\* The entries of a map from types to modes are steps of a plan.
LEMMA EntriesAreSteps ==
  ASSUME NEW S, IsFiniteSet(S), S \subseteq EntityTypes, NEW map \in [S -> Modes],
         NEW steps \in Entries(map)
  PROVE  steps \in Seq(EntityTypes \X Modes)
<1>1. PICK o \in SetToSeqs(S) : steps = [i \in DOMAIN o |-> <<o[i], map[o[i]]>>]
  BY DEF Entries
<1>2. o \in Seq(S) /\ Cardinality(S) \in Nat /\ DOMAIN o = 1..Cardinality(S)
  BY OrderingsOfSet
<1>3. \A i \in 1..Cardinality(S) : o[i] \in S
  BY <1>2
<1>4. \A i \in 1..Cardinality(S) : <<o[i], map[o[i]]>> \in EntityTypes \X Modes
  BY <1>3
<1> QED
  BY <1>1, <1>2, <1>4

\* The values of a function on a finite set are finitely many.
LEMMA FiniteImage ==
  ASSUME NEW S, IsFiniteSet(S), NEW f, DOMAIN f = S
  PROVE  IsFiniteSet({f[x] : x \in S})
<1> DEFINE T == {f[x] : x \in S}
           g == [x \in S |-> f[x]]
<1>1. g \in Surjection(S, T)
  BY DEF Surjection
<1> QED
  BY <1>1, FS_Surjection

\* Every caller of ApplyTransforms gives it steps.
LEMMA PlansAreSteps ==
  ASSUME TypesOK, job \in Jobs \cup ScannedJobs, Plan
  PROVE  plan' \in Seq(EntityTypes \X Modes)
<1>1. /\ job.kind \in {"transform", "anonymize", "redact"} /\ job.mode \in Modes \cup {""}
      /\ IsFiniteSet(DOMAIN job.modes) /\ job.modes \in [DOMAIN job.modes -> Modes]
      /\ \A key \in DOMAIN job.modes : Trim[key] \in EntityTypes
      /\ job.plan \in Seq(EntityTypes \X Modes)
  BY JobsAssumption
<1>2. Len(findings) \in Nat /\ DOMAIN findings = 1..Len(findings)
        /\ \A i \in DOMAIN findings : findings[i].type \in EntityTypes
  <2>1. \A i \in 1..Len(findings) : findings[i] \in FindingSet
    BY DEF TypesOK
  <2>2. Len(findings) \in Nat /\ DOMAIN findings = 1..Len(findings)
    BY DEF TypesOK
  <2>3. \A i \in 1..Len(findings) : findings[i].type \in EntityTypes
    BY <2>1 DEF FindingSet
  <2> QED BY <2>2, <2>3
<1>3. CASE job.kind = "transform"
  <2>1. plan' \in TransformPlans
    BY <1>3 DEF Plan
  <2>2. CASE job.modes # <<>>
    <3>1. PICK m \in CanonicalModes(job.modes) : plan' \in Entries(m)
      BY <2>1, <2>2 DEF TransformPlans
    <3> DEFINE keys == DOMAIN job.modes
               trimmed == [key \in keys |-> Trim[key]]
               S == {Trim[key] : key \in keys}
    <3>2. IsFiniteSet(S)
      <4>1. S = {trimmed[key] : key \in keys}
        OBVIOUS
      <4>2. DOMAIN trimmed = keys /\ IsFiniteSet(keys)
        BY <1>1
      <4> HIDE DEF trimmed, keys, S
      <4>3. IsFiniteSet({trimmed[key] : key \in keys})
        BY <4>2, FiniteImage
      <4> QED BY <4>1, <4>3
    <3>3. S \subseteq EntityTypes
      BY <1>1
    <3>4. m \in [S -> Modes]
      BY <3>1 DEF CanonicalModes
    <3> HIDE DEF S
    <3> QED BY <3>1, <3>2, <3>3, <3>4, EntriesAreSteps
  <2>3. CASE ~ (job.modes # <<>>) /\ job.mode = ""
    <3>1. plan' = <<>>
      BY <2>1, <2>3 DEF TransformPlans
    <3> QED BY <3>1
  <2>4. CASE ~ (job.modes # <<>>) /\ job.mode # ""
    <3> DEFINE map == [t \in FoundTypes |-> job.mode]
    <3>1. plan' \in Entries(map) /\ job.mode \in Modes
      BY <1>1, <2>1, <2>4 DEF TransformPlans
    <3>2. map \in [FoundTypes -> Modes]
      BY <3>1
    <3>3. IsFiniteSet(FoundTypes)
      <4> DEFINE D == 1..Len(findings)
                 types == [i \in D |-> findings[i].type]
      <4>1. FoundTypes = {types[i] : i \in D} /\ DOMAIN types = D
        BY <1>2 DEF FoundTypes
      <4>2. IsFiniteSet(D)
        BY <1>2, FS_Interval
      <4> HIDE DEF D, types
      <4> QED BY <4>1, <4>2, FiniteImage
    <3>4. FoundTypes \subseteq EntityTypes
      BY <1>2 DEF FoundTypes
    <3> HIDE DEF map
    <3> QED BY <3>1, <3>2, <3>3, <3>4, EntriesAreSteps
  <2> QED BY <2>2, <2>3, <2>4
<1>4. CASE job.kind = "anonymize"
  <2> DEFINE piece(i) == IF \E j \in 1..(i - 1) : findings[j].type = findings[i].type
                           THEN <<>> ELSE << <<findings[i].type, "anonymize">> >>
             s == [i \in DOMAIN findings |-> piece(i)]
  <2>1. plan' = FlattenSeq(s)
    BY <1>4 DEF Plan, AnonymizePlan
  <2>2. \A i \in DOMAIN findings : piece(i) \in Seq(EntityTypes \X Modes)
    <3>1. SUFFICES ASSUME NEW i \in DOMAIN findings PROVE piece(i) \in Seq(EntityTypes \X Modes)
      OBVIOUS
    <3> DEFINE step == <<findings[i].type, "anonymize">>
    <3>2. step \in EntityTypes \X Modes
      BY <1>2 DEF Modes
    <3>3. piece(i) = <<>> \/ piece(i) = <<step>>
      OBVIOUS
    <3>4. \A S : \A x \in S : <<>> \in Seq(S) /\ <<x>> \in Seq(S)
      OBVIOUS
    <3> HIDE DEF step, piece
    <3> QED BY <3>2, <3>3, <3>4, Zenon
  <2>3. s \in Seq(Seq(EntityTypes \X Modes))
    <3> HIDE DEF piece
    <3> QED BY <1>2, <2>2
  <2> HIDE DEF s
  <2> QED BY <2>1, <2>3, FlattenSeqType
<1>5. CASE job.kind = "redact"
  BY <1>1, <1>5 DEF Plan
<1> QED
  BY <1>1, <1>3, <1>4, <1>5

-----------------------------------------------------------------------------
(* One lemma per action: types, stages and the place in the queue. *)

\* The queue stays what it is as long as findings and plan do.
LEMMA QueueKept ==
  ASSUME QueueOK, UNCHANGED <<findings, plan, queue>>,
         stage' \in {"loop", "done"} => stage \in {"loop", "done"}
  PROVE  QueueOK'
<1>1. Covered' = Covered /\ \A i, j : GoesBefore(i, j)' <=> GoesBefore(i, j)
  BY DEF Covered, ModeMap, GoesBefore
<1> QED
  BY <1>1 DEF QueueOK

\* Initially nothing is found, planned or queued.
LEMMA TypeInit == Init => TypeInv
<1> SUFFICES ASSUME Init PROVE TypeInv
  OBVIOUS
<1>1. k \in 1..(Len(queue) + 1)
  BY DEF Init
<1> QED
  BY <1>1 DEF Init, TypeInv, StageOK, TypesOK, QueueOK, LoopOK

\* A request with findings of its own starts typed.
LEMMA TypeBegin == TypeInv /\ Begin => TypeInv'
<1> SUFFICES ASSUME TypeInv, Begin PROVE TypeInv'
  OBVIOUS
<1> USE DEF TypeInv
<1>1. findings' \in Seq(FindingSet)
  BY InputsAreFindings DEF Begin
<1> QED
  BY <1>1 DEF Begin, StageOK, TypesOK, QueueOK, LoopOK

\* A request that has its text scanned starts typed.
LEMMA TypeBeginPlain == TypeInv /\ BeginPlain => TypeInv'
BY DEF TypeInv, BeginPlain, StageOK, TypesOK, QueueOK, LoopOK

\* A scan finds findings.
LEMMA TypeScan == TypeInv /\ Scan => TypeInv'
<1> SUFFICES ASSUME TypeInv, Scan PROVE TypeInv'
  OBVIOUS
<1> USE DEF TypeInv
<1>1. findings' \in Seq(FindingSet)
  <2>1. text \in Texts
    BY DEF Scan, StageOK
  <2>2. text \in Seq(Words)
    BY <2>1, TextsAreWords
  <2> QED BY <2>2, ScannedText DEF Scan
<1>2. stage' \in {"done", "plan"}
  BY DEF Scan
<1>3. k = 1 /\ queue = <<>> /\ Len(queue) + 1 = 1
  BY DEF Scan, LoopOK
<1>4. LoopOK'
  BY <1>2, <1>3 DEF Scan, LoopOK
<1>5. StageOK'
  BY <1>2 DEF Scan, StageOK
<1>6. QueueOK'
  <2>1. stage' = "done" => findings' = <<>> /\ queue' = <<>>
    BY <1>3 DEF Scan
  <2>2. DOMAIN <<>> = {}
    OBVIOUS
  <2> QED BY <1>2, <2>1, <2>2 DEF QueueOK, Covered
<1>7. queue' \in Seq(Nat)
  BY DEF Scan, TypesOK
<1> QED
  BY <1>1, <1>4, <1>5, <1>6, <1>7 DEF Scan, TypesOK

\* A plan is one of steps.
LEMMA TypePlan == TypeInv /\ Plan => TypeInv'
<1> SUFFICES ASSUME TypeInv, Plan PROVE TypeInv'
  OBVIOUS
<1> USE DEF TypeInv
<1>1. plan' \in Seq(EntityTypes \X Modes)
  BY PlansAreSteps DEF Plan, StageOK
<1> QED
  BY <1>1 DEF Plan, StageOK, TypesOK, QueueOK, LoopOK

\* The queue holds findings that the plan covers.
LEMMA TypeSort == TypeInv /\ Sort => TypeInv'
<1> SUFFICES ASSUME TypeInv, Sort PROVE TypeInv'
  OBVIOUS
<1> USE DEF TypeInv
<1>1. PICK order \in SetToSeqs(Covered) :
        queue' = order /\ \A a, b \in DOMAIN order : a < b => GoesBefore(order[a], order[b])
  BY DEF Sort
<1>2. Len(findings) \in Nat /\ DOMAIN findings = 1..Len(findings)
  BY DEF TypesOK
<1>3. IsFiniteSet(Covered) /\ Covered \subseteq Nat
  <2>1. IsFiniteSet(1..Len(findings)) /\ Covered \in SUBSET (1..Len(findings))
    BY <1>2, FS_Interval DEF Covered
  <2>2. Covered \subseteq Nat
    BY <1>2, <2>1
  <2> QED BY <2>1, <2>2, FS_Subset
<1> DEFINE n == Cardinality(Covered)
<1>4. /\ order \in Seq(Covered) /\ n \in Nat /\ DOMAIN order = 1..n /\ Len(order) = n
      /\ \A i \in Covered : \E a \in DOMAIN order : order[a] = i
  BY <1>3, OrderingsOfSet
<1>5. \A a \in DOMAIN order : order[a] \in Covered
  BY <1>4
<1>6. queue' \in Seq(Nat) /\ Len(queue') = n
  <2>1. \A a \in 1..n : order[a] \in Nat
    BY <1>3, <1>4, <1>5
  <2> HIDE DEF n
  <2> QED BY <1>1, <1>4, <2>1
<1>7. QueueOK'
  <2>1. Covered' = Covered /\ \A i, j : GoesBefore(i, j)' <=> GoesBefore(i, j)
    BY DEF Sort, Covered, ModeMap, GoesBefore
  <2> HIDE DEF n
  <2> QED BY <1>1, <1>4, <1>5, <2>1 DEF QueueOK
<1>8. k = 1 /\ k' = k /\ stage' \in {"done", "loop"} /\ (stage' = "done" => Covered = {})
  BY DEF Sort, LoopOK
<1>9. Covered = {} => n = 0
  BY FS_EmptySet
<1>10. LoopOK'
  <2> HIDE DEF n
  <2> QED BY <1>4, <1>6, <1>8, <1>9 DEF LoopOK
<1> QED
  BY <1>6, <1>7, <1>8, <1>10 DEF Sort, StageOK, TypesOK

\* The loop moves on by one.
LEMMA TypeStep == TypeInv /\ (Replace \/ SkipOne) => TypeInv'
<1> SUFFICES ASSUME TypeInv, Replace \/ SkipOne PROVE TypeInv'
  OBVIOUS
<1> USE DEF TypeInv
<1>1. Len(queue) \in Nat /\ k \in 1..(Len(queue) + 1) /\ k <= Len(queue) /\ k' = k + 1 /\ stage = "loop"
        /\ UNCHANGED <<stage, text, job, findings, plan, queue>>
  BY DEF Replace, SkipOne, TypesOK, LoopOK
<1>2. k' \in 1..(Len(queue) + 1)
  BY <1>1
<1>3. LoopOK'
  BY <1>1, <1>2 DEF LoopOK
<1>4. QueueOK'
  BY <1>1, QueueKept
<1> QED
  BY <1>1, <1>3, <1>4 DEF StageOK, TypesOK

\* The loop ends behind its queue.
LEMMA TypeFinish == TypeInv /\ Finish => TypeInv'
<1> SUFFICES ASSUME TypeInv, Finish PROVE TypeInv'
  OBVIOUS
<1> USE DEF TypeInv
<1>1. Len(queue) \in Nat /\ k \in 1..(Len(queue) + 1) /\ k > Len(queue)
  BY DEF Finish, TypesOK, LoopOK
<1>2. k = Len(queue) + 1
  BY <1>1
<1> QED
  <2>1. QueueOK'
    BY QueueKept DEF Finish
  <2> QED BY <1>2, <2>1 DEF Finish, StageOK, TypesOK, LoopOK

\* No step breaks a type.
LEMMA TypeNext == TypeInv /\ [Next]_vars => TypeInv'
<1>1. ASSUME TypeInv, UNCHANGED vars PROVE TypeInv'
  <2>1. QueueOK'
    BY <1>1, QueueKept DEF vars, TypeInv
  <2> QED BY <1>1, <2>1 DEF vars, TypeInv, StageOK, TypesOK, LoopOK
<1> QED
  BY <1>1, TypeBegin, TypeBeginPlain, TypeScan, TypePlan, TypeSort, TypeStep, TypeFinish, Zenon DEF Next

\* Whatever is asked, of whatever text: findings and plans are typed, the loop stays
\* in its queue and meets only findings that have a step.
THEOREM TypesHold == Spec => []TypeInv
BY TypeInit, TypeNext, PTL DEF Spec

-----------------------------------------------------------------------------
(* What a scan reports *)

\* A filter for one type hides no finding of that type.
THEOREM FilterHidesNothing == Spec => []FilterOnlyAdds
<1>1. ASSUME StageOK PROVE FilterOnlyAdds
  <2>1. SUFFICES ASSUME stage = "scan", NEW type \in NameTypes \cup Range(Patterns),
                        NEW x \in Range(ScanText(text, {})), x.type = type
                 PROVE  x \in Range(ScanText(text, {type}))
    BY DEF FilterOnlyAdds
  <2>2. text \in Seq(Words)
    BY <1>1, <2>1, TextsAreWords DEF StageOK
  <2>3. /\ ScanPatterns(text, {}) \in Seq(FindingSet) /\ ScanPatterns(text, {type}) \in Seq(FindingSet)
        /\ ScanNames(text, NameTypes) \in Seq(FindingSet)
        /\ ScanNames(text, Wanted({type})) \in Seq(FindingSet)
    BY <2>2, ScannedPatterns, ScannedNames
  <2>4. ScanText(text, {}) = ScanPatterns(text, {}) \o ScanNames(text, NameTypes)
    BY DEF ScanText, Wanted
  <2>5. Has(ScanText(text, {}), x) /\ x \in FindingSet
    <3>1. ScanText(text, {}) \in Seq(FindingSet)
      BY <2>2, ScannedText
    <3>2. PICK a \in DOMAIN ScanText(text, {}) : ScanText(text, {})[a] = x
      BY <2>1 DEF Range
    <3> QED BY <3>1, <3>2 DEF Has
  <2>6. Has(ScanPatterns(text, {}), x) \/ Has(ScanNames(text, NameTypes), x)
    BY <2>3, <2>4, <2>5, HasConcat
  <2>7. Has(ScanPatterns(text, {}), x) => Has(ScanPatterns(text, {type}), x)
    <3>1. PatternFinding(x, text, {}) => PatternFinding(x, text, {type})
      <4>1. \A t, i : Finding(t, i, i).type = t
        BY DEF Finding
      <4>2. SUFFICES ASSUME NEW n \in 1..Len(Patterns), NEW i \in 1..Len(text),
                            text[i] \in Matches[Patterns[n]], x = Finding(Patterns[n], i, i)
                     PROVE  PatternFinding(x, text, {type})
        BY Zenon DEF PatternFinding
      <4>3. Patterns[n] \in {type}
        BY <2>1, <4>1, <4>2
      <4> QED BY <4>2, <4>3 DEF PatternFinding
    <3> QED BY <2>2, <2>5, <3>1, ScannedPatterns
  <2>8. Has(ScanNames(text, NameTypes), x) => Has(ScanNames(text, Wanted({type})), x)
    <3>1. SUFFICES ASSUME Has(ScanNames(text, NameTypes), x) PROVE Has(ScanNames(text, Wanted({type})), x)
      OBVIOUS
    <3>2. type \in NameTypes
      <4>1. NamesAfter(ScanNames(text, NameTypes), NameTypes, 1)
        BY <2>2, ScannedNames
      <4> QED BY <2>1, <3>1, <4>1 DEF NamesAfter, Has
    <3>3. Wanted({type}) = {type}
      BY <3>2 DEF Wanted
    <3>4. type \in NameTypes \cap NameTypes
      BY <3>2
    <3> QED BY <2>1, <2>2, <2>5, <3>1, <3>3, <3>4, NamesOfOneType
  <2>9. Has(ScanText(text, {type}), x)
    BY <2>3, <2>6, <2>7, <2>8, HasConcat DEF ScanText
  <2>10. ScanText(text, {type}) \in Seq(FindingSet)
    BY <2>2, ScannedText
  <2> QED BY <2>9, <2>10 DEF Has, Range
<1> QED
  BY <1>1, TypesHold, PTL DEF TypeInv

\* No word of a text is reported as a part of two names.
THEOREM NamesStandApart == Spec => []NamesAreApart
<1>1. ASSUME StageOK PROVE NamesAreApart
  <2>1. SUFFICES ASSUME stage = "plan", text # <<>>, NEW i \in DOMAIN findings, NEW j \in DOMAIN findings,
                        i < j, findings[i].type \in NameTypes, findings[j].type \in NameTypes
                 PROVE  findings[i].end <= findings[j].start
    BY DEF NamesAreApart
  <2> DEFINE s == ScanPatterns(text, {})
             t == ScanNames(text, NameTypes)
  <2>2. text \in Seq(Words) /\ findings = ScanText(text, {})
    BY <1>1, <2>1, TextsAreWords DEF StageOK
  <2>3. s \in Seq(FindingSet) /\ t \in Seq(FindingSet) /\ NamesAfter(t, NameTypes, 1)
    BY <2>2, ScannedPatterns, ScannedNames
  <2>4. \A a \in 1..Len(s) : s[a].type \notin NameTypes
    <3>1. SUFFICES ASSUME NEW a \in 1..Len(s) PROVE s[a].type \notin NameTypes
      OBVIOUS
    <3>2. Has(s, s[a]) /\ s[a] \in FindingSet
      BY <2>3 DEF Has
    <3>3. PatternFinding(s[a], text, {})
      BY <2>2, <3>2, ScannedPatterns
    <3>4. \E n \in 1..Len(Patterns) : s[a].type = Patterns[n]
      BY <3>3 DEF PatternFinding, Finding
    <3> QED BY <3>4, PatternsAssumption DEF Range
  <2>5. findings = s \o t
    BY <2>2 DEF ScanText, Wanted
  <2> HIDE DEF s, t
  <2>6. /\ Len(s) \in Nat /\ Len(t) \in Nat /\ DOMAIN findings = 1..(Len(s) + Len(t))
        /\ \A a \in 1..(Len(s) + Len(t)) : findings[a] = IF a <= Len(s) THEN s[a] ELSE t[a - Len(s)]
    BY <2>3, <2>5, ConcatProperties
  <2>7. ~ (i <= Len(s)) /\ ~ (j <= Len(s))
    BY <2>1, <2>4, <2>6
  <2>8. i - Len(s) \in 1..Len(t) /\ j - Len(s) \in 1..Len(t) /\ i - Len(s) < j - Len(s)
    BY <2>1, <2>6, <2>7
  <2> QED BY <2>3, <2>6, <2>7, <2>8 DEF NamesAfter, Apart
<1> QED
  BY <1>1, TypesHold, PTL DEF TypeInv

-----------------------------------------------------------------------------
(* The working copy *)

\* The mode of a planned type is that of its last step.
LEMMA LastStep ==
  ASSUME plan \in Seq(EntityTypes \X Modes), NEW t \in DOMAIN ModeMap
  PROVE  /\ ModeMap[t] \in Modes
         /\ ModeMap[t] = plan[SelectLastInSeq(plan, LAMBDA step : step[1] = t)][2]
<1> DEFINE S == {i \in 1..Len(plan) : plan[i][1] = t}
           Latest(i) == plan[i][1] = t /\ \A j \in DOMAIN plan : j > i => plan[j][1] # t
           c == CHOOSE i \in DOMAIN plan : Latest(i)
<1>1. Len(plan) \in Nat /\ DOMAIN plan = 1..Len(plan)
  OBVIOUS
<1>2. \A i \in 1..Len(plan) : plan[i] \in EntityTypes \X Modes
  OBVIOUS
<1>3. t \in {plan[i][1] : i \in DOMAIN plan} /\ ModeMap[t] = plan[c][2]
  BY DEF ModeMap
<1>4. S # {} /\ S \subseteq 1..Len(plan)
  BY <1>1, <1>3
<1>5. PICK m \in S : \A j \in S : j <= m
  <2>1. S \subseteq 0..Len(plan)
    BY <1>1, <1>4
  <2> HIDE DEF S
  <2> QED BY <1>1, <1>4, <2>1, GreatestOf
<1>6. m \in DOMAIN plan /\ Latest(m)
  <2>1. ASSUME NEW j \in DOMAIN plan, j > m, plan[j][1] = t PROVE FALSE
    <3>1. j <= m
      BY <1>1, <1>5, <2>1
    <3> QED BY <1>1, <1>5, <2>1, <3>1
  <2> QED BY <1>1, <1>5, <2>1
<1>7. c \in DOMAIN plan /\ Latest(c)
  <2> HIDE DEF Latest
  <2> QED BY <1>6, Zenon
<1>8. c = m
  <2>1. c \in S
    BY <1>1, <1>7
  <2>2. c <= m /\ ~ (c < m)
    <3>1. c <= m
      BY <1>5, <2>1
    <3>2. ~ (m > c)
      BY <1>5, <1>6, <1>7
    <3> HIDE DEF c
    <3> QED BY <1>1, <1>6, <1>7, <3>1, <3>2
  <2> HIDE DEF c
  <2> QED BY <1>1, <1>6, <1>7, <2>2
<1>9. SelectLastInSeq(plan, LAMBDA step : step[1] = t) = m
  <2>1. SelectLastInSeq(plan, LAMBDA step : step[1] = t) = IF S # {} THEN Max(S) ELSE 0
    BY DEF SelectLastInSeq
  <2>2. Max(S) = m
    <3>1. \A j \in S : m >= j
      BY <1>1, <1>4, <1>5
    <3>2. \A x \in S : (\A j \in S : x >= j) => x = m
      BY <1>1, <1>4, <1>5
    <3> HIDE DEF S
    <3> QED BY <1>5, <3>1, <3>2 DEF Max
  <2> QED BY <1>4, <2>1, <2>2
<1> HIDE DEF c
<1> QED
  BY <1>1, <1>2, <1>3, <1>6, <1>8, <1>9

\* The queue leads to findings of planned types.
LEMMA Queued ==
  ASSUME TypeInv, stage \in {"loop", "done"}, NEW a \in DOMAIN queue
  PROVE  /\ queue[a] \in DOMAIN findings /\ queue[a] \in Planned
         /\ findings[queue[a]] \in FindingSet /\ findings[queue[a]].type \in DOMAIN ModeMap
<1>1. queue[a] \in Covered
  BY DEF TypeInv, QueueOK
<1>2. findings \in Seq(FindingSet)
  BY DEF TypeInv, TypesOK
<1> QED
  BY <1>1, <1>2 DEF Covered, Planned, ModeMap

\* A replacement has the length that its mode asks for.
LEMMA ReplacementIs ==
  ASSUME TypeInv, stage = "loop", NEW a \in DOMAIN queue
  PROVE  /\ findings[queue[a]] \in FindingSet /\ queue[a] \in Nat \ {0} /\ SizeOf(queue[a]) \in Nat
         /\ Replacement(queue[a]) = [j \in 1..SizeOf(queue[a]) |-> <<queue[a], j>>]
<1> DEFINE i == queue[a]
<1>1. i \in DOMAIN findings /\ findings[i] \in FindingSet /\ findings[i].type \in DOMAIN ModeMap
  BY Queued
<1>2. i \in Nat \ {0}
  BY <1>1 DEF TypeInv, TypesOK
<1> HIDE DEF i
<1>3. ModeMap[findings[i].type] \in Modes /\ ModeMap[findings[i].type] = ModeFor(findings, plan, i)
  BY <1>1, LastStep DEF TypeInv, TypesOK, ModeFor
<1>4. SizeOf(i) \in Nat
  <2>1. findings[i].size \in Nat
    BY <1>1 DEF FindingSet
  <2> QED BY <1>3, <2>1, LengthAssumption DEF SizeOf, SizeFor
<1>5. Replacement(i) = [j \in 1..SizeOf(i) |-> <<i, j>>]
  BY <1>3 DEF Replacement, SizeOf, SizeFor
<1> QED
  BY <1>1, <1>2, <1>4, <1>5 DEF i

\* The bytes of the input that are left in b are in their order.
InOrder(b) == \A i, j \in 1..Len(b) : i < j /\ b[i][1] = 0 /\ b[j][1] = 0 => b[i][2] < b[j][2]

\* A splice of other bytes leaves those of the input in order.
LEMMA SpliceKeepsOrder ==
  ASSUME NEW B, NEW b \in Seq(B), NEW r \in Seq(B), NEW from \in 0..Len(b), NEW to \in from..Len(b),
         InOrder(b), \A j \in 1..Len(r) : r[j][1] # 0
  PROVE  InOrder(Splice(b, from, to, r))
<1> DEFINE u == Splice(b, from, to, r)
           place(x) == IF x <= from THEN x ELSE x - (from + Len(r)) + to
<1>1. u \in Seq(B) /\ IsSplice(u, b, from, to, r)
  BY SpliceAt
<1>2. /\ Len(b) \in Nat /\ Len(r) \in Nat /\ from \in Nat /\ to \in Nat /\ from <= to /\ to <= Len(b)
      /\ Len(u) \in Nat
  BY <1>1
<1> HIDE DEF u
<1>3. ASSUME NEW x \in 1..Len(u), u[x][1] = 0
      PROVE  /\ u[x] = b[place(x)] /\ place(x) \in 1..Len(b)
             /\ x <= from \/ ~ (x <= from + Len(r))
  <2>1. Len(u) = from + Len(r) + (Len(b) - to)
    BY <1>1 DEF IsSplice
  <2>2. u[x] = IF x <= from THEN b[x]
               ELSE IF x <= from + Len(r) THEN r[x - from]
               ELSE b[x - (from + Len(r)) + to]
    BY <1>1 DEF IsSplice
  <2>3. ~ (~ (x <= from) /\ x <= from + Len(r))
    <3>1. ASSUME ~ (x <= from), x <= from + Len(r) PROVE FALSE
      <4>1. x - from \in 1..Len(r)
        BY <1>2, <3>1
      <4>2. u[x] = r[x - from]
        BY <2>2, <3>1
      <4> QED BY <1>3, <4>1, <4>2
    <3> QED BY <3>1
  <2>4. place(x) \in 1..Len(b)
    BY <1>2, <2>1, <2>3
  <2>5. u[x] = b[place(x)]
    BY <2>2, <2>3
  <2> QED BY <2>3, <2>4, <2>5
<1>4. ASSUME NEW x \in 1..Len(u), NEW y \in 1..Len(u), x < y, u[x][1] = 0, u[y][1] = 0
      PROVE  u[x][2] < u[y][2]
  <2>1. place(x) < place(y)
    <3>1. x <= from \/ ~ (x <= from + Len(r))
      BY <1>3, <1>4
    <3>2. y <= from \/ ~ (y <= from + Len(r))
      BY <1>3, <1>4
    <3> QED BY <1>2, <1>4, <3>1, <3>2
  <2>2. u[x] = b[place(x)] /\ u[y] = b[place(y)] /\ place(x) \in 1..Len(b) /\ place(y) \in 1..Len(b)
    BY <1>3, <1>4
  <2> HIDE DEF place
  <2> QED BY <1>4, <2>1, <2>2 DEF InOrder
<1> QED
  BY <1>4 DEF InOrder, u

\* A step of the loop is a splice.
LEMMA ReplaceSplices ==
  ASSUME TypeInv, BytesOK, Replace
  PROVE  LET i == queue[k] IN
         /\ Replacement(i) \in Seq(Byte) /\ \A j \in 1..Len(Replacement(i)) : Replacement(i)[j][1] = i
         /\ findings[i].start \in 0..Len(bytes) /\ findings[i].end \in (findings[i].start + 1)..Len(bytes)
         /\ bytes' = Splice(bytes, findings[i].start, findings[i].end, Replacement(i))
         /\ k \in DOMAIN queue /\ i \in Nat \ {0}
<1> DEFINE i == queue[k]
<1>1. stage = "loop" /\ k \in DOMAIN queue
  BY DEF Replace, TypeInv, LoopOK, TypesOK
<1>2. /\ findings[i] \in FindingSet /\ i \in Nat \ {0} /\ SizeOf(i) \in Nat
      /\ Replacement(i) = [j \in 1..SizeOf(i) |-> <<i, j>>]
  BY <1>1, ReplacementIs
<1>5. findings[i].start >= 0 /\ findings[i].end <= Len(bytes) /\ findings[i].start < findings[i].end
  BY DEF Replace, InRange
<1>6. bytes' = Splice(bytes, findings[i].start, findings[i].end, Replacement(i))
  BY DEF Replace, Spliced, Splice
<1> HIDE DEF i
<1>3. Replacement(i) \in Seq(Byte) /\ \A j \in 1..Len(Replacement(i)) : Replacement(i)[j][1] = i
  <2>1. \A j \in 1..SizeOf(i) : <<i, j>> \in Byte
    BY <1>2 DEF Byte
  <2> QED BY <1>2, <2>1
<1>4. findings[i].start \in Int /\ findings[i].end \in Int /\ Len(bytes) \in Nat
  BY <1>2 DEF FindingSet, BytesOK
<1>7. findings[i].start \in 0..Len(bytes) /\ findings[i].end \in (findings[i].start + 1)..Len(bytes)
  BY <1>4, <1>5
<1> QED
  BY <1>1, <1>2, <1>3, <1>6, <1>7 DEF i

\* The untouched input is in order.
LEMMA BytesInit == Init => BytesOK
<1> SUFFICES ASSUME Init PROVE BytesOK
  OBVIOUS
<1>1. \A i \in 1..N : <<0, i>> \in Byte
  BY LengthAssumption DEF Byte
<1>2. Original \in Seq(Byte) /\ DOMAIN Original = 1..N
  BY <1>1, LengthAssumption DEF Original
<1>3. \A i \in 1..N : Original[i] = <<0, i>>
  BY DEF Original
<1> QED
  BY <1>2, <1>3 DEF Init, BytesOK, InputKeepsOrder

\* A replacement leaves it so.
LEMMA BytesReplace == TypeInv /\ BytesOK /\ Replace => BytesOK'
<1> SUFFICES ASSUME TypeInv, BytesOK, Replace PROVE BytesOK'
  OBVIOUS
<1> DEFINE r == Replacement(queue[k])
           from == findings[queue[k]].start
           to == findings[queue[k]].end
<1>1. /\ r \in Seq(Byte) /\ queue[k] # 0 /\ \A j \in 1..Len(r) : r[j][1] = queue[k]
      /\ from \in 0..Len(bytes) /\ to \in (from + 1)..Len(bytes)
      /\ bytes' = Splice(bytes, from, to, r)
  BY ReplaceSplices
<1>2. bytes \in Seq(Byte) /\ InOrder(bytes)
  BY DEF BytesOK, InputKeepsOrder, InOrder
<1> HIDE DEF r, from, to
<1>3. to \in from..Len(bytes) /\ \A j \in 1..Len(r) : r[j][1] # 0
  BY <1>1, <1>2
<1>4. bytes' \in Seq(Byte)
  BY <1>1, <1>2, <1>3, SpliceAt
<1>5. InOrder(bytes')
  BY <1>1, <1>2, <1>3, SpliceKeepsOrder
<1> QED
  BY <1>4, <1>5 DEF BytesOK, InputKeepsOrder, InOrder

\* Nothing else touches the working copy.
LEMMA BytesNext == TypeInv /\ BytesOK /\ [Next]_vars => BytesOK'
<1>1. BytesOK /\ UNCHANGED bytes => BytesOK'
  BY DEF BytesOK, InputKeepsOrder
<1>2. [Next]_vars => Replace \/ UNCHANGED bytes
  BY DEF Next, vars, Begin, BeginPlain, Scan, Plan, Sort, SkipOne, Finish
<1> QED
  BY <1>1, <1>2, BytesReplace

\* Whatever findings come, the rest of the input keeps its order.
THEOREM OrderIsKept == Spec => []InputKeepsOrder
<1>1. BytesOK => InputKeepsOrder
  BY DEF BytesOK
<1> QED
  BY <1>1, BytesInit, BytesNext, TypesHold, PTL DEF Spec

-----------------------------------------------------------------------------
(* Findings that do not overlap *)

\* Before the first replacement nothing is touched.
FreshOK == stage \in {"idle", "scan", "plan", "sort"} => bytes = Original /\ count = 0

\* Only the loop touches the working copy and counts.
LEMMA FreshHolds == Spec => []FreshOK
<1>1. Init => FreshOK
  BY DEF Init, FreshOK
<1>2. FreshOK /\ [Next]_vars => FreshOK'
  BY DEF FreshOK, Next, vars, Begin, BeginPlain, Scan, Plan, Sort, Replace, SkipOne, Finish
<1> QED
  BY <1>1, <1>2, PTL DEF Spec

\* With nothing to replace, the pieces make the input.
LEMMA NoneHere ==
  ASSUME NEW n, Here(n) = {}
  PROVE  Whole(findings, plan, Here(n)) = Original
<1> DEFINE S == [p \in 1..N |-> Piece(p, n)]
<1>1. \A p \in 1..N : Piece(p, n) = << <<0, p>> >> /\ Original[p] = <<0, p>> /\ <<0, p>> \in Byte
  BY LengthAssumption DEF Piece, PieceOf, Original, Byte
<1>2. Original \in Seq(Byte) /\ Len(Original) = N
  BY <1>1, LengthAssumption DEF Original
<1>3. S \in Seq(Seq(Byte)) /\ Len(S) = N /\ \A p \in 1..N : S[p] = <<Original[p]>>
  <2>1. \A A : \A x \in A : <<x>> \in Seq(A)
    OBVIOUS
  <2>2. \A p \in 1..N : Piece(p, n) \in Seq(Byte)
    BY <1>1, <2>1, Zenon
  <2>3. S \in Seq(Seq(Byte)) /\ Len(S) = N
    BY <2>2, LengthAssumption
  <2>4. \A p \in 1..N : S[p] = Piece(p, n)
    OBVIOUS
  <2> HIDE DEF S
  <2> QED BY <1>1, <2>3, <2>4, Zenon
<1> HIDE DEF S
<1>4. FlattenSeq(S) = Original
  BY <1>2, <1>3, FlattenSingles
<1> QED
  BY <1>4 DEF S, Whole, Piece

\* A loop that has not begun has replaced what it passed: nothing.
LEMMA FreshReplaced == k = 1 /\ bytes = Original /\ count = 0 /\ queue \in Seq(Nat) => ReplacedSoFar
<1> SUFFICES ASSUME k = 1, bytes = Original, count = 0, queue \in Seq(Nat) PROVE ReplacedSoFar
  OBVIOUS
<1>1. Here(k) = {}
  BY DEF Here, HereOf
<1> QED
  BY <1>1, NoneHere, FS_EmptySet DEF ReplacedSoFar

\* What the loop has passed are usable findings of planned types.
LEMMA HereArePlanned ==
  ASSUME TypeInv, stage \in {"loop", "done"}, NEW n, NEW i \in Here(n)
  PROVE  /\ i \in Planned /\ i \in Nat \ {0} /\ findings[i] \in FindingSet /\ Usable(findings[i])
         /\ findings[i].start \in Int /\ findings[i].end \in Int /\ findings[i].start < findings[i].end
         /\ findings[i].end <= N
         /\ \E a \in DOMAIN queue : a < n /\ queue[a] = i
<1>1. PICK a \in DOMAIN queue : a < n /\ queue[a] = i
  BY DEF Here, HereOf
<1>2. i \in Planned /\ i \in DOMAIN findings /\ findings[i] \in FindingSet
  BY <1>1, Queued
<1>3. i \in Nat \ {0}
  BY <1>2 DEF TypeInv, TypesOK
<1>4. Usable(findings[i])
  BY DEF Here, HereOf
<1> QED
  BY <1>1, <1>2, <1>3, <1>4 DEF Usable, FindingSet

\* Of two findings that are no nonsense, the one that the loop meets later lies in front
\* of the other.
LEMMA LaterLiesInFront ==
  ASSUME TypeInv, stage \in {"loop", "done"}, Disjoint, NEW a \in DOMAIN queue, NEW b \in DOMAIN queue, a < b,
         findings[queue[a]].start < findings[queue[a]].end,
         findings[queue[b]].start < findings[queue[b]].end
  PROVE  queue[a] # queue[b] /\ findings[queue[b]].end <= findings[queue[a]].start
<1> DEFINE i == queue[a]
           j == queue[b]
<1>1. GoesBefore(i, j)
  BY DEF TypeInv, QueueOK
<1>2. i \in Planned /\ j \in Planned /\ i \in DOMAIN findings /\ j \in DOMAIN findings
      /\ findings[i] \in FindingSet /\ findings[j] \in FindingSet
  BY Queued
<1>3. findings[i].start < findings[i].end /\ findings[j].start < findings[j].end
  OBVIOUS
<1> HIDE DEF i, j
<1>4. /\ findings[i].start \in Int /\ findings[j].start \in Int
      /\ findings[i].end \in Int /\ findings[j].end \in Int
      /\ i \in Nat /\ j \in Nat
  <2>1. \A f \in FindingSet : f.start \in Int /\ f.end \in Int
    BY DEF FindingSet
  <2>2. DOMAIN findings \subseteq Nat
    <3>1. findings \in Seq(FindingSet)
      BY DEF TypeInv, TypesOK
    <3> QED
      BY <3>1
  <2> QED
    BY <1>2, <2>1, <2>2, Zenon
<1>5. i # j
  BY <1>1, <1>4 DEF GoesBefore
<1>6. findings[i].end <= findings[j].start \/ findings[j].end <= findings[i].start
  BY <1>2, <1>3, <1>5 DEF Disjoint
<1>7. findings[j].start <= findings[i].start
  BY <1>1, <1>4 DEF GoesBefore
<1>8. findings[j].end <= findings[i].start
  BY <1>3, <1>4, <1>6, <1>7
<1> QED
  BY <1>5, <1>8 DEF i, j

\* A byte is covered by one finding at most.
LEMMA CoveredOnce ==
  ASSUME TypeInv, stage = "loop", Disjoint, NEW n, NEW p \in Int, NEW i \in Here(n), Covers(i, p),
         NEW j \in Here(n), Covers(j, p)
  PROVE  i = j
<1>1. /\ i \in Planned /\ findings[i].start \in Int /\ findings[i].end \in Int
      /\ findings[i].start < findings[i].end
      /\ j \in Planned /\ findings[j].start \in Int /\ findings[j].end \in Int
      /\ findings[j].start < findings[j].end
  BY HereArePlanned
<1>2. /\ findings[i].start < p /\ p <= findings[i].end
      /\ findings[j].start < p /\ p <= findings[j].end
  BY DEF Covers
<1>3. ~ (findings[i].end <= findings[j].start \/ findings[j].end <= findings[i].start)
  BY <1>1, <1>2
<1> QED
  BY <1>1, <1>3 DEF Disjoint

\* What stands for byte p, covered by finding i: the replacement at its start.
Put(p, i) == IF p = findings[i].start + 1 THEN [j \in 1..SizeOf(i) |-> <<i, j>>] ELSE <<>>

\* A byte that a usable finding covers goes with it.
LEMMA PieceCovered ==
  ASSUME TypeInv, stage = "loop", Disjoint, NEW n, NEW p \in Int, NEW i \in Here(n), Covers(i, p)
  PROVE  Piece(p, n) = Put(p, i)
<1> DEFINE c == CHOOSE a \in Here(n) : Covers(a, p)
<1>1. c \in Here(n) /\ Covers(c, p)
  OBVIOUS
<1>2. c = i
  <2> HIDE DEF c
  <2> QED BY <1>1, CoveredOnce
<1>3. Piece(p, n) = Put(p, c)
  BY <1>1 DEF Piece, PieceOf, Put, Covers, SizeOf
<1> QED
  BY <1>2, <1>3

\* A byte that none covers stays.
LEMMA PieceUncovered ==
  ASSUME NEW n, NEW p, \A i \in Here(n) : ~Covers(i, p)
  PROVE  Piece(p, n) = << <<0, p>> >>
BY DEF Piece, PieceOf, Covers

\* Pieces are sequences of bytes, one for each byte of the input.
LEMMA PiecesAreBytes ==
  ASSUME TypeInv, stage = "loop", Disjoint, NEW n
  PROVE  /\ [p \in 1..N |-> Piece(p, n)] \in Seq(Seq(Byte))
         /\ Len([p \in 1..N |-> Piece(p, n)]) = N
<1>1. ASSUME NEW p \in 1..N PROVE Piece(p, n) \in Seq(Byte)
  <2>1. p \in Int /\ p \in Nat /\ <<0, p>> \in Byte
    BY LengthAssumption DEF Byte
  <2>2. CASE \E i \in Here(n) : Covers(i, p)
    <3>1. PICK i \in Here(n) : Covers(i, p)
      BY <2>2
    <3>2. Piece(p, n) = Put(p, i)
      BY <2>1, <3>1, PieceCovered
    <3>3. i \in Nat /\ \E a \in DOMAIN queue : queue[a] = i
      BY HereArePlanned
    <3>4. SizeOf(i) \in Nat
      BY <3>3, ReplacementIs
    <3>5. \A j \in 1..SizeOf(i) : <<i, j>> \in Byte
      BY <3>3, <3>4 DEF Byte
    <3>6. [j \in 1..SizeOf(i) |-> <<i, j>>] \in Seq(Byte)
      BY <3>4, <3>5
    <3> QED BY <3>2, <3>6 DEF Put
  <2>3. CASE \A i \in Here(n) : ~Covers(i, p)
    BY <2>1, <2>3, PieceUncovered
  <2> QED BY <2>2, <2>3
<1> QED
  BY <1>1, LengthAssumption

\* One more usable finding is passed.
LEMMA OneMoreHere ==
  ASSUME TypeInv, stage = "loop", k \in DOMAIN queue
  PROVE  /\ Here(k + 1) = Here(k) \cup (IF Usable(findings[queue[k]]) THEN {queue[k]} ELSE {})
         /\ Disjoint /\ Usable(findings[queue[k]]) => queue[k] \notin Here(k)
<1>1. DOMAIN queue = 1..Len(queue) /\ Len(queue) \in Nat /\ \A a \in 1..Len(queue) : a < k + 1 <=> a < k \/ a = k
  BY DEF TypeInv, TypesOK
<1>2. queue[k] \in DOMAIN findings
  BY Queued
<1>3. \A i \in DOMAIN findings :
        (\E a \in DOMAIN queue : a < k + 1 /\ queue[a] = i) <=>
          (\E a \in DOMAIN queue : a < k /\ queue[a] = i) \/ i = queue[k]
  BY <1>1
<1>4. Here(k + 1) = Here(k) \cup (IF Usable(findings[queue[k]]) THEN {queue[k]} ELSE {})
  BY <1>2, <1>3 DEF Here, HereOf
<1>5. ASSUME Disjoint, Usable(findings[queue[k]]), queue[k] \in Here(k) PROVE FALSE
  <2>1. PICK a \in DOMAIN queue : a < k /\ queue[a] = queue[k]
    BY <1>5 DEF Here, HereOf
  <2>2. findings[queue[k]].start < findings[queue[k]].end
    BY <1>5 DEF Usable
  <2> QED BY <1>5, <2>1, <2>2, LaterLiesInFront
<1> QED
  BY <1>4, <1>5

\* To replace one more usable finding is to splice it in.
LEMMA UsableSplice ==
  ASSUME TypeInv, stage = "loop", Disjoint, k \in DOMAIN queue, Usable(findings[queue[k]])
  PROVE  LET f == findings[queue[k]]
             S == Whole(findings, plan, Here(k))
             T == Whole(findings, plan, Here(k + 1))
         IN f.end <= Len(S) /\ T = Splice(S, f.start, f.end, Replacement(queue[k]))
<1> DEFINE c == queue[k]
           S == [p \in 1..N |-> Piece(p, k)]
           T == [p \in 1..N |-> Piece(p, k + 1)]
           from == findings[c].start
           to == findings[c].end
           r == Replacement(c)
<1>1. S \in Seq(Seq(Byte)) /\ T \in Seq(Seq(Byte)) /\ Len(S) = N /\ Len(T) = N
  BY PiecesAreBytes
<1>2. findings[c] \in FindingSet /\ c \in Nat /\ SizeOf(c) \in Nat /\ r = [j \in 1..SizeOf(c) |-> <<c, j>>]
  BY ReplacementIs
<1>6. Here(k + 1) = Here(k) \cup {c}
  BY OneMoreHere
<1>7. ASSUME NEW i \in Here(k) PROVE to <= findings[i].start /\ findings[i].start \in Int
  <2>1. /\ findings[i].start \in Int /\ findings[i].start < findings[i].end
        /\ \E a \in DOMAIN queue : a < k /\ queue[a] = i
    BY HereArePlanned
  <2>2. findings[c].start < findings[c].end
    BY DEF Usable
  <2> QED BY <2>1, <2>2, LaterLiesInFront
<1>5. Usable(findings[c])
  OBVIOUS
<1> HIDE DEF c
<1>3. from \in Int /\ to \in Int /\ from >= 0 /\ to <= N /\ from < to /\ N \in Nat
  BY <1>2, <1>5, LengthAssumption DEF FindingSet, Usable
<1>4. r \in Seq(Byte)
  <2>1. \A j \in 1..SizeOf(c) : <<c, j>> \in Byte
    BY <1>2 DEF Byte
  <2> QED BY <1>2, <2>1
<1>8. \A p \in 1..to : \A i \in Here(k) : ~Covers(i, p)
  <2>1. SUFFICES ASSUME NEW p \in 1..to, NEW i \in Here(k) PROVE ~ (findings[i].start < p)
    BY DEF Covers
  <2>2. to <= findings[i].start /\ findings[i].start \in Int
    BY <1>7
  <2> HIDE DEF to
  <2> QED BY <1>3, <2>2
<1>9. \A p \in (from + 1)..to : Covers(c, p)
  BY <1>3 DEF Covers
<1> HIDE DEF S, T, r
<1>10. ASSUME NEW p \in 1..N PROVE S[p] = Piece(p, k) /\ T[p] = Piece(p, k + 1) /\ p \in Int
  BY DEF S, T
<1>11. \A p \in 1..to : p \in 1..N
  <2> HIDE DEF to
  <2> QED BY <1>3
<1>12. \A p \in 1..to : Len(S[p]) = 1
  BY <1>8, <1>10, <1>11, PieceUncovered
<1>13. ASSUME NEW p \in (from + 1)..to PROVE T[p] = Put(p, c) /\ p \in 1..N
  <2>1. p \in 1..N
    <3> HIDE DEF from, to
    <3> QED BY <1>3
  <2>2. c \in Here(k + 1) /\ Covers(c, p) /\ Disjoint
    BY <1>6, <1>9
  <2> QED BY <1>10, <2>1, <2>2, PieceCovered
<1>14. T[from + 1] = r
  <2>1. from + 1 \in (from + 1)..to
    <3> HIDE DEF from, to
    <3> QED BY <1>3
  <2>2. T[from + 1] = Put(from + 1, c)
    BY <1>13, <2>1
  <2> QED BY <1>2, <2>2 DEF Put
<1>15. ASSUME NEW p \in (from + 2)..to PROVE T[p] = <<>>
  <2>1. p \in (from + 1)..to /\ p # from + 1
    <3> HIDE DEF from, to
    <3> QED BY <1>3
  <2>2. T[p] = Put(p, c)
    BY <1>13, <2>1
  <2> QED BY <2>1, <2>2 DEF Put
<1>16. ASSUME NEW p \in 1..N, p <= from \/ to < p PROVE T[p] = S[p]
  <2>1. ~Covers(c, p)
    <3>1. ~ (from < p /\ p <= to)
      <4> HIDE DEF from, to
      <4> QED BY <1>3, <1>16
    <3> QED BY <3>1 DEF Covers
  <2>2. CASE \E i \in Here(k) : Covers(i, p)
    <3>1. PICK i \in Here(k) : Covers(i, p)
      BY <2>2
    <3>2. i \in Here(k + 1)
      BY <1>6
    <3>3. Piece(p, k) = Put(p, i)
      BY <1>10, <3>1, PieceCovered
    <3>4. Piece(p, k + 1) = Put(p, i)
      BY <1>10, <3>1, <3>2, PieceCovered
    <3> QED BY <1>10, <3>3, <3>4
  <2>3. CASE \A i \in Here(k) : ~Covers(i, p)
    <3>1. \A i \in Here(k + 1) : ~Covers(i, p)
      BY <1>6, <2>1, <2>3
    <3>2. Piece(p, k) = << <<0, p>> >> /\ Piece(p, k + 1) = << <<0, p>> >>
      BY <2>3, <3>1, PieceUncovered
    <3> QED BY <1>10, <3>2
  <2> QED BY <2>2, <2>3
<1> HIDE DEF from, to
<1>17. Replaces(S, T, from, to, r)
  BY <1>1, <1>12, <1>14, <1>15, <1>16 DEF Replaces
<1>18. from \in 0..Len(S) /\ to \in (from + 1)..Len(S) /\ Len(T) = Len(S)
  BY <1>1, <1>3
<1>19. to <= Len(FlattenSeq(S)) /\ FlattenSeq(T) = Splice(FlattenSeq(S), from, to, r)
  BY <1>1, <1>4, <1>17, <1>18, SpliceFlat
<1> QED
  BY <1>19 DEF c, S, T, from, to, r, Whole, Piece

\* What has been replaced decides about the range of the next finding as its
\* offsets in the input do.
LEMMA UsableIsInRange ==
  ASSUME TypeInv, ReplacedSoFar, stage = "loop", Disjoint, k \in DOMAIN queue
  PROVE  InRange(findings[queue[k]]) <=> Usable(findings[queue[k]])
<1> DEFINE f == findings[queue[k]]
           S == Whole(findings, plan, Here(k))
<1>1. bytes = S
  BY DEF ReplacedSoFar
<1>2. f \in FindingSet
  BY Queued
<1>3. f.start \in Int /\ f.end \in Int /\ N \in Nat
  BY <1>2, LengthAssumption DEF FindingSet
<1>4. ASSUME Usable(f) PROVE InRange(f)
  <2>1. f.end <= Len(S)
    BY <1>4, UsableSplice
  <2> HIDE DEF f, S
  <2> QED BY <1>1, <1>4, <2>1 DEF Usable, InRange
<1>5. ASSUME InRange(f) PROVE Usable(f)
  <2>1. f.start >= 0 /\ f.end <= Len(bytes) /\ f.start < f.end
    BY <1>5 DEF InRange
  <2>2. CASE Here(k) = {}
    <3>1. bytes = Original
      BY <1>1, <2>2, NoneHere
    <3>2. Len(bytes) = N
      BY <3>1, LengthAssumption DEF Original
    <3> QED BY <2>1, <3>2 DEF Usable
  <2>3. CASE Here(k) # {}
    <3>1. PICK i \in Here(k) : TRUE
      BY <2>3
    <3>2. /\ findings[i].start \in Int /\ findings[i].end \in Int
          /\ findings[i].start < findings[i].end /\ findings[i].end <= N
          /\ \E a \in DOMAIN queue : a < k /\ queue[a] = i
      BY HereArePlanned
    <3>3. f.end <= findings[i].start
      BY <2>1, <3>2, LaterLiesInFront
    <3> HIDE DEF f
    <3>4. f.end <= N
      BY <1>3, <3>2, <3>3
    <3> QED BY <2>1, <3>4 DEF Usable
  <2> QED BY <2>2, <2>3
<1> QED
  BY <1>4, <1>5

\* A replacement keeps the promise for one finding more.
LEMMA ReplacedReplace == TypeInv /\ BytesOK /\ ReplacedSoFar /\ Replace => ReplacedSoFar'
<1> SUFFICES ASSUME TypeInv, BytesOK, ReplacedSoFar, Replace, Disjoint
             PROVE  /\ bytes' = Whole(findings, plan, Here(k'))
                    /\ count' = Cardinality(Here(k'))
  BY DEF ReplacedSoFar, Disjoint, Planned, Replace, Here
<1> DEFINE f == findings[queue[k]]
<1>1. /\ k' = k + 1 /\ count' = count + 1 /\ stage = "loop" /\ InRange(f) /\ k \in DOMAIN queue
      /\ DOMAIN findings = 1..Len(findings) /\ Len(findings) \in Nat
  BY ReplaceSplices DEF Replace, TypeInv, TypesOK
<1>2. Usable(f)
  BY <1>1, UsableIsInRange
<1>3. bytes' = Splice(bytes, f.start, f.end, Replacement(queue[k]))
  BY ReplaceSplices
<1>4. bytes = Whole(findings, plan, Here(k)) /\ count = Cardinality(Here(k))
  BY DEF ReplacedSoFar
<1>5. bytes' = Whole(findings, plan, Here(k + 1))
  BY <1>1, <1>2, <1>3, <1>4, UsableSplice
<1>6. Here(k + 1) = Here(k) \cup {queue[k]} /\ queue[k] \notin Here(k)
  BY <1>1, <1>2, OneMoreHere
<1>7. IsFiniteSet(Here(k))
  <2>1. IsFiniteSet(1..Len(findings)) /\ Here(k) \in SUBSET (1..Len(findings))
    BY <1>1, FS_Interval DEF Here, HereOf
  <2> QED BY <2>1, FS_Subset
<1>8. Cardinality(Here(k + 1)) = Cardinality(Here(k)) + 1
  BY <1>6, <1>7, FS_AddElement
<1> QED
  BY <1>1, <1>4, <1>5, <1>8

\* A finding that is passed over was not usable.
LEMMA ReplacedSkip == TypeInv /\ ReplacedSoFar /\ SkipOne => ReplacedSoFar'
<1> SUFFICES ASSUME TypeInv, ReplacedSoFar, SkipOne, Disjoint
             PROVE  /\ bytes' = Whole(findings, plan, Here(k'))
                    /\ count' = Cardinality(Here(k'))
  BY DEF ReplacedSoFar, Disjoint, Planned, SkipOne, Here
<1>1. /\ k' = k + 1 /\ count' = count /\ bytes' = bytes /\ stage = "loop" /\ k \in DOMAIN queue
      /\ ~InRange(findings[queue[k]])
  BY DEF SkipOne, TypeInv, TypesOK, LoopOK
<1>2. ~Usable(findings[queue[k]])
  BY <1>1, UsableIsInRange
<1>3. Here(k + 1) = Here(k)
  BY <1>1, <1>2, OneMoreHere
<1> QED
  BY <1>1, <1>3 DEF ReplacedSoFar

\* The promise holds all along.
LEMMA ReplacedHolds == Spec => []ReplacedSoFar
<1>1. Init => ReplacedSoFar
  <2> SUFFICES ASSUME Init PROVE ReplacedSoFar
    OBVIOUS
  <2>1. queue \in Seq(Nat)
    BY DEF Init
  <2> QED BY <2>1, FreshReplaced DEF Init
<1>2. ReplacedSoFar /\ UNCHANGED <<findings, plan, queue, k, bytes, count>> => ReplacedSoFar'
  BY DEF ReplacedSoFar, Disjoint, Planned, Here
<1>3. (k = 1 /\ bytes = Original /\ count = 0 /\ queue \in Seq(Nat) => ReplacedSoFar)'
  BY FreshReplaced, PTL
<1>4. TypeInv /\ TypeInv' /\ FreshOK /\ (Begin \/ BeginPlain \/ Scan \/ Plan \/ Sort) => ReplacedSoFar'
  <2> SUFFICES ASSUME TypeInv, TypeInv', FreshOK, Begin \/ BeginPlain \/ Scan \/ Plan \/ Sort
               PROVE  ReplacedSoFar'
    OBVIOUS
  <2>1. k' = 1 /\ bytes' = Original /\ count' = 0
    BY DEF Begin, BeginPlain, Scan, Plan, Sort, FreshOK, TypeInv, LoopOK
  <2>2. queue' \in Seq(Nat)
    BY DEF TypeInv, TypesOK
  <2> QED BY <1>3, <2>1, <2>2 DEF Original
<1>5. [Next]_vars => \/ Begin \/ BeginPlain \/ Scan \/ Plan \/ Sort \/ Replace \/ SkipOne
                     \/ UNCHANGED <<findings, plan, queue, k, bytes, count>>
  BY DEF Next, vars, Finish
<1>6. TypeInv /\ TypeInv' /\ FreshOK /\ BytesOK /\ ReplacedSoFar /\ [Next]_vars => ReplacedSoFar'
  BY <1>2, <1>4, <1>5, ReplacedReplace, ReplacedSkip, Zenon
<1> QED
  BY <1>1, <1>6, FreshHolds, BytesInit, BytesNext, TypesHold, PTL DEF Spec

\* Each usable finding is replaced whole and nothing else is.
THEOREM ReplacedExactly == Spec => []ReplacesExactly
<1>1. ASSUME TypeInv, ReplacedSoFar PROVE ReplacesExactly
  <2>1. SUFFICES ASSUME stage = "done", Disjoint PROVE ReplacesExactly
    BY DEF ReplacesExactly
  <2> DEFINE H == {i \in Planned : Usable(findings[i])}
  <2>2. Here(k) = H
    <3>1. k = Len(queue) + 1 /\ Len(queue) \in Nat /\ DOMAIN queue = 1..Len(queue)
      BY <1>1, <2>1 DEF TypeInv, TypesOK, LoopOK
    <3>2. \A a \in DOMAIN queue : a < k
      BY <3>1
    <3>3. Planned = Covered /\ Planned \subseteq DOMAIN findings
      BY DEF Planned, Covered, ModeMap
    <3>4. \A i \in DOMAIN findings : i \in Planned <=> \E a \in DOMAIN queue : queue[a] = i
      BY <1>1, <2>1, <3>3 DEF TypeInv, QueueOK
    <3> QED BY <3>2, <3>3, <3>4 DEF Here, HereOf
  <2>3. bytes = Whole(findings, plan, Here(k)) /\ count = Cardinality(Here(k))
    BY <1>1, <2>1 DEF ReplacedSoFar
  <2>4. bytes = Whole(findings, plan, H) /\ count = Cardinality(H)
    BY <2>2, <2>3
  <2>5. (bytes = Whole(findings, plan, H) /\ count = Cardinality(H)) => ReplacesExactly
    BY DEF ReplacesExactly, Whole, PieceOf, SizeFor, ModeFor
  <2> QED BY <2>4, <2>5
<1> QED
  BY <1>1, ReplacedHolds, TypesHold, PTL

=============================================================================
