-------------------------- MODULE SequenceLemmas --------------------------
(***************************************************************************)
(* Facts about sequences that the proofs about the event file and about    *)
(* texts share.  Induction is by the least counterexample: LeastOf follows *)
(* from the well-foundedness of the strict subsets of a set, so that no    *)
(* theorem with an operator parameter is needed.  From it come induction   *)
(* up and down a range, recursion from the end of a range, what FlattenSeq *)
(* makes of its pieces, and what a splice does to a sequence.              *)
(***************************************************************************)
EXTENDS SequencesExt, SequenceTheorems, FiniteSetTheorems, TLAPS

\* A non-empty set of natural numbers has a least one.
LEMMA LeastOf ==
  ASSUME NEW T, T \subseteq Nat, T # {}
  PROVE  \E n \in T : \A m \in T : n <= m
<1> DEFINE Below(n) == {i \in Nat : i < n}
           U == {Below(n) : n \in T}
<1>1. U \subseteq FiniteSubsetsOf(Nat)
  <2>1. ASSUME NEW n \in T PROVE Below(n) \in FiniteSubsetsOf(Nat)
    <3>1. 0..(n-1) \in SUBSET Nat /\ IsFiniteSet(0..(n-1))
      BY FS_Interval
    <3>2. Below(n) = 0..(n-1)
      OBVIOUS
    <3> QED BY <3>1, <3>2 DEF FiniteSubsetsOf
  <2> QED BY <2>1
<1>2. PICK s \in U : \A y \in U : <<y, s>> \notin StrictSubsetOrdering(Nat)
  <2>1. U # {}
    OBVIOUS
  <2> HIDE DEF U
  <2> QED BY <1>1, <2>1, WFMin, FS_StrictSubsetOrderingWellFounded, Zenon
<1>3. PICK n \in T : s = Below(n)
  OBVIOUS
<1>4. ASSUME NEW m \in T, m < n PROVE FALSE
  <2>1. Below(m) \in U /\ Below(m) \subseteq Below(n) /\ Below(m) \subseteq Nat /\ Below(n) \subseteq Nat
    BY <1>4
  <2>2. m \in Below(n) /\ m \notin Below(m)
    BY <1>4
  <2>3. Below(m) # Below(n)
    BY <2>2
  <2>4. <<Below(m), Below(n)>> \in StrictSubsetOrdering(Nat)
    <3> HIDE DEF Below
    <3> QED BY <2>1, <2>3 DEF StrictSubsetOrdering
  <2> QED BY <1>2, <1>3, <2>1, <2>4
<1> QED
  BY <1>4

\* A non-empty set of numbers up to n has a greatest one.
LEMMA GreatestOf ==
  ASSUME NEW n \in Nat, NEW T, T \subseteq 0..n, T # {}
  PROVE  \E i \in T : \A j \in T : j <= i
<1> DEFINE Mirror == {n - i : i \in T}
<1>1. \A i \in T : i \in 0..n
  OBVIOUS
<1>5. Mirror \subseteq Nat /\ Mirror # {}
  <2>1. \A i \in T : n - i \in Nat
    BY <1>1
  <2> QED BY <2>1
<1>2. PICK k \in Mirror : \A m \in Mirror : k <= m
  <2> HIDE DEF Mirror
  <2> QED BY <1>5, LeastOf
<1>3. PICK i \in T : k = n - i
  OBVIOUS
<1>4. ASSUME NEW j \in T PROVE j <= i
  <2>1. k <= n - j
    BY <1>2
  <2> QED BY <1>1, <1>3, <2>1
<1> QED
  BY <1>4

\* What holds at 0, and at i when it holds at i - 1, holds up to n.  G is the set of
\* the numbers it holds at.
LEMMA UpwardInduction ==
  ASSUME NEW n \in Nat, NEW G, 0 \in G, \A i \in 1..n : i - 1 \in G => i \in G
  PROVE  0..n \subseteq G
<1> DEFINE Bad == {i \in 0..n : i \notin G}
<1>1. SUFFICES ASSUME Bad # {} PROVE FALSE
  OBVIOUS
<1>2. PICK i \in Bad : \A j \in Bad : i <= j
  <2>1. \A j \in Bad : j \in Nat
    OBVIOUS
  <2> HIDE DEF Bad
  <2>2. Bad \subseteq Nat
    BY <2>1
  <2> QED BY <1>1, <2>2, LeastOf
<1>3. i \in 1..n /\ i - 1 \in 0..n /\ ~ (i <= i - 1)
  OBVIOUS
<1>4. i - 1 \in G
  BY <1>2, <1>3
<1> QED
  BY <1>3, <1>4

\* What holds at n + 1, and at i when it holds at all that follow, holds from 1 on.
LEMMA DownwardInduction ==
  ASSUME NEW n \in Nat, NEW G, n + 1 \in G,
         \A i \in 1..n : (\A j \in (i + 1)..(n + 1) : j \in G) => i \in G
  PROVE  1..(n + 1) \subseteq G
<1> DEFINE Bad == {i \in 1..(n + 1) : i \notin G}
<1>1. SUFFICES ASSUME Bad # {} PROVE FALSE
  OBVIOUS
<1>2. PICK i \in Bad : \A j \in Bad : j <= i
  <2>1. \A j \in Bad : j \in 0..(n + 1)
    OBVIOUS
  <2> HIDE DEF Bad
  <2>2. Bad \subseteq 0..(n + 1) /\ n + 1 \in Nat
    BY <2>1
  <2> QED BY <1>1, <2>2, GreatestOf
<1>3. i \in 1..n
  OBVIOUS
<1>4. ASSUME NEW j \in (i + 1)..(n + 1) PROVE j \in G
  <2>1. j \in 1..(n + 1) /\ ~ (j <= i)
    BY <1>3
  <2> QED BY <1>2, <2>1
<1> QED
  BY <1>3, <1>4

\* f[n] is what the first n pieces of s make.
Flattens(f, s) ==
  /\ DOMAIN f = 0..Len(s)
  /\ f[0] = <<>>
  /\ \A i \in 1..Len(s) : f[i] = f[i - 1] \o s[i]

\* Sequences can be put together piece by piece.
LEMMA FlattensExists ==
  ASSUME NEW B, NEW s \in Seq(Seq(B))
  PROVE  \E f \in [0..Len(s) -> Seq(B)] : Flattens(f, s)
<1> DEFINE Upto(f, n) == f[0] = <<>> /\ \A i \in 1..n : f[i] = f[i - 1] \o s[i]
           Bad == {n \in 0..Len(s) : ~ \E f \in [0..n -> Seq(B)] : Upto(f, n)}
<1>1. SUFFICES Bad = {}
  <2>1. Len(s) \in 0..Len(s)
    OBVIOUS
  <2>2. PICK f \in [0..Len(s) -> Seq(B)] : Upto(f, Len(s))
    BY <1>1, <2>1
  <2> QED
    BY <2>2 DEF Flattens
<1>2. SUFFICES ASSUME Bad # {} PROVE FALSE
  OBVIOUS
<1>3. PICK n \in Bad : \A m \in Bad : n <= m
  <2>1. \A m \in Bad : m \in 0..Len(s)
    OBVIOUS
  <2> HIDE DEF Bad
  <2>2. Bad \subseteq Nat
    BY <2>1
  <2> QED BY <1>2, <2>2, LeastOf
<1>4. n # 0
  <2>1. [i \in 0..0 |-> <<>>] \in [0..0 -> Seq(B)] /\ Upto([i \in 0..0 |-> <<>>], 0)
    OBVIOUS
  <2> QED BY <2>1
<1>5. PICK g \in [0..(n - 1) -> Seq(B)] : Upto(g, n - 1)
  <2>1. n - 1 \in 0..Len(s) /\ ~ (n <= n - 1)
    BY <1>4
  <2> QED BY <1>3, <2>1
<1> DEFINE h == [i \in 0..n |-> IF i = n THEN g[n - 1] \o s[n] ELSE g[i]]
<1>6. h \in [0..n -> Seq(B)]
  BY <1>4
<1>7. Upto(h, n)
  <2>1. n \in Nat /\ h[0] = <<>>
    BY <1>4, <1>5
  <2>2. ASSUME NEW i \in 1..n PROVE h[i] = h[i - 1] \o s[i]
    <3>3. i \in 0..n /\ i - 1 \in 0..n /\ i - 1 # n
      BY <2>1
    <3>1. CASE i = n
      <4>1. h[i] = g[n - 1] \o s[n] /\ h[i - 1] = g[i - 1]
        BY <3>1, <3>3
      <4> QED BY <3>1, <4>1
    <3>2. CASE i # n
      <4>1. i \in 1..(n - 1)
        BY <2>1, <3>2
      <4>2. g[i] = g[i - 1] \o s[i]
        BY <1>5, <4>1
      <4>3. h[i] = g[i] /\ h[i - 1] = g[i - 1]
        BY <3>2, <3>3
      <4> QED BY <4>2, <4>3
    <3> QED BY <3>1, <3>2
  <2> QED BY <2>1, <2>2
<1> QED
  BY <1>6, <1>7

\* What a function defined piece by piece makes of all pieces is what
\* FlattenSeq makes of them.
LEMMA FlattenSeqIsLast ==
  ASSUME NEW B, NEW s \in Seq(Seq(B)), NEW f \in [0..Len(s) -> Seq(B)], Flattens(f, s)
  PROVE  FlattenSeq(s) = f[Len(s)]
<1>1. CASE Len(s) = 0
  BY <1>1 DEF FlattenSeq, Flattens
<1>2. CASE Len(s) # 0
  <2> DEFINE Rec(h) == h = [i \in 1..Len(s) |-> IF i = 1 THEN s[i] ELSE h[i - 1] \o s[i]]
             g == CHOOSE h : Rec(h)
  <2>1. FlattenSeq(s) = g[Len(s)]
    BY <1>2 DEF FlattenSeq
  <2>2. Rec([i \in 1..Len(s) |-> f[i]])
    <3>1. ASSUME NEW i \in 1..Len(s) PROVE f[i] = IF i = 1 THEN s[i] ELSE f[i - 1] \o s[i]
      <4>1. s[i] \in Seq(B)
        OBVIOUS
      <4>2. f[i] = f[i - 1] \o s[i] /\ f[0] = <<>>
        BY DEF Flattens
      <4>3. <<>> \o s[i] = s[i]
        BY <4>1, ConcatEmptySeq
      <4>4. i = 1 => i - 1 = 0
        OBVIOUS
      <4> QED BY <4>2, <4>3, <4>4
    <3> QED BY <3>1
  <2>3. Rec(g)
    <3> HIDE DEF Rec
    <3> QED BY <2>2
  <2> HIDE DEF g
  <2> DEFINE Bad == {i \in 1..Len(s) : g[i] # f[i]}
  <2>4. SUFFICES Bad = {}
    BY <1>2, <2>1
  <2>5. SUFFICES ASSUME Bad # {} PROVE FALSE
    OBVIOUS
  <2>6. PICK n \in Bad : \A m \in Bad : n <= m
    <3>1. Bad \subseteq Nat
      OBVIOUS
    <3> HIDE DEF Bad
    <3> QED BY <2>5, <3>1, LeastOf
  <2>7. f[n] = f[n - 1] \o s[n]
    BY DEF Flattens
  <2>11. f[1] = s[1]
    <3>1. 1 \in 1..Len(s) /\ 1 - 1 = 0
      BY <1>2
    <3>2. f[1] = f[1 - 1] \o s[1] /\ f[0] = <<>>
      BY <3>1 DEF Flattens
    <3>3. s[1] \in Seq(B)
      BY <3>1
    <3>4. <<>> \o s[1] = s[1]
      BY <3>3, ConcatEmptySeq
    <3> QED BY <3>1, <3>2, <3>4
  <2>8. g[n] = IF n = 1 THEN s[n] ELSE g[n - 1] \o s[n]
    BY <2>3
  <2>9. n # 1
    BY <2>8, <2>11
  <2>10. g[n - 1] = f[n - 1]
    BY <2>6, <2>9
  <2> QED
    BY <2>7, <2>8, <2>9, <2>10
<1> QED
  BY <1>1, <1>2

\* FlattenSeq(s) is the last of what its beginnings make.
LEMMA FlattenSeqFunction ==
  ASSUME NEW B, NEW s \in Seq(Seq(B))
  PROVE  \E f \in [0..Len(s) -> Seq(B)] : Flattens(f, s) /\ FlattenSeq(s) = f[Len(s)]
BY FlattensExists, FlattenSeqIsLast

\* Pieces of elements of B make a sequence of elements of B.
LEMMA FlattenSeqType ==
  ASSUME NEW B, NEW s \in Seq(Seq(B))
  PROVE  FlattenSeq(s) \in Seq(B)
<1>1. PICK f \in [0..Len(s) -> Seq(B)] : FlattenSeq(s) = f[Len(s)]
  BY FlattenSeqFunction
<1>2. Len(s) \in 0..Len(s)
  OBVIOUS
<1> QED
  BY <1>1, <1>2

\* A piece added behind the others is added behind what they make.
LEMMA FlattenSeqAppend ==
  ASSUME NEW B, NEW s \in Seq(Seq(B)), NEW piece \in Seq(B)
  PROVE  FlattenSeq(Append(s, piece)) = FlattenSeq(s) \o piece
<1> DEFINE t == Append(s, piece)
           n == Len(s)
<1>1. PICK f \in [0..n -> Seq(B)] : Flattens(f, s) /\ FlattenSeq(s) = f[n]
  BY FlattenSeqFunction
<1>2. n \in Nat /\ t \in Seq(Seq(B)) /\ Len(t) = n + 1 /\ t[n + 1] = piece /\ \A i \in 1..n : t[i] = s[i]
  OBVIOUS
<1> DEFINE g == [i \in 0..(n + 1) |-> IF i = n + 1 THEN f[n] \o piece ELSE f[i]]
<1>3. f[n] \in Seq(B) /\ f[n] \o piece \in Seq(B)
  BY <1>2
<1> HIDE DEF t, n
<1>4. g \in [0..(n + 1) -> Seq(B)]
  BY <1>2, <1>3
<1>5. \A i \in 1..n : g[i] = g[i - 1] \o t[i]
  <2>1. SUFFICES ASSUME NEW i \in 1..n PROVE g[i] = g[i - 1] \o t[i]
    OBVIOUS
  <2>2. i \in 0..(n + 1) /\ i - 1 \in 0..(n + 1) /\ i # n + 1 /\ i - 1 # n + 1
    BY <1>2
  <2>3. g[i] = f[i] /\ g[i - 1] = f[i - 1]
    BY <2>2
  <2>4. f[i] = f[i - 1] \o s[i]
    BY <1>1 DEF Flattens, n
  <2> QED BY <1>2, <2>3, <2>4
<1>6. g[n + 1] = f[n] \o piece /\ g[n] = f[n] /\ g[0] = <<>>
  BY <1>1, <1>2 DEF Flattens
<1>7. Flattens(g, t)
  <2>1. \A i \in 1..(n + 1) : g[i] = g[i - 1] \o t[i]
    <3>1. SUFFICES ASSUME NEW i \in 1..(n + 1) PROVE g[i] = g[i - 1] \o t[i]
      OBVIOUS
    <3>2. CASE i = n + 1
      <4>1. i - 1 = n
        BY <1>2, <3>2
      <4> QED BY <1>2, <1>6, <3>2, <4>1
    <3>3. CASE i # n + 1
      <4>1. i \in 1..n
        BY <1>2, <3>3
      <4> QED BY <1>5, <4>1
    <3> QED BY <3>2, <3>3
  <2> QED BY <1>2, <1>4, <1>6, <2>1 DEF Flattens
<1>8. FlattenSeq(t) = g[n + 1]
  <2> HIDE DEF g
  <2> QED BY <1>2, <1>4, <1>7, FlattenSeqIsLast
<1> QED
  BY <1>1, <1>6, <1>8 DEF t

\* One piece more, and its type.
LEMMA FlattensStep ==
  ASSUME NEW B, NEW s \in Seq(Seq(B)), NEW f \in [0..Len(s) -> Seq(B)], Flattens(f, s),
         NEW n \in 1..Len(s)
  PROVE  f[n] = f[n - 1] \o s[n] /\ f[n - 1] \in Seq(B) /\ s[n] \in Seq(B)
<1>1. f[n] = f[n - 1] \o s[n]
  BY DEF Flattens
<1>2. n - 1 \in 0..Len(s)
  OBVIOUS
<1>3. f[n - 1] \in Seq(B)
  BY <1>2
<1>4. s[n] \in Seq(B)
  OBVIOUS
<1> QED
  BY <1>1, <1>3, <1>4

\* x stands somewhere in s.
Has(s, x) == \E a \in 1..Len(s) : s[a] = x

\* An element of FlattenSeq(s) is an element of one of the pieces of s.
LEMMA FlattenSeqElements ==
  ASSUME NEW B, NEW s \in Seq(Seq(B)), NEW x \in B
  PROVE  Has(FlattenSeq(s), x) <=> \E i \in 1..Len(s) : Has(s[i], x)
<1>1. PICK f \in [0..Len(s) -> Seq(B)] : Flattens(f, s) /\ FlattenSeq(s) = f[Len(s)]
  BY FlattenSeqFunction
<1> DEFINE In(t) == \E a \in 1..Len(t) : t[a] = x
           G == {n \in 0..Len(s) : In(f[n]) <=> \E i \in 1..n : In(s[i])}
<1>2. Len(s) \in Nat
  OBVIOUS
<1>3. 0 \in G
  <2>1. f[0] = <<>>
    BY <1>1 DEF Flattens
  <2> QED BY <1>2, <2>1
<1>4. ASSUME NEW n \in 1..Len(s), n - 1 \in G PROVE n \in G
  <2>3. n - 1 \in 0..Len(s) /\ n \in 0..Len(s) /\ \A i : i \in 1..n <=> i \in 1..(n - 1) \/ i = n
    BY <1>2
  <2>1. f[n] = f[n - 1] \o s[n] /\ f[n - 1] \in Seq(B) /\ s[n] \in Seq(B)
    BY <1>1, FlattensStep
  <2>2. In(f[n]) <=> In(f[n - 1]) \/ In(s[n])
    <3> DEFINE u == f[n - 1]
               v == s[n]
    <3>1. Len(u \o v) = Len(u) + Len(v) /\ Len(u) \in Nat /\ Len(v) \in Nat
      BY <2>1
    <3>2. \A a \in 1..(Len(u) + Len(v)) : (u \o v)[a] = IF a <= Len(u) THEN u[a] ELSE v[a - Len(u)]
      BY <2>1
    <3>3. f[n] = u \o v
      BY <2>1
    <3> HIDE DEF u, v
    <3>4. ASSUME NEW a \in 1..Len(f[n]), f[n][a] = x PROVE In(u) \/ In(v)
      <4>1. a \in 1..(Len(u) + Len(v))
        BY <3>1, <3>3
      <4>2. CASE a <= Len(u)
        BY <3>1, <3>2, <3>3, <3>4, <4>1, <4>2
      <4>3. CASE ~ (a <= Len(u))
        <5>1. a - Len(u) \in 1..Len(v) /\ v[a - Len(u)] = x
          BY <3>1, <3>2, <3>3, <3>4, <4>1, <4>3
        <5> QED BY <5>1
      <4> QED BY <4>2, <4>3
    <3>5. ASSUME NEW a \in 1..Len(u), u[a] = x PROVE In(f[n])
      <4>1. a \in 1..Len(f[n]) /\ f[n][a] = x
        BY <3>1, <3>2, <3>3, <3>5
      <4> QED BY <4>1
    <3>6. ASSUME NEW b \in 1..Len(v), v[b] = x PROVE In(f[n])
      <4> DEFINE a == Len(u) + b
      <4>1. a \in 1..(Len(u) + Len(v)) /\ ~ (a <= Len(u)) /\ a - Len(u) = b
        BY <3>1
      <4>2. a \in 1..Len(f[n]) /\ f[n][a] = x
        BY <3>1, <3>2, <3>3, <3>6, <4>1
      <4> QED BY <4>2
    <3> QED BY <3>4, <3>5, <3>6 DEF u, v
  <2>4. In(f[n - 1]) <=> \E i \in 1..(n - 1) : In(s[i])
    BY <1>4
  <2> HIDE DEF In
  <2>5. In(f[n]) <=> \E i \in 1..n : In(s[i])
    BY <2>2, <2>3, <2>4
  <2> QED BY <2>3, <2>5
<1>5. Len(s) \in G
  <2> HIDE DEF G
  <2>1. 0..Len(s) \subseteq G
    BY <1>2, <1>3, <1>4, UpwardInduction
  <2> QED BY <1>2, <2>1
<1> QED
  BY <1>1, <1>5 DEF Has

\* A sequence of at most one element is empty or that element.
LEMMA OneElement ==
  ASSUME NEW B, NEW v \in Seq(B), Len(v) <= 1, v # <<>>
  PROVE  Len(v) = 1 /\ v = <<v[1]>>
<1>1. Len(v) \in Nat \ {0}
  BY EmptySeq
<1>2. \A n \in Nat \ {0} : n <= 1 => n = 1
  OBVIOUS
<1>3. Len(v) = 1
  BY <1>1, <1>2, Zenon
<1> QED
  BY <1>3

\* place[a] is the piece that the a-th element comes from.
Places(place, u, s, n) ==
  /\ place \in [1..Len(u) -> 1..n]
  /\ \A a \in 1..Len(u) : s[place[a]] = <<u[a]>>
  /\ \A a, b \in 1..Len(u) : a < b => place[a] < place[b]
  /\ \A i \in 1..n : s[i] # <<>> => \E a \in 1..Len(u) : place[a] = i

\* Pieces of at most one element make a selection of the elements, in their order.
LEMMA FlattenSeqFilter ==
  ASSUME NEW B, NEW s \in Seq(Seq(B)), \A i \in 1..Len(s) : Len(s[i]) <= 1
  PROVE  \E place : Places(place, FlattenSeq(s), s, Len(s))
<1>1. PICK f \in [0..Len(s) -> Seq(B)] : Flattens(f, s) /\ FlattenSeq(s) = f[Len(s)]
  BY FlattenSeqFunction
<1> DEFINE G == {n \in 0..Len(s) : \E place : Places(place, f[n], s, n)}
<1>2. Len(s) \in Nat
  OBVIOUS
<1>3. 0 \in G
  <2>1. f[0] = <<>>
    BY <1>1 DEF Flattens
  <2>2. Places(<<>>, <<>>, s, 0)
    BY DEF Places
  <2> QED BY <1>2, <2>1, <2>2
<1>4. ASSUME NEW n \in 1..Len(s), n - 1 \in G PROVE n \in G
  <2> DEFINE u == f[n - 1]
             v == s[n]
  <2>6. n - 1 \in 0..Len(s) /\ n \in 1..Len(s)
    BY <1>2
  <2>1. f[n] = u \o v /\ u \in Seq(B) /\ v \in Seq(B) /\ Len(v) <= 1
    <3>1. Len(v) <= 1
      BY <2>6
    <3>2. f[n] = f[n - 1] \o s[n] /\ f[n - 1] \in Seq(B) /\ s[n] \in Seq(B)
      BY <1>1, <2>6, FlattensStep
    <3> QED BY <3>1, <3>2
  <2>2. PICK place : Places(place, u, s, n - 1)
    BY <1>4
  <2>3. n \in 0..Len(s) /\ n \in Nat /\ Len(u) \in Nat /\ Len(v) \in Nat
    BY <1>2, <2>1
  <2>4. CASE v = <<>>
    <3>1. f[n] = u
      BY <2>1, <2>4, ConcatEmptySeq
    <3>2. \A i \in 1..n : i \in 1..(n - 1) \/ i = n
      BY <2>3
    <3>4. \A i \in 1..(n - 1) : i \in 1..n
      BY <2>3
    <3> HIDE DEF u
    <3>5. place \in [1..Len(u) -> 1..n]
      BY <2>2, <3>4 DEF Places
    <3>3. Places(place, u, s, n)
      BY <2>2, <2>4, <3>2, <3>5 DEF Places
    <3> QED BY <2>3, <3>1, <3>3
  <2>5. CASE v # <<>>
    <3> DEFINE m == Len(u) + 1
               more == [a \in 1..m |-> IF a = m THEN n ELSE place[a]]
    <3>1. Len(v) = 1 /\ v = <<v[1]>>
      <4> HIDE DEF v
      <4> QED BY <2>1, <2>5, OneElement
    <3>12. m = Len(u) + 1
      OBVIOUS
    <3> HIDE DEF u, v, m
    <3>2. Len(f[n]) = m /\ f[n][m] = v[1] /\ \A a \in 1..Len(u) : f[n][a] = u[a]
      <4>1. Len(u \o v) = Len(u) + Len(v)
              /\ \A a \in 1..(Len(u) + Len(v)) : (u \o v)[a] = IF a <= Len(u) THEN u[a] ELSE v[a - Len(u)]
        BY <2>1, ConcatProperties
      <4>2. m \in 1..(Len(u) + Len(v)) /\ ~ (m <= Len(u)) /\ m - Len(u) = 1
        BY <2>3, <3>1, <3>12
      <4>3. (u \o v)[m] = v[1]
        BY <4>1, <4>2
      <4>4. \A a \in 1..Len(u) : (u \o v)[a] = u[a]
        BY <2>3, <4>1
      <4> QED BY <2>1, <3>1, <3>12, <4>1, <4>3, <4>4
    <3>3. \A a \in 1..m : a \in 1..Len(u) \/ a = m
      BY <2>3, <3>12
    <3>4. \A a \in 1..Len(u) : a # m /\ a \in 1..m
      BY <2>3, <3>12
    <3>5. m \in 1..m
      BY <2>3, <3>12
    <3>13. \A a \in 1..Len(u) : place[a] \in 1..(n - 1)
      BY <2>2 DEF Places
    <3>6. \A a \in 1..Len(u) : place[a] \in 1..n /\ place[a] < n /\ more[a] = place[a]
      BY <2>3, <3>4, <3>13
    <3>7. more[m] = n
      BY <3>5
    <3>8. more \in [1..m -> 1..n]
      <4>1. ASSUME NEW a \in 1..m PROVE (IF a = m THEN n ELSE place[a]) \in 1..n
        <5>1. n \in 1..n
          BY <2>6, <2>3, <1>2
        <5> QED BY <3>3, <3>6, <5>1
      <4> QED BY <4>1
    <3>9. \A a \in 1..m : s[more[a]] = <<f[n][a]>>
      BY <2>2, <3>1, <3>2, <3>3, <3>6, <3>7 DEF Places, v
    <3>10. ASSUME NEW a \in 1..m, NEW b \in 1..m, a < b PROVE more[a] < more[b]
      <4>1. a \in 1..Len(u)
        BY <2>3, <3>3, <3>10, <3>12
      <4>2. CASE b = m
        BY <3>6, <3>7, <4>1, <4>2
      <4>3. CASE b \in 1..Len(u)
        BY <2>2, <3>6, <3>10, <4>1, <4>3 DEF Places
      <4> QED BY <3>3, <4>2, <4>3
    <3>11. ASSUME NEW i \in 1..n, s[i] # <<>> PROVE \E a \in 1..m : more[a] = i
      <4>1. CASE i = n
        BY <3>5, <3>7, <4>1
      <4>2. CASE i # n
        <5>1. i \in 1..(n - 1)
          BY <2>3, <4>2
        <5>2. PICK a \in 1..Len(u) : place[a] = i
          BY <2>2, <3>11, <5>1 DEF Places
        <5> QED BY <3>4, <3>6, <5>2
      <4> QED BY <4>1, <4>2
    <3> HIDE DEF more
    <3>14. Places(more, f[n], s, n)
      BY <3>2, <3>8, <3>9, <3>10, <3>11 DEF Places
    <3> QED BY <2>3, <3>14
  <2> QED BY <2>4, <2>5
<1>5. Len(s) \in G
  <2> HIDE DEF G
  <2>1. 0..Len(s) \subseteq G
    BY <1>2, <1>3, <1>4, UpwardInduction
  <2> QED BY <1>2, <2>1
<1> QED
  BY <1>1, <1>5

\* What an element in front does to a sequence.
LEMMA ConsProperties ==
  ASSUME NEW B, NEW x \in B, NEW s \in Seq(B)
  PROVE  /\ <<x>> \o s \in Seq(B) /\ Len(<<x>> \o s) = Len(s) + 1
         /\ (<<x>> \o s)[1] = x
         /\ \A a \in 2..(Len(s) + 1) : a - 1 \in 1..Len(s) /\ (<<x>> \o s)[a] = s[a - 1]
         /\ \A a \in 1..(Len(s) + 1) : a = 1 \/ a \in 2..(Len(s) + 1)
         /\ \A a \in 1..Len(s) : a + 1 \in 1..(Len(s) + 1) /\ (<<x>> \o s)[a + 1] = s[a]
<1>1. <<x>> \in Seq(B) /\ Len(<<x>>) = 1 /\ Len(s) \in Nat
  OBVIOUS
<1>2. /\ <<x>> \o s \in Seq(B) /\ Len(<<x>> \o s) = 1 + Len(s)
      /\ \A i \in 1..(1 + Len(s)) : (<<x>> \o s)[i] = IF i <= 1 THEN <<x>>[i] ELSE s[i - 1]
  BY <1>1, ConcatProperties
<1>3. 1 + Len(s) = Len(s) + 1
  BY <1>1
<1>4. (<<x>> \o s)[1] = x
  BY <1>1, <1>2
<1>5. \A a \in 2..(Len(s) + 1) : a - 1 \in 1..Len(s) /\ (<<x>> \o s)[a] = s[a - 1]
  BY <1>1, <1>2
<1>6. \A a \in 1..(Len(s) + 1) : a = 1 \/ a \in 2..(Len(s) + 1)
  BY <1>1
<1>7. \A a \in 1..Len(s) : a + 1 \in 1..(Len(s) + 1) /\ a + 1 \in 2..(Len(s) + 1) /\ (a + 1) - 1 = a
  BY <1>1
<1> QED
  BY <1>2, <1>3, <1>4, <1>5, <1>6, <1>7

\* An element of s \o t is one of s or of t.
LEMMA HasConcat ==
  ASSUME NEW B, NEW s \in Seq(B), NEW t \in Seq(B), NEW x
  PROVE  Has(s \o t, x) <=> Has(s, x) \/ Has(t, x)
<1>1. /\ Len(s \o t) = Len(s) + Len(t) /\ Len(s) \in Nat /\ Len(t) \in Nat
      /\ \A a \in 1..(Len(s) + Len(t)) : (s \o t)[a] = IF a <= Len(s) THEN s[a] ELSE t[a - Len(s)]
  BY ConcatProperties
<1>2. ASSUME NEW a \in 1..Len(s \o t), (s \o t)[a] = x PROVE Has(s, x) \/ Has(t, x)
  <2>1. CASE a <= Len(s)
    <3>1. a \in 1..Len(s) /\ s[a] = x
      BY <1>1, <1>2, <2>1
    <3> QED BY <3>1 DEF Has
  <2>2. CASE ~ (a <= Len(s))
    <3>1. a - Len(s) \in 1..Len(t) /\ t[a - Len(s)] = x
      BY <1>1, <1>2, <2>2
    <3> QED BY <3>1 DEF Has
  <2> QED BY <2>1, <2>2
<1>3. ASSUME NEW a \in 1..Len(s), s[a] = x PROVE Has(s \o t, x)
  <2>1. a \in 1..Len(s \o t) /\ (s \o t)[a] = x
    BY <1>1, <1>3
  <2> QED BY <2>1 DEF Has
<1>4. ASSUME NEW b \in 1..Len(t), t[b] = x PROVE Has(s \o t, x)
  <2> DEFINE a == Len(s) + b
  <2>1. a \in 1..(Len(s) + Len(t)) /\ ~ (a <= Len(s)) /\ a - Len(s) = b
    BY <1>1
  <2>2. a \in 1..Len(s \o t) /\ (s \o t)[a] = x
    BY <1>1, <1>4, <2>1
  <2> QED BY <2>2 DEF Has
<1> QED
  BY <1>2, <1>3, <1>4 DEF Has

\* An element of <<y>> \o s is y or one of s.
LEMMA HasCons ==
  ASSUME NEW B, NEW y \in B, NEW s \in Seq(B), NEW x
  PROVE  Has(<<y>> \o s, x) <=> x = y \/ Has(s, x)
<1>1. <<y>> \in Seq(B)
  OBVIOUS
<1>2. Has(<<y>>, x) <=> x = y
  BY DEF Has
<1> QED
  BY <1>1, <1>2, HasConcat

-----------------------------------------------------------------------------
(* Recursion from the end of a range: each place has a piece and leads to a *)
(* later place.                                                             *)

\* next leads from each of the n places to a later one, or to the end.
LeadsOn(next, n) == next \in [1..n -> 1..(n + 1)] /\ \A i \in 1..n : i < next[i]

\* f[i] is what is collected on the way from place i to the end.
Collects(f, piece, next, n) ==
  f[n + 1] = <<>> /\ \A i \in 1..n : f[i] = piece[i] \o f[next[i]]

\* There is such an f, whatever the pieces and the way.
LEMMA DownwardRecursion ==
  ASSUME NEW B, NEW n \in Nat, NEW piece \in [1..n -> Seq(B)], NEW next, LeadsOn(next, n)
  PROVE  \E f \in [1..(n + 1) -> Seq(B)] : Collects(f, piece, next, n)
<1> DEFINE From(f, i) == f[n + 1] = <<>> /\ \A j \in i..n : f[j] = piece[j] \o f[next[j]]
           G == {i \in 1..(n + 1) : \E f \in [i..(n + 1) -> Seq(B)] : From(f, i)}
<1> USE DEF LeadsOn
<1>1. n + 1 \in G
  <2> DEFINE f == [i \in (n + 1)..(n + 1) |-> <<>>]
  <2>1. f \in [(n + 1)..(n + 1) -> Seq(B)] /\ f[n + 1] = <<>>
    OBVIOUS
  <2>2. n + 1 \in 1..(n + 1) /\ \A j \in (n + 1)..n : FALSE
    OBVIOUS
  <2> HIDE DEF f
  <2>3. From(f, n + 1)
    BY <2>1, <2>2
  <2> HIDE DEF From
  <2> QED BY <2>1, <2>2, <2>3
<1>2. ASSUME NEW i \in 1..n, \A j \in (i + 1)..(n + 1) : j \in G PROVE i \in G
  <2>0. i + 1 \in (i + 1)..(n + 1)
    OBVIOUS
  <2>1. i + 1 \in G
    <3> HIDE DEF G
    <3> QED BY <1>2, <2>0
  <2>2. PICK g \in [(i + 1)..(n + 1) -> Seq(B)] : From(g, i + 1)
    BY <2>1
  <2> DEFINE f == [j \in i..(n + 1) |-> IF j = i THEN piece[i] \o g[next[i]] ELSE g[j]]
  <2>3. i < next[i] /\ next[i] \in (i + 1)..(n + 1) /\ i \in 1..(n + 1)
    OBVIOUS
  <2>4. f \in [i..(n + 1) -> Seq(B)]
    <3>1. ASSUME NEW j \in i..(n + 1) PROVE (IF j = i THEN piece[i] \o g[next[i]] ELSE g[j]) \in Seq(B)
      <4>1. CASE j = i
        <5>1. piece[i] \in Seq(B) /\ g[next[i]] \in Seq(B)
          BY <2>3
        <5> QED BY <4>1, <5>1, ConcatProperties
      <4>2. CASE j # i
        <5>1. j \in (i + 1)..(n + 1)
          BY <4>2
        <5> QED BY <4>2, <5>1
      <4> QED BY <4>1, <4>2
    <3> QED BY <3>1
  <2>5. ASSUME NEW j \in (i + 1)..(n + 1) PROVE f[j] = g[j]
    <3>1. j \in i..(n + 1) /\ j # i
      OBVIOUS
    <3> QED BY <3>1
  <2>6. f[i] = piece[i] \o g[next[i]]
    <3>1. i \in i..(n + 1)
      BY <2>3
    <3> QED BY <3>1
  <2> HIDE DEF f
  <2>7. From(f, i)
    <3>1. f[n + 1] = <<>>
      <4>1. n + 1 \in (i + 1)..(n + 1)
        OBVIOUS
      <4> QED BY <2>2, <2>5, <4>1
    <3>2. ASSUME NEW j \in i..n PROVE f[j] = piece[j] \o f[next[j]]
      <4>1. CASE j = i
        BY <2>3, <2>5, <2>6, <4>1
      <4>2. CASE j # i
        <5>1. j \in (i + 1)..n /\ j \in 1..n /\ j \in (i + 1)..(n + 1)
          BY <4>2
        <5>2. j < next[j] /\ next[j] \in 1..(n + 1)
          BY <5>1
        <5>3. next[j] \in (i + 1)..(n + 1)
          BY <5>1, <5>2
        <5>4. g[j] = piece[j] \o g[next[j]]
          BY <2>2, <5>1
        <5> QED BY <2>5, <5>1, <5>3, <5>4
      <4> QED BY <4>1, <4>2
    <3> QED BY <3>1, <3>2
  <2> HIDE DEF From
  <2> QED BY <2>3, <2>4, <2>7
<1>3. 1 \in G
  <2> HIDE DEF G
  <2>1. 1..(n + 1) \subseteq G
    BY <1>1, <1>2, DownwardInduction
  <2> QED BY <2>1
<1> QED
  BY <1>3 DEF Collects

\* Pieces of one element make the sequence of these elements.
LEMMA FlattenSingles ==
  ASSUME NEW B, NEW u \in Seq(B), NEW s \in Seq(Seq(B)), Len(s) = Len(u), \A i \in 1..Len(u) : s[i] = <<u[i]>>
  PROVE  FlattenSeq(s) = u
<1>1. PICK f \in [0..Len(s) -> Seq(B)] : Flattens(f, s) /\ FlattenSeq(s) = f[Len(s)]
  BY FlattenSeqFunction
<1> DEFINE G == {n \in 0..Len(s) : f[n] = SubSeq(u, 1, n)}
<1>2. Len(s) \in Nat
  OBVIOUS
<1>3. 0 \in G
  <2>1. f[0] = <<>>
    BY <1>1 DEF Flattens
  <2>2. SubSeq(u, 1, 0) = <<>>
    BY SubSeqEmpty
  <2> QED BY <1>2, <2>1, <2>2
<1>4. ASSUME NEW n \in 1..Len(s), n - 1 \in G PROVE n \in G
  <2>1. f[n] = f[n - 1] \o s[n]
    BY <1>1 DEF Flattens
  <2>2. n \in 1..Len(u) /\ n \in 0..Len(s) /\ n - 1 \in 0..Len(u)
    BY <1>2
  <2>3. SubSeq(u, 1, n) = SubSeq(u, 1, n - 1) \o <<u[n]>>
    <3>1. 1 \in 1..Len(u) /\ n \in 1..Len(u)
      BY <1>2, <2>2
    <3> QED BY <3>1, SubSeqRecursiveSecond
  <2> QED BY <1>4, <2>1, <2>2, <2>3
<1>5. Len(s) \in G
  <2> HIDE DEF G
  <2>1. 0..Len(s) \subseteq G
    BY <1>2, <1>3, <1>4, UpwardInduction
  <2> QED BY <1>2, <2>1
<1> QED
  BY <1>1, <1>5, SubSeqFull

-----------------------------------------------------------------------------
(* Splicing: r in the place of the elements from + 1 .. to of s. *)

\* s with the elements behind the first from and up to the to-th replaced by r.
Splice(s, from, to, r) == SubSeq(s, 1, from) \o r \o SubSeq(s, to + 1, Len(s))

\* u, element by element.
IsSplice(u, s, from, to, r) ==
  /\ Len(u) = from + Len(r) + (Len(s) - to)
  /\ \A x \in 1..Len(u) :
       u[x] = IF x <= from THEN s[x]
              ELSE IF x <= from + Len(r) THEN r[x - from]
              ELSE s[x - (from + Len(r)) + to]

\* The elements of a spliced sequence, one by one.
LEMMA SpliceAt ==
  ASSUME NEW B, NEW s \in Seq(B), NEW r \in Seq(B), NEW from \in 0..Len(s), NEW to \in from..Len(s)
  PROVE  /\ Splice(s, from, to, r) \in Seq(B)
         /\ IsSplice(Splice(s, from, to, r), s, from, to, r)
<1> DEFINE head == SubSeq(s, 1, from)
           tail == SubSeq(s, to + 1, Len(s))
           front == head \o r
           u == front \o tail
<1>1. Len(s) \in Nat /\ Len(r) \in Nat /\ from \in Nat /\ to \in Nat /\ from <= to /\ to <= Len(s)
  OBVIOUS
<1>2. head \in Seq(B) /\ Len(head) = from /\ \A x \in 1..from : head[x] = s[x]
  <2>1. \A x \in 1..from : s[x] \in B
    BY <1>1
  <2>2. /\ head \in Seq(B) /\ Len(head) = IF 1 <= from THEN from - 1 + 1 ELSE 0
        /\ \A x \in 1..(from - 1 + 1) : head[x] = s[1 + x - 1]
    BY <1>1, <2>1, SubSeqProperties
  <2>3. \A x \in 1..from : x \in 1..(from - 1 + 1) /\ 1 + x - 1 = x
    BY <1>1
  <2> HIDE DEF head
  <2> QED BY <1>1, <2>2, <2>3
<1>3. tail \in Seq(B) /\ Len(tail) = Len(s) - to /\ \A x \in 1..(Len(s) - to) : tail[x] = s[to + x]
  <2>1. \A x \in (to + 1)..Len(s) : s[x] \in B
    BY <1>1
  <2>2. to + 1 \in Int /\ Len(s) \in Int
    BY <1>1
  <2>3. /\ tail \in Seq(B) /\ Len(tail) = IF to + 1 <= Len(s) THEN Len(s) - (to + 1) + 1 ELSE 0
        /\ \A x \in 1..(Len(s) - (to + 1) + 1) : tail[x] = s[(to + 1) + x - 1]
    BY <2>1, <2>2, SubSeqProperties
  <2>4. \A x \in 1..(Len(s) - to) : x \in 1..(Len(s) - (to + 1) + 1) /\ (to + 1) + x - 1 = to + x
    BY <1>1
  <2> HIDE DEF tail
  <2>5. Len(tail) = Len(s) - to
    <3>1. (to + 1 <= Len(s) => Len(s) - (to + 1) + 1 = Len(s) - to) /\ (~ (to + 1 <= Len(s)) => Len(s) - to = 0)
      BY <1>1
    <3> QED BY <2>3, <3>1, Zenon
  <2>6. \A x \in 1..(Len(s) - to) : tail[x] = s[to + x]
    <3>1. SUFFICES ASSUME NEW x \in 1..(Len(s) - to) PROVE tail[x] = s[to + x]
      OBVIOUS
    <3>2. tail[x] = s[(to + 1) + x - 1]
      BY <2>3, <2>4
    <3> QED BY <2>4, <3>2
  <2> QED BY <2>3, <2>5, <2>6
<1> HIDE DEF head, tail
<1>4. /\ front \in Seq(B) /\ Len(front) = from + Len(r)
      /\ \A x \in 1..(from + Len(r)) : front[x] = IF x <= from THEN head[x] ELSE r[x - from]
  BY <1>2, ConcatProperties
<1> HIDE DEF front
<1>5. /\ u \in Seq(B) /\ Len(u) = from + Len(r) + (Len(s) - to)
      /\ \A x \in 1..(from + Len(r) + (Len(s) - to)) :
           u[x] = IF x <= from + Len(r) THEN front[x] ELSE tail[x - (from + Len(r))]
  <2>1. /\ u \in Seq(B) /\ Len(u) = Len(front) + Len(tail)
        /\ \A x \in 1..(Len(front) + Len(tail)) :
             u[x] = IF x <= Len(front) THEN front[x] ELSE tail[x - Len(front)]
    BY <1>3, <1>4, ConcatProperties
  <2> HIDE DEF u
  <2> QED BY <1>3, <1>4, <2>1
<1> HIDE DEF u
<1>6. ASSUME NEW x \in 1..Len(u)
      PROVE  u[x] = IF x <= from THEN s[x]
                    ELSE IF x <= from + Len(r) THEN r[x - from]
                    ELSE s[x - (from + Len(r)) + to]
  <2>1. x \in 1..(from + Len(r) + (Len(s) - to))
    BY <1>5
  <2>2. CASE x <= from
    <3>1. x \in 1..from /\ x \in 1..(from + Len(r)) /\ x <= from + Len(r)
      BY <1>1, <2>1, <2>2
    <3> QED BY <1>2, <1>4, <1>5, <2>1, <2>2, <3>1
  <2>3. CASE ~ (x <= from) /\ x <= from + Len(r)
    <3>1. x \in 1..(from + Len(r))
      BY <1>1, <2>1, <2>3
    <3> QED BY <1>4, <1>5, <2>1, <2>3, <3>1
  <2>4. CASE ~ (x <= from + Len(r))
    <3>1. x - (from + Len(r)) \in 1..(Len(s) - to) /\ ~ (x <= from)
      BY <1>1, <2>1, <2>4
    <3>2. tail[x - (from + Len(r))] = s[to + (x - (from + Len(r)))]
      BY <1>3, <3>1
    <3>3. to + (x - (from + Len(r))) = x - (from + Len(r)) + to
      BY <1>1, <2>1
    <3> QED BY <1>5, <2>1, <2>4, <3>1, <3>2, <3>3
  <2> QED BY <1>1, <2>1, <2>2, <2>3, <2>4
<1> QED
  BY <1>5, <1>6 DEF Splice, IsSplice, u, front, head, tail

\* What follows the spliced sequence is not touched.
LEMMA SpliceConcat ==
  ASSUME NEW B, NEW u \in Seq(B), NEW v \in Seq(B), NEW r \in Seq(B),
         NEW from \in 0..Len(u), NEW to \in from..Len(u)
  PROVE  Splice(u \o v, from, to, r) = Splice(u, from, to, r) \o v
<1> DEFINE w == u \o v
           a == Splice(w, from, to, r)
           b == Splice(u, from, to, r)
           c == b \o v
<1>1. /\ Len(u) \in Nat /\ Len(v) \in Nat /\ Len(r) \in Nat /\ from \in Nat /\ to \in Nat
      /\ from <= to /\ to <= Len(u)
  OBVIOUS
<1>2. /\ w \in Seq(B) /\ Len(w) = Len(u) + Len(v)
      /\ \A x \in 1..(Len(u) + Len(v)) : w[x] = IF x <= Len(u) THEN u[x] ELSE v[x - Len(u)]
  BY ConcatProperties
<1> HIDE DEF w
<1>3. /\ a \in Seq(B) /\ Len(a) = from + Len(r) + (Len(w) - to)
      /\ \A x \in 1..Len(a) :
           a[x] = IF x <= from THEN w[x] ELSE IF x <= from + Len(r) THEN r[x - from]
                  ELSE w[x - (from + Len(r)) + to]
  <2>1. from \in 0..Len(w) /\ to \in from..Len(w)
    BY <1>1, <1>2
  <2>2. a \in Seq(B) /\ IsSplice(a, w, from, to, r)
    <3> HIDE DEF b, c
    <3> QED BY <1>2, <2>1, SpliceAt
  <2> HIDE DEF a
  <2> QED BY <2>2 DEF IsSplice
<1>4. /\ b \in Seq(B) /\ Len(b) = from + Len(r) + (Len(u) - to)
      /\ \A x \in 1..Len(b) :
           b[x] = IF x <= from THEN u[x] ELSE IF x <= from + Len(r) THEN r[x - from]
                  ELSE u[x - (from + Len(r)) + to]
  <2>1. b \in Seq(B) /\ IsSplice(b, u, from, to, r)
    BY SpliceAt
  <2> HIDE DEF b
  <2> QED BY <2>1 DEF IsSplice
<1> HIDE DEF a, b
<1>5. /\ c \in Seq(B) /\ Len(c) = Len(b) + Len(v)
      /\ \A x \in 1..(Len(b) + Len(v)) : c[x] = IF x <= Len(b) THEN b[x] ELSE v[x - Len(b)]
  BY <1>4, ConcatProperties
<1> HIDE DEF c
<1>6. Len(a) = Len(c) /\ Len(a) \in Nat
  BY <1>1, <1>2, <1>3, <1>4, <1>5
<1>7. ASSUME NEW x \in 1..Len(a) PROVE a[x] = c[x]
  <2>1. x \in 1..(Len(b) + Len(v)) /\ x \in Nat
    BY <1>5, <1>6
  <2>2. CASE x <= from
    <3>1. x <= Len(u) /\ x \in 1..(Len(u) + Len(v)) /\ x \in 1..Len(b) /\ x <= Len(b)
      BY <1>1, <1>4, <2>1, <2>2
    <3> QED BY <1>2, <1>3, <1>4, <1>5, <2>1, <2>2, <3>1
  <2>3. CASE ~ (x <= from) /\ x <= from + Len(r)
    <3>1. x \in 1..Len(b) /\ x <= Len(b)
      BY <1>1, <1>4, <2>1, <2>3
    <3> QED BY <1>3, <1>4, <1>5, <2>1, <2>3, <3>1
  <2>4. CASE ~ (x <= from + Len(r)) /\ x <= Len(b)
    <3> DEFINE y == x - (from + Len(r)) + to
    <3>1. x \in 1..Len(b) /\ ~ (x <= from) /\ y \in 1..(Len(u) + Len(v)) /\ y <= Len(u)
      BY <1>1, <1>4, <2>1, <2>4
    <3> QED BY <1>2, <1>3, <1>4, <1>5, <2>1, <2>4, <3>1
  <2>5. CASE ~ (x <= from + Len(r)) /\ ~ (x <= Len(b))
    <3> DEFINE y == x - (from + Len(r)) + to
    <3>1. ~ (x <= from) /\ y \in 1..(Len(u) + Len(v)) /\ ~ (y <= Len(u)) /\ y - Len(u) = x - Len(b)
      BY <1>1, <1>4, <2>1, <2>5
    <3>2. a[x] = w[y] /\ w[y] = v[y - Len(u)] /\ c[x] = v[x - Len(b)]
      BY <1>2, <1>3, <1>5, <2>1, <2>5, <3>1
    <3> QED BY <3>1, <3>2
  <2> QED BY <1>1, <1>4, <2>1, <2>2, <2>3, <2>4, <2>5
<1>8. a = c
  BY <1>3, <1>5, <1>6, <1>7, SeqEqual
<1> QED
  BY <1>8 DEF a, c, b, w

\* T has r where S has the places from + 1 .. to, all of length one, and is S elsewhere.
Replaces(S, T, from, to, r) ==
  /\ \A p \in 1..to : Len(S[p]) = 1
  /\ T[from + 1] = r
  /\ \A p \in (from + 2)..to : T[p] = <<>>
  /\ \A p \in 1..Len(S) : p <= from \/ to < p => T[p] = S[p]

\* Flattened, such a replacement is a splice.
LEMMA SpliceFlat ==
  ASSUME NEW B, NEW S \in Seq(Seq(B)), NEW T \in Seq(Seq(B)), NEW r \in Seq(B),
         Len(T) = Len(S), NEW from \in 0..Len(S), NEW to \in (from + 1)..Len(S),
         Replaces(S, T, from, to, r)
  PROVE  to <= Len(FlattenSeq(S)) /\ FlattenSeq(T) = Splice(FlattenSeq(S), from, to, r)
<1> DEFINE n == Len(S)
<1>1. n \in Nat /\ from \in Nat /\ to \in Nat /\ from < to /\ to <= n /\ Len(T) = n
  OBVIOUS
<1>2. PICK f \in [0..n -> Seq(B)] : Flattens(f, S) /\ FlattenSeq(S) = f[n]
  BY FlattenSeqFunction
<1>3. PICK g \in [0..Len(T) -> Seq(B)] : Flattens(g, T) /\ FlattenSeq(T) = g[Len(T)]
  BY FlattenSeqFunction
<1>4. g \in [0..n -> Seq(B)] /\ FlattenSeq(T) = g[n]
  BY <1>1, <1>3
<1>5. ASSUME NEW m \in 1..n
      PROVE  /\ f[m] = f[m - 1] \o S[m] /\ f[m - 1] \in Seq(B) /\ S[m] \in Seq(B)
             /\ g[m] = g[m - 1] \o T[m] /\ g[m - 1] \in Seq(B) /\ T[m] \in Seq(B)
             /\ f[m] \in Seq(B) /\ Len(f[m]) = Len(f[m - 1]) + Len(S[m])
             /\ Len(f[m - 1]) \in Nat /\ Len(S[m]) \in Nat /\ m - 1 \in 0..n
  <2>1. f[m] = f[m - 1] \o S[m] /\ f[m - 1] \in Seq(B) /\ S[m] \in Seq(B)
    BY <1>2, FlattensStep
  <2>2. m \in 1..Len(T)
    BY <1>1
  <2>3. g[m] = g[m - 1] \o T[m] /\ g[m - 1] \in Seq(B) /\ T[m] \in Seq(B)
    BY <1>3, <2>2, FlattensStep
  <2>4. f[m] \in Seq(B) /\ Len(f[m]) = Len(f[m - 1]) + Len(S[m])
    BY <2>1, ConcatProperties
  <2>5. m - 1 \in 0..n
    BY <1>1
  <2> QED BY <2>1, <2>3, <2>4, <2>5
<1>6. f[0] = <<>> /\ g[0] = <<>>
  BY <1>2, <1>3 DEF Flattens
<1>7. /\ \A p \in 1..to : Len(S[p]) = 1
      /\ T[from + 1] = r
      /\ \A p \in (from + 2)..to : T[p] = <<>>
      /\ \A p \in 1..n : p <= from \/ to < p => T[p] = S[p]
  BY DEF Replaces
<1>15. \A x, y, z \in Nat : x <= y => x <= y + z
  OBVIOUS
<1> HIDE DEF n
<1> DEFINE Before(m) == m <= to => Len(f[m]) = m
           Same(m) == m <= from => g[m] = f[m]
           Kept(m) == from <= m => from <= Len(f[m]) /\ SubSeq(f[m], 1, from) = f[from]
           Within(m) == from < m /\ m <= to => g[m] = f[from] \o r
           Behind(m) == to <= m => to <= Len(f[m]) /\ g[m] = Splice(f[m], from, to, r)
           G1 == {m \in 0..n : Before(m) /\ Same(m)}
           G2 == {m \in 0..n : Kept(m) /\ Within(m)}
           G3 == {m \in 0..n : Behind(m)}
<1>8. \A m \in 0..n : Before(m) /\ Same(m)
  <2>1. 0 \in G1
    <3>1. Len(f[0]) = 0
      BY <1>6
    <3> QED BY <1>1, <1>6, <3>1
  <2>2. ASSUME NEW m \in 1..n, m - 1 \in G1 PROVE m \in G1
    <3>1. m \in 0..n /\ m \in Nat /\ m - 1 \in Int
      BY <1>1
    <3>2. Before(m)
      <4>1. SUFFICES ASSUME m <= to PROVE Len(f[m]) = m
        OBVIOUS
      <4>2. m - 1 <= to /\ m \in 1..to
        BY <1>1, <4>1
      <4>3. Len(f[m - 1]) = m - 1 /\ Len(S[m]) = 1
        BY <1>7, <2>2, <4>2
      <4>4. Len(f[m]) = Len(f[m - 1]) + Len(S[m])
        BY <1>5
      <4>5. (m - 1) + 1 = m
        BY <3>1
      <4> QED BY <4>3, <4>4, <4>5, Zenon
    <3>3. Same(m)
      <4>1. SUFFICES ASSUME m <= from PROVE g[m] = f[m]
        OBVIOUS
      <4>2. m - 1 <= from
        BY <1>1, <4>1
      <4>3. g[m - 1] = f[m - 1] /\ T[m] = S[m]
        BY <1>7, <2>2, <4>1, <4>2
      <4> QED BY <1>5, <4>3
    <3> QED BY <3>1, <3>2, <3>3
  <2>3. 0..n \subseteq G1
    <3> HIDE DEF G1
    <3> QED BY <1>1, <2>1, <2>2, UpwardInduction
  <2> QED BY <2>3
<1>9. from \in 0..n /\ to \in 0..n /\ n \in 0..n /\ f[from] \in Seq(B) /\ f[to] \in Seq(B)
  BY <1>1, <1>2
<1>10. Len(f[from]) = from /\ g[from] = f[from] /\ Len(f[to]) = to
  <2>1. from <= from /\ from <= to /\ to <= to
    BY <1>1
  <2> QED BY <1>8, <1>9, <2>1
<1>11. Kept(from)
  <2>1. SubSeq(f[from], 1, Len(f[from])) = f[from]
    BY <1>9, SubSeqFull
  <2>2. from <= Len(f[from])
    BY <1>1, <1>10
  <2> QED BY <1>10, <2>1, <2>2
<1> HIDE DEF Before, Same
<1>12. \A m \in 0..n : Kept(m) /\ Within(m)
  <2>1. ~ (from < from)
    BY <1>1
  <2>2. 0 \in G2
    <3>1. from <= 0 => from = 0
      BY <1>1
    <3>2. Kept(0)
      BY <1>11, <3>1
    <3>3. ~ (from < 0)
      BY <1>1
    <3> QED BY <1>1, <3>2, <3>3
  <2>3. ASSUME NEW m \in 1..n, m - 1 \in G2 PROVE m \in G2
    <3>1. m \in 0..n /\ m \in Nat /\ m - 1 \in Int /\ (from <= m => m = from \/ from <= m - 1)
      BY <1>1
    <3>2. Kept(m)
      <4>1. SUFFICES ASSUME from <= m - 1 PROVE Kept(m)
        BY <1>11, <3>1
      <4>2. from <= Len(f[m - 1]) /\ SubSeq(f[m - 1], 1, from) = f[from]
        BY <2>3, <4>1
      <4>3. SubSeq(f[m - 1] \o S[m], 1, from) = SubSeq(f[m - 1], 1, from)
        <5> DEFINE u == f[m - 1]
                   v == S[m]
        <5>1. u \in Seq(B) /\ v \in Seq(B) /\ from <= Len(u) /\ Len(u) \in Nat
          BY <1>5, <4>2
        <5> HIDE DEF u, v
        <5>2. CASE from = 0
          <6>1. 1 \in Int /\ from \in Int /\ from < 1
            BY <5>2
          <6> QED BY <6>1, SubSeqEmpty
        <5>3. CASE from # 0
          <6>1. 1 \in 1..Len(u) /\ from \in 1..Len(u)
            BY <1>1, <5>1, <5>3
          <6> QED BY <5>1, <6>1, SubSeqOfConcat1 DEF u, v
        <5> QED BY <5>2, <5>3
      <4>4. f[m] = f[m - 1] \o S[m] /\ Len(f[m]) = Len(f[m - 1]) + Len(S[m])
              /\ Len(f[m - 1]) \in Nat /\ Len(S[m]) \in Nat
        BY <1>5
      <4>5. from <= Len(f[m])
        BY <1>1, <1>15, <4>2, <4>4, Zenon
      <4> QED BY <4>2, <4>3, <4>4, <4>5
    <3>3. Within(m)
      <4>1. SUFFICES ASSUME from < m, m <= to PROVE g[m] = f[from] \o r
        OBVIOUS
      <4>2. g[m] = g[m - 1] \o T[m]
        BY <1>5
      <4>3. CASE m = from + 1
        <5>1. m - 1 = from
          BY <1>1, <4>3
        <5> QED BY <1>7, <1>10, <4>2, <4>3, <5>1
      <4>4. CASE m # from + 1
        <5>1. from < m - 1 /\ m - 1 <= to /\ m \in (from + 2)..to
          BY <1>1, <4>1, <4>4
        <5>2. g[m - 1] = f[from] \o r /\ T[m] = <<>>
          BY <1>7, <2>3, <5>1
        <5>3. g[m - 1] \o <<>> = g[m - 1]
          BY <1>5, ConcatEmptySeq
        <5> QED BY <4>2, <5>2, <5>3
      <4> QED BY <4>3, <4>4
    <3> QED BY <3>1, <3>2, <3>3
  <2>4. 0..n \subseteq G2
    <3> HIDE DEF G2
    <3> QED BY <1>1, <2>2, <2>3, UpwardInduction
  <2> QED BY <2>4
<1>13. Behind(to)
  <2>1. SubSeq(f[to], 1, from) = f[from] /\ g[to] = f[from] \o r
    <3>1. from <= to /\ to <= to
      BY <1>1
    <3> QED BY <1>1, <1>9, <1>12, <3>1
  <2>2. SubSeq(f[to], to + 1, Len(f[to])) = <<>>
    <3>1. to + 1 \in Int /\ to \in Int /\ to < to + 1
      BY <1>1
    <3> QED BY <1>10, <3>1, SubSeqEmpty
  <2>3. (f[from] \o r) \o <<>> = f[from] \o r
    <3>1. f[from] \o r \in Seq(B)
      BY <1>9, ConcatProperties
    <3> QED BY <3>1, ConcatEmptySeq
  <2>4. to <= to
    BY <1>1
  <2> QED BY <1>10, <2>1, <2>2, <2>3, <2>4 DEF Splice
<1> HIDE DEF Kept, Within
<1>14. \A m \in 0..n : Behind(m)
  <2>1. 0 \in G3
    <3>1. ~ (to <= 0)
      BY <1>1
    <3> QED BY <1>1, <3>1
  <2>2. ASSUME NEW m \in 1..n, m - 1 \in G3 PROVE m \in G3
    <3>1. m \in 0..n /\ (to <= m => m = to \/ to <= m - 1)
      BY <1>1
    <3>2. SUFFICES ASSUME to <= m - 1 PROVE Behind(m)
      BY <1>13, <3>1
    <3>3. to <= Len(f[m - 1]) /\ g[m - 1] = Splice(f[m - 1], from, to, r)
      BY <2>2, <3>2
    <3>4. T[m] = S[m]
      <4>1. to < m
        BY <1>1, <3>2
      <4> QED BY <1>7, <4>1
    <3>5. from \in 0..Len(f[m - 1]) /\ to \in from..Len(f[m - 1])
      BY <1>1, <1>5, <3>3
    <3>6. Splice(f[m - 1] \o S[m], from, to, r) = Splice(f[m - 1], from, to, r) \o S[m]
      <4>1. f[m - 1] \in Seq(B) /\ S[m] \in Seq(B)
        BY <1>5
      <4> QED BY <3>5, <4>1, SpliceConcat, Zenon
    <3>7. to <= Len(f[m])
      <4>1. Len(f[m]) = Len(f[m - 1]) + Len(S[m]) /\ Len(f[m - 1]) \in Nat /\ Len(S[m]) \in Nat
        BY <1>5
      <4> QED BY <1>1, <1>15, <3>3, <4>1, Zenon
    <3>8. g[m] = Splice(f[m], from, to, r)
      BY <1>5, <3>3, <3>4, <3>6
    <3> QED BY <3>7, <3>8
  <2>3. 0..n \subseteq G3
    <3> HIDE DEF G3
    <3> QED BY <1>1, <2>1, <2>2, UpwardInduction
  <2> QED BY <2>3
<1> QED
  BY <1>1, <1>2, <1>4, <1>9, <1>14

=============================================================================
