--------------------------- MODULE OrderingProofs ---------------------------
(* Facts about order and repetition that the proofs of several components   *)
(* cite: sets of naturals have extremes, what holds of 0 and is handed on   *)
(* holds of every natural, a loop over a sequence has a result, and a set   *)
(* put in order is sorted.                                                 *)
EXTENDS Ordering, SequencesExt, FiniteSetsExt, FiniteSetTheorems,
        SequenceTheorems, WellFoundedInduction, TLAPS

\* the smallest of some naturals
LEMMA SmallestExists ==
    ASSUME NEW S \in SUBSET Nat, S # {}
    PROVE  \E m \in S : \A x \in S : m <= x
<1>1. \E m \in S : \A x \in S : ~ (<<x, m>> \in OpToRel(<, Nat))
  BY NatLessThanWellFounded, WFMin
<1>2. PICK m \in S : \A x \in S : ~ (<<x, m>> \in OpToRel(<, Nat))
  BY <1>1
<1>3. ASSUME NEW x \in S PROVE m <= x
  <2>1. ~ (x < m)
    BY <1>2 DEF OpToRel
  <2>. QED  BY <2>1
<1>. QED  BY <1>3

\* the largest of some naturals below a bound
LEMMA LargestExists ==
    ASSUME NEW S \in SUBSET Nat, S # {}, NEW n \in Nat, \A x \in S : x <= n
    PROVE  \E m \in S : \A x \in S : m >= x
<1>. DEFINE D == {n - x : x \in S}
<1>1. D \in SUBSET Nat /\ D # {}
  <2>1. \A x \in S : n - x \in Nat
    OBVIOUS
  <2>2. D # {}
    <3>1. PICK x \in S : TRUE
      OBVIOUS
    <3>. QED  BY <3>1
  <2>. QED  BY <2>1, <2>2
<1>2. PICK d \in D : \A e \in D : d <= e
  BY <1>1, SmallestExists
<1>3. PICK m \in S : d = n - m
  BY <1>2
<1>4. ASSUME NEW x \in S PROVE m >= x
  <2>1. n - x \in D
    OBVIOUS
  <2>2. n - m <= n - x
    BY <1>2, <1>3, <2>1
  <2>. QED  BY <2>2
<1>. QED  BY <1>4

LEMMA ExtremesExist ==
    ASSUME NEW S \in SUBSET Nat, S # {}, NEW n \in Nat, \A x \in S : x <= n
    PROVE  /\ Min(S) \in S /\ \A x \in S : Min(S) <= x
           /\ Max(S) \in S /\ \A x \in S : x <= Max(S)
<1>1. \E m \in S : \A x \in S : m <= x
  BY SmallestExists
<1>2. \E m \in S : \A x \in S : m >= x
  BY LargestExists
<1>3. Min(S) \in S /\ \A x \in S : Min(S) <= x
  BY <1>1 DEF Min
<1>4. Max(S) \in S /\ \A x \in S : Max(S) >= x
  BY <1>2 DEF Max
<1>. QED  BY <1>3, <1>4

\* induction over a set, for it needs no operator
LEMMA EveryNumberIsReached ==
    ASSUME NEW S, 0 \in S, \A n \in Nat : n \in S => n + 1 \in S
    PROVE  \A n \in Nat : n \in S
<1>. DEFINE T == {n \in Nat : n \notin S}
<1>1. SUFFICES ASSUME T # {} PROVE FALSE
  OBVIOUS
<1>2. PICK m \in T : \A x \in T : m <= x
  BY <1>1, SmallestExists
<1>3. m # 0 /\ m - 1 \in Nat
  BY <1>2
<1>4. m - 1 \in S
  BY <1>2, <1>3
<1>. QED  BY <1>2, <1>3, <1>4

\* f[k] is what a loop has made of base after its k-th iteration
IsLoop(f, S, base, n, step) ==
    /\ f \in [0 .. n -> S] /\ f[0] = base
    /\ \A k \in 1 .. n : f[k] = step[k][f[k - 1]]

LEMMA LoopsHaveValues ==
    ASSUME NEW S, NEW base \in S, NEW n \in Nat, NEW step \in [1 .. n -> [S -> S]]
    PROVE  \E f : IsLoop(f, S, base, n, step)
<1>. DEFINE Runs(m, f) == f[0] = base /\ \A k \in 1 .. m : f[k] = step[k][f[k - 1]]
            R == {m \in Nat : m <= n => \E f \in [0 .. m -> S] : Runs(m, f)}
<1>1. 0 \in R
  <2>1. [k \in 0 .. 0 |-> base] \in [0 .. 0 -> S] /\ Runs(0, [k \in 0 .. 0 |-> base])
    OBVIOUS
  <2>. QED  BY <2>1
<1>2. ASSUME NEW m \in Nat, m \in R PROVE m + 1 \in R
  <2>1. SUFFICES ASSUME m + 1 <= n PROVE \E f \in [0 .. m + 1 -> S] : Runs(m + 1, f)
    OBVIOUS
  <2>2. PICK f \in [0 .. m -> S] : Runs(m, f)
    BY <1>2, <2>1
  <2>. DEFINE g == [k \in 0 .. m + 1 |-> IF k <= m THEN f[k] ELSE step[m + 1][f[m]]]
  <2>3. step[m + 1][f[m]] \in S
    BY <2>1, <2>2
  <2>4. g \in [0 .. m + 1 -> S]
    BY <2>2, <2>3
  <2>5. ASSUME NEW k \in 1 .. m + 1 PROVE g[k] = step[k][g[k - 1]]
    <3>1. CASE k <= m
      <4>1. g[k] = f[k] /\ g[k - 1] = f[k - 1] /\ k \in 1 .. m
        BY <3>1
      <4>. QED  BY <2>2, <4>1
    <3>2. CASE k = m + 1
      <4>1. g[k] = step[m + 1][f[m]] /\ g[k - 1] = f[m]
        BY <3>2
      <4>. QED  BY <3>2, <4>1
    <3>. QED  BY <3>1, <3>2
  <2>6. g[0] = base
    BY <2>2
  <2>. QED  BY <2>4, <2>5, <2>6
<1>. HIDE DEF R
<1>3. \A m \in Nat : m \in R
  BY <1>1, <1>2, EveryNumberIsReached
<1>. QED  BY <1>3 DEF R, IsLoop
-----------------------------------------------------------------------------
\* A set put in order has each member once, in the order it was given.
LEMMA InOrderIsSorted ==
    ASSUME NEW S, IsFiniteSet(S), NEW ahead \in [S -> SUBSET S],
           \A c \in S : c \notin ahead[c],
           \A c, d \in S : c # d => c \in ahead[d] \/ d \in ahead[c],
           \A c, d, e \in S : c \in ahead[d] /\ d \in ahead[e] => c \in ahead[e]
    PROVE  /\ Cardinality(S) \in Nat
           /\ InOrder(S, ahead) \in [1 .. Cardinality(S) -> S]
           /\ \A c \in S : \E p \in 1 .. Cardinality(S) : InOrder(S, ahead)[p] = c
           /\ \A p, q \in 1 .. Cardinality(S) :
                p < q => InOrder(S, ahead)[p] \in ahead[InOrder(S, ahead)[q]]
<1>. DEFINE n == Cardinality(S)
            place == [c \in S |-> 1 + Cardinality(ahead[c])]
<1>1. n \in Nat
  BY FS_CardinalityType
<1>2. ASSUME NEW c \in S
      PROVE  /\ IsFiniteSet(ahead[c]) /\ Cardinality(ahead[c]) \in Nat
             /\ Cardinality(ahead[c]) < n
  <2>1. IsFiniteSet(ahead[c]) /\ Cardinality(ahead[c]) \in Nat
    BY FS_Subset, FS_CardinalityType
  <2>2. IsFiniteSet(S \ {c}) /\ Cardinality(S \ {c}) = n - 1
    BY FS_RemoveElement
  <2>3. ahead[c] \in SUBSET (S \ {c})
    OBVIOUS
  <2>. QED  BY <1>1, <2>1, <2>2, <2>3, FS_Subset
<1>3. ASSUME NEW c \in S, NEW d \in S, c \in ahead[d]
      PROVE  Cardinality(ahead[c]) < Cardinality(ahead[d])
  <2>1. ahead[c] \in SUBSET ahead[d]
    BY <1>3
  <2>2. ahead[c] # ahead[d]
    BY <1>3
  <2>. QED  BY <1>2, <2>1, <2>2, FS_Subset
<1>4. place \in Injection(S, 1 .. n)
  <2>1. place \in [S -> 1 .. n]
    BY <1>1, <1>2
  <2>2. ASSUME NEW c \in S, NEW d \in S, place[c] = place[d] PROVE c = d
    BY <1>2, <1>3, <2>2
  <2>. QED  BY <2>1, <2>2 DEF Injection, IsInjective
<1>5. place \in Surjection(S, 1 .. n)
  <2>1. IsFiniteSet(1 .. n) /\ Cardinality(1 .. n) = n
    BY <1>1, FS_Interval
  <2>. QED  BY <1>4, <2>1, FS_Injection
<1>6. ASSUME NEW p \in 1 .. n
      PROVE  /\ InOrder(S, ahead)[p] \in S
             /\ Cardinality(ahead[InOrder(S, ahead)[p]]) = p - 1
  <2>1. \E c \in S : place[c] = p
    BY <1>5 DEF Surjection
  <2>2. \E c \in S : Cardinality(ahead[c]) = p - 1
    BY <1>1, <1>2, <2>1
  <2>3. InOrder(S, ahead)[p] = CHOOSE c \in S : Cardinality(ahead[c]) = p - 1
    BY DEF InOrder
  <2>. QED  BY <2>2, <2>3
<1>7. InOrder(S, ahead) \in [1 .. n -> S]
  BY <1>6 DEF InOrder
<1>8. ASSUME NEW c \in S PROVE \E p \in 1 .. n : InOrder(S, ahead)[p] = c
  <2>1. place[c] \in 1 .. n /\ place[c] - 1 = Cardinality(ahead[c])
    BY <1>1, <1>2
  <2>2. PICK d \in S : d = InOrder(S, ahead)[place[c]] /\ Cardinality(ahead[d]) = Cardinality(ahead[c])
    BY <1>6, <2>1
  <2>3. d = c
    BY <1>2, <1>3, <2>2
  <2>. QED  BY <2>1, <2>2, <2>3
<1>9. ASSUME NEW p \in 1 .. n, NEW q \in 1 .. n, p < q
      PROVE  InOrder(S, ahead)[p] \in ahead[InOrder(S, ahead)[q]]
  <2>. DEFINE c == InOrder(S, ahead)[p]
              d == InOrder(S, ahead)[q]
  <2>1. c \in S /\ d \in S /\ Cardinality(ahead[c]) < Cardinality(ahead[d])
    BY <1>1, <1>6, <1>9
  <2>. HIDE DEF c, d
  <2>2. d \notin ahead[c] /\ c # d
    BY <1>2, <1>3, <2>1
  <2>. QED  BY <2>1, <2>2 DEF c, d
<1>. QED  BY <1>1, <1>7, <1>8, <1>9

\* Positions put in order are a growing sequence of all of them.
LEMMA AscendingIsSorted ==
    ASSUME NEW n \in Nat, NEW S \in SUBSET (0 .. n)
    PROVE  /\ Cardinality(S) \in Nat
           /\ Ascending(S) \in [1 .. Cardinality(S) -> S]
           /\ \A c \in S : \E p \in 1 .. Cardinality(S) : Ascending(S)[p] = c
           /\ \A p, q \in 1 .. Cardinality(S) : p < q <=> Ascending(S)[p] < Ascending(S)[q]
<1>. DEFINE ahead == [i \in S |-> {j \in S : j < i}]
<1>1. IsFiniteSet(S)
  <2>1. IsFiniteSet(0 .. n)
    BY FS_Interval
  <2>. QED  BY <2>1, FS_Subset
<1>2. /\ ahead \in [S -> SUBSET S]
      /\ \A c \in S : c \notin ahead[c]
      /\ \A c, d \in S : c # d => c \in ahead[d] \/ d \in ahead[c]
      /\ \A c, d, e \in S : c \in ahead[d] /\ d \in ahead[e] => c \in ahead[e]
  OBVIOUS
<1>3. \A i, j \in S : j \in ahead[i] => j < i
  OBVIOUS
<1>4. Ascending(S) = InOrder(S, ahead)
  BY DEF Ascending
<1>. HIDE DEF ahead
<1>5. /\ Cardinality(S) \in Nat
      /\ Ascending(S) \in [1 .. Cardinality(S) -> S]
      /\ \A c \in S : \E p \in 1 .. Cardinality(S) : Ascending(S)[p] = c
      /\ \A p, q \in 1 .. Cardinality(S) :
           p < q => Ascending(S)[p] \in ahead[Ascending(S)[q]]
  <2>. DEFINE sorted == InOrder(S, ahead)
  <2>1. /\ Cardinality(S) \in Nat
        /\ sorted \in [1 .. Cardinality(S) -> S]
        /\ \A c \in S : \E p \in 1 .. Cardinality(S) : sorted[p] = c
        /\ \A p, q \in 1 .. Cardinality(S) : p < q => sorted[p] \in ahead[sorted[q]]
    BY <1>1, <1>2, InOrderIsSorted
  <2>. HIDE DEF sorted
  <2>. QED  BY <1>4, <2>1 DEF sorted
<1>6. ASSUME NEW p \in 1 .. Cardinality(S), NEW q \in 1 .. Cardinality(S), p < q
      PROVE  Ascending(S)[p] < Ascending(S)[q]
  BY <1>3, <1>5, <1>6
<1>7. ASSUME NEW p \in 1 .. Cardinality(S), NEW q \in 1 .. Cardinality(S),
             Ascending(S)[p] < Ascending(S)[q]
      PROVE  p < q
  <2>1. Ascending(S)[p] \in S /\ Ascending(S)[q] \in S
    BY <1>5
  <2>2. q < p => Ascending(S)[q] < Ascending(S)[p]
    BY <1>6
  <2>. DEFINE a == Ascending(S)[p]
              b == Ascending(S)[q]
  <2>0. \A c \in S : c \in Nat
    OBVIOUS
  <2>3. a \in Nat /\ b \in Nat /\ a < b /\ (p = q => a = b) /\ (q < p => b < a)
    BY <1>7, <2>0, <2>1, <2>2
  <2>. HIDE DEF a, b
  <2>. QED  BY <1>5, <2>3
<1>. QED  BY <1>5, <1>6, <1>7
---------------------------------------------------------------------------
\* one sequence after the other
IsConcat(st, s, t) ==
    /\ Len(st) = Len(s) + Len(t)
    /\ \A i \in 1 .. Len(s) : st[i] = s[i]
    /\ \A i \in 1 .. Len(t) : st[Len(s) + i] = t[i]

LEMMA ConcatHasBoth ==
    ASSUME NEW T, NEW s \in Seq(T), NEW t \in Seq(T)
    PROVE  /\ s \o t \in Seq(T) /\ Len(s) \in Nat /\ Len(t) \in Nat
           /\ IsConcat(s \o t, s, t)
<1>2. /\ s \o t \in Seq(T) /\ Len(s \o t) = Len(s) + Len(t)
      /\ \A i \in 1 .. Len(s) + Len(t) : (s \o t)[i] = IF i <= Len(s) THEN s[i] ELSE t[i - Len(s)]
  BY ConcatProperties
<1>3. Len(s) \in Nat /\ Len(t) \in Nat
  BY LenProperties
<1>. DEFINE l == Len(s)
            m == Len(t)
            st == s \o t
<1>4. \A i \in 1 .. l + m : st[i] = IF i <= l THEN s[i] ELSE t[i - l]
  BY <1>2
<1>5. l \in Nat /\ m \in Nat
  BY <1>3
<1>. HIDE DEF l, m, st
<1>6. ASSUME NEW i \in 1 .. l PROVE st[i] = s[i]
  BY <1>4, <1>5
<1>7. ASSUME NEW i \in 1 .. m PROVE st[l + i] = t[i]
  <2>1. l + i \in 1 .. l + m /\ ~ (l + i <= l) /\ (l + i) - l = i
    BY <1>5
  <2>. QED  BY <1>4, <2>1
<1>. QED  BY <1>2, <1>3, <1>6, <1>7 DEF l, m, st, IsConcat

\* a loop that appends one sequence after the other
Appends(f, T, n, seqs) ==
    /\ f \in [0 .. n -> Seq(T)] /\ f[0] = <<>>
    /\ \A k \in 1 .. n : f[k] = f[k - 1] \o seqs[k]

LEMMA AppendsHaveValues ==
    ASSUME NEW T, NEW n \in Nat, NEW seqs, \A k \in 1 .. n : seqs[k] \in Seq(T)
    PROVE  \E f : Appends(f, T, n, seqs)
<1>. DEFINE S    == Seq(T)
            none == <<>>
            step == [k \in 1 .. n |-> [x \in S |-> x \o seqs[k]]]
<1>1. none \in S /\ step \in [1 .. n -> [S -> S]]
  <2>1. ASSUME NEW k \in 1 .. n, NEW x \in S PROVE x \o seqs[k] \in S
    OBVIOUS
  <2>. QED  BY <2>1
<1>2. ASSUME NEW k \in 1 .. n, NEW x \in S PROVE step[k][x] = x \o seqs[k]
  OBVIOUS
<1>. HIDE DEF step, S, none
<1>3. PICK f \in [0 .. n -> S] : f[0] = none /\ \A k \in 1 .. n : f[k] = step[k][f[k - 1]]
  BY <1>1, LoopsHaveValues DEF IsLoop
<1>4. ASSUME NEW k \in 1 .. n PROVE f[k] = f[k - 1] \o seqs[k]
  <2>1. f[k - 1] \in S
    OBVIOUS
  <2>. QED  BY <1>2, <1>3, <2>1
<1>5. Appends(f, T, n, seqs)
  BY <1>3, <1>4 DEF S, none, Appends
<1>. QED  BY <1>5

\* FlattenSeq is a loop that appends one sequence after the other.
LEMMA FlattenIsALoop ==
    ASSUME NEW T, NEW n \in Nat, NEW seqs, \A k \in 1 .. n : seqs[k] \in Seq(T),
           Len(seqs) = n, n = 0 => seqs = <<>>
    PROVE  \E f : Appends(f, T, n, seqs) /\ FlattenSeq(seqs) = f[n]
<1>. DEFINE flatten == CHOOSE f : f = [i \in 1 .. n |-> IF i = 1 THEN seqs[i] ELSE f[i - 1] \o seqs[i]]
<1>1. CASE n = 0
  <2>. DEFINE g == [k \in 0 .. n |-> <<>>]
  <2>1. FlattenSeq(seqs) = <<>>
    BY <1>1 DEF FlattenSeq
  <2>2. Appends(g, T, n, seqs)
    BY <1>1 DEF Appends
  <2>3. g[n] = <<>>
    OBVIOUS
  <2>. HIDE DEF g
  <2>. QED  BY <2>1, <2>2, <2>3
<1>2. CASE n # 0
  <2>1. n >= 1
    BY <1>2
  <2>3. PICK f : Appends(f, T, n, seqs)
    BY AppendsHaveValues
  <2>4. /\ f \in [0 .. n -> Seq(T)] /\ f[0] = <<>>
        /\ \A k \in 1 .. n : f[k] = f[k - 1] \o seqs[k]
    BY <2>3 DEF Appends
  <2>5. f[1] = seqs[1]
    <3>1. 1 \in 1 .. n /\ seqs[1] \in Seq(T)
      BY <2>1
    <3>2. f[1] = f[1 - 1] \o seqs[1]
      BY <2>4, <3>1
    <3>3. f[1 - 1] = <<>> /\ <<>> \o seqs[1] = seqs[1]
      BY <2>4, <3>1
    <3>. QED  BY <3>2, <3>3
  <2>6. \E g : g = [i \in 1 .. n |-> IF i = 1 THEN seqs[i] ELSE g[i - 1] \o seqs[i]]
    <3>. DEFINE g == [i \in 1 .. n |-> f[i]]
    <3>1. ASSUME NEW i \in 1 .. n
          PROVE  f[i] = IF i = 1 THEN seqs[i] ELSE g[i - 1] \o seqs[i]
      <4>1. CASE i = 1
        BY <2>5, <4>1
      <4>2. CASE i # 1
        <5>1. i - 1 \in 1 .. n
          BY <4>2
        <5>2. g[i - 1] = f[i - 1]
          BY <5>1
        <5>3. f[i] = f[i - 1] \o seqs[i]
          BY <2>4
        <5>. HIDE DEF g
        <5>. QED  BY <4>2, <5>2, <5>3
      <4>. QED  BY <4>1, <4>2
    <3>2. g = [i \in 1 .. n |-> IF i = 1 THEN seqs[i] ELSE g[i - 1] \o seqs[i]]
      BY <3>1
    <3>. QED  BY <3>2
  <2>7. flatten = [i \in 1 .. n |-> IF i = 1 THEN seqs[i] ELSE flatten[i - 1] \o seqs[i]]
    BY <2>6
  <2>8. FlattenSeq(seqs) = flatten[n]
    BY <1>2 DEF FlattenSeq
  <2>. HIDE DEF flatten
  <2>9. \A k \in Nat : k \in {m \in Nat : m \in 1 .. n => flatten[m] = f[m]}
    <3>. DEFINE R == {m \in Nat : m \in 1 .. n => flatten[m] = f[m]}
    <3>1. 0 \in R
      OBVIOUS
    <3>2. ASSUME NEW m \in Nat, m \in R PROVE m + 1 \in R
      <4>1. SUFFICES ASSUME m + 1 \in 1 .. n PROVE flatten[m + 1] = f[m + 1]
        OBVIOUS
      <4>2. CASE m = 0
        BY <2>1, <2>5, <2>7, <4>2
      <4>3. CASE m # 0
        <5>1. m \in 1 .. n /\ flatten[m] = f[m]
          BY <3>2, <4>1, <4>3
        <5>2. m + 1 # 1 /\ (m + 1) - 1 = m
          BY <4>3
        <5>3. flatten[m + 1] = flatten[(m + 1) - 1] \o seqs[m + 1]
          BY <2>7, <4>1, <5>2
        <5>4. f[m + 1] = f[(m + 1) - 1] \o seqs[m + 1]
          BY <2>4, <4>1
        <5>. QED  BY <5>1, <5>2, <5>3, <5>4
      <4>. QED  BY <4>2, <4>3
    <3>. HIDE DEF R
    <3>3. \A k \in Nat : k \in R
      BY <3>1, <3>2, EveryNumberIsReached
    <3>. QED  BY <3>3 DEF R
  <2>10. flatten[n] = f[n]
    BY <2>1, <2>9
  <2>. QED  BY <2>3, <2>4, <2>8, <2>10
<1>. QED  BY <1>1, <1>2

LEMMA FlattenIsTyped ==
    ASSUME NEW T, NEW n \in Nat, NEW seqs, \A k \in 1 .. n : seqs[k] \in Seq(T),
           Len(seqs) = n, n = 0 => seqs = <<>>
    PROVE  FlattenSeq(seqs) \in Seq(T)
<1>1. PICK f : Appends(f, T, n, seqs) /\ FlattenSeq(seqs) = f[n]
  BY FlattenIsALoop
<1>2. f \in [0 .. n -> Seq(T)] /\ n \in 0 .. n
  BY <1>1 DEF Appends
<1>. QED  BY <1>1, <1>2

\* where each of the sequences ends in all of them
AreOffsets(off, n, seqs) ==
    /\ off \in [0 .. n -> Nat] /\ off[0] = 0
    /\ \A k \in 1 .. n : Len(seqs[k]) \in Nat /\ off[k] = off[k - 1] + Len(seqs[k])

LEMMA OffsetsExist ==
    ASSUME NEW n \in Nat, NEW seqs, \A k \in 1 .. n : Len(seqs[k]) \in Nat
    PROVE  \E off : AreOffsets(off, n, seqs)
<1>. DEFINE step == [k \in 1 .. n |-> [x \in Nat |-> x + Len(seqs[k])]]
<1>2. step \in [1 .. n -> [Nat -> Nat]]
  OBVIOUS
<1>3. \A k \in 1 .. n : \A x \in Nat : step[k][x] = x + Len(seqs[k])
  OBVIOUS
<1>. HIDE DEF step
<1>4. PICK f : IsLoop(f, Nat, 0, n, step)
  BY <1>2, LoopsHaveValues
<1>5. f \in [0 .. n -> Nat] /\ f[0] = 0 /\ \A k \in 1 .. n : f[k] = step[k][f[k - 1]]
  BY <1>4 DEF IsLoop
<1>6. ASSUME NEW k \in 1 .. n PROVE f[k] = f[k - 1] + Len(seqs[k])
  <2>1. f[k - 1] \in Nat
    BY <1>5
  <2>. QED  BY <1>3, <1>5, <2>1
<1>. QED  BY <1>5, <1>6 DEF AreOffsets

\* Flat has the sequences at their offsets and nothing else.
IsSpread(flat, off, n, seqs) ==
    /\ Len(flat) = off[n]
    /\ \A k \in 1 .. n : /\ off[k] <= off[n]
                         /\ \A i \in 1 .. Len(seqs[k]) : flat[off[k - 1] + i] = seqs[k][i]
    /\ \A p \in 1 .. off[n] : \E k \in 1 .. n : off[k - 1] < p /\ p <= off[k]

LEMMA SpreadsGrow ==
    ASSUME NEW T, NEW n \in Nat, NEW seqs, NEW off, AreOffsets(off, n, seqs),
           NEW m \in 0 .. n - 1, NEW flat \in Seq(T), IsSpread(flat, off, m, seqs),
           seqs[m + 1] \in Seq(T)
    PROVE  IsSpread(flat \o seqs[m + 1], off, m + 1, seqs)
<1>. DEFINE next == seqs[m + 1]
            more == flat \o next
            l    == Len(next)
            e    == off[m]
<1>1. /\ more \in Seq(T) /\ l \in Nat /\ Len(flat) \in Nat
      /\ IsConcat(more, flat, next)
  BY ConcatHasBoth
<1>2. /\ Len(more) = Len(flat) + l
      /\ \A i \in 1 .. Len(flat) : more[i] = flat[i]
      /\ \A i \in 1 .. l : more[Len(flat) + i] = next[i]
  BY <1>1 DEF IsConcat
<1>3. /\ Len(flat) = e
      /\ \A k \in 1 .. m : /\ off[k] <= e
                           /\ \A i \in 1 .. Len(seqs[k]) : flat[off[k - 1] + i] = seqs[k][i]
      /\ \A p \in 1 .. e : \E k \in 1 .. m : off[k - 1] < p /\ p <= off[k]
  BY DEF IsSpread
<1>4. m \in Nat /\ m + 1 \in 1 .. n /\ m \in 0 .. n /\ (m + 1) - 1 = m
  OBVIOUS
<1>5. e \in Nat /\ off[m + 1] = e + l
  BY <1>4 DEF AreOffsets
<1>6. ASSUME NEW k \in 1 .. m
      PROVE  off[k] \in Nat /\ off[k - 1] \in Nat /\ off[k] = off[k - 1] + Len(seqs[k])
  BY <1>4, SMTT(20) DEF AreOffsets
<1>. HIDE DEF next, more, l, e
<1>7. ASSUME NEW k \in 1 .. m + 1
      PROVE  /\ off[k] <= e + l
             /\ \A i \in 1 .. Len(seqs[k]) : more[off[k - 1] + i] = seqs[k][i]
  <2>1. CASE k = m + 1
    <3>1. off[k] = e + l /\ off[k - 1] = e /\ seqs[k] = next /\ Len(seqs[k]) = l
      BY <1>4, <1>5, <2>1 DEF next, e, l
    <3>. QED  BY <1>1, <1>2, <1>3, <1>5, <3>1
  <2>2. CASE k # m + 1
    <3>1. k \in 1 .. m
      BY <1>4, <2>2
    <3>2. off[k] <= e /\ \A i \in 1 .. Len(seqs[k]) : flat[off[k - 1] + i] = seqs[k][i]
      BY <1>3, <3>1
    <3>3. off[k] \in Nat /\ off[k - 1] \in Nat /\ off[k] = off[k - 1] + Len(seqs[k])
      BY <1>6, <3>1
    <3>4. Len(seqs[k]) \in Nat
      BY <1>4, <3>1 DEF AreOffsets
    <3>5. \A i \in 1 .. Len(seqs[k]) : off[k - 1] + i \in 1 .. Len(flat)
      <4>1. \A a, b, c, d \in Nat : a = b + c /\ a <= d => \A i \in 1 .. c : b + i \in 1 .. d
        OBVIOUS
      <4>2. Len(flat) = e /\ off[k] <= e
        BY <1>3, <3>2, Zenon
      <4>. QED  BY <1>5, <3>3, <3>4, <4>1, <4>2, Zenon
    <3>6. ASSUME NEW i \in 1 .. Len(seqs[k]) PROVE more[off[k - 1] + i] = seqs[k][i]
      BY <1>2, <3>2, <3>5
    <3>7. off[k] <= e + l
      BY <1>1, <1>5, <3>2, <3>3
    <3>. QED  BY <3>6, <3>7
  <2>. QED  BY <2>1, <2>2
<1>8. ASSUME NEW p \in 1 .. e + l
      PROVE  \E k \in 1 .. m + 1 : off[k - 1] < p /\ p <= off[k]
  <2>1. CASE p <= e
    <3>0. p \in 1 .. e
      BY <1>1, <1>5, <2>1
    <3>1. PICK k \in 1 .. m : off[k - 1] < p /\ p <= off[k]
      BY <1>3, <3>0
    <3>2. k \in 1 .. m + 1
      BY <1>4
    <3>. QED  BY <3>1, <3>2
  <2>2. CASE p > e
    <3>1. m + 1 \in 1 .. m + 1 /\ off[(m + 1) - 1] < p /\ p <= off[m + 1]
      BY <1>1, <1>4, <1>5, <2>2 DEF e
    <3>. QED  BY <3>1
  <2>. QED  BY <1>1, <1>5, <2>1, <2>2
<1>9. Len(more) = off[m + 1] /\ off[m + 1] = e + l
  BY <1>2, <1>3, <1>5
<1>10. IsSpread(more, off, m + 1, seqs)
  BY <1>7, <1>8, <1>9 DEF IsSpread
<1>. QED  BY <1>10 DEF more, next

LEMMA FlattenIsSpread ==
    ASSUME NEW T, NEW n \in Nat, NEW seqs, \A k \in 1 .. n : seqs[k] \in Seq(T),
           Len(seqs) = n, n = 0 => seqs = <<>>, NEW off, AreOffsets(off, n, seqs)
    PROVE  FlattenSeq(seqs) \in Seq(T) /\ IsSpread(FlattenSeq(seqs), off, n, seqs)
<1>1. PICK f : Appends(f, T, n, seqs) /\ FlattenSeq(seqs) = f[n]
  BY FlattenIsALoop
<1>2. /\ f \in [0 .. n -> Seq(T)] /\ f[0] = <<>>
      /\ \A k \in 1 .. n : f[k] = f[k - 1] \o seqs[k]
  BY <1>1 DEF Appends
<1>. DEFINE R == {k \in Nat : k <= n => IsSpread(f[k], off, k, seqs)}
<1>3. 0 \in R
  <2>1. off[0] = 0 /\ f[0] = <<>> /\ Len(<<>>) = 0
    BY <1>2 DEF AreOffsets
  <2>2. IsSpread(f[0], off, 0, seqs)
    BY <2>1 DEF IsSpread
  <2>. QED  BY <2>2
<1>4. ASSUME NEW k \in Nat, k \in R PROVE k + 1 \in R
  <2>. SUFFICES ASSUME k + 1 <= n PROVE IsSpread(f[k + 1], off, k + 1, seqs)
    OBVIOUS
  <2>1. k \in 0 .. n - 1 /\ k + 1 \in 1 .. n /\ (k + 1) - 1 = k /\ k \in 0 .. n
    OBVIOUS
  <2>2. IsSpread(f[k], off, k, seqs)
    BY <1>4, <2>1
  <2>3. f[k] \in Seq(T) /\ seqs[k + 1] \in Seq(T) /\ f[k + 1] = f[k] \o seqs[k + 1]
    BY <1>2, <2>1
  <2>4. IsSpread(f[k] \o seqs[k + 1], off, k + 1, seqs)
    BY <2>1, <2>2, <2>3, SpreadsGrow
  <2>. QED  BY <2>3, <2>4
<1>. HIDE DEF R
<1>5. n \in R
  BY <1>3, <1>4, EveryNumberIsReached
<1>. QED  BY <1>1, <1>2, <1>5 DEF R

LEMMA FlattenOfOne ==
    ASSUME NEW T, NEW s \in Seq(T)
    PROVE  FlattenSeq(<<s>>) = s
<1>. DEFINE one == <<s>>
            n   == 1
<1>0. Len(one) = n /\ one[1] = s /\ n \in Nat /\ n # 0 /\ \A k \in 1 .. n : one[k] \in Seq(T)
  OBVIOUS
<1>. HIDE DEF one, n
<1>1. PICK f : Appends(f, T, n, one) /\ FlattenSeq(one) = f[n]
  BY <1>0, FlattenIsALoop
<1>2. Appends(f, T, 1, one) /\ FlattenSeq(one) = f[1]
  BY <1>1 DEF n
<1>3. f[0] = <<>> /\ f[1] = f[0] \o one[1]
  <2>1. 1 \in 1 .. 1 /\ 1 - 1 = 0
    OBVIOUS
  <2>2. f[0] = <<>> /\ f[1] = f[1 - 1] \o one[1]
    BY <1>2, <2>1 DEF Appends
  <2>. QED  BY <2>1, <2>2
<1>4. <<>> \o s = s
  BY ConcatEmptySeq
<1>. QED  BY <1>0, <1>2, <1>3, <1>4 DEF one

\* A growing sequence of all of a set is the set in order.
LEMMA AscendingIsUnique ==
    ASSUME NEW n \in Nat, NEW S \in SUBSET (0 .. n), NEW m \in Nat, NEW f \in [1 .. m -> S],
           \A c \in S : \E p \in 1 .. m : f[p] = c,
           \A p, q \in 1 .. m : p < q => f[p] < f[q]
    PROVE  Ascending(S) = f
<1>. DEFINE g == Ascending(S)
            l == Cardinality(S)
<1>1. /\ l \in Nat /\ g \in [1 .. l -> S]
      /\ \A c \in S : \E p \in 1 .. l : g[p] = c
      /\ \A p, q \in 1 .. l : p < q <=> g[p] < g[q]
  BY AscendingIsSorted
<1>2. \A c \in S : c \in Nat
  OBVIOUS
<1>3. m = l
  <2>1. ASSUME NEW p \in 1 .. m, NEW q \in 1 .. m, f[p] = f[q] PROVE p = q
    <3>1. f[p] \in Nat /\ f[q] \in Nat
      BY <1>2
    <3>. QED  BY <2>1, <3>1
  <2>2. f \in Bijection(1 .. m, S)
    BY <2>1 DEF Bijection, Injection, IsInjective, Surjection
  <2>3. ExistsBijection(1 .. m, S)
    BY <2>2 DEF ExistsBijection
  <2>4. IsFiniteSet(1 .. m) /\ Cardinality(1 .. m) = m
    BY FS_Interval
  <2>. QED  BY <2>3, <2>4, FS_Bijection
<1>. HIDE DEF g, l
<1>. DEFINE D == {p \in 1 .. m : f[p] # g[p]}
<1>4. D = {}
  <2>. SUFFICES ASSUME D # {} PROVE FALSE
    OBVIOUS
  <2>1. D \in SUBSET Nat
    OBVIOUS
  <2>2. PICK p \in D : \A x \in D : p <= x
    BY <2>1, SmallestExists
  <2>3. p \in 1 .. m /\ p \in 1 .. l /\ f[p] # g[p] /\ \A x \in 1 .. m : x < p => f[x] = g[x]
    BY <1>3, <2>2
  <2>4. f[p] \in S /\ g[p] \in S
    BY <1>1, <2>3
  <2>9. f[p] \in Nat /\ g[p] \in Nat
    BY <1>2, <2>4
  <2>5. PICK q \in 1 .. l : g[q] = f[p]
    BY <1>1, <2>4
  <2>6. PICK r \in 1 .. m : f[r] = g[p]
    BY <2>4
  <2>7. CASE f[p] < g[p]
    <3>1. q < p
      BY <1>1, <2>3, <2>5, <2>7
    <3>2. f[q] = f[p] /\ f[q] < f[p]
      BY <1>3, <2>3, <2>5, <3>1
    <3>. QED  BY <2>9, <3>2
  <2>8. CASE g[p] < f[p]
    <3>1. r < p
      <4>1. r = p => f[r] = f[p]
        OBVIOUS
      <4>2. p < r => f[p] < f[r]
        BY <2>3
      <4>. QED  BY <2>3, <2>6, <2>8, <2>9, <4>1, <4>2
    <3>2. g[r] = g[p] /\ r \in 1 .. l /\ (r < p <=> g[r] < g[p])
      BY <1>1, <1>3, <2>3, <2>6, <3>1
    <3>. QED  BY <2>9, <3>1, <3>2
  <2>. QED  BY <2>3, <2>7, <2>8, <2>9
<1>5. g = f
  BY <1>1, <1>3, <1>4
<1>. QED  BY <1>5 DEF g
=============================================================================
