--------------------------- MODULE RankingProofs ---------------------------
(* The order of a search, for any rankings, limits and settings: fusion    *)
(* treats the two indexes alike, puts no chunk before one that both rank as *)
(* well or better, and what is assembled from it are the best chunks there *)
(* still are.  What the evaluation measures of such a search, for any       *)
(* judgements: no metric exceeds 1, and nDCG is 1 for the best order only.  *)
EXTENDS Evaluation, OrderingProofs

\* Fractions, as numerator and denominator.
\* multiplication keeps an order, and can be undone
LEMMA TimesKeepsOrder ==
    ASSUME NEW x \in Nat, NEW y \in Nat, NEW d \in Nat \ {0}
    PROVE  /\ x * d \in Nat /\ y * d \in Nat
           /\ x <= y <=> x * d <= y * d
           /\ x < y <=> x * d < y * d
           /\ x = y <=> x * d = y * d
<1>1. ASSUME NEW a \in Nat, NEW b \in Nat, a < b PROVE a * d < b * d
  <2>1. PICK e \in Nat \ {0} : b = a + e
    <3>1. b - a \in Nat \ {0} /\ b = a + (b - a)
      BY <1>1
    <3>. QED  BY <3>1
  <2>2. b * d = a * d + e * d
    BY <2>1
  <2>3. e * d > 0
    OBVIOUS
  <2>. QED  BY <2>2, <2>3
<1>2. x * d \in Nat /\ y * d \in Nat
  OBVIOUS
<1>3. x < y \/ x = y \/ y < x
  OBVIOUS
<1>. QED  BY <1>1, <1>2, <1>3

\* a / b and c / d, c / d and e / f
LEMMA FractionsAreOrdered ==
    ASSUME NEW a \in Nat, NEW b \in Nat \ {0}, NEW c \in Nat, NEW d \in Nat \ {0},
           NEW e \in Nat, NEW f \in Nat \ {0}
    PROVE  /\ a * d > c * b /\ c * f >= e * d => a * f > e * b
           /\ a * d >= c * b /\ c * f > e * d => a * f > e * b
           /\ a * d = c * b /\ c * f = e * d => a * f = e * b
<1>1. /\ a * d \in Nat /\ c * b \in Nat /\ c * f \in Nat /\ e * d \in Nat
      /\ a * f \in Nat /\ e * b \in Nat
  OBVIOUS
<1>2. /\ a * d > c * b <=> (a * d) * f > (c * b) * f
      /\ a * d = c * b <=> (a * d) * f = (c * b) * f
  BY <1>1, TimesKeepsOrder
<1>3. /\ c * f > e * d <=> (c * f) * b > (e * d) * b
      /\ c * f = e * d <=> (c * f) * b = (e * d) * b
  BY <1>1, TimesKeepsOrder
<1>4. /\ a * f > e * b <=> (a * f) * d > (e * b) * d
      /\ a * f = e * b <=> (a * f) * d = (e * b) * d
  BY <1>1, TimesKeepsOrder
<1>5. /\ (a * d) * f = (a * f) * d
      /\ (c * b) * f = (c * f) * b
      /\ (e * d) * b = (e * b) * d
  OBVIOUS
<1>6. /\ (a * d) * f \in Nat /\ (c * b) * f \in Nat /\ (e * d) * b \in Nat
  BY <1>1
<1>. HIDE <1>1
<1>. QED  BY <1>1, <1>2, <1>3, <1>4, <1>5, <1>6

IsRational(x) == x.num \in Nat /\ x.den \in Nat \ {0}
More(x, y)    == x.num * y.den > y.num * x.den
Level(x, y)   == x.num * y.den = y.num * x.den

LEMMA RationalsAreOrdered ==
    ASSUME NEW x, NEW y, NEW z, IsRational(x), IsRational(y), IsRational(z)
    PROVE  /\ ~More(x, x)
           /\ Level(x, y) => Level(y, x)
           /\ More(x, y) \/ Level(x, y) \/ More(y, x)
           /\ More(x, y) /\ (More(y, z) \/ Level(y, z)) => More(x, z)
           /\ Level(x, y) /\ More(y, z) => More(x, z)
           /\ Level(x, y) /\ Level(y, z) => Level(x, z)
<1>. DEFINE a == x.num
            b == x.den
            c == y.num
            d == y.den
            e == z.num
            f == z.den
<1>1. a \in Nat /\ b \in Nat \ {0} /\ c \in Nat /\ d \in Nat \ {0} /\ e \in Nat /\ f \in Nat \ {0}
  BY DEF IsRational
<1>. HIDE DEF a, b, c, d, e, f
<1>2. a * b \in Nat /\ a * d \in Nat /\ c * b \in Nat /\ c * f \in Nat /\ e * d \in Nat /\ a * f \in Nat /\ e * b \in Nat
  BY <1>1
<1>3. /\ a * d > c * b /\ c * f >= e * d => a * f > e * b
      /\ a * d >= c * b /\ c * f > e * d => a * f > e * b
      /\ a * d = c * b /\ c * f = e * d => a * f = e * b
  BY <1>1, FractionsAreOrdered
<1>4. /\ More(x, y) <=> a * d > c * b
      /\ More(y, x) <=> c * b > a * d
      /\ More(y, z) <=> c * f > e * d
      /\ More(x, z) <=> a * f > e * b
      /\ More(x, x) <=> a * b > a * b
      /\ Level(x, y) <=> a * d = c * b
      /\ Level(y, x) <=> c * b = a * d
      /\ Level(y, z) <=> c * f = e * d
      /\ Level(x, z) <=> a * f = e * b
  BY Zenon DEF More, Level, a, b, c, d, e, f
<1>. QED  BY <1>2, <1>3, <1>4

LEMMA SumsAreOrdered ==
    ASSUME NEW x, NEW y, NEW u, NEW v,
           IsRational(x), IsRational(y), IsRational(u), IsRational(v)
    PROVE  /\ IsRational(Plus(x, u))
           /\ (More(x, y) /\ ~More(v, u)) \/ (~More(y, x) /\ More(u, v)) => More(Plus(x, u), Plus(y, v))
<1>. DEFINE p1 == x.num
            q1 == x.den
            r1 == y.num
            s1 == y.den
            p2 == u.num
            q2 == u.den
            r2 == v.num
            s2 == v.den
            l1 == p1 * s1
            l2 == p2 * s2
            g1 == r1 * q1
            g2 == r2 * q2
            m == q2 * s2
            n == q1 * s1
            left  == (p1 * q2 + p2 * q1) * (s1 * s2)
            right == (r1 * s2 + r2 * s1) * (q1 * q2)
<1>1. /\ p1 \in Nat /\ r1 \in Nat /\ p2 \in Nat /\ r2 \in Nat
      /\ q1 \in Nat \ {0} /\ s1 \in Nat \ {0} /\ q2 \in Nat \ {0} /\ s2 \in Nat \ {0}
  BY DEF IsRational
<1>2. /\ More(x, y) <=> l1 > g1
      /\ More(y, x) <=> g1 > l1
      /\ More(u, v) <=> l2 > g2
      /\ More(v, u) <=> g2 > l2
      /\ More(Plus(x, u), Plus(y, v)) <=> left > right
      /\ IsRational(Plus(x, u)) <=> p1 * q2 + p2 * q1 \in Nat /\ q1 * q2 \in Nat \ {0}
  BY DEF More, Plus, IsRational
<1>. HIDE DEF p1, q1, r1, s1, p2, q2, r2, s2
<1>3. left = l1 * m + l2 * n /\ right = g1 * m + g2 * n
  BY <1>1
<1>4. /\ l1 \in Nat /\ l2 \in Nat /\ g1 \in Nat /\ g2 \in Nat
      /\ m \in Nat \ {0} /\ n \in Nat \ {0}
      /\ p1 * q2 + p2 * q1 \in Nat /\ q1 * q2 \in Nat \ {0}
  BY <1>1
<1>. HIDE DEF l1, l2, g1, g2, m, n, left, right
<1>5. /\ l1 >= g1 => l1 * m >= g1 * m
      /\ l2 >= g2 => l2 * n >= g2 * n
      /\ l1 > g1 => l1 * m > g1 * m
      /\ l2 > g2 => l2 * n > g2 * n
      /\ l1 * m \in Nat /\ g1 * m \in Nat /\ l2 * n \in Nat /\ g2 * n \in Nat
  BY <1>4, TimesKeepsOrder
<1>6. (l1 > g1 /\ l2 >= g2) \/ (l1 >= g1 /\ l2 > g2) => left > right
  BY <1>3, <1>4, <1>5
<1>. QED  BY <1>2, <1>4, <1>6
---------------------------------------------------------------------------
LEMMA SeqsAreFinite ==
    ASSUME NEW list \in Seq(Chunks)
    PROVE  /\ IsFiniteSet(ToSet(list)) /\ Cardinality(ToSet(list)) <= Len(list)
           /\ IsInjective(list) => Cardinality(ToSet(list)) = Len(list)
<1>1. IsFiniteSet(1 .. Len(list)) /\ Cardinality(1 .. Len(list)) = Len(list)
  <2>1. Len(list) \in Nat
    OBVIOUS
  <2>. QED  BY <2>1, FS_Interval, SMTT(20)
<1>2. list \in Surjection(1 .. Len(list), ToSet(list))
  <2>1. list \in [1 .. Len(list) -> ToSet(list)]
    BY DEF ToSet
  <2>. QED  BY <2>1 DEF Surjection, ToSet
<1>3. IsInjective(list) => list \in Injection(1 .. Len(list), ToSet(list))
  BY <1>2 DEF Surjection, Injection, IsInjective
<1>. QED  BY <1>1, <1>2, <1>3, FS_Surjection

---------------------------------------------------------------------------
LEMMA RankIsAPlace ==
    ASSUME NEW list \in Seq(Chunks), NEW c \in ToSet(list)
    PROVE  Rank(c, list) \in DOMAIN list /\ Rank(c, list) \in Nat \ {0} /\ list[Rank(c, list)] = c
<1>1. \E r \in DOMAIN list : list[r] = c
  BY DEF ToSet
<1>2. DOMAIN list \subseteq Nat \ {0}
  OBVIOUS
<1>. QED  BY <1>1, <1>2 DEF Rank

\* the share of a chunk that a ranking gives it
Share(c, list) == IF c \in ToSet(list) THEN Reciprocal(Rank(c, list)) ELSE [num |-> 0, den |-> 1]

LEMMA ShareIsAFraction ==
    ASSUME rrf_k \in Nat \ {0}, NEW list \in Seq(Chunks), NEW c
    PROVE  IsRational(Share(c, list))
<1>1. CASE c \in ToSet(list)
  <2>1. Rank(c, list) \in Nat \ {0}
    BY <1>1, RankIsAPlace
  <2>. QED  BY <1>1, <2>1 DEF IsRational, Share, Reciprocal
<1>2. CASE c \notin ToSet(list)
  BY <1>2 DEF IsRational, Share
<1>. QED  BY <1>1, <1>2

LEMMA ScoreIsASum ==
    ASSUME rrf_k \in Nat \ {0}, NEW keyword \in Seq(Chunks), NEW vector \in Seq(Chunks), NEW c
    PROVE  /\ Score(c, keyword, vector) = Plus(Share(c, keyword), Share(c, vector))
           /\ IsRational(Score(c, keyword, vector))
<1>1. Score(c, keyword, vector) = Plus(Share(c, keyword), Share(c, vector))
  BY DEF Score, Share
<1>. QED  BY <1>1, ShareIsAFraction, SumsAreOrdered

LEMMA ScoreIsSymmetric ==
    ASSUME rrf_k \in Nat \ {0}, NEW keyword \in Seq(Chunks), NEW vector \in Seq(Chunks), NEW c
    PROVE  Score(c, keyword, vector) = Score(c, vector, keyword)
<1>. DEFINE a == Share(c, keyword).num
            b == Share(c, keyword).den
            x == Share(c, vector).num
            y == Share(c, vector).den
<1>1. a \in Nat /\ b \in Nat /\ x \in Nat /\ y \in Nat
  BY ShareIsAFraction DEF IsRational
<1>2. /\ Score(c, keyword, vector) = [num |-> a * y + x * b, den |-> b * y]
      /\ Score(c, vector, keyword) = [num |-> x * b + a * y, den |-> y * b]
  BY ScoreIsASum DEF Plus
<1>. HIDE DEF a, b, x, y
<1>3. a * y + x * b = x * b + a * y /\ b * y = y * b
  BY <1>1
<1>. QED  BY <1>2, <1>3

\* the sort key orders the candidates: no two are level
LEMMA AheadIsAnOrder ==
    ASSUME rrf_k \in Nat \ {0}, NEW keyword \in Seq(Chunks), NEW vector \in Seq(Chunks)
    PROVE  /\ \A c \in Chunks : ~Ahead(c, c, keyword, vector)
           /\ \A c, d \in Chunks :
                c # d => Ahead(c, d, keyword, vector) \/ Ahead(d, c, keyword, vector)
           /\ \A c, d, e \in Chunks :
                Ahead(c, d, keyword, vector) /\ Ahead(d, e, keyword, vector) => Ahead(c, e, keyword, vector)
<1>. DEFINE score(c) == Score(c, keyword, vector)
<1>1. \A c : IsRational(score(c))
  BY ScoreIsASum
<1>2. \A c, d : Ahead(c, d, keyword, vector) <=>
                More(score(c), score(d)) \/ (Level(score(c), score(d)) /\ c < d)
  BY DEF Ahead, More, Level
<1>3. Chunks \subseteq Nat
  BY RankingAssumption
<1>. HIDE DEF score
<1>4. \A c \in Chunks : ~Ahead(c, c, keyword, vector)
  BY <1>1, <1>2, <1>3, RationalsAreOrdered
<1>5. \A c, d \in Chunks : c # d => Ahead(c, d, keyword, vector) \/ Ahead(d, c, keyword, vector)
  BY <1>1, <1>2, <1>3, RationalsAreOrdered
<1>6. ASSUME NEW c \in Chunks, NEW d \in Chunks, NEW e \in Chunks,
             Ahead(c, d, keyword, vector), Ahead(d, e, keyword, vector)
      PROVE  Ahead(c, e, keyword, vector)
  <2>1. c < d /\ d < e => c < e
    BY <1>3
  <2>. QED  BY <1>1, <1>2, <1>6, <2>1, RationalsAreOrdered
<1>. QED  BY <1>4, <1>5, <1>6

\* a chunk that no index ranks behind another comes before it
LEMMA NoWorseIsAhead ==
    ASSUME rrf_k \in Nat \ {0}, NEW keyword \in Seq(Chunks), NEW vector \in Seq(Chunks),
           NEW c, NEW d \in ToSet(keyword) \union ToSet(vector), c # d,
           NoWorse(c, d, keyword), NoWorse(c, d, vector)
    PROVE  Ahead(c, d, keyword, vector)
<1>1. ASSUME NEW list \in Seq(Chunks), NoWorse(c, d, list)
      PROVE  /\ ~More(Share(d, list), Share(c, list))
             /\ d \in ToSet(list) => More(Share(c, list), Share(d, list))
  <2>1. CASE d \in ToSet(list)
    <3>1. c \in ToSet(list) /\ Rank(c, list) <= Rank(d, list)
      BY <1>1, <2>1 DEF NoWorse
    <3>2. /\ Rank(c, list) \in Nat \ {0} /\ list[Rank(c, list)] = c
          /\ Rank(d, list) \in Nat \ {0} /\ list[Rank(d, list)] = d
      BY <2>1, <3>1, RankIsAPlace
    <3>3. Rank(c, list) < Rank(d, list)
      BY <3>1, <3>2
    <3>4. /\ Share(c, list) = [num |-> 1, den |-> rrf_k + Rank(c, list)]
          /\ Share(d, list) = [num |-> 1, den |-> rrf_k + Rank(d, list)]
      BY <2>1, <3>1 DEF Share, Reciprocal
    <3>. QED  BY <3>2, <3>3, <3>4 DEF More
  <2>2. CASE d \notin ToSet(list)
    <3>1. Share(d, list) = [num |-> 0, den |-> 1]
      BY <2>2 DEF Share
    <3>2. Share(c, list).num \in Nat /\ Share(c, list).den \in Nat
      BY ShareIsAFraction DEF IsRational
    <3>. QED  BY <2>2, <3>1, <3>2 DEF More
  <2>. QED  BY <2>1, <2>2
<1>2. /\ IsRational(Share(c, keyword)) /\ IsRational(Share(c, vector))
      /\ IsRational(Share(d, keyword)) /\ IsRational(Share(d, vector))
  BY ShareIsAFraction
<1>3. More(Plus(Share(c, keyword), Share(c, vector)), Plus(Share(d, keyword), Share(d, vector)))
  BY <1>1, <1>2, SumsAreOrdered
<1>. QED  BY <1>3, ScoreIsASum DEF Ahead, More

LEMMA FuseIsSymmetric ==
    ASSUME rrf_k \in Nat \ {0}, NEW keyword \in Seq(Chunks), NEW vector \in Seq(Chunks)
    PROVE  Fuse(keyword, vector) = Fuse(vector, keyword)
<1>1. ToSet(keyword) \union ToSet(vector) = ToSet(vector) \union ToSet(keyword)
  OBVIOUS
<1>2. \A c, d : Ahead(c, d, keyword, vector) = Ahead(c, d, vector, keyword)
  BY ScoreIsSymmetric DEF Ahead
<1>. DEFINE fused(k, v) == ToSet(k) \union ToSet(v)
            before(k, v, c) == {d \in fused(k, v) : Ahead(d, c, k, v)}
            ahead(k, v) == [c \in fused(k, v) |-> before(k, v, c)]
<1>3. \A c : before(keyword, vector, c) = before(vector, keyword, c)
  BY <1>1, <1>2
<1>4. fused(keyword, vector) = fused(vector, keyword)
  BY <1>1
<1>5. /\ Fuse(keyword, vector) = InOrder(fused(keyword, vector), ahead(keyword, vector))
      /\ Fuse(vector, keyword) = InOrder(fused(vector, keyword), ahead(vector, keyword))
  BY Zenon DEF Fuse
<1>. HIDE DEF fused, before
<1>6. ahead(keyword, vector) = ahead(vector, keyword)
  BY <1>3, <1>4
<1>. QED  BY <1>4, <1>5, <1>6

\* fusion lists every candidate once, each ahead of the ones after it
LEMMA FusionIsSorted ==
    ASSUME rrf_k \in Nat \ {0}, NEW keyword \in Seq(Chunks), NEW vector \in Seq(Chunks)
    PROVE  /\ Fuse(keyword, vector) \in Seq(Chunks)
           /\ ToSet(Fuse(keyword, vector)) = ToSet(keyword) \union ToSet(vector)
           /\ \A p, q \in DOMAIN Fuse(keyword, vector) :
                p < q => Ahead(Fuse(keyword, vector)[p], Fuse(keyword, vector)[q], keyword, vector)
<1>. DEFINE fused == ToSet(keyword) \union ToSet(vector)
            ahead == [c \in fused |-> {d \in fused : Ahead(d, c, keyword, vector)}]
            order == InOrder(fused, ahead)
            n == Cardinality(fused)
<1>1. IsFiniteSet(fused) /\ fused \subseteq Chunks
  <2>1. IsFiniteSet(ToSet(keyword)) /\ IsFiniteSet(ToSet(vector))
    BY SeqsAreFinite
  <2>2. ToSet(keyword) \subseteq Chunks /\ ToSet(vector) \subseteq Chunks
    BY DEF ToSet
  <2>3. IsFiniteSet(fused)
    BY <2>1, FS_Union, Zenon
  <2>. QED  BY <2>2, <2>3
<1>2. ahead \in [fused -> SUBSET fused]
  OBVIOUS
<1>3. /\ \A c \in fused : c \notin ahead[c]
      /\ \A c, d \in fused : c # d => c \in ahead[d] \/ d \in ahead[c]
      /\ \A c, d, e \in fused : c \in ahead[d] /\ d \in ahead[e] => c \in ahead[e]
  BY <1>1, AheadIsAnOrder
<1>4. order = Fuse(keyword, vector)
  BY DEF Fuse
<1>5. \A p \in fused : \A q \in ahead[p] : Ahead(q, p, keyword, vector)
  OBVIOUS
<1>. HIDE DEF fused, ahead, order
<1>6. /\ n \in Nat /\ order \in [1 .. n -> fused]
      /\ \A c \in fused : \E p \in 1 .. n : order[p] = c
      /\ \A p, q \in 1 .. n : p < q => order[p] \in ahead[order[q]]
  BY <1>1, <1>2, <1>3, InOrderIsSorted DEF order
<1>7. order \in Seq(Chunks) /\ DOMAIN order = 1 .. n
  BY <1>1, <1>6
<1>8. ToSet(order) = fused
  BY <1>6 DEF ToSet
<1>9. \A p, q \in DOMAIN order : p < q => Ahead(order[p], order[q], keyword, vector)
  BY <1>5, <1>6, <1>7
<1>. QED  BY <1>4, <1>7, <1>8, <1>9 DEF fused

\* r is places of the list, in its order: all that are present, or the limit
Keeps(r, list, present) ==
    LET found == {p \in DOMAIN list : list[p] \in present}
        m     == Cardinality(found)
        n     == Len(r)
    IN  /\ m \in Nat /\ n \in Nat /\ n <= limit /\ n <= m /\ (n = limit \/ n = m)
        /\ DOMAIN r = 1 .. n
        /\ \E kept \in [1 .. m -> found] :
            /\ \A p \in found : \E k \in 1 .. m : kept[k] = p
            /\ \A j, k \in 1 .. m : j < k => kept[j] < kept[k]
            /\ \A k \in 1 .. n : r[k] = list[kept[k]]

LEMMA AssemblyKeeps ==
    ASSUME limit \in Nat, NEW list \in Seq(Chunks), NEW present
    PROVE  Keeps(Assemble(list, present), list, present)
<1>. DEFINE found == {p \in DOMAIN list : list[p] \in present}
            ahead == [p \in found |-> {q \in found : q < p}]
            kept  == InOrder(found, ahead)
            m == Cardinality(found)
            n == Min({limit, Len(kept)})
<1>1. found \in SUBSET (1 .. Len(list)) /\ IsFiniteSet(1 .. Len(list)) /\ found \subseteq Nat
  BY FS_Interval, SMTT(20)
<1>2. IsFiniteSet(found)
  BY <1>1, FS_Subset
<1>3. ahead \in [found -> SUBSET found]
  OBVIOUS
<1>4. /\ \A p \in found : p \notin ahead[p]
      /\ \A p, q \in found : p # q => p \in ahead[q] \/ q \in ahead[p]
      /\ \A p, q, r \in found : p \in ahead[q] /\ q \in ahead[r] => p \in ahead[r]
  BY <1>1
<1>5. \A p \in found : \A q \in ahead[p] : q < p
  OBVIOUS
<1>6. Assemble(list, present) = [k \in 1 .. n |-> list[kept[k]]]
  BY DEF Assemble, Ascending
<1>. HIDE DEF found, ahead, kept, n
<1>7. /\ m \in Nat /\ kept \in [1 .. m -> found]
      /\ \A p \in found : \E k \in 1 .. m : kept[k] = p
      /\ \A j, k \in 1 .. m : j < k => kept[j] \in ahead[kept[k]]
  BY <1>2, <1>3, <1>4, InOrderIsSorted DEF kept
<1>8. Len(kept) = m
  BY <1>7
<1>9. n \in {limit, m} /\ n <= limit /\ n <= m
  <2>1. \E x \in {limit, m} : \A y \in {limit, m} : x <= y
    BY <1>7
  <2>. QED  BY <1>8, <2>1 DEF n, Min
<1>10. Len(Assemble(list, present)) = n
  BY <1>6, <1>7, <1>9
<1>11. \A j, k \in 1 .. m : j < k => kept[j] < kept[k]
  BY <1>5, <1>7
<1>12. \A k \in 1 .. n : Assemble(list, present)[k] = list[kept[k]]
  BY <1>6
<1>. QED  BY <1>6, <1>7, <1>9, <1>10, <1>11, <1>12 DEF found, Keeps
---------------------------------------------------------------------------
RequestInv ==
    /\ mode \in {"keyword", "vector", "hybrid"}
    /\ limit \in Nat \ {0} /\ multiplier \in Nat \ {0} /\ rrf_k \in Nat \ {0}
    /\ \A matches \in {keywordMatches, vectorMatches} : matches \in Seq(Chunks) /\ IsInjective(matches)
    /\ (mode = "keyword" => vectorMatches = <<>>) /\ (mode = "vector" => keywordMatches = <<>>)

RankedInv ==
    stage # "find" =>
        ranked = CASE mode = "hybrid"  -> Fuse(Candidates(keywordMatches), Candidates(vectorMatches))
                   [] mode = "keyword" -> Candidates(keywordMatches)
                   [] mode = "vector"  -> Candidates(vectorMatches)

ResultsInv ==
    /\ stage \in {"find", "load", "done"}
    /\ stage # "done" => results = <<>>
    /\ stage = "done" => loaded \subseteq ToSet(ranked) /\ results = Assemble(ranked, loaded)

Inv == RequestInv /\ RankedInv /\ ResultsInv

LEMMA InitInv == Init => Inv
<1>. SUFFICES ASSUME Init PROVE Inv
  OBVIOUS
<1>1. \A matches \in Matches \union {<<>>} : matches \in Seq(Chunks) /\ IsInjective(matches)
  <2>1. ASSUME NEW n \in 0 .. MaxMatches, NEW list \in [1 .. n -> Chunks]
        PROVE  list \in Seq(Chunks)
    BY <2>1, RankingAssumption
  <2>2. <<>> \in Seq(Chunks) /\ IsInjective(<<>>)
    BY DEF IsInjective
  <2>. QED  BY <2>1, <2>2 DEF Matches
<1>2. RequestInv
  <2>1. /\ mode \in {"keyword", "vector", "hybrid"}
        /\ limit \in Nat \ {0} /\ multiplier \in Nat \ {0} /\ rrf_k \in Nat \ {0}
    BY RankingAssumption DEF Init
  <2>2. keywordMatches \in Matches \union {<<>>} /\ vectorMatches \in Matches \union {<<>>}
    BY DEF Init
  <2>3. (mode = "keyword" => vectorMatches = <<>>) /\ (mode = "vector" => keywordMatches = <<>>)
    BY DEF Init
  <2>. QED  BY <1>1, <2>1, <2>2, <2>3 DEF RequestInv
<1>. QED  BY <1>2 DEF Init, Inv, RankedInv, ResultsInv

\* the request decides what it ranks and returns
LEMMA RequestDecides ==
    ASSUME UNCHANGED request
    PROVE  /\ UNCHANGED Candidates(keywordMatches) /\ UNCHANGED Candidates(vectorMatches)
           /\ UNCHANGED Fuse(Candidates(keywordMatches), Candidates(vectorMatches))
           /\ UNCHANGED <<ranked, loaded>> => UNCHANGED Assemble(ranked, loaded)
<1>1. UNCHANGED <<limit, multiplier, rrf_k, keywordMatches, vectorMatches>>
  BY DEF request
<1>2. UNCHANGED Candidates(keywordMatches) /\ UNCHANGED Candidates(vectorMatches)
  BY <1>1 DEF Candidates, CandidateLimit
<1>3. UNCHANGED <<ranked, loaded>> => UNCHANGED Assemble(ranked, loaded)
  BY <1>1 DEF Assemble
<1>. QED  BY <1>1, <1>2, <1>3 DEF Fuse, Ahead, Score, Plus, Reciprocal

LEMMA StepInv == Inv /\ [Next]_vars => Inv'
<1>. SUFFICES ASSUME Inv, [Next]_vars PROVE Inv'
  OBVIOUS
<1>1. UNCHANGED request
  BY DEF Next, RankCandidates, LoadChunks, vars
<1>2. RequestInv'
  BY <1>1 DEF Inv, RequestInv, request
<1>3. CASE RankCandidates
  <2>1. RankedInv'
    BY <1>1, <1>3, RequestDecides DEF RankCandidates, RankedInv, request
  <2>2. ResultsInv'
    BY <1>3 DEF RankCandidates, Inv, ResultsInv
  <2>. QED  BY <1>2, <2>1, <2>2 DEF Inv
<1>4. CASE LoadChunks
  <2>1. RankedInv'
    BY <1>1, <1>4, RequestDecides DEF LoadChunks, Inv, RankedInv, request
  <2>2. ResultsInv'
    <3>1. PICK present \in SUBSET ToSet(ranked) :
            loaded' = present /\ results' = Assemble(ranked, present)
      BY <1>4 DEF LoadChunks
    <3>2. ranked' = ranked /\ limit' = limit /\ stage' = "done"
      BY <1>1, <1>4 DEF LoadChunks, request
    <3>3. Assemble(ranked, loaded)' = Assemble(ranked, present)
      BY <3>1, <3>2 DEF Assemble
    <3>. QED  BY <3>1, <3>2, <3>3 DEF ResultsInv
  <2>. QED  BY <1>2, <2>1, <2>2 DEF Inv
<1>5. CASE UNCHANGED vars
  <2>1. UNCHANGED <<ranked, loaded, stage, results>>
    BY <1>5 DEF vars
  <2>2. RankedInv'
    BY <1>1, <2>1, RequestDecides DEF Inv, RankedInv, request
  <2>3. ResultsInv'
    BY <1>1, <2>1, RequestDecides DEF Inv, ResultsInv
  <2>. QED  BY <1>2, <2>2, <2>3 DEF Inv
<1>. QED  BY <1>3, <1>4, <1>5 DEF Next

LEMMA InvHolds == Spec => []Inv
  BY InitInv, StepInv, PTL DEF Spec
---------------------------------------------------------------------------
LEMMA CandidatesAreDistinct ==
    ASSUME limit \in Nat, multiplier \in Nat,
           NEW matches \in Seq(Chunks), IsInjective(matches)
    PROVE  /\ Candidates(matches) \in Seq(Chunks) /\ IsInjective(Candidates(matches))
           /\ Len(Candidates(matches)) <= Len(matches)
           /\ Len(Candidates(matches)) \in {Len(matches), limit * multiplier}
<1>. DEFINE n == Min({CandidateLimit, Len(matches)})
<1>1. CandidateLimit = limit * multiplier /\ CandidateLimit \in Nat /\ Len(matches) \in Nat
  BY DEF CandidateLimit
<1>2. n \in {CandidateLimit, Len(matches)} /\ n <= Len(matches)
  <2>1. \E x \in {CandidateLimit, Len(matches)} : \A y \in {CandidateLimit, Len(matches)} : x <= y
    BY <1>1
  <2>. QED  BY <2>1, <1>1 DEF Min
<1>. HIDE DEF n
<1>3. Candidates(matches) = SubSeq(matches, 1, n)
  BY DEF Candidates, n
<1>4. /\ SubSeq(matches, 1, n) \in Seq(Chunks) /\ Len(SubSeq(matches, 1, n)) = n
      /\ DOMAIN SubSeq(matches, 1, n) = 1 .. n
      /\ \A p \in 1 .. n : SubSeq(matches, 1, n)[p] = matches[p] /\ p \in DOMAIN matches
  BY <1>1, <1>2
<1>5. IsInjective(SubSeq(matches, 1, n))
  BY <1>4 DEF IsInjective
<1>. QED  BY <1>1, <1>2, <1>3, <1>4, <1>5

LEMMA RankOfAPlace ==
    ASSUME NEW list \in Seq(Chunks), IsInjective(list), NEW p \in DOMAIN list
    PROVE  Rank(list[p], list) = p
<1>1. list[p] \in ToSet(list)
  BY DEF ToSet
<1>. QED  BY <1>1, RankIsAPlace DEF IsInjective

\* what a search ranks: its candidates, each once, none behind a worse one
LEMMA RankingIsSorted ==
    ASSUME Inv, stage # "find"
    PROVE  /\ ranked \in Seq(Chunks) /\ IsInjective(ranked)
           /\ ToSet(ranked) = ToSet(Candidates(keywordMatches)) \union ToSet(Candidates(vectorMatches))
           /\ \A p, q \in DOMAIN ranked :
                /\ NoWorse(ranked[p], ranked[q], Candidates(keywordMatches))
                /\ NoWorse(ranked[p], ranked[q], Candidates(vectorMatches))
                => p <= q
<1>. DEFINE keyword == Candidates(keywordMatches)
            vector  == Candidates(vectorMatches)
<1>1. /\ mode \in {"keyword", "vector", "hybrid"}
      /\ limit \in Nat \ {0} /\ multiplier \in Nat \ {0} /\ rrf_k \in Nat \ {0}
      /\ keywordMatches \in Seq(Chunks) /\ IsInjective(keywordMatches)
      /\ vectorMatches \in Seq(Chunks) /\ IsInjective(vectorMatches)
      /\ (mode = "keyword" => vectorMatches = <<>>) /\ (mode = "vector" => keywordMatches = <<>>)
  BY DEF Inv, RequestInv
<1>2. /\ keyword \in Seq(Chunks) /\ IsInjective(keyword) /\ Len(keyword) <= Len(keywordMatches)
      /\ vector \in Seq(Chunks) /\ IsInjective(vector) /\ Len(vector) <= Len(vectorMatches)
  BY <1>1, CandidatesAreDistinct
<1>. HIDE DEF keyword, vector
<1>3. ASSUME NEW list \in Seq(Chunks), list = <<>> PROVE ToSet(list) = {}
  BY <1>3 DEF ToSet
<1>4. (mode = "keyword" => vector = <<>>) /\ (mode = "vector" => keyword = <<>>)
  BY <1>1, <1>2
<1>5. ASSUME NEW list \in Seq(Chunks), IsInjective(list), NEW p \in DOMAIN list, NEW q \in DOMAIN list,
             NoWorse(list[p], list[q], list)
      PROVE  p <= q
  BY <1>5, RankOfAPlace DEF NoWorse, ToSet
<1>6. CASE mode = "keyword"
  <2>1. ranked = keyword
    BY <1>6 DEF Inv, RankedInv, keyword
  <2>. QED  BY <1>2, <1>3, <1>4, <1>5, <1>6, <2>1 DEF keyword, vector
<1>7. CASE mode = "vector"
  <2>1. ranked = vector
    BY <1>7 DEF Inv, RankedInv, vector
  <2>. QED  BY <1>2, <1>3, <1>4, <1>5, <1>7, <2>1 DEF keyword, vector
<1>8. CASE mode = "hybrid"
  <2>1. ranked = Fuse(keyword, vector)
    BY <1>8 DEF Inv, RankedInv, keyword, vector
  <2>2. /\ ranked \in Seq(Chunks) /\ ToSet(ranked) = ToSet(keyword) \union ToSet(vector)
        /\ \A p, q \in DOMAIN ranked : p < q => Ahead(ranked[p], ranked[q], keyword, vector)
    BY <1>1, <1>2, <2>1, FusionIsSorted
  <2>3. DOMAIN ranked \subseteq Nat /\ \A p \in DOMAIN ranked : ranked[p] \in Chunks /\ ranked[p] \in ToSet(ranked)
    BY <2>2 DEF ToSet
  <2>4. IsInjective(ranked)
    <3>1. ASSUME NEW p \in DOMAIN ranked, NEW q \in DOMAIN ranked, p < q PROVE ranked[p] # ranked[q]
      BY <1>1, <1>2, <2>2, <2>3, <3>1, AheadIsAnOrder
    <3>2. \A p, q \in DOMAIN ranked : p < q \/ p = q \/ q < p
      BY <2>3
    <3>. QED  BY <3>1, <3>2 DEF IsInjective
  <2>5. ASSUME NEW p \in DOMAIN ranked, NEW q \in DOMAIN ranked,
               NoWorse(ranked[p], ranked[q], keyword), NoWorse(ranked[p], ranked[q], vector)
        PROVE  p <= q
    <3>1. SUFFICES ASSUME q < p PROVE FALSE
      BY <2>3
    <3>2. ranked[p] # ranked[q]
      BY <2>3, <2>4, <3>1 DEF IsInjective
    <3>3. Ahead(ranked[p], ranked[q], keyword, vector)
      <4>1. ranked[q] \in ToSet(keyword) \union ToSet(vector)
        BY <2>2, <2>3
      <4>. QED  BY <1>1, <1>2, <2>5, <3>2, <4>1, NoWorseIsAhead
    <3>4. Ahead(ranked[q], ranked[p], keyword, vector)
      BY <2>2, <3>1
    <3>5. ranked[p] \in Chunks /\ ranked[q] \in Chunks
      BY <2>3
    <3>. QED  BY <1>1, <1>2, <3>3, <3>4, <3>5, AheadIsAnOrder
  <2>. QED  BY <2>2, <2>4, <2>5 DEF keyword, vector
<1>. QED  BY <1>1, <1>6, <1>7, <1>8

(* The order of a hybrid search is the same whichever index was asked      *)
(* first: scores add up, and ties are broken by the identifier alone.      *)
THEOREM FusionIsSymmetric == Spec => []OrderIsIndependent
<1>1. Inv => OrderIsIndependent
  BY CandidatesAreDistinct, FuseIsSymmetric DEF Inv, RequestInv, RankedInv, OrderIsIndependent
<1>. QED  BY <1>1, InvHolds, PTL

LEMMA ResultsAreKept ==
    ASSUME Inv, stage = "done"
    PROVE  Keeps(results, ranked, loaded)
<1>1. ranked \in Seq(Chunks)
  BY RankingIsSorted
<1>2. limit \in Nat /\ results = Assemble(ranked, loaded)
  BY DEF Inv, RequestInv, ResultsInv
<1>. QED  BY <1>1, <1>2, AssemblyKeeps

(* A chunk that no index ranks behind another is not behind it in the      *)
(* results, whatever was dropped in between.                                *)
THEOREM BetterRanksLead == Spec => []BetterRanksComeFirst
<1>1. ASSUME Inv PROVE BetterRanksComeFirst
  <2>1. CASE stage # "done"
    BY <1>1, <2>1 DEF Inv, ResultsInv, BetterRanksComeFirst
  <2>2. CASE stage = "done"
    <3>. DEFINE found == {p \in DOMAIN ranked : ranked[p] \in loaded}
                m == Cardinality(found)
                n == Len(results)
    <3>1. ranked \in Seq(Chunks)
      BY <1>1, <2>2, RankingIsSorted
    <3>2. m \in Nat /\ n \in Nat /\ n <= m /\ DOMAIN results = 1 .. n
      BY <1>1, <2>2, ResultsAreKept DEF Keeps
    <3>3. PICK kept \in [1 .. m -> found] :
            /\ \A j, k \in 1 .. m : j < k => kept[j] < kept[k]
            /\ \A k \in 1 .. n : results[k] = ranked[kept[k]]
      BY <1>1, <2>2, ResultsAreKept, Zenon DEF Keeps
    <3>4. found \subseteq DOMAIN ranked /\ found \subseteq Nat
      BY <3>1
    <3>. HIDE DEF found, m, n
    <3>5. ASSUME NEW i \in DOMAIN results, NEW j \in DOMAIN results,
                 NoWorse(results[i], results[j], Candidates(keywordMatches)),
                 NoWorse(results[i], results[j], Candidates(vectorMatches))
          PROVE  i <= j
      <4>1. i \in 1 .. m /\ j \in 1 .. m /\ i \in 1 .. n /\ j \in 1 .. n
        BY <3>2
      <4>2. kept[i] \in DOMAIN ranked /\ kept[j] \in DOMAIN ranked /\ kept[i] <= kept[j]
        BY <1>1, <2>2, <3>3, <3>4, <3>5, <4>1, RankingIsSorted
      <4>3. kept[i] \in Nat /\ kept[j] \in Nat
        BY <3>3, <3>4, <4>1
      <4>. QED  BY <3>3, <4>1, <4>2, <4>3
    <3>. QED  BY <3>5 DEF BetterRanksComeFirst
  <2>. QED  BY <2>1, <2>2
<1>. QED  BY <1>1, InvHolds, PTL

(* A chunk that was there to be returned gives way to better ones only, and *)
(* only when they fill the limit.                                          *)
THEOREM BestAreKept == Spec => []NothingBetterIsLeftOut
<1>1. ASSUME Inv, stage = "done", NEW c \in loaded \ ToSet(results)
      PROVE  Len(results) = limit /\ \A d \in ToSet(results) : Rank(d, ranked) < Rank(c, ranked)
  <2>. DEFINE found == {p \in DOMAIN ranked : ranked[p] \in loaded}
              m == Cardinality(found)
              n == Len(results)
  <2>1. /\ ranked \in Seq(Chunks) /\ IsInjective(ranked) /\ limit \in Nat
        /\ results = Assemble(ranked, loaded) /\ loaded \subseteq ToSet(ranked)
    BY <1>1, RankingIsSorted DEF Inv, RequestInv, ResultsInv
  <2>2. m \in Nat /\ n \in Nat /\ n <= m /\ (n = limit \/ n = m) /\ DOMAIN results = 1 .. n
    BY <1>1, ResultsAreKept DEF Keeps
  <2>3. PICK kept \in [1 .. m -> found] :
          /\ \A p \in found : \E k \in 1 .. m : kept[k] = p
          /\ \A j, k \in 1 .. m : j < k => kept[j] < kept[k]
          /\ \A k \in 1 .. n : results[k] = ranked[kept[k]]
    BY <1>1, ResultsAreKept, Zenon DEF Keeps
  <2>4. PICK p \in found : ranked[p] = c
    BY <1>1, <2>1 DEF ToSet
  <2>5. found \subseteq DOMAIN ranked /\ found \subseteq Nat
    BY <2>1
  <2>. HIDE DEF found, m, n
  <2>6. PICK k \in 1 .. m : kept[k] = p
    BY <2>3
  <2>7. n < k
    <3>1. k \notin 1 .. n
      BY <1>1, <2>1, <2>2, <2>3, <2>4, <2>6 DEF ToSet
    <3>. QED  BY <2>2, <3>1
  <2>8. ASSUME NEW d \in ToSet(results) PROVE Rank(d, ranked) < Rank(c, ranked)
    <3>1. PICK j \in 1 .. n : results[j] = d
      BY <2>2 DEF ToSet
    <3>2. j \in 1 .. m /\ j < k
      BY <2>2, <2>7, <3>1
    <3>3. kept[j] < kept[k] /\ kept[j] \in DOMAIN ranked /\ kept[k] \in DOMAIN ranked
      BY <2>3, <2>5, <3>2
    <3>4. Rank(ranked[kept[j]], ranked) = kept[j] /\ Rank(ranked[kept[k]], ranked) = kept[k]
      BY <2>1, <3>3, RankOfAPlace
    <3>5. results[j] = ranked[kept[j]]
      BY <2>3
    <3>6. d = ranked[kept[j]] /\ c = ranked[kept[k]]
      BY <2>4, <2>6, <3>1, <3>5
    <3>. QED  BY <3>3, <3>4, <3>6
  <2>9. n = limit
    BY <2>2, <2>7
  <2>. QED  BY <2>8, <2>9, Zenon DEF n
<1>2. Inv => NothingBetterIsLeftOut
  BY <1>1 DEF NothingBetterIsLeftOut
<1>. QED  BY <1>2, InvHolds, PTL

(* Documents that go away between the search of an index and the loading   *)
(* of its chunks cost no result while there are no more of them than the   *)
(* candidates that were asked for beyond the limit.                        *)
THEOREM MultiplierMakesUp == Spec => []LimitIsReached
<1>1. ASSUME Inv, stage = "done", NEW matches \in {keywordMatches, vectorMatches},
             Cardinality(ToSet(Candidates(matches)) \ loaded) <= limit * (multiplier - 1)
      PROVE  Len(results) >= Min({limit, Len(matches) - Cardinality(ToSet(Candidates(matches)) \ loaded)})
  <2>. DEFINE candidates == ToSet(Candidates(matches))
              found == {p \in DOMAIN ranked : ranked[p] \in loaded}
              m == Cardinality(found)
              n == Len(results)
              gone == Cardinality(candidates \ loaded)
              left == Cardinality(candidates \intersect loaded)
  <2>1. /\ ranked \in Seq(Chunks) /\ IsInjective(ranked)
        /\ results = Assemble(ranked, loaded) /\ loaded \subseteq ToSet(ranked)
        /\ candidates \subseteq ToSet(ranked)
        /\ limit \in Nat \ {0} /\ multiplier \in Nat \ {0}
        /\ matches \in Seq(Chunks) /\ IsInjective(matches)
    BY <1>1, RankingIsSorted DEF Inv, RequestInv, ResultsInv
  <2>2. m \in Nat /\ n \in Nat /\ (n = limit \/ n = m)
    BY <1>1, ResultsAreKept DEF Keeps
  <2>3. /\ Candidates(matches) \in Seq(Chunks) /\ IsInjective(Candidates(matches))
        /\ Len(Candidates(matches)) <= Len(matches)
        /\ Len(Candidates(matches)) \in {Len(matches), limit * multiplier}
    BY <2>1, CandidatesAreDistinct
  <2>4. IsFiniteSet(candidates) /\ Cardinality(candidates) = Len(Candidates(matches))
    BY <2>3, SeqsAreFinite
  <2>5. /\ IsFiniteSet(candidates \intersect loaded) /\ left \in Nat
        /\ gone = Cardinality(candidates) - left
    BY <2>4, FS_Intersection, FS_Difference, FS_CardinalityType
  <2>6. left <= m
    <3>. DEFINE place == [c \in candidates \intersect loaded |-> Rank(c, ranked)]
    <3>1. ASSUME NEW c \in candidates \intersect loaded
          PROVE  Rank(c, ranked) \in found /\ ranked[Rank(c, ranked)] = c
      BY <2>1, RankIsAPlace
    <3>2. IsFiniteSet(found)
      <4>1. found \in SUBSET (1 .. Len(ranked)) /\ IsFiniteSet(1 .. Len(ranked))
        BY <2>1, FS_Interval
      <4>. QED  BY <4>1, FS_Subset
    <3>. HIDE DEF candidates, found
    <3>3. place \in Injection(candidates \intersect loaded, found)
      BY <3>1 DEF Injection, IsInjective
    <3>. QED  BY <3>2, <3>3, FS_Injection
  <2>7. gone <= limit * (multiplier - 1)
    BY <1>1
  <2>. HIDE DEF candidates, found, m, n, gone, left
  <2>8. Len(matches) \in Nat /\ Len(Candidates(matches)) \in Nat
    BY <2>1, <2>3
  <2>9. limit * multiplier - limit * (multiplier - 1) = limit
    BY <2>1
  <2>10. limit * multiplier \in Nat /\ limit * (multiplier - 1) \in Nat
    <3>1. multiplier - 1 \in Nat
      BY <2>1
    <3>. QED  BY <2>1, <3>1
  <2>11. n >= limit \/ n >= Len(matches) - gone
    <3>1. CASE Len(Candidates(matches)) = Len(matches)
      BY <2>2, <2>4, <2>5, <2>6, <2>8, <3>1
    <3>2. CASE Len(Candidates(matches)) = limit * multiplier
      BY <2>1, <2>2, <2>4, <2>5, <2>6, <2>7, <2>8, <2>9, <2>10, <3>2
    <3>. QED  BY <2>3, <3>1, <3>2
  <2>12. limit \in Int /\ Len(matches) - gone \in Int
    BY <2>1, <2>4, <2>5, <2>8
  <2>13. /\ Min({limit, Len(matches) - gone}) <= limit
         /\ Min({limit, Len(matches) - gone}) <= Len(matches) - gone
         /\ Min({limit, Len(matches) - gone}) \in Int
    <3>1. \E x \in {limit, Len(matches) - gone} : \A y \in {limit, Len(matches) - gone} : x <= y
      BY <2>12
    <3>. QED  BY <2>12, <3>1 DEF Min
  <2>. QED  BY <2>2, <2>11, <2>12, <2>13 DEF n, gone, candidates
<1>2. Inv => LimitIsReached
  BY <1>1 DEF LimitIsReached
<1>. QED  BY <1>2, InvHolds, PTL
---------------------------------------------------------------------------
\* s[k] is the sum of f[1] .. f[k]
IsTotal(s, f, n) == s \in [0 .. n -> Nat] /\ s[0] = 0 /\ \A k \in 1 .. n : s[k] = s[k - 1] + f[k]

LEMMA TotalsExist ==
    ASSUME NEW n \in Nat, NEW f \in [1 .. n -> Nat]
    PROVE  \E s : IsTotal(s, f, n)
<1>. DEFINE step == [k \in 1 .. n |-> [x \in Nat |-> x + f[k]]]
<1>1. step \in [1 .. n -> [Nat -> Nat]]
  OBVIOUS
<1>2. \A k \in 1 .. n : \A x \in Nat : step[k][x] = x + f[k]
  OBVIOUS
<1>. HIDE DEF step
<1>3. PICK s : IsLoop(s, Nat, 0, n, step)
  <2>1. 0 \in Nat
    OBVIOUS
  <2>. QED  BY <1>1, <2>1, LoopsHaveValues
<1>4. ASSUME NEW k \in 1 .. n PROVE s[k] = s[k - 1] + f[k]
  <2>1. k - 1 \in 0 .. n /\ s \in [0 .. n -> Nat] /\ s[k] = step[k][s[k - 1]]
    BY <1>3 DEF IsLoop
  <2>2. s[k - 1] \in Nat
    BY <2>1
  <2>. QED  BY <1>2, <2>1, <2>2
<1>. QED  BY <1>3, <1>4 DEF IsLoop, IsTotal

Agree(f, g, n) == \A k \in 1 .. n : f[k] = g[k]

\* the first of the totals are totals
LEMMA TotalsStartAlike ==
    ASSUME NEW n \in Nat, NEW m \in Nat, m <= n, NEW f, NEW g, Agree(f, g, m),
           NEW s, IsTotal(s, f, n), NEW t, IsTotal(t, g, m)
    PROVE  \A k \in 0 .. m : s[k] = t[k]
<1>. DEFINE S == {k \in Nat : k <= m => s[k] = t[k]}
<1>1. 0 \in S
  BY DEF IsTotal
<1>2. ASSUME NEW k \in Nat, k \in S PROVE k + 1 \in S
  <2>1. SUFFICES ASSUME k + 1 <= m PROVE s[k + 1] = t[k + 1]
    OBVIOUS
  <2>2. k + 1 \in 1 .. m /\ k + 1 \in 1 .. n /\ (k + 1) - 1 = k /\ s[k] = t[k]
    BY <1>2, <2>1
  <2>3. s[k + 1] = s[k] + f[k + 1] /\ t[k + 1] = t[k] + g[k + 1] /\ f[k + 1] = g[k + 1]
    BY <2>2 DEF IsTotal, Agree
  <2>. QED  BY <2>2, <2>3
<1>. HIDE DEF S
<1>3. \A k \in Nat : k \in S
  BY <1>1, <1>2, EveryNumberIsReached
<1>. QED  BY <1>3 DEF S

LEMMA TotalsAreUnique ==
    ASSUME NEW n \in Nat, NEW f, NEW g, Agree(f, g, n),
           NEW s, IsTotal(s, f, n), NEW t, IsTotal(t, g, n)
    PROVE  s[n] = t[n]
<1>1. n \in 0 .. n /\ n <= n
  OBVIOUS
<1>2. \A k \in 0 .. n : s[k] = t[k]
  BY <1>1, TotalsStartAlike
<1>. QED  BY <1>1, <1>2

AreNumbers(f, n) == \A k \in 1 .. n : f[k] \in Nat

DifferAt(f, g, i, n) == \A k \in 1 .. n : k # i => f[k] = g[k]

\* another term at one place changes the total by the difference
LEMMA TotalsChange ==
    ASSUME NEW n \in Nat, NEW i \in 1 .. n, NEW f, AreNumbers(f, n), NEW g, AreNumbers(g, n),
           DifferAt(f, g, i, n),
           NEW s, IsTotal(s, f, n), NEW t, IsTotal(t, g, n)
    PROVE  s[n] + g[i] = t[n] + f[i]
<1>. DEFINE S == {k \in Nat : k <= n => IF k < i THEN s[k] = t[k] ELSE s[k] + g[i] = t[k] + f[i]}
<1>1. 0 \in S
  BY DEF IsTotal
<1>2. ASSUME NEW k \in Nat, k \in S PROVE k + 1 \in S
  <2>1. SUFFICES ASSUME k + 1 <= n
                 PROVE  IF k + 1 < i THEN s[k + 1] = t[k + 1]
                        ELSE s[k + 1] + g[i] = t[k + 1] + f[i]
    OBVIOUS
  <2>2. k + 1 \in 1 .. n /\ (k + 1) - 1 = k /\ k \in 0 .. n
    BY <2>1
  <2>3. IF k < i THEN s[k] = t[k] ELSE s[k] + g[i] = t[k] + f[i]
    BY <1>2, <2>1
  <2>4. s[k + 1] = s[k] + f[k + 1] /\ t[k + 1] = t[k] + g[k + 1]
    BY <2>2 DEF IsTotal
  <2>5. s[k] \in Nat /\ t[k] \in Nat /\ f[k + 1] \in Nat /\ g[k + 1] \in Nat /\ f[i] \in Nat /\ g[i] \in Nat
    BY <2>2 DEF IsTotal, AreNumbers
  <2>6. k + 1 = i => f[k + 1] = f[i] /\ g[k + 1] = g[i]
    OBVIOUS
  <2>7. k + 1 # i => f[k + 1] = g[k + 1]
    BY <2>2 DEF DifferAt
  <2>8. CASE k + 1 < i
    BY <2>2, <2>3, <2>4, <2>7, <2>8
  <2>9. CASE k + 1 = i
    <3>1. s[k] = t[k] /\ s[k + 1] = s[k] + f[i] /\ t[k + 1] = t[k] + g[i]
      BY <2>3, <2>4, <2>6, <2>9
    <3>. QED  BY <2>5, <2>9, <3>1
  <2>10. CASE k + 1 > i
    <3>1. s[k] + g[i] = t[k] + f[i] /\ s[k + 1] = s[k] + f[k + 1] /\ t[k + 1] = t[k] + f[k + 1]
      BY <2>3, <2>4, <2>7, <2>10
    <3>2. (s[k] + f[k + 1]) + g[i] = (t[k] + f[k + 1]) + f[i]
      <4>. DEFINE a == s[k]
                  b == t[k]
                  x == f[k + 1]
                  y == g[i]
                  z == f[i]
      <4>1. a \in Nat /\ b \in Nat /\ x \in Nat /\ y \in Nat /\ z \in Nat /\ a + y = b + z
        BY <2>5, <3>1
      <4>. HIDE DEF a, b, x, y, z
      <4>2. (a + x) + y = (b + x) + z
        BY <4>1
      <4>. QED  BY <4>2 DEF a, b, x, y, z
    <3>. QED  BY <2>10, <3>1, <3>2
  <2>. QED  BY <2>8, <2>9, <2>10
<1>. HIDE DEF S
<1>3. \A k \in Nat : k \in S
  BY <1>1, <1>2, EveryNumberIsReached
<1>. QED  BY <1>3 DEF S

\* k places, each of its own
AreDistinct(c, k) == c \in [1 .. k -> Nat \ {0}] /\ IsInjective(c)

LEMMA OneIsFarOut ==
    ASSUME NEW k \in Nat, NEW c, AreDistinct(c, k + 1)
    PROVE  \E m \in 1 .. k + 1 : c[m] > k
<1>1. SUFFICES ASSUME \A m \in 1 .. k + 1 : ~(c[m] > k) PROVE FALSE
  OBVIOUS
<1>2. c \in [1 .. k + 1 -> 1 .. k]
  BY <1>1 DEF AreDistinct
<1>3. /\ IsFiniteSet(1 .. k) /\ Cardinality(1 .. k) = k
      /\ IsFiniteSet(1 .. k + 1) /\ Cardinality(1 .. k + 1) = k + 1
  BY FS_Interval
<1>4. \E x, y \in 1 .. k + 1 : x # y /\ c[x] = c[y]
  <2>1. Cardinality(1 .. k) < Cardinality(1 .. k + 1)
    BY <1>3
  <2>. QED  BY <1>2, <1>3, <2>1, FS_PigeonHole
<1>. QED  BY <1>4 DEF AreDistinct, IsInjective

\* k distinct places hold no more than the first k of what falls
FirstHoldMost(w, k) ==
    \A c, s, b : AreDistinct(c, k) /\ IsTotal(s, [j \in 1 .. k |-> w[c[j]]], k)
                    /\ IsTotal(b, [j \in 1 .. k |-> w[j]], k)
                 => s[k] <= b[k]

Falls(w) == w \in [Nat \ {0} -> Nat] /\ \A p, q \in Nat \ {0} : p <= q => w[q] <= w[p]

LEMMA FirstHoldMostStep ==
    ASSUME NEW w, Falls(w), NEW k \in Nat, FirstHoldMost(w, k)
    PROVE  FirstHoldMost(w, k + 1)
<1>. DEFINE n == k + 1
<1>1. SUFFICES ASSUME NEW c, NEW s, NEW b, AreDistinct(c, n),
                      IsTotal(s, [j \in 1 .. n |-> w[c[j]]], n), IsTotal(b, [j \in 1 .. n |-> w[j]], n)
               PROVE  s[n] <= b[n]
  BY DEF FirstHoldMost
<1>2. PICK m \in 1 .. n : c[m] > k
  BY <1>1, OneIsFarOut
<1>3. c \in [1 .. n -> Nat \ {0}] /\ \A i, j \in 1 .. n : c[i] = c[j] => i = j
  BY <1>1 DEF AreDistinct, IsInjective
<1>. DEFINE e == [j \in 1 .. k |-> IF j = m THEN c[n] ELSE c[j]]
            f == [j \in 1 .. k |-> w[c[j]]]
            g == [j \in 1 .. k |-> w[e[j]]]
            v == [j \in 1 .. k |-> w[j]]
<1>4. AreDistinct(e, k)
  <2>1. e \in [1 .. k -> Nat \ {0}]
    BY <1>3
  <2>2. ASSUME NEW i \in 1 .. k, NEW j \in 1 .. k, e[i] = e[j] PROVE i = j
    <3>1. i \in 1 .. n /\ j \in 1 .. n /\ n \in 1 .. n /\ i # n /\ j # n
      OBVIOUS
    <3>. QED  BY <1>3, <2>2, <3>1
  <2>. QED  BY <2>1, <2>2 DEF AreDistinct, IsInjective
<1>5. /\ f \in [1 .. k -> Nat] /\ g \in [1 .. k -> Nat] /\ v \in [1 .. k -> Nat]
      /\ [j \in 1 .. n |-> w[c[j]]] \in [1 .. n -> Nat] /\ [j \in 1 .. n |-> w[j]] \in [1 .. n -> Nat]
  <2>1. \A j \in 1 .. k : e[j] \in Nat \ {0}
    BY <1>4 DEF AreDistinct
  <2>. HIDE DEF e
  <2>. QED  BY <1>3, <2>1, SMTT(20) DEF Falls
<1>6. PICK s1 : IsTotal(s1, f, k)
  BY <1>5, TotalsExist
<1>7. PICK t : IsTotal(t, g, k)
  BY <1>5, TotalsExist
<1>8. PICK b1 : IsTotal(b1, v, k)
  BY <1>5, TotalsExist
<1>9. s[k] = s1[k]
  <2>. DEFINE ff == [j \in 1 .. n |-> w[c[j]]]
  <2>1. Agree(ff, f, k)
    BY DEF Agree
  <2>2. /\ ff \in [1 .. n -> Nat] /\ IsTotal(s, ff, n) /\ k \in 0 .. n /\ n \in Nat /\ k <= n
        /\ f \in [1 .. k -> Nat] /\ k \in 0 .. k
    BY <1>1, <1>5
  <2>. HIDE DEF ff, f, n
  <2>3. \A j \in 0 .. k : s[j] = s1[j]
    BY <1>6, <2>1, <2>2, TotalsStartAlike
  <2>. QED  BY <2>3
<1>10. b[k] = b1[k]
  <2>. DEFINE ff == [j \in 1 .. n |-> w[j]]
  <2>1. Agree(ff, v, k)
    BY DEF Agree
  <2>2. /\ ff \in [1 .. n -> Nat] /\ IsTotal(b, ff, n) /\ k \in 0 .. n /\ n \in Nat /\ k <= n
        /\ v \in [1 .. k -> Nat] /\ k \in 0 .. k
    BY <1>1, <1>5
  <2>. HIDE DEF ff, v, n
  <2>3. \A j \in 0 .. k : b[j] = b1[j]
    BY <1>8, <2>1, <2>2, TotalsStartAlike
  <2>. QED  BY <2>3
<1>11. t[k] <= b1[k]
  BY <1>4, <1>7, <1>8 DEF FirstHoldMost
<1>12. s[n] = s[k] + w[c[n]] /\ b[n] = b[k] + w[n]
  <2>1. n \in 1 .. n /\ n - 1 = k
    OBVIOUS
  <2>. HIDE DEF n
  <2>. QED  BY <1>1, <2>1 DEF IsTotal
<1>13. w[c[m]] <= w[n]
  BY <1>2, <1>3 DEF Falls
<1>14. /\ s[k] \in Nat /\ t[k] \in Nat /\ b[k] \in Nat /\ b1[k] \in Nat /\ s[n] \in Nat /\ b[n] \in Nat
       /\ w[c[m]] \in Nat /\ w[c[n]] \in Nat /\ w[n] \in Nat
  <2>1. k \in 0 .. k /\ n \in 0 .. n /\ k \in 0 .. n
    OBVIOUS
  <2>2. s[k] \in Nat /\ t[k] \in Nat /\ b[k] \in Nat /\ b1[k] \in Nat /\ s[n] \in Nat /\ b[n] \in Nat
    <3>. HIDE DEF n
    <3>. QED  BY <1>1, <1>7, <1>8, <2>1 DEF IsTotal
  <2>. QED  BY <1>3, <2>2, SMTT(20) DEF Falls
<1>15. t[k] + w[c[m]] = s1[k] + w[c[n]]
  <2>1. CASE m = n
    <3>1. Agree(f, g, k)
      BY <2>1 DEF Agree
    <3>. HIDE DEF e, f, g, v, n
    <3>3. s1[k] = t[k]
      BY <1>6, <1>7, <3>1, TotalsAreUnique
    <3>. QED  BY <2>1, <3>3
  <2>2. CASE m # n
    <3>1. m \in 1 .. k
      BY <2>2
    <3>2. f[m] = w[c[m]] /\ g[m] = w[c[n]] /\ DifferAt(f, g, m, k)
      BY <3>1 DEF DifferAt
    <3>0. AreNumbers(f, k) /\ AreNumbers(g, k)
      BY <1>5 DEF AreNumbers
    <3>. HIDE DEF f, g
    <3>3. s1[k] + g[m] = t[k] + f[m]
      BY <1>6, <1>7, <3>0, <3>1, <3>2, TotalsChange
    <3>. QED  BY <3>2, <3>3
  <2>. QED  BY <2>1, <2>2
<1>16. /\ s[k] = s1[k] /\ b[k] = b1[k] /\ t[k] <= b1[k] /\ t[k] + w[c[m]] = s1[k] + w[c[n]]
       /\ s[n] = s[k] + w[c[n]] /\ b[n] = b[k] + w[n] /\ w[c[m]] <= w[n]
  BY <1>9, <1>10, <1>11, <1>12, <1>13, <1>15
<1>. HIDE DEF n
<1>. QED  BY <1>14, <1>16

LEMMA FirstHoldMostAlways ==
    ASSUME NEW w, Falls(w)
    PROVE  \A k \in Nat : FirstHoldMost(w, k)
<1>. DEFINE S == {k \in Nat : FirstHoldMost(w, k)}
<1>1. 0 \in S
  BY DEF FirstHoldMost, IsTotal
<1>2. ASSUME NEW k \in Nat, k \in S PROVE k + 1 \in S
  BY <1>2, FirstHoldMostStep
<1>. HIDE DEF S
<1>3. \A k \in Nat : k \in S
  BY <1>1, <1>2, EveryNumberIsReached
<1>. QED  BY <1>3 DEF S
---------------------------------------------------------------------------
\* Places weigh the less the later they come.
Weighs(d, n) ==
    /\ d \in [1 .. n + 1 -> Nat] /\ \A j, k \in 1 .. n + 1 : j < k => d[j] > d[k]

\* one step of a sum that is weighted: e is what the first has more than the
\* other so far, and more weight counts it for more
LEMMA WeightedStep ==
    ASSUME NEW e \in Nat, NEW e1 \in Nat, NEW v \in Nat, NEW g \in Nat, NEW x \in Nat, NEW y \in Nat,
           NEW d \in Nat, NEW d1 \in Nat, d1 < d, e1 + g = e + v,
           x + e * d <= y
    PROVE  /\ (x + g * d) + e1 * d1 <= y + v * d
           /\ x + e * d < y \/ e1 > 0 => (x + g * d) + e1 * d1 < y + v * d
<1>1. (e1 + g) * d = e1 * d + g * d /\ (e + v) * d = e * d + v * d
  OBVIOUS
<1>2. e1 * d + g * d = e * d + v * d
  BY <1>1
<1>3. e1 * d1 <= e1 * d /\ (e1 > 0 => e1 * d1 < e1 * d)
  <2>1. CASE e1 = 0
    BY <2>1
  <2>2. CASE e1 > 0
    <3>1. e1 \in Nat \ {0} /\ d1 * e1 < d * e1
      BY <2>2, TimesKeepsOrder
    <3>2. d1 * e1 = e1 * d1 /\ d * e1 = e1 * d /\ e1 * d \in Nat /\ e1 * d1 \in Nat
      OBVIOUS
    <3>. QED  BY <3>1, <3>2
  <2>. QED  BY <2>1, <2>2
<1>4. e * d \in Nat /\ e1 * d \in Nat /\ e1 * d1 \in Nat /\ g * d \in Nat /\ v * d \in Nat
  OBVIOUS
<1>. DEFINE ed == e * d
            f == e1 * d
            f1 == e1 * d1
            gd == g * d
            vd == v * d
<1>5. /\ ed \in Nat /\ f \in Nat /\ f1 \in Nat /\ gd \in Nat /\ vd \in Nat
      /\ f + gd = ed + vd /\ f1 <= f /\ (e1 > 0 => f1 < f) /\ x + ed <= y
  BY <1>2, <1>3, <1>4
<1>. HIDE DEF ed, f, f1, gd, vd
<1>6. /\ (x + gd) + f1 <= y + vd
      /\ x + ed < y \/ e1 > 0 => (x + gd) + f1 < y + vd
  BY <1>5
<1>. QED  BY <1>6 DEF ed, f, f1, gd, vd

Weighted(f, d, n) == [k \in 1 .. n |-> f[k] * d[k]]

Below(a, b, n) == \A k \in 0 .. n : a[k] <= b[k]

\* what falls short of another total up to every place falls short of it
\* when weighted, unless it is the same everywhere
LEMMA WeightedTotals ==
    ASSUME NEW n \in Nat, NEW d, Weighs(d, n), NEW v \in [1 .. n -> Nat], NEW g \in [1 .. n -> Nat],
           NEW a, IsTotal(a, g, n), NEW b, IsTotal(b, v, n), Below(a, b, n),
           NEW x, IsTotal(x, Weighted(g, d, n), n),
           NEW y, IsTotal(y, Weighted(v, d, n), n)
    PROVE  x[n] <= y[n] /\ (x[n] = y[n] <=> Agree(g, v, n))
<1>. DEFINE e(k) == b[k] - a[k]
            S == {k \in Nat : k <= n =>
                    /\ x[k] + e(k) * d[k + 1] <= y[k]
                    /\ (\E j \in 0 .. k : a[j] # b[j]) => x[k] + e(k) * d[k + 1] < y[k]}
<1>1. ASSUME NEW k \in 0 .. n PROVE e(k) \in Nat /\ x[k] \in Nat /\ y[k] \in Nat /\ d[k + 1] \in Nat
  <2>1. a[k] \in Nat /\ b[k] \in Nat /\ x[k] \in Nat /\ y[k] \in Nat /\ a[k] <= b[k]
    BY DEF IsTotal, Below
  <2>2. k + 1 \in 1 .. n + 1
    OBVIOUS
  <2>. QED  BY <2>1, <2>2 DEF Weighs
<1>2. 0 \in S
  <2>1. a[0] = 0 /\ b[0] = 0 /\ x[0] = 0 /\ y[0] = 0
    BY DEF IsTotal
  <2>2. 0 \in 0 .. n /\ d[0 + 1] \in Nat
    BY <1>1
  <2>3. e(0) * d[0 + 1] = 0
    BY <2>1, <2>2
  <2>4. \A j \in 0 .. 0 : j = 0
    OBVIOUS
  <2>. QED  BY <2>1, <2>3, <2>4
<1>3. ASSUME NEW k \in Nat, k \in S PROVE k + 1 \in S
  <2>. DEFINE m == k + 1
  <2>1. SUFFICES ASSUME m <= n
                 PROVE  /\ x[m] + e(m) * d[m + 1] <= y[m]
                        /\ (\E j \in 0 .. m : a[j] # b[j]) => x[m] + e(m) * d[m + 1] < y[m]
    OBVIOUS
  <2>2. k \in 0 .. n /\ m \in 0 .. n /\ m \in 1 .. n /\ m - 1 = k /\ m \in 1 .. n + 1 /\ m + 1 \in 1 .. n + 1 /\ m < m + 1
    BY <2>1
  <2>3. /\ x[k] + e(k) * d[m] <= y[k]
        /\ (\E j \in 0 .. k : a[j] # b[j]) => x[k] + e(k) * d[m] < y[k]
    BY <1>3, <2>2
  <2>4. /\ a[m] = a[k] + g[m] /\ b[m] = b[k] + v[m]
        /\ x[m] = x[k] + g[m] * d[m] /\ y[m] = y[k] + v[m] * d[m]
    <3>. HIDE DEF m
    <3>. QED  BY <2>2 DEF IsTotal, Weighted
  <2>5. d[m + 1] < d[m] /\ d[m] \in Nat /\ d[m + 1] \in Nat
    <3>. HIDE DEF m
    <3>. QED  BY <2>2 DEF Weighs
  <2>6. /\ e(k) \in Nat /\ e(m) \in Nat /\ x[k] \in Nat /\ y[k] \in Nat /\ g[m] \in Nat /\ v[m] \in Nat
        /\ a[k] \in Nat /\ b[k] \in Nat
    <3>. HIDE DEF m
    <3>. QED  BY <1>1, <2>2 DEF IsTotal
  <2>7. e(m) + g[m] = e(k) + v[m]
    <3>. DEFINE am == a[m]
                bm == b[m]
                ak == a[k]
                bk == b[k]
                gm == g[m]
                vm == v[m]
    <3>1. /\ am = ak + gm /\ bm = bk + vm
          /\ ak \in Nat /\ bk \in Nat /\ gm \in Nat /\ vm \in Nat
      BY <2>4, <2>6
    <3>. HIDE DEF am, bm, ak, bk, gm, vm
    <3>2. (bm - am) + gm = (bk - ak) + vm
      BY <3>1
    <3>. QED  BY <3>2 DEF am, bm, ak, bk, gm, vm
  <2>8. (\E j \in 0 .. m : a[j] # b[j]) => (\E j \in 0 .. k : a[j] # b[j]) \/ e(m) > 0
    <3>1. \A j \in 0 .. m : j \in 0 .. k \/ j = m
      OBVIOUS
    <3>2. a[m] # b[m] => e(m) > 0
      <4>1. a[m] \in Nat /\ b[m] \in Nat
        <5>. HIDE DEF m
        <5>. QED  BY <2>2 DEF IsTotal
      <4>. HIDE DEF m
      <4>. QED  BY <4>1, <2>6
    <3>. QED  BY <3>1, <3>2
  <2>. DEFINE ek == e(k)
              em == e(m)
              gm == g[m]
              vm == v[m]
              dm == d[m]
              d1 == d[m + 1]
              xk == x[k]
              yk == y[k]
  <2>9. /\ ek \in Nat /\ em \in Nat /\ vm \in Nat /\ gm \in Nat /\ xk \in Nat /\ yk \in Nat
        /\ dm \in Nat /\ d1 \in Nat /\ d1 < dm /\ em + gm = ek + vm /\ xk + ek * dm <= yk
    BY <2>3, <2>5, <2>6, <2>7
  <2>. HIDE DEF ek, em, gm, vm, dm, d1, xk, yk
  <2>10. /\ (xk + gm * dm) + em * d1 <= yk + vm * dm
         /\ xk + ek * dm < yk \/ em > 0 => (xk + gm * dm) + em * d1 < yk + vm * dm
    BY <2>9, WeightedStep
  <2>11. x[m] = xk + gm * dm /\ y[m] = yk + vm * dm
    BY <2>4 DEF gm, vm, dm, xk, yk
  <2>12. /\ x[m] + em * d1 <= y[m]
         /\ xk + ek * dm < yk \/ em > 0 => x[m] + em * d1 < y[m]
    BY <2>10, <2>11
  <2>13. (\E j \in 0 .. k : a[j] # b[j]) => xk + ek * dm < yk
    BY <2>3 DEF xk, ek, dm, yk
  <2>14. (\E j \in 0 .. m : a[j] # b[j]) => (\E j \in 0 .. k : a[j] # b[j]) \/ em > 0
    BY <2>8 DEF em
  <2>15. (\E j \in 0 .. m : a[j] # b[j]) => x[m] + em * d1 < y[m]
    BY <2>12, <2>13, <2>14
  <2>. QED  BY <2>12, <2>15 DEF em, d1
<1>. HIDE DEF S
<1>4. n \in S
  <2>1. \A k \in Nat : k \in S
    BY <1>2, <1>3, EveryNumberIsReached
  <2>. QED  BY <2>1
<1>5. /\ x[n] + e(n) * d[n + 1] <= y[n]
      /\ (\E j \in 0 .. n : a[j] # b[j]) => x[n] + e(n) * d[n + 1] < y[n]
  BY <1>4 DEF S
<1>6. n \in 0 .. n /\ e(n) * d[n + 1] \in Nat /\ x[n] \in Nat /\ y[n] \in Nat
  <2>1. n \in 0 .. n
    OBVIOUS
  <2>2. e(n) \in Nat /\ d[n + 1] \in Nat
    BY <1>1, <2>1
  <2>. DEFINE en == e(n)
              dn == d[n + 1]
  <2>. HIDE DEF en, dn
  <2>3. en * dn \in Nat
    <3>1. en \in Nat /\ dn \in Nat
      BY <2>2 DEF en, dn
    <3>. QED  BY <3>1
  <2>. QED  BY <1>1, <2>1, <2>3 DEF en, dn
<1>7. x[n] <= y[n] /\ ((\E j \in 0 .. n : a[j] # b[j]) => x[n] < y[n])
  <2>. DEFINE ed == e(n) * d[n + 1]
  <2>. HIDE DEF ed
  <2>1. ed \in Nat /\ x[n] + ed <= y[n] /\ ((\E j \in 0 .. n : a[j] # b[j]) => x[n] + ed < y[n])
    BY <1>5, <1>6 DEF ed
  <2>2. x[n] + ed < y[n] => x[n] < y[n]
    BY <1>6, <2>1
  <2>3. x[n] <= y[n]
    BY <1>6, <2>1
  <2>. QED  BY <2>1, <2>2, <2>3
<1>8. ASSUME x[n] = y[n] PROVE Agree(g, v, n)
  <2>1. \A j \in 0 .. n : a[j] = b[j]
    BY <1>6, <1>7, <1>8
  <2>2. ASSUME NEW k \in 1 .. n PROVE g[k] = v[k]
    <3>1. k \in 0 .. n /\ k - 1 \in 0 .. n
      OBVIOUS
    <3>2. a[k] = a[k - 1] + g[k] /\ b[k] = b[k - 1] + v[k]
      BY DEF IsTotal
    <3>3. a[k] = b[k] /\ a[k - 1] = b[k - 1] /\ a[k - 1] \in Nat /\ g[k] \in Nat /\ v[k] \in Nat
      BY <2>1, <3>1 DEF IsTotal
    <3>. QED  BY <3>2, <3>3
  <2>. QED  BY <2>2 DEF Agree
<1>9. ASSUME Agree(g, v, n) PROVE x[n] = y[n]
  <2>. DEFINE gd == Weighted(g, d, n)
              vd == Weighted(v, d, n)
  <2>1. Agree(gd, vd, n)
    BY <1>9 DEF Agree, Weighted
  <2>2. IsTotal(x, gd, n) /\ IsTotal(y, vd, n)
    OBVIOUS
  <2>. HIDE DEF gd, vd
  <2>. QED  BY <2>1, <2>2, TotalsAreUnique
<1>. QED  BY <1>7, <1>8, <1>9
---------------------------------------------------------------------------
\* p[k] is 2 to the k
IsPower(p, n) == p \in [0 .. n -> Nat \ {0}] /\ p[0] = 1 /\ \A k \in 1 .. n : p[k] = 2 * p[k - 1]

LEMMA GainIsAPower ==
    ASSUME NEW r \in Nat
    PROVE  \E p : IsPower(p, r) /\ Gain(r) = p[r] - 1
<1>. DEFINE step == [k \in 1 .. r |-> [x \in Nat \ {0} |-> 2 * x]]
            power == CHOOSE f : f = [n \in 0 .. r |-> IF n = 0 THEN 1 ELSE 2 * f[n - 1]]
<1>1. step \in [1 .. r -> [Nat \ {0} -> Nat \ {0}]] /\ 1 \in Nat \ {0}
  OBVIOUS
<1>2. \A k \in 1 .. r : \A x \in Nat \ {0} : step[k][x] = 2 * x
  OBVIOUS
<1>. HIDE DEF step
<1>3. PICK f : IsLoop(f, Nat \ {0}, 1, r, step)
  BY <1>1, LoopsHaveValues
<1>4. f \in [0 .. r -> Nat \ {0}] /\ f[0] = 1 /\ \A k \in 1 .. r : f[k] = 2 * f[k - 1]
  <2>1. ASSUME NEW k \in 1 .. r PROVE f[k] = 2 * f[k - 1]
    <3>1. k - 1 \in 0 .. r /\ f \in [0 .. r -> Nat \ {0}] /\ f[k] = step[k][f[k - 1]]
      BY <1>3 DEF IsLoop
    <3>2. f[k - 1] \in Nat \ {0}
      BY <3>1
    <3>. QED  BY <1>2, <3>1, <3>2
  <2>. QED  BY <1>3, <2>1 DEF IsLoop
<1>5. f = [n \in 0 .. r |-> IF n = 0 THEN 1 ELSE 2 * f[n - 1]]
  BY <1>4
<1>6. power = [n \in 0 .. r |-> IF n = 0 THEN 1 ELSE 2 * power[n - 1]]
  BY <1>5
<1>7. Gain(r) = power[r] - 1
  BY DEF Gain
<1>. HIDE DEF power
<1>. DEFINE S == {k \in Nat : k <= r => power[k] = f[k]}
<1>8. 0 \in S
  BY <1>4, <1>6
<1>9. ASSUME NEW k \in Nat, k \in S PROVE k + 1 \in S
  <2>1. SUFFICES ASSUME k + 1 <= r PROVE power[k + 1] = f[k + 1]
    OBVIOUS
  <2>2. k + 1 \in 1 .. r /\ k + 1 \in 0 .. r /\ k + 1 # 0 /\ (k + 1) - 1 = k /\ power[k] = f[k]
    BY <1>9, <2>1
  <2>. QED  BY <1>4, <1>6, <2>2
<1>. HIDE DEF S
<1>10. \A k \in Nat : k \in S
  BY <1>8, <1>9, EveryNumberIsReached
<1>11. power[r] = f[r]
  BY <1>10 DEF S
<1>. QED  BY <1>4, <1>7, <1>11 DEF IsPower

\* the smaller power is on the way to the larger one, and below it
LEMMA PowersGrow ==
    ASSUME NEW n \in Nat, NEW m \in Nat, m <= n, NEW p, IsPower(p, n), NEW q, IsPower(q, m)
    PROVE  q[m] <= p[n] /\ (m < n => q[m] < p[n])
<1>. DEFINE S == {k \in Nat : k <= n =>
                    /\ k <= m => p[k] = q[k]
                    /\ k > m => p[k] > q[m]}
<1>1. 0 \in S
  BY DEF IsPower
<1>2. ASSUME NEW k \in Nat, k \in S PROVE k + 1 \in S
  <2>1. SUFFICES ASSUME k + 1 <= n
                 PROVE  /\ k + 1 <= m => p[k + 1] = q[k + 1]
                        /\ k + 1 > m => p[k + 1] > q[m]
    OBVIOUS
  <2>2. /\ k \in 0 .. n /\ k + 1 \in 1 .. n /\ (k + 1) - 1 = k
        /\ k <= m => p[k] = q[k]
        /\ k > m => p[k] > q[m]
    BY <1>2, <2>1
  <2>3. p[k + 1] = 2 * p[k] /\ p[k] \in Nat \ {0} /\ q[m] \in Nat \ {0}
    <3>1. m \in 0 .. m
      OBVIOUS
    <3>. QED  BY <2>2, <3>1 DEF IsPower
  <2>4. CASE k + 1 <= m
    <3>1. k + 1 \in 1 .. m
      BY <2>4
    <3>2. q[k + 1] = 2 * q[k]
      BY <2>2, <3>1 DEF IsPower
    <3>. QED  BY <2>2, <2>3, <2>4, <3>2
  <2>5. CASE k + 1 > m
    <3>1. p[k] = q[m] \/ p[k] > q[m]
      <4>1. k = m \/ k > m
        BY <2>5
      <4>. QED  BY <2>2, <4>1
    <3>2. p[k + 1] > q[m]
      BY <2>3, <3>1
    <3>. QED  BY <2>5, <3>2
  <2>. QED  BY <2>4, <2>5
<1>. HIDE DEF S
<1>3. n \in S
  <2>1. \A k \in Nat : k \in S
    BY <1>1, <1>2, EveryNumberIsReached
  <2>. QED  BY <2>1
<1>4. p[n] \in Nat /\ q[m] \in Nat
  <2>1. n \in 0 .. n /\ m \in 0 .. m
    OBVIOUS
  <2>. QED  BY <2>1 DEF IsPower
<1>5. n = m \/ n > m
  OBVIOUS
<1>6. /\ n <= m => p[n] = q[n]
      /\ n > m => p[n] > q[m]
  BY <1>3 DEF S
<1>7. CASE n = m
  BY <1>4, <1>6, <1>7
<1>8. CASE n > m
  BY <1>4, <1>6, <1>8
<1>. QED  BY <1>5, <1>7, <1>8

\* a higher relevance gains more
LEMMA GainGrows ==
    ASSUME NEW r \in Nat, NEW q \in Nat
    PROVE  /\ Gain(r) \in Nat /\ Gain(0) = 0 /\ (r > 0 => Gain(r) > 0)
           /\ r <= q <=> Gain(r) <= Gain(q)
<1>1. ASSUME NEW m \in Nat, NEW n \in Nat, m <= n
      PROVE  Gain(m) \in Nat /\ Gain(n) \in Nat /\ Gain(m) <= Gain(n) /\ (m < n => Gain(m) < Gain(n))
  <2>1. PICK u : IsPower(u, m) /\ Gain(m) = u[m] - 1
    BY GainIsAPower
  <2>2. PICK v : IsPower(v, n) /\ Gain(n) = v[n] - 1
    BY GainIsAPower
  <2>3. u[m] \in Nat \ {0} /\ v[n] \in Nat \ {0}
    <3>1. m \in 0 .. m /\ n \in 0 .. n
      OBVIOUS
    <3>. QED  BY <2>1, <2>2, <3>1 DEF IsPower
  <2>4. u[m] <= v[n] /\ (m < n => u[m] < v[n])
    BY <1>1, <2>1, <2>2, PowersGrow
  <2>. QED  BY <2>1, <2>2, <2>3, <2>4
<1>2. Gain(0) = 0
  <2>1. PICK u : IsPower(u, 0) /\ Gain(0) = u[0] - 1
    BY GainIsAPower
  <2>. QED  BY <2>1 DEF IsPower
<1>3. Gain(r) \in Nat /\ Gain(q) \in Nat
  BY <1>1
<1>4. r > 0 => Gain(r) > 0
  <2>1. r > 0 => Gain(0) < Gain(r)
    BY <1>1
  <2>. QED  BY <1>2, <2>1
<1>5. r <= q \/ q < r
  OBVIOUS
<1>6. r <= q => Gain(r) <= Gain(q)
  BY <1>1
<1>7. q < r => Gain(q) < Gain(r)
  BY <1>1
<1>. QED  BY <1>2, <1>3, <1>4, <1>5, <1>6, <1>7

\* the gain at each place, nothing beyond the list
Gains(list, n) == [k \in 1 .. n |-> IF k <= Len(list) THEN Gain(list[k]) ELSE 0]

LEMMA GainsAreNumbers ==
    ASSUME NEW n \in Nat, NEW list \in Seq(Nat)
    PROVE  Gains(list, n) \in [1 .. n -> Nat]
<1>1. ASSUME NEW k \in 1 .. n, k <= Len(list) PROVE Gain(list[k]) \in Nat
  <2>1. list[k] \in Nat
    BY <1>1
  <2>. QED  BY <2>1, GainGrows
<1>. QED  BY <1>1 DEF Gains

\* The loop over the relevances computes their weighted total, which places
\* that hold nothing do not change.
LEMMA DiscountedGainIsATotal ==
    ASSUME NEW n \in Nat, NEW weights, Agree(weights, Discounts, n),
           NEW list \in Seq(Nat), Len(list) <= n, AreNumbers(weights, n),
           NEW g, g = Gains(list, n),
           NEW x, IsTotal(x, Weighted(g, weights, n), n)
    PROVE  DiscountedGain(list) = x[n]
<1>. DEFINE m == Len(list)
            gain == CHOOSE f : f = [k \in 0 .. Len(list) |-> IF k = 0 THEN 0
                                        ELSE f[k - 1] + Gain(list[k]) * Discounts[k]]
            f0 == [k \in 0 .. m |-> x[k]]
<1>1. m \in Nat /\ m <= n
  OBVIOUS
<1>2. ASSUME NEW k \in 1 .. n
      PROVE  /\ x[k] \in Nat /\ x[k - 1] \in Nat
             /\ k <= m => x[k] = x[k - 1] + Gain(list[k]) * Discounts[k]
             /\ k > m => x[k] = x[k - 1]
  <2>1. k \in 0 .. n /\ k - 1 \in 0 .. n
    OBVIOUS
  <2>2. x[k] \in Nat /\ x[k - 1] \in Nat /\ x[k] = x[k - 1] + g[k] * weights[k]
    BY <2>1 DEF IsTotal, Weighted
  <2>3. k <= m => g[k] * weights[k] = Gain(list[k]) * Discounts[k]
    BY DEF Gains, Agree
  <2>4. k > m => g[k] * weights[k] = 0
    <3>1. k > m => g[k] = 0
      BY <1>1 DEF Gains
    <3>2. weights[k] \in Nat
      BY DEF AreNumbers
    <3>. QED  BY <3>1, <3>2
  <2>. QED  BY <2>2, <2>3, <2>4
<1>. HIDE DEF m
<1>3. f0 = [k \in 0 .. m |-> IF k = 0 THEN 0 ELSE f0[k - 1] + Gain(list[k]) * Discounts[k]]
  <2>1. ASSUME NEW k \in 0 .. m
        PROVE  f0[k] = IF k = 0 THEN 0 ELSE f0[k - 1] + Gain(list[k]) * Discounts[k]
    <3>1. CASE k = 0
      BY <3>1 DEF IsTotal
    <3>2. CASE k # 0
      <4>1. k \in 1 .. n /\ k <= m /\ k - 1 \in 0 .. m
        BY <1>1, <3>2
      <4>2. f0[k - 1] = x[k - 1] /\ f0[k] = x[k]
        BY <4>1
      <4>. QED  BY <1>2, <3>2, <4>1, <4>2
    <3>. QED  BY <3>1, <3>2
  <2>. QED  BY <2>1
<1>4. gain = [k \in 0 .. m |-> IF k = 0 THEN 0 ELSE gain[k - 1] + Gain(list[k]) * Discounts[k]]
  BY <1>3 DEF m
<1>5. DiscountedGain(list) = gain[m]
  BY DEF DiscountedGain, m
<1>. HIDE DEF gain, f0
<1>. DEFINE S == {k \in Nat : (k <= m => gain[k] = x[k]) /\ (m <= k /\ k <= n => x[k] = x[m])}
<1>6. 0 \in S
  <2>1. gain[0] = 0
    BY <1>1, <1>4
  <2>2. m <= 0 => m = 0
    BY <1>1
  <2>. QED  BY <2>1, <2>2 DEF IsTotal
<1>7. ASSUME NEW k \in Nat, k \in S PROVE k + 1 \in S
  <2>1. ASSUME k + 1 <= m PROVE gain[k + 1] = x[k + 1]
    <3>0. k + 1 \in 1 .. n /\ k + 1 \in 0 .. m /\ k + 1 # 0 /\ (k + 1) - 1 = k /\ k <= m
      BY <1>1, <2>1
    <3>1. k + 1 \in 1 .. n /\ k + 1 \in 0 .. m /\ k + 1 # 0 /\ (k + 1) - 1 = k /\ gain[k] = x[k]
      BY <1>7, <3>0
    <3>2. gain[k + 1] = gain[k] + Gain(list[k + 1]) * Discounts[k + 1]
      BY <1>4, <3>1
    <3>3. x[k + 1] = x[k] + Gain(list[k + 1]) * Discounts[k + 1]
      BY <1>2, <2>1, <3>1
    <3>. QED  BY <3>1, <3>2, <3>3
  <2>2. ASSUME m <= k + 1, k + 1 <= n PROVE x[k + 1] = x[m]
    <3>1. CASE m = k + 1
      BY <3>1
    <3>2. CASE m # k + 1
      <4>1. k + 1 \in 1 .. n /\ k + 1 > m /\ m <= k /\ k <= n /\ (k + 1) - 1 = k
        BY <1>1, <2>2, <3>2
      <4>2. x[k] = x[m]
        BY <1>7, <4>1
      <4>. QED  BY <1>2, <4>1, <4>2
    <3>. QED  BY <3>1, <3>2
  <2>. QED  BY <2>1, <2>2
<1>. HIDE DEF S
<1>8. \A k \in Nat : k \in S
  BY <1>6, <1>7, EveryNumberIsReached
<1>9. gain[m] = x[m] /\ x[n] = x[m]
  <2>1. m \in S /\ n \in S
    BY <1>1, <1>8
  <2>. QED  BY <1>1, <2>1 DEF S
<1>. QED  BY <1>5, <1>9
---------------------------------------------------------------------------
\* best holds the locations that are judged, the most relevant first
IsGrading(best, judged) ==
    LET n == Cardinality(DOMAIN judged)
    IN  /\ n \in Nat /\ best \in [1 .. n -> DOMAIN judged]
        /\ \A p, q \in 1 .. n : best[p] = best[q] => p = q
        /\ \A l \in DOMAIN judged : \E p \in 1 .. n : best[p] = l
        /\ \A p, q \in 1 .. n : p <= q => judged[best[q]] <= judged[best[p]]

LEMMA GradedIsSorted ==
    ASSUME NEW judged, IsFiniteSet(DOMAIN judged), judged \in [DOMAIN judged -> Nat]
    PROVE  \E best : /\ IsGrading(best, judged)
                     /\ Graded(judged) = [p \in 1 .. Cardinality(DOMAIN judged) |-> judged[best[p]]]
<1>. DEFINE D == DOMAIN judged
            n == Cardinality(D)
            places == SetToSeq(D)
            value(i) == judged[places[i]]
            ahead == [i \in DOMAIN places |->
                        {j \in DOMAIN places : value(j) > value(i) \/ (value(j) = value(i) /\ j < i)}]
            order == InOrder(DOMAIN places, ahead)
            best == [p \in 1 .. n |-> places[order[p]]]
<1>1. n \in Nat /\ \E f : f \in Bijection(1 .. n, D)
  BY FS_CardinalityType DEF ExistsBijection
<1>2. places \in [1 .. n -> D] /\ IsInjective(places)
  <2>1. \E f \in [1 .. n -> D] : IsInjective(f)
    BY <1>1 DEF Bijection, Injection
  <2>. QED  BY <2>1 DEF SetToSeq
<1>3. IsFiniteSet(1 .. n) /\ Cardinality(1 .. n) = n
  BY <1>1, FS_Interval
<1>4. \A l \in D : \E i \in 1 .. n : places[i] = l
  <2>1. places \in Injection(1 .. n, D)
    BY <1>2 DEF Injection, IsInjective
  <2>2. Cardinality(1 .. n) = Cardinality(D)
    BY <1>3
  <2>. HIDE DEF places, n, D
  <2>3. IsFiniteSet(D)
    BY DEF D
  <2>4. places \in Surjection(1 .. n, D)
    BY <2>1, <2>2, <2>3, FS_Injection
  <2>. QED  BY <2>4 DEF Surjection
<1>5. Graded(judged) = [p \in DOMAIN order |-> value(order[p])]
  BY DEF Graded
<1>6. DOMAIN places = 1 .. n
  BY <1>2
<1>7. \A i \in 1 .. n : value(i) \in Nat
  BY <1>2
<1>. HIDE DEF places
<1>8. /\ \A i \in 1 .. n : value(i) \in Nat
      /\ \A i, j \in 1 .. n : j \in ahead[i] <=> value(j) > value(i) \/ (value(j) = value(i) /\ j < i)
      /\ ahead \in [1 .. n -> SUBSET (1 .. n)]
  BY <1>6, <1>7
<1>. HIDE DEF ahead, value, n
<1>9. /\ \A i \in 1 .. n : i \notin ahead[i]
      /\ \A i, j \in 1 .. n : i # j => i \in ahead[j] \/ j \in ahead[i]
      /\ \A i, j, k \in 1 .. n : i \in ahead[j] /\ j \in ahead[k] => i \in ahead[k]
  <2>1. \A i \in 1 .. n : i \notin ahead[i]
    BY <1>1, <1>8
  <2>2. ASSUME NEW i \in 1 .. n, NEW j \in 1 .. n, i # j PROVE i \in ahead[j] \/ j \in ahead[i]
    <3>1. value(i) \in Nat /\ value(j) \in Nat /\ (i < j \/ j < i)
      BY <1>8, <1>1, <2>2
    <3>. QED  BY <1>8, <3>1
  <2>3. ASSUME NEW i \in 1 .. n, NEW j \in 1 .. n, NEW k \in 1 .. n, i \in ahead[j], j \in ahead[k]
        PROVE  i \in ahead[k]
    <3>1. value(i) \in Nat /\ value(j) \in Nat /\ value(k) \in Nat
      BY <1>8
    <3>2. value(i) > value(j) \/ (value(i) = value(j) /\ i < j)
      BY <1>8, <2>3
    <3>3. value(j) > value(k) \/ (value(j) = value(k) /\ j < k)
      BY <1>8, <2>3
    <3>4. value(i) > value(k) \/ (value(i) = value(k) /\ i < k)
      BY <3>1, <3>2, <3>3
    <3>. QED  BY <1>8, <3>4
  <2>. QED  BY <2>1, <2>2, <2>3
<1>. DEFINE S == 1 .. n
<1>. HIDE DEF S, order
<1>10. /\ Cardinality(S) = n /\ order \in [1 .. n -> S]
       /\ \A c \in S : \E p \in 1 .. n : order[p] = c
       /\ \A p, q \in 1 .. n : p < q => order[p] \in ahead[order[q]]
  <2>1. IsFiniteSet(S) /\ Cardinality(S) = n /\ ahead \in [S -> SUBSET S] /\ order = InOrder(S, ahead)
    BY <1>3, <1>6, <1>8 DEF S, order
  <2>2. /\ \A c \in S : c \notin ahead[c]
        /\ \A c, d \in S : c # d => c \in ahead[d] \/ d \in ahead[c]
        /\ \A c, d, e \in S : c \in ahead[d] /\ d \in ahead[e] => c \in ahead[e]
    BY <1>9 DEF S
  <2>3. /\ Cardinality(S) \in Nat
        /\ InOrder(S, ahead) \in [1 .. Cardinality(S) -> S]
        /\ \A c \in S : \E p \in 1 .. Cardinality(S) : InOrder(S, ahead)[p] = c
        /\ \A p, q \in 1 .. Cardinality(S) : p < q => InOrder(S, ahead)[p] \in ahead[InOrder(S, ahead)[q]]
    BY <2>1, <2>2, InOrderIsSorted
  <2>. QED  BY <2>1, <2>3
<1>11. \A p \in 1 .. n : order[p] \in 1 .. n /\ best[p] = places[order[p]] /\ best[p] \in D
  BY <1>2, <1>10 DEF S
<1>12. best \in [1 .. n -> D]
  BY <1>11
<1>13. \A p, q \in 1 .. n : p < q => order[p] # order[q] /\ order[p] \in ahead[order[q]]
  BY <1>9, <1>10 DEF S
<1>14. ASSUME NEW p \in 1 .. n, NEW q \in 1 .. n, best[p] = best[q] PROVE p = q
  <2>1. order[p] = order[q]
    BY <1>2, <1>11, <1>14 DEF IsInjective
  <2>2. p = q \/ p < q \/ q < p
    BY <1>1
  <2>. QED  BY <1>13, <2>1, <2>2
<1>15. ASSUME NEW l \in D PROVE \E p \in 1 .. n : best[p] = l
  <2>1. PICK i \in 1 .. n : places[i] = l
    BY <1>4
  <2>2. PICK p \in 1 .. n : order[p] = i
    BY <1>10, <2>1 DEF S
  <2>. QED  BY <1>11, <2>1, <2>2
<1>16. ASSUME NEW p \in 1 .. n, NEW q \in 1 .. n, p <= q PROVE judged[best[q]] <= judged[best[p]]
  <2>1. judged[best[p]] = value(order[p]) /\ judged[best[q]] = value(order[q])
    BY <1>11 DEF value
  <2>2. value(order[p]) \in Nat /\ value(order[q]) \in Nat
    BY <1>8, <1>11
  <2>3. CASE p = q
    BY <2>1, <2>2, <2>3
  <2>4. CASE p < q
    <3>1. value(order[p]) > value(order[q]) \/ value(order[p]) = value(order[q])
      BY <1>8, <1>11, <1>13, <2>4
    <3>. QED  BY <2>1, <2>2, <3>1
  <2>5. p = q \/ p < q
    BY <1>1, <1>16
  <2>. QED  BY <2>3, <2>4, <2>5
<1>17. Graded(judged) = [p \in 1 .. n |-> judged[best[p]]]
  <2>1. DOMAIN order = 1 .. n
    BY <1>10
  <2>2. \A p \in 1 .. n : value(order[p]) = judged[best[p]]
    BY <1>11 DEF value
  <2>. HIDE DEF best
  <2>. QED  BY <1>5, <2>1, <2>2
<1>18. IsGrading(best, judged)
  <2>. HIDE DEF best
  <2>. QED  BY <1>1, <1>12, <1>14, <1>15, <1>16 DEF IsGrading, n, D
<1>. QED  BY <1>17, <1>18 DEF n, D
---------------------------------------------------------------------------
\* what the place in the ideal ranking is worth, and what a result gains
Worth(best, judged) ==
    [p \in Nat \ {0} |-> IF p <= Cardinality(DOMAIN judged) THEN Gain(judged[best[p]]) ELSE 0]

LEMMA WorthFalls ==
    ASSUME NEW judged, judged \in [DOMAIN judged -> Nat], NEW best, IsGrading(best, judged)
    PROVE  Falls(Worth(best, judged))
<1>. DEFINE n == Cardinality(DOMAIN judged)
            w == Worth(best, judged)
<1>1. n \in Nat /\ \A p \in 1 .. n : judged[best[p]] \in Nat
  BY DEF IsGrading
<1>2. \A p \in Nat \ {0} : w[p] = IF p <= n THEN Gain(judged[best[p]]) ELSE 0
  BY DEF Worth
<1>3. DOMAIN w = Nat \ {0} /\ w = [p \in Nat \ {0} |-> w[p]]
  BY DEF Worth
<1>4. \A p, q \in 1 .. n : p <= q => judged[best[q]] <= judged[best[p]]
  BY DEF IsGrading
<1>. HIDE DEF n, w
<1>5. ASSUME NEW p \in Nat \ {0} PROVE w[p] \in Nat
  <2>1. p <= n => p \in 1 .. n
    BY <1>1
  <2>2. p <= n => Gain(judged[best[p]]) \in Nat
    BY <1>1, <2>1, GainGrows
  <2>. QED  BY <1>2, <2>2
<1>6. ASSUME NEW p \in Nat \ {0}, NEW q \in Nat \ {0}, p <= q PROVE w[q] <= w[p]
  <2>1. CASE q <= n
    <3>1. p \in 1 .. n /\ q \in 1 .. n /\ p <= n
      BY <1>1, <1>6, <2>1
    <3>2. judged[best[q]] <= judged[best[p]] /\ judged[best[q]] \in Nat /\ judged[best[p]] \in Nat
      BY <1>1, <1>4, <1>6, <3>1
    <3>3. Gain(judged[best[q]]) <= Gain(judged[best[p]])
      BY <3>2, GainGrows
    <3>. QED  BY <1>2, <2>1, <3>1, <3>3
  <2>2. CASE ~(q <= n)
    <3>1. w[q] = 0 /\ w[p] \in Nat
      BY <1>2, <1>5, <2>2
    <3>. QED  BY <3>1
  <2>. QED  BY <2>1, <2>2
<1>7. w \in [Nat \ {0} -> Nat]
  BY <1>3, <1>5
<1>. QED  BY <1>6, <1>7 DEF Falls, w

\* the first limit places are worth the ideal gain
LEMMA IdealIsWorth ==
    ASSUME NEW judged, IsFiniteSet(DOMAIN judged), judged \in [DOMAIN judged -> Nat],
           NEW best, IsGrading(best, judged),
           Graded(judged) = [p \in 1 .. Cardinality(DOMAIN judged) |-> judged[best[p]]],
           limit \in Nat \ {0}
    PROVE  /\ Ideal(judged) \in Seq(Nat) /\ Len(Ideal(judged)) <= limit
           /\ Len(Ideal(judged)) \in {limit, Cardinality(DOMAIN judged)}
           /\ Len(Ideal(judged)) <= Cardinality(DOMAIN judged)
           /\ \A k \in 1 .. limit : Gains(Ideal(judged), limit)[k] = Worth(best, judged)[k]
<1>. DEFINE n == Cardinality(DOMAIN judged)
            graded == Graded(judged)
            m == Min({limit, Len(graded)})
            ideal == Ideal(judged)
<1>1. n \in Nat /\ \A p \in 1 .. n : judged[best[p]] \in Nat
  BY DEF IsGrading
<1>2. graded \in Seq(Nat) /\ Len(graded) = n /\ \A p \in 1 .. n : graded[p] = judged[best[p]]
  <2>. DEFINE s == [p \in 1 .. n |-> judged[best[p]]]
  <2>1. graded = s
    OBVIOUS
  <2>2. s \in [1 .. n -> Nat]
    BY <1>1
  <2>. HIDE DEF n
  <2>3. s \in Seq(Nat) /\ Len(s) = n /\ \A p \in 1 .. n : s[p] = judged[best[p]]
    BY <1>1, <2>2
  <2>. HIDE DEF s, graded
  <2>. QED  BY <2>1, <2>3
<1>. HIDE DEF n, graded
<1>3. m \in {limit, n} /\ m <= limit /\ m <= n /\ m \in Nat
  <2>1. \E x \in {limit, n} : \A y \in {limit, n} : x <= y
    BY <1>1
  <2>2. m = Min({limit, n})
    BY <1>2
  <2>3. Min({limit, n}) \in {limit, n} /\ \A y \in {limit, n} : Min({limit, n}) <= y
    BY <2>1 DEF Min
  <2>. QED  BY <1>1, <2>2, <2>3
<1>4. ideal = SubSeq(graded, 1, m)
  BY DEF Ideal, graded
<1>. HIDE DEF m, ideal
<1>5. ideal \in Seq(Nat) /\ Len(ideal) = m /\ \A p \in 1 .. m : ideal[p] = graded[p]
  BY <1>2, <1>3, <1>4, SMTT(20)
<1>6. ASSUME NEW k \in 1 .. limit PROVE Gains(ideal, limit)[k] = Worth(best, judged)[k]
  <2>1. Gains(ideal, limit)[k] = IF k <= m THEN Gain(ideal[k]) ELSE 0
    BY <1>5 DEF Gains
  <2>2. Worth(best, judged)[k] = IF k <= n THEN Gain(judged[best[k]]) ELSE 0
    BY DEF Worth, n
  <2>3. k <= m <=> k <= n
    BY <1>1, <1>3
  <2>4. k <= m => ideal[k] = judged[best[k]]
    <3>1. k <= m => k \in 1 .. m /\ k \in 1 .. n
      BY <1>1, <1>3
    <3>. QED  BY <1>2, <1>5, <3>1
  <2>. QED  BY <2>1, <2>2, <2>3, <2>4
<1>. QED  BY <1>3, <1>5, <1>6 DEF ideal, n

\* Results come at some of the first places of the list that are not the same.
IsRetrieved(list, judged) ==
    /\ limit \in Nat \ {0} /\ list \in Seq(Locations) /\ Len(list) <= limit
    /\ IsFiniteSet(DOMAIN judged) /\ judged \in [DOMAIN judged -> Nat \ {0}]

\* result k is the first of its location, and that is judged
Counts(list, judged, k) ==
    list[k] \in DOMAIN judged /\ \A j \in 1 .. k - 1 : list[j] # list[k]

LEMMA RelevancesCount ==
    ASSUME NEW judged, NEW list, IsRetrieved(list, judged)
    PROVE  /\ Relevances(list, judged) \in Seq(Nat) /\ Len(Relevances(list, judged)) = Len(list)
           /\ \A k \in 1 .. Len(list) :
                /\ Relevances(list, judged)[k] = IF Counts(list, judged, k) THEN judged[list[k]] ELSE 0
                /\ Relevances(list, judged)[k] > 0 <=> Counts(list, judged, k)
<1>. DEFINE m == Len(list)
            r == Relevances(list, judged)
<1>1. m \in Nat /\ DOMAIN list = 1 .. m
  BY DEF IsRetrieved
<1>. HIDE DEF m
<1>2. r = [k \in 1 .. m |-> IF Counts(list, judged, k) THEN judged[list[k]] ELSE 0]
  BY <1>1 DEF Relevances, Counts
<1>3. \A k \in 1 .. m : Counts(list, judged, k) => judged[list[k]] \in Nat \ {0}
  BY DEF Counts, IsRetrieved
<1>. HIDE DEF r
<1>4. r \in [1 .. m -> Nat]
  BY <1>2, <1>3
<1>5. r \in Seq(Nat) /\ Len(r) = m
  BY <1>1, <1>4
<1>6. ASSUME NEW k \in 1 .. m
      PROVE  /\ r[k] = IF Counts(list, judged, k) THEN judged[list[k]] ELSE 0
             /\ r[k] > 0 <=> Counts(list, judged, k)
  <2>1. r[k] = IF Counts(list, judged, k) THEN judged[list[k]] ELSE 0
    BY <1>2
  <2>. QED  BY <1>3, <2>1
<1>. QED  BY <1>5, <1>6 DEF m, r

\* The place of result k in the ideal ranking, or one after all that are worth
\* something.
Place(list, judged, best, k) ==
    IF k <= Len(list) /\ Counts(list, judged, k)
    THEN CHOOSE p \in 1 .. Cardinality(DOMAIN judged) : best[p] = list[k]
    ELSE Cardinality(DOMAIN judged) + k

LEMMA PlacesAreDistinct ==
    ASSUME NEW judged, NEW list, IsRetrieved(list, judged), NEW best, IsGrading(best, judged)
    PROVE  /\ \A k \in 1 .. limit :
                /\ Place(list, judged, best, k) \in Nat \ {0}
                /\ Gains(Relevances(list, judged), limit)[k] = Worth(best, judged)[Place(list, judged, best, k)]
                /\ Place(list, judged, best, k) <= Cardinality(DOMAIN judged) =>
                    k <= Len(list) /\ best[Place(list, judged, best, k)] = list[k]
           /\ \A j, k \in 1 .. limit :
                Place(list, judged, best, j) = Place(list, judged, best, k) => j = k
<1>. DEFINE n == Cardinality(DOMAIN judged)
            place(k) == Place(list, judged, best, k)
            counts(k) == k <= Len(list) /\ Counts(list, judged, k)
            r == Relevances(list, judged)
<1>1. n \in Nat /\ Len(list) \in Nat /\ Len(list) <= limit /\ limit \in Nat
  BY DEF IsGrading, IsRetrieved
<1>2. ASSUME NEW k \in 1 .. limit, counts(k)
      PROVE  place(k) \in 1 .. n /\ best[place(k)] = list[k]
  <2>1. \E p \in 1 .. n : best[p] = list[k]
    BY <1>2 DEF Counts, IsGrading
  <2>2. place(k) = CHOOSE p \in 1 .. n : best[p] = list[k]
    BY <1>2 DEF Place
  <2>. HIDE DEF place
  <2>. QED  BY <2>1, <2>2
<1>3. ASSUME NEW k \in 1 .. limit, ~counts(k) PROVE place(k) = n + k
  BY <1>3 DEF Place
<1>4. ASSUME NEW k \in 1 .. limit
      PROVE  Gains(r, limit)[k] = IF counts(k) THEN Gain(judged[list[k]]) ELSE 0
  <2>1. Gains(r, limit)[k] = IF k <= Len(list) THEN Gain(r[k]) ELSE 0
    BY RelevancesCount DEF Gains
  <2>2. k <= Len(list) => r[k] = IF Counts(list, judged, k) THEN judged[list[k]] ELSE 0
    <3>1. k <= Len(list) => k \in 1 .. Len(list)
      BY <1>1
    <3>. QED  BY <3>1, RelevancesCount
  <2>3. Gain(0) = 0
    BY GainGrows
  <2>. QED  BY <2>1, <2>2, <2>3
<1>. HIDE DEF n, place, counts, r
<1>5. ASSUME NEW k \in 1 .. limit
      PROVE  /\ place(k) \in Nat \ {0}
             /\ Gains(r, limit)[k] = Worth(best, judged)[place(k)]
             /\ place(k) <= n => k <= Len(list) /\ best[place(k)] = list[k]
  <2>1. CASE counts(k)
    <3>1. place(k) \in 1 .. n /\ best[place(k)] = list[k] /\ k <= Len(list)
      BY <1>2, <2>1 DEF counts
    <3>2. place(k) \in Nat \ {0} /\ place(k) <= n
      BY <1>1, <3>1
    <3>3. Worth(best, judged)[place(k)] = Gain(judged[list[k]])
      BY <3>1, <3>2 DEF Worth, n
    <3>. QED  BY <1>4, <2>1, <3>1, <3>2, <3>3
  <2>2. CASE ~counts(k)
    <3>1. place(k) = n + k
      BY <1>3, <2>2
    <3>2. place(k) \in Nat \ {0} /\ ~(place(k) <= n)
      BY <1>1, <3>1
    <3>3. Worth(best, judged)[place(k)] = 0
      BY <3>2 DEF Worth, n
    <3>. QED  BY <1>4, <2>2, <3>2, <3>3
  <2>. QED  BY <2>1, <2>2
<1>6. ASSUME NEW j \in 1 .. limit, NEW k \in 1 .. limit, place(j) = place(k) PROVE j = k
  <2>1. CASE counts(j) /\ counts(k)
    <3>1. list[j] = list[k]
      BY <1>2, <1>6, <2>1
    <3>2. j < k => j \in 1 .. k - 1
      BY <1>1
    <3>3. k < j => k \in 1 .. j - 1
      BY <1>1
    <3>4. ~(j < k) /\ ~(k < j)
      BY <2>1, <3>1, <3>2, <3>3 DEF counts, Counts
    <3>. QED  BY <3>4
  <2>2. CASE ~counts(j) /\ ~counts(k)
    <3>1. n + j = n + k
      BY <1>3, <1>6, <2>2
    <3>. QED  BY <1>1, <3>1
  <2>3. CASE counts(j) /\ ~counts(k)
    <3>1. place(j) <= n /\ place(k) = n + k
      BY <1>1, <1>2, <1>3, <2>3
    <3>. QED  BY <1>1, <1>6, <3>1
  <2>4. CASE ~counts(j) /\ counts(k)
    <3>1. place(k) <= n /\ place(j) = n + j
      BY <1>1, <1>2, <1>3, <2>4
    <3>. QED  BY <1>1, <1>6, <3>1
  <2>. QED  BY <2>1, <2>2, <2>3, <2>4
<1>. QED  BY <1>5, <1>6 DEF n, place, r
---------------------------------------------------------------------------
\* the first k terms, and their totals
Terms(f, k) == [j \in 1 .. k |-> f[j]]
Sums(s, k) == [j \in 0 .. k |-> s[j]]

Seen(list, k) == {list[j] : j \in 1 .. k}

\* Up to every place the results gain no more than the ideal ranking.
LEMMA GainsAreBelow ==
    ASSUME NEW judged, NEW list, IsRetrieved(list, judged), NEW best, IsGrading(best, judged),
           NEW g, g = Gains(Relevances(list, judged), limit), NEW w, w = Worth(best, judged), Falls(w),
           NEW k \in 0 .. limit,
           NEW s, IsTotal(s, Terms(g, k), k), NEW b, IsTotal(b, Terms(w, k), k)
    PROVE  s[k] <= b[k]
<1>. DEFINE c == [j \in 1 .. k |-> Place(list, judged, best, j)]
<1>1. limit \in Nat /\ k \in Nat /\ \A j \in 1 .. k : j \in 1 .. limit
  BY DEF IsRetrieved
<1>2. \A j \in 1 .. k : c[j] \in Nat \ {0} /\ g[j] = w[c[j]]
  BY <1>1, PlacesAreDistinct
<1>3. \A i, j \in 1 .. k : c[i] = c[j] => i = j
  BY <1>1, PlacesAreDistinct
<1>4. DOMAIN c = 1 .. k /\ c = [j \in 1 .. k |-> c[j]]
  OBVIOUS
<1>. HIDE DEF c
<1>5. AreDistinct(c, k)
  BY <1>2, <1>3, <1>4 DEF AreDistinct, IsInjective
<1>6. [j \in 1 .. k |-> g[j]] = [j \in 1 .. k |-> w[c[j]]]
  BY <1>2
<1>6a. IsTotal(s, [j \in 1 .. k |-> w[c[j]]], k) /\ IsTotal(b, [j \in 1 .. k |-> w[j]], k)
  BY <1>6 DEF Terms
<1>7. FirstHoldMost(w, k)
  BY <1>1, FirstHoldMostAlways
<1>. QED  BY <1>5, <1>6a, <1>7 DEF FirstHoldMost

LEMMA TotalsGrow ==
    ASSUME NEW n \in Nat, NEW f \in [1 .. n -> Nat], NEW s, IsTotal(s, f, n), NEW i \in 0 .. n
    PROVE  s[i] <= s[n]
<1>. DEFINE S == {k \in Nat : i <= k /\ k <= n => s[i] <= s[k]}
<1>1. 0 \in S
  <2>1. i <= 0 => i = 0
    OBVIOUS
  <2>2. s[0] \in Nat
    BY DEF IsTotal
  <2>. QED  BY <2>1, <2>2
<1>2. ASSUME NEW k \in Nat, k \in S PROVE k + 1 \in S
  <2>1. SUFFICES ASSUME i <= k + 1, k + 1 <= n PROVE s[i] <= s[k + 1]
    OBVIOUS
  <2>2. s[i] \in Nat /\ k + 1 \in 1 .. n /\ k + 1 \in 0 .. n /\ k \in 0 .. n /\ (k + 1) - 1 = k
    BY <2>1 DEF IsTotal
  <2>3. s[k + 1] = s[k] + f[k + 1] /\ s[k] \in Nat /\ f[k + 1] \in Nat
    BY <2>2 DEF IsTotal
  <2>4. CASE i = k + 1
    BY <2>2, <2>4
  <2>5. CASE i # k + 1
    <3>1. i <= k /\ k <= n
      BY <2>1, <2>5
    <3>2. s[i] <= s[k]
      BY <1>2, <3>1
    <3>. QED  BY <2>2, <2>3, <3>2
  <2>. QED  BY <2>4, <2>5
<1>. HIDE DEF S
<1>3. \A k \in Nat : k \in S
  BY <1>1, <1>2, EveryNumberIsReached
<1>4. i <= n /\ n <= n
  OBVIOUS
<1>. QED  BY <1>3, <1>4 DEF S

LEMMA TotalsOfTheFirst ==
    ASSUME NEW n \in Nat, NEW k \in 0 .. n, NEW f, NEW s, IsTotal(s, f, n)
    PROVE  IsTotal(Sums(s, k), Terms(f, k), k)
<1>. DEFINE t == Sums(s, k)
            h == Terms(f, k)
<1>1. t \in [0 .. k -> Nat] /\ t[0] = 0
  BY DEF IsTotal, Sums
<1>2. ASSUME NEW j \in 1 .. k PROVE t[j] = t[j - 1] + h[j]
  <2>1. j \in 0 .. k /\ j - 1 \in 0 .. k /\ j \in 1 .. n
    OBVIOUS
  <2>2. s[j] = s[j - 1] + f[j]
    BY <2>1 DEF IsTotal
  <2>. QED  BY <2>1, <2>2 DEF Sums, Terms
<1>. HIDE DEF t, h
<1>3. IsTotal(t, h, k)
  BY <1>1, <1>2 DEF IsTotal
<1>. QED  BY <1>3 DEF t, h

LEMMA TotalsAreBelow ==
    ASSUME NEW judged, NEW list, IsRetrieved(list, judged), NEW best, IsGrading(best, judged),
           NEW g, g = Gains(Relevances(list, judged), limit), NEW w, w = Worth(best, judged), Falls(w),
           NEW s, IsTotal(s, g, limit), NEW v, v = [j \in 1 .. limit |-> w[j]],
           NEW b, IsTotal(b, v, limit)
    PROVE  Below(s, b, limit)
<1>1. SUFFICES ASSUME NEW k \in 0 .. limit PROVE s[k] <= b[k]
  BY DEF Below
<1>2. limit \in Nat /\ k \in 0 .. k
  BY DEF IsRetrieved
<1>. DEFINE s1 == Sums(s, k)
            b1 == Sums(b, k)
<1>3. IsTotal(s1, Terms(g, k), k) /\ IsTotal(b1, Terms(v, k), k)
  <2>1. limit \in Nat /\ k \in 0 .. limit
    BY <1>2
  <2>. QED  BY <2>1, TotalsOfTheFirst
<1>4. Terms(v, k) = Terms(w, k)
  BY <1>2 DEF Terms
<1>5. s1[k] = s[k] /\ b1[k] = b[k]
  BY <1>2 DEF Sums
<1>. HIDE DEF s1, b1
<1>6. s1[k] <= b1[k]
  BY <1>3, <1>4, GainsAreBelow
<1>. QED  BY <1>5, <1>6

\* While the results gain what the ideal ranking does, no location that is
\* not seen yet is worth more than the next place.
LEMMA UnseenIsWorthLess ==
    ASSUME NEW judged, NEW list, IsRetrieved(list, judged), NEW best, IsGrading(best, judged),
           NEW g, g = Gains(Relevances(list, judged), limit), NEW w, w = Worth(best, judged), Falls(w),
           Agree(g, w, limit),
           NEW k \in 1 .. limit, k <= Len(list) + 1,
           NEW l \in DOMAIN judged, l \notin Seen(list, k - 1)
    PROVE  Gain(judged[l]) <= w[k]
<1>. DEFINE n == Cardinality(DOMAIN judged)
<1>1. PICK p \in 1 .. n : best[p] = l
  BY DEF IsGrading
<1>2. n \in Nat /\ p \in Nat \ {0} /\ p <= n /\ k \in 1 .. k /\ k \in Nat /\ limit \in Nat /\ k <= limit
  BY <1>1 DEF IsGrading, IsRetrieved
<1>3. w[p] = Gain(judged[l])
  BY <1>1, <1>2 DEF Worth
<1>. HIDE DEF n
<1>. DEFINE c == [j \in 1 .. k |-> IF j = k THEN p ELSE Place(list, judged, best, j)]
<1>4. \A j \in 1 .. k : j # k => j \in 1 .. limit /\ j \in 1 .. k - 1
  BY <1>2
<1>5. \A j \in 1 .. k : c[j] \in Nat \ {0} /\ (j # k => w[c[j]] = w[j])
  <2>1. \A j \in 1 .. k : j # k => /\ Place(list, judged, best, j) \in Nat \ {0}
                                  /\ g[j] = w[Place(list, judged, best, j)] /\ g[j] = w[j]
    BY <1>4, PlacesAreDistinct DEF Agree
  <2>. QED  BY <1>2, <2>1
<1>6. ASSUME NEW j \in 1 .. k, j # k PROVE c[j] # p
  <2>1. SUFFICES ASSUME Place(list, judged, best, j) = p PROVE FALSE
    BY <1>6
  <2>2. best[p] = list[j]
    BY <1>2, <1>4, <1>6, <2>1, PlacesAreDistinct DEF n
  <2>. QED  BY <1>1, <1>4, <1>6, <2>2 DEF Seen
<1>7. ASSUME NEW i \in 1 .. k, NEW j \in 1 .. k, c[i] = c[j] PROVE i = j
  <2>1. CASE i # k /\ j # k
    BY <1>4, <1>7, <2>1, PlacesAreDistinct
  <2>2. CASE i = k \/ j = k
    BY <1>6, <1>7, <2>2
  <2>. QED  BY <2>1, <2>2
<1>8. DOMAIN c = 1 .. k /\ c = [j \in 1 .. k |-> c[j]] /\ c[k] = p
  BY <1>2
<1>. HIDE DEF c
<1>9. AreDistinct(c, k)
  BY <1>5, <1>7, <1>8 DEF AreDistinct, IsInjective
<1>. DEFINE f == [j \in 1 .. k |-> w[c[j]]]
            v == [j \in 1 .. k |-> w[j]]
<1>10. f \in [1 .. k -> Nat] /\ v \in [1 .. k -> Nat]
  BY <1>2, <1>5 DEF Falls
<1>11. DifferAt(f, v, k, k)
  BY <1>5 DEF DifferAt
<1>12. f[k] = w[p] /\ v[k] = w[k]
  BY <1>2, <1>8
<1>13. FirstHoldMost(w, k)
  BY <1>2, FirstHoldMostAlways
<1>14. PICK s : IsTotal(s, f, k)
  BY <1>2, <1>10, TotalsExist
<1>15. PICK b : IsTotal(b, v, k)
  BY <1>2, <1>10, TotalsExist
<1>16. s[k] <= b[k]
  BY <1>9, <1>13, <1>14, <1>15 DEF FirstHoldMost
<1>. HIDE DEF f, v
<1>17. s[k] + v[k] = b[k] + f[k]
  <2>1. k \in Nat /\ k \in 1 .. k /\ AreNumbers(f, k) /\ AreNumbers(v, k)
    BY <1>2, <1>10 DEF AreNumbers
  <2>. QED  BY <1>11, <1>14, <1>15, <2>1, TotalsChange
<1>18. s[k] \in Nat /\ b[k] \in Nat /\ f[k] \in Nat /\ v[k] \in Nat
  BY <1>2, <1>10, <1>14, <1>15 DEF IsTotal
<1>19. f[k] <= v[k]
  BY <1>16, <1>17, <1>18
<1>. QED  BY <1>3, <1>12, <1>19

\* Fewer results than places leave one of these places to be seen.
LEMMA OneIsUnseen ==
    ASSUME NEW judged, NEW list, IsRetrieved(list, judged), NEW best, IsGrading(best, judged),
           NEW k \in Nat \ {0}, k <= Cardinality(DOMAIN judged)
    PROVE  \E p \in 1 .. k : p \in 1 .. Cardinality(DOMAIN judged) /\ best[p] \notin Seen(list, k - 1)
<1>. DEFINE n == Cardinality(DOMAIN judged)
            f == [p \in 1 .. k |-> CHOOSE j \in 1 .. k - 1 : list[j] = best[p]]
<1>1. n \in Nat /\ \A p \in 1 .. k : p \in 1 .. n
  BY DEF IsGrading
<1>2. SUFFICES ASSUME \A p \in 1 .. k : best[p] \in Seen(list, k - 1) PROVE FALSE
  BY <1>1
<1>3. \A p \in 1 .. k : f[p] \in 1 .. k - 1 /\ list[f[p]] = best[p]
  <2>1. \A p \in 1 .. k : \E j \in 1 .. k - 1 : list[j] = best[p]
    BY <1>2 DEF Seen
  <2>. QED  BY <2>1
<1>. HIDE DEF f
<1>4. \A p, q \in 1 .. k : f[p] = f[q] => p = q
  BY <1>1, <1>3 DEF IsGrading
<1>5. DOMAIN f = 1 .. k /\ f = [p \in 1 .. k |-> f[p]]
  BY DEF f
<1>6. f \in [1 .. k -> 1 .. k - 1]
  BY <1>3, <1>5
<1>7. /\ IsFiniteSet(1 .. k) /\ Cardinality(1 .. k) = k
      /\ IsFiniteSet(1 .. k - 1) /\ Cardinality(1 .. k - 1) = k - 1
  BY FS_Interval
<1>8. \E p, q \in 1 .. k : p # q /\ f[p] = f[q]
  <2>. DEFINE S == 1 .. k
              T == 1 .. k - 1
  <2>1. /\ IsFiniteSet(S) /\ IsFiniteSet(T) /\ Cardinality(T) < Cardinality(S)
        /\ f \in [S -> T]
    BY <1>6, <1>7
  <2>. HIDE DEF S, T
  <2>2. \E p, q \in S : p # q /\ f[p] = f[q]
    BY <2>1, FS_PigeonHole
  <2>. QED  BY <2>2 DEF S
<1>. QED  BY <1>4, <1>8

\* no result could add more than it does, and none that adds is missing
CannotBeBetter(list, judged) ==
    /\ \A k \in 1 .. Len(list) : \A l \in DOMAIN judged \ Seen(list, k - 1) :
            judged[l] <= Relevances(list, judged)[k]
    /\ Len(list) = limit \/ DOMAIN judged \ Seen(list, Len(list)) = {}

LEMMA BestMeansIdeal ==
    ASSUME NEW judged, NEW list, IsRetrieved(list, judged), NEW best, IsGrading(best, judged),
           NEW g, g = Gains(Relevances(list, judged), limit), NEW w, w = Worth(best, judged), Falls(w)
    PROVE  Agree(g, w, limit) <=> CannotBeBetter(list, judged)
<1>. DEFINE n == Cardinality(DOMAIN judged)
            r == Relevances(list, judged)
            m == Len(list)
<1>1. n \in Nat /\ m \in Nat /\ limit \in Nat \ {0} /\ m <= limit
  BY DEF IsGrading, IsRetrieved
<1>2. \A l \in DOMAIN judged : judged[l] \in Nat /\ judged[l] > 0
  BY DEF IsRetrieved
<1>3. \A k \in 1 .. m : r[k] \in Nat
  BY RelevancesCount, <1>1
<1>4. \A k \in 1 .. limit : g[k] = IF k <= m THEN Gain(r[k]) ELSE 0
  BY RelevancesCount DEF Gains
<1>5. \A p \in Nat \ {0} : w[p] = IF p <= n THEN Gain(judged[best[p]]) ELSE 0
  BY DEF Worth
<1>6. \A p \in 1 .. n : best[p] \in DOMAIN judged
  BY DEF IsGrading
<1>. HIDE DEF n, r, m
<1>7. ASSUME Agree(g, w, limit) PROVE CannotBeBetter(list, judged)
  <2>1. ASSUME NEW k \in 1 .. limit, k <= m + 1, NEW l \in DOMAIN judged \ Seen(list, k - 1)
        PROVE  Gain(judged[l]) <= g[k]
    <3>1. Gain(judged[l]) <= w[k]
      BY <1>7, <2>1, UnseenIsWorthLess DEF m
    <3>. QED  BY <1>7, <3>1 DEF Agree
  <2>2. ASSUME NEW k \in 1 .. m, NEW l \in DOMAIN judged \ Seen(list, k - 1) PROVE judged[l] <= r[k]
    <3>1. k \in 1 .. limit /\ k <= m + 1 /\ k <= m
      BY <1>1
    <3>2. Gain(judged[l]) <= Gain(r[k])
      BY <1>4, <2>1, <3>1
    <3>. QED  BY <1>2, <1>3, <3>2, GainGrows
  <2>3. ASSUME m # limit, NEW l \in DOMAIN judged \ Seen(list, m) PROVE FALSE
    <3>1. m + 1 \in 1 .. limit /\ m + 1 <= m + 1 /\ (m + 1) - 1 = m /\ ~(m + 1 <= m)
      BY <1>1, <2>3
    <3>2. Gain(judged[l]) <= g[m + 1] /\ g[m + 1] = 0
      BY <1>4, <2>1, <2>3, <3>1
    <3>3. Gain(judged[l]) \in Nat /\ Gain(judged[l]) > 0
      BY <1>2, GainGrows
    <3>. QED  BY <3>2, <3>3
  <2>. QED  BY <2>2, <2>3 DEF CannotBeBetter, r, m
<1>8. ASSUME CannotBeBetter(list, judged) PROVE \A k \in 1 .. limit : w[k] <= g[k]
  <2>1. /\ \A k \in 1 .. m : \A l \in DOMAIN judged \ Seen(list, k - 1) : judged[l] <= r[k]
        /\ m = limit \/ DOMAIN judged \ Seen(list, m) = {}
    BY <1>8 DEF CannotBeBetter, r, m
  <2>2. SUFFICES ASSUME NEW k \in 1 .. limit PROVE w[k] <= g[k]
    OBVIOUS
  <2>3. k \in Nat \ {0} /\ w[k] \in Nat /\ g[k] \in Nat
    <3>1. k \in Nat \ {0} /\ w[k] \in Nat
      BY <1>1 DEF Falls
    <3>2. k <= m => Gain(r[k]) \in Nat
      <4>1. k <= m => r[k] \in Nat
        BY <1>1, <1>3
      <4>. QED  BY <4>1, GainGrows
    <3>. QED  BY <1>4, <3>1, <3>2
  <2>4. CASE ~(k <= n)
    BY <1>5, <2>3, <2>4
  <2>5. CASE k <= n /\ k <= m
    <3>1. PICK p \in 1 .. k : p \in 1 .. n /\ best[p] \notin Seen(list, k - 1)
      BY <2>3, <2>5, OneIsUnseen DEF n
    <3>2. judged[best[p]] <= r[k] /\ judged[best[p]] \in Nat /\ r[k] \in Nat
      <4>1. k \in 1 .. m
        BY <1>1, <2>3, <2>5
      <4>. QED  BY <1>2, <1>3, <1>6, <2>1, <3>1, <4>1
    <3>3. Gain(judged[best[p]]) <= g[k]
      BY <1>4, <2>5, <3>2, GainGrows
    <3>4. p \in Nat \ {0} /\ p <= k /\ p <= n
      BY <1>1, <2>3, <3>1
    <3>5. w[p] = Gain(judged[best[p]]) /\ w[k] <= w[p] /\ w[p] \in Nat
      BY <1>5, <2>3, <3>4 DEF Falls
    <3>. QED  BY <2>3, <3>3, <3>5
  <2>6. CASE k <= n /\ ~(k <= m)
    <3>1. m + 1 \in Nat \ {0} /\ m + 1 <= n /\ (m + 1) - 1 = m /\ m # limit
      BY <1>1, <2>3, <2>6
    <3>2. PICK p \in 1 .. m + 1 : p \in 1 .. n /\ best[p] \notin Seen(list, m)
      BY <3>1, OneIsUnseen DEF n
    <3>. QED  BY <1>6, <2>1, <3>1, <3>2
  <2>. QED  BY <2>4, <2>5, <2>6
<1>9. ASSUME \A k \in 1 .. limit : w[k] <= g[k] PROVE Agree(g, w, limit)
  <2>. DEFINE v == [j \in 1 .. limit |-> w[j]]
  <2>1. g \in [1 .. limit -> Nat] /\ v \in [1 .. limit -> Nat] /\ \A k \in 1 .. limit : v[k] = w[k]
    <3>1. ASSUME NEW k \in 1 .. limit PROVE g[k] \in Nat /\ w[k] \in Nat
      <4>1. k \in Nat \ {0} /\ w[k] \in Nat
        BY <1>1 DEF Falls
      <4>2. k <= m => Gain(r[k]) \in Nat
        <5>1. k <= m => r[k] \in Nat
          BY <1>1, <1>3
        <5>. QED  BY <5>1, GainGrows
      <4>. QED  BY <1>4, <4>1, <4>2
    <3>2. DOMAIN g = 1 .. limit /\ g = [k \in 1 .. limit |-> g[k]]
      BY DEF Gains
    <3>. QED  BY <3>1, <3>2
  <2>2. PICK s : IsTotal(s, g, limit)
    BY <1>1, <2>1, TotalsExist
  <2>3. PICK b : IsTotal(b, v, limit)
    BY <1>1, <2>1, TotalsExist
  <2>4. Below(s, b, limit)
    BY <2>2, <2>3, TotalsAreBelow
  <2>. HIDE DEF v
  <2>. DEFINE S == {k \in Nat : k <= limit => b[k] <= s[k]}
  <2>5. ASSUME NEW k \in 1 .. limit
        PROVE  /\ s[k] = s[k - 1] + g[k] /\ b[k] = b[k - 1] + w[k] /\ w[k] <= g[k]
               /\ s[k] \in Nat /\ b[k] \in Nat /\ s[k - 1] \in Nat /\ b[k - 1] \in Nat
               /\ g[k] \in Nat /\ w[k] \in Nat
    <3>1. k \in 0 .. limit /\ k - 1 \in 0 .. limit
      BY <1>1
    <3>. QED  BY <1>9, <2>1, <2>2, <2>3, <3>1 DEF IsTotal
  <2>6. 0 \in S
    BY <2>2, <2>3 DEF IsTotal
  <2>7. ASSUME NEW k \in Nat, k \in S PROVE k + 1 \in S
    <3>1. SUFFICES ASSUME k + 1 <= limit PROVE b[k + 1] <= s[k + 1]
      OBVIOUS
    <3>2. k + 1 \in 1 .. limit /\ (k + 1) - 1 = k /\ k <= limit
      BY <1>1, <3>1
    <3>3. b[k] <= s[k]
      BY <2>7, <3>2
    <3>4. /\ s[k + 1] = s[k] + g[k + 1] /\ b[k + 1] = b[k] + w[k + 1] /\ w[k + 1] <= g[k + 1]
          /\ s[k] \in Nat /\ b[k] \in Nat /\ g[k + 1] \in Nat /\ w[k + 1] \in Nat
      BY <2>5, <3>2
    <3>. QED  BY <3>3, <3>4
  <2>. HIDE DEF S
  <2>8. \A k \in Nat : k \in S
    BY <2>6, <2>7, EveryNumberIsReached
  <2>9. ASSUME NEW k \in 0 .. limit PROVE s[k] = b[k]
    <3>1. k \in Nat /\ k <= limit
      BY <1>1
    <3>2. b[k] <= s[k] /\ s[k] <= b[k]
      BY <2>4, <2>8, <3>1 DEF S, Below
    <3>3. b[k] \in Nat /\ s[k] \in Nat
      BY <2>2, <2>3 DEF IsTotal
    <3>. QED  BY <3>2, <3>3
  <2>10. ASSUME NEW k \in 1 .. limit PROVE g[k] = w[k]
    <3>1. k \in 0 .. limit /\ k - 1 \in 0 .. limit
      BY <1>1
    <3>2. s[k] = b[k] /\ s[k - 1] = b[k - 1]
      BY <2>9, <3>1
    <3>. QED  BY <2>5, <3>2
  <2>. QED  BY <2>10 DEF Agree
<1>. QED  BY <1>7, <1>8, <1>9

(* The gain of the results is at most the ideal one, and it is that when   *)
(* they could not be better.                                                *)
LEMMA IdealIsBest ==
    ASSUME NEW judged, NEW list, IsRetrieved(list, judged),
           NEW d, Weighs(d, limit), Agree(d, Discounts, limit)
    PROVE  /\ DiscountedGain(Relevances(list, judged)) \in Nat /\ DiscountedGain(Ideal(judged)) \in Nat
           /\ DiscountedGain(Relevances(list, judged)) <= DiscountedGain(Ideal(judged))
           /\ DiscountedGain(Relevances(list, judged)) = DiscountedGain(Ideal(judged)) <=>
                CannotBeBetter(list, judged)
           /\ DOMAIN judged # {} => DiscountedGain(Ideal(judged)) # 0
<1>. DEFINE n == Cardinality(DOMAIN judged)
            r == Relevances(list, judged)
            g == Gains(r, limit)
<1>1. /\ limit \in Nat \ {0} /\ limit \in Nat /\ IsFiniteSet(DOMAIN judged)
      /\ judged \in [DOMAIN judged -> Nat] /\ \A l \in DOMAIN judged : judged[l] \in Nat /\ judged[l] > 0
  BY DEF IsRetrieved
<1>2. PICK best : /\ IsGrading(best, judged)
                  /\ Graded(judged) = [p \in 1 .. Cardinality(DOMAIN judged) |-> judged[best[p]]]
  BY <1>1, GradedIsSorted
<1>. DEFINE w == Worth(best, judged)
            v == [k \in 1 .. limit |-> w[k]]
            ideal == Ideal(judged)
<1>3. Falls(w)
  BY <1>1, <1>2, WorthFalls
<1>4. /\ ideal \in Seq(Nat) /\ Len(ideal) <= limit
      /\ \A k \in 1 .. limit : Gains(ideal, limit)[k] = w[k]
  BY <1>1, <1>2, IdealIsWorth
<1>5. r \in Seq(Nat) /\ Len(r) <= limit
  BY RelevancesCount DEF IsRetrieved
<1>. HIDE DEF n, r, w, ideal
<1>6. g \in [1 .. limit -> Nat]
  BY <1>1, <1>5, GainsAreNumbers
<1>7. v \in [1 .. limit -> Nat]
  <2>1. \A k \in 1 .. limit : w[k] \in Nat
    BY <1>1, <1>3 DEF Falls
  <2>. QED  BY <2>1
<1>8. AreNumbers(d, limit)
  BY <1>1 DEF AreNumbers, Weighs
<1>9. v = Gains(ideal, limit)
  BY <1>4 DEF Gains
<1>. HIDE DEF g, v
<1>. DEFINE gd == Weighted(g, d, limit)
            vd == Weighted(v, d, limit)
<1>10. gd \in [1 .. limit -> Nat] /\ vd \in [1 .. limit -> Nat]
  <2>1. ASSUME NEW k \in 1 .. limit PROVE g[k] * d[k] \in Nat /\ v[k] * d[k] \in Nat
    <3>1. g[k] \in Nat /\ v[k] \in Nat /\ d[k] \in Nat
      BY <1>6, <1>7, <1>8 DEF AreNumbers
    <3>. QED  BY <3>1
  <2>. QED  BY <2>1 DEF Weighted
<1>12. PICK x : IsTotal(x, gd, limit)
  BY <1>1, <1>10, TotalsExist
<1>13. PICK y : IsTotal(y, vd, limit)
  BY <1>1, <1>10, TotalsExist
<1>14. DiscountedGain(r) = x[limit]
  BY <1>1, <1>5, <1>8, <1>12, DiscountedGainIsATotal DEF g
<1>15. DiscountedGain(ideal) = y[limit]
  BY <1>1, <1>4, <1>8, <1>9, <1>13, DiscountedGainIsATotal
<1>16. PICK a : IsTotal(a, g, limit)
  BY <1>1, <1>6, TotalsExist
<1>17. PICK b : IsTotal(b, v, limit)
  BY <1>1, <1>7, TotalsExist
<1>18. Below(a, b, limit)
  BY <1>2, <1>3, <1>16, <1>17, TotalsAreBelow DEF g, r, w, v
<1>19. x[limit] <= y[limit] /\ (x[limit] = y[limit] <=> Agree(g, v, limit))
  BY <1>1, <1>6, <1>7, <1>12, <1>13, <1>16, <1>17, <1>18, WeightedTotals
<1>20. Agree(g, v, limit) <=> CannotBeBetter(list, judged)
  <2>1. Agree(g, v, limit) <=> Agree(g, w, limit)
    BY DEF Agree, v
  <2>2. Agree(g, w, limit) <=> CannotBeBetter(list, judged)
    BY <1>2, <1>3, BestMeansIdeal DEF g, r, w
  <2>. QED  BY <2>1, <2>2
<1>21. x[limit] \in Nat /\ y[limit] \in Nat
  <2>1. limit \in 0 .. limit
    BY <1>1
  <2>. QED  BY <1>12, <1>13, <2>1 DEF IsTotal
<1>22. ASSUME DOMAIN judged # {} PROVE y[limit] # 0
  <2>1. n \in Nat \ {0} /\ n \in Nat
    BY <1>1, <1>22, FS_EmptySet, FS_CardinalityType DEF n
  <2>2. best[1] \in DOMAIN judged
    <3>1. 1 \in 1 .. n
      BY <2>1
    <3>. QED  BY <1>2, <3>1 DEF IsGrading, n
  <2>3. Gain(judged[best[1]]) \in Nat /\ Gain(judged[best[1]]) > 0
    BY <1>1, <2>2, GainGrows
  <2>4. 1 \in Nat \ {0} /\ 1 <= n /\ 1 \in 1 .. limit /\ 1 - 1 = 0 /\ 1 \in 0 .. limit
    BY <1>1, <2>1
  <2>5. w[1] = Gain(judged[best[1]])
    BY <2>4 DEF w, Worth, n
  <2>6. v[1] > 0 /\ v[1] \in Nat
    BY <2>3, <2>4, <2>5 DEF v
  <2>7. d[1] \in Nat /\ d[1] > 0
    <3>1. limit + 1 \in 1 .. limit + 1 /\ 1 \in 1 .. limit + 1 /\ 1 < limit + 1
      BY <1>1
    <3>2. d[1] > d[limit + 1] /\ d[limit + 1] \in Nat /\ d[1] \in Nat
      BY <3>1 DEF Weighs
    <3>. QED  BY <3>2
  <2>8. v[1] * d[1] > 0 /\ v[1] * d[1] \in Nat
    <3>1. v[1] \in Nat \ {0} /\ d[1] \in Nat \ {0}
      BY <2>6, <2>7
    <3>2. 0 * d[1] < v[1] * d[1] /\ v[1] * d[1] \in Nat
      BY <3>1, TimesKeepsOrder
    <3>3. 0 * d[1] = 0
      BY <2>7
    <3>. QED  BY <3>2, <3>3
  <2>9. y[1] = y[0] + vd[1] /\ y[0] = 0 /\ vd[1] = v[1] * d[1]
    BY <1>13, <2>4 DEF IsTotal, Weighted
  <2>10. y[1] > 0 /\ y[1] \in Nat
    BY <2>8, <2>9
  <2>11. y[1] <= y[limit]
    BY <1>1, <1>10, <1>13, <2>4, TotalsGrow
  <2>. QED  BY <1>21, <2>10, <2>11
<1>. QED  BY <1>14, <1>15, <1>19, <1>20, <1>21, <1>22 DEF r, ideal
---------------------------------------------------------------------------
\* the locations of the results
Found == [k \in DOMAIN results |-> LocationOf[results[k]]]

MetricsInv ==
    metrics # NoMetrics =>
        stage = "done" /\ relevant \in Cases /\ metrics = EvaluateRanking(Found, relevant)

EvaluationInv == Inv /\ limit \in Limits /\ MetricsInv

LEMMA EvaluationStepInv == EvaluationInv /\ [EvaluationNext]_<<vars, relevant, metrics>> => EvaluationInv'
<1>. SUFFICES ASSUME EvaluationInv, [EvaluationNext]_<<vars, relevant, metrics>> PROVE EvaluationInv'
  OBVIOUS
<1>1. [Next]_vars
  BY DEF EvaluationNext, Evaluate
<1>2. Inv'
  BY <1>1, StepInv DEF EvaluationInv
<1>3. limit' = limit
  BY <1>1 DEF Next, RankCandidates, LoadChunks, vars, request
<1>4. limit' \in Limits
  BY <1>3 DEF EvaluationInv
<1>5. CASE UNCHANGED <<relevant, metrics>>
  <2>1. SUFFICES ASSUME metrics # NoMetrics PROVE MetricsInv'
    BY <1>2, <1>4, <1>5 DEF EvaluationInv, MetricsInv
  <2>2. stage = "done" /\ relevant \in Cases /\ metrics = EvaluateRanking(Found, relevant)
    BY <2>1 DEF EvaluationInv, MetricsInv
  <2>3. UNCHANGED <<stage, results>>
    BY <1>1, <2>2 DEF Next, RankCandidates, LoadChunks, vars
  <2>4. EvaluateRanking(Found, relevant)' = EvaluateRanking(Found, relevant)
    BY <1>3, <1>5, <2>3 DEF EvaluateRanking, Ideal, Found
  <2>. QED  BY <1>5, <2>2, <2>3, <2>4 DEF MetricsInv
<1>6. CASE Evaluate
  <2>1. PICK judged \in Cases :
            relevant' = judged /\ metrics' = EvaluateRanking([k \in DOMAIN results |-> LocationOf[results[k]]], judged)
    BY <1>6 DEF Evaluate
  <2>2. stage = "done" /\ UNCHANGED <<stage, results>>
    BY <1>6 DEF Evaluate, vars
  <2>3. EvaluateRanking(Found, relevant)' = EvaluateRanking(Found, judged)
    BY <1>3, <2>1, <2>2 DEF EvaluateRanking, Ideal, Found
  <2>4. MetricsInv'
    BY <2>1, <2>2, <2>3 DEF MetricsInv, Found
  <2>. QED  BY <1>2, <1>4, <2>4 DEF EvaluationInv
<1>. QED  BY <1>5, <1>6 DEF EvaluationNext

LEMMA EvaluationInvHolds == EvaluationSpec => []EvaluationInv
<1>1. EvaluationInit => EvaluationInv
  BY InitInv DEF EvaluationInit, EvaluationInv, MetricsInv, Init
<1>. QED  BY <1>1, EvaluationStepInv, PTL DEF EvaluationSpec

\* Evaluation only looks at a search: it is one of those of Ranking.
THEOREM EvaluationSearches == EvaluationSpec => Spec
<1>1. EvaluationInit => Init
  BY DEF EvaluationInit
<1>2. [EvaluationNext]_<<vars, relevant, metrics>> => [Next]_vars
  BY DEF EvaluationNext, Evaluate
<1>. QED  BY <1>1, <1>2, PTL DEF EvaluationSpec, Spec
---------------------------------------------------------------------------
\* What was measured are results of a search, against a case.
LEMMA ResultsAreRetrieved ==
    ASSUME EvaluationInv, metrics # NoMetrics
    PROVE  /\ IsRetrieved(Found, relevant) /\ DOMAIN results = 1 .. Len(results)
           /\ Len(Found) = Len(results) /\ Len(results) \in Nat
           /\ \A k \in 1 .. Len(results) : Found[k] = LocationOf[results[k]]
           /\ \E d : Weighs(d, limit) /\ Agree(d, Discounts, limit)
<1>1. stage = "done" /\ relevant \in Cases /\ Inv /\ limit \in Limits
  BY DEF EvaluationInv, MetricsInv
<1>2. limit \in Nat \ {0} /\ limit <= Len(Discounts)
  BY <1>1, EvaluationAssumption DEF Inv, RequestInv
<1>3. IsFiniteSet(DOMAIN relevant) /\ relevant \in [DOMAIN relevant -> Nat \ {0}]
  BY <1>1, EvaluationAssumption
<1>4. Keeps(results, ranked, loaded) /\ ranked \in Seq(Chunks)
  BY <1>1, ResultsAreKept, RankingIsSorted
<1>5. /\ Len(results) \in Nat /\ Len(results) <= limit /\ DOMAIN results = 1 .. Len(results)
      /\ \A k \in 1 .. Len(results) : results[k] \in Chunks
  <2>. DEFINE found == {p \in DOMAIN ranked : ranked[p] \in loaded}
              m == Cardinality(found)
              n == Len(results)
  <2>1. m \in Nat /\ n \in Nat /\ n <= limit /\ n <= m /\ DOMAIN results = 1 .. n
    BY <1>4 DEF Keeps
  <2>2. PICK kept \in [1 .. m -> found] : \A k \in 1 .. n : results[k] = ranked[kept[k]]
    BY <1>4, Zenon DEF Keeps
  <2>3. \A p \in found : ranked[p] \in Chunks
    BY <1>4
  <2>. HIDE DEF found, m, n
  <2>4. \A k \in 1 .. n : k \in 1 .. m
    BY <2>1
  <2>5. \A k \in 1 .. n : results[k] \in Chunks
    BY <2>2, <2>3, <2>4
  <2>. QED  BY <2>1, <2>5 DEF n
<1>6. /\ Found \in Seq(Locations) /\ Len(Found) = Len(results)
      /\ \A k \in 1 .. Len(results) : Found[k] = LocationOf[results[k]]
  <2>. DEFINE n == Len(results)
              f == [k \in 1 .. n |-> LocationOf[results[k]]]
  <2>1. Found = f
    BY <1>5 DEF Found
  <2>2. n \in Nat /\ \A k \in 1 .. n : LocationOf[results[k]] \in Locations
    BY <1>5, EvaluationAssumption
  <2>. HIDE DEF n
  <2>3. f \in [1 .. n -> Locations]
    BY <2>2
  <2>4. f \in Seq(Locations) /\ Len(f) = n
    BY <2>2, <2>3
  <2>5. \A k \in 1 .. n : f[k] = LocationOf[results[k]]
    OBVIOUS
  <2>. HIDE DEF f
  <2>. QED  BY <2>1, <2>4, <2>5 DEF n
<1>7. \E d : Weighs(d, limit) /\ Agree(d, Discounts, limit)
  <2>. DEFINE d == [k \in 1 .. limit + 1 |-> IF k <= limit THEN Discounts[k] ELSE 0]
  <2>1. /\ \A k \in 1 .. limit : k \in DOMAIN Discounts /\ Discounts[k] \in Nat \ {0} /\ d[k] = Discounts[k]
        /\ d[limit + 1] = 0 /\ \A k \in 1 .. limit + 1 : k \in 1 .. limit \/ k = limit + 1
    <3>1. ASSUME NEW k \in 1 .. limit PROVE k \in DOMAIN Discounts /\ Discounts[k] \in Nat \ {0}
      BY <1>2, EvaluationAssumption
    <3>2. ASSUME NEW k \in 1 .. limit PROVE d[k] = Discounts[k]
      BY <1>2
    <3>3. d[limit + 1] = 0
      BY <1>2
    <3>4. \A k \in 1 .. limit + 1 : k \in 1 .. limit \/ k = limit + 1
      BY <1>2
    <3>. HIDE DEF d
    <3>. QED  BY <3>1, <3>2, <3>3, <3>4
  <2>2. DOMAIN d = 1 .. limit + 1 /\ d = [k \in 1 .. limit + 1 |-> d[k]]
    OBVIOUS
  <2>. HIDE DEF d
  <2>3. d \in [1 .. limit + 1 -> Nat]
    <3>1. \A k \in 1 .. limit + 1 : d[k] \in Nat
      BY <2>1
    <3>. QED  BY <2>2, <3>1
  <2>4. ASSUME NEW j \in 1 .. limit + 1, NEW k \in 1 .. limit + 1, j < k PROVE d[j] > d[k]
    <3>1. j \in 1 .. limit
      BY <1>2, <2>4
    <3>2. CASE k \in 1 .. limit
      BY <2>1, <2>4, <3>1, <3>2, EvaluationAssumption
    <3>3. CASE k = limit + 1
      BY <2>1, <3>1, <3>3
    <3>. QED  BY <2>1, <3>2, <3>3
  <2>5. Weighs(d, limit) /\ Agree(d, Discounts, limit)
    BY <2>1, <2>3, <2>4 DEF Weighs, Agree
  <2>. QED  BY <2>5
<1>8. IsRetrieved(Found, relevant)
  BY <1>2, <1>3, <1>5, <1>6 DEF IsRetrieved
<1>. QED  BY <1>5, <1>6, <1>7, <1>8

\* what evaluate_ranking makes of results that the limit does not cut
LEMMA MetricsAre ==
    ASSUME NEW judged, NEW list, IsRetrieved(list, judged)
    PROVE  LET r == Relevances(list, judged)
               hits == {k \in DOMAIN r : r[k] > 0}
               m == EvaluateRanking(list, judged)
           IN  /\ m.recall = Fraction(Cardinality(ToSet(list) \intersect DOMAIN judged), Cardinality(DOMAIN judged))
               /\ m.reciprocal_rank = IF hits = {} THEN Fraction(0, 1) ELSE Fraction(1, Min(hits))
               /\ m.ndcg = Fraction(DiscountedGain(r), DiscountedGain(Ideal(judged)))
<1>. DEFINE n == Min({limit, Len(list)})
            cut == SubSeq(list, 1, n)
<1>1. limit \in Nat /\ Len(list) \in Nat /\ Len(list) <= limit /\ list \in Seq(Locations)
  BY DEF IsRetrieved
<1>2. n = Len(list)
  <2>1. \E x \in {limit, Len(list)} : \A y \in {limit, Len(list)} : x <= y
    BY <1>1
  <2>2. n \in {limit, Len(list)} /\ n <= Len(list) /\ n <= limit
    BY <1>1, <2>1 DEF Min
  <2>. QED  BY <1>1, <2>2
<1>3. cut = list
  <2>1. SubSeq(list, 1, Len(list)) = list
    BY <1>1
  <2>. HIDE DEF n
  <2>. QED  BY <1>2, <2>1
<1>. QED  BY <1>3 DEF EvaluateRanking

(* However many results share a location, no metric exceeds 1: a location  *)
(* is counted once, and no order of some of them gains more than the best   *)
(* limit of all in the best order.                                          *)
THEOREM NoMetricExceedsOne == EvaluationSpec => []MetricsAreFractions
<1>1. ASSUME EvaluationInv, metrics # NoMetrics
      PROVE  IsFraction(metrics.recall) /\ IsFraction(metrics.reciprocal_rank) /\ IsFraction(metrics.ndcg)
  <2>. DEFINE r == Relevances(Found, relevant)
              hits == {k \in DOMAIN r : r[k] > 0}
  <2>1. IsRetrieved(Found, relevant) /\ IsFiniteSet(DOMAIN relevant)
    BY <1>1, ResultsAreRetrieved DEF IsRetrieved
  <2>2. PICK d : Weighs(d, limit) /\ Agree(d, Discounts, limit)
    BY <1>1, ResultsAreRetrieved
  <2>3. metrics = EvaluateRanking(Found, relevant)
    BY <1>1 DEF EvaluationInv, MetricsInv
  <2>4. IsFraction(metrics.recall)
    <3>. DEFINE x == Cardinality(ToSet(Found) \intersect DOMAIN relevant)
                y == Cardinality(DOMAIN relevant)
    <3>1. metrics.recall = Fraction(x, y)
      BY <2>1, <2>3, MetricsAre
    <3>2. x \in Nat /\ y \in Nat /\ x <= y
      <4>1. ToSet(Found) \intersect DOMAIN relevant \in SUBSET DOMAIN relevant
        OBVIOUS
      <4>. QED  BY <2>1, <4>1, FS_Subset, FS_CardinalityType
    <3>. HIDE DEF x, y
    <3>. QED  BY <3>1, <3>2 DEF Fraction, IsFraction
  <2>5. IsFraction(metrics.reciprocal_rank)
    <3>1. metrics.reciprocal_rank = IF hits = {} THEN Fraction(0, 1) ELSE Fraction(1, Min(hits))
      BY <2>1, <2>3, MetricsAre
    <3>2. hits \subseteq Nat \ {0}
      <4>1. r \in Seq(Nat)
        BY <2>1, RelevancesCount
      <4>2. DOMAIN r \subseteq Nat \ {0}
        <5>. HIDE DEF r
        <5>. QED  BY <4>1
      <4>. QED  BY <4>2
    <3>. HIDE DEF hits
    <3>3. ASSUME hits # {} PROVE Min(hits) \in Nat \ {0}
      <4>1. \E k \in hits : \A j \in hits : k <= j
        BY <3>2, <3>3, SmallestExists
      <4>. QED  BY <3>2, <4>1 DEF Min
    <3>4. CASE hits = {}
      BY <3>1, <3>4 DEF Fraction, IsFraction
    <3>5. CASE hits # {}
      <4>. DEFINE k == Min(hits)
      <4>1. k \in Nat \ {0} /\ metrics.reciprocal_rank = Fraction(1, k)
        BY <3>1, <3>3, <3>5
      <4>. HIDE DEF k
      <4>. QED  BY <4>1 DEF Fraction, IsFraction
    <3>. QED  BY <3>4, <3>5
  <2>6. IsFraction(metrics.ndcg)
    <3>. DEFINE x == DiscountedGain(r)
                y == DiscountedGain(Ideal(relevant))
    <3>1. metrics.ndcg = Fraction(x, y)
      BY <2>1, <2>3, MetricsAre
    <3>2. x \in Nat /\ y \in Nat /\ x <= y
      BY <2>1, <2>2, IdealIsBest
    <3>. HIDE DEF x, y
    <3>. QED  BY <3>1, <3>2 DEF Fraction, IsFraction
  <2>. QED  BY <2>4, <2>5, <2>6
<1>2. EvaluationInv => MetricsAreFractions
  BY <1>1 DEF MetricsAreFractions
<1>. QED  BY <1>2, EvaluationInvHolds, PTL

(* nDCG is 1 for the searches that could not be better and for no other,   *)
(* whatever the judgements and however many are returned.                   *)
THEOREM PerfectionIsRecognised == EvaluationSpec => []PerfectIsBest
<1>1. ASSUME EvaluationInv, metrics # NoMetrics, relevant # NoCase
      PROVE  metrics.ndcg.num = metrics.ndcg.den <=> CannotBeBetter(Found, relevant)
  <2>. DEFINE x == DiscountedGain(Relevances(Found, relevant))
              y == DiscountedGain(Ideal(relevant))
  <2>1. IsRetrieved(Found, relevant) /\ relevant \in [DOMAIN relevant -> Nat \ {0}]
    BY <1>1, ResultsAreRetrieved DEF IsRetrieved
  <2>2. PICK d : Weighs(d, limit) /\ Agree(d, Discounts, limit)
    BY <1>1, ResultsAreRetrieved
  <2>3. metrics = EvaluateRanking(Found, relevant)
    BY <1>1 DEF EvaluationInv, MetricsInv
  <2>4. DOMAIN relevant # {}
    BY <1>1, <2>1 DEF NoCase
  <2>5. metrics.ndcg = Fraction(x, y)
    BY <2>1, <2>3, MetricsAre
  <2>6. y # 0 /\ (x = y <=> CannotBeBetter(Found, relevant))
    BY <2>1, <2>2, <2>4, IdealIsBest
  <2>. HIDE DEF x, y
  <2>. QED  BY <2>5, <2>6 DEF Fraction
<1>2. ASSUME EvaluationInv, metrics # NoMetrics
      PROVE  CannotBeBetter(Found, relevant) <=>
                LET found(k) == {LocationOf[results[j]] : j \in 1 .. k}
                    left(k)  == DOMAIN relevant \ found(k)
                IN  /\ \A k \in DOMAIN results : \A l \in left(k - 1) : relevant[l] <= Adds(k)
                    /\ Len(results) = limit \/ left(Len(results)) = {}
  <2>. DEFINE n == Len(results)
              found(k) == {LocationOf[results[j]] : j \in 1 .. k}
  <2>1. /\ IsRetrieved(Found, relevant) /\ DOMAIN results = 1 .. n /\ Len(Found) = n /\ n \in Nat
        /\ \A k \in 1 .. n : Found[k] = LocationOf[results[k]]
    BY <1>2, ResultsAreRetrieved
  <2>. HIDE DEF n
  <2>2. ASSUME NEW k \in 0 .. n PROVE Seen(Found, k) = found(k)
    <3>1. \A j \in 1 .. k : j \in 1 .. n
      BY <2>1
    <3>. QED  BY <2>1, <3>1 DEF Seen
  <2>3. ASSUME NEW k \in 1 .. n PROVE Relevances(Found, relevant)[k] = Adds(k)
    <3>1. Relevances(Found, relevant)[k] = IF Counts(Found, relevant, k) THEN relevant[Found[k]] ELSE 0
      BY <2>1, RelevancesCount
    <3>2. \A j \in 1 .. k - 1 : j \in 1 .. n
      BY <2>1
    <3>3. Counts(Found, relevant, k) <=>
            /\ LocationOf[results[k]] \in DOMAIN relevant
            /\ LocationOf[results[k]] \notin {LocationOf[results[j]] : j \in 1 .. k - 1}
      BY <2>1, <3>2 DEF Counts
    <3>4. Adds(k) = IF Counts(Found, relevant, k) THEN relevant[LocationOf[results[k]]] ELSE 0
      BY <3>3 DEF Adds
    <3>. QED  BY <2>1, <3>1, <3>4
  <2>4. \A k \in 1 .. n : k - 1 \in 0 .. n
    BY <2>1
  <2>5. n \in 0 .. n
    BY <2>1
  <2>6. CannotBeBetter(Found, relevant) <=>
          /\ \A k \in 1 .. n : \A l \in DOMAIN relevant \ Seen(Found, k - 1) :
                relevant[l] <= Relevances(Found, relevant)[k]
          /\ n = limit \/ DOMAIN relevant \ Seen(Found, n) = {}
    BY <2>1 DEF CannotBeBetter
  <2>7. CannotBeBetter(Found, relevant) <=>
          /\ \A k \in 1 .. n : \A l \in DOMAIN relevant \ found(k - 1) : relevant[l] <= Adds(k)
          /\ n = limit \/ DOMAIN relevant \ found(n) = {}
    <3>. HIDE DEF found
    <3>. QED  BY <2>2, <2>3, <2>4, <2>5, <2>6
  <2>. QED  BY <2>1, <2>7 DEF n
<1>3. EvaluationInv => PerfectIsBest
  BY <1>1, <1>2 DEF PerfectIsBest
<1>. QED  BY <1>3, EvaluationInvHolds, PTL
===========================================================================
