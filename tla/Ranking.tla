------------------------------ MODULE Ranking ------------------------------
(* How SearchService.search orders its results: the candidates of the two  *)
(* indexes, cut to limit * candidate_multiplier, are merged by reciprocal   *)
(* rank fusion (retrieval/ranking.py), those whose document is gone by the  *)
(* time they are loaded are dropped, and the best limit remain.  A chunk   *)
(* goes by its identifier, a number in the order of str(chunk_id).         *)
EXTENDS Naturals, Sequences, SequencesExt, FiniteSetsExt, Ordering

CONSTANTS
    Chunks,
    MaxMatches,           \* bound: chunks that match in either index
    Limits, Multipliers,  \* of the request, of the settings
    RrfKs                 \* hybrid_rrf_k

ASSUME RankingAssumption ==
    /\ Chunks \subseteq Nat /\ MaxMatches \in Nat
    /\ Limits \subseteq Nat \ {0} /\ Multipliers \subseteq Nat \ {0} /\ RrfKs \subseteq Nat \ {0}

VARIABLES
    mode, limit, multiplier, rrf_k,    \* the request and the settings
    keywordMatches, vectorMatches,     \* what each index finds, best first
    loaded,                            \* chunks whose document is ready when they are loaded
    stage, ranked, results

request == <<mode, limit, multiplier, rrf_k, keywordMatches, vectorMatches>>
vars == <<request, loaded, stage, ranked, results>>

\* mutant: the multiplier is ignored
CandidateLimitOnly == limit
CandidateLimit == limit * multiplier

Candidates(matches) == SubSeq(matches, 1, Min({CandidateLimit, Len(matches)}))

Rank(chunk, list) == CHOOSE r \in DOMAIN list : list[r] = chunk

\* a fraction: 1.0 / (rrf_k + rank)
Reciprocal(rank) == [num |-> 1, den |-> rrf_k + rank]

Plus(x, y) == [num |-> x.num * y.den + y.num * x.den, den |-> x.den * y.den]

\* mutant: the vector score of a chunk replaces its keyword score
LastScore(chunk, keyword, vector) ==
    IF chunk \in ToSet(vector) THEN Reciprocal(Rank(chunk, vector)) ELSE Reciprocal(Rank(chunk, keyword))

Score(chunk, keyword, vector) ==
    LET of(list) == IF chunk \in ToSet(list) THEN Reciprocal(Rank(chunk, list)) ELSE [num |-> 0, den |-> 1]
    IN  Plus(of(keyword), of(vector))

\* mutant: equal scores keep the order of insertion, keyword candidates first
AheadByInsertion(c, d, keyword, vector) ==
    LET x == Score(c, keyword, vector)
        y == Score(d, keyword, vector)
        inserted == keyword \o vector
    IN  x.num * y.den > y.num * x.den \/
        (x.num * y.den = y.num * x.den /\
            Min({k \in DOMAIN inserted : inserted[k] = c}) < Min({k \in DOMAIN inserted : inserted[k] = d}))

\* the sort key: (-score, str(chunk_id))
Ahead(c, d, keyword, vector) ==
    LET x == Score(c, keyword, vector)
        y == Score(d, keyword, vector)
    IN  x.num * y.den > y.num * x.den \/ (x.num * y.den = y.num * x.den /\ c < d)

Fuse(keyword, vector) ==
    LET fused == ToSet(keyword) \union ToSet(vector)
    IN  InOrder(fused, [c \in fused |-> {d \in fused : Ahead(d, c, keyword, vector)}])

\* mutant: the limit cuts before the missing chunks are dropped
CutThenDrop(list, present) ==
    SelectSeq(SubSeq(list, 1, Min({limit, Len(list)})), LAMBDA c : c \in present)

Assemble(list, present) ==
    LET found == {p \in DOMAIN list : list[p] \in present}
        kept  == Ascending(found)
    IN  [p \in 1 .. Min({limit, Len(kept)}) |-> list[kept[p]]]

Matches == UNION {{list \in [1 .. n -> Chunks] : IsInjective(list)} : n \in 0 .. MaxMatches}

Init ==
    /\ mode \in {"keyword", "vector", "hybrid"}
    /\ limit \in Limits /\ multiplier \in Multipliers /\ rrf_k \in RrfKs
    /\ keywordMatches \in IF mode = "vector" THEN {<<>>} ELSE Matches
    /\ vectorMatches \in IF mode = "keyword" THEN {<<>>} ELSE Matches
    /\ stage = "find" /\ ranked = <<>> /\ results = <<>> /\ loaded = {}

RankCandidates ==
    /\ stage = "find" /\ stage' = "load"
    /\ LET keyword == Candidates(keywordMatches)
           vector  == Candidates(vectorMatches)
       IN  ranked' = CASE mode = "hybrid"  -> Fuse(keyword, vector)
                       [] mode = "keyword" -> keyword
                       [] mode = "vector"  -> vector
    /\ UNCHANGED <<request, loaded, results>>

LoadChunks ==
    /\ stage = "load" /\ stage' = "done"
    /\ \E present \in SUBSET ToSet(ranked) :
        loaded' = present /\ results' = Assemble(ranked, present)
    /\ UNCHANGED <<request, ranked>>

Next == RankCandidates \/ LoadChunks

Spec == Init /\ [][Next]_vars
---------------------------------------------------------------------------
NoWorse(c, d, list) == d \in ToSet(list) => c \in ToSet(list) /\ Rank(c, list) <= Rank(d, list)

\* A chunk that no index ranks behind another is never behind it in the
\* result, be it found by one index or by both.
BetterRanksComeFirst ==
    \A i, j \in DOMAIN results :
        /\ NoWorse(results[i], results[j], Candidates(keywordMatches))
        /\ NoWorse(results[i], results[j], Candidates(vectorMatches))
        => i <= j

\* The order of a hybrid search depends on ranks and identifiers only, not on
\* which index was asked first or how its candidates were inserted.
OrderIsIndependent ==
    stage # "find" /\ mode = "hybrid" =>
        ranked = Fuse(Candidates(vectorMatches), Candidates(keywordMatches))

\* A chunk that could be returned is left out only for better ones, and only
\* when these fill the limit.
NothingBetterIsLeftOut ==
    stage = "done" =>
        \A c \in loaded \ ToSet(results) :
            /\ Len(results) = limit
            /\ \A d \in ToSet(results) : Rank(d, ranked) < Rank(c, ranked)

\* What the candidate multiplier is for: documents that go away between the
\* search of an index and the loading of its chunks cost no result while
\* there are no more of them than the candidates asked for beyond the limit.
LimitIsReached ==
    stage = "done" =>
        \A matches \in {keywordMatches, vectorMatches} :
            LET candidates == ToSet(Candidates(matches))
            IN  Cardinality(candidates \ loaded) <= limit * (multiplier - 1) =>
                    Len(results) >= Min({limit, Len(matches) - Cardinality(candidates \ loaded)})
===========================================================================
