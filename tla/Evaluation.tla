---------------------------- MODULE Evaluation ----------------------------
(* Retrieval evaluation: scripts/evaluate_retrieval.py asks for a search   *)
(* and measures its results against the judged locations of a case         *)
(* (evaluation/metrics.py).  A location is a file name, section path and   *)
(* page; several chunks may have the same one.  Metrics are fractions.     *)
EXTENDS Ranking

CONSTANTS
    Locations,
    LocationOf,    \* of each chunk
    Cases,         \* judgements: the relevance of each relevant location
    Discounts      \* 1 / log2(rank + 1), to scale: the best rank first

ASSUME EvaluationAssumption ==
    /\ LocationOf \in [Chunks -> Locations]
    /\ \A relevant \in Cases :
        /\ IsFiniteSet(DOMAIN relevant) /\ DOMAIN relevant \subseteq Locations
        /\ relevant \in [DOMAIN relevant -> Nat \ {0}]
    /\ Discounts \in Seq(Nat \ {0})
    /\ \A j, k \in DOMAIN Discounts : j < k => Discounts[j] > Discounts[k]
    /\ \A n \in Limits : n <= Len(Discounts)

VARIABLES relevant, metrics    \* of the case that is measured

NoMetrics == [recall |-> "none"]

NoCase == [l \in {} |-> 0]

\* a relevant location counts once, at the first of its chunks
\* mutant: every chunk of it counts
EveryRelevance(retrieved, judged) ==
    [k \in DOMAIN retrieved |-> IF retrieved[k] \in DOMAIN judged THEN judged[retrieved[k]] ELSE 0]

Relevances(retrieved, judged) ==
    [k \in DOMAIN retrieved |->
        IF retrieved[k] \in DOMAIN judged /\ ~\E j \in 1 .. k - 1 : retrieved[j] = retrieved[k]
        THEN judged[retrieved[k]] ELSE 0]

\* float(2**relevance) - 1.0
Gain(relevance) ==
    LET power[n \in 0 .. relevance] == IF n = 0 THEN 1 ELSE 2 * power[n - 1]
    IN  power[relevance] - 1

DiscountedGain(relevances) ==
    LET gain[k \in 0 .. Len(relevances)] ==
            IF k = 0 THEN 0 ELSE gain[k - 1] + Gain(relevances[k]) * Discounts[k]
    IN  gain[Len(relevances)]

\* all relevances there are, the largest first
Graded(judged) ==
    LET locations == SetToSeq(DOMAIN judged)
        value(i)  == judged[locations[i]]
        order     == InOrder(DOMAIN locations, [i \in DOMAIN locations |->
                        {j \in DOMAIN locations : value(j) > value(i) \/ (value(j) = value(i) /\ j < i)}])
    IN  [p \in DOMAIN order |-> value(order[p])]

\* mutant: the ideal ranking is not cut to the limit
WholeIdeal(judged) == Graded(judged)

\* the best limit relevances there are
Ideal(judged) == SubSeq(Graded(judged), 1, Min({limit, Len(Graded(judged))}))

\* x / y, or 0.0 of nothing
Fraction(x, y) == IF y = 0 THEN [num |-> 0, den |-> 1] ELSE [num |-> x, den |-> y]

EvaluateRanking(locations, judged) ==
    LET retrieved  == SubSeq(locations, 1, Min({limit, Len(locations)}))
        relevances == Relevances(retrieved, judged)
        hits       == {k \in DOMAIN relevances : relevances[k] > 0}
    IN  [recall |-> Fraction(Cardinality(ToSet(retrieved) \intersect DOMAIN judged), Cardinality(DOMAIN judged)),
         reciprocal_rank |-> IF hits = {} THEN Fraction(0, 1) ELSE Fraction(1, Min(hits)),
         ndcg |-> Fraction(DiscountedGain(relevances), DiscountedGain(Ideal(judged)))]

Evaluate ==
    /\ stage = "done" /\ metrics = NoMetrics
    /\ \E judged \in Cases :
        /\ relevant' = judged
        /\ metrics' = EvaluateRanking([k \in DOMAIN results |-> LocationOf[results[k]]], judged)
    /\ UNCHANGED vars

EvaluationInit == Init /\ relevant = NoCase /\ metrics = NoMetrics

EvaluationNext ==
    \/ Next /\ UNCHANGED <<relevant, metrics>>
    \/ Evaluate

EvaluationSpec == EvaluationInit /\ [][EvaluationNext]_<<vars, relevant, metrics>>
---------------------------------------------------------------------------
IsFraction(x) == x.num <= x.den

\* However many chunks of one section a search returns, no metric exceeds 1
\* (evaluate_ranking counts a location once).
MetricsAreFractions ==
    metrics # NoMetrics =>
        IsFraction(metrics.recall) /\ IsFraction(metrics.reciprocal_rank) /\ IsFraction(metrics.ndcg)

\* The judged relevance that result k adds to those before it.
Adds(k) ==
    LET location(j) == LocationOf[results[j]]
    IN  IF location(k) \in {location(j) : j \in 1 .. k - 1} \/ location(k) \notin DOMAIN relevant
        THEN 0 ELSE relevant[location(k)]

(* nDCG is 1 for the searches that could not be better, and for no other:  *)
(* those where each result adds as much relevance as any location that was *)
(* still to come, whatever lies beyond the limit.                          *)
PerfectIsBest ==
    metrics # NoMetrics /\ relevant # NoCase =>
        LET found(k) == {LocationOf[results[j]] : j \in 1 .. k}
            left(k)  == DOMAIN relevant \ found(k)
            cannotBeBetter ==
                /\ \A k \in DOMAIN results : \A l \in left(k - 1) : relevant[l] <= Adds(k)
                /\ Len(results) = limit \/ left(Len(results)) = {}
        IN  metrics.ndcg.num = metrics.ndcg.den <=> cannotBeBetter
===========================================================================
