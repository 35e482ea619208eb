---------------------------- MODULE MCEvaluation ----------------------------
(* Small instances of Ranking, and of Evaluation over it, for TLC. *)
EXTENDS Evaluation
\* the first two chunks are of one section
ChunkLocations == (1 :> "a") @@ (2 :> "a") @@ (3 :> "b") @@ (4 :> "c")
\* none, one, two in either order, more than any limit
Judgements ==
    {NoCase, "a" :> 3, ("a" :> 1) @@ ("b" :> 3), ("b" :> 1) @@ ("c" :> 3), [l \in Locations |-> 1]}
\* 1.0, 0.63 and 0.5
LogDiscounts == <<100, 63, 50>>
============================================================================
