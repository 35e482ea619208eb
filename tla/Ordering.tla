------------------------------ MODULE Ordering ------------------------------
(* The members of a finite set as a sequence, for the filters and sorts of  *)
(* the code: sorted() in retrieval/ranking.py, finditer in                  *)
(* ingestion/chunking.py, comprehensions with a condition.                  *)
EXTENDS Naturals, FiniteSets

\* the members of a set in order, where ahead[c] are the ones before c
InOrder(S, ahead) ==
    [p \in 1 .. Cardinality(S) |-> CHOOSE c \in S : Cardinality(ahead[c]) = p - 1]

\* positions, smallest first
Ascending(S) == InOrder(S, [i \in S |-> {j \in S : j < i}])
=============================================================================
