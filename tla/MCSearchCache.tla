-------------------------- MODULE MCSearchCache --------------------------
EXTENDS SearchCache, TLC

ModelSymmetry == Permutations(Readers)

\* States that differ only in entries nobody can look up any more go for one:
\* a lookup that is still to come reads the present revision or a later one.
LiveCache ==
    {e \in cache : e.rev = revision \/ \E r \in Readers : req[r].pc = "lookup" /\ req[r].rev = e.rev}

LiveView == <<corpus, LiveCache, req, seen>>
===========================================================================
