------------------------------ MODULE Corpus ------------------------------
(* What a search may rely on: the set of searchable documents and the      *)
(* corpus revision that its cache keys carry.  A document becomes          *)
(* searchable only together with a new revision, and a deletion takes it   *)
(* away together with one.  It can also lapse: a transaction that read the *)
(* document before it was published, or before its deletion was accepted,  *)
(* takes it away without a revision.  DocumentWorkflow implements Spec; it  *)
(* does not implement AnnouncedSpec, where nothing lapses.                 *)
EXTENDS Naturals

CONSTANT Docs

VARIABLES searchable, revision

corpusVars == <<searchable, revision>>

Init == searchable = {} /\ revision = 0

Publish(d) == searchable' = searchable \union {d} /\ revision' = revision + 1

Retire(d) == searchable' = searchable \ {d} /\ revision' = revision + 1

Lapse(d) == searchable' = searchable \ {d} /\ UNCHANGED revision

Announced == \E d \in Docs : Publish(d) \/ Retire(d)

Next == Announced \/ \E d \in Docs : Lapse(d)

Spec == Init /\ [][Next]_corpusVars

AnnouncedSpec == Init /\ [][Announced]_corpusVars
===========================================================================
