------------------------------- MODULE MCApi -------------------------------
(* A small instance of Api for TLC. *)
EXTENDS Api, TLC
SameContent == [d \in Docs |-> CHOOSE c \in Contents : TRUE]
DocSymmetry == Permutations(Docs)

(* No step reads the revision or a reply to a request to delete, and the    *)
(* properties of this run tell apart only whether the latter was final.    *)
IsFinalReply == [d \in Docs |-> told[d] \in {NoContent, DeletionStatus["DocumentNotFoundError"]}]
ApiView ==
    <<docRow, jobRow, chunks, accepted, points, files, rq, sub, att, del, error, reply, IsFinalReply>>

(* Bound: the search ends where a second upload of a content is inserted   *)
(* after the deletion of the first was accepted: it goes on like the first. *)
OneIsInserted == \A d \in accepted : \A e \in Docs \ {d} : docRow[e] = NoRow
===========================================================================
