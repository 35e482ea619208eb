------------------------ MODULE MCDocumentWorkflow ------------------------
(* Small instances of DocumentWorkflow for TLC. *)
EXTENDS DocumentWorkflowInv, TLC, FiniteSets
SameContent == [d \in Docs |-> CHOOSE c \in Contents : TRUE]
DeleterSymmetry == Permutations(Deleters)
===========================================================================
