---------------------------- MODULE MCLocalStore ----------------------------
(* Small instances of LocalStore for TLC. *)
EXTENDS LocalStore, TLC
StoreSymmetry == Permutations(Docs) \union Permutations(Deleters)
============================================================================
