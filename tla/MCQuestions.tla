---------------------------- MODULE MCQuestions ----------------------------
(* Small instances of Questions for TLC. *)
EXTENDS Questions
===========================================================================
