--------------------------- MODULE MCCompletionQueue ---------------------------
(* CompletionQueue on small instances. *)
EXTENDS CompletionQueue, TLC

Symmetry == Permutations(Task)
=============================================================================
