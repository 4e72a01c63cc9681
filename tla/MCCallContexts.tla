---------------------------- MODULE MCCallContexts ----------------------------
(* CallContexts on small instances. *)
EXTENDS CallContexts, TLC

Symmetry == Permutations(Coroutine) \cup Permutations(Site)
=============================================================================
