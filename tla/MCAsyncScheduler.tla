--------------------------- MODULE MCAsyncScheduler ---------------------------
(* AsyncScheduler on small instances. *)
EXTENDS AsyncScheduler

Futures == Permutations(Future)
=============================================================================
