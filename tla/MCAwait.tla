-------------------------------- MODULE MCAwait --------------------------------
(* Await on small instances. *)
EXTENDS Await, TLC
=============================================================================
