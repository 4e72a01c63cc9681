-------------------------------- MODULE MCTables --------------------------------
(* Tables on small instances. *)
EXTENDS Tables, TLC

CONSTANTS s1, v1, v2, k1, k2, k3, e1, e2, e3

MCStrings == {s1}
MCValues == {v1, v2}
MCHashKeys == {k1, k2, k3}
MCCached == {k1}
MCEntries == {e1, e2, e3}
\* k1 and k2 share a bucket until the capacity is 8.
MCHash == k1 :> 0 @@ k2 :> 4 @@ k3 :> 5
Symmetry == Permutations(MCEntries) \cup Permutations(MCValues)
=============================================================================
