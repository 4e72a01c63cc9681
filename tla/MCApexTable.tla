----------------------------- MODULE MCApexTable -----------------------------
(* ApexTable on small instances. *)
EXTENDS ApexTable, TLC

CONSTANTS s1, v1, v2

MCStrings == {s1}
MCValues == {v1, v2}
Symmetry == Permutations(MCValues)
=============================================================================
