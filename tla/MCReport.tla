------------------------------ MODULE MCReport ------------------------------
(* Two pairs, which are alike. *)
EXTENDS Report

Symmetry == Permutations(Pair)
=============================================================================
