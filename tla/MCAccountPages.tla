---------------------------- MODULE MCAccountPages ----------------------------
(* A browser with two tabs that are alike. *)
EXTENDS AccountPages, TLC

Symmetry == Permutations(Tabs)
=============================================================================
