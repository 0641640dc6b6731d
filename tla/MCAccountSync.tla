---------------------------- MODULE MCAccountSync ----------------------------
(* One account; bounds in the configurations. *)
EXTENDS AccountSync, TLC
Symmetry == Permutations(Watchers)
==============================================================================
