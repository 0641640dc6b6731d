---------------------------- MODULE MCSubmission ----------------------------
(* Two calls of one user, with the symmetry of their names.                 *)
EXTENDS Submission, TLC
MCSymmetry == Permutations(Calls) \cup Permutations(Items)
=============================================================================
