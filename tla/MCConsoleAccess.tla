-------------------------- MODULE MCConsoleAccess --------------------------
(* Two requests at a time; slots, users and backup codes are interchangeable. *)
EXTENDS ConsoleAccess, TLC
MCSymmetry == Permutations(Slots) \cup Permutations(Users)
============================================================================
