------------------------------ MODULE MCAlerts ------------------------------
(***************************************************************************)
(* Instances of Alerts for TLC: one user with one or two messages.         *)
(***************************************************************************)
EXTENDS Alerts

CONSTANTS u1, m1, m2

MCOwner == [m \in Messages |-> u1]
=============================================================================
