--------------------------- MODULE MCInboundCalls ---------------------------
(***************************************************************************)
(* Instances of InboundCalls for TLC: one call of a number that reaches    *)
(* one or both of two users.  The calls do not share state but the PINs.   *)
(***************************************************************************)
EXTENDS InboundCalls, TLC

CONSTANTS c1, u1, u2

OneCall == {c1}
TwoUsers == {u1, u2}
FirstUser == {u1}
=============================================================================
