-------------------------- MODULE MCOutboundCalls --------------------------
(***************************************************************************)
(* The instance of OutboundCalls for TLC: one request of one of two users; *)
(* the revocation of the other user must leave the request alone.          *)
(***************************************************************************)
EXTENDS OutboundCalls

CONSTANTS r1, u1, u2

MCOneUser == [r \in Requests |-> u1]
=============================================================================
