------------------------------- MODULE MCMoves -------------------------------
\* Three messages, one of them without identity, in three folders, each folder with a UIDVALIDITY of its own.
EXTENDS Moves

CONSTANTS m1, m2, m3

MCValidity == [f \in Folders |-> f]
=============================================================================
