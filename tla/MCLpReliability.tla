-------------------------- MODULE MCLpReliability ---------------------------
(* A packet of two fragments and one of a single fragment.                   *)
EXTENDS LpReliability

MCPackets == {1, 2}
MCFragCount == <<2, 1>>
=============================================================================
