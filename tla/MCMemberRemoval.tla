-------------------------- MODULE MCMemberRemoval --------------------------
(* Small instances of MemberRemoval for TLC. *)
EXTENDS MemberRemoval, TLC

CONSTANTS u1, g1, q1, w1, w2
=============================================================================
