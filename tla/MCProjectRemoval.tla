-------------------------- MODULE MCProjectRemoval --------------------------
(* Small instances of ProjectRemoval for TLC: a founder, a second human with *)
(* an agent.                                                                 *)
EXTENDS ProjectRemoval, TLC

CONSTANTS ann, ben, bot, w1

BensAgent == [u \in Users |-> IF u = bot THEN ben ELSE Nobody]
=============================================================================
