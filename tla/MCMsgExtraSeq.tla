---------------------------- MODULE MCMsgExtraSeq ----------------------------
(* Small instances of MsgExtraSeq for TLC. *)
EXTENDS MsgExtraSeq, TLC

CONSTANTS r1, r2, c1, p1, chA, m1, m2, s1

\* Both writers in one process, or each in its own.
Anywhere == {(c1 :> r1) @@ (p1 :> r1), (c1 :> r1) @@ (p1 :> r2)}

OneChannel == [m \in Messages |-> chA]

\* Card frames of m1, and batches that lock its row last.
CardAndPair == (c1 :> {<<m1>>}) @@ (p1 :> {<<m2, m1>>})
=============================================================================
