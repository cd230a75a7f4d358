------------------------- MODULE MCProjectLifecycle -------------------------
(* Small instances of ProjectLifecycle for TLC. *)
EXTENDS ProjectLifecycle, TLC

CONSTANTS p1, p2, x, y

\* Two events of one project, or one each of two.
OneOrTwo == {[e \in Ids |-> x], (1 :> x) @@ (2 :> y)}
=============================================================================
