------------------------ MODULE MCCardActionDispatch ------------------------
(* A small instance of CardActionDispatch for TLC. *)
EXTENDS CardActionDispatch

CONSTANTS e1, e2, w1, w2, r1, k1, t1, t2, t3

MCRouteOf == [e \in Events |-> k1]
MCReplicaOf == [w \in Workers |-> r1]
\* The replica's registry has the route or lacks it.
AnyRoutes == {Routes, {}}
\* Two disturbances of one event, one of two.
FewerForMore == [S \in SUBSET Events |-> IF Cardinality(S) > 1 THEN 1 ELSE 2]
=============================================================================
