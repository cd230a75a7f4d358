------------------------- MODULE MCSpaceMembership -------------------------
(* Small instances of SpaceMembership for TLC. *)
EXTENDS SpaceMembership, TLC

CONSTANTS f, u1, u2, c1, r1, r2, r3

\* Joining; applying while the system puts users in; the management of members.
ThreeSets == {{"direct", "apply", "initial", "remove"}, {"apply", "upsert", "remove"},
              {"add", "upsert", "remove", "roles", "initial"}}

\* The founder is not interchangeable with the others.
Symmetry == Permutations(Users \ {Founder}) \cup Permutations(Codes) \cup Permutations(Reqs)
=============================================================================
