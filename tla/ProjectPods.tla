---------------------------- MODULE ProjectPods ----------------------------
(***************************************************************************)
(* What the workers of the project module share: every pod runs all of     *)
(* them (modules/project/api.go), on the rows of the same projects.        *)
(***************************************************************************)
CONSTANTS Pods, Projects
=============================================================================
