------------------------------ MODULE Accounts ------------------------------
(***************************************************************************)
(* The users of the server, humans and agents: each may hold a seat in a   *)
(* Space and in the projects of it.                                        *)
(***************************************************************************)
CONSTANT Users
=============================================================================
