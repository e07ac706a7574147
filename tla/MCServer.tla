------------------------------ MODULE MCServer ------------------------------
(***************************************************************************)
(* Instances of Server for TLC; every constant is set in a .cfg.           *)
(***************************************************************************)
EXTENDS Server
=============================================================================
