------------------------------ MODULE MCClient ------------------------------
(***************************************************************************)
(* Instances of Client for TLC; every constant is set in a .cfg.           *)
(***************************************************************************)
EXTENDS Client
=============================================================================
