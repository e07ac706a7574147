---------------------------- MODULE MCReadiness ----------------------------
(***************************************************************************)
(* Instances of Readiness for TLC; every constant is set in a .cfg.        *)
(***************************************************************************)
EXTENDS Readiness
=============================================================================
