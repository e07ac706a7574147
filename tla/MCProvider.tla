----------------------------- MODULE MCProvider -----------------------------
(***************************************************************************)
(* Instances of Provider for TLC.  The .cfg files give the sets of         *)
(* processes, keys and targets as model values.                            *)
(***************************************************************************)
EXTENDS Provider
=============================================================================
