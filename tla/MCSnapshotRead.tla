--------------------------- MODULE MCSnapshotRead ---------------------------
(***************************************************************************)
(* Instances of SnapshotRead for TLC; every constant is set in a .cfg.     *)
(***************************************************************************)
EXTENDS SnapshotRead
=============================================================================
