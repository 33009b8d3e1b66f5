-------------------------- MODULE MCSnapshotLocks --------------------------
(* Instances of SnapshotLocks for TLC; the constants are in the .cfg files. *)
EXTENDS SnapshotLocks
=============================================================================
