---------------------------- MODULE MCDBSnapshot ----------------------------
(* Snapshots of an instance with a backup window at midnight.              *)
EXTENDS DBSnapshotInvariant

Midnight == <<0, 0>>
=============================================================================
