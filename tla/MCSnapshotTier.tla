------------------------- MODULE MCSnapshotTier ----------------------------
(* SnapshotTier with two readers, two partitions, one commit while the     *)
(* daemon serves and one failed attempt.                                   *)
EXTENDS SnapshotTier
=============================================================================
