----------------------- MODULE MCPartitionBinding --------------------------
(* PartitionBinding with two ingests, two write ops and two partitions.    *)
EXTENDS PartitionBinding
=============================================================================
