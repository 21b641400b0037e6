--------------------------- MODULE MCPartitionList ---------------------------
(* Disks of up to three partitions and the first few objects made for them. *)
EXTENDS PartitionList

=============================================================================
