-------------------------- MODULE MCPartitionAssign --------------------------
(* A small instance of PartitionAssign: partitions of 1 to MaxSrc MB whose     *)
(* minimum is at most their size, fixed or not, with or without the all-zero   *)
(* item that a Microsoft reserved partition leaves behind; exact estimates or  *)
(* floats off by up to one part in Precision, rounds counted or not.           *)
EXTENDS PartitionAssign

CONSTANTS MaxSrc, MaxDst

SmallItems == {p \in [src : 1 .. MaxSrc, min : 1 .. MaxSrc, fixed : BOOLEAN] :
                  p.min <= p.src}
ZeroItem == [src |-> 0, min |-> 0, fixed |-> FALSE]
ItemsAndZero == SmallItems \cup {ZeroItem}
SmallDisks == DstOffset .. MaxDst
AnyBuild == [rounded : BOOLEAN, counted : BOOLEAN]

=============================================================================
