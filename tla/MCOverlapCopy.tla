--------------------------- MODULE MCOverlapCopy ----------------------------
(* A small instance of OverlapCopy: which segments the device fails for.     *)
EXTENDS OverlapCopy

FirstSeg == {0}
SecondSeg == {1}
ThirdSeg == {2}
LastSeg == {SegNum - 1}

=============================================================================
