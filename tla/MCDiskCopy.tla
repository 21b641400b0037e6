----------------------------- MODULE MCDiskCopy -----------------------------
(* Disks with partitions of any of the Numbers, of which at most one is      *)
(* reserved and one holds Windows; the destination has no partition, the      *)
(* reserved one, or that and one near the end.                                *)
EXTENDS DiskCopy, TLC

CONSTANTS Numbers

Parts == [kind : {"fixed"}, size : {2}, min : {1}]
           \cup [kind : {"data"}, size : {2, 4}, min : {2}]
           \cup [kind : {"system"}, size : {3}, min : {1}]
Msrs == {[kind |-> "msr", size |-> 1, min |-> 1]}

AtMostOne(f, kind) == Cardinality({s \in DOMAIN f : f[s].kind = kind}) <= 1

Tables(P) == {f \in UNION {[S -> P] : S \in SUBSET Numbers} :
                AtMostOne(f, "msr") /\ AtMostOne(f, "system")}

AnySource == [style : {"GPT"}, part : Tables(Parts \cup Msrs)]
               \cup [style : {"MBR"}, part : Tables(Parts)]

OldMsr == 1 :> [Msr EXCEPT !.id = -1]
Late == [offset |-> 9, size |-> 1, id |-> -1, efi |-> FALSE]
AnyOld == {<<>>, OldMsr, OldMsr @@ (2 :> Late)}
ExactBuild == {[rounded |-> FALSE, counted |-> TRUE]}

=============================================================================
