----------------------------- MODULE VolumeCopy -----------------------------
(***************************************************************************)
(* What a volume copy of CDiskClone promises, whatever engine carries it   *)
(* out: clusters of the destination go from their old content to the data  *)
(* of the same source cluster, in any order and in any grouping; a cluster *)
(* the device cannot transfer may end up with other bytes; the call        *)
(* returns only when every cluster it had to copy has been transferred,    *)
(* and writes nothing afterwards.                                          *)
(***************************************************************************)
EXTENDS Integers

CONSTANTS Clusters,    \* the clusters of the volume, a set of integers
          Old,         \* what a destination cluster holds before the copy
          Contents,    \* what a cluster may hold: source clusters are numbers
          Damaged      \* clusters that cannot be transferred faithfully

VARIABLES wanted,      \* the clusters the copy has to transfer
          dst,         \* the content of each destination cluster
          returned     \* TRUE once the copy call has returned

vars == <<wanted, dst, returned>>

Transferred(c) == dst[c] = c \/ c \in Damaged

Init ==
  /\ wanted \in SUBSET Clusters
  /\ dst = [c \in Clusters |-> Old]
  /\ returned = FALSE

\* Some clusters receive the data of their source cluster; damaged ones may
\* receive anything.
Transfer ==
  /\ ~returned
  /\ dst' \in [Clusters -> Contents]
  /\ \A c \in Clusters :
        \/ dst'[c] = dst[c]
        \/ dst[c] = Old /\ dst'[c] = c
        \/ dst[c] = Old /\ c \in Damaged
  /\ UNCHANGED <<wanted, returned>>

Return ==
  /\ ~returned
  /\ \A c \in wanted : Transferred(c)
  /\ returned' = TRUE
  /\ UNCHANGED <<wanted, dst>>

Next == Transfer \/ Return

Spec == Init /\ [][Next]_vars

=============================================================================
