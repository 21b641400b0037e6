--------------------------- MODULE PartitionAssign --------------------------
(***************************************************************************)
(* CDiskClone::PartitionAssign: give each partition of a source disk an    *)
(* offset and a size on the destination.  Fixed partitions keep their      *)
(* size; the others share what is left in proportion to their source       *)
(* size, but none below its minimum.  Sweeps over the items settle sizes   *)
(* and offsets from both ends of the disk towards the middle; a sweep that *)
(* settles nothing freezes the size of one more item.                      *)
(*                                                                         *)
(* Item n is the sentinel that marks the end of the destination.  Offset 0 *)
(* means "not known yet", as in the code.  Sizes are in MB.                *)
(***************************************************************************)
EXTENDS Integers

CONSTANTS MaxItems,     \* most partitions on the source disk
          ItemSet,      \* the items MakeCopyStrategy may pass
          DstOffset,    \* MSR_SIZE, the first offset to give out
          DstSizes,     \* destination sizes
          Precision,    \* a float estimate is off by at most one part in
                        \* Precision: 2^23 - 1 where a float holds every size,
                        \* that is below 2^24 MB, and 2^21 beyond
          U64,          \* 2^64, or the modulus that stands for it
          Builds        \* how the code may be built and run, see build

\* Sizes in MB fit in 64 bits; where estimates are floats, the destination is
\* too small for an estimate to be off by a MB.
ASSUME SizeAssumption ==
  /\ MaxItems \in Nat \ {0} /\ MaxItems < U64
  /\ ItemSet \subseteq [src : Nat, min : Nat, fixed : BOOLEAN]
  /\ DstOffset \in Nat \ {0}
  /\ DstSizes \subseteq Nat
  /\ Precision \in Nat \ {0}
  /\ U64 \in Nat \ {0}
  /\ \A p \in ItemSet : MaxItems * p.src < U64
  /\ \A d \in DstSizes : DstOffset <= d /\ d < U64
  /\ Builds \subseteq [rounded : BOOLEAN, counted : BOOLEAN]
  /\ (\E b \in Builds : b.rounded) => \A d \in DstSizes : d - DstOffset < Precision

VARIABLES
  build,         \* rounded: estimates are floats, not exact; counted:
                 \* LOG_DEBUG evaluates its round++
  n,             \* valid_partition
  limit,         \* dst_size, the size of the destination
  item,          \* [0..n-1 -> the fixed part of PARTITION_ITEM]
  set,           \* PARTITION_ITEM::set, sentinel included
  offset,        \* PARTITION_ITEM::dst_offset, sentinel included
  size,          \* PARTITION_ITEM::dst_size
  src_flexible,  \* source size of the items still estimated
  dst_flexible,  \* destination size left for them
  next_flexible, \* the item a sweep without a change freezes
  remain_to_set, \* items whose place is not settled
  ii,            \* the item the sweep visits next
  changed,       \* whether this sweep settled anything
  round,         \* sweeps started
  result         \* "start", "running", "true", "false" or "throw"

input == <<build, n, limit, item>>
layout == <<set, offset, size>>
totals == <<src_flexible, dst_flexible, remain_to_set>>
sweep == <<next_flexible, ii, changed, round>>
vars == <<input, layout, totals, sweep, result>>

-----------------------------------------------------------------------------

Items == 0 .. n - 1
Wrap(x) == x % U64

\* src_min_size after the preparation loop: a fixed item cannot shrink.
MinSize(p) == IF p.fixed THEN p.src ELSE p.min

\* The loops that add up f over the items from 0 on.
Sum(f, m) ==
  LET sum[k \in 0 .. m] == IF k = 0 THEN 0 ELSE sum[k - 1] + f[k - 1] IN sum[m]
Total(f) == Sum(f, n)
SrcSize == Total([k \in Items |-> item[k].src])
SrcFlexible == Total([k \in Items |-> IF item[k].fixed THEN 0 ELSE item[k].src])
SrcMin == Total([k \in Items |-> MinSize(item[k])])

Init ==
  /\ build \in Builds
  /\ n \in 1 .. MaxItems
  /\ limit \in DstSizes
  /\ item \in [0 .. n - 1 -> ItemSet]
  /\ set = [k \in 0 .. n |-> FALSE]
  /\ offset = [k \in 0 .. n |-> 0]
  /\ size = [k \in 0 .. n - 1 |-> 0]
  /\ src_flexible = 0 /\ dst_flexible = 0 /\ remain_to_set = 0
  /\ next_flexible = 0 /\ ii = 0 /\ changed = FALSE /\ round = 0
  /\ result = "start"

\* The caller's obligation and the two checks before the sweeps.
Enough == SrcMin <= Wrap(limit - DstOffset)
Feasible == SrcFlexible > 0 /\ Enough

Fix ==
  /\ size' = [k \in Items |-> IF item[k].fixed THEN item[k].src ELSE 0]
  /\ set' = [k \in 0 .. n |-> (k = n /\ Feasible) \/ (k < n /\ item[k].fixed)]

Reject ==
  /\ result = "start"
  /\ ~Feasible
  /\ Fix
  /\ result' = "false"
  /\ UNCHANGED <<input, offset, totals, sweep>>

\* What is left for the items that are not fixed.
AllOf_FlexibleSpace == Wrap(limit - DstOffset)
FlexibleSpace == Wrap(limit - DstOffset - (SrcSize - SrcFlexible))

Begin ==
  /\ result = "start"
  /\ Feasible
  /\ Fix
  /\ offset' = [offset EXCEPT ![0] = DstOffset, ![n] = limit]
  /\ src_flexible' = SrcFlexible
  /\ dst_flexible' = FlexibleSpace
  /\ remain_to_set' = n
  /\ round' = IF build.counted THEN 1 ELSE 0
  /\ result' = "running"
  /\ UNCHANGED <<input, next_flexible, ii, changed>>

-----------------------------------------------------------------------------
(* One visit of a sweep. *)

Settled(k) == set[k] /\ offset[k] # 0 /\ offset[k + 1] # 0

\* A settled item is passed over.
Skip(k) ==
  /\ Settled(k)
  /\ next_flexible' = IF next_flexible = k THEN k + 1 ELSE next_flexible
  /\ ii' = k + 1
  /\ UNCHANGED <<input, layout, totals, changed, round, result>>

Fail(outcome) ==
  /\ result' = outcome
  /\ UNCHANGED <<input, offset, totals, sweep>>

\* The end of a visit: item k has size z, frozen or not; the totals are sf and
\* df; c tells whether the estimate already changed something.
Fits(k, gap) == gap >= MinSize(item[k])

Placed == Wrap(remain_to_set - 1)

Place(k, z, frozen, sf, df, c) ==
  LET front == offset[k]
      back == offset[k + 1]
      gap == Wrap(back - front)
      Keep(off, sz, fr, rest) ==
        /\ offset' = off
        /\ size' = [size EXCEPT ![k] = sz]
        /\ set' = [set EXCEPT ![k] = fr]
        /\ remain_to_set' = rest
        /\ changed' = (c \/ rest # remain_to_set)
        /\ ii' = k + 1
        /\ UNCHANGED <<input, next_flexible, round, result>>
      Totals(s, d) == src_flexible' = Wrap(s) /\ dst_flexible' = Wrap(d)
  IN
  \* both ends are known: the item takes the gap, if it may and fits
  \/ /\ front # 0 /\ back # 0
     /\ \/ /\ frozen \/ ~Fits(k, gap)
           /\ size' = [size EXCEPT ![k] = z]
           /\ set' = [set EXCEPT ![k] = frozen]
           /\ result' = "false"
           /\ Totals(sf, df)
           /\ UNCHANGED <<input, offset, remain_to_set, sweep>>
        \/ /\ ~frozen /\ Fits(k, gap)
           /\ Keep(offset, gap, TRUE, Placed)
           /\ Totals(sf - item[k].src, df - gap)
  \* front end and size are known: the next item begins where this one ends
  \/ /\ front # 0 /\ back = 0 /\ frozen
     /\ Keep([offset EXCEPT ![k + 1] = Wrap(front + z)], z, TRUE, Placed)
     /\ Totals(sf, df)
  \* back end and size are known
  \/ /\ front = 0 /\ back # 0 /\ frozen
     /\ Keep([offset EXCEPT ![k] = Wrap(back - z)], z, TRUE, Placed)
     /\ Totals(sf, df)
  \* not enough is known yet
  \/ /\ (front = 0 \/ back = 0) /\ (frozen => front = 0 /\ back = 0)
     /\ Keep(offset, z, frozen, remain_to_set)
     /\ Totals(sf, df)

\* partition.src_size * ((float)dst_flexible / (float)src_flexible), truncated:
\* of every number that is off by at most one part in Precision.
Up_Estimates(k) == {(item[k].src * dst_flexible) \div src_flexible + 1}
Estimates(k) ==
  LET p == item[k].src * dst_flexible
      x == p \div src_flexible
      Rounds(e) == /\ (src_flexible * Precision) * e <= (Precision + 1) * p
                   /\ (src_flexible * Precision) * (e + 1) > (Precision - 1) * p
  IN {x} \cup {e \in 0 .. 2 * x + 1 : build.rounded /\ Rounds(e)}

\* An item without a size: estimate it, and raise it to its minimum.
Unsized(k) ==
  /\ ~set[k]
  /\ \/ /\ src_flexible = 0             \* the quotient is no number
        /\ Fail("throw")
        /\ UNCHANGED <<set, size>>
     \/ /\ src_flexible # 0
        /\ \E e \in Estimates(k) :
             \/ /\ e < MinSize(item[k])
                /\ Place(k, MinSize(item[k]), TRUE, src_flexible - item[k].src,
                         dst_flexible - MinSize(item[k]), TRUE)
             \/ /\ e >= MinSize(item[k])
                /\ Place(k, e, FALSE, src_flexible, dst_flexible, changed)

\* An item with a size, which must not be zero.
Sized(k) ==
  /\ set[k]
  /\ ~Settled(k)
  /\ \/ size[k] = 0 /\ Fail("false") /\ UNCHANGED <<set, size>>
     \/ size[k] # 0 /\ Place(k, size[k], TRUE, src_flexible, dst_flexible, changed)

Visit ==
  /\ result = "running"
  /\ ii < n
  /\ Skip(ii) \/ Unsized(ii) \/ Sized(ii)

\* A sweep that settled nothing freezes one more item at its estimate.
No_Freeze == set
Freeze == IF ~changed /\ next_flexible < n THEN [set EXCEPT ![next_flexible] = TRUE]
                                            ELSE set

\* The end of a sweep, and the start of the next.
EndSweep ==
  /\ result = "running"
  /\ ii = n
  /\ \/ /\ remain_to_set = 0
        /\ result' = "true"
        /\ UNCHANGED <<set, sweep>>
     \/ /\ remain_to_set # 0
        /\ set' = Freeze
        /\ round' = IF build.counted THEN round + 1 ELSE round
        /\ IF round' > 10 * n
             THEN result' = "false" /\ UNCHANGED <<ii, changed>>
             ELSE ii' = 0 /\ changed' = FALSE /\ UNCHANGED result
        /\ UNCHANGED next_flexible
  /\ UNCHANGED <<input, offset, size, totals>>

Ended == result \in {"true", "false", "throw"}
Stop == Ended /\ UNCHANGED vars

Next == Begin \/ Reject \/ Visit \/ EndSweep \/ Stop

Spec == Init /\ [][Next]_vars

FairSpec == Spec /\ WF_vars(Next)

-----------------------------------------------------------------------------

\* Types; no estimated or settled size exceeds the disk, whatever the rounding
\* of a float that is not off by a MB.
TypeOK ==
  /\ build \in Builds /\ n \in 1 .. MaxItems /\ limit \in DstSizes /\ item \in [Items -> ItemSet]
  /\ set \in [0 .. n -> BOOLEAN]
  /\ offset \in [0 .. n -> 0 .. U64 - 1] /\ size \in [Items -> 0 .. U64 - 1]
  /\ result = "running" => \A k \in Items : size[k] <= limit
  /\ {src_flexible, dst_flexible, remain_to_set} \subseteq 0 .. U64 - 1
  /\ next_flexible \in 0 .. n /\ ii \in 0 .. n /\ changed \in BOOLEAN /\ round \in Nat
  /\ result \in {"start", "running", "true", "false", "throw"}

\* When the function returns true the items tile the destination: each begins
\* where the previous one ends, the first at DstOffset, the last ends at the
\* end of the disk, none is below its minimum and the fixed ones keep their
\* source size.
LayoutCorrect ==
  result = "true" =>
    /\ offset[0] = DstOffset /\ offset[n] = limit
    /\ \A k \in Items : /\ offset[k + 1] = offset[k] + size[k]
                        /\ size[k] >= MinSize(item[k])
                        /\ item[k].fixed => size[k] = item[k].src

\* Whatever the sweeps have settled so far lies inside the destination, and the
\* known offsets are in the order of the items: no subtraction of sizes that
\* do not fit has wrapped around, nor has the space left for estimated items.
PlacedInOrder ==
  result = "running" =>
    /\ dst_flexible <= limit
    /\ \A k \in 0 .. n : offset[k] # 0 => offset[k] \in DstOffset .. limit
    /\ \A j, k \in 0 .. n : (j < k /\ offset[j] # 0 /\ offset[k] # 0)
                                => offset[j] <= offset[k]

\* With exact estimates, and without an item that is or may become empty, the
\* function says no only to a disk that cannot hold the minimum sizes or that has
\* no partition to resize, however much the items compete for the space.
Wanted == \A k \in Items : item[k].src # 0 /\ MinSize(item[k]) # 0

RefusesOnlyInfeasible ==
  (result \in {"false", "throw"} /\ ~build.rounded /\ Wanted) => ~Feasible

\* The sweeps end, even when no round is counted: with exact estimates because
\* each settles or freezes an item, with rounded ones by the limit on rounds.
Terminates == (build.counted \/ ~build.rounded) => <>Ended

=============================================================================
