------------------------------ MODULE DiskCopy ------------------------------
(***************************************************************************)
(* The copy of a whole disk.  MakeCopyStrategy makes an item of each       *)
(* partition of the source, has PartitionAssign lay them out and turns the *)
(* items into a list of steps; CopyDisk, run as an asynchronous job,       *)
(* clears the destination and carries the steps out one by one through     *)
(* WMI calls each of which may fail.                                       *)
(*                                                                         *)
(* Partitions are known by their number, which is also the slot of their   *)
(* object in the disk object; slot 0 stays empty.  Windows chooses where a *)
(* new partition goes.  The build copies no data (_IGNORE_COPY), so a step *)
(* makes the partition, takes the snapshot and sets the sizes.             *)
(***************************************************************************)
EXTENDS Integers, FiniteSets, Sequences

CONSTANTS MaxItems, ItemSet, DstOffset, DstSizes, Precision, U64, Builds,
                          \* see PartitionAssign; DstOffset is MSR_SIZE
          EfiBootSize,    \* EFI_BOOT_SIZE
          MB,             \* bytes in a MB
          Sources,        \* source disks
          OldTables       \* what the destination may hold before

Kinds == {"msr", "fixed", "data", "system"}

\* A "system" partition is a data partition with the drive letter of Windows;
\* a "fixed" one has no drive letter or a file system that is not resized.
\* Sizes are in MB; a partition is smaller than 1 TB for each MB of its minimum.
ASSUME CopyAssumption ==
  /\ {DstOffset, EfiBootSize, MB} \subseteq Nat \ {0}
  /\ \A d \in Sources :
       /\ d.style \in {"MBR", "GPT"}
       /\ IsFiniteSet(DOMAIN d.part) /\ DOMAIN d.part \subseteq Nat \ {0}
       /\ \A s \in DOMAIN d.part :
            /\ d.part[s].kind \in Kinds
            /\ {d.part[s].size, d.part[s].min} \subseteq Nat \ {0}
            /\ d.part[s].min <= d.part[s].size
            /\ d.part[s].size < d.part[s].min * MB
  /\ \A t \in OldTables :
       /\ IsFiniteSet(DOMAIN t) /\ DOMAIN t \subseteq Nat \ {0}
       /\ \A k \in DOMAIN t :
            /\ t[k] \in [offset : Nat, size : Nat \ {0}, id : {-1}, efi : BOOLEAN]
            /\ t[k].offset + t[k].size <= U64
  /\ U64 \in Nat /\ DstSizes \subseteq Nat /\ \A d \in DstSizes : DstOffset <= d /\ d < U64

VARIABLES
  build, n, limit, item, set, offset, size, src_flexible, dst_flexible,
  next_flexible, remain_to_set, ii, changed, round, result,
                 \* of PartitionAssign
  source,        \* the source disk when the copy began
  old,           \* the destination's partitions when the copy began
  now,           \* the size in bytes of each source partition
  table,         \* the destination's partitions, by number
  raw,           \* the destination has no partition table
  pc,            \* "scan", "assign", "list", "online", "step", "copy",
                 \* "resize" or "ended"
  strategy,      \* the list of steps
  pos,           \* the step being carried out
  index,         \* the partition that step has created
  dst_guid,      \* for each number below part_num the source partition whose
                 \* GUID it gets, or 0
  boot_index, sys_index,
  skipped,       \* the steps whose failure the code passed over
  outcome        \* "running", "refused", "ok", "error" or "dead"

Assign == INSTANCE PartitionAssign

layout_vars == <<build, n, limit, item, set, offset, size, src_flexible,
                 dst_flexible, next_flexible, remain_to_set, ii, changed, round, result>>
given == <<source, old>>
disks == <<now, table, raw>>
plan_vars == <<strategy, pos, index, dst_guid, boot_index, sys_index, skipped>>
vars == <<layout_vars, given, disks, plan_vars, pc, outcome>>

-----------------------------------------------------------------------------
(* MakeCopyStrategy. *)

\* The numbers of a set in their order.
Ascending(S) == CHOOSE f \in [1 .. Cardinality(S) -> S] : \A i, j \in DOMAIN f : i < j => f[i] < f[j]

Slots == DOMAIN source.part

BootItem == [src |-> EfiBootSize, min |-> EfiBootSize, fixed |-> TRUE, index |-> 0, system |-> FALSE]
ZeroItem == [src |-> 0, min |-> 0, fixed |-> FALSE, index |-> 0, system |-> FALSE]

\* The item of a partition; a reserved one leaves its item as it was allocated.
ItemOf(s) ==
  LET p == source.part[s] IN
  IF source.style = "GPT" /\ p.kind = "msr" THEN ZeroItem
  ELSE [src |-> p.size, min |-> p.min, fixed |-> p.kind \notin {"data", "system"},
        index |-> s, system |-> p.kind = "system"]

PartSeq == Ascending(Slots)
Items == (IF source.style = "MBR" THEN <<BootItem>> ELSE <<>>)
           \o [k \in 1 .. Len(PartSeq) |-> ItemOf(PartSeq[k])]

flexible == Cardinality({s \in Slots : source.part[s].kind \in {"data", "system"}})

Init ==
  /\ source \in Sources /\ old \in OldTables /\ limit \in DstSizes /\ build \in Builds
  /\ now = [s \in Slots |-> source.part[s].size * MB]
  /\ table = old /\ raw = FALSE
  /\ n = 0 /\ item = <<>> /\ set = <<>> /\ offset = <<>> /\ size = <<>>
  /\ src_flexible = 0 /\ dst_flexible = 0 /\ remain_to_set = 0
  /\ next_flexible = 0 /\ ii = 0 /\ changed = FALSE /\ round = 0 /\ result = "start"
  /\ pc = "scan" /\ strategy = <<>> /\ pos = 1 /\ index = 0 /\ dst_guid = <<>>
  /\ boot_index = 0 /\ sys_index = 0 /\ skipped = {}
  /\ outcome = "running"

\* No plan: the job is not started.
Refused == pc' = "ended" /\ outcome' = "refused"

\* The scan of the source; a query that fails throws.
Scan ==
  /\ pc = "scan"
  /\ \/ /\ Items # <<>>
        /\ n' = Len(Items)
        /\ item' = [k \in 0 .. n' - 1 |-> [src |-> Items[k + 1].src, min |-> Items[k + 1].min,
                                           fixed |-> Items[k + 1].fixed]]
        /\ set' = [k \in 0 .. n' |-> FALSE]
        /\ offset' = [k \in 0 .. n' |-> 0]
        /\ size' = [k \in 0 .. n' - 1 |-> 0]
        /\ pc' = IF flexible = 0 THEN "list" ELSE "assign"
        /\ UNCHANGED outcome
     \/ Refused /\ UNCHANGED <<n, item, set, offset, size>>
  /\ UNCHANGED <<build, limit, src_flexible, dst_flexible, next_flexible, remain_to_set,
                 ii, changed, round, result, given, disks, plan_vars>>

PartitionAssign ==
  /\ pc = "assign"
  /\ Assign!Begin \/ Assign!Reject \/ Assign!Visit \/ Assign!EndSweep
  /\ UNCHANGED <<given, disks, plan_vars, pc, outcome>>

\* Its result is not looked at, but an exception is one.
Assigned ==
  /\ pc = "assign" /\ Assign!Ended
  /\ IF result = "throw" THEN Refused ELSE pc' = "list" /\ UNCHANGED outcome
  /\ UNCHANGED <<layout_vars, given, disks, plan_vars>>

Step(op) == [op |-> op, part |-> 0, how |-> "no_change", src |-> 0, dst |-> 0, at |-> 0, system |-> FALSE]

How(k) ==
  CASE item[k].fixed \/ item[k].src = size[k] -> "no_change"
    [] ~item[k].fixed /\ size[k] < item[k].src -> "shrink"
    [] OTHER -> "expand"

\* The step of item k.  The position of an item is taken for a partition
\* number: an item whose position is no partition of the source has no step.
IsBoot(k) == Items[k + 1].index = 0 /\ item[k].fixed
HasStep(k) == IsBoot(k) \/ k \in Slots

StepOf(k) ==
  [op |-> IF IsBoot(k) THEN "boot" ELSE "copy",
   part |-> Items[k + 1].index, how |-> How(k), src |-> item[k].src, dst |-> size[k],
   at |-> offset[k], system |-> Items[k + 1].system]

LastStep == IF source.style = "MBR" THEN "make_boot" ELSE "guid"

StepsOf(K) == LET order == Ascending(K) IN [k \in 1 .. Len(order) |-> StepOf(order[k])]

Plan(K) == <<Step("clear")>> \o StepsOf(K) \o <<Step(LastStep)>>

\* CopyDisk allocates dst_guid by the number of steps.
Short_Guids(steps) == [k \in 0 .. Len(steps) - 2 |-> 0]
Guids(steps) == [k \in 0 .. Len(steps) - 1 |-> 0]

MakeList ==
  /\ pc = "list"
  /\ strategy' = Plan({k \in 0 .. n - 1 : HasStep(k)})
  /\ dst_guid' = Guids(strategy')
  /\ pc' = "online"
  /\ UNCHANGED <<layout_vars, given, disks, pos, index, boot_index, sys_index,
                 skipped, outcome>>

-----------------------------------------------------------------------------
(* What Windows does. *)

End(p) == p.offset + p.size
Overlap(p, q) == p.offset < End(q) /\ q.offset < End(p)

\* The gaps of the table: a gap begins where a partition ends.
FreeFrom(t, o) == {l \in 1 .. limit - o : \A k \in DOMAIN t : ~Overlap([offset |-> o, size |-> l], t[k])}
GapStarts(t) == {o \in {End(t[k]) : k \in DOMAIN t} : FreeFrom(t, o) # {}}
GapSize(t, o) == CHOOSE l \in FreeFrom(t, o) : \A m \in FreeFrom(t, o) : m <= l
Largest(t) == {GapSize(t, o) : o \in GapStarts(t)}

NewNumber(t) == CHOOSE k \in 1 .. Cardinality(DOMAIN t) + 1 :
                  k \notin DOMAIN t /\ \A j \in 1 .. k - 1 : j \in DOMAIN t

\* CreatePartition without an offset, where size 0 asks for all the space: the
\* partition begins at any gap that is large enough.
Places(mb) ==
  {[offset |-> o, size |-> IF mb = 0 THEN GapSize(table, o) ELSE mb, id |-> 0, efi |-> FALSE] :
     o \in {g \in GapStarts(table) :
              IF mb = 0 THEN \A l \in Largest(table) : l <= GapSize(table, g)
                        ELSE mb <= GapSize(table, g)}}

Added(p) ==
  LET new == NewNumber(table) IN
  [k \in DOMAIN table \cup {new} |-> IF k = new THEN p ELSE table[k]]

\* A partition can be resized, given in bytes, if it has room and its volume fits.
Fits(t, k, bytes) ==
  LET p == [t[k] EXCEPT !.size = bytes \div MB] IN
  p.size > 0 /\ End(p) <= limit /\ \A j \in DOMAIN t \ {k} : ~Overlap(p, t[j])

SourceFits(s, bytes) == bytes \in source.part[s].min * MB .. source.part[s].size * MB

-----------------------------------------------------------------------------
(* CopyDisk. *)

At(op) == pc = "step" /\ pos <= Len(strategy) /\ strategy[pos].op = op
This == strategy[pos]

\* An exception leaves the copy where it is; CallThread reports an error.
Throw == pc' = "ended" /\ outcome' = "error"
GoOn == pc' = "step" /\ pos' = pos + 1 /\ UNCHANGED outcome
Done == GoOn /\ UNCHANGED skipped

\* The step failed, and the code goes on as if it had not.
PassedOver == GoOn /\ skipped' = skipped \cup {pos}

Online ==
  /\ pc = "online"
  /\ \/ pc' = "step" /\ UNCHANGED outcome
     \/ Throw
  /\ UNCHANGED <<layout_vars, given, disks, plan_vars>>

\* Clear and Initialize: an error code of either is only logged.  The new
\* table has the reserved partition.
Msr == [offset |-> 0, size |-> DstOffset, id |-> 0, efi |-> FALSE]

ClearDisk ==
  /\ At("clear")
  /\ \/ /\ table' = [k \in {1} |-> Msr] /\ raw' = FALSE
        /\ Done
     \/ /\ table' = <<>> /\ raw' = TRUE
        /\ PassedOver \/ (Throw /\ UNCHANGED <<pos, skipped>>)
     \/ /\ UNCHANGED <<table, raw>>
        /\ PassedOver \/ (Throw /\ UNCHANGED <<pos, skipped>>)
  /\ UNCHANGED <<layout_vars, given, now, strategy, index, dst_guid, boot_index, sys_index>>

\* A partition that was created but is not returned ends the copy as well.
NotCreated(mb) ==
  /\ table' \in {table} \cup {Added(p) : p \in Places(mb)}
  /\ Throw
  /\ UNCHANGED <<raw, now, plan_vars>>

CreateBootPartition ==
  /\ At("boot")
  /\ \/ \E p \in Places(This.dst) :
          /\ table' = Added(p)
          /\ boot_index' = NewNumber(table)
          /\ Done
          /\ UNCHANGED <<raw, now, strategy, index, dst_guid, sys_index>>
     \/ NotCreated(This.dst)
  /\ UNCHANGED <<layout_vars, given>>

\* A partition that will be expanded is created with the size of the source.
CreateSize(step) == IF step.how = "expand" THEN step.src ELSE step.dst

Any_AsPlanned(p, step) == TRUE
AsPlanned(p, step) == p.offset = step.at

\* The GUID of source partition part goes to partition k of the destination; a
\* number beyond the array, which an assertion denies, is lost.
Remember(k, part) == [j \in DOMAIN dst_guid |-> IF j = k THEN part ELSE dst_guid[j]]

CreateCopy ==
  /\ At("copy") /\ This.part \in Slots
  /\ \/ \E p \in Places(CreateSize(This)) :
          /\ table' = Added(p)
          /\ \/ /\ AsPlanned(p, This)
                /\ index' = NewNumber(table)
                /\ dst_guid' = Remember(index', This.part)
                /\ pc' = "copy"
                /\ UNCHANGED outcome
             \/ ~AsPlanned(p, This) /\ Throw /\ UNCHANGED <<index, dst_guid>>
          /\ UNCHANGED <<raw, now, strategy, pos, boot_index, sys_index, skipped>>
     \/ NotCreated(CreateSize(This))
  /\ UNCHANGED <<layout_vars, given>>

\* GetPartition(0) finds nothing, and the null pointer is used.
UseNoPartition ==
  /\ At("copy") /\ This.part \notin Slots
  /\ pc' = "ended" /\ outcome' = "dead"
  /\ UNCHANGED <<layout_vars, given, disks, plan_vars>>

\* The source is shrunk, Resize being given a number of MB for bytes; a
\* resize that is refused is only logged.
Meant_ShrinkTo(mb) == mb * MB
ShrinkTo(mb) == mb

Resized(s, bytes) == IF SourceFits(s, bytes) THEN {now, [now EXCEPT ![s] = bytes]} ELSE {now}

CopyVolume ==
  /\ pc = "copy"
  /\ now' \in IF This.how = "shrink" THEN Resized(This.part, ShrinkTo(table[index].size)) ELSE {now}
  /\ \/ pc' = "resize" /\ UNCHANGED outcome
     \/ Throw                                            \* no snapshot
  /\ UNCHANGED <<layout_vars, given, table, raw, plan_vars>>

\* The source is given its size back, or the destination is expanded.
ResizeBack ==
  /\ pc = "resize"
  /\ now' \in IF This.how = "shrink" THEN Resized(This.part, This.src) ELSE {now}
  /\ \/ This.how # "expand" /\ UNCHANGED table /\ Done
     \/ /\ This.how = "expand" /\ Fits(table, index, This.dst * MB)
        /\ table' = [table EXCEPT ![index].size = This.dst]
        /\ Done
     \/ This.how = "expand" /\ UNCHANGED table /\ PassedOver
  /\ sys_index' = IF This.system THEN index ELSE sys_index
  /\ UNCHANGED <<layout_vars, given, raw, strategy, index, dst_guid, boot_index>>

\* MakeBootPartitionForMBRSource; that it finds no system partition, or no free
\* drive letter, is not looked at.  Any of its calls may throw.
MakeBoot ==
  /\ At("make_boot")
  /\ \/ /\ sys_index # 0
        /\ table' = [table EXCEPT ![boot_index].efi = TRUE]
        /\ Done
     \/ UNCHANGED table /\ PassedOver
     \/ UNCHANGED <<table, pos, skipped>> /\ sys_index # 0 /\ Throw
  /\ UNCHANGED <<layout_vars, given, raw, now, strategy, index, dst_guid, boot_index, sys_index>>

\* The new GPT is written as a whole or not at all, see GptCache.
GuidFor(k) == IF k \in DOMAIN dst_guid THEN dst_guid[k] ELSE 0

CopyGuid ==
  /\ At("guid")
  /\ \/ /\ table' = [k \in DOMAIN table |->
                       [table[k] EXCEPT !.id = IF GuidFor(k) # 0 THEN GuidFor(k) ELSE @]]
        /\ Done \/ (Throw /\ UNCHANGED <<pos, skipped>>)
     \/ UNCHANGED <<table, pos, skipped>> /\ Throw
  /\ UNCHANGED <<layout_vars, given, raw, now, strategy, index, dst_guid, boot_index, sys_index>>

\* CopyDisk returns and CallThread sets result 0.
Return ==
  /\ pc = "step" /\ pos > Len(strategy)
  /\ pc' = "ended" /\ outcome' = "ok"
  /\ UNCHANGED <<layout_vars, given, disks, plan_vars>>

Stop == pc = "ended" /\ UNCHANGED vars

Next ==
  \/ Scan \/ PartitionAssign \/ Assigned \/ MakeList
  \/ Online \/ ClearDisk \/ CreateBootPartition
  \/ CreateCopy \/ UseNoPartition \/ CopyVolume \/ ResizeBack
  \/ MakeBoot \/ CopyGuid \/ Return
  \/ Stop

Spec == Init /\ [][Next]_vars

-----------------------------------------------------------------------------

Partition == [offset : 0 .. U64, size : 0 .. U64, id : Slots \cup {0, -1}, efi : BOOLEAN]

\* A partition of the old table, whose id is -1, is still there.
Leftover == \E k \in DOMAIN table : table[k].id = -1

\* Types; and "JCASSERT(index < part_num)": on a disk that was cleared, the
\* number of a partition made for a copy is below the number of steps, by which
\* dst_guid was allocated.
TypeOK ==
  /\ DOMAIN table \subseteq Nat \ {0} /\ \A k \in DOMAIN table : table[k] \in Partition
  /\ raw \in BOOLEAN
  /\ now \in [Slots -> Nat]
  /\ pc \in {"scan", "assign", "list", "online", "step", "copy", "resize", "ended"}
  /\ pos \in 1 .. Len(strategy) + 1 /\ skipped \subseteq 1 .. Len(strategy)
  /\ DOMAIN dst_guid \subseteq Nat
  /\ (pc \in {"copy", "resize"} /\ ~Leftover) => index \in DOMAIN dst_guid
  /\ outcome \in {"running", "refused", "ok", "error", "dead"}

\* However a copy ends, with an exception between two steps too, the source has
\* the sizes it began with: it is not left shrunk.
SourceKept == pc = "ended" => now = [s \in Slots |-> source.part[s].size * MB]

\* What each step of the plan is to bring about: a new table, the boot partition,
\* every copy where PartitionAssign put it and with the size it was given, the
\* type of the boot partition, the GUIDs of the source.  (Size 0, of a boot
\* partition that was not laid out, asks for all the space.)
Copies == {i \in 1 .. Len(strategy) : strategy[i].op = "copy"}

MadeBy(i, mb) == {k \in DOMAIN table : table[k].offset = strategy[i].at /\ table[k].size = mb}

InPlace(i) ==
  CASE strategy[i].op = "clear" -> ~raw /\ ~Leftover
    [] strategy[i].op = "boot" ->
         boot_index \in DOMAIN table /\ strategy[i].dst \in {0, table[boot_index].size}
    [] strategy[i].op = "copy" -> MadeBy(i, strategy[i].dst) # {}
    [] strategy[i].op = "make_boot" -> boot_index \in DOMAIN table /\ table[boot_index].efi
    [] strategy[i].op = "guid" ->
         \A j \in Copies : \E k \in MadeBy(j, CreateSize(strategy[j])) \cup MadeBy(j, strategy[j].dst) :
           table[k].id = strategy[j].part

\* The plan is carried out.  A layout PartitionAssign gave up on is not used, and
\* a step may be missing only when its failure was passed over; a copy that was
\* not expanded is there with the size of the source.
CarriedOut ==
  /\ Copies # {} => result = "true"
  /\ \A i \in 1 .. Len(strategy) \ skipped : InPlace(i)
  /\ \A i \in Copies \cap skipped : MadeBy(i, CreateSize(strategy[i])) # {}

\* The job keeps its contract: it leaves the destination alone until there is a
\* plan, and reports success only when the plan is carried out, but for a clear,
\* an expansion or a make_boot that failed and was passed over.  (A null pointer
\* ends the program, which settles nothing.)
Cloned == strategy # <<>> /\ pos > Len(strategy) /\ CarriedOut
Target ==
  CASE Cloned -> "clone"
    [] ~Cloned /\ table = old /\ ~raw -> "kept"
    [] OTHER -> "rewritten"
Outcome == IF outcome = "dead" THEN "running" ELSE outcome
Contract == INSTANCE CloneContract WITH target <- Target, outcome <- Outcome
ImplementsClone == Contract!Spec

\* "Result: <0: in progress, =0: ended without error, >0: ended, error code":
\* result 0 means that every partition of the source, but a reserved one, was
\* copied.
EveryPartitionCopied ==
  outcome = "ok" => \A s \in Slots : source.part[s].kind = "msr" \/ \E i \in Copies : strategy[i].part = s

=============================================================================
