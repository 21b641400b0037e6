# DiskLet: TLA+ models, checks and proofs

DiskLet is a PowerShell plugin for accessing storage devices: it clones disks
and volumes, edits partitions and GUID partition tables, talks to NVMe, ATA and
TCG devices, and comes with a workload analyser that holds an SSD simulator. All
paths below are under `src/application/`. The repository has no test suite, so
the comments and assertions of the code are the only statements of what it
should do besides the code itself.

## 1. Inventory

| Component | Code | State | Operations | Hard part | Status |
|---|---|---|---|---|---|
| Overlapped copy engine | `StorageDeviceLib/source/disk_clone.cpp` 775-1053 | 16 tasks (state, segment, buffer, event), next segment, read and write counters | wait, start read, start write, take the next segment, exit test | completions in any order, busy tasks without work, unsigned wrap-around, failed I/O | modelled, proved |
| Synchronous copies | same, 659-773 | position | one loop | unchecked errors | as the chunk loop of a job |
| Partition layout | same, 369-523 | items with size, offset, `set`; totals left | sweeps, estimates, freezing | termination, float rounding, unsigned arithmetic | modelled |
| Copy strategy, disk copy | same, 525-621, 1277-1636 | a plan, the partitions of two disks | make plan, clear, create, shrink, resize, make bootable, copy GUIDs | one step of many failing, numbers of two kinds | modelled |
| Asynchronous job | `include/disk_clone.h` 9-38, 109-157, `disk_clone.cpp` 34-256, 1174-1274, `DiskLet/source/DiskLet.cpp` 226-271 | result, progress, open handles, the reference | run, set progress and result, poll, release | two threads, an object released while used | modelled |
| WMI calls | `wmi_object_base.cpp` 74-106, 363-428 | status, made-up progress | call, poll | late, refused, failed, lost answers | modelled |
| GPT cache | `disk_info.cpp` 302-399 | header and entries in memory, what objects remember | cache, set, update, close | crash between two writes, stale cache | modelled |
| Disk and partition objects | `disk_info.cpp` 104-300, `storage_manage.cpp` | lists of objects with references | add, remove, refresh, create, delete | indices of two kinds, references given back twice | the list modelled |
| Volumes, snapshots | `volume_info.cpp` | - | WMI and VSS calls in order | - | not modelled: pure I/O |
| Device pass-through | `storage_device.cpp`, `nvme_device.cpp`, `ata_device.cpp`, `SlotSpeedGetter.cpp` | - | one request each | - | not modelled: pure I/O and decoding |
| Cmdlets | `DiskLet/source` | parameters | check and call | polling loops | polling loops only |
| SSD simulator | `workload-analyzer/source/ssd-simulator.h`, `.cpp` | FTL, blocks, three block lists, two open blocks | start, read, write, two collections | counters kept apart from what they count, running out of blocks | modelled |
| Workload analysis | `workload-analyzer.cpp`, `trace-statistic.h` | counters, top-K heap | add, rank | heap order | not modelled |
| TCG session | `LibTcg/source/tcg_session.cpp` | session numbers, open and abort flags | start, end, revert, reset, passwords, destructor | flags out of step with the device, lost replies | modelled |
| TCG tokens, parsers | `LibTcg/source/dta_command.cpp`, `dta_response.cpp`, `tcg_token.cpp`, `tcg-parser` | - | write, read, print | lengths at the borders of the forms | the atoms a session sends and reads |
| web spider, window automation, calculator, scripts, vendored code | | | | | not modelled |

Interaction: a cmdlet calls a method of `CDiskClone`, which starts a job on a
thread of its own; the job opens the volumes, may take a snapshot, runs one of
the copies and reports through a progress object both sides share; the cmdlet
polls that object. A disk copy lays the partitions out first, creates them
through WMI and copies the GUIDs through the GPT cache. Resizing a partition is
a WMI call polled through an object with the same interface. A TCG session wraps
a device object, which only sends and receives. The SSD simulator is a program
of its own.

What makes each component correct:

* copy engine: each used cluster is transferred once, to its own place, from a
  buffer that holds its data; the call returns, and only when all is written;
* layout: the items tile the destination, none below its minimum; a disk that is
  large enough is not refused; the sweeps end;
* job: one outcome, reported once, by an object that is there as long as anyone
  uses it; a percentage the shell accepts;
* disk copy: the destination is left alone until there is a plan; success means
  that every step of the plan is in place but those whose failure the code passes
  over; the source keeps its sizes;
* partition list: a slot holds the object of that partition, and an object in it
  has a reference;
* GPT cache: whenever the machine stops the disk has a table that was asked for
  as a whole (until an inconsistent primary is written back); an update changes what it was told to change and nothing Windows did
  in between;
* TCG session: a call that returns 0 took effect on the drive; a session open on
  the drive is one the object knows of and will end; every call returns;
* simulator: the FTL and the pages agree, the counters count, the lists
  partition the blocks, a collection ends and never runs dry half way.

`PROJECT.json` lists every hazard with its line and the properties that would
catch it.

## 2. Modules

| Module | Models | Runs |
|---|---|---|
| `VolumeCopy` | what a volume copy promises | through `ImplementsVolumeCopy` |
| `OverlapCopy`, `MCOverlapCopy` | `CopySectorsByMapOverlap` | `overlap_copy` |
| `OverlapCopyProofs`, `PartitionAssignProofs`, `CopyJobProofs`, `WmiJobProofs`, `GptCacheProofs`, `TcgSessionProofs`, `SsdFtlProofs`, `DiskCopyProofs` | proofs about the module each is named for (`TcgSessionProofs` also about `TcgTokens`) | TLAPS |
| `PartitionAssign`, `MCPartitionAssign` | `PartitionAssign` | `partition_assign` |
| `JobContract` | what `IJCProgress` promises | through `ImplementsContract`, twice |
| `CopyJob`, `MCCopyJob` | `CAsyncCall`, `CCopyProgress`, the copy functions, the polling cmdlet | `copy_job`, `copy_job_ended` |
| `WmiJob`, `MCWmiJob` | `CWmiSemisyncProgress` and `ShowProgress` | `wmi_job` |
| `CloneContract` | what the copy of a disk promises | through `ImplementsClone` |
| `DiskCopy`, `MCDiskCopy` | `MakeCopyStrategy`, `CopyDisk` and what they call; uses `PartitionAssign` | `disk_copy`, `disk_copy_lost` |
| `PartitionList`, `MCPartitionList` | the partition objects of `CDiskInfo` | `partition_remove` |
| `TcgTokens` | the atoms `DtaCommand` writes and `DtaResponse` reads | through `TcgSession` |
| `TcgSession`, `MCTcgSession` | `CTcgSession` and the drive it talks to | `tcg_session` |
| `GptCache`, `MCGptCache` | the GPT cache of `CDiskInfo` | `gpt_cache` |
| `SsdFtl`, `MCSsdFtl` | `CSSDSimulator`, `CSSDSimulator_2` | `ssd`, `ssd_clear` |

### OverlapCopy

One action per turn of the loop (`Turn`: the wait, then the branch of the task's
state, then the exit test) and one per completion of the operating system. A
segment is what one word of the bitmap stands for. `remain` is an integer that
may be negative where the code's UINT64 has wrapped around; `CopySize` is
`min(buf_size, remain)` under that reading. A `ReadFile` or `WriteFile` that is
refused at once leaves the event clear for good (`RefusedReads`,
`RefusedWrites`), a read that completes with an error leaves the buffer old or
spoiled, a write that completes with an error spoils the destination.
Waiting lasts as long as nothing is signalled, so a time out changes nothing.
The log file, speeds, temperatures and the progress report are left out.

### PartitionAssign

One action per item a sweep visits. Arithmetic is modulo `U64`. The variable
`build` says how the code is taken to behave: `rounded`, whether estimates are
floats, or exact; `counted`, whether `round++`, which stands in the arguments of a
log macro, is evaluated. The assertion macro is taken to be off, as in a release
build.

`src_size * ((float)dst_flexible / (float)src_flexible)` is rounded up to five
times: each of the three conversions, the quotient and the product. Each rounding
is off by at most one part in 2^24, and the conversions are exact below 2^24. So
the product is off by at most one part in `Precision`, which is 2^23 - 1 when all
sizes are below 2^24 MB (16 TB) and 2^21 beyond, and `Estimates` holds every number
that the truncation of such a product can be.

The layout is claimed for destinations on which an estimate cannot be off by a
whole MB (`SizeAssumption`): with less than `Precision` MB to give out, that is
up to 8 TB, and up to 2 TB for a source of more than 16 TB. The bound is tight:
with one MB more TLC finds `PlacedInOrder` violated, and for disks of 64 TB the
code does accept a wrong layout. An item of 2^26 + 5 MB and one of 1 MB, of which
2^26 + 6 MB are to be given out, have a ratio of 1, but the first is converted to
2^26 + 8: it is frozen beyond the end of the disk, the gap left for the second
wraps around, and is large enough.

### CopyJob

The thread opens what its copy function opens, in order, each step of which may
throw; transfers chunks, of which a failed one is only logged and so is like any
other; sets the result; closes; and sets the result again in `CallThread`. The
cmdlet shows the progress, sleeps, and reads the result. An overlapped copy by
bitmap may have a transfer refused (`refused`): no event tells it, the other
transfers go on, and the exit test never passes. A transfer is `Size` chunks; the
progress a long holds is the code's fraction of 2^31 (`LongFull`), computed exactly, while the code's shifts make it
slightly smaller for sizes beyond 2^33. In the snapshot of the code the factory
`CreateAsyncCall` does not pass its function on (`disk_clone.h` 152); the model
runs the function the caller bound.

### WmiJob

`Answer` is the provider; `ShowProgress` is one round of the cmdlet's loop with
the `GetProgress` it calls. `UseMissingResult` is the use of a result object that
a failed call does not have.

### DiskCopy

`DiskCopy` has the variables of `PartitionAssign` among its own and an INSTANCE
of that module: its action `PartitionAssign` is one step of the sweeps, so the
layout a copy works with is the one `partition_assign` is about, the refused
ones and the ones that ended in an exception included. Before it stands the scan
of the source (`Scan`), after it the making of the list (`MakeList`) and one
action per kind of step of `CopyDisk`; a copy step is three actions, because a
shrunk source, a snapshot and the resize back can each fail on their own.

Partitions are known by their number. Windows places a partition that is created
without an offset in any gap that is large enough; the copy notices when that is
not where the layout has it, and throws. Every WMI call may be refused, and the
code looks at some of the refusals only: an error code of `Clear` and
`Initialize` is logged (so old partitions, or no table at all, may be what the
steps work on), a refused resize is logged, `MakeBootPartitionForMBRSource` is
not looked at. `skipped` is the set of steps that failed in these ways
(`PassedOver`). `ImplementsClone` maps a state to `clone` when the plan is carried
out: each step has brought about what it is for (`InPlace`: a new table, the boot
partition, every copy where it was laid out and with its size, the type of the
boot partition, the GUIDs), but for the steps in `skipped`; a copy in `skipped`,
one that was not expanded, must still be there with the size of the source. So
any other way to lose a step is a violation, and what result 0 does not promise
is exactly those three: a table cleared, a partition expanded, a boot partition
made bootable. The build defines `_IGNORE_COPY`, so no data are copied and the
snapshot is all that is left of the transfer; `OverlapCopy` and `CopyJob` are
about transfers. `JCASSERT` is off, as in a release build.

Where the code goes on with a null pointer (`GetPartition(0)`) the model stops
in the outcome `dead`. The EFI partition of an MBR source has number 0, and so
has the item of a reserved partition, which on a GPT disk is left all zero.

### PartitionList

The list is a vector indexed by the number a partition had when its object was
made. A reference is counted for the list and for the caller; an object without
one is freed, and its use leads to `dead`. `DeletePartition` is part of the
interface, though no cmdlet calls it. Between Windows deleting the partition and
the list being told there are two steps, `DeletePartition` and `RemovePartition`,
so that the assertion of the second can be stated about the state it is
evaluated in.

### TcgSession

A call of the host (`StartSession`, `SetSIDPassword`, ...) goes through the
commands it sends: each is sent (`Send`), its reply polled for (`Poll`), and the
call goes on (`StartBack`, `SetBack`, ...). The drive is external: it has one
session, a PIN known by its length and an inbox of one command. `SendFails`,
`SendMisreported` (the drive has the command, the host is told it failed),
`PollFails`, `PullOut` and a drive that refuses are the faults; a receive that
fails leaves the buffer as it was, which is how the loop may see a busy answer
twice. `connected` says whether `ConnectDevice`, whose result nobody looks at,
found the ComID of the drive.

The session number and the passwords go through the atoms of `TcgTokens`: what
the drive takes as the PIN is what `StringToken` makes of the length of the
password, and the number the host remembers is what `UintOf` reads. `slip` marks
that the host lost a session in one of the ways that need no mistake of its own:
the comment on `NoOrphan` lists them. `m_hash_password` has no effect in this
code, and `IsEnterprise` is never true, so `Authenticate` is not reached.
Passwords of 65536 bytes and more, whose length does not fit the `uint16_t`, and
packets that outgrow the buffer are outside the model.

### GptCache

The disk is a header with the CRC of the entries (the entries it was computed
from), the entries and the backup table; `Effective` is what firmware and Windows
take for the table. A write of the entries that fails or is cut off leaves any of
them new and the others old. `CreatePartition` is Windows writing both tables.
`Restart` is the machine after a crash, or at any time between two operations: a
new disk object with an empty cache, whose GUIDs and types come from Windows,
which reads the table in effect. Not so the cache: `CacheGptHeader` reads the
primary and looks at no CRC. `whole` records the tables that Windows wrote or that
the callers asked for (what the objects remember when the header is written), and
`adopted` that a primary was written back which was not in effect.

### SsdFtl

`drive` holds the tables of the simulator. Every operator on it returns a drive,
with `fault` set where the code throws, so that what was changed before the
throw stays changed, as in the code. Of `m_cache` and `m_data_blocks` only how
often a block is on them is kept: nothing that runs goes by their order. A unit
is hot or cold as the model likes.
The thresholds of the background collection are exact fractions, not floats.
`config` is what a drive is created with: the two policy values of the
configuration file, the class (`hot` for `CSSDSimulator_2`) and how many of its
units the host ever uses; none of them changes afterwards.

A background collection starts when the empty blocks are fewer than a fifth of
all blocks, times the share of unmapped units, so a drive whose reserve
(`refresh`) is not below that never has one. On four usable blocks it
takes a drive that is mostly unmapped and has no reserve: the run has drives with
`refresh` 2, which collect in the foreground, and with 0, which collect in
the background after a command; both move live pages, up to two of a victim.
Both kinds come with and without the hot index.

`NoHalfFold` takes room to spare, and the run shows it for three units in use on
four blocks of two SLC pages. It does not hold in general: with `refresh` 1 a
collection may need two new blocks with only one there; with `refresh` 0, four
units are too many; with `refresh` 2 and a hot index, five are. Then
`InvalidUnit` has already invalidated the old page when `GetFoldingDest` throws,
and the unit is lost. For which plain drives it holds, whatever their size, is
proved (`FoldsAlwaysEnd`); for drives with a hot index there is no such
condition here. These are configurations of a simulator, so no findings.

## 3. Runs

| Run | Bounds | Shows |
|---|---|---|
| `overlap_copy` | 3 tasks, 5 segments of 2 clusters, the last one partial, every set of used clusters; one failing read, one failing write, one segment refused its read, one its write, a bitmap that may fail | no overlap, counters, no starvation, stable buffers, damage stays where the device failed, the copy implements `VolumeCopy`, and it returns unless a used segment is refused |
| `partition_assign` | up to 3 items of 1..3 MB or all zero, disks up to 9 MB, every `build`; floats that are off by up to one part in 9, the most the assumption allows | an accepted layout is right, nothing wraps around, feasible means accepted, the sweeps end |
| `copy_job` | six kinds of job, 3 chunks, files up to 7/3 of the used size | one outcome, reported, legal percentage, the object outlives a copy by files |
| `disk_copy` | MBR and GPT sources with partitions of any of the numbers 1..3, fixed, flexible, reserved or with Windows; destinations of 6 and 10 MB, without partitions, with a reserved one, with another late on the disk; a MB of 16 bytes, exact estimates | nothing is touched before there is a plan; success means the plan is in place, every kind of step, but a clear, an expansion or a `make_boot` whose failure is passed over; the source is not left shrunk; no number beyond `dst_guid` |
| `tcg_session` | passwords of 0, 300 and 2048 bytes, a default one of 12, two session numbers (one byte, two bytes), one failing transfer besides refusals, a drive pulled out at any time and objects made anew | a call that returns 0 took effect; no session is forgotten; calls return |
| `wmi_job` | every answer; an int of 7 bits, 21 steps for 100 %, so that the made-up progress wraps many times | contract; percentage never above 100 |
| `gpt_cache` | 2 slots, 2 GUIDs, 2 types, 4 operations that create or cache, all faults, any number of crashes and restarts | table in effect is whole; no stale write back; objects and disk agree after an update |
| `ssd` | 4 usable blocks of 2 (SLC) or 6 (TLC) pages, 3 of 20 units in use; a reserve of 2 blocks (foreground collections) or of 0 (background collections); with and without hot index | maps, counters and lists agree; open blocks stay writable; no collection stops half way; commands end |

Three tasks are the least with which one spins, one reads and one writes; five
segments give a task a second turn and leave one segment each for the four
faults. Three items are the least with a middle that is fixed from both sides.
Two slots show an index that is off by one. Three usable blocks are the least
with a victim, an open block and a destination, and the hot index opens two. 20
units, most of them unmapped, bring the background thresholds to 1 and 3. Three
source partitions are the least with one before and one behind the one Windows is on;
of the destinations one is large enough for every layout and one has to shrink
or refuse. The password lengths, the default one included, are one for each form
of `StringToken` and one it refuses; 300 needs both bytes of the length. With one
failed transfer a call has a retry that works. `ssd` ends at a second start
(`CONSTRAINT StartedOnce`): what follows is `ssd_clear`, so the properties of the
tables are stated for drives that were started once.

Properties with a condition, and why they have it: `RefusesOnlyInfeasible`
is about exact estimates, since a float that is rounded on a disk without slack may settle an item uncounted or refuse the disk (an item
of 41 MB with 1 MB left for it is estimated at 41 times the float 1/41, which is
less than 1), and about disks all of whose items have a size and a minimum
(`Wanted`): an all-zero item is never settled, and an item of minimum 0 may be
frozen at an estimate of 0, which the code takes for "no size" and refuses;
`Terminates` needs counted rounds when estimates are rounded, because there a
freeze can settle the last item without counting it, and only the limit on
rounds ends such a run. The bound on the index in `TypeOK` of
`DiskCopy` is about disks that were cleared: where `Clear` failed a new
partition's number may lie beyond `dst_guid`.

Four runs expect a violation. Each states what a comment or an assertion of the
code says:

* `copy_job_ended`: the comment on `GetResult` says 0 means "ended without
  error"; the copy functions set it while the handles are open and `CallThread`
  has yet to write the result again (`disk_clone.cpp` 64, 133, 200). The cmdlet
  may then release the object the thread still uses, which is why
  `ObjectOutlivesJob` is about the copy by files only.
* `disk_copy_lost`: the same comment, for the copy of a disk. `MakeCopyStrategy`
  takes the position of an item for a partition number (1440) and leaves out an
  item that has none; on a GPT disk with one partition that is the only one, and
  the copy ends with result 0 and an empty disk.
* `partition_remove`: `JCASSERT(m_partitions.at(index) == part)`
  (`disk_info.cpp` 157), where the index was decremented and `AddPartition` does
  not do so. The run does not go on to a deadlock check: a caller may stop.
* `ssd_clear`: "clear all tables of the FTL" leaves the list of empty blocks.

Further facts the models show and no document denies:

* a refused `ReadFile` or `WriteFile` makes an overlapped copy wait for ever, and
  the cmdlet with it (`CopyReturns` and `PollerStops` make an exception for that);
* the copy of a disk reports 0 after a failed `Clear` or `Initialize`
  (`disk_info.cpp` 240), a refused expansion (1574), or a
  `MakeBootPartitionForMBRSource` that returned false (1583): the table is the old
  one, a partition has the size of its source, or no partition can be booted from;
* failed transfers and the `ReturnValue` of a WMI method are logged only, and the
  job reports 0;
* a float does not hold the sizes of very large disks: on one of 64 TB an item may
  end behind the disk, and the layout is accepted (see PartitionAssign above);
* the all-zero item of a reserved partition is never settled: the layout is given
  up, which the caller does not look at (1413); `JCASSERT(partition.dst_size != 0)`
  (452) would stop a debug build;
* the first item of a GPT source has no step (see `disk_copy_lost`), so the next
  partition is created where the first should be, the comparison of the offsets
  throws, and no copy step of a GPT source gets past it;
* `Resize` of the source gets a number of MB where it takes bytes, and is refused:
  the source is never shrunk, which is the only reason `SourceKept` holds when a
  later step throws (its mutant is the corrected call);
* a failed read of the GPT makes the disk object useless ("has already cached");
  the backup GPT is never rewritten;
* a crash, or a failed write of the entries, between header and entries leaves an
  inconsistent primary, which readers give up for the backup. `CacheGptHeader`
  (315-324) takes it all the same, and `UpdateGptHeader` gives it valid CRCs: the
  disk then has a header with the entries of another version, and the objects,
  read from the backup, do not match it. `EffectiveIsWhole` and `ObjectsMatchDisk`
  hold until then (`~adopted`); without that condition TLC finds both violated
  after one failed write and one restart;
* a collection of the simulator throws when every full block is wholly valid,
  because the search for a victim starts at the size of a full block and compares
  with `<` (`ssd-simulator.h` 448);
* the poll of a TCG session has no bound: a drive that is pulled out after a busy
  answer keeps it going.

### Fairness

`OverlapCopy`: the copying thread runs on, and the system ends every transfer it
accepted; nothing is assumed of refused ones, so `CopyReturns` is claimed when
no used segment is refused. `PartitionAssign`: a sequential loop goes on.
`CopyJob`: both threads are scheduled, and the system ends every transfer it
accepted; after a refused one of an overlapped copy `PollerStops` claims nothing. `WmiJob`: the provider
answers and the cmdlet polls; `PollerStops` is not claimed for a failed call or
a lost connection. `TcgSession`: the thread that made a call goes on with it,
and a drive that is there answers; `CallsReturn` makes an exception for a drive
pulled out after it answered busy. `SsdFtl`: a command, once begun, goes on.
`DiskCopy` and `PartitionList` claim no liveness: the layout's is `Terminates`,
and the steps of a plan are finitely many.

## 4. Proofs

Every theorem holds for all values of the constants that the assumptions of its
module allow. The assumptions are those the code gives: sizes are not zero, the
constants that stand for "no value" are no value, a percentage divides the
capacity of its integer (`JobAssumption` of `CopyJob`, `SizeAssumption` of
`WmiJob`: the remainder of 2^31 - 1 by 100 is less than the quotient), a default
password can be written and a session number has 32 bits (`SessionAssumption`),
float estimates cannot be off by a whole MB (`SizeAssumption` of
`PartitionAssign`; with exact ones the sizes are bounded by 64 bits only),
a source partition is smaller than 1 TB for each MB of its minimum size, and the
partitions of both disks are finitely many (`CopyAssumption`).

| Module | Invariants | Action properties, refinements | Others |
|---|---|---|---|
| `OverlapCopyProofs` | `TypeOK`, `ExclusiveExtents`, `CountersAgree`, `NoWrongData`, `CompleteAtReturn`, `SpinnersAreLast` | `BufferStableDuringWrite`, `ImplementsVolumeCopy` | |
| `CopyJobProofs` | `TypeOK`, `ObjectOutlivesJob` | `ResultIsFinal`, `ImplementsContract` | `ResultAgrees` |
| `WmiJobProofs` | `TypeOK` | `ImplementsContract` | `StatusAgrees` |
| `GptCacheProofs` | `TypeOK`, `EffectiveIsWhole` | `UpdateTakesEffect`, `NoStaleWriteBack`, `ObjectsMatchDisk` | |
| `TcgSessionProofs` | `SuccessIsDone`, `NoOrphan` | | `IntegersReadBack`, `StringsReadBack` |
| `PartitionAssignProofs` | `TypeOK`, `LayoutCorrect`, `PlacedInOrder`, `RefusesOnlyInfeasible` | | `RoundsBounded`: at most `2 * n + 1` sweeps |
| `DiskCopyProofs` | `TypeOK`, `SourceKept` | | |
| `SsdFtlProofs` | `TypeOK`, `ListsPartition`, `OpenBlocksWritable`, `MapsAgree`, `CountsAgree` | `NoHalfFold` | |

### OverlapCopyProofs

No invariant is inductive alone. `IndInv` adds three facts:

* `HandedOut`: busy tasks hold different occupied segments below `seg_id`,
  `remain` is what is left after `seg_id`, and the size of a transfer follows
  from its segment; from this come the disjoint extents;
* `Outstanding`: only busy tasks have a transfer in flight, their events are
  clear meanwhile, and both counters of the loop count the busy tasks; so the
  exit test implies that no task is busy;
* `Delivered`: a task past its read has its segment in its buffer, and every
  occupied segment below `seg_id` is either with a task or on the destination;
  with the exit test this is completeness.

The refinement also needs `Fresh`: what has not been written yet still holds its
old content. `FirstOccupied` is a CHOOSE of a least element, for which
`FirstOccupiedIsNext` uses the well-foundedness of `<` on `Nat`; sums and
products of segments and clusters are in `OffsetMonotone` and `SegNumType`. The
bit width of `remain` is not in the model, so neither is it in the proofs:
`remain` is an integer and its only use is `CopySize`.

### CopyJobProofs, WmiJobProofs

The types carry the arithmetic: `ToLongType` and `ShownIsAtMostAll` bound what a
wrapped integer becomes as a percentage. `ResultInv` says, for each point of the
thread, what the result is and what the cmdlet has reported; from it follow that
the second write of the result changes nothing, that a copy by files still has
its object (the copies that close handles first do not, see `copy_job_ended`),
and the step from `CopyJob` to `JobContract`. `StatusInv` does the same for a WMI
call: a status is only there after the provider's answer.

### GptCacheProofs

`TablesInv` says that the backup is a whole table and that the primary is one as
well whenever its CRC matches and nothing was adopted; `CacheInv` says what a
cache holds at each point of an update, in particular that between the two writes
the header on the disk is that of the cache, and that a cache taken from the table
in effect holds what the objects remember. `PartialWrite` is the step that may
leave half of the entries, by a failure or a crash. `ClosingStep` puts them together at the end of an update.

### PartitionAssignProofs

That nothing wraps around and everything fits is a statement about sums over all
items. `Sum` is a function on `0 .. m`, and the facts about it (`SumAdd`,
`SumAtMost`, `SumScaled`, `SumPoint`) follow from the least element of a set of
counterexamples (`Upward`), for which the library has the well-foundedness of
`<`; no induction theorem with an operator is needed. `Over` restricts a sum to a
set of items and is additive in it.

The invariant of the sweeps, `Running`, has a part about sizes and one about
places. Sizes: with `Z` the items a sweep has frozen, the totals are those of `Z`
and of the items without a size, and the space left holds the sizes of `Z` and
the minimum of the others (`Balanced`). The difficult step is a freeze, which
fixes an estimate: it fits because in a sweep that settled nothing all estimates
are of the same totals, each less than what its item would get if there were one
MB more to share (`Under`), and what is frozen is below that share as well
(`Priced`): all together are less than one MB more than the space, and sizes are
whole (`FreezeKeeps`). A raise keeps it because `RaiseShare` holds of products.
That an estimate is below that share is where the assumption on the destination is
needed (`EstimateUnder`): off by one part in `Precision`, it gains less than its
share of one MB when there is less than `Precision` to share. Places: the known offsets are those up
to an item `a` and from an item `b` on, and between them lies the space less the
sizes that are placed (`Shape`), which by `SetFits` holds every size given out.

That a disk is refused only when it cannot hold the minimum sizes needs more: no
sweep may be wasted, and the last item must find its size. The invariant
`Progress` of exact estimates has three parts. `Advance`: everything before
`next_flexible` is settled, and in a sweep that has changed nothing every item it
has passed over is waiting for its size, so at the end of such a sweep
`next_flexible` has no size, nor has another item behind it (`TwoUnset`,
`LastUnknown`). `Budget`: the rounds made, the items not yet counted and the
items without a size together never exceed `2 * n`, and one more while a
sweep has changed nothing; with it `RoundsBounded` follows, and the limit of ten
times the partitions is never what ends the sweeps. `Exact` and `Shares`: either
nothing is frozen and the totals are those of the items without a size, or each
minimum is at most its item's share; so a raise never meets
the last item (`RaiseNotLast`), and the gap that is left for it holds it
(`GapHolds`). Rounded estimates are excluded because all of it may fail there:
a share rounded down freezes the last item, and nothing is left to fill the gap.

### DiskCopyProofs

The source is shrunk only if `Resize` accepts a number of MB for a number of
bytes, and it does not: a partition made for one that shrinks is smaller than
that, and so below the minimum of its volume. This needs two facts from far
apart. One is about the layout a copy goes on with although `PartitionAssign`
refused it: an item may be left with size 0, for which Windows takes all the
space there is, but then its offset is unknown too (`Blank`: the first sweep has
not come to it), no partition is ever placed at 0, and `CreateCopy` throws. The
other is that no partition of the destination is empty (`TableInv`), whatever
was there before, was made, or was expanded. `StepOk` carries the first through
the list of steps (`StepOfOk`, `PlanIs`). That a partition's number lies within
`dst_guid` is a count: a step makes one partition at most, `NewNumber` is at most
one above the number of them (a pigeonhole, `NewNumberIs`), and neither the first
nor the last step makes one that is copied to (`Counted`). `AscendingIs` shows
that the order in which partitions and items are gone through exists.

### TcgSessionProofs

`IInv` ties the command under way to the call that sent it, the drive's inbox to
the busy reply, and the drive's session to what the host knows: `OwnedInv` is
`NoOrphan` in the middle of a call and `DoneInv` is `SuccessIsDone` before the
call has returned. The lemmas on atoms enter where a reply gives the session
number and where the drive takes the PIN.

### SsdFtlProofs

Two layers. `Sound` (types, lists, open blocks, counters within bounds, every
block in use full or open) is kept by every step of a drive that was started
once, a command that ends with a fault included. `Agree` (the FTL and the pages
name each other, the counters count, no check has failed) is lost when a
collection invalidates a page and then finds no block to move it to, so it is
proved of behaviours where that never happens: `MapsAlwaysAgree` and
`CountsAlwaysAgree` have the hypothesis `NoHalfFold`. Both layers are stated of
tables in which a unit may be in transit, because between the two halves of a
move its old page is invalid and its new one not yet written; each operator of
the model has one lemma (`InvalidSound`, `PopupSound`, `ProgramSound`,
`EraseSound`), and `TypeCorrect` and the others follow by composing them.

`FoldsAlwaysEnd` proves the hypothesis for a `Roomy` drive: without a hot index,
`refresh` at least 2, and `(BlockNum - 5) * PageNum > TotalUnit`. Its invariant,
`Reserve`, says that two blocks are empty between commands, one in a foreground
collection, and that a fold under way has a block to spare or room for what is
left of its victim in the open TLC block. It needs that a victim exists whenever
fewer than two blocks are empty: all other blocks but the two open ones are full,
and if none had an invalid page they would hold, page by page, more units than
there are (`UnitsFill`, a pigeonhole). The theorem speaks of foreground and background collections alike.
The conditions are not idle: with `refresh` 1 (2 pages, 4 usable blocks, 4 units)
`MapsAgree` fails, with and without a hot index; and a drive whose units fill its blocks has no
victim, as wholly valid blocks are never folded. With a hot index a fold may open
two kinds of block and give back one, and `NoHalfFold` stays with the run `ssd`,
on a drive with few units in use.

### Only model-checked

* liveness (`CopyReturns`, `Terminates`, `PollerStops`, `CallsReturn`,
  `CommandsEnd`): fairness and ENABLED are out of the prover's reach;
* `ImplementsClone` of `DiskCopy`: that a copy which reports success has every
  step in place but those in `skipped`, and that no copy of a layout the sweeps
  gave up half way does. For a layout rejected before the sweeps it follows from
  the offsets, which are all 0; for one given up later it needs
  `RefusesOnlyInfeasible` of the layout inside the copy, whose proof is about
  `PartitionAssign` run on its own.

## 5. Not modelled

* Vendored code: `tinyxml2` stands in the tree twice (11 000 lines, a third of
  the implementation); `tool/` and `extlib/`.
* Copies: `tcg_token.cpp` and its header stand in the tree three times. It builds
  a tree of a packet's tokens to print it; nothing is decided by it.
* Data: the recorded trace of `pcmark10_trace.h`, the identifiers of
  `dta_lexicon.h`, the layouts of `dta_structures.h`.
* Pure input and output: `storage_device.cpp`, `nvme_device.cpp`,
  `ata_device.cpp`, `SlotSpeedGetter.cpp` and `volume_info.cpp` make one request
  per function and decode the answer; they keep no state between calls. What
  their failures lead to is in the modules that call them.
* Conversions and printing: WMI properties to structures (`wmi_object_base`,
  `partition_info.cpp`, `utility.cpp`), `partition_parser.h`, `protocol-parser.h`,
  `l0discovery`, the managed classes of the cmdlets.
* Statistics of the workload analyser: counters over a trace, and `CAddressRank`,
  a heap of the most used addresses.
* A web spider, a window automation module and a calculator, which have nothing
  to do with storage.
* Of modelled components: `WaitForStatusUpdate`, which no cmdlet uses; a failing
  `CreateThread`; `FormatVolume` and `SetDriverLetter`; the list of disks, which
  is made once.

What is left is the core: nearly all of `disk_clone.cpp`, the state of
`disk_info.cpp`, the session, the simulator and the asynchronous calls.

## 6. Plan

The models are complete as far as the above. What is left is proofs:

1. `DiskCopy`: `ImplementsClone`, for exact estimates, from the invariant of
   `PartitionAssignProofs`.
2. `SsdFtl`: a condition under which `NoHalfFold` holds with a hot index.
