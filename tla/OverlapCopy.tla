----------------------------- MODULE OverlapCopy ----------------------------
(***************************************************************************)
(* CDiskClone::CopySectorsByMapOverlap, the engine that copies the used    *)
(* segments of a volume with OVERLAP asynchronous tasks.  A segment is the *)
(* 32 clusters one DWORD of the volume bitmap stands for.  One thread runs *)
(* the loop below; the operating system completes the reads and writes it  *)
(* issued, in any order, and signals the event of the task.                *)
(*                                                                         *)
(* A source cluster is identified with its number, so a destination        *)
(* cluster that holds c holds the data of source cluster c.  The speed,    *)
(* temperature and performance logs are left out.                          *)
(***************************************************************************)
EXTENDS Integers, FiniteSets

CONSTANTS OVERLAP,      \* number of tasks (16 in the code)
          SegClusters,  \* clusters per bitmap DWORD (32 in the code)
          ClusterNum,   \* clusters of the volume
          BadReads,     \* segments whose read completes with an error
          BadWrites,    \* segments whose write completes with an error
          RefusedReads, \* segments whose ReadFile fails at once
          RefusedWrites,\* segments whose WriteFile fails at once
          MapMayFail,   \* whether FSCTL_GET_VOLUME_BITMAP may fail
          Old, Junk     \* contents that are no source cluster

ASSUME SizeAssumption ==
  /\ OVERLAP \in Nat \ {0}
  /\ SegClusters \in Nat \ {0}
  /\ ClusterNum \in Nat \ {0}

ASSUME FaultAssumption ==
  /\ BadReads \subseteq Nat
  /\ BadWrites \subseteq Nat
  /\ RefusedReads \subseteq Nat
  /\ RefusedWrites \subseteq Nat
  /\ MapMayFail \in BOOLEAN

ASSUME ContentAssumption ==
  /\ Old \notin Int
  /\ Junk \notin Int
  /\ Old # Junk

\* What a destination cluster may hold.
Contents == Int \cup {Old, Junk}

Tasks == 0 .. OVERLAP - 1
Clusters == 0 .. ClusterNum - 1

SegNum == (ClusterNum - 1) \div SegClusters + 1
Segs == 0 .. SegNum - 1

\* task.offset: the first cluster of a segment.
Offset(s) == s * SegClusters

VARIABLES
  used,         \* clusters in use in the (snapshot of the) source volume
  map_ok,       \* whether the bitmap could be read; it is all zero if not
  seg_id,       \* the next segment to hand out
  remain,       \* clusters not handed out; negative once the UINT64 wrapped
  read_sec,     \* reads started
  write_sec,    \* writes finished
  working_task, \* tasks that hold a segment
  state,        \* Task::state
  seg,          \* Task::seg_id
  copy_size,    \* Task::copy_size, in clusters
  buf,          \* segment whose data each buffer holds, or Junk
  signaled,     \* tasks whose event is set
  inflight,     \* tasks whose read or write the system is carrying out
  dst,          \* content of each destination cluster
  pc            \* "loop" or "done"

env == <<used, map_ok>>
vars == <<used, map_ok, seg_id, remain, read_sec, write_sec, working_task,
          state, seg, copy_size, buf, signaled, inflight, dst, pc>>

-----------------------------------------------------------------------------
(* The bitmap and the hand-out of segments. *)

SegOf(s) == {c \in Clusters : Offset(s) <= c /\ c < Offset(s) + SegClusters}

\* dwbmp[s] # 0
Occupied(s) == map_ok /\ SegOf(s) \cap used # {}

\* Where the loop that skips empty DWORDs stops.
FirstOccupied(s) ==
  IF \E i \in s .. SegNum - 1 : Occupied(i)
    THEN CHOOSE i \in s .. SegNum - 1 :
           Occupied(i) /\ \A j \in s .. i - 1 : ~Occupied(j)
    ELSE SegNum

\* min(buf_size, remain); a remain that wrapped around is huge.
Full_CopySize(r) == SegClusters
Raw_CopySize(r) == r
CopySize(r) == IF 0 <= r /\ r < SegClusters THEN r ELSE SegClusters

\* The buffer of a task: total_buf + buf_size * task.
Shared_BufferOf(t) == t \div 2
BufferOf(t) == t

\* CreateEvent makes each event auto-reset and set.
Clear_FirstEvents == {}
FirstEvents == Tasks

Init ==
  /\ used \in SUBSET Clusters
  /\ map_ok \in (IF MapMayFail THEN BOOLEAN ELSE {TRUE})
  /\ seg_id = 0
  /\ remain = ClusterNum
  /\ read_sec = 0
  /\ write_sec = 0
  /\ working_task = 0
  /\ state = [t \in Tasks |-> "PENDING"]
  /\ seg = [t \in Tasks |-> 0]
  /\ copy_size = [t \in Tasks |-> 0]
  /\ buf = [t \in Tasks |-> Junk]
  /\ signaled = FirstEvents
  /\ inflight = {}
  /\ dst = [c \in Clusters |-> Old]
  /\ pc = "loop"

-----------------------------------------------------------------------------
(* The loop of the copying thread. *)

\* WaitForMultipleObjects(any): the lowest signalled index, whose auto-reset
\* event it clears.
Last_Woken(t) == t \in signaled /\ \A u \in signaled : u <= t
Woken(t) == t \in signaled /\ \A u \in signaled : t <= u

\* Hand segment s to task t and issue the read.
StartRead(t, s) ==
  /\ copy_size' = [copy_size EXCEPT ![t] = CopySize(remain - Offset(s - seg_id))]
  /\ seg' = [seg EXCEPT ![t] = s]
  /\ state' = [state EXCEPT ![t] = "READING"]
  /\ seg_id' = s + 1
  /\ remain' = remain - Offset(s + 1 - seg_id)
  /\ read_sec' = read_sec + 1
  /\ inflight' = IF s \in RefusedReads THEN inflight ELSE inflight \cup {t}

\* No occupied segment is left for task t: the skip loop ran to the end.
NoSegment(t) ==
  /\ seg_id' = SegNum
  /\ remain' = remain - Offset(SegNum - seg_id)
  /\ state' = [state EXCEPT ![t] = "PENDING"]
  /\ UNCHANGED <<copy_size, seg, read_sec, inflight>>

\* The test at the end of each turn of the loop.
Early_LoopTest ==
  pc' = IF seg_id' >= SegNum /\ write_sec' + 1 >= read_sec' THEN "done" ELSE "loop"
LoopTest ==
  pc' = IF seg_id' >= SegNum /\ write_sec' >= read_sec' THEN "done" ELSE "loop"

\* case PENDING: a task takes its first segment, or sets its event again and
\* so stays in the wait set.
Pending(t) ==
  LET s == FirstOccupied(seg_id) IN
  /\ state[t] = "PENDING"
  /\ \/ /\ s < SegNum
        /\ StartRead(t, s)
        /\ working_task' = working_task + 1
        /\ signaled' = signaled \ {t}
     \/ /\ s >= SegNum
        /\ NoSegment(t)
        /\ UNCHANGED <<working_task, signaled>>
  /\ UNCHANGED <<write_sec, buf, dst>>

\* case READING: the read has ended, well or not; write its buffer out.
Reading(t) ==
  /\ state[t] = "READING"
  /\ state' = [state EXCEPT ![t] = "WRITING"]
  /\ inflight' = IF seg[t] \in RefusedWrites THEN inflight ELSE inflight \cup {t}
  /\ signaled' = signaled \ {t}
  /\ UNCHANGED <<seg_id, remain, read_sec, write_sec, working_task, seg,
                 copy_size, buf, dst>>

\* A task that got no further segment no longer counts as working.
Still_Release == UNCHANGED working_task
Release == working_task' = working_task - 1

\* case WRITING: the write has ended, well or not; take the next segment, or
\* park the task (its event stays clear).
Writing(t) ==
  LET s == FirstOccupied(seg_id) IN
  /\ state[t] = "WRITING"
  /\ write_sec' = write_sec + 1
  /\ signaled' = signaled \ {t}
  /\ \/ s < SegNum /\ StartRead(t, s) /\ UNCHANGED working_task
     \/ s >= SegNum /\ NoSegment(t) /\ Release
  /\ UNCHANGED <<buf, dst>>

Turn(t) ==
  /\ pc = "loop"
  /\ Woken(t)
  /\ Pending(t) \/ Reading(t) \/ Writing(t)
  /\ LoopTest
  /\ UNCHANGED env

\* WAIT_TIMEOUT: nothing is signalled for ten seconds; wait again.
WaitTimeout == pc = "loop" /\ signaled = {} /\ UNCHANGED vars

-----------------------------------------------------------------------------
(* The operating system. *)

\* A failed read leaves the buffer as it was, or half overwritten.
ReadDone(t) ==
  /\ t \in inflight
  /\ state[t] = "READING"
  /\ \/ seg[t] \notin BadReads /\ buf' = [buf EXCEPT ![BufferOf(t)] = seg[t]]
     \/ seg[t] \in BadReads /\ buf' \in {buf, [buf EXCEPT ![BufferOf(t)] = Junk]}
  /\ inflight' = inflight \ {t}
  /\ signaled' = signaled \cup {t}
  /\ UNCHANGED <<used, map_ok, seg_id, remain, read_sec, write_sec,
                 working_task, state, seg, copy_size, dst, pc>>

\* The clusters a write of task t covers.
Extent(t) == Offset(seg[t]) .. Offset(seg[t]) + copy_size[t] - 1

\* What a write of task t leaves in cluster c of its extent.
Written(t, c) ==
  LET b == buf[BufferOf(t)] IN
  IF b = Junk \/ seg[t] \in BadWrites THEN Junk ELSE Offset(b) + c - Offset(seg[t])

WriteDone(t) ==
  /\ t \in inflight
  /\ state[t] = "WRITING"
  /\ dst' = [c \in Clusters |-> IF c \in Extent(t) THEN Written(t, c) ELSE dst[c]]
  /\ inflight' = inflight \ {t}
  /\ signaled' = signaled \cup {t}
  /\ UNCHANGED <<used, map_ok, seg_id, remain, read_sec, write_sec,
                 working_task, state, seg, copy_size, buf, pc>>

IoDone(t) == ReadDone(t) \/ WriteDone(t)

Returned == pc = "done" /\ UNCHANGED vars

Next ==
  \/ \E t \in Tasks : Turn(t) \/ IoDone(t)
  \/ WaitTimeout
  \/ Returned

Spec == Init /\ [][Next]_vars

\* The loop runs on while it has something to do, and the system ends every
\* read and write it accepted.
Fairness == /\ WF_vars(\E t \in Tasks : Turn(t))
            /\ \A t \in Tasks : WF_vars(IoDone(t))

FairSpec == Spec /\ Fairness

-----------------------------------------------------------------------------
(* Correctness. *)

Busy == {t \in Tasks : state[t] # "PENDING"}

\* Every variable has the type its declaration in the code gives it.
TypeOK ==
  /\ used \subseteq Clusters
  /\ map_ok \in BOOLEAN
  /\ seg_id \in 0 .. SegNum
  /\ remain \in Int
  /\ read_sec \in Nat
  /\ write_sec \in Nat
  /\ working_task \in Int
  /\ state \in [Tasks -> {"PENDING", "READING", "WRITING"}]
  /\ seg \in [Tasks -> Segs]
  /\ copy_size \in [Tasks -> 0 .. SegClusters]
  /\ buf \in [Tasks -> Segs \cup {Junk}]
  /\ signaled \subseteq Tasks
  /\ inflight \subseteq Tasks
  /\ dst \in [Clusters -> Contents]
  /\ pc \in {"loop", "done"}

\* No two tasks work on the same segment, so no two transfers in flight
\* overlap on the destination, and each covers exactly the clusters of its
\* segment that the volume has: the last, partial segment included.
ExclusiveExtents ==
  /\ \A t \in Busy : Extent(t) = SegOf(seg[t])
  /\ \A t, u \in Busy : t # u => Extent(t) \cap Extent(u) = {}

\* The two counters the loop's exit test compares differ by the number of
\* tasks that hold a segment, which is what working_task counts; so the test
\* cannot pass while a transfer is in flight.
CountersAgree ==
  /\ read_sec - write_sec = Cardinality(Busy)
  /\ working_task = Cardinality(Busy)
  /\ pc = "done" => inflight = {}

\* A task that never got a segment keeps its event set, and the wait serves
\* the lowest index: such a task is never below one that has started, so a
\* finished transfer is never starved by a task that has nothing to do.
SpinnersAreLast ==
  \A t \in Tasks : (state[t] = "PENDING" /\ t \in signaled)
                      => \A u \in Tasks : u > t => u \notin Busy

\* A destination cluster holds its old content or the data of the same source
\* cluster, and other bytes only where the device failed for its segment; the
\* segments the bitmap shows empty, all of them when it could not be read, are
\* left alone.
Faulty(c) == \E s \in BadReads \cup BadWrites : c \in SegOf(s)
NoWrongData ==
  /\ \A c \in Clusters : dst[c] \in {Old, c} \/ Faulty(c)
  /\ \A s \in Segs : Occupied(s) \/ \A c \in SegOf(s) : dst[c] = Old

\* When the function returns, every used cluster has been transferred: it
\* holds the data of the source, unless the device failed for its segment.
CompleteAtReturn ==
  (pc = "done" /\ map_ok) => \A c \in used : dst[c] = c \/ Faulty(c)

\* The buffer of a task whose write is in flight is not overwritten before
\* that write ends.
BufferStableDuringWrite ==
  [][\A t \in Tasks :
       (t \in inflight /\ state[t] = "WRITING" /\ t \in inflight')
          => buf'[BufferOf(t)] = buf[BufferOf(t)]]_vars

\* The engine implements the abstract volume copy.
Abstract == INSTANCE VolumeCopy WITH
  wanted <- IF map_ok THEN used ELSE {},
  returned <- pc = "done",
  Damaged <- {c \in Clusters : Faulty(c)}
ImplementsVolumeCopy == Abstract!Spec

\* If the system ends every transfer it accepts and refuses none of those the
\* volume needs, the copy returns, although tasks without a segment keep the
\* loop spinning.
CopyReturns == (\A s \in (RefusedReads \cup RefusedWrites) \cap Segs : ~Occupied(s)) => <>(pc = "done")

=============================================================================
