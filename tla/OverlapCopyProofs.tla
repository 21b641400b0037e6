------------------------- MODULE OverlapCopyProofs --------------------------
(***************************************************************************)
(* What TLAPS proves about OverlapCopy, for every number of tasks, size of *)
(* volume and of segment, and set of failing transfers.                    *)
(***************************************************************************)
EXTENDS OverlapCopy, FiniteSetTheorems, WellFoundedInduction, TLAPS

-----------------------------------------------------------------------------
(* Segments and clusters. *)

LEMMA OffsetType ==
  ASSUME NEW s \in Int
  PROVE  /\ Offset(s) \in Int
         /\ s >= 0 => Offset(s) >= 0
         /\ Offset(s + 1) = Offset(s) + SegClusters
BY SizeAssumption DEF Offset

LEMMA OffsetMonotone ==
  ASSUME NEW s \in Int, NEW r \in Int
  PROVE  /\ s < r => Offset(s) + SegClusters <= Offset(r)
         /\ Offset(s) - Offset(r) = Offset(s - r)
<1>1. Offset(s) - Offset(r) = Offset(s - r)
  BY SizeAssumption DEF Offset
<1>2. ASSUME s < r PROVE Offset(s) + SegClusters <= Offset(r)
  <2>1. r - (s + 1) \in Nat
    BY <1>2
  <2>2. (r - (s + 1)) * SegClusters >= 0
    BY <2>1, SizeAssumption
  <2>3. (r - (s + 1)) * SegClusters = r * SegClusters - (s * SegClusters + SegClusters)
    BY SizeAssumption
  <2> QED BY <2>2, <2>3, SizeAssumption DEF Offset
<1> QED BY <1>1, <1>2

\* SegNum is ClusterNum / SegClusters, rounded up.
LEMMA SegNumType ==
  /\ SegNum \in Nat \ {0}
  /\ Offset(SegNum) >= ClusterNum
  /\ Offset(SegNum - 1) < ClusterNum
<1> DEFINE q == (ClusterNum - 1) \div SegClusters
<1>1. /\ q \in Nat
      /\ q * SegClusters <= ClusterNum - 1
      /\ ClusterNum - 1 < q * SegClusters + SegClusters
  BY SizeAssumption, Z3
<1>2. SegNum = q + 1 /\ SegNum - 1 = q
  BY <1>1 DEF SegNum
<1>3. Offset(SegNum) = q * SegClusters + SegClusters
  BY <1>1, <1>2, OffsetType DEF Offset
<1> QED BY <1>1, <1>2, <1>3, SizeAssumption DEF Offset

\* A segment that exists holds at least one cluster.
LEMMA SegmentBegins ==
  ASSUME NEW s \in Segs
  PROVE  Offset(s) \in Nat /\ Offset(s) < ClusterNum
<1>1. s \in Int /\ SegNum - 1 \in Int /\ s <= SegNum - 1 /\ s >= 0
  BY SegNumType DEF Segs
<1>2. Offset(s) <= Offset(SegNum - 1)
  BY <1>1, OffsetMonotone, OffsetType, SizeAssumption
<1> QED BY <1>1, <1>2, OffsetType, SegNumType, SizeAssumption

\* The skip loop ends at the next occupied segment, or at the end.
LEMMA FirstOccupiedIsNext ==
  ASSUME NEW s \in 0 .. SegNum
  PROVE  /\ FirstOccupied(s) \in s .. SegNum
         /\ FirstOccupied(s) < SegNum => Occupied(FirstOccupied(s))
         /\ \A j \in s .. FirstOccupied(s) - 1 : ~Occupied(j)
<1> DEFINE T == {i \in s .. SegNum - 1 : Occupied(i)}
<1>1. SegNum \in Nat \ {0}
  BY SegNumType
<1>2. CASE T = {}
  BY <1>1, <1>2 DEF FirstOccupied
<1>3. CASE T # {}
  <2>1. T \subseteq Nat
    BY <1>1
  <2>2. PICK i \in T : \A y \in T : ~(<<y, i>> \in OpToRel(<, Nat))
    BY <1>3, <2>1, WFMin, NatLessThanWellFounded
  <2>3. \A j \in T : ~(j < i)
    BY <2>1, <2>2 DEF OpToRel
  <2>4. \A j \in s .. i - 1 : ~Occupied(j)
    BY <1>1, <2>3
  <2> QED BY <1>1, <2>4 DEF FirstOccupied
<1> QED BY <1>2, <1>3

-----------------------------------------------------------------------------
(* Type correctness. *)

\* The quantities a hand-out of a segment or the end of the bitmap assigns.
LEMMA HandOutType ==
  ASSUME TypeOK, NEW t \in Tasks, NEW s \in Segs, StartRead(t, s)
  PROVE  /\ copy_size' \in [Tasks -> 0 .. SegClusters]
         /\ seg' \in [Tasks -> Segs]
         /\ state' \in [Tasks -> {"PENDING", "READING", "WRITING"}]
         /\ seg_id' \in 0 .. SegNum
         /\ remain' \in Int
         /\ read_sec' \in Nat
         /\ inflight' \subseteq Tasks
<1>1. SegNum \in Nat /\ s \in 0 .. SegNum - 1
  BY SegNumType DEF Segs
<1>2. Offset(s - seg_id) \in Int /\ Offset(s + 1 - seg_id) \in Int
  BY <1>1, OffsetType DEF TypeOK
<1>3. CopySize(remain - Offset(s - seg_id)) \in 0 .. SegClusters
  BY <1>2, SizeAssumption DEF TypeOK, CopySize
<1> QED BY <1>1, <1>2, <1>3 DEF TypeOK, StartRead

LEMMA NoSegmentType ==
  ASSUME TypeOK, NEW t \in Tasks, NoSegment(t)
  PROVE  /\ copy_size' \in [Tasks -> 0 .. SegClusters]
         /\ seg' \in [Tasks -> Segs]
         /\ state' \in [Tasks -> {"PENDING", "READING", "WRITING"}]
         /\ seg_id' \in 0 .. SegNum
         /\ remain' \in Int
         /\ read_sec' \in Nat
         /\ inflight' \subseteq Tasks
<1>1. SegNum \in Nat /\ Offset(SegNum - seg_id) \in Int
  BY SegNumType, OffsetType DEF TypeOK
<1> QED BY <1>1 DEF TypeOK, NoSegment

LEMMA TypeInit == Init => TypeOK
<1> SUFFICES ASSUME Init PROVE TypeOK
  OBVIOUS
<1>1. SegNum \in Nat /\ 0 \in Segs /\ 0 \in 0 .. SegNum
  BY SegNumType DEF Segs
<1>2. dst \in [Clusters -> Contents]
  BY DEF Init, Contents
<1>3. 0 \in 0 .. SegClusters
  BY SizeAssumption
<1>4. map_ok \in BOOLEAN
  BY FaultAssumption DEF Init
<1> QED BY <1>1, <1>2, <1>3, <1>4, SizeAssumption DEF Init, TypeOK, FirstEvents

LEMMA TypeStep == TypeOK /\ [Next]_vars => TypeOK'
<1> SUFFICES ASSUME TypeOK, [Next]_vars PROVE TypeOK'
  OBVIOUS
<1>1. ASSUME NEW t \in Tasks, Turn(t) PROVE TypeOK'
  <2>1. pc' \in {"loop", "done"} /\ used' \subseteq Clusters /\ map_ok' \in BOOLEAN
    BY <1>1 DEF TypeOK, Turn, LoopTest, env
  <2>2. FirstOccupied(seg_id) \in seg_id .. SegNum /\ SegNum \in Nat
    BY FirstOccupiedIsNext, SegNumType DEF TypeOK
  <2>3. CASE Pending(t)
    <3>1. CASE FirstOccupied(seg_id) < SegNum /\ StartRead(t, FirstOccupied(seg_id))
      <4>1. FirstOccupied(seg_id) \in Segs
        BY <2>2, <3>1 DEF Segs, TypeOK
      <4> QED BY <2>1, <2>3, <3>1, <4>1, HandOutType DEF TypeOK, Pending
    <3>2. CASE NoSegment(t)
      BY <2>1, <2>3, <3>2, NoSegmentType DEF TypeOK, Pending
    <3> QED BY <2>3, <3>1, <3>2 DEF Pending
  <2>4. CASE Reading(t)
    BY <2>1, <2>4 DEF TypeOK, Reading
  <2>5. CASE Writing(t)
    <3>1. CASE FirstOccupied(seg_id) < SegNum /\ StartRead(t, FirstOccupied(seg_id))
      <4>1. FirstOccupied(seg_id) \in Segs
        BY <2>2, <3>1 DEF Segs, TypeOK
      <4> QED BY <2>1, <2>5, <3>1, <4>1, HandOutType DEF TypeOK, Writing, Release
    <3>2. CASE NoSegment(t)
      BY <2>1, <2>5, <3>2, NoSegmentType DEF TypeOK, Writing, Release
    <3> QED BY <2>5, <3>1, <3>2 DEF Writing
  <2> QED BY <1>1, <2>3, <2>4, <2>5 DEF Turn
<1>2. ASSUME NEW t \in Tasks, ReadDone(t) PROVE TypeOK'
  BY <1>2 DEF TypeOK, ReadDone, BufferOf
<1>3. ASSUME NEW t \in Tasks, WriteDone(t) PROVE TypeOK'
  <2>1. ASSUME NEW c \in Clusters PROVE Written(t, c) \in Contents
    <3>1. buf[t] \in Segs \cup {Junk} /\ seg[t] \in Segs
      BY DEF TypeOK
    <3>2. \A s \in Segs : Offset(s) \in Int
      BY OffsetType, SegNumType DEF Segs
    <3>3. c \in Int
      BY SizeAssumption DEF Clusters
    <3> QED BY <3>1, <3>2, <3>3 DEF Written, BufferOf, Contents
  <2> QED BY <1>3, <2>1 DEF TypeOK, WriteDone
<1>4. CASE UNCHANGED vars
  BY <1>4 DEF TypeOK, vars
<1> QED BY <1>1, <1>2, <1>3, <1>4 DEF Next, IoDone, WaitTimeout, Returned

\* The type invariant: in particular the number of a segment handed out is one
\* the bitmap has, whatever the volume's size, and a transfer is never longer
\* than a buffer.
THEOREM TypeCorrect == Spec => []TypeOK
BY TypeInit, TypeStep, PTL DEF Spec

-----------------------------------------------------------------------------
(* The inductive invariant.  CountersAgree is about numbers of tasks, the    *)
(* exit test about numbers of reads and writes; what ties them, and both to  *)
(* the destination, is which task holds which segment.                       *)

\* The segments before seg_id have been handed out, each to at most one task,
\* and remain counts the clusters after them.
HandedOut ==
  /\ remain = ClusterNum - Offset(seg_id)
  /\ \A t \in Busy : /\ seg[t] < seg_id
                     /\ Occupied(seg[t])
                     /\ copy_size[t] = CopySize(ClusterNum - Offset(seg[t]))
  /\ \A t, u \in Busy : t # u => seg[t] # seg[u]

\* Only a task that holds a segment has a transfer outstanding, and its event
\* is clear until the transfer ends; the loop ends when no task holds any.
Outstanding ==
  /\ inflight \subseteq Busy
  /\ inflight \cap signaled = {}
  /\ read_sec - write_sec = Cardinality(Busy)
  /\ working_task = Cardinality(Busy)
  /\ pc = "done" => Busy = {} /\ seg_id = SegNum

\* Segment s is on the destination, or its transfer failed.
Arrived(s) == \A c \in SegOf(s) : dst[c] = c \/ Faulty(c)

\* What a task is about to write is its segment; a segment handed out has
\* arrived or is held by a task, and has arrived once its write has ended.
Delivered ==
  /\ \A t \in Busy : (state[t] = "WRITING" \/ t \in signaled)
                       => buf[t] = seg[t] \/ seg[t] \in BadReads
  /\ \A t \in Busy : (state[t] = "WRITING" /\ t \in signaled) => Arrived(seg[t])
  /\ \A s \in Segs : (s < seg_id /\ Occupied(s))
                       => Arrived(s) \/ \E t \in Busy : seg[t] = s

IndInv == TypeOK /\ HandedOut /\ Outstanding /\ Delivered /\ NoWrongData

-----------------------------------------------------------------------------
(* The turns of the loop, one by one: a task takes its first or its next     *)
(* segment, or finds none left.                                              *)

Takes(t, s) ==
  /\ t \in signaled /\ signaled' = signaled \ {t}
  /\ s \in Segs /\ seg_id <= s /\ Occupied(s)
  /\ \A j \in seg_id .. s - 1 : ~Occupied(j)
  /\ StartRead(t, s)
  /\ UNCHANGED <<used, map_ok, buf, dst>>

FindsNone(t) ==
  /\ t \in signaled
  /\ \A j \in seg_id .. SegNum - 1 : ~Occupied(j)
  /\ NoSegment(t)
  /\ UNCHANGED <<used, map_ok, buf, dst>>

TakeFirst(t, s) == /\ state[t] = "PENDING" /\ Takes(t, s)
                   /\ working_task' = working_task + 1 /\ UNCHANGED write_sec
TakeNext(t, s) == /\ state[t] = "WRITING" /\ Takes(t, s)
                  /\ write_sec' = write_sec + 1 /\ UNCHANGED working_task
SpinIdle(t) == /\ state[t] = "PENDING" /\ FindsNone(t)
               /\ UNCHANGED <<write_sec, working_task, signaled>>
Park(t) == /\ state[t] = "WRITING" /\ FindsNone(t)
           /\ write_sec' = write_sec + 1 /\ working_task' = working_task - 1
           /\ signaled' = signaled \ {t}
StartWrite(t) == t \in signaled /\ Reading(t) /\ UNCHANGED <<used, map_ok>>

LEMMA TurnCases ==
  ASSUME TypeOK, NEW t \in Tasks, Turn(t)
  PROVE  /\ pc = "loop" /\ LoopTest
         /\ \/ \E s \in Segs : TakeFirst(t, s) \/ TakeNext(t, s)
            \/ SpinIdle(t) \/ Park(t) \/ StartWrite(t)
<1> DEFINE s == FirstOccupied(seg_id)
<1>1. /\ SegNum \in Nat /\ seg_id \in 0 .. SegNum
      /\ s \in seg_id .. SegNum
      /\ s < SegNum => Occupied(s)
      /\ \A j \in seg_id .. s - 1 : ~Occupied(j)
  BY FirstOccupiedIsNext, SegNumType DEF TypeOK
<1>2. s < SegNum => s \in Segs /\ seg_id <= s
  BY <1>1 DEF Segs
<1>3. s >= SegNum => \A j \in seg_id .. SegNum - 1 : ~Occupied(j)
  BY <1>1
<1>4. t \in signaled /\ pc = "loop" /\ LoopTest /\ UNCHANGED <<used, map_ok>>
  BY DEF Turn, Woken, env
<1> HIDE DEF s
<1>5. CASE Pending(t)
  BY <1>1, <1>2, <1>3, <1>4, <1>5 DEF s, Pending, TakeFirst, Takes, SpinIdle, FindsNone
<1>6. CASE Reading(t)
  BY <1>4, <1>6 DEF StartWrite
<1>7. CASE Writing(t)
  BY <1>1, <1>2, <1>3, <1>4, <1>7 DEF s, Writing, TakeNext, Takes, Park, FindsNone, Release
<1> QED BY <1>4, <1>5, <1>6, <1>7 DEF Turn

\* The tasks that hold a segment after each of them.
LEMMA BusyAfter ==
  ASSUME TypeOK, NEW t \in Tasks
  PROVE  /\ \A s \in Segs : TakeFirst(t, s) => Busy' = Busy \cup {t} /\ t \notin Busy
         /\ \A s \in Segs : TakeNext(t, s) => Busy' = Busy /\ t \in Busy
         /\ SpinIdle(t) => Busy' = Busy
         /\ Park(t) => Busy' = Busy \ {t} /\ t \in Busy
         /\ StartWrite(t) => Busy' = Busy /\ t \in Busy
         /\ ReadDone(t) \/ WriteDone(t) => Busy' = Busy /\ t \in Busy
BY DEF TypeOK, Busy, TakeFirst, TakeNext, Takes, StartRead, SpinIdle, Park,
       FindsNone, NoSegment, StartWrite, Reading, ReadDone, WriteDone

LEMMA BusyFinite == IsFiniteSet(Busy) /\ Cardinality(Busy) \in Nat
<1>1. IsFiniteSet(Tasks)
  BY FS_Interval, SizeAssumption DEF Tasks
<1>2. Busy \subseteq Tasks
  BY DEF Busy
<1> QED BY <1>1, <1>2, FS_Subset, FS_CardinalityType

\* What is Occupied or Faulty is fixed when the copy starts.
LEMMA SourceUnchanged ==
  ASSUME [Next]_vars
  PROVE  /\ used' = used /\ map_ok' = map_ok
         /\ \A s : Occupied(s)' = Occupied(s)
BY DEF Next, Turn, IoDone, ReadDone, WriteDone, WaitTimeout, Returned, env, vars, Occupied

-----------------------------------------------------------------------------
(* Each part of the invariant is preserved. *)

LEMMA InitInv == Init => IndInv
<1> SUFFICES ASSUME Init PROVE IndInv
  OBVIOUS
<1>1. TypeOK
  BY TypeInit
<1>2. Busy = {} /\ Cardinality(Busy) = 0
  BY FS_EmptySet DEF Init, Busy
<1>3. Offset(0) = 0
  BY SizeAssumption DEF Offset
<1>4. HandedOut
  BY <1>2, <1>3, SizeAssumption DEF Init, HandedOut
<1>5. Outstanding
  BY <1>2 DEF Init, Outstanding
<1>6. Delivered
  BY <1>2, SegNumType DEF Init, Delivered, Segs
<1>7. NoWrongData
  BY DEF Init, NoWrongData, SegOf
<1> QED BY <1>1, <1>4, <1>5, <1>6, <1>7 DEF IndInv

\* A hand-out gives the task the clusters of its segment and leaves the rest.
LEMMA HandOut ==
  ASSUME TypeOK, HandedOut, NEW t \in Tasks, NEW s \in Segs, StartRead(t, s), seg_id <= s
  PROVE  /\ copy_size'[t] = CopySize(ClusterNum - Offset(s))
         /\ seg'[t] = s
         /\ \A u \in Tasks \ {t} : /\ copy_size'[u] = copy_size[u]
                                   /\ seg'[u] = seg[u]
                                   /\ state'[u] = state[u]
         /\ remain' = ClusterNum - Offset(seg_id')
         /\ seg_id' = s + 1
<1>1. s \in Int /\ seg_id \in Int
  BY SegNumType DEF TypeOK, Segs
<1>2. /\ Offset(s - seg_id) = Offset(s) - Offset(seg_id)
      /\ Offset(s) \in Int /\ Offset(seg_id) \in Int
  <2>1. Offset(s) - Offset(seg_id) = Offset(s - seg_id)
    BY <1>1, OffsetMonotone
  <2> QED BY <1>1, <2>1, OffsetType
<1>3. /\ Offset(s + 1 - seg_id) = Offset(s + 1) - Offset(seg_id)
      /\ Offset(s + 1) \in Int
  <2> DEFINE r == s + 1
  <2>1. r \in Int
    BY <1>1
  <2> HIDE DEF r
  <2>2. Offset(r) - Offset(seg_id) = Offset(r - seg_id)
    BY <1>1, <2>1, OffsetMonotone
  <2>3. Offset(r) \in Int
    BY <2>1, OffsetType
  <2> QED BY <1>1, <2>2, <2>3 DEF r
<1>4. remain = ClusterNum - Offset(seg_id)
  BY DEF HandedOut
<1>5. remain - Offset(s - seg_id) = ClusterNum - Offset(s)
  BY <1>2, <1>4, SizeAssumption
<1>6. remain - Offset(s + 1 - seg_id) = ClusterNum - Offset(s + 1)
  BY <1>2, <1>4, <1>3, SizeAssumption
<1> QED BY <1>5, <1>6 DEF StartRead, TypeOK

LEMMA HandedOutStep ==
  ASSUME TypeOK, HandedOut, [Next]_vars
  PROVE  HandedOut'
<1>1. \A s : Occupied(s)' = Occupied(s)
  BY SourceUnchanged
<1>2. ASSUME NEW t \in Tasks, NEW s \in Segs, TakeFirst(t, s) \/ TakeNext(t, s)
      PROVE  HandedOut'
  <2>1. /\ Busy' = Busy \cup {t}
        /\ StartRead(t, s) /\ seg_id <= s /\ Occupied(s)
    BY <1>2, BusyAfter DEF TakeFirst, TakeNext, Takes
  <2>2. /\ copy_size'[t] = CopySize(ClusterNum - Offset(s)) /\ seg'[t] = s
        /\ \A u \in Tasks \ {t} : copy_size'[u] = copy_size[u] /\ seg'[u] = seg[u]
        /\ remain' = ClusterNum - Offset(seg_id') /\ seg_id' = s + 1
    BY <2>1, HandOut
  <2>3. s \in Int /\ seg_id \in Int /\ \A u \in Tasks : seg[u] \in Int
    BY SegNumType DEF TypeOK, Segs
  <2>4. Busy \subseteq Tasks /\ \A u \in Busy : seg[u] < seg_id
    BY DEF Busy, HandedOut
  <2>5. \A u \in Busy' : /\ seg'[u] < seg_id'
                         /\ Occupied(seg'[u])
                         /\ copy_size'[u] = CopySize(ClusterNum - Offset(seg'[u]))
    BY <2>1, <2>2, <2>3, <2>4 DEF HandedOut
  <2>6. \A u, v \in Busy' : u # v => seg'[u] # seg'[v]
    BY <2>1, <2>2, <2>3, <2>4 DEF HandedOut
  <2> QED BY <1>1, <2>2, <2>5, <2>6 DEF HandedOut
<1>3. ASSUME NEW t \in Tasks, SpinIdle(t) \/ Park(t) PROVE HandedOut'
  <2>1. Busy' \subseteq Busy /\ NoSegment(t)
    BY <1>3, BusyAfter DEF SpinIdle, Park, FindsNone
  <2>2. /\ SegNum \in Int /\ seg_id \in Int /\ seg_id <= SegNum
        /\ \A u \in Tasks : seg[u] \in Int
    BY SegNumType DEF TypeOK, Segs
  <2>3. remain' = ClusterNum - Offset(seg_id')
    <3>1. /\ Offset(SegNum - seg_id) = Offset(SegNum) - Offset(seg_id)
          /\ Offset(SegNum) \in Int /\ Offset(seg_id) \in Int
      BY <2>2, OffsetMonotone, OffsetType
    <3> QED BY <2>1, <3>1, SizeAssumption DEF HandedOut, NoSegment
  <2>4. Busy \subseteq Tasks
    BY DEF Busy
  <2> QED BY <1>1, <2>1, <2>2, <2>3, <2>4 DEF HandedOut, NoSegment
<1>4. ASSUME NEW t \in Tasks, StartWrite(t) \/ ReadDone(t) \/ WriteDone(t)
      PROVE  HandedOut'
  BY <1>1, <1>4, BusyAfter DEF HandedOut, StartWrite, Reading, ReadDone, WriteDone
<1>5. CASE UNCHANGED vars
  BY <1>1, <1>5 DEF HandedOut, Busy, vars
<1> QED BY <1>2, <1>3, <1>4, <1>5, TurnCases DEF Next, IoDone, WaitTimeout, Returned

LEMMA OutstandingStep ==
  ASSUME TypeOK, Outstanding, [Next]_vars
  PROVE  Outstanding'
<1> DEFINE Counts == /\ inflight \subseteq Busy
                     /\ inflight \cap signaled = {}
                     /\ read_sec - write_sec = Cardinality(Busy)
                     /\ working_task = Cardinality(Busy)
<1>1. Counts /\ read_sec \in Nat /\ write_sec \in Nat /\ Cardinality(Busy) \in Nat
  BY BusyFinite DEF Outstanding, TypeOK
<1>2. /\ \A t : t \notin Busy => Cardinality(Busy \cup {t}) = Cardinality(Busy) + 1
      /\ \A t : t \in Busy => Cardinality(Busy \ {t}) = Cardinality(Busy) - 1
  BY BusyFinite, FS_AddElement, FS_RemoveElement
<1>3. ASSUME NEW t \in Tasks, Turn(t) PROVE Outstanding'
  <2>1. ASSUME NEW s \in Segs, TakeFirst(t, s) PROVE Counts'
    <3>1. Busy' = Busy \cup {t} /\ Cardinality(Busy') = Cardinality(Busy) + 1
      BY <1>2, <2>1, BusyAfter
    <3>2. /\ inflight' \subseteq inflight \cup {t} /\ signaled' = signaled \ {t}
          /\ read_sec' = read_sec + 1 /\ write_sec' = write_sec
          /\ working_task' = working_task + 1
      BY <2>1 DEF TakeFirst, Takes, StartRead
    <3> QED BY <1>1, <3>1, <3>2
  <2>2. ASSUME NEW s \in Segs, TakeNext(t, s) PROVE Counts'
    <3>1. Busy' = Busy /\ t \in Busy
      BY <2>2, BusyAfter
    <3>2. /\ inflight' \subseteq inflight \cup {t} /\ signaled' = signaled \ {t}
          /\ read_sec' = read_sec + 1 /\ write_sec' = write_sec + 1
          /\ working_task' = working_task
      BY <2>2 DEF TakeNext, Takes, StartRead
    <3> QED BY <1>1, <3>1, <3>2
  <2>3. ASSUME SpinIdle(t) PROVE Counts'
    BY <1>1, <2>3, BusyAfter DEF SpinIdle, FindsNone, NoSegment
  <2>4. ASSUME Park(t) PROVE Counts'
    <3>1. Busy' = Busy \ {t} /\ Cardinality(Busy') = Cardinality(Busy) - 1
      BY <1>2, <2>4, BusyAfter
    <3>2. t \notin inflight /\ inflight' = inflight /\ signaled' = signaled \ {t}
      BY <1>1, <2>4 DEF Park, FindsNone, NoSegment
    <3>3. read_sec' = read_sec /\ write_sec' = write_sec + 1 /\ working_task' = working_task - 1
      BY <2>4 DEF Park, FindsNone, NoSegment
    <3> QED BY <1>1, <3>1, <3>2, <3>3
  <2>5. ASSUME StartWrite(t) PROVE Counts'
    BY <1>1, <2>5, BusyAfter DEF StartWrite, Reading
  <2>6. Counts'
    BY <1>3, <2>1, <2>2, <2>3, <2>4, <2>5, TurnCases
  <2>7. pc' = "done" => Busy' = {} /\ seg_id' = SegNum
    <3>1. TypeOK' /\ LoopTest
      BY <1>3, TypeStep, TurnCases
    <3>2. IsFiniteSet(Tasks) /\ Busy' \subseteq Tasks
      BY FS_Interval, SizeAssumption DEF Busy, Tasks
    <3>3. Cardinality(Busy') \in Nat /\ (Cardinality(Busy') = 0 => Busy' = {})
      BY <3>2, FS_Subset, FS_CardinalityType, FS_EmptySet
    <3> QED BY <2>6, <3>1, <3>3, SegNumType DEF LoopTest, TypeOK
  <2> QED BY <2>6, <2>7 DEF Outstanding
<1>4. ASSUME NEW t \in Tasks, ReadDone(t) \/ WriteDone(t) PROVE Outstanding'
  BY <1>4, BusyAfter DEF Outstanding, ReadDone, WriteDone
<1>5. CASE UNCHANGED vars
  BY <1>5 DEF Outstanding, Busy, vars
<1> QED BY <1>3, <1>4, <1>5 DEF Next, IoDone, WaitTimeout, Returned

-----------------------------------------------------------------------------
(* What a transfer covers and what it leaves behind.                         *)

LEMMA ExtentIsSegment ==
  ASSUME TypeOK, HandedOut, NEW t \in Busy
  PROVE  Extent(t) = SegOf(seg[t])
<1> DEFINE s == seg[t]
<1>1. s \in Segs /\ copy_size[t] = CopySize(ClusterNum - Offset(s))
  BY DEF TypeOK, HandedOut, Busy
<1>2. Offset(s) \in Nat /\ Offset(s) < ClusterNum
  BY <1>1, SegmentBegins
<1> QED BY <1>1, <1>2, SizeAssumption DEF Extent, SegOf, CopySize, Clusters

LEMMA SegmentsDisjoint ==
  ASSUME NEW s \in Segs, NEW r \in Segs, SegOf(s) \cap SegOf(r) # {}
  PROVE  s = r
<1>1. s \in Int /\ r \in Int /\ Offset(s) \in Int /\ Offset(r) \in Int
  BY OffsetType, SegNumType DEF Segs
<1>2. s < r => Offset(s) + SegClusters <= Offset(r)
  BY <1>1, OffsetMonotone
<1>3. r < s => Offset(r) + SegClusters <= Offset(s)
  BY <1>1, OffsetMonotone
<1>4. PICK c \in Clusters : /\ Offset(s) <= c /\ c < Offset(s) + SegClusters
                            /\ Offset(r) <= c /\ c < Offset(r) + SegClusters
  BY DEF SegOf
<1> QED BY <1>1, <1>2, <1>3, <1>4, SizeAssumption DEF Clusters

LEMMA ClusterHasSegment ==
  ASSUME NEW c \in Clusters
  PROVE  \E s \in Segs : c \in SegOf(s)
<1> DEFINE s == c \div SegClusters
<1>1. c \in Nat /\ c <= ClusterNum - 1
  BY SizeAssumption DEF Clusters
<1>2. s \in Nat /\ s * SegClusters <= c /\ c < s * SegClusters + SegClusters
  BY <1>1, SizeAssumption, Z3
<1> HIDE DEF s
<1>3. s < SegNum
  <2>1. SUFFICES ASSUME SegNum <= s PROVE FALSE
    BY <1>2, SegNumType
  <2>2. Offset(SegNum) <= Offset(s)
    BY <1>2, <2>1, SegNumType, OffsetMonotone, OffsetType, SizeAssumption
  <2> QED BY <1>1, <1>2, <2>2, SegNumType, OffsetType, SizeAssumption DEF Offset
<1> QED BY <1>1, <1>2, <1>3, SegNumType DEF Segs, SegOf, Offset

\* A write that ends leaves the data of its clusters, unless the device failed.
LEMMA WriteArrives ==
  ASSUME TypeOK, HandedOut, Delivered, NEW t \in Busy, state[t] = "WRITING",
         NEW c \in SegOf(seg[t])
  PROVE  Written(t, c) = c \/ Faulty(c)
<1>1. /\ seg[t] \in Segs /\ seg[t] \in Int /\ c \in Int /\ Offset(seg[t]) \in Int
  BY OffsetType, SegNumType, SizeAssumption DEF TypeOK, Busy, Segs, SegOf, Clusters
<1>2. CASE seg[t] \in BadReads \cup BadWrites
  BY <1>2 DEF Faulty
<1>3. CASE seg[t] \notin BadReads \cup BadWrites
  <2>1. buf[t] = seg[t] /\ buf[t] # Junk
    BY <1>1, <1>3, ContentAssumption DEF Delivered
  <2> QED BY <1>1, <1>3, <2>1 DEF Written, BufferOf
<1> QED BY <1>2, <1>3

LEMMA WriteEffect ==
  ASSUME TypeOK, HandedOut, Delivered, NEW t \in Tasks, WriteDone(t)
  PROVE  /\ t \in Busy /\ seg[t] \in Segs
         /\ \A c \in SegOf(seg[t]) : dst'[c] = c \/ Faulty(c)
         /\ \A c \in Clusters \ SegOf(seg[t]) : dst'[c] = dst[c]
<1>1. t \in Busy /\ state[t] = "WRITING" /\ seg[t] \in Segs
  BY DEF WriteDone, Busy, TypeOK
<1>2. Extent(t) = SegOf(seg[t]) /\ SegOf(seg[t]) \subseteq Clusters
  BY <1>1, ExtentIsSegment DEF SegOf
<1>3. \A c \in SegOf(seg[t]) : Written(t, c) = c \/ Faulty(c)
  BY <1>1, WriteArrives
<1> QED BY <1>1, <1>2, <1>3 DEF WriteDone

LEMMA DeliveredStep ==
  ASSUME TypeOK, HandedOut, Outstanding, Delivered, [Next]_vars
  PROVE  Delivered'
<1>1. /\ \A s : Occupied(s)' = Occupied(s)
      /\ Busy \subseteq Tasks /\ Busy' \subseteq Tasks
      /\ seg_id \in Int /\ \A s \in Segs : s \in Int
  BY SourceUnchanged, SegNumType DEF Busy, TypeOK, Segs
<1>2. ASSUME NEW t \in Tasks, NEW s \in Segs, TakeFirst(t, s) \/ TakeNext(t, s)
      PROVE  Delivered'
  <2>1. /\ Busy' = Busy \cup {t} /\ signaled' = signaled \ {t} /\ buf' = buf /\ dst' = dst
        /\ StartRead(t, s) /\ seg_id <= s /\ t \in signaled
        /\ \A j \in seg_id .. s - 1 : ~Occupied(j)
        /\ t \in Busy => state[t] = "WRITING"
    BY <1>2, BusyAfter DEF TakeFirst, TakeNext, Takes
  <2>2. /\ seg'[t] = s /\ seg_id' = s + 1 /\ state'[t] = "READING"
        /\ \A u \in Tasks \ {t} : seg'[u] = seg[u] /\ state'[u] = state[u]
    BY <2>1, HandOut DEF StartRead, TypeOK
  <2>3. \A r : Arrived(r)' = Arrived(r)
    BY <2>1 DEF Arrived
  <2>4. \A r \in Segs : (r < seg_id' /\ Occupied(r)) => Arrived(r) \/ \E u \in Busy' : seg'[u] = r
    <3>1. SUFFICES ASSUME NEW r \in Segs, r < seg_id', Occupied(r)
                   PROVE  Arrived(r) \/ \E u \in Busy' : seg'[u] = r
      OBVIOUS
    <3>2. CASE r = s
      BY <2>1, <2>2, <3>2
    <3>3. CASE r # s
      <4>1. r < seg_id
        BY <1>1, <2>1, <2>2, <3>1, <3>3
      <4>2. CASE Arrived(r)
        BY <4>2
      <4>3. ASSUME NEW u \in Busy, seg[u] = r, u # t PROVE \E v \in Busy' : seg'[v] = r
        BY <1>1, <2>1, <2>2, <4>3
      <4>4. CASE t \in Busy /\ seg[t] = r
        BY <2>1, <4>4 DEF Delivered
      <4> QED BY <3>1, <4>1, <4>2, <4>3, <4>4 DEF Delivered
    <3> QED BY <3>2, <3>3
  <2> QED BY <1>1, <2>1, <2>2, <2>3, <2>4 DEF Delivered
<1>3. ASSUME NEW t \in Tasks, SpinIdle(t) PROVE Delivered'
  <2>1. /\ Busy' = Busy /\ t \notin Busy /\ UNCHANGED <<seg, buf, dst, signaled>>
        /\ seg_id' = SegNum /\ \A u \in Busy : state'[u] = state[u]
        /\ \A j \in seg_id .. SegNum - 1 : ~Occupied(j)
    BY <1>3, BusyAfter DEF SpinIdle, FindsNone, NoSegment, Busy, TypeOK
  <2>2. \A r : Arrived(r)' = Arrived(r)
    BY <2>1 DEF Arrived
  <2>3. \A r \in Segs : Occupied(r) => r < seg_id
    BY <1>1, <2>1, SegNumType DEF Segs
  <2> QED BY <1>1, <2>1, <2>2, <2>3 DEF Delivered
<1>4. ASSUME NEW t \in Tasks, Park(t) PROVE Delivered'
  <2>1. /\ Busy' = Busy \ {t} /\ t \in Busy /\ UNCHANGED <<seg, buf, dst>>
        /\ signaled' = signaled \ {t} /\ t \in signaled /\ state[t] = "WRITING"
        /\ seg_id' = SegNum /\ \A u \in Busy \ {t} : state'[u] = state[u]
        /\ \A j \in seg_id .. SegNum - 1 : ~Occupied(j)
    BY <1>4, BusyAfter DEF Park, FindsNone, NoSegment, Busy, TypeOK
  <2>2. \A r : Arrived(r)' = Arrived(r)
    BY <2>1 DEF Arrived
  <2>3. \A r \in Segs : Occupied(r) => r < seg_id
    BY <1>1, <2>1, SegNumType DEF Segs
  <2>4. Arrived(seg[t])
    BY <2>1 DEF Delivered
  <2> QED BY <1>1, <2>1, <2>2, <2>3, <2>4 DEF Delivered
<1>5. ASSUME NEW t \in Tasks, StartWrite(t) PROVE Delivered'
  <2>1. /\ Busy' = Busy /\ t \in Busy /\ UNCHANGED <<seg, seg_id, buf, dst>>
        /\ signaled' = signaled \ {t} /\ t \in signaled
        /\ \A u \in Busy \ {t} : state'[u] = state[u]
    BY <1>5, BusyAfter DEF StartWrite, Reading, Busy, TypeOK
  <2>2. \A r : Arrived(r)' = Arrived(r)
    BY <2>1 DEF Arrived
  <2> QED BY <1>1, <2>1, <2>2 DEF Delivered
<1>6. ASSUME NEW t \in Tasks, ReadDone(t) PROVE Delivered'
  <2>1. /\ Busy' = Busy /\ t \in Busy /\ UNCHANGED <<seg, seg_id, state, dst>>
        /\ signaled' = signaled \cup {t} /\ state[t] = "READING"
        /\ \A u \in Tasks \ {t} : buf'[u] = buf[u]
        /\ buf'[t] = seg[t] \/ seg[t] \in BadReads
    BY <1>6, BusyAfter DEF ReadDone, BufferOf, TypeOK
  <2>2. \A r : Arrived(r)' = Arrived(r)
    BY <2>1 DEF Arrived
  <2> QED BY <1>1, <2>1, <2>2 DEF Delivered
<1>7. ASSUME NEW t \in Tasks, WriteDone(t) PROVE Delivered'
  <2>1. /\ Busy' = Busy /\ t \in Busy /\ UNCHANGED <<seg, seg_id, state, buf>>
        /\ signaled' = signaled \cup {t} /\ state[t] = "WRITING"
    BY <1>7, BusyAfter DEF WriteDone
  <2>2. /\ \A c \in SegOf(seg[t]) : dst'[c] = c \/ Faulty(c)
        /\ \A c \in Clusters \ SegOf(seg[t]) : dst'[c] = dst[c]
    BY <1>7, WriteEffect
  <2>3. Arrived(seg[t])' /\ \A r : Arrived(r) => Arrived(r)'
    BY <2>1, <2>2 DEF Arrived, SegOf, Faulty
  <2> QED BY <1>1, <2>1, <2>3 DEF Delivered
<1>8. CASE UNCHANGED vars
  BY <1>1, <1>8 DEF Delivered, Arrived, Busy, vars
<1> QED BY <1>2, <1>3, <1>4, <1>5, <1>6, <1>7, <1>8, TurnCases
        DEF Next, IoDone, WaitTimeout, Returned

LEMMA NoWrongDataStep ==
  ASSUME TypeOK, HandedOut, Delivered, NoWrongData, [Next]_vars
  PROVE  NoWrongData'
<1>1. \A s : Occupied(s)' = Occupied(s)
  BY SourceUnchanged
<1>2. ASSUME NEW t \in Tasks, WriteDone(t) PROVE NoWrongData'
  <2>1. /\ t \in Busy /\ seg[t] \in Segs /\ Occupied(seg[t])
        /\ \A c \in SegOf(seg[t]) : dst'[c] = c \/ Faulty(c)
        /\ \A c \in Clusters \ SegOf(seg[t]) : dst'[c] = dst[c]
    BY <1>2, WriteEffect DEF HandedOut
  <2>2. \A c \in Clusters : dst'[c] \in {Old, c} \/ Faulty(c)
    BY <2>1 DEF NoWrongData
  <2>3. ASSUME NEW s \in Segs, ~Occupied(s), NEW c \in SegOf(s) PROVE dst'[c] = Old
    <3>1. c \in Clusters /\ c \notin SegOf(seg[t])
      BY <2>1, <2>3, SegmentsDisjoint DEF SegOf
    <3> QED BY <2>1, <2>3, <3>1 DEF NoWrongData
  <2> QED BY <1>1, <2>2, <2>3 DEF NoWrongData, Faulty
<1>3. CASE UNCHANGED dst
  BY <1>1, <1>3 DEF NoWrongData
<1> QED BY <1>2, <1>3 DEF Next, Turn, Pending, Reading, Writing, IoDone, ReadDone,
                          WaitTimeout, Returned, vars

-----------------------------------------------------------------------------
(* The safety properties.                                                    *)

LEMMA InvStep == IndInv /\ [Next]_vars => IndInv'
BY TypeStep, HandedOutStep, OutstandingStep, DeliveredStep, NoWrongDataStep DEF IndInv

LEMMA Invariance == Spec => []IndInv
BY InitInv, InvStep, PTL DEF Spec

\* Two tasks never work on overlapping clusters, and each transfer covers
\* exactly what the volume has of its segment, whatever the remainder of the
\* volume's size: the min(buf_size, remain) of the code is right for the last
\* segment and never meets a remain that wrapped around.
THEOREM ExtentsExclusive == Spec => []ExclusiveExtents
<1>1. ASSUME IndInv PROVE ExclusiveExtents
  <2>1. \A t \in Busy : Extent(t) = SegOf(seg[t]) /\ seg[t] \in Segs
    BY <1>1, ExtentIsSegment DEF IndInv, TypeOK, Busy
  <2>2. ASSUME NEW t \in Busy, NEW u \in Busy, t # u PROVE Extent(t) \cap Extent(u) = {}
    BY <1>1, <2>1, <2>2, SegmentsDisjoint DEF IndInv, HandedOut
  <2> QED BY <2>1, <2>2 DEF ExclusiveExtents
<1> QED BY <1>1, Invariance, PTL

\* The exit test of the loop, a comparison of two counters, cannot succeed
\* while a transfer is outstanding.
THEOREM CountersRight == Spec => []CountersAgree
<1>1. IndInv => CountersAgree
  BY DEF IndInv, Outstanding, CountersAgree
<1> QED BY <1>1, Invariance, PTL

\* No cluster ever gets the data of another one, whichever transfers fail and
\* in whatever order they end; free segments are left alone.
THEOREM DataRight == Spec => []NoWrongData
<1>1. IndInv => NoWrongData
  BY DEF IndInv
<1> QED BY <1>1, Invariance, PTL

\* When the engine returns, no used cluster has been left out.
LEMMA InvComplete == IndInv => CompleteAtReturn
<1> SUFFICES ASSUME IndInv, pc = "done", map_ok, NEW c \in used
             PROVE  dst[c] = c \/ Faulty(c)
  BY DEF CompleteAtReturn
<1>1. c \in Clusters /\ Busy = {} /\ seg_id = SegNum
  BY DEF IndInv, TypeOK, Outstanding
<1>2. PICK s \in Segs : c \in SegOf(s)
  BY <1>1, ClusterHasSegment
<1>3. Occupied(s) /\ s < seg_id
  BY <1>1, <1>2, SegNumType DEF Occupied, Segs
<1> QED BY <1>1, <1>2, <1>3 DEF IndInv, Delivered, Arrived

THEOREM CopyComplete == Spec => []CompleteAtReturn
BY InvComplete, Invariance, PTL

\* A buffer is never read into while it is being written out: the buffers of
\* the tasks are apart.
THEOREM BuffersStable == Spec => BufferStableDuringWrite
<1> DEFINE Stable == \A t \in Tasks :
             (t \in inflight /\ state[t] = "WRITING" /\ t \in inflight')
               => buf'[BufferOf(t)] = buf[BufferOf(t)]
<1>1. TypeOK /\ [Next]_vars => [Stable]_vars
  <2> SUFFICES ASSUME TypeOK, [Next]_vars PROVE Stable
    OBVIOUS
  <2>1. ASSUME NEW u \in Tasks, ReadDone(u) PROVE Stable
    BY <2>1 DEF ReadDone, BufferOf, TypeOK
  <2>2. CASE UNCHANGED buf
    BY <2>2
  <2> QED BY <2>1, <2>2 DEF Next, Turn, Pending, Reading, Writing, IoDone, WriteDone,
                            WaitTimeout, Returned, vars
<1> QED BY <1>1, TypeCorrect, PTL DEF Spec, BufferStableDuringWrite

\* A task that found no segment, and so sets its event again at once, is never
\* served before one whose transfer has ended.
THEOREM SpinnersLast == Spec => []SpinnersAreLast
<1>1. Init => SpinnersAreLast
  BY DEF Init, SpinnersAreLast, Busy
<1>2. TypeOK /\ SpinnersAreLast /\ [Next]_vars => SpinnersAreLast'
  <2> SUFFICES ASSUME TypeOK, SpinnersAreLast, [Next]_vars PROVE SpinnersAreLast'
    OBVIOUS
  <2>1. ASSUME NEW t \in Tasks, Turn(t) PROVE SpinnersAreLast'
    <3>1. \A u \in signaled : t <= u
      BY <2>1 DEF Turn, Woken
    <3>2. Tasks \subseteq Int /\ signaled \subseteq Tasks
      BY SizeAssumption DEF Tasks, TypeOK
    <3>3. ASSUME NEW s \in Segs, TakeFirst(t, s) \/ TakeNext(t, s) PROVE SpinnersAreLast'
      <4>1. /\ Busy' = Busy \cup {t} /\ signaled' = signaled \ {t}
            /\ \A u \in Tasks \ {t} : state'[u] = state[u]
        BY <3>3, BusyAfter DEF TakeFirst, TakeNext, Takes, StartRead, TypeOK
      <4> QED BY <3>1, <3>2, <4>1 DEF SpinnersAreLast
    <3>4. CASE SpinIdle(t)
      BY <3>4, BusyAfter DEF SpinnersAreLast, SpinIdle, FindsNone, NoSegment, TypeOK
    <3>5. CASE Park(t)
      <4>1. Busy' = Busy \ {t} /\ signaled' = signaled \ {t}
            /\ \A u \in Tasks \ {t} : state'[u] = state[u]
        BY <3>5, BusyAfter DEF Park, FindsNone, NoSegment, TypeOK
      <4> QED BY <4>1 DEF SpinnersAreLast
    <3>6. CASE StartWrite(t)
      <4>1. Busy' = Busy /\ signaled' = signaled \ {t}
            /\ \A u \in Tasks \ {t} : state'[u] = state[u]
        BY <3>6, BusyAfter DEF StartWrite, Reading, TypeOK
      <4> QED BY <4>1 DEF SpinnersAreLast
    <3> QED BY <2>1, <3>3, <3>4, <3>5, <3>6, TurnCases
  <2>2. ASSUME NEW t \in Tasks, ReadDone(t) \/ WriteDone(t) PROVE SpinnersAreLast'
    <3>1. /\ Busy' = Busy /\ signaled' = signaled \cup {t} /\ state' = state
          /\ state[t] # "PENDING"
      BY <2>2, BusyAfter DEF ReadDone, WriteDone
    <3> QED BY <3>1 DEF SpinnersAreLast
  <2>3. CASE UNCHANGED vars
    BY <2>3 DEF SpinnersAreLast, Busy, vars
  <2> QED BY <2>1, <2>2, <2>3 DEF Next, IoDone, WaitTimeout, Returned
<1> QED BY <1>1, <1>2, TypeCorrect, PTL DEF Spec

-----------------------------------------------------------------------------
(* The engine implements the abstract volume copy.  The abstract copy        *)
(* transfers a cluster once; that the engine does too needs one more part of *)
(* the invariant.                                                            *)

\* A segment that was not handed out, or whose write has not ended, still has
\* its old content on the destination.
Untouched(s) == \A c \in SegOf(s) : dst[c] = Old
Fresh ==
  /\ \A s \in Segs : s >= seg_id => Untouched(s)
  /\ \A t \in Busy : Untouched(seg[t]) \/ (state[t] = "WRITING" /\ t \in signaled)

LEMMA FreshInit == Init => Fresh
BY DEF Init, Fresh, Untouched, SegOf, Busy

LEMMA FreshStep ==
  ASSUME IndInv, Fresh, [Next]_vars
  PROVE  Fresh'
<1>1. TypeOK /\ HandedOut /\ Outstanding /\ Delivered
  BY DEF IndInv
<1>2. /\ Busy \subseteq Tasks /\ Busy' \subseteq Tasks
      /\ seg_id \in Int /\ seg_id <= SegNum /\ SegNum \in Int
      /\ \A s \in Segs : s \in Int /\ s < SegNum
      /\ \A t \in Busy : seg[t] \in Segs /\ seg[t] < seg_id
  BY <1>1, SegNumType DEF Busy, TypeOK, Segs, HandedOut
<1>3. ASSUME NEW t \in Tasks, NEW s \in Segs, TakeFirst(t, s) \/ TakeNext(t, s)
      PROVE  Fresh'
  <2>1. /\ Busy' = Busy \cup {t} /\ signaled' = signaled \ {t} /\ dst' = dst
        /\ StartRead(t, s) /\ seg_id <= s
    BY <1>1, <1>3, BusyAfter DEF TakeFirst, TakeNext, Takes
  <2>2. /\ seg'[t] = s /\ seg_id' = s + 1
        /\ \A u \in Tasks \ {t} : seg'[u] = seg[u] /\ state'[u] = state[u]
    BY <1>1, <2>1, HandOut
  <2>3. \A r : Untouched(r)' = Untouched(r)
    BY <2>1 DEF Untouched
  <2> QED BY <1>2, <2>1, <2>2, <2>3 DEF Fresh
<1>4. ASSUME NEW t \in Tasks, SpinIdle(t) \/ Park(t) PROVE Fresh'
  <2>1. /\ Busy' = Busy \ {t} /\ dst' = dst /\ seg' = seg /\ seg_id' = SegNum
        /\ \A u \in Busy \ {t} : state'[u] = state[u]
        /\ signaled \ {t} \subseteq signaled'
    BY <1>1, <1>4, BusyAfter DEF SpinIdle, Park, FindsNone, NoSegment, TypeOK, Busy
  <2>2. \A r : Untouched(r)' = Untouched(r)
    BY <2>1 DEF Untouched
  <2> QED BY <1>2, <2>1, <2>2 DEF Fresh
<1>5. ASSUME NEW t \in Tasks, StartWrite(t) \/ ReadDone(t) PROVE Fresh'
  <2>1. /\ Busy' = Busy /\ t \in Busy /\ state[t] = "READING"
        /\ UNCHANGED <<dst, seg, seg_id>>
        /\ \A u \in Busy \ {t} : state'[u] = state[u]
        /\ signaled \ {t} \subseteq signaled'
    BY <1>1, <1>5, BusyAfter DEF StartWrite, Reading, ReadDone, TypeOK, Busy
  <2>2. \A r : Untouched(r)' = Untouched(r)
    BY <2>1 DEF Untouched
  <2> QED BY <1>2, <2>1, <2>2 DEF Fresh
<1>6. ASSUME NEW t \in Tasks, WriteDone(t) PROVE Fresh'
  <2>1. /\ Busy' = Busy /\ t \in Busy /\ UNCHANGED <<seg, seg_id, state>>
        /\ signaled' = signaled \cup {t} /\ state[t] = "WRITING"
        /\ \A c \in Clusters \ SegOf(seg[t]) : dst'[c] = dst[c]
    BY <1>1, <1>6, BusyAfter, WriteEffect DEF WriteDone
  <2>2. ASSUME NEW r \in Segs, r # seg[t], Untouched(r) PROVE Untouched(r)'
    <3>1. \A c \in SegOf(r) : c \in Clusters \ SegOf(seg[t])
      BY <1>2, <2>1, <2>2, SegmentsDisjoint DEF SegOf
    <3> QED BY <2>1, <2>2, <3>1 DEF Untouched
  <2>3. \A s \in Segs : s >= seg_id => s # seg[t]
    BY <1>2, <2>1
  <2>4. \A u \in Busy : u # t => seg[u] # seg[t]
    BY <1>1, <2>1 DEF HandedOut
  <2> QED BY <1>2, <2>1, <2>2, <2>3, <2>4 DEF Fresh
<1>7. CASE UNCHANGED vars
  BY <1>7 DEF Fresh, Untouched, Busy, vars
<1> QED BY <1>1, <1>3, <1>4, <1>5, <1>6, <1>7, TurnCases
        DEF Next, IoDone, WaitTimeout, Returned

\* Every behaviour of the engine is one of the abstract copy: a cluster is
\* transferred at most once and from its own source cluster, the call returns
\* only when all wanted clusters have been transferred, and nothing is written
\* after that.
THEOREM Refinement == Spec => ImplementsVolumeCopy
<1> DEFINE wanted == IF map_ok THEN used ELSE {}
<1>1. Init => Abstract!Init
  BY FaultAssumption DEF Init, Abstract!Init
<1>2. ASSUME IndInv, IndInv', Fresh, [Next]_vars PROVE [Abstract!Next]_(Abstract!vars)
  <2>1. used' = used /\ map_ok' = map_ok
    BY <1>2, SourceUnchanged
  <2>2. ASSUME NEW t \in Tasks, Turn(t) PROVE [Abstract!Next]_(Abstract!vars)
    <3>1. pc = "loop" /\ pc' \in {"loop", "done"} /\ dst' = dst
      BY <2>2 DEF Turn, LoopTest, Pending, Reading, Writing
    <3>2. CASE pc' = "loop"
      BY <2>1, <3>1, <3>2 DEF Abstract!vars
    <3>3. CASE pc' = "done"
      <4>1. \A c \in wanted : dst[c] = c \/ c \in {d \in Clusters : Faulty(d)}
        <5>1. CompleteAtReturn' /\ used \subseteq Clusters
          BY <1>2, InvComplete, PTL DEF IndInv, TypeOK
        <5> QED BY <2>1, <3>1, <3>3, <5>1 DEF CompleteAtReturn, Faulty
      <4> QED BY <2>1, <3>1, <3>3, <4>1 DEF Abstract!Next, Abstract!Return, Abstract!Transferred
    <3> QED BY <3>1, <3>2, <3>3
  <2>3. ASSUME NEW t \in Tasks, WriteDone(t) PROVE [Abstract!Next]_(Abstract!vars)
    <3>1. /\ t \in Busy /\ seg[t] \in Segs
          /\ \A c \in SegOf(seg[t]) : dst'[c] = c \/ Faulty(c)
          /\ \A c \in Clusters \ SegOf(seg[t]) : dst'[c] = dst[c]
      BY <1>2, <2>3, WriteEffect DEF IndInv
    <3>2. pc = "loop" /\ pc' = pc
      BY <1>2, <2>3, <3>1 DEF IndInv, Outstanding, TypeOK, WriteDone
    <3>3. Untouched(seg[t])
      BY <1>2, <2>3, <3>1 DEF WriteDone, IndInv, Outstanding, Fresh
    <3>4. dst' \in [Clusters -> Contents]
      BY <1>2 DEF IndInv, TypeOK
    <3>5. \A c \in Clusters : \/ dst'[c] = dst[c]
                              \/ dst[c] = Old /\ dst'[c] = c
                              \/ dst[c] = Old /\ c \in {d \in Clusters : Faulty(d)}
      BY <3>1, <3>3 DEF Untouched
    <3> QED BY <2>1, <3>2, <3>4, <3>5 DEF Abstract!Next, Abstract!Transfer
  <2>4. CASE UNCHANGED <<dst, pc>>
    BY <2>1, <2>4 DEF Abstract!vars
  <2> QED BY <1>2, <2>2, <2>3, <2>4
          DEF Next, IoDone, ReadDone, WaitTimeout, Returned, vars
<1>3. IndInv /\ Fresh /\ [Next]_vars => Fresh'
  BY FreshStep
<1> QED BY <1>1, <1>2, <1>3, FreshInit, Invariance, PTL
        DEF Spec, ImplementsVolumeCopy, Abstract!Spec

=============================================================================
