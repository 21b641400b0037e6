---------------------------- MODULE GptCacheProofs --------------------------
(***************************************************************************)
(* What TLAPS proves about GptCache, for every number of slots, every set  *)
(* of GUIDs and of partition types and any number of operations.           *)
(***************************************************************************)
EXTENDS GptCache, TLAPS

Headers == [gid : Guids, crc : Entries]
Tables == [gid : Guids, ent : Entries]

-----------------------------------------------------------------------------
(* The invariant. *)

\* Everything that firmware may fall back on was asked for as a whole, as long as
\* no inconsistent primary was written back.
TablesInv ==
  /\ backup \in whole
  /\ Consistent /\ ~adopted => Table(header.gid, entries) \in whole

\* The objects remember a disk GUID g and entries e.
Mirrored(g, e) == m_guid = g /\ m_prop = e

\* Where the cache may be filled, the objects remember the table in effect; while
\* it is filled the disk is unchanged and the cache is as the objects remember
\* it, if the primary it came from is the table in effect; between the two writes
\* the disk has the cached header already.
CacheInv ==
  /\ pc = "idle" /\ Fresh /\ ~adopted => Mirrored(Effective.gid, Effective.ent)
  /\ pc = "cached" => /\ base = Effective
                      /\ Consistent /\ ~adopted => Mirrored(m_header.gid, m_pentry)
  /\ pc = "half" => /\ header = m_header /\ header.crc = m_pentry
                    /\ ~adopted => /\ Table(header.gid, m_pentry) \in whole
                                   /\ Mirrored(m_header.gid, m_pentry)

IInv == TypeOK /\ TablesInv /\ CacheInv

-----------------------------------------------------------------------------
(* Tables and entries. *)

LEMMA EffectiveType == TypeOK => Effective \in Tables
<1> SUFFICES ASSUME TypeOK PROVE Effective \in Tables
  OBVIOUS
<1>1. CASE Consistent
  BY <1>1 DEF TypeOK, Consistent, Effective, Table, Tables
<1>2. CASE ~Consistent
  BY <1>2 DEF TypeOK, Effective, Tables
<1> QED BY <1>1, <1>2

\* Entries stay entries when a type or a GUID changes.
LEMMA EntryChange ==
  ASSUME NEW e \in Entries, NEW s \in Slots, NEW g \in Guids, NEW t \in Types
  PROVE  /\ [e EXCEPT ![s].id = g] \in Entries
         /\ [e EXCEPT ![s].type = t] \in Entries
<1>1. e[s] \in Entry
  BY DEF Entries
<1>2. [e[s] EXCEPT !.id = g] \in Entry /\ [e[s] EXCEPT !.type = t] \in Entry
  BY <1>1 DEF Entry
<1> QED BY <1>2 DEF Entries

LEMMA NoEntriesType == NoEntries \in Entries
BY DEF NoEntries, Unused, Entry, Entries

-----------------------------------------------------------------------------
(* Its steps. *)

LEMMA InvInit == Init => IInv
<1> SUFFICES ASSUME Init PROVE IInv
  OBVIOUS
<1>1. PICK g \in Guids : /\ header = [gid |-> g, crc |-> NoEntries]
                         /\ backup = Table(g, NoEntries)
                         /\ m_guid = g
                         /\ whole = {Table(g, NoEntries)}
  BY DEF Init
<1>2. TypeOK
  <2>1. header \in [gid : Guids, crc : Entries] /\ backup \in [gid : Guids, ent : Entries]
    BY <1>1, NoEntriesType DEF Table
  <2>2. pc = "idle" /\ adopted = FALSE /\ ops \in 0 .. MaxOps
    BY CacheAssumption DEF Init
  <2> QED BY <1>1, <2>1, <2>2, NoEntriesType DEF Init, TypeOK
<1>3. TablesInv /\ CacheInv
  BY <1>1 DEF Init, TablesInv, CacheInv, Mirrored, Consistent, Effective, Table, Fresh
<1> QED BY <1>2, <1>3 DEF IInv

LEMMA CreatePartitionStep == IInv /\ CreatePartition => IInv'
<1> SUFFICES ASSUME IInv, CreatePartition PROVE IInv'
  OBVIOUS
<1> DEFINE New(s, e) == Table(Effective.gid, [Effective.ent EXCEPT ![s] = e])
<1>1. PICK s \in Slots, e \in InUse :
        /\ header' = [gid |-> New(s, e).gid, crc |-> New(s, e).ent]
        /\ entries' = New(s, e).ent
        /\ backup' = New(s, e)
        /\ m_prop' = [m_prop EXCEPT ![s] = e]
        /\ whole' = whole \cup {New(s, e)}
  BY DEF CreatePartition
<1> DEFINE f == [Effective.ent EXCEPT ![s] = e]
<1>2. /\ header' = [gid |-> Effective.gid, crc |-> f]
      /\ entries' = f
      /\ backup' = [gid |-> Effective.gid, ent |-> f]
      /\ whole' = whole \cup {[gid |-> Effective.gid, ent |-> f]}
  BY <1>1 DEF Table
<1>3. /\ UNCHANGED <<m_header, m_pentry, m_hdisk, m_guid, pc, base, adopted>>
      /\ pc = "idle" /\ ops' \in 0 .. MaxOps
  BY CacheAssumption DEF CreatePartition, cache, IInv, TypeOK
<1>4. Effective \in Tables
  BY EffectiveType DEF IInv
<1>5. f \in Entries /\ Effective.gid \in Guids
  BY <1>4 DEF Tables, Entries, Entry, InUse
<1>6. m_prop' \in Entries
  BY <1>1 DEF IInv, TypeOK, Entries, Entry, InUse
<1>7. TypeOK'
  <2>1. header' \in [gid : Guids, crc : Entries] /\ backup' \in [gid : Guids, ent : Entries]
    BY <1>2, <1>5
  <2> QED BY <1>2, <1>3, <1>5, <1>6, <2>1 DEF IInv, TypeOK
<1>8. TablesInv'
  BY <1>2 DEF TablesInv, Table
<1>9. CacheInv'
  <2>1. ASSUME Fresh, ~adopted PROVE m_prop' = f /\ m_guid = Effective.gid
    BY <1>1, <1>3, <2>1 DEF IInv, CacheInv, Mirrored
  <2>2. Fresh' => Fresh
    BY <1>3 DEF Fresh
  <2>3. Effective'.gid = Effective.gid /\ Effective'.ent = f
    BY <1>2 DEF Effective, Consistent, Table
  <2> QED BY <1>3, <2>1, <2>2, <2>3 DEF CacheInv, Mirrored
<1> QED BY <1>7, <1>8, <1>9 DEF IInv

LEMMA CacheGptHeaderStep == IInv /\ CacheGptHeader => IInv'
<1> SUFFICES ASSUME IInv, CacheGptHeader PROVE IInv'
  OBVIOUS
<1>1. /\ UNCHANGED <<header, entries, backup, m_guid, m_prop, whole, adopted>>
      /\ pc = "idle" /\ Fresh /\ ops' \in 0 .. MaxOps
  BY CacheAssumption DEF CacheGptHeader, platter, mirror, IInv, TypeOK
<1>2. TablesInv'
  BY <1>1 DEF IInv, TablesInv, Consistent
<1>3. Effective' = Effective /\ Consistent' = Consistent
  BY <1>1 DEF Effective, Consistent
<1>4. header \in Headers /\ entries \in Entries /\ header # Nothing /\ entries # Nothing
  BY ValueAssumption DEF IInv, TypeOK, Headers
<1>5. CASE /\ m_hdisk' = TRUE /\ m_header' = header /\ m_pentry' = entries
           /\ base' = Effective /\ pc' = "cached"
  <2>1. TypeOK'
    BY <1>1, <1>4, <1>5 DEF IInv, TypeOK, Cached, Headers
  <2>2. ASSUME Consistent, ~adopted PROVE Mirrored(header.gid, entries)
    BY <1>1, <2>2 DEF IInv, CacheInv, Effective, Table
  <2>3. CacheInv'
    BY <1>1, <1>3, <1>5, <2>2 DEF CacheInv, Mirrored
  <2> QED BY <1>2, <2>1, <2>3 DEF IInv
<1>6. CASE /\ m_hdisk' = TRUE /\ m_header' = header
           /\ m_pentry' \in Entries \cup {Nothing} /\ UNCHANGED <<base, pc>>
  <2>1. TypeOK'
    BY <1>1, <1>4, <1>6 DEF IInv, TypeOK, Headers
  <2>2. CacheInv'
    BY <1>1, <1>6 DEF CacheInv, Fresh
  <2> QED BY <1>2, <2>1, <2>2 DEF IInv
<1>7. CASE UNCHANGED <<cache, base, pc>>
  <2>1. TypeOK'
    BY <1>1, <1>7 DEF IInv, TypeOK, cache
  <2>2. CacheInv'
    BY <1>1, <1>3, <1>7 DEF IInv, CacheInv, cache, Fresh, Mirrored
  <2> QED BY <1>2, <2>1, <2>2 DEF IInv
<1> QED BY <1>5, <1>6, <1>7 DEF CacheGptHeader

LEMMA AlreadyCachedStep == IInv /\ AlreadyCached => IInv'
<1> SUFFICES ASSUME IInv, AlreadyCached PROVE IInv'
  OBVIOUS
<1>1. /\ UNCHANGED <<header, entries, backup, m_header, m_pentry, m_hdisk,
                     m_guid, m_prop, whole, base, adopted>>
      /\ pc' = "idle" /\ ~Fresh /\ ops' \in 0 .. MaxOps
  BY CacheAssumption
  DEF AlreadyCached, IfCached, platter, cache, mirror, IInv, TypeOK
<1>2. TypeOK'
  BY <1>1 DEF IInv, TypeOK
<1>3. TablesInv' /\ CacheInv'
  BY <1>1 DEF IInv, TablesInv, CacheInv, Consistent, Fresh
<1> QED BY <1>2, <1>3 DEF IInv

LEMMA SetDiskIdStep == ASSUME NEW g \in Guids PROVE IInv /\ SetDiskId(g) => IInv'
<1> SUFFICES ASSUME IInv, SetDiskId(g) PROVE IInv'
  OBVIOUS
<1>1. /\ UNCHANGED <<header, entries, backup, m_pentry, m_hdisk, m_prop, pc, whole,
                     base, adopted, ops>>
      /\ pc = "cached" /\ m_guid' = g /\ m_header' = [m_header EXCEPT !.gid = g]
  BY DEF SetDiskId, platter
<1>2. m_header' \in Headers /\ m_header'.gid = g
  BY <1>1 DEF IInv, TypeOK, Cached, Headers, SetDiskId
<1>3. TypeOK'
  BY <1>1, <1>2, ValueAssumption DEF IInv, TypeOK, Cached, Headers
<1>4. TablesInv'
  BY <1>1 DEF IInv, TablesInv, Consistent
<1>5. CacheInv'
  BY <1>1, <1>2 DEF IInv, CacheInv, Consistent, Effective, Mirrored
<1> QED BY <1>3, <1>4, <1>5 DEF IInv

\* The two setters of a partition change the entry and the object alike.
LEMMA SetPartitionStep ==
  ASSUME IInv, pc = "cached", NEW f \in Entries, NEW h \in Entries,
         m_pentry' = f, m_prop' = h, m_pentry = m_prop => f = h,
         UNCHANGED <<platter, m_header, m_hdisk, m_guid, pc, whole, base, adopted, ops>>
  PROVE  IInv'
<1>1. UNCHANGED <<header, entries, backup, m_header, m_hdisk, m_guid, pc, whole, base,
                  adopted, ops>>
  BY DEF platter
<1>2. TypeOK'
  BY <1>1, ValueAssumption DEF IInv, TypeOK, Cached
<1>3. TablesInv'
  BY <1>1 DEF IInv, TablesInv, Consistent
<1>4. CacheInv'
  BY <1>1 DEF IInv, CacheInv, Consistent, Effective, Mirrored
<1> QED BY <1>2, <1>3, <1>4 DEF IInv

LEMMA SetPartitionIdStep ==
  ASSUME NEW g \in Guids, NEW s \in Slots PROVE IInv /\ SetPartitionId(g, s) => IInv'
<1> SUFFICES ASSUME IInv, SetPartitionId(g, s) PROVE IInv'
  OBVIOUS
<1>1. m_pentry \in Entries /\ m_prop \in Entries /\ pc = "cached"
  BY DEF SetPartitionId, IInv, TypeOK, Cached
<1>2. [m_prop EXCEPT ![s].id = g] \in Entries /\ [m_pentry EXCEPT ![s].id = g] \in Entries
  BY <1>1, EntryChange, CacheAssumption
<1> QED BY <1>1, <1>2, SetPartitionStep DEF SetPartitionId, SlotOf

LEMMA SetPartitionTypeStep ==
  ASSUME NEW t \in Types, NEW s \in Slots PROVE IInv /\ SetPartitionType(t, s) => IInv'
<1> SUFFICES ASSUME IInv, SetPartitionType(t, s) PROVE IInv'
  OBVIOUS
<1>1. m_pentry \in Entries /\ m_prop \in Entries /\ pc = "cached"
  BY DEF SetPartitionType, IInv, TypeOK, Cached
<1>2. [m_prop EXCEPT ![s].type = t] \in Entries /\ [m_pentry EXCEPT ![s].type = t] \in Entries
  BY <1>1, EntryChange, CacheAssumption
<1> QED BY <1>1, <1>2, SetPartitionStep DEF SetPartitionType, SlotOf

LEMMA WriteHeaderStep == IInv /\ WriteHeader => IInv'
<1> SUFFICES ASSUME IInv, WriteHeader PROVE IInv'
  OBVIOUS
<1>1. /\ UNCHANGED <<entries, backup, m_pentry, m_hdisk, m_guid, m_prop, base, ops>>
      /\ pc = "cached" /\ m_header' = NewHeader
      /\ m_header \in Headers /\ m_pentry \in Entries
  BY DEF WriteHeader, mirror, IInv, TypeOK, Cached, Headers
<1>2. NewHeader \in Headers /\ NewHeader.gid = m_header.gid /\ NewHeader.crc = m_pentry
  BY <1>1 DEF NewHeader, Headers
<1>3. Consistent /\ ~adopted => Mirrored(m_header.gid, m_pentry)
  BY <1>1 DEF IInv, CacheInv
<1>4. CASE /\ header' = NewHeader /\ whole' = whole \cup {Table(m_guid, m_prop)}
           /\ adopted' = (adopted \/ ~Consistent) /\ pc' = "half"
  <2>1. TypeOK'
    BY <1>1, <1>2, <1>4, ValueAssumption DEF IInv, TypeOK, Cached, Headers
  <2>2. ASSUME ~adopted'
        PROVE  Table(NewHeader.gid, m_pentry) \in whole' /\ Mirrored(m_header.gid, m_pentry)
    BY <1>2, <1>3, <1>4, <2>2 DEF Mirrored
  <2>3. TablesInv'
    BY <1>1, <1>2, <1>4, <2>2 DEF IInv, TablesInv, Consistent
  <2>4. CacheInv'
    BY <1>1, <1>2, <1>4, <2>2 DEF CacheInv, Mirrored
  <2> QED BY <2>1, <2>3, <2>4 DEF IInv
<1>5. CASE pc' = "idle" /\ UNCHANGED <<header, whole, adopted>>
  <2>1. TypeOK'
    BY <1>1, <1>2, <1>5 DEF IInv, TypeOK, Headers
  <2>2. TablesInv'
    BY <1>1, <1>5 DEF IInv, TablesInv, Consistent
  <2>3. CacheInv'
    BY <1>1, <1>5 DEF IInv, TypeOK, CacheInv, Fresh, Cached
  <2> QED BY <2>1, <2>2, <2>3 DEF IInv
<1> QED BY <1>4, <1>5 DEF WriteHeader

\* Entries of which some are new leave the disk with the new table or without a
\* consistent primary.
LEMMA PartialWrite ==
  ASSUME IInv, pc = "half", entries' \in Entries,
         UNCHANGED <<header, backup, whole, adopted>>
  PROVE  TablesInv'
<1>1. /\ header.crc = m_pentry
      /\ ~adopted => Table(header.gid, m_pentry) \in whole
  BY DEF IInv, CacheInv
<1> QED BY <1>1 DEF IInv, TablesInv, Consistent

LEMMA WriteEntriesStep == IInv /\ WriteEntries => IInv'
<1> SUFFICES ASSUME IInv, WriteEntries PROVE IInv'
  OBVIOUS
<1>1. /\ UNCHANGED <<header, backup, m_guid, m_prop, whole, base, adopted, ops>>
      /\ pc = "half" /\ pc' = "idle"
  BY DEF WriteEntries, mirror
<1>2. /\ header = m_header /\ header.crc = m_pentry
      /\ ~adopted => Mirrored(m_header.gid, m_pentry)
  BY <1>1 DEF IInv, CacheInv
<1>3. m_pentry \in Entries
  BY <1>1 DEF IInv, TypeOK, Cached
<1>4. CASE entries' = m_pentry /\ CloseCache
  <2>1. TypeOK'
    BY <1>1, <1>3, <1>4 DEF IInv, TypeOK, CloseCache
  <2>2. TablesInv'
    BY <1>1, <1>3, <1>4, PartialWrite
  <2>3. Effective' = Table(header.gid, m_pentry)
    BY <1>1, <1>2, <1>4 DEF Effective, Consistent
  <2>4. CacheInv'
    BY <1>1, <1>2, <2>3 DEF CacheInv, Mirrored, Table
  <2> QED BY <2>1, <2>2, <2>4 DEF IInv
<1>5. CASE entries' \in Partial /\ UNCHANGED cache
  <2>1. entries' \in Entries
    BY <1>5 DEF Partial
  <2>2. TypeOK'
    BY <1>1, <1>5, <2>1 DEF IInv, TypeOK, cache
  <2>3. TablesInv'
    BY <1>1, <2>1, PartialWrite
  <2>4. CacheInv'
    BY <1>1, <1>5 DEF IInv, TypeOK, CacheInv, Cached, Fresh, cache
  <2> QED BY <2>2, <2>3, <2>4 DEF IInv
<1> QED BY <1>4, <1>5 DEF WriteEntries

LEMMA CrashStep == IInv /\ Crash => IInv'
<1> SUFFICES ASSUME IInv, Crash PROVE IInv'
  OBVIOUS
<1>1. /\ UNCHANGED <<header, backup, m_header, m_pentry, m_hdisk, m_guid, m_prop,
                     whole, base, adopted, ops>>
      /\ pc' = "crashed"
  BY DEF Crash, cache, mirror
<1>2. entries' \in Entries /\ (pc # "half" => entries' = entries)
  BY DEF Crash, Partial, IInv, TypeOK
<1>3. TypeOK'
  BY <1>1, <1>2 DEF IInv, TypeOK
<1>4. TablesInv'
  BY <1>1, <1>2, PartialWrite DEF IInv, TablesInv, Consistent
<1>5. CacheInv'
  BY <1>1 DEF CacheInv
<1> QED BY <1>3, <1>4, <1>5 DEF IInv

LEMMA RestartStep == IInv /\ Restart => IInv'
<1> SUFFICES ASSUME IInv, Restart PROVE IInv'
  OBVIOUS
<1>1. /\ UNCHANGED <<header, entries, backup, whole, base, adopted, ops>>
      /\ pc' = "idle" /\ m_header' = Nothing /\ m_pentry' = Nothing /\ m_hdisk' = FALSE
      /\ m_guid' = Effective.gid /\ m_prop' = Effective.ent
  BY DEF Restart, CloseCache, platter
<1>2. m_guid' \in Guids /\ m_prop' \in Entries
  BY <1>1, EffectiveType DEF IInv, Tables
<1>3. TypeOK'
  BY <1>1, <1>2 DEF IInv, TypeOK
<1>4. TablesInv'
  BY <1>1 DEF IInv, TablesInv, Consistent
<1>5. Effective' = Effective
  BY <1>1 DEF Effective, Consistent
<1>6. CacheInv'
  BY <1>1, <1>5 DEF CacheInv, Mirrored
<1> QED BY <1>3, <1>4, <1>6 DEF IInv

LEMMA InvStep == IInv /\ [Next]_vars => IInv'
<1> SUFFICES ASSUME IInv, [Next]_vars PROVE IInv'
  OBVIOUS
<1>1. CASE UNCHANGED vars
  <2>1. TypeOK'
    BY <1>1 DEF vars, IInv, TypeOK, Cached
  <2>2. TablesInv' /\ CacheInv'
    BY <1>1 DEF vars, IInv, TablesInv, CacheInv, Consistent, Effective, Fresh, Mirrored
  <2> QED BY <2>1, <2>2 DEF IInv
<1> QED BY <1>1, CreatePartitionStep, CacheGptHeaderStep, AlreadyCachedStep, SetDiskIdStep,
           SetPartitionIdStep, SetPartitionTypeStep, WriteHeaderStep, WriteEntriesStep, CrashStep,
           RestartStep
        DEF Next

LEMMA Invariant == Spec => []IInv
<1> QED BY InvInit, InvStep, PTL DEF Spec

-----------------------------------------------------------------------------
(* The properties. *)

\* Type correctness of the disk, the cache and what the objects remember.
THEOREM TypeCorrect == Spec => []TypeOK
<1> QED BY Invariant, PTL DEF IInv

\* Whenever the machine stops, also between the write of the header and that of
\* the entries or in the middle of the latter, and after any number of restarts,
\* the next start finds a table that was asked for as a whole, unless a primary
\* that was not in effect has been cached and written back.
THEOREM EffectiveAlwaysWhole == Spec => []EffectiveIsWhole
<1>1. IInv => EffectiveIsWhole
  BY DEF IInv, TablesInv, EffectiveIsWhole, Effective
<1> QED BY <1>1, Invariant, PTL

\* A step of UpdateGptHeader that closes the cache is the write of the entries.
LEMMA ClosingStep ==
  ASSUME IInv, Next, pc = "half", pc' = "idle", m_header' = Nothing
  PROVE  /\ header' = m_header /\ header'.crc = entries' /\ entries' = m_pentry
         /\ ~adopted => Mirrored(m_header.gid, m_pentry)
         /\ UNCHANGED mirror
<1>1. WriteEntries
  BY DEF Next, CreatePartition, CacheGptHeader, AlreadyCached, SetDiskId, SetPartitionId,
         SetPartitionType, WriteHeader, Crash, Restart
<1>2. m_header # Nothing
  BY DEF IInv, TypeOK, Cached
<1>3. entries' = m_pentry
  BY <1>1, <1>2 DEF WriteEntries, cache
<1> QED BY <1>1, <1>3 DEF WriteEntries, IInv, CacheInv

\* When UpdateGptHeader returns, the table in effect is the one it was given.
THEOREM UpdateIsEffective == Spec => UpdateTakesEffect
<1> DEFINE A == (pc = "half" /\ pc' = "idle" /\ m_header' = Nothing)
                   => Effective' = Table(m_header.gid, m_pentry)
<1>1. IInv /\ [Next]_vars => [A]_vars
  <2> SUFFICES ASSUME IInv, Next, pc = "half", pc' = "idle", m_header' = Nothing
               PROVE  Effective' = Table(m_header.gid, m_pentry)
    BY DEF vars
  <2> QED BY ClosingStep DEF Effective, Consistent, Table
<1> QED BY <1>1, Invariant, PTL DEF Spec, UpdateTakesEffect

\* The cache that is written back was read from the table it replaces: an error
\* that leaves the cache behind also keeps it from being written.
THEOREM WriteBackIsFresh == Spec => NoStaleWriteBack
<1> DEFINE A == (pc = "cached" /\ pc' = "half") => base = Effective
<1>1. IInv /\ [Next]_vars => [A]_vars
  BY DEF IInv, CacheInv, vars
<1> QED BY <1>1, Invariant, PTL DEF Spec, NoStaleWriteBack

\* When UpdateGptHeader returns, the objects remember what is on the disk, under
\* the same condition.
THEOREM ObjectsAgree == Spec => ObjectsMatchDisk
<1> DEFINE A == (pc = "half" /\ pc' = "idle" /\ m_header' = Nothing /\ ~adopted)
                   => m_guid' = Effective'.gid /\ m_prop' = Effective'.ent
<1>1. IInv /\ [Next]_vars => [A]_vars
  <2> SUFFICES ASSUME IInv, Next, pc = "half", pc' = "idle", m_header' = Nothing,
                      ~adopted
               PROVE  m_guid' = Effective'.gid /\ m_prop' = Effective'.ent
    BY DEF vars
  <2> QED BY ClosingStep DEF Effective, Consistent, Table, Mirrored, mirror
<1> QED BY <1>1, Invariant, PTL DEF Spec, ObjectsMatchDisk

=============================================================================
