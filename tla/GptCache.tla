------------------------------ MODULE GptCache ------------------------------
(***************************************************************************)
(* The GPT editing of CDiskInfo.  CacheGptHeader reads the primary header  *)
(* and the partition entries of a disk into memory, SetDiskId,             *)
(* SetPartitionId and SetPartitionType change the copy (and what the       *)
(* objects remember of it), UpdateGptHeader recomputes the CRCs and writes *)
(* first the header, then the entries.  The backup GPT at the end of the   *)
(* disk is written by Windows only.  After a crash the disk may hold a     *)
(* header and entries of two versions; the machine starts again, a new     *)
(* object takes what it remembers from Windows, which reads the table in   *)
(* effect, and its cache from the primary, whose CRCs nobody looks at.     *)
(*                                                                         *)
(* Its callers: CopyDisk at COPY_GUID, MakeBootPartitionForMBRSource and   *)
(* the Set-PartitionType cmdlet.  Windows itself rewrites both GPTs when a *)
(* partition is created.  A table is the disk GUID and, for each slot, the *)
(* type and the GUID of its entry; a CRC is the set of entries it was      *)
(* computed from.                                                          *)
(***************************************************************************)
EXTENDS Integers, FiniteSets

CONSTANTS Slots,     \* entries of the table, 1 .. entry_num
          Guids,     \* disk and partition GUIDs
          Types,     \* partition types
          Zero,      \* the GUID and the type of an entry that is not in use
          Nothing,   \* a null pointer
          Faults,    \* whether reads, writes and the open may fail
          MaxOps     \* operations by callers and Windows

ASSUME CacheAssumption ==
  /\ Slots # {} /\ Guids # {} /\ Types # {}
  /\ Faults \in BOOLEAN /\ MaxOps \in Nat

Entry == [type : Types \cup {Zero}, id : Guids \cup {Zero}]
InUse == [type : Types, id : Guids]
Unused == [type |-> Zero, id |-> Zero]
Entries == [Slots -> Entry]

\* The zero GUID is no type a partition can be given, and a null pointer cannot
\* be taken for a header or for entries.
ASSUME ValueAssumption ==
  /\ Zero \notin Types
  /\ Nothing \notin Entries \cup [gid : Guids, crc : Entries]

VARIABLES
  header,    \* LBA 1: the disk GUID and the CRC of the entries
  entries,   \* the primary entries
  backup,    \* the backup table
  m_header,  \* the copies in memory, or Nothing
  m_pentry,
  m_hdisk,   \* whether the disk handle is open
  m_guid,    \* what the disk object remembers as its GUID
  m_prop,    \* what the partition objects remember of type and GUID
  pc,        \* "idle", "cached", "half" (header written) or "crashed"
  whole,     \* every table Windows wrote or the callers of the cache asked for
  base,      \* the table that was in effect when the cache was filled
  adopted,   \* whether a primary was written back that was not in effect
  ops        \* operations so far

cache == <<m_header, m_pentry, m_hdisk>>
mirror == <<m_guid, m_prop>>
platter == <<header, entries, backup>>
vars == <<header, entries, backup, m_header, m_pentry, m_hdisk, m_guid, m_prop,
          pc, whole, base, adopted, ops>>

-----------------------------------------------------------------------------

Table(g, e) == [gid |-> g, ent |-> e]

\* What firmware and Windows read: the primary GPT if its CRC matches, else the
\* backup.
Consistent == header.crc = entries
Effective == IF Consistent THEN Table(header.gid, entries) ELSE backup

NoEntries == [s \in Slots |-> Unused]

\* An initialised disk without partitions.
Init ==
  /\ \E g \in Guids :
       /\ header = [gid |-> g, crc |-> NoEntries]
       /\ backup = Table(g, NoEntries)
       /\ m_guid = g
       /\ whole = {Table(g, NoEntries)}
       /\ base = Table(g, NoEntries)
  /\ entries = NoEntries
  /\ m_header = Nothing /\ m_pentry = Nothing /\ m_hdisk = FALSE
  /\ m_prop = NoEntries
  /\ pc = "idle" /\ adopted = FALSE /\ ops = 0

\* CDiskInfo::CreatePartition: Windows takes a free slot and writes both GPTs.
CreatePartition ==
  /\ pc = "idle" /\ ops < MaxOps
  /\ \E s \in Slots, e \in InUse :
       LET t == Table(Effective.gid, [Effective.ent EXCEPT ![s] = e]) IN
       /\ Effective.ent[s] = Unused
       /\ header' = [gid |-> t.gid, crc |-> t.ent]
       /\ entries' = t.ent
       /\ backup' = t
       /\ m_prop' = [m_prop EXCEPT ![s] = e]
       /\ whole' = whole \cup {t}
  /\ ops' = ops + 1
  /\ UNCHANGED <<cache, m_guid, pc, base, adopted>>

-----------------------------------------------------------------------------
(* The operations on the cache. *)

Cached == m_header # Nothing /\ m_hdisk /\ m_pentry # Nothing

Fresh == m_header = Nothing /\ ~m_hdisk /\ m_pentry = Nothing

\* CacheGptHeader takes the primary as it is, its CRC matching or not.  A read that fails leaves what was allocated before it; if it
\* was the read of the entries, the array is there and holds anything.
CacheGptHeader ==
  /\ pc = "idle" /\ ops < MaxOps
  /\ Fresh
  /\ \/ /\ m_hdisk' = TRUE
        /\ m_header' = header
        /\ m_pentry' = entries
        /\ base' = Effective
        /\ pc' = "cached"
     \/ /\ Faults /\ m_hdisk' = TRUE /\ m_header' = header
        /\ m_pentry' \in Entries \cup {Nothing}
        /\ UNCHANGED <<base, pc>>
     \/ /\ Faults /\ UNCHANGED <<cache, base, pc>>   \* the disk does not open
  /\ ops' = ops + 1
  /\ UNCHANGED <<platter, mirror, whole, adopted>>

\* If anything is cached already, CacheGptHeader throws.
Reuse_IfCached == "cached"
IfCached == "idle"

AlreadyCached ==
  /\ pc = "idle" /\ ops < MaxOps
  /\ ~Fresh
  /\ pc' = IfCached
  /\ ops' = ops + 1
  /\ UNCHANGED <<platter, cache, mirror, whole, base, adopted>>

SetDiskId(g) ==
  /\ pc = "cached" /\ Cached
  /\ m_header' = [m_header EXCEPT !.gid = g]
  /\ m_guid' = g
  /\ UNCHANGED <<platter, m_pentry, m_hdisk, m_prop, pc, whole, base, adopted, ops>>

\* Entry index - 1 of the array is slot index of the table.
Shifted_SlotOf(index) == IF index + 1 \in Slots THEN index + 1 ELSE index
SlotOf(index) == index

SetPartitionId(g, index) ==
  /\ pc = "cached" /\ Cached
  /\ m_prop[index] # Unused
  /\ m_pentry' = [m_pentry EXCEPT ![SlotOf(index)].id = g]
  /\ m_prop' = [m_prop EXCEPT ![index].id = g]
  /\ UNCHANGED <<platter, m_header, m_hdisk, m_guid, pc, whole, base, adopted, ops>>

SetPartitionType(t, index) ==
  /\ pc = "cached" /\ Cached
  /\ m_prop[index] # Unused
  /\ m_pentry' = [m_pentry EXCEPT ![SlotOf(index)].type = t]
  /\ m_prop' = [m_prop EXCEPT ![index].type = t]
  /\ UNCHANGED <<platter, m_header, m_hdisk, m_guid, pc, whole, base, adopted, ops>>

\* UpdateGptHeader, first half: the CRCs, and the header to disk.
Old_NewHeader == m_header
NewHeader == [m_header EXCEPT !.crc = m_pentry]

WriteHeader ==
  /\ pc = "cached" /\ Cached
  /\ m_header' = NewHeader
  /\ \/ /\ header' = NewHeader
        /\ whole' = whole \cup {Table(m_guid, m_prop)}
        /\ adopted' = (adopted \/ ~Consistent)
        /\ pc' = "half"
     \/ /\ Faults                                  \* the write fails: throw
        /\ pc' = "idle"
        /\ UNCHANGED <<header, whole, adopted>>
  /\ UNCHANGED <<entries, backup, m_pentry, m_hdisk, mirror, base, ops>>

CloseCache ==
  /\ m_header' = Nothing /\ m_pentry' = Nothing /\ m_hdisk' = FALSE

\* What a write of the entries that does not end may leave: any of them new.
Partial == {e \in Entries : \A s \in Slots : e[s] \in {entries[s], m_pentry[s]}}

\* Second half: the entries, and the end of the cache.
WriteEntries ==
  /\ pc = "half"
  /\ \/ entries' = m_pentry /\ CloseCache
     \/ Faults /\ entries' \in Partial /\ UNCHANGED cache
  /\ pc' = "idle"
  /\ UNCHANGED <<header, backup, mirror, whole, base, adopted, ops>>

\* The program dies or the power fails; between the two writes the disk may
\* have part of the entries.
Crash ==
  /\ Faults /\ pc # "crashed"
  /\ entries' \in (IF pc = "half" THEN Partial ELSE {entries})
  /\ pc' = "crashed"
  /\ UNCHANGED <<header, backup, cache, mirror, whole, base, adopted, ops>>

\* The machine starts again: a new CDiskInfo with an empty cache, which learns
\* from Windows what is in effect.
Restart ==
  /\ pc \in {"idle", "crashed"}
  /\ pc' = "idle"
  /\ CloseCache
  /\ m_guid' = Effective.gid /\ m_prop' = Effective.ent
  /\ UNCHANGED <<platter, whole, base, adopted, ops>>

Next ==
  \/ CreatePartition
  \/ CacheGptHeader \/ AlreadyCached
  \/ \E g \in Guids : SetDiskId(g)
  \/ \E g \in Guids, s \in Slots : SetPartitionId(g, s)
  \/ \E t \in Types, s \in Slots : SetPartitionType(t, s)
  \/ WriteHeader \/ WriteEntries
  \/ Crash \/ Restart

Spec == Init /\ [][Next]_vars

-----------------------------------------------------------------------------

TypeOK ==
  /\ header \in [gid : Guids, crc : Entries]
  /\ entries \in Entries
  /\ backup \in [gid : Guids, ent : Entries]
  /\ m_header \in [gid : Guids, crc : Entries] \cup {Nothing}
  /\ m_pentry \in Entries \cup {Nothing}
  /\ m_hdisk \in BOOLEAN
  /\ m_guid \in Guids /\ m_prop \in Entries
  /\ pc \in {"idle", "cached", "half", "crashed"}
  /\ pc \in {"cached", "half"} => Cached
  /\ adopted \in BOOLEAN /\ ops \in 0 .. MaxOps

\* Whenever the machine stops, what it finds at the next start is a table that
\* was asked for as a whole, the one before an update or the one after it: never
\* a header with the entries of another version.  So it is, over any number of restarts, until
\* a primary that a crash or a failed write left inconsistent is cached and
\* written back: the new CRCs then make it valid.
EffectiveIsWhole == ~adopted => Effective \in whole

\* When UpdateGptHeader returns, the table in effect is the one it was given.
UpdateTakesEffect ==
  [][(pc = "half" /\ pc' = "idle" /\ m_header' = Nothing)
       => Effective' = Table(m_header.gid, m_pentry)]_vars

\* The cache written back was read when the table it replaces was in effect: a
\* cache that an error left behind is never written over a table that has
\* changed since.
NoStaleWriteBack == [][(pc = "cached" /\ pc' = "half") => base = Effective]_vars

\* When UpdateGptHeader returns, the objects remember what is on the disk: every
\* change was made to the entry of the partition it was meant for, and nothing
\* that failed before, nor a restart, has set them apart, unless the update is,
\* or comes after, the write back of an inconsistent primary.
ObjectsMatchDisk ==
  [][(pc = "half" /\ pc' = "idle" /\ m_header' = Nothing /\ ~adopted)
       => m_guid' = Effective'.gid /\ m_prop' = Effective'.ent]_vars

=============================================================================
