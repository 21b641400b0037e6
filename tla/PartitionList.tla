--------------------------- MODULE PartitionList ---------------------------
(***************************************************************************)
(* The partition objects of a disk object (CDiskInfo::m_partitions).  An   *)
(* object keeps the number its partition had when it was made; the list    *)
(* holds a pointer, with a reference, in the slot of that number.  The     *)
(* caller has references of its own.  A disk object begins without a list; *)
(* ListDisk fills it the way RefreshPartitionList does.                    *)
(***************************************************************************)
EXTENDS Integers, FiniteSets, Functions, TLC

CONSTANTS MaxNumber,   \* bound: partitions of the disk
          MaxObjects   \* bound: partition objects ever made

Numbers == 1 .. MaxNumber

VARIABLES disk,      \* the partitions of the disk, by number
          slot,      \* the list: the object in each slot, 0 for NULL
          number,    \* of each object made: m_prop.m_index
          refs,      \* its references; an object without one is freed
          held,      \* the objects of which the caller has a reference
          removing,  \* the object whose partition is being deleted, or 0
          dead       \* a freed object was used, or a slot beyond the list

vars == <<disk, slot, number, refs, held, removing, dead>>

Fresh(k) == Cardinality(DOMAIN number) + k
NewNumber == CHOOSE k \in Numbers : k \notin disk /\ 1 .. k - 1 \subseteq disk

\* The slots after an object was put in slot k, the vector growing as needed.
Grown(s, k) == [i \in DOMAIN s \cup 0 .. k |-> IF i \in DOMAIN s THEN s[i] ELSE 0]
Put(s, k, o) == [Grown(s, k) EXCEPT ![k] = o]

InList == {slot[i] : i \in DOMAIN slot} \ {0}

\* The list made anew: the j-th partition gets the j-th new object.
Order(P, k) == Cardinality({j \in P : j <= k})
NewObjects(P) == {Fresh(Order(P, k)) : k \in P}
ListOf(P) == [i \in 0 .. (IF P = {} THEN -1 ELSE CHOOSE m \in P : \A k \in P : k <= m) |->
                IF i \in P THEN Fresh(Order(P, i)) ELSE 0]
NumberIn(P, o) == CHOOSE k \in P : Fresh(Order(P, k)) = o

Init ==
  /\ disk \in SUBSET Numbers
  /\ number = <<>>
  /\ slot = [i \in 0 .. -1 |-> 0] /\ refs = <<>>
  /\ held = {} /\ removing = 0 /\ dead = FALSE

Live == ~dead /\ removing = 0

\* ClearObj releases what the list holds; the partitions of the disk are then
\* added one by one, unless the query throws.
RefreshPartitionList ==
  /\ Live
  /\ IF \E o \in InList : refs[o] = 0
     THEN dead' = TRUE /\ UNCHANGED <<slot, number, refs>>
     ELSE \E P \in {disk, {}} :
            /\ Fresh(Cardinality(P)) <= MaxObjects
            /\ slot' = ListOf(P)
            /\ number' = [o \in NewObjects(P) |-> NumberIn(P, o)] @@ number
            /\ refs' = [o \in NewObjects(P) |-> 1] @@
                         [o \in DOMAIN refs |-> IF o \in InList THEN refs[o] - 1 ELSE refs[o]]
            /\ UNCHANGED dead
  /\ UNCHANGED <<disk, held, removing>>

\* CreatePartition adds an object and hands it out.  A slot that is taken,
\* which an assertion denies, is overwritten.
CreatePartition ==
  /\ Live /\ disk # Numbers /\ Fresh(1) <= MaxObjects
  /\ disk' = disk \cup {NewNumber}
  /\ slot' = Put(slot, NewNumber, Fresh(1))
  /\ number' = (Fresh(1) :> NewNumber) @@ number
  /\ refs' = (Fresh(1) :> 2) @@ refs
  /\ held' = held \cup {Fresh(1)}
  /\ UNCHANGED <<removing, dead>>

GetPartition ==
  \E i \in DOMAIN slot :
    /\ Live /\ slot[i] \notin held \cup {0}
    /\ IF refs[slot[i]] = 0
       THEN dead' = TRUE /\ UNCHANGED <<refs, held>>
       ELSE /\ refs' = [refs EXCEPT ![slot[i]] = @ + 1]
            /\ held' = held \cup {slot[i]}
            /\ UNCHANGED dead
    /\ UNCHANGED <<disk, slot, number, removing>>

Release ==
  \E o \in held :
    /\ Live
    /\ refs' = [refs EXCEPT ![o] = @ - 1]
    /\ held' = held \ {o}
    /\ UNCHANGED <<disk, slot, number, removing, dead>>

\* DeleteObject of a held object, which throws when Windows refuses it.
DeletePartition ==
  \E o \in held :
    /\ Live /\ number[o] \in disk
    /\ disk' = disk \ {number[o]}
    /\ removing' = o
    /\ UNCHANGED <<slot, number, refs, held, dead>>

\* RemovePartition looks one slot below the one AddPartition used.
SlotToClear(o) == number[o] - 1

RemovePartition ==
  /\ removing # 0 /\ ~dead
  /\ removing' = 0
  /\ IF SlotToClear(removing) \notin DOMAIN slot
     THEN dead' = TRUE /\ UNCHANGED <<slot, refs>>
     ELSE /\ refs' = [refs EXCEPT ![removing] = @ - 1]
          /\ slot' = [slot EXCEPT ![SlotToClear(removing)] = 0]
          /\ UNCHANGED dead
  /\ UNCHANGED <<disk, number, held>>

Next == RefreshPartitionList \/ CreatePartition \/ GetPartition \/ Release
        \/ DeletePartition \/ RemovePartition

Spec == Init /\ [][Next]_vars

-----------------------------------------------------------------------------

\* "JCASSERT(m_partitions.at(index) == part)": the slot that RemovePartition
\* clears is the one of the partition that was deleted.
RemovesItself ==
  removing # 0 => SlotToClear(removing) \in DOMAIN slot /\ slot[SlotToClear(removing)] = removing

=============================================================================
