--------------------------- MODULE DiskCopyProofs ---------------------------
(***************************************************************************)
(* What TLAPS proves about DiskCopy, for any source disk, any destination  *)
(* and any failure on the way.                                             *)
(*                                                                         *)
(* The argument has four parts.  Numbers: a finite set of them has an      *)
(* ascending list, one of them is the first that is free, a bounded set    *)
(* has a largest one.  Layout: whatever PartitionAssign answers, an item   *)
(* it left without a size has no place either (Blank).  Plan: what follows *)
(* from it for each step of the list (StepOk).  Copy: what the partitions  *)
(* of the destination are while the steps are carried out (TableInv), and  *)
(* that no shrinking of the source is ever accepted.                       *)
(***************************************************************************)
EXTENDS DiskCopy, FiniteSetTheorems, NaturalsInduction, WellFoundedInduction, TLAPS

-----------------------------------------------------------------------------
(* Numbers.                                                                  *)

\* A set of numbers that is not empty has a least one ...
LEMMA Least ==
  ASSUME NEW S \in SUBSET Nat, S # {}
  PROVE  \E x \in S : \A y \in S : x <= y
<1>1. PICK x \in S : \A y \in S : ~(<<y, x>> \in OpToRel(<, Nat))
  BY WFMin, NatLessThanWellFounded
<1>2. \A y \in S : ~(y < x)
  BY <1>1 DEF OpToRel
<1> QED
  BY <1>2

\* ... and a bounded one a greatest.
LEMMA Greatest ==
  ASSUME NEW b \in Int, NEW S \in SUBSET (1 .. b), S # {}
  PROVE  \E x \in S : \A y \in S : y <= x
<1> DEFINE T == {t \in Nat : \E x \in S : t = b - x}
<1>1. T \in SUBSET Nat /\ T # {}
  <2>1. PICK x \in S : TRUE
    OBVIOUS
  <2>2. b - x \in T
    BY <2>1
  <2> QED
    BY <2>2
<1>2. PICK t \in T : \A u \in T : t <= u
  <2> HIDE DEF T
  <2> QED
    BY <1>1, Least
<1>3. PICK x \in S : t = b - x
  BY <1>2
<1>4. ASSUME NEW y \in S
      PROVE  y <= x
  <2>1. b - y \in T
    OBVIOUS
  <2>2. t <= b - y
    BY <1>2, <2>1
  <2> QED
    BY <1>3, <2>2
<1> QED
  BY <1>4

\* What holds of 0, and of k + 1 with k, holds of all numbers.
LEMMA AllNumbers ==
  ASSUME NEW S, 0 \in S, \A k \in Nat : k \in S => k + 1 \in S
  PROVE  \A k \in Nat : k \in S
<1> SUFFICES ASSUME NEW m \in Nat, m \notin S
             PROVE  FALSE
  OBVIOUS
<1>1. PICK q \in {k \in Nat : k \notin S} : \A r \in {k \in Nat : k \notin S} : q <= r
  BY Least
<1>2. q # 0 /\ q - 1 \in Nat
  BY <1>1
<1>3. q - 1 \in S
  BY <1>1, <1>2
<1>4. (q - 1) + 1 \in S /\ (q - 1) + 1 = q
  BY <1>2, <1>3
<1> QED
  BY <1>1, <1>4

IsList(f, S) ==
  /\ f \in [1 .. Cardinality(S) -> S]
  /\ \A i, j \in DOMAIN f : i < j => f[i] < f[j]

\* A finite set of numbers has an ascending list.
LEMMA ListExists ==
  ASSUME NEW S \in SUBSET Nat, IsFiniteSet(S)
  PROVE  \E f : IsList(f, S)
<1> DEFINE P == {m \in Nat : \A R \in SUBSET Nat : IsFiniteSet(R) /\ Cardinality(R) = m => \E f : IsList(f, R)}
<1>1. 0 \in P
  <2> SUFFICES ASSUME NEW R \in SUBSET Nat, IsFiniteSet(R), Cardinality(R) = 0
               PROVE  \E f : IsList(f, R)
    OBVIOUS
  <2>1. IsList([k \in 1 .. 0 |-> 0], R)
    BY DEF IsList
  <2> QED
    BY <2>1
<1>2. ASSUME NEW k \in Nat, k \in P
      PROVE  k + 1 \in P
  <2> SUFFICES ASSUME NEW R \in SUBSET Nat, IsFiniteSet(R), Cardinality(R) = k + 1
               PROVE  \E f : IsList(f, R)
    OBVIOUS
  <2>1. R # {}
    BY FS_EmptySet
  <2>2. PICK x \in R : \A y \in R : x <= y
    BY <2>1, Least
  <2>3. IsFiniteSet(R \ {x}) /\ Cardinality(R \ {x}) = k
    <3>1. IsFiniteSet(R \ {x}) /\ Cardinality(R \ {x}) = Cardinality(R) - 1
      BY FS_RemoveElement
    <3> QED
      BY <3>1
  <2>4. PICK g : IsList(g, R \ {x})
    <3>1. R \ {x} \in SUBSET Nat
      OBVIOUS
    <3> QED
      BY <1>2, <2>3, <3>1
  <2>5. g \in [1 .. k -> R \ {x}] /\ \A i, j \in 1 .. k : i < j => g[i] < g[j]
    BY <2>3, <2>4 DEF IsList
  <2> DEFINE f == [i \in 1 .. k + 1 |-> IF i = 1 THEN x ELSE g[i - 1]]
  <2>6. f \in [1 .. k + 1 -> R]
    BY <2>5
  <2>7. ASSUME NEW i \in 1 .. k + 1, NEW j \in 1 .. k + 1, i < j
        PROVE  f[i] < f[j]
    <3>1. j - 1 \in 1 .. k /\ f[j] = g[j - 1] /\ g[j - 1] \in R \ {x}
      BY <2>5, <2>7
    <3>2. CASE i = 1
      <4>1. x <= g[j - 1] /\ x # g[j - 1] /\ x \in Nat /\ g[j - 1] \in Nat /\ f[i] = x
        BY <2>2, <3>1, <3>2
      <4> HIDE DEF f
      <4> QED
        BY <3>1, <4>1
    <3>3. CASE i # 1
      <4>1. i - 1 \in 1 .. k /\ f[i] = g[i - 1] /\ i - 1 < j - 1
        BY <2>7, <3>3
      <4> QED
        BY <2>5, <3>1, <4>1
    <3> QED
      BY <3>2, <3>3
  <2>8. IsList(f, R)
    <3> HIDE DEF f
    <3> QED
      BY <2>6, <2>7 DEF IsList
  <2> QED
    BY <2>8
<1>3. Cardinality(S) \in Nat
  BY FS_CardinalityType
<1> HIDE DEF P
<1>4. Cardinality(S) \in P
  BY <1>1, <1>2, <1>3, AllNumbers
<1> QED
  BY <1>4 DEF P

\* Ascending is such a list.
LEMMA AscendingIs ==
  ASSUME NEW S \in SUBSET Nat, IsFiniteSet(S)
  PROVE  Ascending(S) \in [1 .. Cardinality(S) -> S] /\ Cardinality(S) \in Nat
<1>1. PICK f : IsList(f, S)
  BY ListExists
<1> QED
  BY <1>1, FS_CardinalityType DEF Ascending, IsList

\* NewNumber is a number that is not taken, at most one above their count.
LEMMA NewNumberIs ==
  ASSUME NEW t, IsFiniteSet(DOMAIN t)
  PROVE  /\ NewNumber(t) \in 1 .. Cardinality(DOMAIN t) + 1
         /\ NewNumber(t) \notin DOMAIN t
<1> DEFINE c == Cardinality(DOMAIN t)
           F == {k \in 1 .. c + 1 : k \notin DOMAIN t}
<1>1. c \in Nat
  BY FS_CardinalityType
<1>2. F # {}
  <2> SUFFICES ASSUME 1 .. c + 1 \in SUBSET DOMAIN t
               PROVE  FALSE
    OBVIOUS
  <2>1. Cardinality(1 .. c + 1) <= c
    BY FS_Subset
  <2>2. Cardinality(1 .. c + 1) = c + 1
    <3> HIDE DEF c
    <3>1. 1 \in Int /\ c + 1 \in Int /\ ~(1 > c + 1) /\ (c + 1) - 1 + 1 = c + 1
      BY <1>1
    <3> QED
      BY <3>1, FS_Interval
  <2> QED
    BY <1>1, <2>1, <2>2
<1>3. F \in SUBSET Nat
  BY <1>1
<1>4. PICK x \in F : \A y \in F : x <= y
  <2> HIDE DEF F
  <2> QED
    BY <1>2, <1>3, Least
<1>5. x \in 1 .. c + 1 /\ x \notin DOMAIN t /\ \A j \in 1 .. x - 1 : j \in DOMAIN t
  BY <1>1, <1>4
<1> QED
  BY <1>5 DEF NewNumber

-----------------------------------------------------------------------------
(* The invariant.                                                            *)

\* The layout is one of the items, which are settled by PartitionAssign.
LayoutTypes ==
  /\ n = Len(Items)
  /\ item = [k \in 0 .. n - 1 |-> [src |-> Items[k + 1].src, min |-> Items[k + 1].min,
                                   fixed |-> Items[k + 1].fixed]]
  /\ set \in [0 .. n -> BOOLEAN] /\ offset \in [0 .. n -> Nat] /\ size \in [0 .. n - 1 -> Nat]
  /\ src_flexible \in Nat /\ dst_flexible \in Nat /\ remain_to_set \in Nat
  /\ ii \in 0 .. n

\* An item that shrinks and has no size yet is one the first sweep has not
\* visited, and nothing is known of where it begins but by the item before it.
Shrinks(k) == ~item[k].fixed /\ item[k].min # 0

Blank ==
  /\ result = "start" => ii = 0 /\ \A k \in 0 .. n : offset[k] = 0
  /\ \A k \in 0 .. n - 1 : Shrinks(k) /\ size[k] = 0 =>
       /\ ~set[k] /\ ii <= k
       /\ offset[k] # 0 => k = ii /\ result \in {"running", "throw"}

LayoutInv ==
  /\ n # 0 => LayoutTypes /\ Blank
  /\ pc = "scan" => n = 0 /\ result = "start" /\ ii = 0
                    /\ src_flexible = 0 /\ dst_flexible = 0 /\ remain_to_set = 0
  /\ pc \in {"assign", "list"} => n # 0
  /\ pc = "list" => result \notin {"running", "throw"}

\* What a step tells of its partition.
StepType == [op : {"clear", "boot", "copy", "make_boot", "guid"}, part : Nat,
             how : {"no_change", "shrink", "expand"}, src : Nat, dst : Nat, at : Nat,
             system : BOOLEAN]

StepOk(st) ==
  /\ st \in StepType
  /\ (st.op = "copy" /\ st.part \in Slots) =>
       /\ st.src = source.part[st.part].size
       /\ st.how = "shrink" => st.dst < st.src /\ (st.dst = 0 => st.at = 0)
       /\ st.how = "expand" => st.dst # 0

PlanInv ==
  /\ strategy \in Seq(StepType)
  /\ \A i \in 1 .. Len(strategy) : /\ StepOk(strategy[i])
                                   /\ strategy[i].op \in {"make_boot", "guid"} <=> i = Len(strategy)
  /\ pos \in 1 .. Len(strategy) + 1
  /\ DOMAIN dst_guid = 0 .. Len(strategy) - 1
  /\ \A j \in DOMAIN dst_guid : dst_guid[j] \in Slots \cup {0}
  /\ pc \in {"scan", "assign", "list"} => strategy = <<>>
  /\ pc \in {"scan", "assign", "list", "online"} => pos = 1
  /\ pc = "online" => strategy # <<>>

\* The partitions of the destination; none is empty.
TableInv ==
  /\ IsFiniteSet(DOMAIN table) /\ DOMAIN table \subseteq Nat \ {0}
  /\ \A k \in DOMAIN table :
       /\ table[k] \in [offset : Nat, size : Nat \ {0}, id : Slots \cup {0, -1}, efi : BOOLEAN]
       /\ End(table[k]) <= U64

\* Each step makes one partition at most, so on a disk that was cleared they are
\* fewer than the steps, until the last one changes their GUIDs.
Counted ==
  /\ (pc \in {"scan", "assign", "list", "online", "step"} /\ (strategy = <<>> \/ pos <= Len(strategy)))
       => Leftover \/ Cardinality(DOMAIN table) <= pos - 1
  /\ pc \in {"copy", "resize"} => Leftover \/ (Cardinality(DOMAIN table) <= pos /\ index <= pos)

\* A partition is being copied.  One made for a partition to be shrunk is smaller
\* than that; and the size it has in MB, taken for bytes, is none the source can
\* be given.
CopyPoint ==
  /\ pc \in {"copy", "resize"} =>
       /\ pos <= Len(strategy) /\ This.op = "copy" /\ This.part \in Slots
       /\ index \in DOMAIN table
  /\ pc = "copy" /\ This.how = "shrink" => table[index].size < This.src

SourceInv == now = [s \in Slots |-> source.part[s].size * MB]

Given ==
  /\ source \in Sources /\ old \in OldTables /\ limit \in DstSizes
  /\ pc \in {"scan", "assign", "list", "online", "step", "copy", "resize", "ended"}
  /\ outcome \in {"running", "refused", "ok", "error", "dead"} /\ raw \in BOOLEAN

IInv == Given /\ LayoutInv /\ PlanInv /\ TableInv /\ Counted /\ CopyPoint /\ SourceInv

-----------------------------------------------------------------------------
(* The items.                                                                *)

ItemType == [src : Nat, min : Nat, fixed : BOOLEAN, index : Nat, system : BOOLEAN]

\* The item of a partition has its size and its minimum.
ItemIs(p) == p \in ItemType /\ (p.index \in Slots => p.src = source.part[p.index].size
                                                      /\ p.min = source.part[p.index].min)

LEMMA SlotFacts ==
  ASSUME source \in Sources
  PROVE  /\ IsFiniteSet(Slots) /\ Slots \in SUBSET Nat /\ 0 \notin Slots
         /\ \A s \in Slots : /\ source.part[s].size \in Nat \ {0}
                             /\ source.part[s].min \in Nat \ {0}
                             /\ source.part[s].size < source.part[s].min * MB
BY CopyAssumption DEF Slots

LEMMA ItemOfIs ==
  ASSUME source \in Sources, NEW s \in Slots
  PROVE  ItemIs(ItemOf(s))
<1>1. s \in Nat /\ 0 \notin Slots /\ source.part[s].size \in Nat /\ source.part[s].min \in Nat
  BY SlotFacts
<1>2. CASE source.style = "GPT" /\ source.part[s].kind = "msr"
  <2>1. ItemOf(s) = ZeroItem
    BY <1>2 DEF ItemOf
  <2> QED
    BY <1>1, <2>1 DEF ItemIs, ItemType, ZeroItem
<1>3. CASE ~(source.style = "GPT" /\ source.part[s].kind = "msr")
  <2>1. ItemOf(s) = [src |-> source.part[s].size, min |-> source.part[s].min,
                     fixed |-> source.part[s].kind \notin {"data", "system"},
                     index |-> s, system |-> source.part[s].kind = "system"]
    BY <1>3 DEF ItemOf
  <2> QED
    BY <1>1, <2>1 DEF ItemIs, ItemType
<1> QED
  BY <1>2, <1>3

LEMMA ItemsAre ==
  ASSUME source \in Sources
  PROVE  Items \in Seq(ItemType) /\ \A k \in 1 .. Len(Items) : ItemIs(Items[k])
<1> DEFINE Good == {p \in ItemType : ItemIs(p)}
           front == IF source.style = "MBR" THEN <<BootItem>> ELSE <<>>
           back == [k \in 1 .. Len(PartSeq) |-> ItemOf(PartSeq[k])]
<1>1. front \in Seq(Good)
  <2>1. BootItem \in Good
    BY CopyAssumption, SlotFacts DEF ItemIs, ItemType, BootItem
  <2> HIDE DEF Good
  <2>2. <<BootItem>> \in Seq(Good) /\ <<>> \in Seq(Good)
    BY <2>1
  <2> QED
    BY <2>2
<1>2. Len(PartSeq) \in Nat /\ \A k \in 1 .. Len(PartSeq) : PartSeq[k] \in Slots
  BY SlotFacts, AscendingIs DEF PartSeq
<1>3. back \in Seq(Good)
  <2>1. \A k \in 1 .. Len(PartSeq) : ItemOf(PartSeq[k]) \in Good
    BY <1>2, ItemOfIs DEF ItemIs
  <2> HIDE DEF Good
  <2> QED
    BY <1>2, <2>1
<1>4. Items = front \o back
  BY DEF Items
<1> HIDE DEF front, back, Good
<1>5. Items \in Seq(Good)
  BY <1>1, <1>3, <1>4
<1>6. Len(Items) \in Nat /\ \A k \in 1 .. Len(Items) : Items[k] \in Good
  BY <1>5
<1>7. Items \in Seq(ItemType)
  BY <1>5 DEF Good
<1> QED
  BY <1>6, <1>7 DEF Good

-----------------------------------------------------------------------------
(* The sums of PartitionAssign are integers.                                 *)

Partial(g, f, m) ==
  g \in [0 .. m -> Int] /\ g[0] = 0 /\ \A k \in 0 .. m - 1 : g[k + 1] = g[k] + f[k]

LEMMA PartialExists ==
  ASSUME NEW m \in Nat, NEW f \in [0 .. m - 1 -> Int]
  PROVE  \E g : Partial(g, f, m)
<1> DEFINE S == {k \in Nat : k <= m => \E g : Partial(g, f, k)}
<1>1. 0 \in S
  <2>1. Partial([k \in 0 .. 0 |-> 0], f, 0)
    BY DEF Partial
  <2> QED
    BY <2>1
<1>2. ASSUME NEW k \in Nat, k \in S, k + 1 <= m
      PROVE  \E g : Partial(g, f, k + 1)
  <2>1. PICK g : Partial(g, f, k)
    BY <1>2
  <2>2. f[k] \in Int
    BY <1>2
  <2> DEFINE h == [j \in 0 .. k + 1 |-> IF j = k + 1 THEN g[k] + f[k] ELSE g[j]]
  <2>3. h \in [0 .. k + 1 -> Int] /\ h[0] = 0
    BY <2>1, <2>2 DEF Partial
  <2>4. ASSUME NEW j \in 0 .. k
        PROVE  h[j + 1] = h[j] + f[j]
    BY <2>1, <2>2 DEF Partial
  <2>5. Partial(h, f, k + 1)
    <3> HIDE DEF h
    <3> QED
      BY <2>3, <2>4 DEF Partial
  <2> QED
    BY <2>5
<1>3. \A k \in Nat : k \in S => k + 1 \in S
  BY <1>2
<1> HIDE DEF S
<1>4. m \in S
  BY <1>1, <1>3, AllNumbers
<1> QED
  BY <1>4 DEF S

LEMMA SumInt ==
  ASSUME NEW m \in Nat, NEW f \in [0 .. m - 1 -> Int]
  PROVE  Assign!Sum(f, m) \in Int
<1>1. PICK g : Partial(g, f, m)
  BY PartialExists
<1> DEFINE Body(h) == [k \in 0 .. m |-> IF k = 0 THEN 0 ELSE h[k - 1] + f[k - 1]]
           sum == CHOOSE h : h = Body(h)
<1>2. g = Body(g)
  <2>1. ASSUME NEW k \in 0 .. m
        PROVE  g[k] = IF k = 0 THEN 0 ELSE g[k - 1] + f[k - 1]
    <3>1. CASE k = 0
      BY <1>1, <3>1 DEF Partial
    <3>2. CASE k # 0
      <4>1. k - 1 \in 0 .. m - 1 /\ (k - 1) + 1 = k
        BY <3>2
      <4> QED
        BY <1>1, <3>2, <4>1 DEF Partial
    <3> QED
      BY <3>1, <3>2
  <2> QED
    BY <1>1, <2>1 DEF Partial
<1>3. sum = Body(sum)
  BY <1>2
<1>4. Assign!Sum(f, m) = sum[m]
  BY DEF Assign!Sum
<1> HIDE DEF sum
<1> DEFINE S == {k \in Nat : k <= m => sum[k] \in Int}
<1>5. 0 \in S
  BY <1>3
<1>6. ASSUME NEW k \in Nat, k \in S, k + 1 <= m
      PROVE  sum[k + 1] \in Int
  <2>1. k + 1 \in 0 .. m /\ (k + 1) - 1 = k /\ k + 1 # 0 /\ f[k] \in Int
    BY <1>6
  <2>2. sum[k + 1] = sum[k] + f[k]
    BY <1>3, <2>1
  <2> QED
    BY <1>6, <2>1, <2>2
<1>7. \A k \in Nat : k \in S => k + 1 \in S
  BY <1>6
<1> HIDE DEF S
<1>8. m \in S
  BY <1>5, <1>7, AllNumbers
<1> QED
  BY <1>4, <1>8 DEF S

-----------------------------------------------------------------------------
(* The layout, step by step.                                                 *)

\* Where PartitionAssign is at work.
Working == Given /\ LayoutTypes /\ Blank /\ U64 > 0

LEMMA ItemFacts ==
  ASSUME Given, LayoutTypes
  PROVE  /\ n \in Nat
         /\ \A k \in 0 .. n - 1 : item[k].src \in Nat /\ item[k].min \in Nat /\ item[k].fixed \in BOOLEAN
<1>1. Items \in Seq(ItemType)
  BY ItemsAre DEF Given
<1>2. n \in Nat /\ n = Len(Items)
  BY <1>1 DEF LayoutTypes
<1>3. ASSUME NEW k \in 0 .. n - 1
      PROVE  item[k].src \in Nat /\ item[k].min \in Nat /\ item[k].fixed \in BOOLEAN
  <2>1. k + 1 \in 1 .. Len(Items)
    BY <1>2
  <2>2. Items[k + 1] \in ItemType
    BY <1>1, <2>1
  <2> QED
    BY <2>2 DEF LayoutTypes, ItemType
<1> QED
  BY <1>2, <1>3

LEMMA WrapNat ==
  ASSUME U64 > 0, NEW x \in Int
  PROVE  Assign!Wrap(x) \in Nat
BY CopyAssumption DEF Assign!Wrap

\* The end of a visit that leaves the item with a size.
LEMMA PlaceKeeps ==
  ASSUME Working, result = "running", ii < n, UNCHANGED <<source, old, limit, n, item>>,
         NEW z \in Nat, Shrinks(ii) => z # 0, NEW frozen \in BOOLEAN,
         NEW sf \in Int, NEW df \in Int, NEW c,
         Assign!Place(ii, z, frozen, sf, df, c)
  PROVE  (LayoutTypes /\ Blank)'
<1> DEFINE gap == Assign!Wrap(offset[ii + 1] - offset[ii])
<1>1. /\ n \in Nat /\ ii \in 0 .. n - 1 /\ ii + 1 \in 0 .. n
      /\ offset[ii] \in Nat /\ offset[ii + 1] \in Nat
      /\ item[ii].src \in Nat /\ item[ii].min \in Nat
      /\ remain_to_set \in Nat /\ offset[ii + 1] - offset[ii] \in Int
  <2>1. n \in Nat /\ ii \in 0 .. n - 1 /\ ii \in 0 .. n /\ ii + 1 \in 0 .. n
    BY ItemFacts DEF Working, LayoutTypes
  <2>2. item[ii].src \in Nat /\ item[ii].min \in Nat
    BY <2>1, ItemFacts DEF Working
  <2>3. offset[ii] \in Nat /\ offset[ii + 1] \in Nat /\ remain_to_set \in Nat
    BY <2>1 DEF Working, LayoutTypes
  <2> QED
    BY <2>1, <2>2, <2>3
<1>2. gap \in Nat /\ Assign!Wrap(remain_to_set - 1) \in Nat
  <2>1. remain_to_set - 1 \in Int
    BY <1>1
  <2> QED
    BY <1>1, <2>1, WrapNat DEF Working
<1>3. /\ Assign!Wrap(sf) \in Nat /\ Assign!Wrap(df) \in Nat
      /\ Assign!Wrap(sf - item[ii].src) \in Nat /\ Assign!Wrap(df - gap) \in Nat
  <2> HIDE DEF gap
  <2>1. sf - item[ii].src \in Int /\ df - gap \in Int
    BY <1>1, <1>2
  <2> QED
    BY <2>1, WrapNat DEF Working
<1>4. Assign!Wrap(offset[ii] + z) \in Nat /\ Assign!Wrap(offset[ii + 1] - z) \in Nat
  <2>1. offset[ii] + z \in Int /\ offset[ii + 1] - z \in Int
    BY <1>1
  <2> QED
    BY <2>1, WrapNat DEF Working
<1>5. Shrinks(ii) /\ Assign!Fits(ii, gap) => gap # 0
  <2> HIDE DEF gap
  <2> QED
    BY <1>1, <1>2 DEF Shrinks, Assign!Fits, Assign!MinSize
<1>6. PICK y \in Nat, b \in BOOLEAN :
        /\ size' = [size EXCEPT ![ii] = y] /\ set' = [set EXCEPT ![ii] = b]
        /\ Shrinks(ii) => y # 0
  BY <1>2, <1>5 DEF Assign!Place
<1>7. /\ src_flexible' \in Nat /\ dst_flexible' \in Nat /\ remain_to_set' \in Nat
      /\ ii' \in {ii, ii + 1}
      /\ result' \in {"running", "false"}
      /\ ii' = ii => offset[ii] # 0 /\ offset[ii + 1] # 0 /\ result' = "false"
      /\ result' = "false" => offset' = offset
  BY <1>1, <1>2, <1>3 DEF Assign!Place, Assign!Placed, Assign!sweep, Assign!input
<1>8. \E x \in Nat : offset' \in {offset, [offset EXCEPT ![ii] = x], [offset EXCEPT ![ii + 1] = x]}
  BY <1>1, <1>4 DEF Assign!Place, Assign!sweep, Assign!input
<1>9. Items' = Items
  BY DEF Items, PartSeq, Slots, ItemOf
<1> HIDE DEF gap
<1>10. LayoutTypes'
  BY <1>1, <1>6, <1>7, <1>8, <1>9 DEF Working, LayoutTypes
<1>11. Blank'
  <2>1. result' # "start"
    BY <1>7
  <2>2. ASSUME NEW k \in 0 .. n - 1, (Shrinks(k) /\ size[k] = 0)'
        PROVE  ~set'[k] /\ ii' <= k /\ (offset'[k] # 0 => k = ii' /\ result' \in {"running", "throw"})
    <3>1. Shrinks(k)
      BY <2>2 DEF Shrinks
    <3>2. k # ii
      BY <1>1, <1>6, <2>2, <3>1 DEF Working, LayoutTypes
    <3>3. size[k] = 0 /\ set'[k] = set[k]
      BY <1>1, <1>6, <2>2, <3>2 DEF Working, LayoutTypes
    <3>4. ~set[k] /\ ii <= k /\ offset[k] = 0
      BY <3>1, <3>2, <3>3 DEF Working, Blank
    <3>5. ii + 1 <= k
      BY <1>1, <3>2, <3>4
    <3>6. offset'[k] # 0 => k = ii + 1 /\ offset' # offset
      <4>1. PICK x \in Nat : offset' \in {offset, [offset EXCEPT ![ii] = x], [offset EXCEPT ![ii + 1] = x]}
        BY <1>8
      <4>2. k \in 0 .. n /\ k # ii /\ offset \in [0 .. n -> Nat]
        <5>1. offset \in [0 .. n -> Nat]
          BY DEF Working, LayoutTypes
        <5> QED
          BY <1>1, <3>2, <5>1
      <4>3. k # ii + 1 => offset'[k] = offset[k]
        BY <4>1, <4>2
      <4> QED
        BY <3>4, <4>3
    <3> QED
      BY <1>1, <1>7, <3>3, <3>4, <3>5, <3>6
  <2> QED
    BY <2>1, <2>2 DEF Blank
<1> QED
  BY <1>10, <1>11

LEMMA SkipKeeps ==
  ASSUME Working, result = "running", ii < n, UNCHANGED <<source, old, limit, n, item>>,
         Assign!Skip(ii)
  PROVE  (LayoutTypes /\ Blank)'
<1>1. /\ n \in Nat /\ ii \in 0 .. n - 1 /\ set[ii]
      /\ ii' = ii + 1 /\ ii' \in 0 .. n
      /\ UNCHANGED <<set, offset, size, src_flexible, dst_flexible, remain_to_set, result>>
  BY ItemFacts DEF Working, LayoutTypes, Assign!Skip, Assign!Settled, Assign!input, Assign!layout, Assign!totals
<1>2. Items' = Items
  BY DEF Items, PartSeq, Slots, ItemOf
<1>3. LayoutTypes'
  BY <1>1, <1>2 DEF Working, LayoutTypes
<1>4. ASSUME NEW k \in 0 .. n - 1, Shrinks(k), size[k] = 0
      PROVE  ~set[k] /\ ii + 1 <= k /\ offset[k] = 0
  BY <1>1, <1>4 DEF Working, Blank
<1>5. Blank'
  BY <1>1, <1>4 DEF Working, Blank, Shrinks
<1> QED
  BY <1>3, <1>5

\* The end of a visit that finds no size to give.
LEMMA FailKeeps ==
  ASSUME Working, result = "running", ii < n, UNCHANGED <<source, old, limit, n, item, set, size>>,
         NEW r \in {"false", "throw"}, r = "false" => set[ii], Assign!Fail(r)
  PROVE  (LayoutTypes /\ Blank)'
<1>1. /\ n \in Nat /\ ii \in 0 .. n - 1 /\ result' = r
      /\ UNCHANGED <<ii, offset, src_flexible, dst_flexible, remain_to_set>>
  BY ItemFacts DEF Working, LayoutTypes, Assign!Fail, Assign!sweep, Assign!totals
<1>2. Items' = Items
  BY DEF Items, PartSeq, Slots, ItemOf
<1>3. LayoutTypes'
  BY <1>1, <1>2 DEF Working, LayoutTypes
<1>4. Blank'
  BY <1>1 DEF Working, Blank, Shrinks
<1> QED
  BY <1>3, <1>4

LEMMA VisitKeeps ==
  ASSUME Working, UNCHANGED <<source, old, limit>>, Assign!Visit
  PROVE  (LayoutTypes /\ Blank)'
<1>1. result = "running" /\ ii < n /\ n \in Nat /\ ii \in 0 .. n - 1
  BY ItemFacts DEF Assign!Visit, Working, LayoutTypes
<1>2. item[ii].src \in Nat /\ item[ii].min \in Nat /\ item[ii].fixed \in BOOLEAN
  BY <1>1, ItemFacts DEF Working
<1>3. Assign!MinSize(item[ii]) \in Nat /\ (Shrinks(ii) => Assign!MinSize(item[ii]) # 0)
  BY <1>2 DEF Assign!MinSize, Shrinks
<1>4. CASE Assign!Skip(ii)
  BY <1>1, <1>4, SkipKeeps DEF Assign!Skip, Assign!input
<1>5. CASE Assign!Sized(ii)
  <2>1. set[ii]
    BY <1>5 DEF Assign!Sized
  <2>2. CASE size[ii] = 0 /\ Assign!Fail("false") /\ UNCHANGED <<set, size>>
    BY <1>1, <2>1, <2>2, FailKeeps DEF Assign!Fail, Assign!input
  <2>3. CASE /\ size[ii] # 0
             /\ Assign!Place(ii, size[ii], TRUE, src_flexible, dst_flexible, changed)
    <3>1. size[ii] \in Nat /\ src_flexible \in Int /\ dst_flexible \in Int
      <4>1. size \in [0 .. n - 1 -> Nat] /\ src_flexible \in Nat /\ dst_flexible \in Nat
        BY DEF Working, LayoutTypes
      <4> QED
        BY <1>1, <4>1
    <3>2. UNCHANGED <<n, item>>
      BY <2>3 DEF Assign!Place, Assign!input
    <3> QED
      BY <1>1, <2>3, <3>1, <3>2, PlaceKeeps
  <2> QED
    BY <1>5, <2>2, <2>3 DEF Assign!Sized
<1>6. CASE Assign!Unsized(ii)
  <2>1. CASE src_flexible = 0 /\ Assign!Fail("throw") /\ UNCHANGED <<set, size>>
    BY <1>1, <2>1, FailKeeps DEF Assign!Fail, Assign!input
  <2>2. ASSUME src_flexible # 0, NEW e \in Assign!Estimates(ii), e < Assign!MinSize(item[ii]),
               Assign!Place(ii, Assign!MinSize(item[ii]), TRUE, src_flexible - item[ii].src,
                            dst_flexible - Assign!MinSize(item[ii]), TRUE)
        PROVE  (LayoutTypes /\ Blank)'
    <3>1. PICK m \in Nat : m = Assign!MinSize(item[ii])
      BY <1>3
    <3> DEFINE sf == src_flexible - item[ii].src
               df == dst_flexible - m
    <3>2. sf \in Int /\ df \in Int
      <4>1. src_flexible \in Nat /\ dst_flexible \in Nat
        BY DEF Working, LayoutTypes
      <4> QED
        BY <1>2, <4>1
    <3>3. Assign!Place(ii, m, TRUE, sf, df, TRUE)
      BY <2>2, <3>1
    <3> HIDE DEF sf, df
    <3>4. UNCHANGED <<n, item>>
      BY <3>3 DEF Assign!Place, Assign!input
    <3>5. Shrinks(ii) => m # 0
      BY <1>3, <3>1
    <3> QED
      BY ONLY Working, UNCHANGED <<source, old, limit>>, <1>1, <3>2, <3>3, <3>4, <3>5, PlaceKeeps
  <2>3. ASSUME src_flexible # 0, NEW e \in Assign!Estimates(ii), e >= Assign!MinSize(item[ii]),
               Assign!Place(ii, e, FALSE, src_flexible, dst_flexible, changed)
        PROVE  (LayoutTypes /\ Blank)'
    <3>1. src_flexible \in Nat \ {0} /\ dst_flexible \in Nat
      BY <2>3 DEF Working, LayoutTypes
    <3>2. e \in Int
      <4>1. PICK x \in Int : x = (item[ii].src * dst_flexible) \div src_flexible
        BY <1>2, <3>1
      <4>2. e = x \/ e \in 0 .. 2 * x + 1
        BY <2>3, <4>1 DEF Assign!Estimates
      <4> QED
        BY <4>1, <4>2
    <3>3. e \in Nat /\ (Shrinks(ii) => e # 0)
      BY <1>3, <2>3, <3>2
    <3>4. UNCHANGED <<n, item>>
      BY <2>3 DEF Assign!Place, Assign!input
    <3>5. src_flexible \in Int /\ dst_flexible \in Int
      BY <3>1
    <3>6. Assign!Place(ii, e, FALSE, src_flexible, dst_flexible, changed)
      BY <2>3
    <3> QED
      BY ONLY Working, UNCHANGED <<source, old, limit>>, <1>1, <3>3, <3>4, <3>5, <3>6, PlaceKeeps
  <2> QED
    BY <1>6, <2>1, <2>2, <2>3 DEF Assign!Unsized
<1> QED
  BY <1>4, <1>5, <1>6 DEF Assign!Visit

LEMMA FixFacts ==
  ASSUME Working, result = "start", UNCHANGED <<source, old, limit, n, item>>, Assign!Fix
  PROVE  /\ size' \in [0 .. n - 1 -> Nat] /\ set' \in [0 .. n -> BOOLEAN]
         /\ \A k \in 0 .. n - 1 : Shrinks(k) => ~set'[k]
<1>1. n \in Nat /\ \A k \in 0 .. n - 1 : item[k].src \in Nat /\ item[k].fixed \in BOOLEAN
  BY ItemFacts DEF Working
<1>2. size' \in [0 .. n - 1 -> Nat]
  BY <1>1 DEF Assign!Fix, Assign!Items
<1>3. set' = [k \in 0 .. n |-> (k = n /\ Assign!Feasible) \/ (k < n /\ item[k].fixed)]
  BY DEF Assign!Fix
<1>4. set' \in [0 .. n -> BOOLEAN]
  BY <1>3, Zenon
<1>5. ASSUME NEW k \in 0 .. n - 1, Shrinks(k)
      PROVE  ~set'[k]
  <2>1. k # n /\ k \in 0 .. n
    BY <1>1
  <2> QED
    BY <1>3, <1>5, <2>1 DEF Shrinks
<1> QED
  BY <1>2, <1>4, <1>5

LEMMA SpaceNat ==
  ASSUME Working
  PROVE  Assign!SrcFlexible \in Int /\ Assign!FlexibleSpace \in Nat
<1>1. n \in Nat /\ \A k \in 0 .. n - 1 : item[k].src \in Nat /\ item[k].fixed \in BOOLEAN
  BY ItemFacts DEF Working
<1>2. Assign!SrcSize \in Int
  <2>1. [k \in 0 .. n - 1 |-> item[k].src] \in [0 .. n - 1 -> Int]
    BY <1>1
  <2> QED
    BY <1>1, <2>1, SumInt DEF Assign!SrcSize, Assign!Total, Assign!Items
<1>3. Assign!SrcFlexible \in Int
  <2>1. [k \in 0 .. n - 1 |-> IF item[k].fixed THEN 0 ELSE item[k].src] \in [0 .. n - 1 -> Int]
    BY <1>1
  <2> QED
    BY <1>1, <2>1, SumInt DEF Assign!SrcFlexible, Assign!Total, Assign!Items
<1>4. limit - DstOffset - (Assign!SrcSize - Assign!SrcFlexible) \in Int
  BY <1>2, <1>3, CopyAssumption DEF Working, Given
<1> QED
  BY <1>3, <1>4, WrapNat DEF Assign!FlexibleSpace, Working

LEMMA AssignKeeps ==
  ASSUME Working, UNCHANGED <<source, old, limit>>,
         Assign!Begin \/ Assign!Reject \/ Assign!Visit \/ Assign!EndSweep
  PROVE  (LayoutTypes /\ Blank)'
<1>1. n \in Nat /\ ii \in 0 .. n
  BY ItemFacts DEF Working, LayoutTypes
<1>2. Items' = Items
  BY DEF Items, PartSeq, Slots, ItemOf
<1>3. CASE Assign!Visit
  BY <1>3, VisitKeeps
<1>4. CASE Assign!Reject
  <2>1. /\ result = "start" /\ result' = "false" /\ Assign!Fix
        /\ UNCHANGED <<n, item, offset, src_flexible, dst_flexible, remain_to_set, ii>>
    BY <1>4 DEF Assign!Reject, Assign!input, Assign!totals, Assign!sweep
  <2>2. ii = 0 /\ \A k \in 0 .. n : offset[k] = 0
    BY <2>1 DEF Working, Blank
  <2>3. /\ size' \in [0 .. n - 1 -> Nat] /\ set' \in [0 .. n -> BOOLEAN]
        /\ \A k \in 0 .. n - 1 : Shrinks(k) => ~set'[k]
    BY <2>1, FixFacts
  <2>4. LayoutTypes'
    BY <1>2, <2>1, <2>3 DEF Working, LayoutTypes
  <2>5. Blank'
    BY <1>1, <2>1, <2>2, <2>3 DEF Blank, Shrinks
  <2> QED
    BY <2>4, <2>5
<1>5. CASE Assign!Begin
  <2>1. /\ result = "start" /\ result' = "running" /\ Assign!Fix
        /\ UNCHANGED <<n, item, ii>>
        /\ offset' = [offset EXCEPT ![0] = DstOffset, ![n] = limit]
        /\ src_flexible' = Assign!SrcFlexible /\ dst_flexible' = Assign!FlexibleSpace
        /\ remain_to_set' = n /\ Assign!SrcFlexible > 0
    BY <1>5 DEF Assign!Begin, Assign!input, Assign!Feasible
  <2>2. ii = 0 /\ \A k \in 0 .. n : offset[k] = 0
    BY <2>1 DEF Working, Blank
  <2>3. /\ size' \in [0 .. n - 1 -> Nat] /\ set' \in [0 .. n -> BOOLEAN]
        /\ \A k \in 0 .. n - 1 : Shrinks(k) => ~set'[k]
    BY <2>1, FixFacts
  <2>4. src_flexible' \in Nat /\ dst_flexible' \in Nat
    BY <2>1, SpaceNat
  <2>5. offset' \in [0 .. n -> Nat]
    BY <2>1, CopyAssumption DEF Working, LayoutTypes, Given
  <2>6. \A k \in 0 .. n - 1 : offset'[k] # 0 => k = 0
    BY <1>1, <2>1, <2>2 DEF Working, LayoutTypes
  <2>7. LayoutTypes'
    BY <1>1, <1>2, <2>1, <2>3, <2>4, <2>5 DEF Working, LayoutTypes
  <2>8. Blank'
    <3>1. ASSUME NEW k \in 0 .. n - 1, Shrinks(k)
          PROVE  ~set'[k] /\ ii' <= k /\ (offset'[k] # 0 => k = ii')
      <4>1. ii' = 0
        BY <2>1, <2>2
      <4> QED
        BY <1>1, <2>3, <2>6, <3>1, <4>1
    <3>2. n' = n /\ item' = item /\ result' = "running"
      BY <2>1
    <3> QED
      BY <3>1, <3>2 DEF Blank, Shrinks
  <2> QED
    BY <2>7, <2>8
<1>6. CASE Assign!EndSweep
  <2>1. /\ ii = n /\ result = "running" /\ result' \in {"running", "true", "false"} /\ ii' \in {0, ii}
        /\ UNCHANGED <<n, item, offset, size, src_flexible, dst_flexible, remain_to_set>>
    BY <1>6 DEF Assign!EndSweep, Assign!input, Assign!totals, Assign!sweep
  <2>2. set' \in [0 .. n -> BOOLEAN]
    BY <1>6 DEF Assign!EndSweep, Assign!Freeze, Working, LayoutTypes
  <2>3. \A k \in 0 .. n - 1 : ~(Shrinks(k) /\ size[k] = 0)
    BY <1>1, <2>1 DEF Working, Blank
  <2>4. LayoutTypes'
    BY <1>1, <1>2, <2>1, <2>2 DEF Working, LayoutTypes
  <2>5. Blank'
    BY <2>1, <2>3 DEF Blank, Shrinks
  <2> QED
    BY <2>4, <2>5
<1> QED
  BY <1>3, <1>4, <1>5, <1>6

-----------------------------------------------------------------------------
(* The list of steps.                                                        *)

LEMMA StepOfOk ==
  ASSUME Given, LayoutTypes, Blank, result \notin {"running", "throw"}, NEW k \in 0 .. n - 1
  PROVE  StepOk(StepOf(k)) /\ StepOf(k).op \in {"boot", "copy"}
<1> DEFINE p == Items[k + 1]
           st == StepOf(k)
<1>1. n \in Nat /\ item[k].src \in Nat /\ item[k].min \in Nat /\ item[k].fixed \in BOOLEAN
  BY ItemFacts
<1>2. ItemIs(p)
  <2>1. Items \in Seq(ItemType) /\ \A j \in 1 .. Len(Items) : ItemIs(Items[j])
    BY ItemsAre DEF Given
  <2>2. k + 1 \in 1 .. Len(Items)
    BY <1>1 DEF LayoutTypes
  <2> QED
    BY <2>1, <2>2
<1>3. item[k] = [src |-> p.src, min |-> p.min, fixed |-> p.fixed]
  BY DEF LayoutTypes
<1>4. size[k] \in Nat /\ offset[k] \in Nat
  <2>1. size \in [0 .. n - 1 -> Nat] /\ offset \in [0 .. n -> Nat] /\ k \in 0 .. n
    BY <1>1 DEF LayoutTypes
  <2> QED
    BY <2>1
<1>5. p.index \in Nat /\ p.system \in BOOLEAN
  BY <1>2 DEF ItemIs, ItemType
<1>6. /\ st.op \in {"boot", "copy"} /\ st.part = p.index /\ st.how = How(k) /\ st.src = item[k].src
      /\ st.dst = size[k] /\ st.at = offset[k] /\ st.system = p.system
      /\ st = [op |-> st.op, part |-> st.part, how |-> st.how, src |-> st.src, dst |-> st.dst,
               at |-> st.at, system |-> st.system]
  BY DEF StepOf
<1>7. /\ How(k) \in {"no_change", "shrink", "expand"}
      /\ How(k) = "shrink" => ~item[k].fixed /\ size[k] < item[k].src
      /\ How(k) = "expand" => size[k] # 0
  BY <1>1, <1>4 DEF How
<1> HIDE DEF st
<1>8. st \in StepType
  BY <1>1, <1>4, <1>5, <1>6, <1>7 DEF StepType
<1>9. ASSUME st.part \in Slots
      PROVE  /\ st.src = source.part[st.part].size
             /\ st.how = "shrink" => st.dst < st.src /\ (st.dst = 0 => st.at = 0)
             /\ st.how = "expand" => st.dst # 0
  <2>1. p.src = source.part[p.index].size /\ p.min = source.part[p.index].min
    BY <1>2, <1>6, <1>9 DEF ItemIs
  <2>2. item[k].min # 0
    BY <1>3, <1>6, <1>9, <2>1, SlotFacts DEF Given
  <2>3. st.how = "shrink" /\ st.dst = 0 => st.at = 0
    BY <1>6, <1>7, <2>2 DEF Blank, Shrinks
  <2> QED
    BY <1>3, <1>6, <1>7, <2>1, <2>3
<1> QED
  BY <1>6, <1>8, <1>9 DEF StepOk, st

\* A list with one step before it and one behind it.
LEMMA Framed ==
  ASSUME NEW T, NEW m \in Seq(T), NEW a \in T, NEW b \in T,
         NEW s, s = <<a>> \o m \o <<b>>
  PROVE  /\ s \in Seq(T) /\ Len(s) = Len(m) + 2 /\ Len(m) \in Nat
         /\ s[1] = a /\ s[Len(s)] = b
         /\ \A i \in 2 .. Len(m) + 1 : s[i] = m[i - 1] /\ i - 1 \in 1 .. Len(m)
<1>1. PICK u : u = <<a>> \o m
  OBVIOUS
<1>2. u \in Seq(T) /\ Len(u) = Len(m) + 1
  BY <1>1
<1>3. u[1] = a /\ \A i \in 2 .. Len(m) + 1 : u[i] = m[i - 1]
  BY <1>1
<1>4. s = u \o <<b>>
  BY <1>1
<1>5. s \in Seq(T) /\ Len(s) = Len(u) + 1 /\ s[Len(u) + 1] = b /\ Len(m) \in Nat
  BY <1>2, <1>4
<1>6. \A i \in 1 .. Len(u) : s[i] = u[i]
  BY <1>2, <1>4
<1> QED
  BY <1>2, <1>3, <1>5, <1>6

LEMMA PlanIs ==
  ASSUME Given, LayoutTypes, Blank, result \notin {"running", "throw"},
         NEW K \in SUBSET (0 .. n - 1)
  PROVE  /\ Plan(K) \in Seq(StepType) /\ Len(Plan(K)) \in Nat /\ Len(Plan(K)) >= 2
         /\ \A i \in 1 .. Len(Plan(K)) :
              /\ StepOk(Plan(K)[i])
              /\ Plan(K)[i].op \in {"make_boot", "guid"} <=> i = Len(Plan(K))
<1> DEFINE Good == {st \in StepType : StepOk(st) /\ st.op \in {"boot", "copy"}}
           All == {st \in StepType : StepOk(st)}
           order == Ascending(K)
<1>1. order \in [1 .. Cardinality(K) -> K] /\ Cardinality(K) \in Nat
  <2>1. n \in Nat
    BY ItemFacts
  <2>2. IsFiniteSet(0 .. n - 1)
    BY <2>1, FS_Interval
  <2>3. IsFiniteSet(K)
    BY <2>2, FS_Subset
  <2>4. K \in SUBSET Nat
    BY <2>1
  <2> QED
    BY <2>3, <2>4, AscendingIs
<1>2. \A k \in K : StepOf(k) \in Good
  BY StepOfOk DEF StepOk
<1> HIDE DEF Good, order
<1>3. Len(order) = Cardinality(K)
  BY <1>1
<1>4. StepsOf(K) = [k \in 1 .. Cardinality(K) |-> StepOf(order[k])]
  BY <1>3 DEF StepsOf, order
<1>5. \A k \in 1 .. Cardinality(K) : StepOf(order[k]) \in Good
  BY <1>1, <1>2
<1>6. StepsOf(K) \in Seq(Good)
  BY <1>1, <1>4, <1>5
<1>7. Step("clear") \in All /\ Step(LastStep) \in All /\ Step(LastStep).op \in {"make_boot", "guid"}
      /\ Step("clear").op = "clear"
  BY DEF Step, LastStep, StepOk, StepType
<1>8. StepsOf(K) \in Seq(All)
  BY <1>6 DEF Good
<1>9. PICK m \in Seq(All) : m = StepsOf(K)
  BY <1>8
<1>10. PICK a \in All, b \in All : a = Step("clear") /\ b = Step(LastStep)
  BY <1>7
<1>11. PICK s : s = <<a>> \o m \o <<b>>
  OBVIOUS
<1>12. Plan(K) = s
  BY <1>9, <1>10, <1>11 DEF Plan
<1> HIDE DEF All
<1>13. /\ s \in Seq(All) /\ Len(s) = Len(m) + 2 /\ Len(m) \in Nat
       /\ s[1] = a /\ s[Len(s)] = b
       /\ \A i \in 2 .. Len(m) + 1 : s[i] = m[i - 1] /\ i - 1 \in 1 .. Len(m)
  BY ONLY <1>11, Framed
<1>14. \A i \in 1 .. Len(m) : m[i] \in Good
  BY <1>6, <1>9
<1>15. ASSUME NEW i \in 1 .. Len(s)
       PROVE  StepOk(s[i]) /\ (s[i].op \in {"make_boot", "guid"} <=> i = Len(s))
  <2>1. s[i] \in All
    BY <1>13
  <2>2. CASE i = 1
    BY <1>7, <1>10, <1>13, <2>1, <2>2 DEF All
  <2>3. CASE i = Len(s)
    BY <1>7, <1>10, <1>13, <2>1, <2>3 DEF All
  <2>4. CASE i # 1 /\ i # Len(s)
    <3>1. i \in 2 .. Len(m) + 1
      BY <1>13, <2>4
    <3>2. s[i] \in Good
      BY <1>13, <1>14, <3>1
    <3> QED
      BY <2>4, <3>2 DEF Good
  <2> QED
    BY <2>2, <2>3, <2>4
<1>16. s \in Seq(StepType)
  BY <1>13 DEF All
<1> QED
  BY <1>12, <1>13, <1>15, <1>16

-----------------------------------------------------------------------------
(* The partitions Windows makes.                                             *)

\* A gap is as large as the room in it, at least one.
LEMMA GapIs ==
  ASSUME Given, TableInv, NEW o \in GapStarts(table)
  PROVE  o \in Nat \ {0} /\ GapSize(table, o) \in 1 .. limit - o
<1>1. limit \in Nat
  BY CopyAssumption DEF Given
<1>2. o \in Nat \ {0}
  BY DEF TableInv, GapStarts, End
<1>3. FreeFrom(table, o) \in SUBSET (1 .. limit - o) /\ FreeFrom(table, o) # {}
  BY DEF GapStarts, FreeFrom
<1>4. limit - o \in Int
  BY <1>1, <1>2
<1>5. \E l \in FreeFrom(table, o) : \A m \in FreeFrom(table, o) : m <= l
  BY <1>3, <1>4, Greatest
<1>6. GapSize(table, o) \in FreeFrom(table, o)
  BY <1>5 DEF GapSize
<1> QED
  BY <1>2, <1>3, <1>6

LEMMA PlaceIs ==
  ASSUME Given, TableInv, NEW mb \in Nat, NEW p \in Places(mb)
  PROVE  /\ p \in [offset : Nat \ {0}, size : Nat \ {0}, id : {0}, efi : {FALSE}]
         /\ End(p) <= U64
         /\ mb # 0 => p.size = mb
<1>1. PICK o \in GapStarts(table) :
        /\ p = [offset |-> o, size |-> IF mb = 0 THEN GapSize(table, o) ELSE mb, id |-> 0, efi |-> FALSE]
        /\ mb # 0 => mb <= GapSize(table, o)
  BY DEF Places
<1>2. limit \in Nat /\ U64 \in Nat /\ limit < U64
  BY CopyAssumption DEF Given
<1>3. o \in Nat \ {0} /\ GapSize(table, o) \in 1 .. limit - o
  BY GapIs
<1>4. PICK g \in 1 .. limit - o : g = GapSize(table, o)
  BY <1>3
<1>5. p.offset = o /\ p.size \in 1 .. limit - o
  BY <1>1, <1>2, <1>3, <1>4
<1> QED
  BY <1>1, <1>2, <1>3, <1>5 DEF End

\* A partition is added to the others.
LEMMA AddedIs ==
  ASSUME Given, TableInv, NEW mb \in Nat, NEW p \in Places(mb), table' = Added(p), UNCHANGED <<source, limit>>
  PROVE  /\ TableInv' /\ table'[NewNumber(table)] = p /\ NewNumber(table) \in DOMAIN table'
         /\ Cardinality(DOMAIN table') = Cardinality(DOMAIN table) + 1
         /\ NewNumber(table) \in 1 .. Cardinality(DOMAIN table) + 1
         /\ Leftover => Leftover'
<1>1. PICK x : x = NewNumber(table)
  OBVIOUS
<1>2. x \notin DOMAIN table /\ x \in 1 .. Cardinality(DOMAIN table) + 1 /\ x \in Nat \ {0}
  <2>1. IsFiniteSet(DOMAIN table)
    BY DEF TableInv
  <2>2. Cardinality(DOMAIN table) \in Nat
    BY <2>1, FS_CardinalityType
  <2> QED
    BY <1>1, <2>1, <2>2, NewNumberIs
<1>3. /\ DOMAIN table' = DOMAIN table \cup {x} /\ table'[x] = p
      /\ \A k \in DOMAIN table : table'[k] = table[k]
  BY <1>1, <1>2 DEF Added
<1>4. /\ IsFiniteSet(DOMAIN table \cup {x})
      /\ Cardinality(DOMAIN table \cup {x}) = Cardinality(DOMAIN table) + 1
  BY <1>2, FS_AddElement DEF TableInv
<1>5. Slots' = Slots
  BY DEF Slots
<1>6. /\ p \in [offset : Nat, size : Nat \ {0}, id : Slots \cup {0, -1}, efi : BOOLEAN]
      /\ End(p) <= U64
  <2>1. p \in [offset : Nat \ {0}, size : Nat \ {0}, id : {0}, efi : {FALSE}] /\ End(p) <= U64
    BY PlaceIs
  <2> QED
    BY <2>1
<1>7. TableInv'
  BY <1>2, <1>3, <1>4, <1>5, <1>6 DEF TableInv, End
<1> QED
  BY <1>1, <1>2, <1>3, <1>4, <1>7 DEF Leftover

\* The size in MB of a partition, taken for bytes, is less than its minimum.
LEMMA TooSmall ==
  ASSUME source \in Sources, NEW s \in Slots, NEW b \in Int, b <= source.part[s].size
  PROVE  ~SourceFits(s, b)
<1>1. PICK m \in Nat, z \in Nat : m = source.part[s].min * MB /\ z = source.part[s].size
  BY SlotFacts, CopyAssumption
<1>2. z < m
  BY <1>1, SlotFacts
<1>3. z * MB \in Int
  BY CopyAssumption
<1>4. b < m
  BY <1>1, <1>2
<1> QED
  BY <1>1, <1>3, <1>4 DEF SourceFits

-----------------------------------------------------------------------------
(* The copy, action by action.                                               *)

LEMMA InitHolds == Init => IInv
<1> SUFFICES ASSUME Init
             PROVE  IInv
  OBVIOUS
<1>1. Given /\ LayoutInv /\ SourceInv /\ CopyPoint
  BY DEF Init, Given, LayoutInv, SourceInv, CopyPoint
<1>2. PlanInv
  BY DEF Init, PlanInv
<1>3. IsFiniteSet(DOMAIN old) /\ DOMAIN old \subseteq Nat \ {0}
      /\ \A k \in DOMAIN old : /\ old[k] \in [offset : Nat, size : Nat \ {0}, id : {-1}, efi : BOOLEAN]
                               /\ old[k].offset + old[k].size <= U64
  BY CopyAssumption DEF Init
<1>4. TableInv
  BY <1>3 DEF Init, TableInv, End
<1>5. Counted
  <2>1. CASE DOMAIN old = {}
    <3>1. Cardinality(DOMAIN table) = 0
      BY <2>1, FS_EmptySet DEF Init
    <3> QED
      BY <3>1 DEF Init, Counted
  <2>2. CASE DOMAIN old # {}
    <3>1. Leftover
      BY <1>3, <2>2 DEF Init, Leftover
    <3> QED
      BY <3>1 DEF Init, Counted
  <2> QED
    BY <2>1, <2>2
<1> QED
  BY <1>1, <1>2, <1>4, <1>5 DEF IInv

\* Once the list is made the layout is only read.
LEMMA LayoutStays ==
  ASSUME LayoutInv, UNCHANGED <<layout_vars, given>>,
         pc' = pc \/ pc' \notin {"scan", "assign", "list"}
  PROVE  LayoutInv'
<1>1. Items' = Items /\ UNCHANGED <<n, item, set, offset, size, src_flexible, dst_flexible,
                                    remain_to_set, ii, result>>
  BY DEF Items, PartSeq, Slots, ItemOf, given, layout_vars
<1> QED
  BY <1>1 DEF LayoutInv, LayoutTypes, Blank, Shrinks

\* An action that touches no disk and no plan.
LEMMA QuietKeeps ==
  ASSUME IInv, UNCHANGED <<given, limit, disks, plan_vars>>, LayoutInv',
         outcome' \in {"running", "refused", "ok", "error", "dead"},
         \/ pc' = pc \/ pc' = "ended"
         \/ pc = "scan" /\ pc' \in {"assign", "list"}
         \/ pc = "assign" /\ pc' = "list"
         \/ pc = "online" /\ pc' = "step"
  PROVE  IInv'
<1>1. UNCHANGED <<source, old, limit, now, table, raw, strategy, pos, index, dst_guid>>
  BY DEF given, disks, plan_vars
<1>2. Slots' = Slots /\ Leftover' = Leftover /\ This' = This
  BY <1>1 DEF Slots, Leftover, This
<1>3. Given'
  BY <1>1 DEF IInv, Given
<1>4. PlanInv'
  BY <1>1, <1>2 DEF IInv, PlanInv, StepOk
<1>5. TableInv'
  BY <1>1, <1>2 DEF IInv, TableInv, End
<1>6. Counted'
  BY <1>1, <1>2 DEF IInv, Counted
<1>7. CopyPoint' /\ SourceInv'
  BY <1>1, <1>2 DEF IInv, CopyPoint, SourceInv
<1> QED
  BY <1>3, <1>4, <1>5, <1>6, <1>7 DEF IInv

LEMMA ScanKeeps == IInv /\ Scan => IInv'
<1> SUFFICES ASSUME IInv, Scan
             PROVE  IInv'
  OBVIOUS
<1>1. /\ pc = "scan" /\ UNCHANGED <<limit, src_flexible, dst_flexible, remain_to_set, ii, result>>
      /\ UNCHANGED <<given, disks, plan_vars>>
  BY DEF Scan
<1>2. /\ n = 0 /\ result = "start" /\ ii = 0
      /\ src_flexible = 0 /\ dst_flexible = 0 /\ remain_to_set = 0
  BY <1>1 DEF IInv, LayoutInv
<1>3. Items' = Items
  BY <1>1 DEF Items, PartSeq, Slots, ItemOf, given
<1>4. Items \in Seq(ItemType)
  BY ItemsAre DEF IInv, Given
<1>5. CASE /\ Items # <<>>
           /\ n' = Len(Items)
           /\ item' = [k \in 0 .. n' - 1 |-> [src |-> Items[k + 1].src, min |-> Items[k + 1].min,
                                              fixed |-> Items[k + 1].fixed]]
           /\ set' = [k \in 0 .. n' |-> FALSE]
           /\ offset' = [k \in 0 .. n' |-> 0]
           /\ size' = [k \in 0 .. n' - 1 |-> 0]
           /\ pc' = (IF flexible = 0 THEN "list" ELSE "assign")
           /\ UNCHANGED outcome
  <2>1. n' \in Nat \ {0}
    BY <1>4, <1>5
  <2>2. LayoutTypes'
    BY <1>1, <1>2, <1>3, <1>5, <2>1 DEF LayoutTypes
  <2>3. Blank'
    BY <1>1, <1>2, <1>5, <2>1 DEF Blank
  <2>4. LayoutInv'
    BY <1>1, <1>2, <1>5, <2>1, <2>2, <2>3 DEF LayoutInv
  <2>5. outcome' \in {"running", "refused", "ok", "error", "dead"} /\ pc' \in {"assign", "list"}
    BY <1>5 DEF IInv, Given
  <2> QED
    BY <1>1, <2>4, <2>5, QuietKeeps
<1>6. CASE Refused /\ UNCHANGED <<n, item, set, offset, size>>
  <2>1. LayoutInv' /\ pc' = "ended" /\ outcome' = "refused"
    BY <1>2, <1>6 DEF Refused, LayoutInv
  <2> QED
    BY <1>1, <2>1, QuietKeeps
<1> QED
  BY <1>5, <1>6 DEF Scan

LEMMA WorkingIs ==
  ASSUME IInv, pc \in {"assign", "list"}
  PROVE  Working /\ n # 0
BY CopyAssumption DEF IInv, LayoutInv, Working, Given

LEMMA PartitionAssignKeeps == IInv /\ PartitionAssign => IInv'
<1> SUFFICES ASSUME IInv, PartitionAssign
             PROVE  IInv'
  OBVIOUS
<1>1. /\ pc = "assign" /\ pc' = pc /\ outcome' = outcome
      /\ UNCHANGED <<given, disks, plan_vars>>
      /\ Assign!Begin \/ Assign!Reject \/ Assign!Visit \/ Assign!EndSweep
  BY DEF PartitionAssign
<1>2. UNCHANGED <<n, item, limit>>
  BY <1>1 DEF Assign!Begin, Assign!Reject, Assign!Visit, Assign!EndSweep, Assign!Skip, Assign!Unsized,
              Assign!Sized, Assign!Place, Assign!Fail, Assign!input
<1>3. (LayoutTypes /\ Blank)'
  BY <1>1, <1>2, WorkingIs, AssignKeeps DEF given
<1>4. LayoutInv'
  BY <1>1, <1>2, <1>3, WorkingIs DEF LayoutInv
<1>5. outcome' \in {"running", "refused", "ok", "error", "dead"}
  BY <1>1 DEF IInv, Given
<1> QED
  BY <1>1, <1>2, <1>4, <1>5, QuietKeeps

LEMMA AssignedKeeps == IInv /\ Assigned => IInv'
<1> SUFFICES ASSUME IInv, Assigned
             PROVE  IInv'
  OBVIOUS
<1>1. /\ pc = "assign" /\ result \in {"true", "false", "throw"}
      /\ UNCHANGED <<layout_vars, given, disks, plan_vars>>
      /\ \/ result = "throw" /\ pc' = "ended" /\ outcome' = "refused"
         \/ result # "throw" /\ pc' = "list" /\ outcome' = outcome
  BY DEF Assigned, Assign!Ended, Refused
<1>2. Items' = Items /\ UNCHANGED <<limit, n, item, set, offset, size, src_flexible, dst_flexible,
                                    remain_to_set, ii, result>>
  BY <1>1 DEF Items, PartSeq, Slots, ItemOf, given, layout_vars
<1>3. (LayoutTypes /\ Blank)' /\ n # 0
  BY <1>1, <1>2, WorkingIs DEF Working, LayoutTypes, Blank, Shrinks
<1>4. LayoutInv'
  BY <1>1, <1>2, <1>3 DEF LayoutInv
<1>5. outcome' \in {"running", "refused", "ok", "error", "dead"}
  BY <1>1 DEF IInv, Given
<1> QED
  BY <1>1, <1>2, <1>4, <1>5, QuietKeeps

LEMMA MakeListKeeps == IInv /\ MakeList => IInv'
<1> SUFFICES ASSUME IInv, MakeList
             PROVE  IInv'
  OBVIOUS
<1> DEFINE K == {k \in 0 .. n - 1 : HasStep(k)}
<1>1. /\ pc = "list" /\ pc' = "online" /\ strategy' = Plan(K) /\ dst_guid' = Guids(strategy')
      /\ UNCHANGED <<layout_vars, given, disks, pos, index, outcome>>
  BY DEF MakeList
<1>2. UNCHANGED <<source, old, limit, now, table, raw>>
  BY <1>1 DEF layout_vars, given, disks
<1>3. Working /\ result \notin {"running", "throw"}
  BY <1>1, WorkingIs DEF IInv, LayoutInv
<1>4. /\ strategy' \in Seq(StepType) /\ Len(strategy') \in Nat /\ Len(strategy') >= 2
      /\ \A i \in 1 .. Len(strategy') :
           /\ StepOk(strategy'[i])
           /\ strategy'[i].op \in {"make_boot", "guid"} <=> i = Len(strategy')
  BY <1>1, <1>3, PlanIs DEF Working
<1>5. Slots' = Slots /\ Leftover' = Leftover
  BY <1>2 DEF Slots, Leftover
<1>6. pos = 1
  BY <1>1 DEF IInv, PlanInv
<1>7. DOMAIN dst_guid' = 0 .. Len(strategy') - 1 /\ \A j \in DOMAIN dst_guid' : dst_guid'[j] = 0
  BY <1>1 DEF Guids
<1>8. (\A i \in 1 .. Len(strategy) : StepOk(strategy[i]))'
  BY <1>2, <1>4, <1>5 DEF StepOk
<1>9. PlanInv'
  BY <1>1, <1>4, <1>5, <1>6, <1>7, <1>8 DEF PlanInv
<1>10. LayoutInv'
  BY <1>1, LayoutStays DEF IInv
<1>11. Given'
  BY <1>1, <1>2 DEF IInv, Given
<1>12. TableInv'
  BY <1>2, <1>5 DEF IInv, TableInv, End
<1>13. Counted'
  <2>1. strategy = <<>>
    BY <1>1 DEF IInv, PlanInv
  <2>2. Leftover \/ Cardinality(DOMAIN table) <= pos - 1
    BY <1>1, <2>1 DEF IInv, Counted
  <2> QED
    BY <1>1, <1>2, <1>5, <2>2 DEF Counted
<1>14. CopyPoint' /\ SourceInv'
  BY <1>1, <1>2, <1>5 DEF IInv, CopyPoint, SourceInv
<1> QED
  BY <1>9, <1>10, <1>11, <1>12, <1>13, <1>14 DEF IInv

\* The list stays; the next step, and one GUID more.
LEMMA PlanStays ==
  ASSUME PlanInv, UNCHANGED <<source, strategy>>,
         pos' = pos \/ (pos <= Len(strategy) /\ pos' = pos + 1),
         DOMAIN dst_guid' = DOMAIN dst_guid, \A j \in DOMAIN dst_guid : dst_guid'[j] \in Slots \cup {0},
         pc' \in {"step", "copy", "resize", "ended"}
  PROVE  PlanInv'
<1>1. Slots' = Slots
  BY DEF Slots
<1>2. Len(strategy) \in Nat /\ pos' \in 1 .. Len(strategy) + 1
  BY DEF PlanInv
<1>3. (\A i \in 1 .. Len(strategy) : StepOk(strategy[i]))'
  BY <1>1 DEF PlanInv, StepOk
<1> QED
  BY <1>1, <1>2, <1>3 DEF PlanInv

\* What is known at a step.
LEMMA AtStep ==
  ASSUME IInv, pc \in {"step", "copy", "resize"}, pos <= Len(strategy)
  PROVE  /\ pos \in 1 .. Len(strategy) /\ Len(strategy) \in Nat
         /\ This \in StepType /\ StepOk(This)
         /\ This.op \in {"make_boot", "guid"} <=> pos = Len(strategy)
         /\ CreateSize(This) \in Nat
         /\ \A j \in DOMAIN dst_guid : dst_guid[j] \in Slots \cup {0}
<1>1. pos \in 1 .. Len(strategy) /\ Len(strategy) \in Nat
  BY DEF IInv, PlanInv
<1>2. StepOk(This) /\ (This.op \in {"make_boot", "guid"} <=> pos = Len(strategy))
  BY <1>1 DEF IInv, PlanInv, This
<1>3. This \in StepType
  BY <1>2 DEF StepOk
<1>4. CreateSize(This) \in Nat
  BY <1>3 DEF CreateSize, StepType
<1> QED
  BY <1>1, <1>2, <1>3, <1>4 DEF IInv, PlanInv

\* The parts of the invariant that a step of the list leaves as they are.
LEMMA StepKeeps ==
  ASSUME IInv, UNCHANGED <<layout_vars, given, strategy>>,
         pc \in {"step", "copy", "resize"}, pos <= Len(strategy),
         pos' = pos \/ pos' = pos + 1,
         DOMAIN dst_guid' = DOMAIN dst_guid, \A j \in DOMAIN dst_guid : dst_guid'[j] \in Slots \cup {0},
         pc' \in {"step", "copy", "resize", "ended"}, outcome' \in {outcome, "error"}, raw' \in BOOLEAN
  PROVE  (Given /\ LayoutInv /\ PlanInv)'
<1>1. UNCHANGED <<source, old, limit>>
  BY DEF given, layout_vars
<1>2. Given'
  BY <1>1 DEF IInv, Given
<1>3. LayoutInv'
  BY LayoutStays DEF IInv
<1>4. PlanInv'
  BY <1>1, PlanStays DEF IInv
<1> QED
  BY <1>2, <1>3, <1>4

LEMMA ClearDiskKeeps == IInv /\ ClearDisk => IInv'
<1> SUFFICES ASSUME IInv, ClearDisk
             PROVE  IInv'
  OBVIOUS
<1>1. /\ pc = "step" /\ pos <= Len(strategy)
      /\ UNCHANGED <<layout_vars, given, now, strategy, dst_guid>>
      /\ pos' = pos \/ pos' = pos + 1
      /\ (pc' = "step" /\ pos' = pos + 1) \/ pc' = "ended"
      /\ outcome' \in {outcome, "error"}
      /\ raw' \in {TRUE, FALSE, raw}
      /\ table' = [k \in {1} |-> Msr] \/ table' = <<>> \/ table' = table
  BY DEF ClearDisk, At, Done, PassedOver, GoOn, Throw
<1>2. pos \in 1 .. Len(strategy) /\ \A j \in DOMAIN dst_guid : dst_guid'[j] \in Slots \cup {0}
  BY <1>1, AtStep
<1>3. (Given /\ LayoutInv /\ PlanInv)'
  <2>1. raw' \in BOOLEAN
    BY <1>1 DEF IInv, Given
  <2> QED
    BY <1>1, <1>2, <2>1, StepKeeps
<1>4. Slots' = Slots /\ source' = source
  BY <1>1 DEF Slots, given
<1>5. \/ TableInv' /\ Cardinality(DOMAIN table') <= 1
      \/ table' = table /\ TableInv'
  <2>1. CASE table' = [k \in {1} |-> Msr]
    <3>1. DOMAIN table' = {1} /\ \A k \in DOMAIN table' : table'[k] = Msr
      BY <2>1
    <3>2. IsFiniteSet({1}) /\ Cardinality({1}) = 1
      BY FS_Singleton
    <3>3. Msr.offset = 0 /\ Msr.size = DstOffset /\ DstOffset \in Nat \ {0} /\ DstOffset <= U64 /\ U64 \in Nat
          /\ Msr = [offset |-> 0, size |-> DstOffset, id |-> 0, efi |-> FALSE]
      BY CopyAssumption DEF Msr, IInv, Given
    <3>4. /\ Msr \in [offset : Nat, size : Nat \ {0}, id : Slots' \cup {0, -1}, efi : BOOLEAN]
          /\ Msr.offset + Msr.size <= U64
      BY <3>3
    <3> QED
      BY <3>1, <3>2, <3>4 DEF TableInv, End
  <2>2. CASE table' = <<>>
    <3>1. DOMAIN table' = {}
      BY <2>2
    <3> QED
      BY <3>1, FS_EmptySet DEF TableInv
  <2>3. CASE table' = table
    BY <1>4, <2>3 DEF IInv, TableInv, End
  <2> QED
    BY <1>1, <2>1, <2>2, <2>3
<1>6. Counted'
  <2>1. pc' = "ended" \/ (pc' = "step" /\ pos' = pos + 1)
    BY <1>1
  <2>2. CASE Cardinality(DOMAIN table') <= 1
    <3>1. Cardinality(DOMAIN table') \in Nat
      BY <1>5, FS_CardinalityType DEF TableInv
    <3>2. pc' = "step" => Cardinality(DOMAIN table') <= pos' - 1
      BY <1>2, <2>1, <2>2, <3>1
    <3> QED
      BY <2>1, <3>2 DEF Counted
  <2>3. CASE table' = table
    <3>1. Leftover' = Leftover
      BY <2>3 DEF Leftover
    <3>2. Cardinality(DOMAIN table) \in Nat
      BY FS_CardinalityType DEF IInv, TableInv
    <3>3. Leftover \/ Cardinality(DOMAIN table) <= pos - 1
      BY <1>1 DEF IInv, Counted
    <3>4. pc' = "step" => Leftover' \/ Cardinality(DOMAIN table') <= pos' - 1
      BY <1>2, <2>1, <2>3, <3>1, <3>2, <3>3
    <3> QED
      BY <2>1, <3>4 DEF Counted
  <2> QED
    BY <1>5, <2>2, <2>3
<1>7. CopyPoint' /\ SourceInv'
  BY <1>1, <1>4 DEF IInv, CopyPoint, SourceInv
<1> QED
  BY <1>3, <1>5, <1>6, <1>7 DEF IInv

LEMMA NotCreatedKeeps ==
  ASSUME IInv, pc = "step", pos <= Len(strategy), UNCHANGED <<layout_vars, given>>,
         NEW mb \in Nat, NotCreated(mb)
  PROVE  IInv'
<1>1. /\ UNCHANGED <<raw, now, strategy, pos, dst_guid>> /\ pc' = "ended" /\ outcome' = "error"
      /\ table' = table \/ \E p \in Places(mb) : table' = Added(p)
  BY DEF NotCreated, Throw, plan_vars
<1>2. (Given /\ LayoutInv /\ PlanInv)'
  <2>1. raw' \in BOOLEAN
    BY <1>1 DEF IInv, Given
  <2> QED
    BY <1>1, <2>1, AtStep, StepKeeps
<1>3. Slots' = Slots /\ source' = source /\ limit' = limit
  BY DEF Slots, given, layout_vars
<1>4. TableInv'
  <2>1. CASE table' = table
    BY <1>3, <2>1 DEF IInv, TableInv, End
  <2>2. ASSUME NEW p \in Places(mb), table' = Added(p)
        PROVE  TableInv'
    BY <1>3, <2>2, AddedIs DEF IInv
  <2> QED
    BY <1>1, <2>1, <2>2
<1>5. Counted' /\ CopyPoint' /\ SourceInv'
  BY <1>1, <1>3 DEF IInv, Counted, CopyPoint, SourceInv
<1> QED
  BY <1>2, <1>4, <1>5 DEF IInv

LEMMA CreateBootPartitionKeeps == IInv /\ CreateBootPartition => IInv'
<1> SUFFICES ASSUME IInv, CreateBootPartition
             PROVE  IInv'
  OBVIOUS
<1>1. pc = "step" /\ pos <= Len(strategy) /\ This.op = "boot" /\ UNCHANGED <<layout_vars, given>>
  BY DEF CreateBootPartition, At, This
<1>2. /\ pos \in 1 .. Len(strategy) /\ This.dst \in Nat
      /\ \A j \in DOMAIN dst_guid : dst_guid[j] \in Slots \cup {0}
  BY <1>1, AtStep DEF StepType
<1>3. CASE NotCreated(This.dst)
  BY <1>1, <1>2, <1>3, NotCreatedKeeps
<1>4. ASSUME NEW p \in Places(This.dst), table' = Added(p), Done,
             UNCHANGED <<raw, now, strategy, index, dst_guid, sys_index>>
      PROVE  IInv'
  <2>1. Slots' = Slots /\ source' = source /\ limit' = limit
    BY <1>1 DEF Slots, given, layout_vars
  <2>2. pc' = "step" /\ pos' = pos + 1 /\ outcome' = outcome
    BY <1>4 DEF Done, GoOn
  <2>3. (Given /\ LayoutInv /\ PlanInv)'
    <3>1. raw' \in BOOLEAN
      BY <1>4 DEF IInv, Given
    <3> QED
      BY <1>1, <1>2, <1>4, <2>2, <3>1, StepKeeps
  <2>4. /\ TableInv' /\ (Leftover => Leftover')
        /\ Cardinality(DOMAIN table') = Cardinality(DOMAIN table) + 1
    BY <1>2, <1>4, <2>1, AddedIs DEF IInv
  <2>5. Leftover \/ Cardinality(DOMAIN table) <= pos - 1
    BY <1>1 DEF IInv, Counted
  <2>6. Cardinality(DOMAIN table) \in Nat
    BY FS_CardinalityType DEF IInv, TableInv
  <2>7. Counted'
    BY <1>2, <2>2, <2>4, <2>5, <2>6 DEF Counted
  <2>8. CopyPoint' /\ SourceInv'
    BY <1>4, <2>1, <2>2 DEF IInv, CopyPoint, SourceInv
  <2> QED
    BY <2>3, <2>4, <2>7, <2>8 DEF IInv
<1> QED
  BY <1>3, <1>4 DEF CreateBootPartition

LEMMA CreateCopyKeeps == IInv /\ CreateCopy => IInv'
<1> SUFFICES ASSUME IInv, CreateCopy
             PROVE  IInv'
  OBVIOUS
<1>1. /\ pc = "step" /\ pos <= Len(strategy) /\ This.op = "copy" /\ This.part \in Slots
      /\ UNCHANGED <<layout_vars, given>>
  BY DEF CreateCopy, At, This
<1>2. /\ pos \in 1 .. Len(strategy) /\ This \in StepType /\ StepOk(This) /\ CreateSize(This) \in Nat
      /\ \A j \in DOMAIN dst_guid : dst_guid[j] \in Slots \cup {0}
  BY <1>1, AtStep
<1>3. CASE NotCreated(CreateSize(This))
  BY <1>1, <1>2, <1>3, NotCreatedKeeps
<1>4. ASSUME NEW p \in Places(CreateSize(This)), table' = Added(p),
             \/ /\ AsPlanned(p, This)
                /\ index' = NewNumber(table)
                /\ dst_guid' = Remember(index', This.part)
                /\ pc' = "copy"
                /\ UNCHANGED outcome
             \/ ~AsPlanned(p, This) /\ Throw /\ UNCHANGED <<index, dst_guid>>,
             UNCHANGED <<raw, now, strategy, pos, boot_index, sys_index>>
      PROVE  IInv'
  <2>1. Slots' = Slots /\ source' = source /\ limit' = limit /\ This' = This
    BY <1>1, <1>4 DEF Slots, given, layout_vars, This
  <2>2. DOMAIN dst_guid' = DOMAIN dst_guid /\ \A j \in DOMAIN dst_guid : dst_guid'[j] \in Slots \cup {0}
    BY <1>1, <1>2, <1>4 DEF Remember
  <2>3. (Given /\ LayoutInv /\ PlanInv)'
    <3>1. raw' \in BOOLEAN
      BY <1>4 DEF IInv, Given
    <3>2. pc' \in {"copy", "ended"} /\ outcome' \in {outcome, "error"}
      BY <1>4 DEF Throw
    <3> QED
      BY <1>1, <1>4, <2>2, <3>1, <3>2, StepKeeps
  <2>4. /\ TableInv' /\ (Leftover => Leftover')
        /\ table'[NewNumber(table)] = p /\ NewNumber(table) \in DOMAIN table'
        /\ Cardinality(DOMAIN table') = Cardinality(DOMAIN table) + 1
        /\ NewNumber(table) \in 1 .. Cardinality(DOMAIN table) + 1
    BY <1>2, <1>4, <2>1, AddedIs DEF IInv
  <2>5. Leftover \/ Cardinality(DOMAIN table) <= pos - 1
    BY <1>1 DEF IInv, Counted
  <2>6. Cardinality(DOMAIN table) \in Nat
    BY FS_CardinalityType DEF IInv, TableInv
  <2>7. (pc' = "copy" /\ index' = NewNumber(table) /\ AsPlanned(p, This)) \/ pc' = "ended"
    BY <1>4 DEF Throw
  <2>8. Counted'
    BY <1>2, <1>4, <2>4, <2>5, <2>6, <2>7 DEF Counted
  <2>9. ASSUME AsPlanned(p, This), This.how = "shrink"
        PROVE  p.size < This.src
    <3>1. This.dst < This.src /\ (This.dst = 0 => This.at = 0)
      BY <1>1, <1>2, <2>9 DEF StepOk
    <3>2. CreateSize(This) = This.dst
      BY <2>9 DEF CreateSize
    <3>3. p.offset # 0 /\ (CreateSize(This) # 0 => p.size = CreateSize(This))
      BY <1>2, PlaceIs DEF IInv
    <3>4. This.dst # 0
      BY <2>9, <3>1, <3>3 DEF AsPlanned
    <3> QED
      BY <3>1, <3>2, <3>3, <3>4
  <2>10. CopyPoint'
    BY <1>1, <1>4, <2>1, <2>4, <2>7, <2>9 DEF CopyPoint
  <2>11. SourceInv'
    BY <1>4, <2>1 DEF IInv, SourceInv
  <2> QED
    BY <2>3, <2>4, <2>8, <2>10, <2>11 DEF IInv
<1> QED
  BY <1>3, <1>4 DEF CreateCopy

\* The source is not shrunk: the size of the new partition, a number of MB, is no
\* number of bytes the source's volume fits in.
LEMMA CopyVolumeKeeps == IInv /\ CopyVolume => IInv'
<1> SUFFICES ASSUME IInv, CopyVolume
             PROVE  IInv'
  OBVIOUS
<1>1. /\ pc = "copy" /\ pc' \in {"resize", "ended"} /\ outcome' \in {outcome, "error"}
      /\ UNCHANGED <<layout_vars, given, table, raw, strategy, pos, index, dst_guid>>
      /\ now' \in IF This.how = "shrink" THEN Resized(This.part, ShrinkTo(table[index].size)) ELSE {now}
  BY DEF CopyVolume, Throw, plan_vars
<1>2. /\ pos <= Len(strategy) /\ This.op = "copy" /\ This.part \in Slots /\ index \in DOMAIN table
      /\ This.how = "shrink" => table[index].size < This.src
  BY <1>1 DEF IInv, CopyPoint
<1>3. /\ StepOk(This) /\ \A j \in DOMAIN dst_guid : dst_guid[j] \in Slots \cup {0}
  BY <1>1, <1>2, AtStep
<1>4. now' = now
  <2>1. CASE This.how = "shrink"
    <3>1. PICK b : b = table[index].size
      OBVIOUS
    <3>2. b \in Nat
      BY <1>2, <3>1 DEF IInv, TableInv
    <3>3. This.src = source.part[This.part].size
      BY <1>2, <1>3 DEF StepOk
    <3>4. source \in Sources /\ This.src \in Nat
      BY <1>2, <3>3, SlotFacts DEF IInv, Given
    <3>5. b <= source.part[This.part].size
      BY <1>2, <2>1, <3>1, <3>2, <3>3, <3>4
    <3>6. ~SourceFits(This.part, b)
      BY <1>2, <3>2, <3>4, <3>5, TooSmall
    <3> QED
      BY <1>1, <2>1, <3>1, <3>6 DEF Resized, ShrinkTo
  <2>2. CASE This.how # "shrink"
    BY <1>1, <2>2
  <2> QED
    BY <2>1, <2>2
<1>5. Slots' = Slots /\ Leftover' = Leftover /\ This' = This /\ source' = source
  BY <1>1 DEF Slots, Leftover, This, given
<1>6. (Given /\ LayoutInv /\ PlanInv)'
  <2>1. raw' \in BOOLEAN
    BY <1>1 DEF IInv, Given
  <2> QED
    BY <1>1, <1>2, <1>3, <2>1, StepKeeps
<1>7. TableInv'
  BY <1>1, <1>5 DEF IInv, TableInv, End
<1>8. Counted'
  BY <1>1, <1>5 DEF IInv, Counted
<1>9. CopyPoint' /\ SourceInv'
  BY <1>1, <1>2, <1>4, <1>5 DEF IInv, CopyPoint, SourceInv
<1> QED
  BY <1>6, <1>7, <1>8, <1>9 DEF IInv

LEMMA ResizeBackKeeps == IInv /\ ResizeBack => IInv'
<1> SUFFICES ASSUME IInv, ResizeBack
             PROVE  IInv'
  OBVIOUS
<1>1. /\ pc = "resize" /\ pc' = "step" /\ pos' = pos + 1 /\ outcome' = outcome
      /\ UNCHANGED <<layout_vars, given, raw, strategy, dst_guid>>
      /\ now' \in IF This.how = "shrink" THEN Resized(This.part, This.src) ELSE {now}
      /\ \/ table' = table
         \/ /\ table' = [table EXCEPT ![index].size = This.dst]
            /\ This.how = "expand" /\ Fits(table, index, This.dst * MB)
  BY DEF ResizeBack, Done, PassedOver, GoOn
<1>2. pos <= Len(strategy) /\ This.op = "copy" /\ This.part \in Slots /\ index \in DOMAIN table
  BY <1>1 DEF IInv, CopyPoint
<1>3. /\ StepOk(This) /\ This \in StepType /\ pos \in 1 .. Len(strategy)
      /\ \A j \in DOMAIN dst_guid : dst_guid[j] \in Slots \cup {0}
  BY <1>1, <1>2, AtStep
<1>4. now' = now
  <2>1. This.src = source.part[This.part].size /\ source \in Sources
    BY <1>2, <1>3 DEF StepOk, IInv, Given
  <2>2. This.src \in Int /\ This.src <= source.part[This.part].size
    BY <1>2, <2>1, SlotFacts
  <2>3. ~SourceFits(This.part, This.src)
    BY <1>2, <2>1, <2>2, TooSmall
  <2> QED
    BY <1>1, <2>3 DEF Resized
<1>5. Slots' = Slots /\ source' = source
  BY <1>1 DEF Slots, given
<1>6. (Given /\ LayoutInv /\ PlanInv)'
  <2>1. raw' \in BOOLEAN
    BY <1>1 DEF IInv, Given
  <2> QED
    BY <1>1, <1>2, <1>3, <2>1, StepKeeps
<1>7. /\ TableInv' /\ DOMAIN table' = DOMAIN table
      /\ \A k \in DOMAIN table : table'[k].id = table[k].id
  <2>1. CASE table' = table
    BY <1>5, <2>1 DEF IInv, TableInv, End
  <2>2. CASE /\ table' = [table EXCEPT ![index].size = This.dst]
             /\ This.how = "expand" /\ Fits(table, index, This.dst * MB)
    <3>1. PICK d \in Nat \ {0} : d = This.dst
      BY <1>2, <1>3, <2>2 DEF StepOk, StepType
    <3>2. PICK q : q = table[index]
      OBVIOUS
    <3>3. q \in [offset : Nat, size : Nat \ {0}, id : Slots \cup {0, -1}, efi : BOOLEAN]
      BY <1>2, <3>2 DEF IInv, TableInv
    <3>4. (d * MB) \div MB = d
      <4>1. MB \in Nat \ {0}
        BY CopyAssumption
      <4> QED
        BY <4>1
    <3>5. q.offset + d <= limit
      BY <2>2, <3>1, <3>2, <3>3, <3>4 DEF Fits, End
    <3>6. limit \in Nat /\ limit < U64 /\ U64 \in Nat
      BY CopyAssumption DEF IInv, Given
    <3>7. q.offset + d <= U64
      BY <3>1, <3>3, <3>5, <3>6
    <3>8. /\ DOMAIN table' = DOMAIN table
          /\ table'[index] = [q EXCEPT !.size = d]
          /\ \A k \in DOMAIN table \ {index} : table'[k] = table[k]
      BY <1>2, <2>2, <3>1, <3>2
    <3>9. /\ table'[index] \in [offset : Nat, size : Nat \ {0}, id : Slots \cup {0, -1}, efi : BOOLEAN]
          /\ table'[index].offset = q.offset /\ table'[index].size = d /\ table'[index].id = q.id
      BY <3>1, <3>3, <3>8
    <3>10. ASSUME NEW k \in DOMAIN table
           PROVE  /\ table'[k] \in [offset : Nat, size : Nat \ {0}, id : Slots \cup {0, -1}, efi : BOOLEAN]
                  /\ table'[k].offset + table'[k].size <= U64
                  /\ table'[k].id = table[k].id
      <4>1. CASE k = index
        BY <3>2, <3>7, <3>9, <4>1
      <4>2. CASE k # index
        BY <3>8, <4>2 DEF IInv, TableInv, End
      <4> QED
        BY <4>1, <4>2
    <3> QED
      BY <1>5, <3>8, <3>10 DEF IInv, TableInv, End
  <2> QED
    BY <1>1, <2>1, <2>2
<1>8. Counted'
  <2>1. Leftover' = Leftover
    BY <1>7 DEF Leftover
  <2>2. Leftover \/ Cardinality(DOMAIN table) <= pos
    BY <1>1 DEF IInv, Counted
  <2> QED
    BY <1>1, <1>3, <1>7, <2>1, <2>2 DEF Counted
<1>9. CopyPoint' /\ SourceInv'
  BY <1>1, <1>4, <1>5 DEF IInv, CopyPoint, SourceInv
<1> QED
  BY <1>6, <1>7, <1>8, <1>9 DEF IInv

\* The last step: after it nothing is counted any more.
LEMMA LastKeeps ==
  ASSUME IInv, pc = "step", pos <= Len(strategy), This.op \in {"make_boot", "guid"},
         UNCHANGED <<layout_vars, given, raw, now, strategy, index, dst_guid>>,
         GoOn \/ (Throw /\ UNCHANGED pos), TableInv'
  PROVE  IInv'
<1>1. /\ pos = Len(strategy) /\ pos \in Nat /\ Len(strategy) \in Nat
      /\ \A j \in DOMAIN dst_guid : dst_guid[j] \in Slots \cup {0}
  BY AtStep
<1>2. \/ pc' = "step" /\ pos' = pos + 1 /\ outcome' = outcome
      \/ pc' = "ended" /\ pos' = pos /\ outcome' = "error"
  BY DEF GoOn, Throw
<1>3. (Given /\ LayoutInv /\ PlanInv)'
  <2>1. raw' \in BOOLEAN
    BY DEF IInv, Given
  <2> QED
    BY <1>1, <1>2, <2>1, StepKeeps
<1>4. Counted'
  <2>1. strategy' # <<>> /\ (pc' = "step" => ~(pos' <= Len(strategy')))
    BY <1>1, <1>2 DEF IInv, PlanInv
  <2> QED
    BY <1>2, <2>1 DEF Counted
<1>5. CopyPoint' /\ SourceInv'
  BY <1>2 DEF IInv, CopyPoint, SourceInv, Slots, given
<1> QED
  BY <1>3, <1>4, <1>5 DEF IInv

LEMMA MakeBootKeeps == IInv /\ MakeBoot => IInv'
<1> SUFFICES ASSUME IInv, MakeBoot
             PROVE  IInv'
  OBVIOUS
<1>1. /\ pc = "step" /\ pos <= Len(strategy) /\ This.op \in {"make_boot", "guid"}
      /\ UNCHANGED <<layout_vars, given, raw, now, strategy, index, dst_guid>>
      /\ GoOn \/ (Throw /\ UNCHANGED pos)
      /\ table' = table \/ table' = [table EXCEPT ![boot_index].efi = TRUE]
  BY DEF MakeBoot, At, This, Done, PassedOver
<1>2. Slots' = Slots
  BY <1>1 DEF Slots, given
<1>3. TableInv'
  <2>1. CASE table' = table
    BY <1>2, <2>1 DEF IInv, TableInv, End
  <2>2. CASE table' = [table EXCEPT ![boot_index].efi = TRUE]
    <3>1. DOMAIN table' = DOMAIN table
      BY <2>2
    <3>2. ASSUME NEW k \in DOMAIN table
          PROVE  /\ table'[k] \in [offset : Nat, size : Nat \ {0}, id : Slots \cup {0, -1}, efi : BOOLEAN]
                 /\ table'[k].offset + table'[k].size <= U64
      <4>1. PICK q : q = table[k]
        OBVIOUS
      <4>2. /\ q \in [offset : Nat, size : Nat \ {0}, id : Slots \cup {0, -1}, efi : BOOLEAN]
            /\ q.offset + q.size <= U64
        BY <4>1 DEF IInv, TableInv, End
      <4>3. table'[k] = q \/ table'[k] = [q EXCEPT !.efi = TRUE]
        BY <2>2, <4>1
      <4> QED
        BY <4>2, <4>3
    <3> QED
      BY <1>2, <3>1, <3>2 DEF IInv, TableInv, End
  <2> QED
    BY <1>1, <2>1, <2>2
<1> QED
  BY <1>1, <1>3, LastKeeps

LEMMA CopyGuidKeeps == IInv /\ CopyGuid => IInv'
<1> SUFFICES ASSUME IInv, CopyGuid
             PROVE  IInv'
  OBVIOUS
<1>1. /\ pc = "step" /\ pos <= Len(strategy) /\ This.op \in {"make_boot", "guid"}
      /\ UNCHANGED <<layout_vars, given, raw, now, strategy, index, dst_guid>>
      /\ GoOn \/ (Throw /\ UNCHANGED pos)
      /\ \/ table' = table
         \/ table' = [k \in DOMAIN table |->
                        [table[k] EXCEPT !.id = IF GuidFor(k) # 0 THEN GuidFor(k) ELSE @]]
  BY DEF CopyGuid, At, This, Done
<1>2. Slots' = Slots
  BY <1>1 DEF Slots, given
<1>3. TableInv'
  <2>1. CASE table' = table
    BY <1>2, <2>1 DEF IInv, TableInv, End
  <2>2. CASE table' = [k \in DOMAIN table |->
                         [table[k] EXCEPT !.id = IF GuidFor(k) # 0 THEN GuidFor(k) ELSE @]]
    <3>1. DOMAIN table' = DOMAIN table
      BY <2>2
    <3>2. ASSUME NEW k \in DOMAIN table
          PROVE  /\ table'[k] \in [offset : Nat, size : Nat \ {0}, id : Slots \cup {0, -1}, efi : BOOLEAN]
                 /\ table'[k].offset + table'[k].size <= U64
      <4>1. PICK q : q = table[k]
        OBVIOUS
      <4>2. /\ q \in [offset : Nat, size : Nat \ {0}, id : Slots \cup {0, -1}, efi : BOOLEAN]
            /\ q.offset + q.size <= U64
        BY <4>1 DEF IInv, TableInv, End
      <4>3. PICK g \in Slots \cup {0} : g = GuidFor(k)
        BY DEF GuidFor, IInv, PlanInv
      <4>4. table'[k] = [q EXCEPT !.id = IF g # 0 THEN g ELSE q.id]
        BY <2>2, <4>1, <4>3
      <4> QED
        BY <4>2, <4>4
    <3> QED
      BY <1>2, <3>1, <3>2 DEF IInv, TableInv, End
  <2> QED
    BY <1>1, <2>1, <2>2
<1> QED
  BY <1>1, <1>3, LastKeeps

LEMMA EndKeeps ==
  ASSUME IInv, UNCHANGED <<layout_vars, given, disks, plan_vars>>,
         \/ pc' = "ended" /\ outcome' \in {"ok", "error", "dead"}
         \/ pc = "online" /\ pc' = "step" /\ outcome' = outcome
         \/ pc' = pc /\ outcome' = outcome
  PROVE  IInv'
<1>1. LayoutInv'
  BY LayoutStays DEF IInv
<1>2. limit' = limit /\ outcome' \in {"running", "refused", "ok", "error", "dead"}
  BY DEF layout_vars, IInv, Given
<1> QED
  BY <1>1, <1>2, QuietKeeps

LEMMA NextHolds == IInv /\ [Next]_vars => IInv'
<1> SUFFICES ASSUME IInv, [Next]_vars
             PROVE  IInv'
  OBVIOUS
<1>1. CASE Scan
  BY <1>1, ScanKeeps
<1>2. CASE PartitionAssign
  BY <1>2, PartitionAssignKeeps
<1>3. CASE Assigned
  BY <1>3, AssignedKeeps
<1>4. CASE MakeList
  BY <1>4, MakeListKeeps
<1>5. CASE Online
  BY <1>5, EndKeeps DEF Online, Throw
<1>6. CASE ClearDisk
  BY <1>6, ClearDiskKeeps
<1>7. CASE CreateBootPartition
  BY <1>7, CreateBootPartitionKeeps
<1>8. CASE CreateCopy
  BY <1>8, CreateCopyKeeps
<1>9. CASE UseNoPartition
  BY <1>9, EndKeeps DEF UseNoPartition
<1>10. CASE CopyVolume
  BY <1>10, CopyVolumeKeeps
<1>11. CASE ResizeBack
  BY <1>11, ResizeBackKeeps
<1>12. CASE MakeBoot
  BY <1>12, MakeBootKeeps
<1>13. CASE CopyGuid
  BY <1>13, CopyGuidKeeps
<1>14. CASE Return
  BY <1>14, EndKeeps DEF Return
<1>15. CASE UNCHANGED vars
  <2>1. UNCHANGED <<layout_vars, given, disks, plan_vars>> /\ pc' = pc /\ outcome' = outcome
    BY <1>15 DEF vars
  <2> QED
    BY <2>1, EndKeeps
<1> QED
  BY <1>1, <1>2, <1>3, <1>4, <1>5, <1>6, <1>7, <1>8, <1>9, <1>10, <1>11, <1>12, <1>13, <1>14,
     <1>15 DEF Next, Stop

\* A step that was passed over is one of the list.
SkippedInv == skipped \subseteq 1 .. Len(strategy)

LEMMA SkippedHolds == IInv /\ SkippedInv /\ [Next]_vars => SkippedInv'
<1> SUFFICES ASSUME IInv, SkippedInv, [Next]_vars
             PROVE  SkippedInv'
  OBVIOUS
<1>1. ASSUME pc \in {"step", "copy", "resize"}, pos <= Len(strategy), strategy' = strategy,
             skipped' = skipped \/ skipped' = skipped \cup {pos}
      PROVE  SkippedInv'
  BY <1>1, AtStep DEF SkippedInv
<1>2. ASSUME strategy' = strategy, skipped' = skipped
      PROVE  SkippedInv'
  BY <1>2 DEF SkippedInv
<1>3. CASE Scan \/ PartitionAssign \/ Assigned \/ Online \/ UseNoPartition \/ CopyVolume \/ Return
  BY <1>2, <1>3 DEF Scan, PartitionAssign, Assigned, Online, UseNoPartition, CopyVolume, Return, plan_vars
<1>4. CASE MakeList
  <2>1. strategy = <<>> /\ skipped' = skipped
    BY <1>4 DEF MakeList, IInv, PlanInv
  <2>2. skipped' = {}
    BY <2>1 DEF SkippedInv
  <2> QED
    BY <2>2 DEF SkippedInv
<1>5. CASE CreateBootPartition
  BY <1>2, <1>5 DEF CreateBootPartition, Done, NotCreated, plan_vars
<1>6. CASE CreateCopy
  BY <1>2, <1>6 DEF CreateCopy, NotCreated, plan_vars
<1>7. CASE ClearDisk \/ MakeBoot \/ CopyGuid
  BY <1>1, <1>7 DEF ClearDisk, MakeBoot, CopyGuid, At, Done, PassedOver
<1>8. CASE ResizeBack
  <2>1. pc = "resize" /\ pos <= Len(strategy)
    BY <1>8 DEF ResizeBack, IInv, CopyPoint
  <2> QED
    BY <1>1, <1>8, <2>1 DEF ResizeBack, Done, PassedOver
<1>9. CASE UNCHANGED vars
  BY <1>2, <1>9 DEF vars, plan_vars
<1> QED
  BY <1>3, <1>4, <1>5, <1>6, <1>7, <1>8, <1>9 DEF Next, Stop

-----------------------------------------------------------------------------
(* The theorems.                                                             *)

\* Whatever source, destination and failures: the tables of the disks keep their
\* types and bounds, and on a disk that was cleared the number of a partition
\* made for a copy is below the number of steps, by which CopyDisk allocates
\* dst_guid, as its assertion says.
THEOREM TypeCorrect == Spec => []TypeOK
<1>1. Init => IInv /\ SkippedInv
  BY InitHolds DEF Init, SkippedInv
<1>2. IInv /\ SkippedInv /\ [Next]_vars => (IInv /\ SkippedInv)'
  BY NextHolds, SkippedHolds
<1>3. IInv /\ SkippedInv => TypeOK
  <2> SUFFICES ASSUME IInv, SkippedInv
               PROVE  TypeOK
    OBVIOUS
  <2>1. \A k \in DOMAIN table : table[k] \in Partition
    <3> SUFFICES ASSUME NEW k \in DOMAIN table
                 PROVE  table[k] \in Partition
      OBVIOUS
    <3>1. PICK q : q = table[k]
      OBVIOUS
    <3>2. /\ q \in [offset : Nat, size : Nat \ {0}, id : Slots \cup {0, -1}, efi : BOOLEAN]
          /\ q.offset + q.size <= U64
      BY <3>1 DEF IInv, TableInv, End
    <3>3. U64 \in Nat
      BY CopyAssumption
    <3>4. q.offset \in 0 .. U64 /\ q.size \in 0 .. U64
      BY <3>2, <3>3
    <3> QED
      BY <3>1, <3>2, <3>4 DEF Partition
  <2>2. now \in [Slots -> Nat]
    <3>1. \A s \in Slots : source.part[s].size * MB \in Nat
      BY SlotFacts, CopyAssumption DEF IInv, Given
    <3> QED
      BY <3>1 DEF IInv, SourceInv
  <2>3. ASSUME pc \in {"copy", "resize"}, ~Leftover
        PROVE  index \in DOMAIN dst_guid
    <3>1. pos <= Len(strategy) /\ This.op = "copy" /\ index \in DOMAIN table /\ index <= pos
      BY <2>3 DEF IInv, CopyPoint, Counted
    <3>2. pos \in 1 .. Len(strategy) /\ Len(strategy) \in Nat /\ pos # Len(strategy)
      BY <2>3, <3>1, AtStep
    <3>3. index \in Nat
      BY <3>1 DEF IInv, TableInv
    <3> QED
      BY <3>1, <3>2, <3>3 DEF IInv, PlanInv
  <2>4. DOMAIN dst_guid \subseteq Nat
    <3>1. Len(strategy) \in Nat
      BY DEF IInv, PlanInv
    <3> QED
      BY <3>1 DEF IInv, PlanInv
  <2> QED
    BY <2>1, <2>2, <2>3, <2>4 DEF TypeOK, IInv, Given, TableInv, PlanInv, SkippedInv
<1> QED
  BY <1>1, <1>2, <1>3, PTL DEF Spec

\* However the copy of a disk ends, every partition of the source has the size it
\* began with: what CopyVolume gives to Resize is refused, and so is what it
\* gives to undo it.
THEOREM SourceAlwaysKept == Spec => []SourceKept
<1>1. Init => IInv
  BY InitHolds
<1>2. IInv /\ [Next]_vars => IInv'
  BY NextHolds
<1>3. IInv => SourceKept
  BY DEF IInv, SourceInv, SourceKept
<1> QED
  BY <1>1, <1>2, <1>3, PTL DEF Spec

=============================================================================
