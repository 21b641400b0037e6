---------------------------- MODULE SsdFtlProofs ----------------------------
(***************************************************************************)
(* Proofs about SsdFtl, for every drive.  Two layers: the lists, the open  *)
(* blocks and the ranges of the counters are sound whatever happens; that  *)
(* the FTL and the pages agree, and that no check of the code fails, holds *)
(* for as long as no collection stops half way through a block.            *)
(*                                                                         *)
(* A step of the drive goes through tables in which one unit has no page:  *)
(* its old page is invalid, its new one not yet written.  Both layers are  *)
(* therefore stated of tables d in which the units of H, none or one, are  *)
(* in transit.                                                             *)
(***************************************************************************)
EXTENDS SsdFtl, FiniteSetTheorems, WellFoundedInduction, TLAPS

Drives == [type   : [Blocks -> BlockTypes \cup {"empty"}],
           page   : [Blocks -> [Pages -> Units \cup {Blank, Dead}]],
           valid  : [Blocks -> Int],
           ftl    : [Units -> Address],
           empty  : Seq(Blocks),
           list   : [BlockTypes -> [Blocks -> Nat]],
           open   : [BlockTypes -> Address],
           mapped : Int,
           fault  : {"none", "full", "sanity"}]

\* The FTL names, for a unit in use, the page that holds it ...
Found(d, H) == \A v \in Units \ H : d.ftl[v] # None =>
  /\ d.ftl[v].unit < TotalOf(d.type[d.ftl[v].block])
  /\ d.page[d.ftl[v].block][d.ftl[v].unit] = v

\* ... and no other page holds it.
Known(d, H) == \A b \in Blocks, p \in Pages :
  p < TotalOf(d.type[b]) /\ d.page[b][p] \in Units =>
    /\ d.page[b][p] \notin H
    /\ d.ftl[d.page[b][p]] = [block |-> b, unit |-> p]

InUse(d, H) == {v \in Units : d.ftl[v] # None} \cup H

Counted(d) == \A b \in Blocks : d.valid[b] = Cardinality(Live(d, b))

Bounded(d) == \A b \in Blocks : 0 <= d.valid[b] /\ d.valid[b] <= Cardinality(Live(d, b))

Listed(d) ==
  /\ \A i \in 1 .. Len(d.empty) : d.type[d.empty[i]] = "empty"
  /\ \A i, j \in 1 .. Len(d.empty) : d.empty[i] = d.empty[j] => i = j
  /\ \A b \in Blocks : d.type[b] = "empty" => \E i \in 1 .. Len(d.empty) : d.empty[i] = b
  /\ \A t \in BlockTypes, b \in Blocks : d.list[t][b] = IF d.type[b] = t THEN 1 ELSE 0

Writable(d) == \A t \in BlockTypes : d.open[t] # None =>
  /\ d.type[d.open[t].block] = t
  /\ d.open[t].unit < TotalOf(t)
  /\ \A p \in Pages : p < TotalOf(t) =>
       (d.page[d.open[t].block][p] = Blank <=> p >= d.open[t].unit)

\* A block in use that is not full is an open one.
Closed(d) == \A b \in Blocks : d.type[b] # "empty" =>
  \/ d.page[b][TotalOf(d.type[b]) - 1] # Blank
  \/ \E t \in BlockTypes : d.open[t] # None /\ d.open[t].block = b

\* A victim is a block in use whose last page is written, so never an open one.
Taken(d, w) == w # 0 => d.type[w] # "empty" /\ IsFull(d, w)

Sound(d, H) ==
  /\ d \in Drives
  /\ d.mapped = Cardinality(InUse(d, H))
  /\ Bounded(d) /\ Listed(d) /\ Writable(d) /\ Closed(d)

Agree(d, H) == d.fault # "sanity" /\ Found(d, H) /\ Known(d, H) /\ Counted(d)

ControlOK ==
  /\ pc \in {"idle", "write", "foreground", "background"}
  /\ unit \in 0 .. TotalUnit /\ last \in Units /\ victim \in Blocks \cup {0}
  /\ config \in Configs /\ starts \in 1 .. MaxStarts

SoundInv ==
  /\ ControlOK
  /\ StartedOnce => Sound(drive, {}) /\ Taken(drive, victim)

IInv == SoundInv /\ (StartedOnce => Agree(drive, {}))

-----------------------------------------------------------------------------
(* The sizes of blocks, and addresses.                                       *)

\* An SLC block has PageNum pages, a TLC block three times as many, and a block
\* without a type none.
LEMMA Totals ==
  /\ TotalOf("slc") = PageNum /\ TotalOf("tlc") = 3 * PageNum /\ TotalOf("empty") = 0
  /\ \A t \in BlockTypes : TotalOf(t) \in Nat /\ TotalOf(t) > 0 /\ TotalOf(t) <= 3 * PageNum
  /\ \A t \in BlockTypes \cup {"empty"} : TotalOf(t) \in Nat
BY SizeAssumption DEF TotalOf, BlockTypes

\* An address other than None has a block and a page.
LEMMA Addresses ==
  ASSUME NEW a \in Address, a # None
  PROVE  a.block \in Blocks /\ a.unit \in Pages /\ a = [block |-> a.block, unit |-> a.unit]
BY DEF Address

LEMMA NotNone == \A b \in Blocks : \A p : [block |-> b, unit |-> p] # None
BY DEF None, Blocks

\* The last page of a block is a page.
LEMMA LastPage ==
  ASSUME NEW t \in BlockTypes
  PROVE  TotalOf(t) - 1 \in Pages
BY Totals, SizeAssumption DEF Pages

LEMMA NotUnits == Blank \notin Units /\ Dead \notin Units /\ Blank # Dead
BY SizeAssumption DEF Units

\* The live pages of a block are finitely many.
LEMMA LiveFinite ==
  ASSUME NEW d \in Drives, NEW b \in Blocks
  PROVE  IsFiniteSet(Live(d, b)) /\ Live(d, b) \subseteq Pages
<1>1. d.type[b] \in BlockTypes \cup {"empty"}
  BY DEF Drives
<1>2. TotalOf(d.type[b]) \in Nat
  BY <1>1, Totals
<1>3. IsFiniteSet(0 .. TotalOf(d.type[b]) - 1)
  BY <1>2, FS_Interval
<1>4. Live(d, b) \subseteq 0 .. TotalOf(d.type[b]) - 1
  BY DEF Live
<1>5. 0 .. TotalOf(d.type[b]) - 1 \subseteq Pages
  BY <1>1, Totals, SizeAssumption DEF Pages
<1> QED
  BY <1>3, <1>4, <1>5, FS_Subset

\* A page is live when it is one of its block's and holds a unit.
LEMMA LivePages ==
  ASSUME NEW d \in Drives, NEW b \in Blocks, NEW p
  PROVE  p \in Live(d, b) <=> p \in Pages /\ p < TotalOf(d.type[b]) /\ d.page[b][p] \in Units
<1>1. d.type[b] \in BlockTypes \cup {"empty"}
  BY DEF Drives
<1> QED
  BY <1>1, Totals, SizeAssumption DEF Live, Pages

LEMMA UnitsFinite == IsFiniteSet(Units) /\ Cardinality(Units) = TotalUnit
<1>1. IsFiniteSet(Units)
  BY SizeAssumption, FS_Interval DEF Units
<1>2. Cardinality(0 .. TotalUnit - 1) = (TotalUnit - 1) - 0 + 1
  BY SizeAssumption, FS_Interval
<1> QED
  BY <1>1, <1>2, SizeAssumption DEF Units

-----------------------------------------------------------------------------
(* The steps of the drive.                                                   *)

\* A unit that has an address is in use anyhow.
LEMMA InUseAnyhow ==
  ASSUME NEW d, NEW u \in Units, d.ftl[u] # None
  PROVE  InUse(d, {u}) = InUse(d, {})
BY DEF InUse

\* A command that ends with a fault leaves the tables as they are.
LEMMA FailSound ==
  ASSUME NEW d, NEW H, NEW w, NEW f \in {"none", "full", "sanity"}, Sound(d, H), Taken(d, w)
  PROVE  /\ Sound(Fail(d, f), H) /\ Taken(Fail(d, f), w)
         /\ Fail(d, f).fault = f /\ Fail(d, f).open = d.open
         /\ Agree(d, H) /\ f # "sanity" => Agree(Fail(d, f), H)
<1> DEFINE e == Fail(d, f)
<1>1. d \in Drives /\ e = [d EXCEPT !.fault = f]
  BY DEF Sound, Fail
<1> HIDE DEF e
<1>2. /\ e \in Drives /\ e.fault = f
      /\ e.type = d.type /\ e.page = d.page /\ e.valid = d.valid /\ e.ftl = d.ftl
      /\ e.empty = d.empty /\ e.list = d.list /\ e.open = d.open /\ e.mapped = d.mapped
  BY <1>1 DEF Drives
<1>3. \A b \in Blocks : Live(e, b) = Live(d, b)
  BY <1>2 DEF Live
<1>4. InUse(e, H) = InUse(d, H)
  BY <1>2 DEF InUse
<1>5. Listed(e) /\ Writable(e) /\ Closed(e)
  BY <1>2 DEF Sound, Listed, Writable, Closed
<1>6. Bounded(e)
  BY <1>2, <1>3 DEF Sound, Bounded
<1>7. Taken(e, w)
  BY <1>2 DEF Taken, IsFull
<1>8. Agree(d, H) /\ f # "sanity" => Agree(e, H)
  BY <1>2, <1>3 DEF Agree, Found, Known, Counted
<1> QED
  BY <1>2, <1>4, <1>5, <1>6, <1>7, <1>8 DEF Sound, e

\* InvalidUnit whatever the FTL names: the count of a block is never below zero
\* nor above the pages that are live.
LEMMA InvalidSound ==
  ASSUME NEW d, NEW u \in Units, NEW w \in Blocks \cup {0},
         Sound(d, {}), Taken(d, w), d.ftl[u] # None
  PROVE  LET e == InvalidUnit(d, d.ftl[u])
         IN /\ Sound(e, {}) /\ Sound(e, {u}) /\ Taken(e, w)
            /\ e.open = d.open /\ e.ftl = d.ftl /\ e.empty = d.empty
            /\ e.fault = d.fault \/ e.fault = "sanity"
            /\ Agree(d, {}) =>
                 /\ Agree(e, {u})
                 /\ \A b \in Blocks :
                      e.valid[b] = d.valid[b] - (IF b = d.ftl[u].block THEN 1 ELSE 0)
<1> DEFINE a == d.ftl[u]
           x == a.block
           q == a.unit
           e == InvalidUnit(d, a)
           Refused == d.type[x] = "empty" \/ d.valid[x] = 0
           Dies == d.page[x][q] \in Units
<1> d \in Drives
  BY DEF Sound
<1>1. a \in Address /\ x \in Blocks /\ q \in Pages /\ a = [block |-> x, unit |-> q]
  <2>1. a \in Address
    BY DEF Drives
  <2> QED
    BY <2>1, Addresses
<1>2. Agree(d, {}) => q < TotalOf(d.type[x]) /\ d.page[x][q] = u /\ q \in Live(d, x)
  <2> SUFFICES ASSUME Agree(d, {})
               PROVE  q < TotalOf(d.type[x]) /\ d.page[x][q] = u /\ q \in Live(d, x)
    OBVIOUS
  <2>1. q < TotalOf(d.type[x]) /\ d.page[x][q] = u
    BY DEF Agree, Found
  <2> QED
    BY <1>1, <2>1, LivePages
<1>3. Agree(d, {}) => ~Refused /\ Dies
  <2> SUFFICES ASSUME Agree(d, {})
               PROVE  ~Refused /\ Dies
    OBVIOUS
  <2>1. d.type[x] # "empty"
    BY <1>1, <1>2, Totals DEF Pages
  <2>2. Cardinality(Live(d, x)) # 0
    BY <1>1, <1>2, LiveFinite, FS_EmptySet
  <2> QED
    BY <1>1, <1>2, <2>1, <2>2 DEF Agree, Counted
<1>4. CASE Refused
  <2>1. e = Fail(d, "sanity")
    BY <1>4 DEF InvalidUnit
  <2>2. /\ Sound(e, {}) /\ Taken(e, w) /\ e.open = d.open /\ e.fault = "sanity"
    BY <2>1, FailSound
  <2>3. e.ftl = d.ftl /\ e.empty = d.empty
    BY <2>1 DEF Fail, Drives
  <2> QED
    BY <1>3, <1>4, <2>2, <2>3, InUseAnyhow DEF Sound
<1>5. CASE ~Refused
  <2>1. e = [d EXCEPT !.valid = [d.valid EXCEPT ![x] = d.valid[x] - 1],
                      !.page = IF Dies THEN [d.page EXCEPT ![x] = [d.page[x] EXCEPT ![q] = Dead]]
                                       ELSE d.page,
                      !.fault = IF Dies THEN d.fault ELSE "sanity"]
    <3>1. CASE Dies
      BY <1>1, <1>5, <3>1 DEF InvalidUnit, Drives
    <3>2. CASE ~Dies
      BY <1>1, <1>5, <3>2 DEF InvalidUnit, Fail, Drives
    <3> QED
      BY <3>1, <3>2
  <2> HIDE DEF e
  <2>2. /\ e.valid = [d.valid EXCEPT ![x] = d.valid[x] - 1]
        /\ e.page = IF Dies THEN [d.page EXCEPT ![x] = [d.page[x] EXCEPT ![q] = Dead]] ELSE d.page
        /\ e.fault = IF Dies THEN d.fault ELSE "sanity"
        /\ e.type = d.type /\ e.ftl = d.ftl /\ e.empty = d.empty /\ e.list = d.list
        /\ e.open = d.open /\ e.mapped = d.mapped
    BY <2>1 DEF Drives
  <2>same. /\ e.type = d.type /\ e.ftl = d.ftl /\ e.empty = d.empty /\ e.list = d.list
           /\ e.open = d.open /\ e.mapped = d.mapped
    BY <2>2
  <2>3. e \in Drives
    <3>old. /\ d.valid \in [Blocks -> Int]
            /\ d.page \in [Blocks -> [Pages -> Units \cup {Blank, Dead}]]
      BY DEF Drives
    <3>v. e.valid \in [Blocks -> Int]
      <4>1. e.valid = [d.valid EXCEPT ![x] = d.valid[x] - 1]
        BY <2>2
      <4>2. d.valid[x] - 1 \in Int
        BY <1>1, <3>old
      <4> QED
        BY <3>old, <4>1, <4>2
    <3>p. e.page \in [Blocks -> [Pages -> Units \cup {Blank, Dead}]]
      <4>1. CASE Dies
        <5>1. [d.page[x] EXCEPT ![q] = Dead] \in [Pages -> Units \cup {Blank, Dead}]
          BY <1>1, <3>old
        <5>2. e.page = [d.page EXCEPT ![x] = [d.page[x] EXCEPT ![q] = Dead]]
          BY <2>2, <4>1
        <5> QED
          BY <1>1, <3>old, <5>1, <5>2
      <4>2. CASE ~Dies
        BY <2>2, <3>old, <4>2
      <4> QED
        BY <4>1, <4>2
    <3>1. e.valid \in [Blocks -> Int] /\ e.page \in [Blocks -> [Pages -> Units \cup {Blank, Dead}]]
      BY <3>v, <3>p
    <3>2. e.fault \in {"none", "full", "sanity"}
      BY <2>2 DEF Drives
    <3> QED
      BY <2>1, <3>1, <3>2 DEF Drives
  <2>4. \A b \in Blocks, p \in Pages :
          e.page[b][p] = IF Dies /\ b = x /\ p = q THEN Dead ELSE d.page[b][p]
    <3>1. d.page \in [Blocks -> [Pages -> Units \cup {Blank, Dead}]]
      BY DEF Drives
    <3>2. CASE Dies
      <4>1. e.page = [d.page EXCEPT ![x] = [d.page[x] EXCEPT ![q] = Dead]]
        BY <2>2, <3>2
      <4> QED
        BY <1>1, <3>1, <3>2, <4>1
    <3>3. CASE ~Dies
      BY <2>2, <3>3
    <3> QED
      BY <3>2, <3>3
  <2>5. \A b \in Blocks, p \in Pages : e.page[b][p] = Blank <=> d.page[b][p] = Blank
    BY <2>4, NotUnits
  <2>6. \A b \in Blocks : Live(e, b) = Live(d, b) \ (IF b = x THEN {q} ELSE {})
    <3> SUFFICES ASSUME NEW b \in Blocks, NEW p
                 PROVE  p \in Live(e, b) <=> p \in Live(d, b) /\ ~(b = x /\ p = q)
      OBVIOUS
    <3>1. p \in Live(d, b) <=> p \in Pages /\ p < TotalOf(d.type[b]) /\ d.page[b][p] \in Units
      BY LivePages
    <3>2. p \in Live(e, b) <=> p \in Pages /\ p < TotalOf(d.type[b]) /\ e.page[b][p] \in Units
      BY <2>2, <2>3, LivePages
    <3> QED
      BY <2>4, <3>1, <3>2, NotUnits
  <2>7. \A b \in Blocks : e.valid[b] = IF b = x THEN d.valid[x] - 1 ELSE d.valid[b]
    BY <1>1, <2>2 DEF Drives
  <2>8. Cardinality(Live(e, x)) = Cardinality(Live(d, x)) - (IF q \in Live(d, x) THEN 1 ELSE 0)
    BY <1>1, <2>6, LiveFinite, FS_RemoveElement, FS_CardinalityType
  <2>9. Bounded(e)
    <3> SUFFICES ASSUME NEW b \in Blocks
                 PROVE  0 <= e.valid[b] /\ e.valid[b] <= Cardinality(Live(e, b))
      BY DEF Bounded
    <3>1. 0 <= d.valid[b] /\ d.valid[b] <= Cardinality(Live(d, b)) /\ d.valid[b] \in Int
      BY DEF Sound, Bounded, Drives
    <3>2. Cardinality(Live(d, b)) \in Nat
      BY LiveFinite, FS_CardinalityType
    <3>3. CASE b = x
      BY <1>5, <2>7, <2>8, <3>1, <3>2, <3>3
    <3>4. CASE b # x
      BY <2>6, <2>7, <3>1, <3>4
    <3> QED
      BY <3>3, <3>4
  <2>10. Listed(e)
    <3>1. Listed(d)
      BY DEF Sound
    <3> QED
      BY <2>same, <3>1 DEF Listed
  <2>11. Writable(e)
    <3> SUFFICES ASSUME NEW t \in BlockTypes, d.open[t] # None
                 PROVE  /\ d.type[d.open[t].block] = t /\ d.open[t].unit < TotalOf(t)
                        /\ \A p \in Pages : p < TotalOf(t) =>
                             (e.page[d.open[t].block][p] = Blank <=> p >= d.open[t].unit)
      BY <2>same DEF Writable
    <3>1. d.open[t].block \in Blocks
      <4>1. d.open[t] \in Address
        BY DEF Drives
      <4> QED
        BY <4>1, Addresses
    <3> QED
      BY <2>5, <3>1 DEF Sound, Writable
  <2>closed. Closed(e)
    <3> SUFFICES ASSUME NEW b \in Blocks, d.type[b] # "empty",
                        ~\E t \in BlockTypes : d.open[t] # None /\ d.open[t].block = b
                 PROVE  e.page[b][TotalOf(d.type[b]) - 1] # Blank
      BY <2>same DEF Closed
    <3>1. d.type[b] \in BlockTypes /\ d.page[b][TotalOf(d.type[b]) - 1] # Blank
      BY DEF Sound, Closed, Drives
    <3> QED
      BY <2>5, <3>1, LastPage
  <2>12. Taken(e, w)
    <3> SUFFICES ASSUME w # 0
                 PROVE  d.type[w] # "empty" /\ e.page[w][TotalOf(d.type[w]) - 1] # Blank
      BY <2>2 DEF Taken, IsFull
    <3>1. w \in Blocks /\ d.type[w] # "empty" /\ d.page[w][TotalOf(d.type[w]) - 1] # Blank
      BY DEF Taken, IsFull
    <3>2. d.type[w] \in BlockTypes
      BY <3>1 DEF Drives
    <3> QED
      BY <2>5, <3>1, <3>2, LastPage
  <2>13. InUse(e, {}) = InUse(d, {}) /\ InUse(e, {u}) = InUse(d, {})
    BY <2>2 DEF InUse
  <2>14. Sound(e, {}) /\ Sound(e, {u})
    BY <2>2, <2>3, <2>9, <2>10, <2>11, <2>13, <2>closed DEF Sound
  <2>15. ASSUME Agree(d, {})
         PROVE  Agree(e, {u})
    <3>1. Dies /\ d.page[x][q] = u /\ q \in Live(d, x)
      BY <1>2, <1>3, <2>15
    <3>2. Counted(e)
      <4> SUFFICES ASSUME NEW b \in Blocks
                   PROVE  e.valid[b] = Cardinality(Live(e, b))
        BY DEF Counted
      <4>1. d.valid[b] = Cardinality(Live(d, b)) /\ d.valid[x] = Cardinality(Live(d, x))
        BY <1>1, <2>15 DEF Agree, Counted
      <4>2. CASE b = x
        BY <2>7, <2>8, <3>1, <4>1, <4>2
      <4>3. CASE b # x
        <5>1. Live(e, b) = Live(d, b)
          BY <2>6, <4>3
        <5> QED
          BY <2>7, <4>1, <4>3, <5>1
      <4> QED
        BY <4>2, <4>3
    <3>3. Found(e, {u})
      <4> SUFFICES ASSUME NEW v \in Units \ {u}, d.ftl[v] # None
                   PROVE  /\ d.ftl[v].unit < TotalOf(d.type[d.ftl[v].block])
                          /\ e.page[d.ftl[v].block][d.ftl[v].unit] = v
        BY <2>2 DEF Found
      <4>1. /\ d.ftl[v].unit < TotalOf(d.type[d.ftl[v].block])
            /\ d.page[d.ftl[v].block][d.ftl[v].unit] = v
        BY <2>15 DEF Agree, Found
      <4>2. d.ftl[v].block \in Blocks /\ d.ftl[v].unit \in Pages
        <5>1. d.ftl[v] \in Address
          BY DEF Drives
        <5> QED
          BY <5>1, Addresses
      <4> QED
        BY <2>4, <3>1, <4>1, <4>2
    <3>4. Known(e, {u})
      <4> SUFFICES ASSUME NEW b \in Blocks, NEW p \in Pages,
                          p < TotalOf(d.type[b]), e.page[b][p] \in Units
                   PROVE  e.page[b][p] \notin {u} /\ d.ftl[e.page[b][p]] = [block |-> b, unit |-> p]
        BY <2>same DEF Known
      <4>1. ~(b = x /\ p = q) /\ e.page[b][p] = d.page[b][p]
        BY <2>4, <3>1, NotUnits
      <4>2. d.ftl[d.page[b][p]] = [block |-> b, unit |-> p]
        BY <2>15, <4>1 DEF Agree, Known
      <4>3. d.page[b][p] # u
        BY <1>1, <4>1, <4>2
      <4> QED
        BY <4>1, <4>2, <4>3
    <3> QED
      BY <2>2, <2>15, <3>1, <3>2, <3>3, <3>4 DEF Agree
  <2>16. e.fault = d.fault \/ e.fault = "sanity"
    BY <2>2
  <2>17. \A b \in Blocks : e.valid[b] = d.valid[b] - (IF b = x THEN 1 ELSE 0)
    BY <1>1, <2>7 DEF Drives
  <2> QED
    BY <2>2, <2>12, <2>14, <2>15, <2>16, <2>17 DEF e
<1> QED
  BY <1>4, <1>5

\* Whether or not the unit had a page, it is now in transit, or a check failed.
LEMMA ReplacedSound ==
  ASSUME NEW d, NEW u \in Units, NEW w \in Blocks \cup {0}, Sound(d, {}), Taken(d, w)
  PROVE  LET e == Replaced(d, u)
         IN /\ Sound(e, {u}) /\ Taken(e, w) /\ e.open = d.open /\ e.empty = d.empty
            /\ e.fault = d.fault \/ (e.fault = "sanity" /\ Sound(e, {}))
            /\ Agree(d, {}) => Agree(e, {u})
<1>1. CASE d.ftl[u] # None
  BY <1>1, InvalidSound DEF Replaced
<1>2. CASE d.ftl[u] = None
  <2> DEFINE e == Replaced(d, u)
  <2> d \in Drives
    BY DEF Sound
  <2>1. e = [d EXCEPT !.mapped = d.mapped + 1]
    BY <1>2 DEF Replaced, Drives
  <2> HIDE DEF e
  <2>2. /\ e.mapped = d.mapped + 1 /\ e \in Drives
        /\ e.valid = d.valid /\ e.page = d.page
        /\ e.type = d.type /\ e.ftl = d.ftl /\ e.empty = d.empty /\ e.list = d.list
        /\ e.open = d.open /\ e.fault = d.fault
    <3>1. d.mapped + 1 \in Int
      BY DEF Drives
    <3>2. e \in Drives
      BY <2>1, <3>1 DEF Drives
    <3> QED
      BY <2>1, <3>2 DEF Drives
  <2>3. \A b \in Blocks : Live(e, b) = Live(d, b)
    BY <2>2 DEF Live
  <2>4. e.mapped = Cardinality(InUse(e, {u}))
    <3>1. IsFiniteSet(InUse(d, {}))
      BY UnitsFinite, FS_Subset DEF InUse
    <3>2. u \notin InUse(d, {}) /\ InUse(e, {u}) = InUse(d, {}) \cup {u}
      BY <1>2, <2>2 DEF InUse
    <3>3. Cardinality(InUse(e, {u})) = Cardinality(InUse(d, {})) + 1
      BY <3>1, <3>2, FS_AddElement
    <3> QED
      BY <2>2, <3>3 DEF Sound
  <2>5. Bounded(e) /\ Listed(e) /\ Writable(e) /\ Closed(e) /\ Taken(e, w)
    BY <2>2, <2>3 DEF Sound, Bounded, Listed, Writable, Closed, Taken, IsFull
  <2>6. ASSUME Agree(d, {})
        PROVE  Agree(e, {u})
    <3>1. Known(e, {u})
      <4> SUFFICES ASSUME NEW b \in Blocks, NEW p \in Pages,
                          p < TotalOf(d.type[b]), d.page[b][p] \in Units
                   PROVE  /\ d.page[b][p] \notin {u}
                          /\ d.ftl[d.page[b][p]] = [block |-> b, unit |-> p]
        BY <2>2 DEF Known
      <4>1. d.ftl[d.page[b][p]] = [block |-> b, unit |-> p]
        BY <2>6 DEF Agree, Known
      <4> QED
        BY <1>2, <4>1, NotNone
    <3>2. Found(e, {u}) /\ Counted(e)
      BY <2>2, <2>3, <2>6 DEF Agree, Found, Counted
    <3> QED
      BY <2>2, <2>6, <3>1, <3>2 DEF Agree
  <2> QED
    BY <2>2, <2>4, <2>5, <2>6 DEF Sound, e
<1> QED
  BY <1>1, <1>2

\* A block popped from the list of empty blocks is empty: the check of
\* PopupEmptyBlock never fails.
LEMMA PopupSound ==
  ASSUME NEW d, NEW H \in SUBSET Units, NEW w \in Blocks \cup {0}, NEW t \in BlockTypes,
         Sound(d, H), Taken(d, w), d.open[t] = None, d.empty # <<>>
  PROVE  LET e == Popup(d, t)
         IN /\ Sound(e, H) /\ Taken(e, w)
            /\ e.fault = d.fault /\ e.open[t] # None
            /\ e.open = [d.open EXCEPT ![t] = [block |-> Head(d.empty), unit |-> 0]]
            /\ Len(e.empty) = Len(d.empty) - 1
            /\ \A b \in Blocks : d.type[b] # "empty" => e.valid[b] = d.valid[b]
            /\ Agree(d, H) => Agree(e, H)
<1> DEFINE x == Head(d.empty)
           e == Popup(d, t)
<1> d \in Drives
  BY DEF Sound
<1>1. /\ d.empty \in Seq(Blocks) /\ Len(d.empty) \in Nat /\ Len(d.empty) > 0
      /\ x = d.empty[1] /\ x \in Blocks
      /\ Tail(d.empty) \in Seq(Blocks) /\ Len(Tail(d.empty)) = Len(d.empty) - 1
      /\ \A i \in 1 .. Len(d.empty) - 1 : Tail(d.empty)[i] = d.empty[i + 1]
  BY DEF Drives
<1>2. d.type[x] = "empty"
  BY <1>1 DEF Sound, Listed
<1>3. e = [d EXCEPT !.empty = Tail(d.empty),
                    !.page = [d.page EXCEPT ![x] = BlankBlock],
                    !.type = [d.type EXCEPT ![x] = t],
                    !.valid = [d.valid EXCEPT ![x] = 0],
                    !.list = [d.list EXCEPT ![t] = [d.list[t] EXCEPT ![x] = d.list[t][x] + 1]],
                    !.open = [d.open EXCEPT ![t] = [block |-> x, unit |-> 0]]]
  BY <1>2 DEF Popup, Drives
<1>4. /\ e.empty = Tail(d.empty)
      /\ e.page = [d.page EXCEPT ![x] = BlankBlock]
      /\ e.type = [d.type EXCEPT ![x] = t]
      /\ e.valid = [d.valid EXCEPT ![x] = 0]
      /\ e.list = [d.list EXCEPT ![t] = [d.list[t] EXCEPT ![x] = d.list[t][x] + 1]]
      /\ e.open = [d.open EXCEPT ![t] = [block |-> x, unit |-> 0]]
      /\ e.ftl = d.ftl /\ e.mapped = d.mapped /\ e.fault = d.fault
  BY <1>3 DEF Drives
<1>5. [block |-> x, unit |-> 0] \in Address /\ 0 \in Pages
  BY <1>1, SizeAssumption DEF Address, Pages
<1>6. e \in Drives
  <2>1. /\ e.page \in [Blocks -> [Pages -> Units \cup {Blank, Dead}]]
        /\ e.type \in [Blocks -> BlockTypes \cup {"empty"}]
        /\ e.valid \in [Blocks -> Int]
    BY <1>1, <1>4 DEF Drives, BlankBlock
  <2>2. e.list \in [BlockTypes -> [Blocks -> Nat]]
    <3>1. d.list \in [BlockTypes -> [Blocks -> Nat]]
      BY <1>1 DEF Drives
    <3>2. [d.list[t] EXCEPT ![x] = d.list[t][x] + 1] \in [Blocks -> Nat]
      BY <1>1, <3>1
    <3>3. e.list = [d.list EXCEPT ![t] = [d.list[t] EXCEPT ![x] = d.list[t][x] + 1]]
      BY <1>4
    <3> QED
      BY <1>1, <3>1, <3>2, <3>3
  <2>3. e.open \in [BlockTypes -> Address]
    BY <1>4, <1>5 DEF Drives
  <2> QED
    BY <1>1, <1>3, <1>4, <2>1, <2>2, <2>3 DEF Drives
<1> HIDE DEF e
<1>7. \A b \in Blocks : /\ e.type[b] = IF b = x THEN t ELSE d.type[b]
                        /\ e.valid[b] = IF b = x THEN 0 ELSE d.valid[b]
                        /\ e.page[b] = IF b = x THEN BlankBlock ELSE d.page[b]
  BY <1>1, <1>4 DEF Drives
<1>8. \A p \in Pages : e.page[x][p] = Blank
  BY <1>1, <1>7 DEF BlankBlock
<1>9. ~(\E q \in Pages : q < TotalOf(d.type[x]))
  BY <1>2, Totals, SizeAssumption DEF Pages
<1>10. \A b \in Blocks : Live(e, b) = IF b = x THEN {} ELSE Live(d, b)
  <2> SUFFICES ASSUME NEW b \in Blocks
               PROVE  Live(e, b) = IF b = x THEN {} ELSE Live(d, b)
    OBVIOUS
  <2>1. CASE b = x
    BY <1>6, <1>8, <2>1, NotUnits, LivePages
  <2>2. CASE b # x
    BY <1>7, <2>2 DEF Live
  <2> QED
    BY <2>1, <2>2
<1>11. Bounded(e)
  <2> SUFFICES ASSUME NEW b \in Blocks
               PROVE  0 <= e.valid[b] /\ e.valid[b] <= Cardinality(Live(e, b))
    BY DEF Bounded
  <2>1. CASE b = x
    <3>1. e.valid[b] = 0 /\ Live(e, b) = {}
      BY <1>7, <1>10, <2>1
    <3> QED
      BY <3>1, FS_EmptySet
  <2>2. CASE b # x
    BY <1>7, <1>10, <2>2 DEF Sound, Bounded
  <2> QED
    BY <2>1, <2>2
<1>12. InUse(e, H) = InUse(d, H)
  BY <1>4 DEF InUse
<1>13. Listed(e)
  <2>1. \A i \in 1 .. Len(e.empty) : /\ e.empty[i] = d.empty[i + 1]
                                     /\ i + 1 \in 1 .. Len(d.empty) /\ i + 1 # 1
    BY <1>1, <1>4
  <2>2. \A i \in 1 .. Len(e.empty) : e.empty[i] \in Blocks /\ e.empty[i] # x
    BY <1>1, <2>1 DEF Sound, Listed
  <2>3. \A i \in 1 .. Len(e.empty) : e.type[e.empty[i]] = "empty"
    <3> SUFFICES ASSUME NEW i \in 1 .. Len(e.empty)
                 PROVE  e.type[e.empty[i]] = "empty"
      OBVIOUS
    <3>1. d.type[d.empty[i + 1]] = "empty"
      BY <2>1 DEF Sound, Listed
    <3> QED
      BY <1>7, <2>1, <2>2, <3>1
  <2>4. \A i, j \in 1 .. Len(e.empty) : e.empty[i] = e.empty[j] => i = j
    BY <2>1 DEF Sound, Listed
  <2>5. \A b \in Blocks : e.type[b] = "empty" => \E i \in 1 .. Len(e.empty) : e.empty[i] = b
    <3> SUFFICES ASSUME NEW b \in Blocks, e.type[b] = "empty"
                 PROVE  \E i \in 1 .. Len(e.empty) : e.empty[i] = b
      OBVIOUS
    <3>1. b # x
      BY <1>7 DEF BlockTypes
    <3>2. PICK j \in 1 .. Len(d.empty) : d.empty[j] = b
      BY <1>7, <3>1 DEF Sound, Listed
    <3>3. j # 1
      BY <1>1, <3>1, <3>2
    <3>4. j - 1 \in 1 .. Len(e.empty) /\ e.empty[j - 1] = b
      BY <1>1, <1>4, <3>2, <3>3
    <3> QED
      BY <3>4
  <2>6. \A s \in BlockTypes, b \in Blocks : e.list[s][b] = IF e.type[b] = s THEN 1 ELSE 0
    <3>1. \A s \in BlockTypes, b \in Blocks :
            e.list[s][b] = IF s = t /\ b = x THEN d.list[s][b] + 1 ELSE d.list[s][b]
      <4>1. d.list \in [BlockTypes -> [Blocks -> Nat]]
        BY <1>1 DEF Drives
      <4>2. e.list = [d.list EXCEPT ![t] = [d.list[t] EXCEPT ![x] = d.list[t][x] + 1]]
        BY <1>4
      <4> QED
        BY <1>1, <4>1, <4>2
    <3>2. d.list[t][x] = 0 /\ \A s \in BlockTypes : d.list[s][x] = 0
      BY <1>1, <1>2 DEF Sound, Listed, BlockTypes
    <3> QED
      BY <1>7, <3>1, <3>2 DEF Sound, Listed
  <2> QED
    BY <2>3, <2>4, <2>5, <2>6 DEF Listed
<1>14. Writable(e)
  <2> SUFFICES ASSUME NEW s \in BlockTypes, e.open[s] # None
               PROVE  /\ e.type[e.open[s].block] = s /\ e.open[s].unit < TotalOf(s)
                      /\ \A p \in Pages : p < TotalOf(s) =>
                           (e.page[e.open[s].block][p] = Blank <=> p >= e.open[s].unit)
    BY DEF Writable
  <2>1. CASE s = t
    <3>1. e.open[s] = [block |-> x, unit |-> 0]
      BY <1>4, <2>1 DEF Drives
    <3>2. e.open[s].block = x /\ e.open[s].unit = 0
      BY <3>1
    <3>3. \A p \in Pages : p >= 0
      BY DEF Pages
    <3> QED
      BY <1>1, <1>7, <1>8, <2>1, <3>2, <3>3, Totals
  <2>2. CASE s # t
    <3>1. e.open[s] = d.open[s]
      BY <1>4, <2>2 DEF Drives
    <3>2. d.open[s].block \in Blocks
      <4>1. d.open[s] \in Address
        BY DEF Drives
      <4> QED
        BY <3>1, <4>1, Addresses
    <3>3. d.type[d.open[s].block] = s /\ d.open[s].block # x
      BY <1>2, <3>1 DEF Sound, Writable, BlockTypes
    <3> QED
      BY <1>7, <3>1, <3>2, <3>3 DEF Sound, Writable
  <2> QED
    BY <2>1, <2>2
<1>closed. Closed(e)
  <2> SUFFICES ASSUME NEW b \in Blocks, e.type[b] # "empty",
                      e.page[b][TotalOf(e.type[b]) - 1] = Blank
               PROVE  \E s \in BlockTypes : e.open[s] # None /\ e.open[s].block = b
    BY DEF Closed
  <2>1. CASE b = x
    BY <1>1, <1>4, <2>1, NotNone DEF Drives
  <2>2. CASE b # x
    <3>1. PICK s \in BlockTypes : d.open[s] # None /\ d.open[s].block = b
      BY <1>7, <2>2 DEF Sound, Closed
    <3> QED
      BY <1>4, <3>1 DEF Drives
  <2> QED
    BY <2>1, <2>2
<1>15. Taken(e, w)
  BY <1>2, <1>7 DEF Taken, IsFull
<1>16. e.open[t] # None
  BY <1>1, <1>4, NotNone DEF Drives
<1>17. ASSUME Agree(d, H)
       PROVE  Agree(e, H)
  <2>1. \A v \in Units \ H : d.ftl[v] # None =>
          d.ftl[v].block \in Blocks /\ d.ftl[v].unit \in Pages /\ d.ftl[v].block # x
    <3> SUFFICES ASSUME NEW v \in Units \ H, d.ftl[v] # None
                 PROVE  /\ d.ftl[v].block \in Blocks /\ d.ftl[v].unit \in Pages
                        /\ d.ftl[v].block # x
      OBVIOUS
    <3>1. d.ftl[v] \in Address
      BY DEF Drives
    <3> QED
      BY <1>9, <1>17, <3>1, Addresses DEF Agree, Found
  <2>2. Found(e, H)
    <3>1. e.ftl = d.ftl /\ Found(d, H)
      BY <1>4, <1>17 DEF Agree
    <3>2. \A v \in Units \ H : d.ftl[v] # None =>
            /\ e.type[d.ftl[v].block] = d.type[d.ftl[v].block]
            /\ e.page[d.ftl[v].block] = d.page[d.ftl[v].block]
      BY <1>7, <2>1
    <3> QED
      BY ONLY <3>1, <3>2 DEF Found
  <2>3. Known(e, H)
    <3> SUFFICES ASSUME NEW b \in Blocks, NEW p \in Pages,
                        p < TotalOf(e.type[b]), e.page[b][p] \in Units
                 PROVE  /\ e.page[b][p] \notin H
                        /\ d.ftl[e.page[b][p]] = [block |-> b, unit |-> p]
      BY <1>4 DEF Known
    <3>1. b # x
      BY <1>8, NotUnits
    <3> QED
      BY <1>7, <1>17, <3>1 DEF Agree, Known
  <2>4. Counted(e)
    BY <1>7, <1>10, <1>17, FS_EmptySet DEF Agree, Counted
  <2> QED
    BY <1>4, <1>17, <2>2, <2>3, <2>4 DEF Agree
<1> QED
  BY <1>1, <1>2, <1>4, <1>6, <1>7, <1>11, <1>12, <1>13, <1>14, <1>15, <1>16, <1>17, <1>closed
  DEF Sound, e

\* Either there is an open block afterwards, or no block was empty.
LEMMA OpenedSound ==
  ASSUME NEW d, NEW H \in SUBSET Units, NEW w \in Blocks \cup {0}, NEW t \in BlockTypes,
         Sound(d, H), Taken(d, w)
  PROVE  LET e == Opened(d, t)
         IN /\ Sound(e, H) /\ Taken(e, w)
            /\ e.fault = "full" \/ e.open[t] # None
            /\ e.fault = "full" \/ e.fault = d.fault
            /\ d.empty # <<>> => e.fault = d.fault /\ Len(e.empty) >= Len(d.empty) - 1
            /\ Agree(d, H) => Agree(e, H)
<1>0. d.empty \in Seq(Blocks) /\ Len(d.empty) \in Nat
  BY DEF Sound, Drives
<1>1. CASE d.open[t] # None
  <2>1. Opened(d, t) = d
    BY <1>1 DEF Opened
  <2> QED
    BY <1>0, <1>1, <2>1
<1>2. CASE d.open[t] = None /\ d.empty # <<>>
  <2>1. Opened(d, t) = Popup(d, t)
    BY <1>2 DEF Opened
  <2>2. LET e == Popup(d, t)
        IN /\ Sound(e, H) /\ Taken(e, w)
           /\ e.fault = d.fault /\ e.open[t] # None
           /\ Len(e.empty) = Len(d.empty) - 1
           /\ Agree(d, H) => Agree(e, H)
    BY <1>2, PopupSound
  <2> QED
    BY <1>0, <2>1, <2>2
<1>3. CASE d.open[t] = None /\ d.empty = <<>>
  <2>1. Opened(d, t) = Fail(d, "full")
    BY <1>3 DEF Opened, Popup
  <2> QED
    BY <1>3, <2>1, FailSound
<1> QED
  BY <1>1, <1>2, <1>3

\* Written to an open block the unit is no longer in transit; the checks of
\* BlockInfo::Program never fail.
LEMMA ProgramSound ==
  ASSUME NEW d, NEW u \in Units, NEW w \in Blocks \cup {0}, NEW t \in BlockTypes,
         Sound(d, {u}), Taken(d, w), d.open[t] # None
  PROVE  LET e == ProgramNandPage(d, t, u)
         IN /\ Sound(e, {}) /\ Taken(e, w) /\ e.fault = d.fault
            /\ e.open = [d.open EXCEPT ![t] = Advance(d.open[t], t)]
            /\ e.empty = d.empty
            /\ \A b \in Blocks : b # d.open[t].block => e.valid[b] = d.valid[b]
            /\ Agree(d, {u}) => Agree(e, {})
<1> DEFINE a == d.open[t]
           x == a.block
           q == a.unit
           e == ProgramNandPage(d, t, u)
<1> d \in Drives
  BY DEF Sound
<1>1. a \in Address /\ x \in Blocks /\ q \in Pages /\ a = [block |-> x, unit |-> q]
  <2>1. a \in Address
    BY DEF Drives
  <2> QED
    BY <2>1, Addresses
<1>2. d.type[x] = t /\ q < TotalOf(t) /\ d.page[x][q] = Blank
  BY <1>1 DEF Sound, Writable, Pages
<1>3. e = [d EXCEPT !.page = [d.page EXCEPT ![x] = [d.page[x] EXCEPT ![q] = u]],
                    !.valid = [d.valid EXCEPT ![x] = d.valid[x] + 1],
                    !.ftl = [d.ftl EXCEPT ![u] = a],
                    !.open = [d.open EXCEPT ![t] = Advance(a, t)]]
  <2>1. ~(a.unit >= TotalOf(d.type[a.block]) \/ d.page[a.block][a.unit] # Blank)
    BY <1>1, <1>2, Totals DEF Pages
  <2> QED
    BY <1>2, <2>1 DEF ProgramNandPage, Drives
<1> HIDE DEF e
<1>4. /\ e.page = [d.page EXCEPT ![x] = [d.page[x] EXCEPT ![q] = u]]
      /\ e.valid = [d.valid EXCEPT ![x] = d.valid[x] + 1]
      /\ e.ftl = [d.ftl EXCEPT ![u] = a]
      /\ e.open = [d.open EXCEPT ![t] = Advance(a, t)]
      /\ e.type = d.type /\ e.empty = d.empty /\ e.list = d.list
      /\ e.mapped = d.mapped /\ e.fault = d.fault
  BY <1>3 DEF Drives
<1>5. Advance(a, t) \in Address /\ (Advance(a, t) # None =>
        /\ q + 1 < TotalOf(t) /\ Advance(a, t) = [block |-> x, unit |-> q + 1])
  <2>1. CASE a.unit + 1 >= TotalOf(t)
    BY <2>1 DEF Advance, Address
  <2>2. CASE ~(a.unit + 1 >= TotalOf(t))
    <3>1. Advance(a, t) = [block |-> x, unit |-> q + 1]
      BY <1>1, <2>2 DEF Advance
    <3>2. q + 1 \in Pages /\ q + 1 < TotalOf(t)
      BY <1>1, <2>2, Totals, SizeAssumption DEF Pages
    <3> QED
      BY <1>1, <3>1, <3>2 DEF Address
  <2> QED
    BY <2>1, <2>2
<1>6. e \in Drives
  <2>1. e.page \in [Blocks -> [Pages -> Units \cup {Blank, Dead}]]
    BY <1>1, <1>4 DEF Drives
  <2>2. e.valid \in [Blocks -> Int]
    BY <1>1, <1>4 DEF Drives
  <2>3. e.ftl \in [Units -> Address]
    BY <1>1, <1>4 DEF Drives
  <2>4. e.open \in [BlockTypes -> Address]
    BY <1>4, <1>5 DEF Drives
  <2> QED
    BY <1>3, <1>4, <2>1, <2>2, <2>3, <2>4 DEF Drives
<1>7. /\ \A b \in Blocks, p \in Pages : e.page[b][p] = IF b = x /\ p = q THEN u ELSE d.page[b][p]
      /\ \A v \in Units : e.ftl[v] = IF v = u THEN a ELSE d.ftl[v]
  BY <1>1, <1>4 DEF Drives
<1>8. \A b \in Blocks : Live(e, b) = Live(d, b) \cup (IF b = x THEN {q} ELSE {})
  <2> SUFFICES ASSUME NEW b \in Blocks, NEW p
               PROVE  p \in Live(e, b) <=> p \in Live(d, b) \/ (b = x /\ p = q)
    OBVIOUS
  <2>1. p \in Live(d, b) <=> p \in Pages /\ p < TotalOf(d.type[b]) /\ d.page[b][p] \in Units
    BY LivePages
  <2>2. p \in Live(e, b) <=> p \in Pages /\ p < TotalOf(d.type[b]) /\ e.page[b][p] \in Units
    BY <1>4, <1>6, LivePages
  <2> QED
    BY <1>1, <1>2, <1>7, <2>1, <2>2
<1>9. /\ \A b \in Blocks : e.valid[b] = IF b = x THEN d.valid[x] + 1 ELSE d.valid[b]
      /\ \A b \in Blocks \ {x} : Live(e, b) = Live(d, b)
      /\ Cardinality(Live(e, x)) = Cardinality(Live(d, x)) + 1
  <2>1. q \notin Live(d, x)
    BY <1>1, <1>2, NotUnits, LivePages
  <2>2. Cardinality(Live(d, x) \cup {q}) = Cardinality(Live(d, x)) + 1
    BY <1>1, <2>1, LiveFinite, FS_AddElement
  <2> QED
    <3>1. \A b \in Blocks : e.valid[b] = IF b = x THEN d.valid[x] + 1 ELSE d.valid[b]
      BY <1>1, <1>4 DEF Drives
    <3>2. \A b \in Blocks \ {x} : Live(e, b) = Live(d, b)
      BY <1>8
    <3>3. Live(e, x) = Live(d, x) \cup {q}
      BY <1>1, <1>8
    <3> QED
      BY <2>2, <3>1, <3>2, <3>3
<1>10. Bounded(e)
  <2> SUFFICES ASSUME NEW b \in Blocks
               PROVE  0 <= e.valid[b] /\ e.valid[b] <= Cardinality(Live(e, b))
    BY DEF Bounded
  <2>1. /\ 0 <= d.valid[b] /\ d.valid[b] <= Cardinality(Live(d, b)) /\ d.valid[b] \in Int
        /\ Cardinality(Live(d, b)) \in Nat
    BY LiveFinite, FS_CardinalityType DEF Sound, Bounded, Drives
  <2>2. CASE b = x
    BY <1>9, <2>1, <2>2
  <2>3. CASE b # x
    BY <1>9, <2>1, <2>3
  <2> QED
    BY <2>2, <2>3
<1>11. InUse(e, {}) = InUse(d, {u})
  <2>1. a # None
    OBVIOUS
  <2> QED
    BY <1>7, <2>1 DEF InUse
<1>12. Listed(e)
  BY <1>4 DEF Listed, Sound
<1>13. Writable(e)
  <2> SUFFICES ASSUME NEW s \in BlockTypes, e.open[s] # None
               PROVE  /\ d.type[e.open[s].block] = s /\ e.open[s].unit < TotalOf(s)
                      /\ \A p \in Pages : p < TotalOf(s) =>
                           (e.page[e.open[s].block][p] = Blank <=> p >= e.open[s].unit)
    BY <1>4 DEF Writable
  <2>1. CASE s = t
    <3>1. e.open[s] = Advance(a, t)
      BY <1>4, <2>1 DEF Drives
    <3>2. e.open[s].block = x /\ e.open[s].unit = q + 1 /\ q + 1 < TotalOf(t)
      BY <1>5, <3>1
    <3>3. \A p \in Pages : p < TotalOf(t) => (d.page[x][p] = Blank <=> p >= q)
      BY DEF Sound, Writable
    <3>4. \A p \in Pages : p < TotalOf(t) => (e.page[x][p] = Blank <=> p >= q + 1)
      BY <1>1, <1>7, <3>3, NotUnits DEF Pages
    <3> QED
      BY <1>2, <2>1, <3>2, <3>4
  <2>2. CASE s # t
    <3>1. e.open[s] = d.open[s]
      BY <1>4, <2>2 DEF Drives
    <3>2. d.open[s].block \in Blocks
      <4>1. d.open[s] \in Address
        BY DEF Drives
      <4> QED
        BY <3>1, <4>1, Addresses
    <3>3. d.type[d.open[s].block] = s /\ d.open[s].block # x
      BY <1>2, <2>2, <3>1 DEF Sound, Writable
    <3> QED
      BY <1>7, <3>1, <3>2, <3>3 DEF Sound, Writable
  <2> QED
    BY <2>1, <2>2
<1>closed. Closed(e)
  <2> SUFFICES ASSUME NEW b \in Blocks, d.type[b] # "empty",
                      e.page[b][TotalOf(d.type[b]) - 1] = Blank
               PROVE  \E s \in BlockTypes : e.open[s] # None /\ e.open[s].block = b
    BY <1>4 DEF Closed
  <2>1. d.type[b] \in BlockTypes /\ TotalOf(d.type[b]) - 1 \in Pages
    <3>1. d.type[b] \in BlockTypes
      BY DEF Drives
    <3> QED
      BY <3>1, LastPage
  <2>2. d.page[b][TotalOf(d.type[b]) - 1] = Blank /\ ~(b = x /\ q = TotalOf(t) - 1)
    BY <1>2, <1>7, <2>1, NotUnits
  <2>3. PICK s \in BlockTypes : d.open[s] # None /\ d.open[s].block = b
    BY <2>2 DEF Sound, Closed
  <2>4. CASE s # t
    BY <1>4, <2>3, <2>4 DEF Drives
  <2>5. CASE s = t
    <3>1. b = x /\ q # TotalOf(t) - 1
      BY <2>2, <2>3, <2>5
    <3>2. ~(q + 1 >= TotalOf(t))
      BY <1>1, <1>2, <3>1, Totals DEF Pages
    <3>3. Advance(a, t) = [block |-> x, unit |-> q + 1]
      BY <1>1, <3>2 DEF Advance
    <3>4. e.open[t] = [block |-> x, unit |-> q + 1]
      BY <1>4, <3>3 DEF Drives
    <3> QED
      BY <1>1, <3>1, <3>4, NotNone
  <2> QED
    BY <2>4, <2>5
<1>14. Taken(e, w)
  <2> SUFFICES ASSUME w # 0
               PROVE  d.type[w] # "empty" /\ e.page[w][TotalOf(d.type[w]) - 1] # Blank
    BY <1>4 DEF Taken, IsFull
  <2>1. w \in Blocks /\ d.type[w] # "empty" /\ d.page[w][TotalOf(d.type[w]) - 1] # Blank
    BY DEF Taken, IsFull
  <2>2. d.type[w] \in BlockTypes
    BY <2>1 DEF Drives
  <2>3. TotalOf(d.type[w]) - 1 \in Pages
    BY <2>2, LastPage
  <2> QED
    BY <1>7, <2>1, <2>3, NotUnits
<1>15. ASSUME Agree(d, {u})
       PROVE  Agree(e, {})
  <2>1. \A v \in Units \ {u} : d.ftl[v] # None =>
          /\ d.ftl[v].block \in Blocks /\ d.ftl[v].unit \in Pages
          /\ d.ftl[v].unit < TotalOf(d.type[d.ftl[v].block])
          /\ d.page[d.ftl[v].block][d.ftl[v].unit] = v
    <3> SUFFICES ASSUME NEW v \in Units \ {u}, d.ftl[v] # None
                 PROVE  /\ d.ftl[v].block \in Blocks /\ d.ftl[v].unit \in Pages
                        /\ d.ftl[v].unit < TotalOf(d.type[d.ftl[v].block])
                        /\ d.page[d.ftl[v].block][d.ftl[v].unit] = v
      OBVIOUS
    <3>1. d.ftl[v] \in Address
      BY DEF Drives
    <3>2. d.ftl[v].block \in Blocks /\ d.ftl[v].unit \in Pages
      BY <3>1, Addresses
    <3> QED
      BY <1>15, <3>2 DEF Agree, Found
  <2>2. Found(e, {})
    <3> SUFFICES ASSUME NEW v \in Units, e.ftl[v] # None
                 PROVE  /\ e.ftl[v].unit < TotalOf(d.type[e.ftl[v].block])
                        /\ e.page[e.ftl[v].block][e.ftl[v].unit] = v
      BY <1>4 DEF Found
    <3>1. CASE v = u
      BY <1>1, <1>2, <1>7, <3>1
    <3>2. CASE v # u
      <4>1. e.ftl[v] = d.ftl[v]
        BY <1>7, <3>2
      <4>2. ~(d.ftl[v].block = x /\ d.ftl[v].unit = q)
        BY <1>2, <2>1, <3>2, <4>1, NotUnits
      <4> QED
        BY <1>7, <2>1, <3>2, <4>1, <4>2
    <3> QED
      BY <3>1, <3>2
  <2>3. Known(e, {})
    <3> SUFFICES ASSUME NEW b \in Blocks, NEW p \in Pages,
                        p < TotalOf(d.type[b]), e.page[b][p] \in Units
                 PROVE  e.ftl[e.page[b][p]] = [block |-> b, unit |-> p]
      BY <1>4 DEF Known
    <3>1. CASE b = x /\ p = q
      BY <1>1, <1>7, <3>1
    <3>2. CASE ~(b = x /\ p = q)
      <4>1. e.page[b][p] = d.page[b][p]
        BY <1>7, <3>2
      <4>2. d.page[b][p] \notin {u} /\ d.ftl[d.page[b][p]] = [block |-> b, unit |-> p]
        BY <1>15, <4>1 DEF Agree, Known
      <4> QED
        BY <1>7, <4>1, <4>2
    <3> QED
      BY <3>1, <3>2
  <2>4. Counted(e)
    BY <1>9, <1>15 DEF Agree, Counted
  <2> QED
    BY <1>4, <1>15, <2>2, <2>3, <2>4 DEF Agree
<1> QED
  BY <1>4, <1>6, <1>9, <1>10, <1>11, <1>12, <1>13, <1>14, <1>15, <1>closed DEF Sound, e

\* A block in use can be taken off its list and erased; nothing is lost when
\* the FTL names none of its pages.
LEMMA EraseSound ==
  ASSUME NEW d, NEW w \in Blocks, Sound(d, {}), Taken(d, w)
  PROVE  LET e == Erase([d EXCEPT !.list[d.type[w]][w] = 0], w)
         IN /\ Sound(e, {})
            /\ Agree(d, {}) /\ (\A v \in Units : d.ftl[v] # None => d.ftl[v].block # w)
                 => Agree(e, {})
<1> DEFINE s == d.type[w]
           e == Erase([d EXCEPT !.list[s][w] = 0], w)
<1> d \in Drives
  BY DEF Sound
<1>1. w # 0 /\ s \in BlockTypes /\ s # "empty" /\ d.page[w][TotalOf(s) - 1] # Blank
  <2>1. w # 0
    BY DEF Blocks
  <2> QED
    BY <2>1 DEF Taken, Drives, IsFull
<1>2. e = [d EXCEPT !.type = [d.type EXCEPT ![w] = "empty"],
                    !.valid = [d.valid EXCEPT ![w] = 0],
                    !.page = [d.page EXCEPT ![w] = BlankBlock],
                    !.list = [d.list EXCEPT ![s] = [d.list[s] EXCEPT ![w] = 0]],
                    !.empty = Append(d.empty, w)]
  BY DEF Erase, Drives
<1> HIDE DEF e
<1>3. /\ e.type = [d.type EXCEPT ![w] = "empty"]
      /\ e.valid = [d.valid EXCEPT ![w] = 0]
      /\ e.page = [d.page EXCEPT ![w] = BlankBlock]
      /\ e.list = [d.list EXCEPT ![s] = [d.list[s] EXCEPT ![w] = 0]]
      /\ e.empty = Append(d.empty, w)
      /\ e.open = d.open /\ e.ftl = d.ftl /\ e.mapped = d.mapped /\ e.fault = d.fault
  BY <1>2 DEF Drives
<1>4. e \in Drives
  <2>1. /\ e.page \in [Blocks -> [Pages -> Units \cup {Blank, Dead}]]
        /\ e.type \in [Blocks -> BlockTypes \cup {"empty"}]
        /\ e.valid \in [Blocks -> Int]
    BY <1>3 DEF Drives, BlankBlock
  <2>2. e.list \in [BlockTypes -> [Blocks -> Nat]]
    BY <1>1, <1>3 DEF Drives
  <2>3. e.empty \in Seq(Blocks)
    BY <1>3 DEF Drives
  <2> QED
    BY <1>2, <1>3, <2>1, <2>2, <2>3 DEF Drives
<1>5. \A b \in Blocks : /\ e.type[b] = IF b = w THEN "empty" ELSE d.type[b]
                        /\ e.valid[b] = IF b = w THEN 0 ELSE d.valid[b]
                        /\ e.page[b] = IF b = w THEN BlankBlock ELSE d.page[b]
  BY <1>3 DEF Drives
<1>6. ~(\E q \in Pages : q < TotalOf(e.type[w]))
  BY <1>5, Totals, SizeAssumption DEF Pages
<1>7. \A b \in Blocks : Live(e, b) = IF b = w THEN {} ELSE Live(d, b)
  <2> SUFFICES ASSUME NEW b \in Blocks
               PROVE  Live(e, b) = IF b = w THEN {} ELSE Live(d, b)
    OBVIOUS
  <2>1. CASE b = w
    BY <1>4, <1>6, <2>1, LivePages
  <2>2. CASE b # w
    BY <1>5, <2>2 DEF Live
  <2> QED
    BY <2>1, <2>2
<1>8. Bounded(e)
  <2> SUFFICES ASSUME NEW b \in Blocks
               PROVE  0 <= e.valid[b] /\ e.valid[b] <= Cardinality(Live(e, b))
    BY DEF Bounded
  <2>1. CASE b = w
    BY <1>5, <1>7, <2>1, FS_EmptySet
  <2>2. CASE b # w
    BY <1>5, <1>7, <2>2 DEF Sound, Bounded
  <2> QED
    BY <2>1, <2>2
<1>9. InUse(e, {}) = InUse(d, {})
  BY <1>3 DEF InUse
<1>10. Listed(e)
  <2> DEFINE n == Len(d.empty)
  <2>1. /\ n \in Nat /\ Len(e.empty) = n + 1 /\ e.empty[n + 1] = w
        /\ \A i \in 1 .. n : e.empty[i] = d.empty[i] /\ d.empty[i] \in Blocks
    BY <1>3 DEF Drives
  <2> HIDE DEF n
  <2>2. \A i \in 1 .. n : d.empty[i] # w /\ e.empty[i] # w
    BY <1>1, <2>1 DEF Sound, Listed, n
  <2>3. \A i \in 1 .. n + 1 : i \in 1 .. n \/ i = n + 1
    BY <2>1
  <2>4. \A i \in 1 .. Len(e.empty) : e.type[e.empty[i]] = "empty"
    <3> SUFFICES ASSUME NEW i \in 1 .. n + 1
                 PROVE  e.type[e.empty[i]] = "empty"
      BY <2>1
    <3>1. CASE i = n + 1
      BY <1>5, <2>1, <3>1
    <3>2. CASE i \in 1 .. n
      <4>1. d.type[d.empty[i]] = "empty"
        BY <3>2 DEF Sound, Listed, n
      <4> QED
        BY <1>5, <2>1, <2>2, <3>2, <4>1
    <3> QED
      BY <2>3, <3>1, <3>2
  <2>5. \A i, j \in 1 .. Len(e.empty) : e.empty[i] = e.empty[j] => i = j
    <3>1. \A i, j \in 1 .. n : d.empty[i] = d.empty[j] => i = j
      BY DEF Sound, Listed, n
    <3> QED
      BY <2>1, <2>2, <2>3, <3>1
  <2>6. \A b \in Blocks : e.type[b] = "empty" => \E i \in 1 .. Len(e.empty) : e.empty[i] = b
    <3> SUFFICES ASSUME NEW b \in Blocks, e.type[b] = "empty"
                 PROVE  \E i \in 1 .. n + 1 : e.empty[i] = b
      BY <2>1
    <3>1. CASE b = w
      BY <2>1, <3>1
    <3>2. CASE b # w
      <4>1. PICK i \in 1 .. n : d.empty[i] = b
        BY <1>5, <3>2 DEF Sound, Listed, n
      <4> QED
        BY <2>1, <4>1
    <3> QED
      BY <3>1, <3>2
  <2>7. \A t \in BlockTypes, b \in Blocks : e.list[t][b] = IF e.type[b] = t THEN 1 ELSE 0
    <3>1. \A t \in BlockTypes, b \in Blocks :
            e.list[t][b] = IF t = s /\ b = w THEN 0 ELSE d.list[t][b]
      BY <1>1, <1>3 DEF Drives
    <3>2. \A t \in BlockTypes, b \in Blocks : d.list[t][b] = IF d.type[b] = t THEN 1 ELSE 0
      BY DEF Sound, Listed
    <3> QED
      BY <1>1, <1>5, <3>1, <3>2 DEF BlockTypes
  <2> QED
    BY <2>4, <2>5, <2>6, <2>7 DEF Listed
<1>11. Writable(e)
  <2> SUFFICES ASSUME NEW t \in BlockTypes, d.open[t] # None
               PROVE  /\ e.type[d.open[t].block] = t /\ d.open[t].unit < TotalOf(t)
                      /\ \A p \in Pages : p < TotalOf(t) =>
                           (e.page[d.open[t].block][p] = Blank <=> p >= d.open[t].unit)
    BY <1>3 DEF Writable
  <2>1. d.open[t].block \in Blocks /\ d.open[t].unit \in Pages
    <3>1. d.open[t] \in Address
      BY DEF Drives
    <3> QED
      BY <3>1, Addresses
  <2>2. /\ d.type[d.open[t].block] = t /\ d.open[t].unit < TotalOf(t)
        /\ \A p \in Pages : p < TotalOf(t) =>
             (d.page[d.open[t].block][p] = Blank <=> p >= d.open[t].unit)
    BY DEF Sound, Writable
  <2>3. TotalOf(t) - 1 \in Pages /\ TotalOf(t) - 1 < TotalOf(t) /\ TotalOf(t) - 1 >= d.open[t].unit
    BY <2>1, <2>2, LastPage, Totals DEF Pages
  <2>4. d.open[t].block # w
    BY <1>1, <2>2, <2>3
  <2> QED
    BY <1>5, <2>1, <2>2, <2>4
<1>closed. Closed(e)
  BY <1>3, <1>5 DEF Sound, Closed
<1>12. ASSUME Agree(d, {}), \A v \in Units : d.ftl[v] # None => d.ftl[v].block # w
       PROVE  Agree(e, {})
  <2>1. Found(e, {})
    <3> SUFFICES ASSUME NEW v \in Units, d.ftl[v] # None
                 PROVE  /\ d.ftl[v].unit < TotalOf(e.type[d.ftl[v].block])
                        /\ e.page[d.ftl[v].block][d.ftl[v].unit] = v
      BY <1>3 DEF Found
    <3>1. d.ftl[v] \in Address
      BY DEF Drives
    <3>2. d.ftl[v].block \in Blocks /\ d.ftl[v].block # w
      BY <1>12, <3>1, Addresses
    <3> QED
      BY <1>5, <1>12, <3>2 DEF Agree, Found
  <2>2. Known(e, {})
    <3> SUFFICES ASSUME NEW b \in Blocks, NEW p \in Pages,
                        p < TotalOf(e.type[b]), e.page[b][p] \in Units
                 PROVE  d.ftl[e.page[b][p]] = [block |-> b, unit |-> p]
      BY <1>3 DEF Known
    <3>1. b # w
      BY <1>6
    <3> QED
      BY <1>5, <1>12, <3>1 DEF Agree, Known
  <2>3. Counted(e)
    BY <1>5, <1>7, <1>12, FS_EmptySet DEF Agree, Counted
  <2> QED
    BY <1>3, <1>12, <2>1, <2>2, <2>3 DEF Agree
<1> QED
  BY <1>3, <1>4, <1>8, <1>9, <1>10, <1>11, <1>12, <1>closed DEF Sound, e

\* What Then chooses from is one value.
LEMMA ChosenIsIt == \A x : (CHOOSE r \in {x} : TRUE) = x
OBVIOUS

\* One unit of a host write.
LEMMA WrittenOneSound ==
  ASSUME NEW u \in Units, NEW w \in Blocks \cup {0}, Sound(drive, {}), Taken(drive, w)
  PROVE  /\ Sound(WrittenOne(u), {}) /\ Taken(WrittenOne(u), w)
         /\ Agree(drive, {}) =>
              /\ Agree(WrittenOne(u), {})
              /\ drive.fault = "none" /\ drive.empty # <<>> =>
                   /\ WrittenOne(u).fault = "none"
                   /\ Len(WrittenOne(u).empty) >= Len(drive.empty) - 1
<1> DEFINE popped == Opened(drive, "slc")
           checked == Then(popped, LAMBDA d : IF d.type[d.open["slc"].block] = "empty"
                                                THEN Fail(d, "sanity") ELSE d)
           replaced == Then(checked, LAMBDA d : Replaced(d, u))
<1>1. WrittenOne(u) = Then(replaced, LAMBDA d : ProgramNandPage(d, "slc", u))
  BY DEF WrittenOne
<1>slc. "slc" \in BlockTypes
  BY DEF BlockTypes
<1>2. /\ Sound(popped, {}) /\ Taken(popped, w)
      /\ popped.fault = "none" => popped.open["slc"] # None
      /\ drive.empty # <<>> =>
           popped.fault = drive.fault /\ Len(popped.empty) >= Len(drive.empty) - 1
      /\ Agree(drive, {}) => Agree(popped, {})
  <2>1. /\ Sound(popped, {}) /\ Taken(popped, w)
        /\ popped.fault = "full" \/ popped.open["slc"] # None
        /\ drive.empty # <<>> =>
             popped.fault = drive.fault /\ Len(popped.empty) >= Len(drive.empty) - 1
        /\ Agree(drive, {}) => Agree(popped, {})
    BY <1>slc, OpenedSound
  <2> QED
    BY <2>1
<1>3. checked = popped
  <2>1. checked = IF popped.fault = "none"
                    THEN IF popped.type[popped.open["slc"].block] = "empty"
                           THEN Fail(popped, "sanity") ELSE popped
                    ELSE popped
    BY ChosenIsIt DEF Then
  <2> HIDE DEF checked, popped
  <2>2. popped.fault = "none" => popped.type[popped.open["slc"].block] = "slc"
    BY <1>2, <1>slc DEF Sound, Writable
  <2> QED
    BY <2>1, <2>2
<1>4. replaced = IF popped.fault = "none" THEN Replaced(popped, u) ELSE popped
  BY <1>3, ChosenIsIt DEF Then
<1>5. WrittenOne(u) = IF replaced.fault = "none" THEN ProgramNandPage(replaced, "slc", u)
                                                 ELSE replaced
  BY <1>1, ChosenIsIt DEF Then
<1> HIDE DEF checked, popped, replaced
<1>6. CASE popped.fault # "none"
  BY <1>2, <1>4, <1>5, <1>6
<1>7. CASE popped.fault = "none"
  <2>1. /\ Sound(replaced, {u}) /\ Taken(replaced, w) /\ replaced.open = popped.open
        /\ replaced.empty = popped.empty
        /\ replaced.fault = "none" \/ (replaced.fault = "sanity" /\ Sound(replaced, {}))
        /\ Agree(popped, {}) => Agree(replaced, {u})
    <3>1. replaced = Replaced(popped, u)
      BY <1>4, <1>7
    <3> QED
      BY <1>2, <1>7, <3>1, ReplacedSound
  <2>2. CASE replaced.fault # "none"
    BY <1>2, <1>5, <2>1, <2>2 DEF Agree
  <2>3. CASE replaced.fault = "none"
    <3>1. replaced.open["slc"] # None
      BY <1>2, <1>7, <2>1
    <3>2. LET r == ProgramNandPage(replaced, "slc", u)
          IN /\ Sound(r, {}) /\ Taken(r, w) /\ r.fault = replaced.fault
             /\ r.open = [replaced.open EXCEPT !["slc"] = Advance(replaced.open["slc"], "slc")]
             /\ r.empty = replaced.empty
             /\ \A b \in Blocks : b # replaced.open["slc"].block => r.valid[b] = replaced.valid[b]
             /\ Agree(replaced, {u}) => Agree(r, {})
      BY <1>slc, <2>1, <3>1, ProgramSound
    <3>3. WrittenOne(u) = ProgramNandPage(replaced, "slc", u)
      BY <1>5, <2>3
    <3> QED
      BY <1>2, <2>1, <2>3, <3>2, <3>3
  <2> QED
    BY <2>2, <2>3
<1> QED
  BY <1>6, <1>7

\* FoldPage moves a page the FTL names: the first of them.
LEMMA FirstToMove ==
  ASSUME drive \in Drives, victim \in Blocks, ToMove # {}
  PROVE  LET p == CHOOSE q \in ToMove : \A r \in ToMove : q <= r
             u == drive.page[victim][p]
         IN /\ p \in ToMove /\ u \in Units
            /\ drive.ftl[u] = [block |-> victim, unit |-> p] /\ drive.ftl[u] # None
<1> DEFINE p == CHOOSE q \in ToMove : \A r \in ToMove : q <= r
<1>2. ToMove \subseteq Nat
  BY LiveFinite, SizeAssumption DEF ToMove, Pages
<1>3. PICK q \in ToMove : \A r \in ToMove : ~(<<r, q>> \in OpToRel(<, Nat))
  BY <1>2, WFMin, NatLessThanWellFounded
<1>4. \A r \in ToMove : q <= r
  <2>1. \A r \in ToMove : ~(r < q)
    BY <1>2, <1>3 DEF OpToRel
  <2> QED
    BY <1>2, <2>1
<1>5. p \in ToMove
  BY <1>4
<1> HIDE DEF p
<1>6. p \in Live(drive, victim) /\ drive.ftl[drive.page[victim][p]] = [block |-> victim, unit |-> p]
  BY <1>5 DEF ToMove
<1>7. drive.page[victim][p] \in Units
  BY <1>6, LivePages
<1> QED
  BY <1>5, <1>6, <1>7, NotNone DEF p

\* When nothing is left to move, no page of the victim is live and the FTL names
\* none.
LEMMA NothingLeft ==
  ASSUME Sound(drive, {}), Agree(drive, {}), victim \in Blocks, ToMove = {}
  PROVE  /\ drive.valid[victim] = 0
         /\ \A v \in Units : drive.ftl[v] # None => drive.ftl[v].block # victim
<1>1. drive \in Drives
  BY DEF Sound
<1>2. \A q \in Live(drive, victim) :
        drive.ftl[drive.page[victim][q]] # [block |-> victim, unit |-> q]
  BY DEF ToMove
<1>3. Live(drive, victim) = {}
  <2> SUFFICES ASSUME NEW q \in Live(drive, victim)
               PROVE  FALSE
    OBVIOUS
  <2>1. q \in Pages /\ q < TotalOf(drive.type[victim]) /\ drive.page[victim][q] \in Units
    BY <1>1, LivePages
  <2> QED
    BY <1>2, <2>1 DEF Agree, Known
<1>4. drive.valid[victim] = 0
  BY <1>3, FS_EmptySet DEF Agree, Counted
<1>5. ASSUME NEW v \in Units, drive.ftl[v] # None, drive.ftl[v].block = victim
      PROVE  FALSE
  <2>1. drive.ftl[v] \in Address
    BY <1>1 DEF Drives
  <2>2. drive.ftl[v].unit \in Pages
    BY <1>5, <2>1, Addresses
  <2>3. /\ drive.ftl[v].unit < TotalOf(drive.type[victim])
        /\ drive.page[victim][drive.ftl[v].unit] = v
    BY <1>5 DEF Agree, Found
  <2>4. drive.ftl[v].unit \in Live(drive, victim)
    BY <1>1, <2>2, <2>3, LivePages
  <2> QED
    BY <1>3, <2>4
<1> QED
  BY <1>4, <1>5

\* One page of a victim.  A fold that finds no empty block stops half way.
LEMMA FoldPageSound ==
  ASSUME Sound(drive, {}), Taken(drive, victim), victim \in Blocks, FoldPage
  PROVE  /\ Sound(drive', {}) /\ Taken(drive', victim)
         /\ Agree(drive, {}) /\ drive'.fault # "full" => Agree(drive', {})
<1> DEFINE p == CHOOSE q \in ToMove : \A r \in ToMove : q <= r
           u == drive.page[victim][p]
           invalid == InvalidUnit(drive, drive.ftl[u])
           opened(t) == Then(invalid, LAMBDA d : Opened(d, t))
           written(t) == Then(opened(t), LAMBDA d : ProgramNandPage(d, t, u))
<1>1. PICK t \in BlockTypes : drive' = written(t)
  <2>1. \E t \in IF config.hot THEN {"slc", "tlc"} ELSE {"tlc"} : drive' = written(t)
    BY DEF FoldPage
  <2> HIDE DEF written
  <2> QED
    BY <2>1 DEF BlockTypes
<1>2. u \in Units /\ drive.ftl[u] # None
  BY FirstToMove DEF FoldPage, Sound
<1>3. opened(t) = IF invalid.fault = "none" THEN Opened(invalid, t) ELSE invalid
  BY ChosenIsIt DEF Then
<1> HIDE DEF opened, invalid, u
<1>4. drive' = IF opened(t).fault = "none" THEN ProgramNandPage(opened(t), t, u) ELSE opened(t)
  BY <1>1, ChosenIsIt DEF Then
<1>5. /\ Sound(invalid, {}) /\ Sound(invalid, {u}) /\ Taken(invalid, victim)
      /\ Agree(drive, {}) => Agree(invalid, {u})
  BY <1>2, InvalidSound DEF invalid
<1>6. /\ Sound(opened(t), {}) /\ Sound(opened(t), {u}) /\ Taken(opened(t), victim)
      /\ opened(t).fault = "none" => opened(t).open[t] # None
      /\ Agree(drive, {}) => Agree(opened(t), {u})
  <2>1. CASE invalid.fault # "none"
    BY <1>3, <1>5, <2>1
  <2>2. CASE invalid.fault = "none"
    <3>1. opened(t) = Opened(invalid, t)
      BY <1>3, <2>2
    <3>2. Sound(opened(t), {})
      BY <1>5, <3>1, OpenedSound
    <3>3. /\ Sound(opened(t), {u}) /\ Taken(opened(t), victim)
          /\ opened(t).fault = "full" \/ opened(t).open[t] # None
          /\ Agree(invalid, {u}) => Agree(opened(t), {u})
      BY <1>2, <1>5, <3>1, OpenedSound
    <3> QED
      BY <1>5, <3>2, <3>3
  <2> QED
    BY <2>1, <2>2
<1>7. CASE opened(t).fault # "none"
  <2>1. opened(t).fault \in {"none", "full", "sanity"}
    BY <1>6 DEF Sound, Drives
  <2>2. Agree(drive, {}) => opened(t).fault = "full"
    BY <1>6, <1>7, <2>1 DEF Agree
  <2> QED
    BY <1>4, <1>6, <1>7, <2>2
<1>8. CASE opened(t).fault = "none"
  <2> DEFINE e == ProgramNandPage(opened(t), t, u)
  <2>1. Sound(e, {}) /\ Taken(e, victim) /\ (Agree(opened(t), {u}) => Agree(e, {}))
    BY <1>2, <1>6, <1>8, ProgramSound
  <2>2. drive' = e
    BY <1>4, <1>8
  <2> HIDE DEF e
  <2> QED
    BY <1>6, <2>1, <2>2
<1> QED
  BY <1>7, <1>8

-----------------------------------------------------------------------------
(* The invariants.                                                           *)

\* A drive that was started once has all its blocks empty and no unit in use.
LEMMA ClearedSound ==
  Sound(Cleared(<<>>), {}) /\ Taken(Cleared(<<>>), 0) /\ Agree(Cleared(<<>>), {})
<1> DEFINE d == Cleared(<<>>)
<1>1. AllBlocks \in Seq(Blocks) /\ Len(AllBlocks) = BlockNum - 2
      /\ \A i \in 1 .. BlockNum - 2 : AllBlocks[i] = i
  BY SizeAssumption DEF AllBlocks, Blocks
<1>2. <<>> \o AllBlocks = AllBlocks
  BY <1>1
<1>3. /\ d.type = [b \in Blocks |-> "empty"]
      /\ d.page = [b \in Blocks |-> BlankBlock]
      /\ d.valid = [b \in Blocks |-> 0]
      /\ d.ftl = [u \in Units |-> None]
      /\ d.empty = AllBlocks
      /\ d.list = [t \in BlockTypes |-> [b \in Blocks |-> 0]]
      /\ d.open = [t \in BlockTypes |-> None]
      /\ d.mapped = 0 /\ d.fault = "none"
  BY <1>2 DEF Cleared
<1>4. d \in Drives
  BY <1>1, <1>2 DEF Cleared, Drives, BlankBlock, Address
<1> HIDE DEF d
<1>5. \A b \in Blocks : d.type[b] = "empty" /\ d.valid[b] = 0 /\ Live(d, b) = {}
  <2> SUFFICES ASSUME NEW b \in Blocks
               PROVE  d.type[b] = "empty" /\ d.valid[b] = 0 /\ Live(d, b) = {}
    OBVIOUS
  <2>1. \A p \in Pages : d.page[b][p] = Blank
    BY <1>3 DEF BlankBlock
  <2>2. Live(d, b) = {}
    BY <1>4, <2>1, NotUnits, LivePages
  <2> QED
    BY <1>3, <2>2
<1>6. Found(d, {}) /\ InUse(d, {}) = {}
  BY <1>3 DEF Found, InUse
<1>7. Known(d, {})
  BY <1>4, <1>5, LivePages DEF Known
<1>8. Counted(d) /\ Bounded(d) /\ d.mapped = Cardinality(InUse(d, {}))
  <2>1. Cardinality({}) = 0
    BY FS_EmptySet
  <2>2. Counted(d) /\ Bounded(d)
    BY <1>5, <2>1 DEF Counted, Bounded
  <2> QED
    BY <1>3, <1>6, <2>1, <2>2
<1>9. Listed(d)
  <2>1. \A i \in 1 .. Len(d.empty) : d.empty[i] = i /\ i \in Blocks
    BY <1>1, <1>3 DEF Blocks
  <2>2. \A b \in Blocks : b \in 1 .. Len(d.empty)
    BY <1>1, <1>3 DEF Blocks
  <2>3. \A t \in BlockTypes, b \in Blocks : d.list[t][b] = 0 /\ d.type[b] # t
    BY <1>3, <1>5 DEF BlockTypes
  <2> QED
    BY <1>5, <2>1, <2>2, <2>3 DEF Listed
<1>10. Writable(d) /\ Closed(d) /\ Taken(d, 0)
  BY <1>3, <1>5 DEF Writable, Closed, Taken
<1> QED
  BY <1>3, <1>4, <1>6, <1>7, <1>8, <1>9, <1>10 DEF Sound, Agree, d

LEMMA InitSound == Init => IInv
<1> SUFFICES ASSUME Init
             PROVE  IInv
  OBVIOUS
<1>1. ControlOK
  BY SizeAssumption DEF Init, ControlOK, Units
<1>2. drive = Cleared(<<>>) /\ victim = 0
  BY DEF Init
<1> QED
  BY <1>1, <1>2, ClearedSound DEF IInv, SoundInv

\* The units the host uses are units of the drive.
LEMMA HostSteps ==
  ASSUME ControlOK, Next
  PROVE  \/ Initialize
         \/ \E first, end \in Units : WriteSecs(first, end)
         \/ \E u \in Units : ReadSecs(u)
         \/ WriteUnit \/ WriteEnd
         \/ StartFold \/ FoldPage \/ EndFold \/ EndCollection
<1>1. config.used \in 1 .. TotalUnit
  BY SizeAssumption DEF ControlOK
<1>2. \A n \in 0 .. config.used - 1 : n \in Units
  BY <1>1, SizeAssumption DEF Units
<1>3. \A first, end : WriteSecs(first, end) => first \in Units
  BY DEF WriteSecs
<1> QED
  BY <1>2, <1>3 DEF Next

\* Every step keeps the control variables in their ranges.
LEMMA ControlStep ==
  ASSUME ControlOK, [Next]_vars
  PROVE  ControlOK'
<1> USE SizeAssumption DEF ControlOK, Units
<1>1. CASE Initialize
  BY <1>1 DEF Initialize, control
<1>2. ASSUME NEW first \in Units, NEW end \in Units, WriteSecs(first, end)
      PROVE  ControlOK'
  BY <1>2 DEF WriteSecs
<1>3. ASSUME NEW u \in Units, ReadSecs(u)
      PROVE  ControlOK'
  BY <1>3 DEF ReadSecs, control
<1>4. CASE WriteUnit
  <2>1. CASE drive'.fault # "none"
    BY <1>4, <2>1 DEF WriteUnit, ToIdle
  <2>2. CASE drive'.fault = "none"
    BY <1>4, <2>2 DEF WriteUnit
  <2> QED
    BY <2>1, <2>2
<1>5. CASE WriteEnd
  BY <1>5 DEF WriteEnd, ToIdle
<1>6. CASE StartFold
  BY <1>6 DEF StartFold, ToIdle
<1>7. CASE FoldPage
  <2>1. UNCHANGED <<config, starts>> /\ (ToIdle \/ UNCHANGED control)
    BY <1>7 DEF FoldPage
  <2> QED
    BY <2>1 DEF ToIdle, control
<1>8. CASE EndFold
  <2>1. UNCHANGED <<config, starts>> /\ (ToIdle \/ (victim' = 0 /\ UNCHANGED <<pc, unit, last>>))
    BY <1>8 DEF EndFold
  <2> QED
    BY <2>1 DEF ToIdle
<1>9. CASE EndCollection
  BY <1>9 DEF EndCollection, ToIdle
<1>10. CASE UNCHANGED vars
  BY <1>10 DEF vars, control
<1> QED
  BY <1>1, <1>2, <1>3, <1>4, <1>5, <1>6, <1>7, <1>8, <1>9, <1>10, HostSteps

\* What NoHalfFold says of a step.
WholeFold == (StartedOnce /\ Collecting /\ victim # 0) => drive'.fault # "full"

\* Every step of a drive that was started once keeps its tables sound, and keeps
\* them in agreement unless it stops a fold half way.
LEMMA StepSound ==
  ASSUME ControlOK, Next, starts' = 1, ~Initialize, Sound(drive, {}), Taken(drive, victim)
  PROVE  /\ Sound(drive', {}) /\ Taken(drive', victim')
         /\ Agree(drive, {}) /\ WholeFold => Agree(drive', {})
<1> DEFINE Goal == /\ Sound(drive', {}) /\ Taken(drive', victim')
                   /\ Agree(drive, {}) /\ WholeFold => Agree(drive', {})
<1>1. starts = 1
  BY DEF Next, WriteSecs, ReadSecs, WriteUnit, WriteEnd, StartFold, FoldPage, EndFold,
         EndCollection
<1>2. \A d : Taken(d, 0)
  BY DEF Taken
<1>3. victim \in Blocks \cup {0} /\ last \in Units /\ unit \in 0 .. TotalUnit
  BY DEF ControlOK
<1>4. ASSUME NEW first \in Units, NEW end \in Units, WriteSecs(first, end)
      PROVE  Goal
  <2>1. drive' = Fail(drive, "none") /\ victim' = victim
    BY <1>4 DEF WriteSecs
  <2> QED
    BY <2>1, FailSound
<1>5. ASSUME NEW u \in Units, ReadSecs(u)
      PROVE  Goal
  <2> DEFINE a == drive.ftl[u]
             Right == a = None \/ (/\ drive.type[a.block] # "empty"
                                   /\ drive.page[a.block][a.unit] = u)
  <2>1. drive' = Fail(drive, IF Right THEN "none" ELSE "sanity") /\ victim' = victim
    BY <1>5 DEF ReadSecs, control
  <2>2. ASSUME Agree(drive, {})
        PROVE  Right
    <3> SUFFICES ASSUME a # None
                 PROVE  drive.type[a.block] # "empty" /\ drive.page[a.block][a.unit] = u
      OBVIOUS
    <3>1. a \in Address
      BY DEF Sound, Drives
    <3>2. a.unit \in Pages
      BY <3>1, Addresses
    <3>3. a.unit < TotalOf(drive.type[a.block]) /\ drive.page[a.block][a.unit] = u
      BY <2>2 DEF Agree, Found
    <3> QED
      BY <3>2, <3>3, Totals, SizeAssumption DEF Pages
  <2> HIDE DEF Right
  <2> QED
    BY <2>1, <2>2, FailSound
<1>6. CASE WriteUnit
  <2>1. unit \in Units
    BY <1>3, <1>6, SizeAssumption DEF WriteUnit, Units
  <2>2. drive' = WrittenOne(unit) /\ (victim' = 0 \/ victim' = victim)
    BY <1>6 DEF WriteUnit, ToIdle
  <2> QED
    BY <1>2, <1>3, <2>1, <2>2, WrittenOneSound
<1>7. CASE WriteEnd
  <2>1. drive' = drive /\ (victim' = 0 \/ victim' = victim)
    BY <1>7 DEF WriteEnd, ToIdle
  <2> QED
    BY <1>2, <2>1
<1>8. CASE StartFold
  <2>1. CASE drive' = drive /\ \E b \in Blocks : IsVictim(b) /\ victim' = b
    <3>1. drive.type[victim'] # "empty" /\ IsFull(drive, victim')
      BY <2>1 DEF IsVictim, Candidates
    <3> QED
      BY <2>1, <3>1 DEF Taken
  <2>2. CASE drive' = Fail(drive, "full") /\ victim' = 0
    BY <1>2, <2>2, FailSound
  <2> QED
    BY <1>8, <2>1, <2>2 DEF StartFold, ToIdle
<1>9. CASE FoldPage
  <2>1. victim \in Blocks
    BY <1>3, <1>9 DEF FoldPage
  <2>2. WholeFold => drive'.fault # "full"
    BY <1>1, <1>9 DEF WholeFold, FoldPage, StartedOnce
  <2>3. /\ Sound(drive', {}) /\ Taken(drive', victim)
        /\ Agree(drive, {}) /\ drive'.fault # "full" => Agree(drive', {})
    BY <1>9, <2>1, FoldPageSound
  <2>4. victim' = 0 \/ victim' = victim
    <3>1. CASE drive'.fault # "none"
      BY <1>9, <3>1 DEF FoldPage, ToIdle
    <3>2. CASE drive'.fault = "none"
      BY <1>9, <3>2 DEF FoldPage, control
    <3> QED
      BY <3>1, <3>2
  <2> QED
    BY <1>2, <2>2, <2>3, <2>4
<1>10. CASE EndFold
  <2>1. victim \in Blocks /\ ToMove = {}
    BY <1>3, <1>10 DEF EndFold
  <2>2. Agree(drive, {}) =>
          /\ drive.valid[victim] = 0
          /\ \A v \in Units : drive.ftl[v] # None => drive.ftl[v].block # victim
    BY <2>1, NothingLeft
  <2>3. CASE drive.valid[victim] # 0
    <3>1. drive' = Fail(drive, "sanity") /\ victim' = 0
      BY <1>10, <2>3 DEF EndFold, ToIdle
    <3> QED
      BY <1>2, <2>2, <2>3, <3>1, FailSound
  <2>4. CASE drive.valid[victim] = 0
    <3> DEFINE e == Erase([drive EXCEPT !.list[drive.type[victim]][victim] = 0], victim)
    <3>1. drive' = e /\ victim' = 0
      BY <1>10, <2>4 DEF EndFold
    <3>2. /\ Sound(e, {})
          /\ Agree(drive, {})
             /\ (\A v \in Units : drive.ftl[v] # None => drive.ftl[v].block # victim)
             => Agree(e, {})
      BY <2>1, EraseSound
    <3> HIDE DEF e
    <3> QED
      BY <1>2, <2>2, <3>1, <3>2
  <2> QED
    BY <2>3, <2>4
<1>11. CASE EndCollection
  <2>1. drive' = drive /\ (victim' = 0 \/ victim' = victim)
    BY <1>11 DEF EndCollection, ToIdle
  <2> QED
    BY <1>2, <2>1
<1> QED
  BY <1>4, <1>5, <1>6, <1>7, <1>8, <1>9, <1>10, <1>11, HostSteps

LEMMA NextSound ==
  ASSUME SoundInv, [Next]_vars
  PROVE  SoundInv' /\ (IInv /\ (WholeFold \/ UNCHANGED vars) => IInv')
<1>1. ControlOK'
  BY ControlStep DEF SoundInv
<1>2. CASE UNCHANGED vars
  BY <1>2 DEF IInv, SoundInv, ControlOK, vars, control, StartedOnce, Units
<1>3. CASE Initialize
  BY <1>1, <1>3 DEF IInv, SoundInv, ControlOK, Initialize, StartedOnce
<1>4. CASE Next /\ ~Initialize
  <2>1. starts' = starts
    BY <1>4 DEF Next, WriteSecs, ReadSecs, WriteUnit, WriteEnd, StartFold, FoldPage, EndFold,
                EndCollection
  <2>2. CASE starts # 1
    BY <1>1, <2>1, <2>2 DEF IInv, SoundInv, StartedOnce
  <2>3. CASE starts = 1
    <3>1. ControlOK /\ Sound(drive, {}) /\ Taken(drive, victim)
      BY <2>3 DEF SoundInv, StartedOnce
    <3>2. /\ Sound(drive', {}) /\ Taken(drive', victim')
          /\ Agree(drive, {}) /\ WholeFold => Agree(drive', {})
      BY <1>4, <2>1, <2>3, <3>1, StepSound
    <3>3. IInv => Agree(drive, {})
      BY <2>3 DEF IInv, StartedOnce
    <3>4. UNCHANGED vars => drive' = drive
      BY DEF vars
    <3> QED
      BY <1>1, <3>2, <3>3, <3>4 DEF IInv, SoundInv
  <2> QED
    BY <2>2, <2>3
<1> QED
  BY <1>2, <1>3, <1>4

\* The lists, the open blocks and the ranges are sound in every behaviour ...
LEMMA AlwaysSound == Spec => []SoundInv
<1>1. Init => SoundInv
  BY InitSound DEF IInv
<1>2. SoundInv /\ [Next]_vars => SoundInv'
  BY NextSound
<1> QED
  BY <1>1, <1>2, PTL DEF Spec

\* ... and the tables agree when no collection stops half way.
LEMMA AlwaysAgree == Spec /\ NoHalfFold => []IInv
<1>1. Init => IInv
  BY InitSound
<1>2. IInv /\ [Next]_vars /\ [WholeFold]_vars => IInv'
  BY NextSound DEF IInv
<1>3. NoHalfFold <=> [][WholeFold]_vars
  BY DEF NoHalfFold, WholeFold
<1> QED
  BY <1>1, <1>2, <1>3, PTL DEF Spec

-----------------------------------------------------------------------------
(* A drive without a hot index, with more blocks than its units fill: there   *)
(* is always a block to fold, and a fold needs no more than one new block.    *)

Roomy ==
  /\ \A c \in Configs : ~c.hot /\ c.refresh >= 2
  /\ (BlockNum - 5) * PageNum > TotalUnit

\* Of the full blocks with the least valid data one is the first.
LEMMA VictimExists ==
  ASSUME drive \in Drives, NEW c \in Candidates, Weight(c) < 3 * PageNum,
         \A b \in Blocks : drive.valid[b] \in Nat
  PROVE  \E b \in Blocks : IsVictim(b)
<1> DEFINE weights == {Weight(b) : b \in Candidates}
<1>1. Candidates \subseteq Blocks /\ Blocks \subseteq Nat
  BY SizeAssumption DEF Candidates, Blocks
<1>2. \A b \in Candidates : Weight(b) \in Nat
  <2> SUFFICES ASSUME NEW b \in Candidates
               PROVE  Weight(b) \in Nat
    OBVIOUS
  <2>1. drive.valid[b] \in Nat
    BY <1>1
  <2> QED
    BY <2>1 DEF Weight
<1>3. weights \subseteq Nat /\ weights # {}
  BY <1>2
<1>4. PICK m \in weights : \A n \in weights : ~(<<n, m>> \in OpToRel(<, Nat))
  BY <1>3, WFMin, NatLessThanWellFounded
<1> DEFINE lightest == {b \in Candidates : Weight(b) = m}
<1>5. lightest \subseteq Nat /\ lightest # {}
  BY <1>1
<1>6. PICK b \in lightest : \A n \in lightest : ~(<<n, b>> \in OpToRel(<, Nat))
  BY <1>5, WFMin, NatLessThanWellFounded
<1>7. \A n \in weights : m <= n
  <2>1. \A n \in weights : ~(n < m)
    BY <1>3, <1>4 DEF OpToRel
  <2> HIDE DEF weights
  <2> QED
    BY <1>3, <2>1
<1>8. \A n \in lightest : b <= n
  <2>1. \A n \in lightest : ~(n < b)
    BY <1>5, <1>6 DEF OpToRel
  <2> HIDE DEF lightest
  <2> QED
    BY <1>5, <2>1
<1>9. b \in Candidates /\ Weight(b) = m /\ m <= Weight(c)
  BY <1>6, <1>7
<1>10. Weight(b) < 3 * PageNum
  BY <1>2, <1>9, SizeAssumption
<1>11. ASSUME NEW e \in Candidates
       PROVE  Weight(b) < Weight(e) \/ (Weight(b) = Weight(e) /\ b <= e)
  <2>1. Weight(b) <= Weight(e)
    BY <1>7, <1>9
  <2>2. CASE Weight(b) = Weight(e)
    BY <1>8, <1>9, <2>2
  <2> QED
    BY <1>2, <1>9, <2>1, <2>2
<1> QED
  BY <1>1, <1>9, <1>10, <1>11 DEF IsVictim

\* A full block that is no lighter than a full TLC block has all its pages live.
LEMMA WhollyLive ==
  ASSUME Sound(drive, {}), Agree(drive, {}), NEW c \in Candidates, Weight(c) >= 3 * PageNum,
         NEW p \in 0 .. PageNum - 1
  PROVE  p \in Live(drive, c)
<1> DEFINE total == TotalOf(drive.type[c])
<1>1. drive \in Drives /\ c \in Blocks /\ drive.type[c] \in BlockTypes
  BY DEF Sound, Candidates, Drives
<1>2. total \in Nat /\ total >= PageNum /\ (drive.type[c] = "slc" => total = PageNum)
      /\ (drive.type[c] # "slc" => total = 3 * PageNum)
  BY <1>1, Totals, SizeAssumption DEF BlockTypes
<1>3. drive.valid[c] = Cardinality(Live(drive, c)) /\ drive.valid[c] \in Int
  BY <1>1 DEF Agree, Counted, Drives
<1>4. drive.valid[c] >= total
  BY <1>2, <1>3, SizeAssumption DEF Weight
<1> DEFINE all == 0 .. total - 1
<1>5. IsFiniteSet(all) /\ Cardinality(all) = total
  <2>1. Cardinality(0 .. total - 1) = IF 0 > total - 1 THEN 0 ELSE (total - 1) - 0 + 1
    BY <1>2, FS_Interval
  <2> QED
    BY <1>2, <2>1, FS_Interval
<1>6. Live(drive, c) \subseteq all
  BY DEF Live
<1> HIDE DEF total, all
<1>7. Live(drive, c) = all
  <2>1. /\ Cardinality(Live(drive, c)) <= Cardinality(all)
        /\ Cardinality(all) = Cardinality(Live(drive, c)) => all = Live(drive, c)
    BY <1>5, <1>6, FS_Subset
  <2> QED
    BY <1>2, <1>3, <1>4, <1>5, <2>1
<1> QED
  BY <1>2, <1>7, SizeAssumption DEF all

\* Units fill no more pages than there are units.
LEMMA UnitsFill ==
  ASSUME Sound(drive, {}), Agree(drive, {}), NEW C, C \subseteq Blocks, IsFiniteSet(C),
         \A b \in C : \A p \in 0 .. PageNum - 1 : p \in Live(drive, b)
  PROVE  Cardinality(C) * PageNum <= TotalUnit
<1> DEFINE P == 0 .. PageNum - 1
           f == [x \in C \X P |-> drive.page[x[1]][x[2]]]
<1>1. IsFiniteSet(P) /\ Cardinality(P) = PageNum
  <2>1. Cardinality(0 .. PageNum - 1) = IF 0 > PageNum - 1 THEN 0 ELSE (PageNum - 1) - 0 + 1
    BY SizeAssumption, FS_Interval
  <2> QED
    BY SizeAssumption, <2>1, FS_Interval
<1>2. drive \in Drives
  BY DEF Sound
<1> HIDE DEF P
<1>3. \A b \in C : \A p \in P : p \in Pages /\ p < TotalOf(drive.type[b]) /\ drive.page[b][p] \in Units
  BY <1>2, LivePages DEF P
<1>4. f \in [C \X P -> Units]
  BY <1>3
<1>5. ASSUME NEW x \in C \X P, NEW y \in C \X P, f[x] = f[y]
      PROVE  x = y
  <2>1. drive.ftl[f[x]] = [block |-> x[1], unit |-> x[2]]
    BY <1>3 DEF Agree, Known
  <2>2. drive.ftl[f[y]] = [block |-> y[1], unit |-> y[2]]
    BY <1>3 DEF Agree, Known
  <2>3. x[1] = y[1] /\ x[2] = y[2]
    BY <1>5, <2>1, <2>2
  <2> QED
    BY <2>3
<1> HIDE DEF f
<1>6. IsFiniteSet(C \X P) /\ Cardinality(C \X P) = Cardinality(C) * Cardinality(P)
  BY <1>1, FS_Product
<1>7. ~(Cardinality(Units) < Cardinality(C \X P))
  BY <1>4, <1>5, <1>6, UnitsFinite, FS_PigeonHole
<1>8. Cardinality(C) \in Nat
  BY FS_CardinalityType
<1>9. Cardinality(C) * PageNum \in Int
  BY <1>8, SizeAssumption
<1> QED
  BY <1>1, <1>6, <1>7, <1>9, UnitsFinite, SizeAssumption

\* All blocks but the empty ones and the two open ones are full.
LEMMA EnoughCandidates ==
  ASSUME Sound(drive, {}), Len(drive.empty) <= 1
  PROVE  IsFiniteSet(Candidates) /\ Cardinality(Candidates) >= BlockNum - 5
<1> DEFINE E == {drive.empty[i] : i \in 1 .. Len(drive.empty)}
           O == {drive.open[t].block : t \in BlockTypes}
<1>1. drive \in Drives /\ Len(drive.empty) \in Nat
  BY DEF Sound, Drives
<1>2. Blocks \subseteq Candidates \cup (E \cup O)
  <2> SUFFICES ASSUME NEW b \in Blocks, b \notin Candidates, b \notin E
               PROVE  b \in O
    OBVIOUS
  <2>1. drive.type[b] # "empty"
    BY DEF Sound, Listed
  <2>2. ~IsFull(drive, b)
    BY <2>1 DEF Candidates
  <2> QED
    BY <2>1, <2>2 DEF Sound, Closed, IsFull
<1>3. IsFiniteSet(Blocks) /\ Cardinality(Blocks) = BlockNum - 2
  <2>1. Cardinality(1 .. BlockNum - 2) = IF 1 > BlockNum - 2 THEN 0 ELSE (BlockNum - 2) - 1 + 1
    BY SizeAssumption, FS_Interval
  <2> QED
    BY SizeAssumption, <2>1, FS_Interval DEF Blocks
<1>4. IsFiniteSet(Candidates)
  BY <1>3, FS_Subset DEF Candidates
<1>5. IsFiniteSet(E) /\ Cardinality(E) <= 1
  <2>1. CASE Len(drive.empty) = 0
    <3>1. E = {}
      BY <2>1
    <3> HIDE DEF E
    <3>2. IsFiniteSet({}) /\ Cardinality({}) = 0
      BY FS_EmptySet
    <3> QED
      BY <3>1, <3>2
  <2>2. CASE Len(drive.empty) = 1
    <3>1. E = {drive.empty[1]}
      BY <2>2
    <3> HIDE DEF E
    <3>2. IsFiniteSet({drive.empty[1]}) /\ Cardinality({drive.empty[1]}) = 1
      BY FS_Singleton
    <3> QED
      BY <3>1, <3>2
  <2>3. \A n \in Nat : n <= 1 => n = 0 \/ n = 1
    OBVIOUS
  <2>4. Len(drive.empty) = 0 \/ Len(drive.empty) = 1
    BY <1>1, <2>3
  <2> QED
    BY <2>1, <2>2, <2>4
<1>6. IsFiniteSet(O) /\ Cardinality(O) <= 2
  <2> DEFINE s == drive.open["slc"].block
             t == drive.open["tlc"].block
  <2>1. O = {s} \cup {t}
    BY DEF BlockTypes
  <2> HIDE DEF s, t, O
  <2>2. IsFiniteSet({s}) /\ Cardinality({s}) = 1
    BY FS_Singleton
  <2>3. /\ IsFiniteSet({s} \cup {t})
        /\ Cardinality({s} \cup {t}) = IF t \in {s} THEN Cardinality({s}) ELSE Cardinality({s}) + 1
    BY <2>2, FS_AddElement
  <2>4. CASE t \in {s}
    <3>1. Cardinality({s} \cup {t}) = 1
      BY <2>2, <2>3, <2>4
    <3>2. Cardinality(O) = 1
      BY <2>1, <3>1, Zenon
    <3>3. IsFiniteSet(O)
      BY <2>1, <2>3, Zenon
    <3> QED
      BY <3>2, <3>3, SMT
  <2>5. CASE t \notin {s}
    <3>1. Cardinality({s} \cup {t}) = 1 + 1
      BY <2>2, <2>3, <2>5, Zenon
    <3>2. Cardinality(O) = 1 + 1
      BY <2>1, <3>1, Zenon
    <3>3. IsFiniteSet(O)
      BY <2>1, <2>3, Zenon
    <3> QED
      BY <3>2, <3>3, SMT
  <2> QED
    BY <2>4, <2>5
<1> HIDE DEF E, O
<1>7. IsFiniteSet(E \cup O) /\ Cardinality(E \cup O) <= 3
  <2>1. /\ IsFiniteSet(E \cup O)
        /\ Cardinality(E \cup O) = Cardinality(E) + Cardinality(O) - Cardinality(E \cap O)
    BY <1>5, <1>6, FS_Union
  <2>2. IsFiniteSet(E \cap O)
    BY <1>5, FS_Intersection
  <2>3. Cardinality(E \cap O) \in Nat /\ Cardinality(E) \in Nat /\ Cardinality(O) \in Nat
    BY <1>5, <1>6, <2>2, FS_CardinalityType
  <2> QED
    BY <1>5, <1>6, <2>1, <2>3
<1>8. Cardinality(Candidates \cup (E \cup O)) >= BlockNum - 2
  <2>1. IsFiniteSet(Candidates \cup (E \cup O))
    BY <1>4, <1>7, FS_Union
  <2> QED
    BY <1>2, <1>3, <2>1, FS_Subset
<1>9. Cardinality(Candidates) + Cardinality(E \cup O) - Cardinality(Candidates \cap (E \cup O))
        >= BlockNum - 2
  BY <1>4, <1>7, <1>8, FS_Union
<1>10. IsFiniteSet(Candidates \cap (E \cup O))
  BY <1>4, FS_Intersection
<1>11. /\ Cardinality(Candidates) \in Nat /\ Cardinality(E \cup O) \in Nat
       /\ Cardinality(Candidates \cap (E \cup O)) \in Nat
  BY <1>4, <1>7, <1>10, FS_CardinalityType
<1> QED
  BY <1>4, <1>7, <1>9, <1>11, SizeAssumption

\* With one empty block or none there is a block to fold.
LEMMA AlwaysAVictim ==
  ASSUME Roomy, Sound(drive, {}), Agree(drive, {}), Len(drive.empty) <= 1
  PROVE  \E b \in Blocks : IsVictim(b)
<1>1. drive \in Drives /\ \A b \in Blocks : drive.valid[b] \in Nat
  BY DEF Sound, Bounded, Drives
<1>2. IsFiniteSet(Candidates) /\ Cardinality(Candidates) >= BlockNum - 5
  BY EnoughCandidates
<1>3. Candidates \subseteq Blocks
  BY DEF Candidates
<1>4. PICK c \in Candidates : Weight(c) < 3 * PageNum
  <2> SUFFICES ASSUME \A c \in Candidates : Weight(c) >= 3 * PageNum
               PROVE  FALSE
    <3>1. \A c \in Candidates : Weight(c) \in Nat
      BY <1>1, <1>3 DEF Weight
    <3> QED
      BY <3>1, SizeAssumption
  <2>1. Cardinality(Candidates) * PageNum <= TotalUnit
    BY <1>2, <1>3, WhollyLive, UnitsFill
  <2>2. Cardinality(Candidates) \in Nat
    BY <1>2, FS_CardinalityType
  <2>3. Cardinality(Candidates) * PageNum >= (BlockNum - 5) * PageNum
    BY <1>2, <2>2, SizeAssumption
  <2> QED
    BY <2>1, <2>2, <2>3, SizeAssumption DEF Roomy
<1> QED
  BY <1>1, <1>4, VictimExists

\* What a fold of w may count on in tables d: n empty blocks, or one less and
\* room for what is left of w in the open TLC block.
Room(d, w) ==
  \/ d.valid[w] = 0
  \/ d.open["tlc"] # None /\ 3 * PageNum - d.open["tlc"].unit >= d.valid[w]

Ready(d, w, n) ==
  /\ d.valid[w] < 3 * PageNum
  /\ Len(d.empty) >= n \/ (Len(d.empty) >= n - 1 /\ Room(d, w))

\* A page written to the open TLC block leaves room for the rest.
LEMMA RoomAfter ==
  ASSUME NEW a \in Address, a # None, NEW v \in Nat, v > 0, 3 * PageNum - a.unit >= v
  PROVE  \/ v - 1 = 0
         \/ Advance(a, "tlc") # None /\ 3 * PageNum - Advance(a, "tlc").unit >= v - 1
<1>1. a.block \in Blocks /\ a.unit \in Pages /\ a = [block |-> a.block, unit |-> a.unit]
  BY Addresses
<1>2. a.unit \in Nat
  BY <1>1, SizeAssumption DEF Pages
<1>3. CASE a.unit + 1 >= 3 * PageNum
  <2>1. v - 1 = 0
    BY <1>2, <1>3, SizeAssumption
  <2> QED
    BY <2>1
<1>4. CASE a.unit + 1 < 3 * PageNum
  <2>1. Advance(a, "tlc") = [block |-> a.block, unit |-> a.unit + 1]
    BY <1>1, <1>2, <1>4, Totals, SizeAssumption DEF Advance
  <2>2. Advance(a, "tlc") # None
    BY <1>1, <2>1, NotNone
  <2>3. Advance(a, "tlc").unit = a.unit + 1
    BY <2>1
  <2> QED
    BY <1>2, <2>2, <2>3, SizeAssumption
<1> QED
  BY <1>2, <1>3, <1>4, SizeAssumption

\* Without a hot index a fold that is ready for its victim goes on to the end.
LEMMA FoldPageReady ==
  ASSUME ~config.hot, Sound(drive, {}), Agree(drive, {}), drive.fault = "none",
         Taken(drive, victim), victim \in Blocks, FoldPage,
         NEW n \in {1, 2}, Ready(drive, victim, n)
  PROVE  drive'.fault = "none" /\ Ready(drive', victim, n)
<1> DEFINE p == CHOOSE q \in ToMove : \A r \in ToMove : q <= r
           u == drive.page[victim][p]
           invalid == InvalidUnit(drive, drive.ftl[u])
           opened == Then(invalid, LAMBDA d : Opened(d, "tlc"))
           written == Then(opened, LAMBDA d : ProgramNandPage(d, "tlc", u))
           v == drive.valid[victim]
<1>tlc. "tlc" \in BlockTypes /\ TotalOf("tlc") = 3 * PageNum
  BY Totals DEF BlockTypes
<1>0. drive \in Drives /\ drive.empty \in Seq(Blocks) /\ Len(drive.empty) \in Nat
  BY DEF Sound, Drives
<1>1. drive' = written
  <2>1. \E t \in IF config.hot THEN {"slc", "tlc"} ELSE {"tlc"} :
          drive' = Then(Then(invalid, LAMBDA d : Opened(d, t)), LAMBDA d : ProgramNandPage(d, t, u))
    BY DEF FoldPage
  <2> HIDE DEF invalid, u
  <2> QED
    BY <2>1
<1>2. u \in Units /\ drive.ftl[u] # None /\ drive.ftl[u].block = victim
  <2>1. ToMove # {}
    BY DEF FoldPage
  <2> QED
    BY <1>0, <2>1, FirstToMove
<1>3. opened = IF invalid.fault = "none" THEN Opened(invalid, "tlc") ELSE invalid
  <2> HIDE DEF invalid, u
  <2> QED
    BY ONLY ChosenIsIt DEF Then, opened
<1> HIDE DEF opened, invalid, u
<1>4. drive' = IF opened.fault = "none" THEN ProgramNandPage(opened, "tlc", u) ELSE opened
  BY <1>1, ChosenIsIt DEF Then
<1>5. /\ Sound(invalid, {}) /\ Sound(invalid, {u}) /\ Taken(invalid, victim)
      /\ invalid.open = drive.open /\ invalid.empty = drive.empty
      /\ invalid.fault = drive.fault \/ invalid.fault = "sanity"
      /\ Agree(invalid, {u})
      /\ \A b \in Blocks :
           invalid.valid[b] = drive.valid[b] - (IF b = drive.ftl[u].block THEN 1 ELSE 0)
  BY <1>2, InvalidSound DEF invalid
<1>6. invalid.fault = "none" /\ invalid.valid[victim] = v - 1 /\ v \in Nat /\ v > 0
  <2>1. invalid.fault = "none"
    BY <1>5 DEF Agree
  <2>2. invalid.valid[victim] = v - 1
    BY <1>2, <1>5
  <2>3. v \in Int
    BY <1>0 DEF Drives
  <2>4. invalid.valid[victim] >= 0
    BY <1>5 DEF Sound, Bounded
  <2> HIDE DEF v
  <2> QED
    BY <2>1, <2>2, <2>3, <2>4
<1>7. opened = Opened(invalid, "tlc")
  BY <1>3, <1>6
<1> DEFINE a == opened.open["tlc"]
<1>8. /\ Sound(opened, {u}) /\ Taken(opened, victim)
      /\ opened.fault = "none" /\ a # None /\ opened.valid[victim] = v - 1
      /\ \/ drive.open["tlc"] = a /\ opened.empty = drive.empty
         \/ /\ drive.open["tlc"] = None /\ a.unit = 0
            /\ Len(opened.empty) = Len(drive.empty) - 1
  <2>1. CASE drive.open["tlc"] # None
    <3>1. opened = invalid
      BY <1>5, <1>7, <2>1 DEF Opened
    <3> QED
      BY <1>5, <1>6, <2>1, <3>1
  <2>2. CASE drive.open["tlc"] = None
    <3>1. ~Room(drive, victim)
      BY <1>6, <2>2 DEF Room
    <3>2. Len(drive.empty) >= n
      BY <3>1 DEF Ready
    <3>3. drive.empty # <<>>
      BY <1>0, <3>2
    <3>4. opened = Popup(invalid, "tlc")
      BY <1>5, <1>7, <2>2 DEF Opened
    <3>5. LET e == Popup(invalid, "tlc")
          IN /\ Sound(e, {u}) /\ Taken(e, victim)
             /\ e.fault = invalid.fault /\ e.open["tlc"] # None
             /\ e.open = [invalid.open EXCEPT !["tlc"] = [block |-> Head(invalid.empty), unit |-> 0]]
             /\ Len(e.empty) = Len(invalid.empty) - 1
             /\ \A b \in Blocks : invalid.type[b] # "empty" => e.valid[b] = invalid.valid[b]
      <4>1. /\ {u} \in SUBSET Units /\ victim \in Blocks \cup {0} /\ "tlc" \in BlockTypes
            /\ Sound(invalid, {u}) /\ Taken(invalid, victim)
        BY <1>tlc, <1>2, <1>5
      <4>2. invalid.open["tlc"] = None /\ invalid.empty # <<>>
        BY <1>5, <2>2, <3>3
      <4> QED
        BY ONLY <4>1, <4>2, PopupSound
    <3>6. invalid.type[victim] # "empty"
      BY <1>5 DEF Taken, Blocks
    <3>7. invalid.open \in [BlockTypes -> Address]
      BY <1>5 DEF Sound, Drives
    <3>8. opened.open["tlc"].unit = 0
      BY <1>tlc, <3>4, <3>5, <3>7
    <3> QED
      BY <1>5, <1>6, <2>2, <3>4, <3>5, <3>6, <3>8
  <2> QED
    BY <2>1, <2>2
<1>9. a \in Address /\ a.unit \in Nat /\ opened.empty \in Seq(Blocks) /\ Len(opened.empty) \in Nat
      /\ opened.open \in [BlockTypes -> Address]
  <2>1. a \in Address /\ opened.empty \in Seq(Blocks) /\ opened.open \in [BlockTypes -> Address]
    BY <1>tlc, <1>8 DEF Sound, Drives
  <2>2. a.unit \in Pages
    BY <1>8, <2>1, Addresses
  <2> QED
    BY <2>1, <2>2, SizeAssumption DEF Pages
<1>10. a.block # victim
  <2> SUFFICES ASSUME a.block = victim
               PROVE  FALSE
    OBVIOUS
  <2>1. /\ opened.type[victim] = "tlc" /\ a.unit < 3 * PageNum
        /\ \A q \in Pages : q < 3 * PageNum => (opened.page[victim][q] = Blank <=> q >= a.unit)
    BY <1>tlc, <1>8 DEF Sound, Writable
  <2>2. opened.page[victim][3 * PageNum - 1] # Blank
    BY <1>tlc, <1>8, <2>1 DEF Taken, IsFull, Blocks
  <2>3. 3 * PageNum - 1 \in Pages /\ 3 * PageNum - 1 < 3 * PageNum /\ 3 * PageNum - 1 >= a.unit
    BY <1>9, <2>1, SizeAssumption DEF Pages
  <2> QED
    BY <2>1, <2>2, <2>3
<1>11. LET e == ProgramNandPage(opened, "tlc", u)
       IN /\ e.fault = opened.fault
          /\ e.open = [opened.open EXCEPT !["tlc"] = Advance(opened.open["tlc"], "tlc")]
          /\ e.empty = opened.empty
          /\ \A b \in Blocks : b # opened.open["tlc"].block => e.valid[b] = opened.valid[b]
  BY <1>tlc, <1>2, <1>8, ProgramSound
<1>12. /\ drive'.fault = "none" /\ drive'.open["tlc"] = Advance(a, "tlc")
       /\ drive'.empty = opened.empty /\ drive'.valid[victim] = v - 1
  <2>1. drive' = ProgramNandPage(opened, "tlc", u)
    BY <1>4, <1>8
  <2> QED
    BY <1>tlc, <1>8, <1>9, <1>10, <1>11, <2>1
<1> HIDE DEF a, v
<1>13. v - 1 < 3 * PageNum /\ n \in Nat
  BY <1>6, SizeAssumption DEF Ready, v
<1>14. CASE drive.open["tlc"] = a /\ opened.empty = drive.empty
  <2>1. CASE Len(drive.empty) >= n
    BY <1>12, <1>13, <1>14, <2>1 DEF Ready
  <2>2. CASE Len(drive.empty) >= n - 1 /\ Room(drive, victim)
    <3>1. 3 * PageNum - a.unit >= v
      BY <1>6, <1>14, <2>2 DEF Room, v
    <3>2. \/ v - 1 = 0
          \/ Advance(a, "tlc") # None /\ 3 * PageNum - Advance(a, "tlc").unit >= v - 1
      BY <1>6, <1>8, <1>9, <3>1, RoomAfter DEF a
    <3>3. Room(drive', victim)
      BY <1>12, <3>2 DEF Room
    <3> QED
      BY <1>12, <1>13, <1>14, <2>2, <3>3 DEF Ready
  <2> QED
    BY <2>1, <2>2 DEF Ready
<1>15. CASE /\ drive.open["tlc"] = None /\ a.unit = 0
            /\ Len(opened.empty) = Len(drive.empty) - 1
  <2>1. ~Room(drive, victim)
    BY <1>6, <1>15 DEF Room, v
  <2>2. Len(drive.empty) >= n /\ v < 3 * PageNum
    BY <2>1 DEF Ready, v
  <2>3. 3 * PageNum - a.unit >= v
    BY <1>6, <1>15, <2>2, SizeAssumption
  <2>4. \/ v - 1 = 0
        \/ Advance(a, "tlc") # None /\ 3 * PageNum - Advance(a, "tlc").unit >= v - 1
    BY <1>6, <1>8, <1>9, <2>3, RoomAfter DEF a
  <2>5. Room(drive', victim)
    BY <1>12, <2>4 DEF Room
  <2>6. Len(drive'.empty) >= n - 1
    BY <1>0, <1>12, <1>13, <1>15, <2>2
  <2> QED
    BY <1>12, <1>13, <2>5, <2>6 DEF Ready
<1> QED
  BY <1>8, <1>12, <1>14, <1>15 DEF a

\* Between commands and folds two blocks are empty, in a foreground collection
\* one; a fold under way is ready for the rest of its victim.
Least == IF pc = "foreground" THEN 1 ELSE 2

Reserve ==
  /\ ~Collecting => victim = 0
  /\ pc # "idle" => drive.fault = "none"
  /\ victim = 0 => Len(drive.empty) >= Least
  /\ victim # 0 => Ready(drive, victim, Least)

LEMMA ReserveInit ==
  ASSUME Roomy, Init
  PROVE  Reserve
<1>1. BlockNum - 5 > 0
  <2>1. CASE BlockNum - 5 <= 0
    <3>1. (BlockNum - 5) * PageNum <= 0
      BY <2>1, SizeAssumption
    <3> QED
      BY <3>1, SizeAssumption DEF Roomy
  <2> QED
    BY <2>1, SizeAssumption
<1>2. Len(drive.empty) = BlockNum - 2
  <2>1. drive.empty = <<>> \o AllBlocks
    BY DEF Init, Cleared
  <2>2. AllBlocks \in Seq(Nat) /\ Len(AllBlocks) = BlockNum - 2
    BY SizeAssumption DEF AllBlocks
  <2> QED
    BY <2>1, <2>2
<1> QED
  BY <1>1, <1>2, SizeAssumption DEF Init, Reserve, Least

LEMMA ReserveStep ==
  ASSUME Roomy, ControlOK, Next, ~Initialize,
         Sound(drive, {}), Agree(drive, {}), Taken(drive, victim), Reserve
  PROVE  Reserve' /\ WholeFold
<1>1. /\ drive \in Drives /\ drive.empty \in Seq(Blocks) /\ Len(drive.empty) \in Nat
      /\ \A f : Fail(drive, f).empty = drive.empty /\ Fail(drive, f).fault = f
  BY DEF Sound, Drives, Fail
<1>2. victim \in Blocks \cup {0} /\ last \in Units /\ unit \in 0 .. TotalUnit
  BY DEF ControlOK
<1>3. /\ config.refresh \in Nat /\ config.guardband \in Nat
      /\ config.refresh >= 2 /\ ~config.hot
  BY SizeAssumption DEF Roomy, ControlOK
<1>4. ASSUME NEW first \in Units, NEW end \in Units, WriteSecs(first, end)
      PROVE  Reserve' /\ WholeFold
  <2>1. pc = "idle" /\ pc' = "write" /\ drive' = Fail(drive, "none") /\ victim' = victim
    BY <1>4 DEF WriteSecs
  <2> QED
    BY <1>1, <2>1 DEF Reserve, Least, Collecting, WholeFold
<1>5. ASSUME NEW u \in Units, ReadSecs(u)
      PROVE  Reserve' /\ WholeFold
  <2>1. pc = "idle" /\ pc' = pc /\ victim' = victim /\ \E f : drive' = Fail(drive, f)
    BY <1>5 DEF ReadSecs, control
  <2> QED
    BY <1>1, <2>1 DEF Reserve, Least, Collecting, WholeFold
<1>6. CASE WriteUnit
  <2>1. unit \in Units /\ pc = "write" /\ victim = 0 /\ drive.fault = "none"
        /\ Len(drive.empty) >= 2
    BY <1>2, <1>6, SizeAssumption DEF WriteUnit, Units, Reserve, Collecting, Least
  <2>2. drive' = WrittenOne(unit)
    BY <1>6 DEF WriteUnit
  <2>3. drive.empty # <<>>
    BY <1>1, <2>1
  <2>4. Agree(WrittenOne(unit), {}) /\ WrittenOne(unit).fault = "none"
        /\ Len(WrittenOne(unit).empty) >= Len(drive.empty) - 1 /\ Sound(WrittenOne(unit), {})
    BY <1>2, <2>1, <2>3, WrittenOneSound
  <2>5. Len(drive'.empty) \in Nat /\ Len(drive'.empty) >= 1 /\ drive'.fault = "none"
    <3>1. drive' \in Drives
      BY <2>2, <2>4 DEF Sound
    <3>2. Len(drive'.empty) \in Nat
      BY <3>1 DEF Drives
    <3> QED
      BY <1>1, <2>1, <2>2, <2>4, <3>2
  <2>6. /\ pc' = IF Len(drive'.empty) < config.refresh THEN "foreground" ELSE "write"
        /\ victim' = 0
    BY <1>6, <2>1, <2>5 DEF WriteUnit
  <2>7. Len(drive'.empty) >= Least'
    BY <1>3, <2>5, <2>6 DEF Least
  <2> QED
    BY <2>1, <2>5, <2>6, <2>7 DEF Reserve, WholeFold
<1>7. CASE WriteEnd
  <2>1. pc = "write" /\ drive' = drive /\ victim = 0 /\ victim' = 0 /\ pc' \in {"background", "idle"}
    BY <1>7 DEF WriteEnd, ToIdle, Reserve, Collecting
  <2> QED
    BY <2>1 DEF Reserve, Least, Collecting, WholeFold
<1>8. CASE StartFold
  <2>1. victim = 0 /\ Collecting /\ drive.fault = "none" /\ Len(drive.empty) >= Least
    BY <1>8 DEF StartFold, Reserve, Collecting
  <2>2. ASSUME NEW b \in Blocks, IsVictim(b), victim' = b, drive' = drive, pc' = pc
        PROVE  Reserve'
    <3>1. drive.valid[b] \in Int /\ drive.valid[b] >= 0
      BY <1>1 DEF Sound, Bounded, Drives
    <3>2. drive.valid[b] < 3 * PageNum
      BY <2>2, <3>1, SizeAssumption DEF IsVictim, Weight
    <3> QED
      BY <2>1, <2>2, <3>2 DEF Reserve, Ready, Least, Collecting, Blocks
  <2>3. CASE (~\E b \in Blocks : IsVictim(b)) /\ drive' = Fail(drive, "full") /\ ToIdle
    <3>1. ~(Len(drive.empty) <= 1)
      BY <2>3, AlwaysAVictim
    <3>2. Len(drive.empty) >= 2
      BY <1>1, <3>1
    <3> QED
      BY <1>1, <2>1, <2>3, <3>2 DEF Reserve, Least, ToIdle, Collecting, WholeFold
  <2>4. WholeFold
    BY <2>1 DEF WholeFold
  <2> QED
    BY <1>8, <2>2, <2>3, <2>4 DEF StartFold
<1>9. CASE FoldPage
  <2>1. victim \in Blocks /\ victim # 0 /\ Collecting /\ drive.fault = "none"
        /\ Ready(drive, victim, Least) /\ Least \in {1, 2}
    BY <1>2, <1>9 DEF FoldPage, Reserve, Least, Collecting
  <2>2. drive'.fault = "none" /\ Ready(drive', victim, Least)
    BY <1>3, <1>9, <2>1, FoldPageReady
  <2>3. victim' = victim /\ pc' = pc
    BY <1>9, <2>2 DEF FoldPage, control
  <2> QED
    BY <2>1, <2>2, <2>3 DEF Reserve, WholeFold, Least, Collecting
<1>10. CASE EndFold
  <2>1. victim \in Blocks /\ victim # 0 /\ Collecting /\ drive.fault = "none" /\ ToMove = {}
        /\ Ready(drive, victim, Least) /\ Least \in {1, 2}
    BY <1>2, <1>10 DEF EndFold, Reserve, Least, Collecting
  <2>2. drive.valid[victim] = 0
    BY <2>1, NothingLeft
  <2> DEFINE e == Erase([drive EXCEPT !.list[drive.type[victim]][victim] = 0], victim)
  <2>3. drive' = e /\ victim' = 0 /\ pc' = pc
    BY <1>10, <2>2 DEF EndFold
  <2>4. e.empty = Append(drive.empty, victim) /\ e.fault = drive.fault
    BY <1>1 DEF Erase, Drives
  <2> HIDE DEF e
  <2>5. Len(drive'.empty) = Len(drive.empty) + 1 /\ drive'.fault = "none"
    BY <1>1, <2>1, <2>3, <2>4
  <2>6. Len(drive'.empty) >= Least
    BY <1>1, <2>1, <2>5 DEF Ready
  <2> QED
    BY <2>1, <2>3, <2>5, <2>6 DEF Reserve, Least, Collecting, WholeFold
<1>11. CASE EndCollection
  <2>1. /\ Collecting /\ victim = 0 /\ victim' = 0 /\ drive' = drive /\ drive.fault = "none"
        /\ Len(drive.empty) >= Least /\ Len(drive.empty) >= Stop
        /\ IF pc = "foreground" THEN pc' = "write" ELSE pc' = "idle"
    BY <1>11 DEF EndCollection, ToIdle, Reserve, Collecting
  <2>2. Len(drive.empty) >= 2
    BY <1>1, <1>3, <2>1 DEF Stop, ForegroundStop, Least
  <2> QED
    BY <2>1, <2>2 DEF Reserve, Least, Collecting, WholeFold
<1> QED
  BY <1>4, <1>5, <1>6, <1>7, <1>8, <1>9, <1>10, <1>11, HostSteps

RoomyInv == IInv /\ (StartedOnce => Reserve)

LEMMA RoomyStep ==
  ASSUME Roomy, RoomyInv, [Next]_vars
  PROVE  RoomyInv' /\ (WholeFold \/ UNCHANGED vars)
<1>1. CASE UNCHANGED vars
  BY <1>1, NextSound DEF RoomyInv, IInv, vars, control, StartedOnce, Reserve, Least, Collecting,
                         Ready, Room
<1>2. CASE Initialize
  BY <1>2, NextSound DEF RoomyInv, IInv, SoundInv, ControlOK, Initialize, StartedOnce, WholeFold,
                         Collecting
<1>3. CASE Next /\ ~Initialize
  <2>1. starts' = starts
    BY <1>3 DEF Next, WriteSecs, ReadSecs, WriteUnit, WriteEnd, StartFold, FoldPage, EndFold,
                EndCollection
  <2>2. CASE starts # 1
    BY <2>1, <2>2, NextSound DEF RoomyInv, IInv, StartedOnce, WholeFold
  <2>3. CASE starts = 1
    <3>1. /\ ControlOK /\ Sound(drive, {}) /\ Taken(drive, victim) /\ Agree(drive, {})
          /\ Reserve
      BY <2>3 DEF RoomyInv, IInv, SoundInv, StartedOnce
    <3>2. Reserve' /\ WholeFold
      BY <1>3, <3>1, ReserveStep
    <3> QED
      BY <3>2, NextSound DEF RoomyInv, IInv
  <2> QED
    BY <2>2, <2>3
<1> QED
  BY <1>1, <1>2, <1>3

-----------------------------------------------------------------------------
(* The theorems.                                                             *)

\* Type correctness of a drive that was started once: the counters stay within
\* a block's pages and the drive's units whatever a command runs into.
THEOREM TypeCorrect == Spec => [](StartedOnce => TypeOK)
<1>1. SoundInv => (StartedOnce => TypeOK)
  <2> SUFFICES ASSUME SoundInv, StartedOnce
               PROVE  TypeOK
    OBVIOUS
  <2>1. drive \in Drives /\ ControlOK
    BY DEF SoundInv, Sound
  <2>2. \A b \in Blocks : drive.valid[b] \in 0 .. 3 * PageNum
    <3> SUFFICES ASSUME NEW b \in Blocks
                 PROVE  drive.valid[b] \in 0 .. 3 * PageNum
      OBVIOUS
    <3>1. IsFiniteSet(Pages) /\ Cardinality(Pages) = 3 * PageNum
      BY SizeAssumption, FS_Interval DEF Pages
    <3>2. Cardinality(Live(drive, b)) <= 3 * PageNum
      BY <2>1, <3>1, LiveFinite, FS_Subset
    <3>3. 0 <= drive.valid[b] /\ drive.valid[b] <= Cardinality(Live(drive, b))
      BY DEF SoundInv, Sound, Bounded
    <3>4. drive.valid[b] \in Int /\ Cardinality(Live(drive, b)) \in Nat
      BY <2>1, LiveFinite, FS_CardinalityType DEF Drives
    <3> QED
      BY <3>2, <3>3, <3>4, SizeAssumption
  <2>3. drive.mapped \in 0 .. TotalUnit
    <3>1. InUse(drive, {}) \subseteq Units
      BY DEF InUse
    <3>2. /\ Cardinality(InUse(drive, {})) <= TotalUnit
          /\ Cardinality(InUse(drive, {})) \in Nat
      BY <3>1, UnitsFinite, FS_Subset, FS_CardinalityType
    <3> QED
      BY <3>2, SizeAssumption DEF SoundInv, Sound
  <2>4. drive.valid \in [Blocks -> 0 .. 3 * PageNum]
    BY <2>1, <2>2 DEF Drives
  <2>5. drive \in [type : [Blocks -> BlockTypes \cup {"empty"}],
                   page : [Blocks -> [Pages -> Units \cup {Blank, Dead}]],
                   valid : [Blocks -> 0 .. 3 * PageNum],
                   ftl : [Units -> Address],
                   empty : Seq(Blocks),
                   list : [BlockTypes -> [Blocks -> Nat]],
                   open : [BlockTypes -> Address],
                   mapped : 0 .. TotalUnit,
                   fault : {"none", "full", "sanity"}]
    BY <2>1, <2>3, <2>4 DEF Drives
  <2> QED
    BY <2>1, <2>5 DEF TypeOK, ControlOK
<1> QED
  BY <1>1, AlwaysSound, PTL

\* Whatever a command runs into, each block is on exactly one of the three
\* lists, once: none is leaked and none is given out twice.
THEOREM ListsAlwaysPartition == Spec => []ListsPartition
<1>1. SoundInv => ListsPartition
  <2> SUFFICES ASSUME SoundInv, StartedOnce, NEW b \in Blocks
               PROVE  /\ drive.type[b] = "empty" => Cardinality(PlacesOf(b)) = 1
                      /\ drive.type[b] # "empty" => PlacesOf(b) = {}
                      /\ \A t \in BlockTypes :
                           drive.list[t][b] = IF drive.type[b] = t THEN 1 ELSE 0
    BY DEF ListsPartition
  <2>1. Listed(drive)
    BY DEF SoundInv, Sound
  <2>2. ASSUME drive.type[b] = "empty"
        PROVE  Cardinality(PlacesOf(b)) = 1
    <3>1. PICK i \in 1 .. Len(drive.empty) : drive.empty[i] = b
      BY <2>1, <2>2 DEF Listed
    <3>2. PlacesOf(b) = {i}
      BY <2>1, <3>1 DEF Listed, PlacesOf
    <3> QED
      BY <3>2, FS_Singleton
  <2>3. drive.type[b] # "empty" => PlacesOf(b) = {}
    BY <2>1 DEF Listed, PlacesOf
  <2> QED
    BY <2>1, <2>2, <2>3 DEF Listed
<1> QED
  BY <1>1, AlwaysSound, PTL

\* Whatever a command runs into, an open block is blank from its next page on,
\* and a collection never empties it.
THEOREM OpenAlwaysWritable == Spec => []OpenBlocksWritable
<1>1. SoundInv => OpenBlocksWritable
  <2> SUFFICES ASSUME SoundInv, StartedOnce, NEW t \in BlockTypes, drive.open[t] # None
               PROVE  /\ drive.open[t].block # victim
                      /\ \A p \in 0 .. TotalOf(drive.type[drive.open[t].block]) - 1 :
                           (drive.page[drive.open[t].block][p] = Blank) = (p >= drive.open[t].unit)
    BY DEF OpenBlocksWritable
  <2> DEFINE x == drive.open[t].block
             q == drive.open[t].unit
  <2>1. x \in Blocks /\ q \in Pages
    <3>1. drive.open[t] \in Address
      BY DEF SoundInv, Sound, Drives
    <3> QED
      BY <3>1, Addresses
  <2>2. /\ drive.type[x] = t /\ q < TotalOf(t)
        /\ \A p \in Pages : p < TotalOf(t) => (drive.page[x][p] = Blank <=> p >= q)
    BY DEF SoundInv, Sound, Writable
  <2> HIDE DEF x, q
  <2>3. \A p \in 0 .. TotalOf(t) - 1 : p \in Pages /\ p < TotalOf(t)
    BY Totals, SizeAssumption DEF Pages
  <2>4. x # victim
    <3> SUFFICES ASSUME x = victim
                 PROVE  FALSE
      OBVIOUS
    <3>1. x # 0
      BY <2>1 DEF Blocks
    <3>2. drive.page[x][TotalOf(t) - 1] # Blank
      BY <2>2, <3>1 DEF SoundInv, Taken, IsFull
    <3>3. TotalOf(t) - 1 \in Pages /\ TotalOf(t) - 1 < TotalOf(t) /\ TotalOf(t) - 1 >= q
      BY <2>1, <2>2, LastPage, Totals DEF Pages
    <3> QED
      BY <2>2, <3>2, <3>3
  <2> QED
    BY <2>2, <2>3, <2>4 DEF x, q
<1> QED
  BY <1>1, AlwaysSound, PTL

\* When no collection stops half way, every unit in use is found where the FTL
\* says and no page holds a unit the FTL does not know.
THEOREM MapsAlwaysAgree == Spec /\ NoHalfFold => []MapsAgree
<1>1. IInv => MapsAgree
  <2> SUFFICES ASSUME IInv, StartedOnce
               PROVE  /\ \A u \in Units : drive.ftl[u] # None =>
                           drive.page[drive.ftl[u].block][drive.ftl[u].unit] = u
                      /\ \A b \in Blocks : \A p \in Live(drive, b) :
                           drive.ftl[drive.page[b][p]] = [block |-> b, unit |-> p]
    BY DEF MapsAgree
  <2>1. drive \in Drives /\ Agree(drive, {})
    BY DEF IInv, SoundInv, Sound
  <2>2. \A u \in Units : drive.ftl[u] # None =>
          drive.page[drive.ftl[u].block][drive.ftl[u].unit] = u
    BY <2>1 DEF Agree, Found
  <2>3. \A b \in Blocks : \A p \in Live(drive, b) :
          drive.ftl[drive.page[b][p]] = [block |-> b, unit |-> p]
    BY <2>1, LivePages DEF Agree, Known
  <2> QED
    BY <2>2, <2>3
<1> QED
  BY <1>1, AlwaysAgree, PTL

\* When no collection stops half way, the counters are what they count and no
\* check of the code fails.
THEOREM CountsAlwaysAgree == Spec /\ NoHalfFold => []CountsAgree
<1>1. IInv => CountsAgree
  <2> SUFFICES ASSUME IInv, StartedOnce
               PROVE  /\ \A b \in Blocks : drive.valid[b] = Cardinality(Live(drive, b))
                      /\ drive.mapped = Cardinality({u \in Units : drive.ftl[u] # None})
                      /\ drive.fault # "sanity"
    BY DEF CountsAgree
  <2>1. InUse(drive, {}) = {u \in Units : drive.ftl[u] # None}
    BY DEF InUse
  <2> QED
    BY <2>1 DEF IInv, SoundInv, Sound, Agree, Counted
<1> QED
  BY <1>1, AlwaysAgree, PTL

\* A drive without a hot index that has more blocks than its units fill, and
\* keeps two of them empty, never stops a collection half way: there is always a
\* block to fold, and room for what is valid in it.
THEOREM FoldsAlwaysEnd ==
  ASSUME Roomy
  PROVE  Spec => NoHalfFold
<1>1. Init => RoomyInv
  BY InitSound, ReserveInit DEF RoomyInv
<1>2. RoomyInv /\ [Next]_vars => RoomyInv' /\ [WholeFold]_vars
  BY RoomyStep
<1>3. NoHalfFold <=> [][WholeFold]_vars
  BY DEF NoHalfFold, WholeFold
<1> QED
  BY <1>1, <1>2, <1>3, PTL DEF Spec

\* On such a drive no unit is ever lost or found twice, the counters are what
\* they count and no check of the code fails, whatever it is asked to do.
THEOREM RoomyDriveAgrees ==
  ASSUME Roomy
  PROVE  Spec => [](MapsAgree /\ CountsAgree)
<1> QED
  BY FoldsAlwaysEnd, MapsAlwaysAgree, CountsAlwaysAgree, PTL

=============================================================================
