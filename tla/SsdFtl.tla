------------------------------- MODULE SsdFtl -------------------------------
(***************************************************************************)
(* CSSDSimulator, the flash translation layer of the SSD simulator: host   *)
(* writes go to SLC blocks, garbage collection ("folding") moves what is   *)
(* still valid of the emptiest full block to a TLC block, or, under the    *)
(* hot index of CSSDSimulator_2, hot units back to the SLC write block.    *)
(*                                                                         *)
(* A block is a function from its page positions to the logical unit       *)
(* written there, Blank or Dead (invalid); an SLC block uses the first     *)
(* PageNum positions, a TLC block all 3 * PageNum.  Blocks 0 and           *)
(* BlockNum - 1 are never used.  Times and statistics are left out; a unit *)
(* is hot or cold as the model likes, which covers every age.  A command   *)
(* that throws ends, and the next command finds what it left behind.       *)
(***************************************************************************)
EXTENDS Integers, FiniteSets, Sequences

CONSTANTS PageNum,    \* m_page_num, pages of an SLC block
          BlockNum,   \* m_block_num
          TotalUnit,  \* m_total_unit, logical units
          Configs,    \* the configurations a drive may have, see config
          MaxStarts,  \* times Start-Simulate is given
          Blank, Dead \* an unwritten and an invalid page

ASSUME SizeAssumption ==
  /\ PageNum \in Nat \ {0} /\ BlockNum \in Nat /\ BlockNum >= 3
  /\ TotalUnit \in Nat \ {0} /\ MaxStarts \in Nat \ {0}
  /\ Configs \subseteq [refresh : Nat, guardband : Nat, hot : BOOLEAN, used : 1 .. TotalUnit]
  /\ Blank \notin Nat /\ Dead \notin Nat /\ Blank # Dead

Units == 0 .. TotalUnit - 1
Blocks == 1 .. BlockNum - 2
Pages == 0 .. 3 * PageNum - 1

\* 0xFFFF stands for no block; block 0 is not used, so it can stand for it here.
None == [block |-> 0, unit |-> 0]
Address == [block : Blocks, unit : Pages] \cup {None}

BlockTypes == {"slc", "tlc"}

VARIABLES
  drive,        \* the drive's tables, below
  pc,           \* "idle", "write", "foreground", "background"
  unit, last,   \* the units the command still has to write
  victim,       \* the block being folded, 0 if none
  config,       \* m_refresh_block_stripe, m_guardband_block_stripe, whether the
                \* drive is a CSSDSimulator_2, and how many units the host uses
  starts        \* how often the simulation was started

control == <<pc, unit, last, victim>>
vars == <<drive, control, config, starts>>

-----------------------------------------------------------------------------
(* The tables: for each block its block_type, its pages (logical_unit) and  *)
(* valid_unit_num; m_FTL; m_empty_list; m_cache and m_data_blocks, whose    *)
(* order nothing goes by, as the number of times a block is on list.slc and *)
(* list.tlc; m_write_ptr and m_tlc_active as open.slc and open.tlc;         *)
(* m_valid_logical_unit.  fault tells how the last command ended: "none",   *)
(* "full" for want of a block, or "sanity" for a failed check.              *)

TotalOf(type) == CASE type = "slc" -> PageNum [] type = "tlc" -> 3 * PageNum [] OTHER -> 0

BlankBlock == [p \in Pages |-> Blank]
AllBlocks == [i \in 1 .. BlockNum - 2 |-> i]

\* Initialize clears every table but the list of empty blocks, to which it adds
\* all blocks.
Cleared(empty) ==
  [type   |-> [b \in Blocks |-> "empty"],
   page   |-> [b \in Blocks |-> BlankBlock],
   valid  |-> [b \in Blocks |-> 0],
   ftl    |-> [u \in Units |-> None],
   empty  |-> empty \o AllBlocks,
   list   |-> [t \in BlockTypes |-> [b \in Blocks |-> 0]],
   open   |-> [t \in BlockTypes |-> None],
   mapped |-> 0,
   fault  |-> "none"]

Fail(d, e) == [d EXCEPT !.fault = e]

\* F(d), unless the drive d comes from a step that threw.  (The choice is from
\* one value: TLC computes d once.)
Then(d, F(_)) == CHOOSE r \in {IF x.fault = "none" THEN F(x) ELSE x : x \in {d}} : TRUE

IsFull(d, b) == d.page[b][TotalOf(d.type[b]) - 1] # Blank
Live(d, b) == {p \in 0 .. TotalOf(d.type[b]) - 1 : d.page[b][p] \in Units}

\* PopupEmptyBlock: the block is off the list and blank before its type is
\* checked.
Popup(d, t) ==
  IF d.empty = <<>> THEN Fail(d, "full")
  ELSE LET b == Head(d.empty)
           taken == [d EXCEPT !.empty = Tail(@), !.page[b] = BlankBlock]
       IN IF d.type[b] # "empty" THEN Fail(taken, "sanity")
          ELSE [taken EXCEPT !.type[b] = t, !.valid[b] = 0, !.list[t][b] = @ + 1,
                             !.open[t] = [block |-> b, unit |-> 0]]

Opened(d, t) == IF d.open[t] = None THEN Popup(d, t) ELSE d

\* InvalidUnit: the block's count is lowered before the page is checked.
Keep_InvalidUnit(d, a) == d
InvalidUnit(d, a) ==
  LET fewer == [d EXCEPT !.valid[a.block] = @ - 1] IN
  IF d.type[a.block] = "empty" \/ d.valid[a.block] = 0 THEN Fail(d, "sanity")
  ELSE IF d.page[a.block][a.unit] \notin Units THEN Fail(fewer, "sanity")
  ELSE [fewer EXCEPT !.page[a.block][a.unit] = Dead]

\* The open block after a write at address a in a block of the given type.
Late_Advance(a, type) == IF a.unit >= TotalOf(type) THEN None ELSE [a EXCEPT !.unit = @ + 1]
Advance(a, type) == IF a.unit + 1 >= TotalOf(type) THEN None ELSE [a EXCEPT !.unit = @ + 1]

\* ProgramNandPage: unit u is written to the open block of type t.
ProgramNandPage(d, t, u) ==
  LET a == d.open[t] IN
  IF a.unit >= TotalOf(d.type[a.block]) \/ d.page[a.block][a.unit] # Blank
    THEN Fail(d, "sanity")
    ELSE [d EXCEPT !.page[a.block][a.unit] = u, !.valid[a.block] = @ + 1, !.ftl[u] = a,
                   !.open[t] = Advance(a, d.type[a.block])]

-----------------------------------------------------------------------------
(* Host commands. *)

Init ==  \* a drive that was created and started once
  /\ drive = Cleared(<<>>)
  /\ pc = "idle" /\ unit = 0 /\ last = 0 /\ victim = 0 /\ starts = 1
  /\ config \in Configs

Initialize ==
  /\ pc = "idle" /\ starts < MaxStarts
  /\ drive' = Cleared(drive.empty) /\ starts' = starts + 1
  /\ UNCHANGED <<control, config>>

ToIdle == pc' = "idle" /\ unit' = 0 /\ last' = 0 /\ victim' = 0

\* A request for the units first to end, as Lba2Unit cuts it from sectors: no
\* units, when there are no sectors and first is on a boundary.
WriteSecs(first, end) ==
  /\ pc = "idle" /\ first \in Units
  /\ pc' = "write" /\ unit' = first /\ last' = end
  /\ drive' = Fail(drive, "none")
  /\ UNCHANGED <<victim, config, starts>>

\* ReadSecs of one unit: the page the FTL names must hold it.
ReadSecs(u) ==
  /\ pc = "idle"
  /\ LET a == drive.ftl[u] IN
     drive' = Fail(drive, IF a = None \/ (/\ drive.type[a.block] # "empty"
                                          /\ drive.page[a.block][a.unit] = u)
                            THEN "none" ELSE "sanity")
  /\ UNCHANGED <<control, config, starts>>

\* The old page of unit u is made invalid, or one more unit is in use.
Replaced(d, u) == IF d.ftl[u] = None THEN [d EXCEPT !.mapped = @ + 1]
                                     ELSE InvalidUnit(d, d.ftl[u])

WrittenOne(u) ==
  LET popped == Opened(drive, "slc")
      checked == Then(popped, LAMBDA d : IF d.type[d.open["slc"].block] = "empty"
                                           THEN Fail(d, "sanity") ELSE d)
      replaced == Then(checked, LAMBDA d : Replaced(d, u))
  IN Then(replaced, LAMBDA d : ProgramNandPage(d, "slc", u))

\* Where the thresholds of the two collections stand.
ForegroundStop == config.refresh + config.guardband
BackgroundStart == (2 * BlockNum * (TotalUnit - drive.mapped)) \div (10 * TotalUnit)
BackgroundStop == (6 * BlockNum * (TotalUnit - drive.mapped)
                     + 10 * ForegroundStop * drive.mapped) \div (10 * TotalUnit)

\* One unit of WriteSecs, and the test of CheckForgroundGC.
WriteUnit ==
  /\ pc = "write" /\ unit <= last
  /\ drive' = WrittenOne(unit)
  /\ IF drive'.fault # "none" THEN ToIdle
     ELSE /\ unit' = unit + 1
          /\ pc' = IF Len(drive'.empty) < config.refresh THEN "foreground" ELSE "write"
          /\ UNCHANGED <<last, victim>>
  /\ UNCHANGED <<config, starts>>

\* All units are written: CheckBackgroundGC.
WriteEnd ==
  /\ pc = "write" /\ unit > last
  /\ IF Len(drive.empty) < BackgroundStart
       THEN pc' = "background" /\ UNCHANGED <<unit, last, victim>>
       ELSE ToIdle
  /\ UNCHANGED <<drive, config, starts>>

-----------------------------------------------------------------------------
(* Folding. *)

Weight(b) == IF drive.type[b] = "slc" THEN 3 * drive.valid[b] ELSE drive.valid[b]
Open_Candidates == {b \in Blocks : drive.type[b] # "empty"}
Candidates == {b \in Blocks : drive.type[b] # "empty" /\ IsFull(drive, b)}

\* The full block with the least valid data, the first of equals; a block that
\* is wholly valid is not taken.
IsVictim(b) ==
  /\ b \in Candidates /\ Weight(b) < 3 * PageNum
  /\ \A c \in Candidates : Weight(b) < Weight(c) \/ (Weight(b) = Weight(c) /\ b <= c)

Collecting == pc \in {"foreground", "background"}
Stop == IF pc = "foreground" THEN ForegroundStop ELSE BackgroundStop

StartFold ==
  /\ Collecting /\ victim = 0 /\ Len(drive.empty) < Stop
  /\ \/ /\ \E b \in Blocks : IsVictim(b) /\ victim' = b
        /\ UNCHANGED <<drive, pc, unit, last>>
     \/ /\ ~\E b \in Blocks : IsVictim(b)
        /\ drive' = Fail(drive, "full") /\ ToIdle
  /\ UNCHANGED <<config, starts>>

\* The pages of the victim the FTL knows to be valid.
ToMove == {p \in Live(drive, victim) :
             drive.ftl[drive.page[victim][p]] = [block |-> victim, unit |-> p]}

\* The next valid page of the victim moves to an open block.  InvalidUnit comes
\* before GetFoldingDest, which may find no empty block.
FoldPage ==
  /\ Collecting /\ victim # 0 /\ ToMove # {}
  /\ LET p == CHOOSE q \in ToMove : \A r \in ToMove : q <= r
         u == drive.page[victim][p]
     IN \E t \in IF config.hot THEN {"slc", "tlc"} ELSE {"tlc"} :
          LET invalid == InvalidUnit(drive, drive.ftl[u])
              opened == Then(invalid, LAMBDA d : Opened(d, t))
          IN drive' = Then(opened, LAMBDA d : ProgramNandPage(d, t, u))
  /\ IF drive'.fault # "none" THEN ToIdle ELSE UNCHANGED control
  /\ UNCHANGED <<config, starts>>

\* EraseBlock.
Leak_Erase(d, b) == [d EXCEPT !.type[b] = "empty", !.valid[b] = 0, !.page[b] = BlankBlock]
Erase(d, b) == [d EXCEPT !.type[b] = "empty", !.valid[b] = 0, !.page[b] = BlankBlock,
                         !.empty = Append(@, b)]

\* Nothing valid is left: the victim is taken off its list and erased.
EndFold ==
  /\ Collecting /\ victim # 0 /\ ToMove = {}
  /\ \/ /\ drive.valid[victim] # 0
        /\ drive' = Fail(drive, "sanity") /\ ToIdle
     \/ /\ drive.valid[victim] = 0
        /\ drive' = Erase([drive EXCEPT !.list[drive.type[victim]][victim] = 0], victim)
        /\ victim' = 0 /\ UNCHANGED <<pc, unit, last>>
  /\ UNCHANGED <<config, starts>>

\* Enough blocks are empty.
EndCollection ==
  /\ Collecting /\ victim = 0 /\ Len(drive.empty) >= Stop
  /\ IF pc = "foreground" THEN pc' = "write" /\ UNCHANGED <<unit, last, victim>>
                          ELSE ToIdle
  /\ UNCHANGED <<drive, config, starts>>

Collect == StartFold \/ FoldPage \/ EndFold \/ EndCollection

Next ==
  \/ Initialize
  \/ \E end \in 0 .. config.used - 1 : \E first \in 0 .. end + 1 : WriteSecs(first, end)
  \/ \E u \in 0 .. config.used - 1 : ReadSecs(u)
  \/ WriteUnit \/ WriteEnd
  \/ StartFold \/ FoldPage \/ EndFold \/ EndCollection

Spec == Init /\ [][Next]_vars

\* A command is a sequential program: it goes on until it ends.
FairSpec == Spec /\ WF_vars(WriteUnit \/ WriteEnd \/ Collect)

-----------------------------------------------------------------------------

TypeOK ==
  /\ drive \in [type : [Blocks -> BlockTypes \cup {"empty"}],
                page : [Blocks -> [Pages -> Units \cup {Blank, Dead}]],
                valid : [Blocks -> 0 .. 3 * PageNum],
                ftl : [Units -> Address],
                empty : Seq(Blocks),
                list : [BlockTypes -> [Blocks -> Nat]],
                open : [BlockTypes -> Address],
                mapped : 0 .. TotalUnit,
                fault : {"none", "full", "sanity"}]
  /\ pc \in {"idle", "write", "foreground", "background"}
  /\ unit \in 0 .. TotalUnit /\ last \in Units /\ victim \in Blocks \cup {0}
  /\ config \in Configs /\ starts \in 1 .. MaxStarts

\* What a second start leaves behind, see StartsClean, breaks the tables; the
\* properties that say so are about the first.
StartedOnce == starts = 1

\* Every logical unit ever written is found where the FTL says, and no page
\* holds a valid unit the FTL does not know: no write is lost or duplicated by
\* a collection.
MapsAgree == StartedOnce =>
  /\ \A u \in Units : LET a == drive.ftl[u] IN a # None => drive.page[a.block][a.unit] = u
  /\ \A b \in Blocks : \A p \in Live(drive, b) :
       drive.ftl[drive.page[b][p]] = [block |-> b, unit |-> p]

\* The counters the collections go by are what they count, and no sanity check of
\* the code fails.
CountsAgree == StartedOnce =>
  /\ \A b \in Blocks : drive.type[b] # "empty" => drive.valid[b] = Cardinality(Live(drive, b))
  /\ drive.mapped = Cardinality({u \in Units : drive.ftl[u] # None})
  /\ drive.fault # "sanity"

\* Each block is on exactly one of the three lists, once, by its type.
PlacesOf(b) == {i \in 1 .. Len(drive.empty) : drive.empty[i] = b}
ListsPartition == StartedOnce =>
  \A b \in Blocks :
    /\ drive.type[b] = "empty" => Cardinality(PlacesOf(b)) = 1
    /\ drive.type[b] # "empty" => PlacesOf(b) = {}
    /\ \A t \in BlockTypes : drive.list[t][b] = IF drive.type[b] = t THEN 1 ELSE 0

\* An open block has its next page and all later ones blank, and is never the
\* block a collection empties.
OpenBlocksWritable == StartedOnce =>
  \A a \in {drive.open[t] : t \in BlockTypes} \ {None} :
    /\ a.block # victim
    /\ \A p \in 0 .. TotalOf(drive.type[a.block]) - 1 :
         (drive.page[a.block][p] = Blank) = (p >= a.unit)

\* A foreground or background collection never runs out of blocks half way
\* through a victim.  This takes room to spare: on four blocks, three units in
\* use; with four and no reserve, or with five and a hot index, it is false.
NoHalfFold ==
  [][(StartedOnce /\ Collecting /\ victim # 0) => drive'.fault # "full"]_vars

\* A command ends: the collections do not go round for ever.
CommandsEnd == []<>(pc = "idle")

\* "Clear all tables": after a start no block is on the list of empty blocks
\* twice.
StartsClean == Len(drive.empty) <= Cardinality(Blocks)

=============================================================================
