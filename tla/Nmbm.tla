-------------------------------- MODULE Nmbm --------------------------------
(***************************************************************************)
(* NAND Mapped-block Management, complete: attaching to a chip (creating    *)
(* the tables or loading them), the logical erase, write and mark-bad       *)
(* operations the MTD layer calls one at a time, detaching, and power       *)
(* failing at any point.                                                    *)
(***************************************************************************)
EXTENDS NmbmTables

CONSTANTS
    MaxOps,      \* bound: operations started by the user
    MaxCrashes   \* bound: power failures

ASSUME BoundAssumption == MaxOps \in Nat /\ MaxCrashes \in Nat

\* What the user writes is not confused with the words of the history below
ASSUME ValsAssumption == "erased" \notin Vals /\ "unknown" \notin Vals

VARIABLES
    op,       \* arguments of the logical operation in progress
    expect,   \* history: what the last acknowledged operation left in a block
    lost,     \* history: power failed with user data but no table on the chip
    ops,      \* operations started so far
    crashes   \* power failures so far

userVars == <<op, expect, lost, ops, crashes>>
vars == <<tableVars, userVars>>

NoOp == [lb |-> 0, val |-> "none", pb |-> 0]

-----------------------------------------------------------------------------
(* Attaching: what is read from the chip                                    *)

IsLowest(S, x) == x \in S /\ \A y \in S : x <= y

\* nmbm_find_signature: the highest block with a valid signature
IsSignature(sg) ==
    /\ sg \in Blocks \ oob /\ sg >= MgmtStart - 1
    /\ flash[sg].kind = "sig"
    /\ \A b \in sg + 1 .. BlockCount - 1 : b \in oob \/ flash[b].kind # "sig"

\* nmbm_try_load_info_table with nmbm_check_info_table: block b holds a table
\* that is intact, maps nothing into the table area and does not declare its
\* own block unusable.
ValidTable(sg, st, b) ==
    /\ st[b] = GOOD
    /\ b \in TablesOnChip
    /\ flash[b].tbl.block_state[b] = GOOD
    /\ \A lb \in Logical : /\ flash[b].tbl.block_mapping[lb] \notin MgmtStart .. b
                           /\ flash[b].tbl.block_mapping[lb] # sg

AllGood == [b \in Blocks |-> GOOD]

\* nmbm_search_info_table; 0 stands for a search that found nothing
IsFirst(sg, first) ==
    LET valid == {b \in MgmtStart .. sg - 2 : ValidTable(sg, AllGood, b)}
    IN  IF valid = {} THEN first = 0 ELSE IsLowest(valid, first)

IsSecond(sg, first, second) ==
    LET valid == {b \in first + 1 .. sg - 2 :
                    ValidTable(sg, flash[first].tbl.block_state, b)}
    IN  IF valid = {} THEN second = 0 ELSE IsLowest(valid, second)

\* The blocks a search from lo to hi records as bad: those marked, and those
\* that read with an ECC error
Found(st, lo, hi, ecc) ==
    {b \in lo .. hi : st[b] = GOOD /\ (b \in oob \/ b \in ecc)}

Marked(st, S) == [b \in Blocks |-> IF b \in S THEN BAD ELSE st[b]]

\* The blocks above block b that the table in it has mapped
MappedAbove(b) ==
    {pb \in b + 1 .. BlockCount - 1 :
       \E lb \in Logical : flash[b].tbl.block_mapping[lb] = pb}

\* Mutant: off by one, the lowest remapped block counts as spare
TopAtLowest(sg, b, top) ==
    IsLowest({sg} \cup MappedAbove(b), top)

\* mapping_blocks_top_ba as nmbm_check_info_table derives it
TopOf(sg, b, top) ==
    IsLowest({sg} \cup MappedAbove(b), top + 1)

\* The final data_block_count of nmbm_load_info_table
DataBlocks(map, count) ==
    IF \A lb \in Logical : map[lb] = -1
    THEN count = MgmtStart
    ELSE /\ count > 0
         /\ map[count - 1] # -1
         /\ \A lb \in Logical : lb >= count => map[lb] = -1

\* The table whose contents survive when tables first and second are found
Chosen(first, second) ==
    IF second # 0 /\ flash[second].tbl.write_count > flash[first].tbl.write_count
    THEN second ELSE first

\* nmbm_load_info_table up to the regeneration of the cache
LoadedInstance(sg, first, second, ecc, top, count) ==
    LET st1 == flash[first].tbl.block_state
        last == IF second = 0 THEN sg - 2 ELSE second - 1
        marks1 == Found(AllGood, MgmtStart, first - 1, ecc)
        marks2 == Found(st1, first + 1, last, ecc)
        chosen == Chosen(first, second)
        t == flash[chosen].tbl
    IN  Generate(
          [InitStructure EXCEPT
             !.block_state = IF chosen = first THEN Marked(st1, marks2)
                                               ELSE t.block_state,
             !.block_mapping = t.block_mapping,
             !.changed = marks1 # {} \/ marks2 # {},
             !.write_count = t.write_count,
             !.data_block_count = count,
             !.main_table_ba = first,
             !.backup_table_ba = second,
             !.mapping_blocks_ba = (IF second = 0 THEN first ELSE second) + 1,
             !.mapping_blocks_top_ba = top,
             !.signature_ba = sg])

\* A torn block reads with an ECC error or merely fails its checksum
Torn == {b \in MgmtStart .. BlockCount - 1 : flash[b] = Junk}

-----------------------------------------------------------------------------
(* Attaching: nmbm_attach, nmbm_load_existing, nmbm_load_info_table         *)

\* nmbm_load_info_table with instance n: rescue the only table found, or bring
\* the older of two up to date
LoadedNext(n, first, second) ==
    LET wc1 == flash[first].tbl.write_count
        wc2 == flash[second].tbl.write_count
    IN  IF second = 0
        THEN WriteNext(n, MgmtStart, first, "rs_front")
        ELSE \/ /\ wc1 < wc2
                /\ WriteNext([n EXCEPT !.changed = TRUE], first, second, "us_main")
             \/ /\ wc1 > wc2
                /\ WriteNext([n EXCEPT !.changed = TRUE], second,
                             n.mapping_blocks_top_ba, "us_backup")
             \/ /\ wc1 = wc2
                /\ ni' = n
                /\ ReturnTo("loaded", TRUE)

AttachLoads ==
    /\ pc = "off"
    /\ \E sg \in Blocks, first \in Blocks \ {0}, second \in Blocks :
         /\ IsSignature(sg)
         /\ IsFirst(sg, first)
         /\ IsSecond(sg, first, second)
         /\ \E ecc \in SUBSET Torn, top \in Blocks, count \in 0 .. MgmtStart :
              /\ TopOf(sg, Chosen(first, second), top)
              /\ DataBlocks(flash[Chosen(first, second)].tbl.block_mapping, count)
              /\ LoadedNext(LoadedInstance(sg, first, second, ecc, top, count),
                            first, second)
    /\ UNCHANGED <<flash, oob, skipped, userVars>>

\* Without spare blocks, or with one table only, the device is protected
AttachLoaded ==
    /\ pc = "loaded"
    /\ ni' = [ni EXCEPT !.protected =
                \/ ni.mapping_blocks_ba = ni.mapping_blocks_top_ba
                \/ ~lv.ok]
    /\ pc' = "idle"
    /\ UNCHANGED <<flash, oob, lv, skipped, userVars>>

\* nmbm_build_mapping_table: the usable data blocks in ascending order
BuildMapping(st, m, count) ==
    LET usable == {pb \in Logical : st[pb] # BAD}
    IN  /\ {m[lb] : lb \in 0 .. count - 1} = usable
        /\ \A i, j \in 0 .. count - 1 : i < j => m[i] < m[j]
        /\ \A lb \in count .. MgmtStart - 1 : m[lb] = -1

\* nmbm_scan_badblocks and nmbm_build_mapping_table on instance n
Scanned(n, m, count) ==
    [n EXCEPT !.block_state = Marked(n.block_state, oob),
              !.changed = Marked(n.block_state, oob) # AllGood,
              !.block_mapping = m,
              !.data_block_count = count]

Builds(n, label) ==
    \E m \in [Logical -> Logical \cup {-1}], count \in 0 .. MgmtStart :
      /\ BuildMapping(Marked(n.block_state, oob), m, count)
      /\ ni' = Scanned(n, m, count)
      /\ pc' = label

\* nmbm_create_new: a chip without signature
AttachNew ==
    /\ pc = "off"
    /\ ~ \E sg \in Blocks : IsSignature(sg)
    /\ Builds(InitStructure, "sig_write")
    /\ lv' = [lv EXCEPT !.ba = BlockCount - 1]
    /\ UNCHANGED <<flash, oob, skipped, userVars>>

\* nmbm_load_existing: a signature but no table, with NMBM_F_CREATE
AttachRecreates ==
    /\ pc = "off"
    /\ \E sg \in Blocks, ecc \in SUBSET Torn :
         /\ IsSignature(sg)
         /\ IsFirst(sg, 0)
         /\ Builds([InitStructure EXCEPT
                      !.block_state = Marked(AllGood,
                                             Found(AllGood, MgmtStart, sg - 2, ecc)),
                      !.mapping_blocks_top_ba = sg - 1,
                      !.signature_ba = sg],
                   "create")
    /\ UNCHANGED <<flash, oob, lv, skipped, userVars>>

-----------------------------------------------------------------------------
(* Creating: nmbm_write_signature, from the highest block down, and         *)
(* nmbm_create_info_table                                                   *)

LowerBlock == lv' = [lv EXCEPT !.ba = lv.ba - 1]

SigSkips ==
    /\ pc = "sig_write"
    /\ lv.ba > MgmtStart
    /\ ni.block_state[lv.ba] # GOOD
    /\ LowerBlock
    /\ UNCHANGED <<flash, oob, ni, pc, skipped, userVars>>

\* Mutant: the walk down the chip has no lower limit
CanEraseSigUnlimited ==
    /\ pc = "sig_write"
    /\ ni.block_state[lv.ba] = GOOD

\* A block marked bad is no longer GOOD here: nmbm_scan_badblocks saw it
CanEraseSig ==
    /\ pc = "sig_write"
    /\ lv.ba > MgmtStart
    /\ ni.block_state[lv.ba] = GOOD

SigErases ==
    /\ CanEraseSig
    /\ flash' = [flash EXCEPT ![lv.ba] = Erased]
    /\ pc' = "sig_program"
    /\ UNCHANGED <<oob, ni, lv, skipped, userVars>>

SigFails ==
    /\ CanEraseSig \/ pc = "sig_program"
    /\ lv.ba \in Weak
    /\ MarkFailed(lv.ba)
    /\ LowerBlock
    /\ pc' = "sig_write"
    /\ UNCHANGED <<skipped, userVars>>

SigWritten ==
    /\ pc = "sig_program"
    /\ flash' = [flash EXCEPT ![lv.ba] = Sig]
    /\ ni' = [ni EXCEPT !.signature_ba = lv.ba]
    /\ pc' = "create"
    /\ UNCHANGED <<oob, lv, skipped, userVars>>

\* nmbm_attach returns -ENODEV
SigExhausted ==
    /\ pc = "sig_write"
    /\ lv.ba <= MgmtStart
    /\ pc' = "failed"
    /\ UNCHANGED <<flash, oob, ni, lv, skipped, userVars>>

CreateTables ==
    /\ pc = "create"
    /\ \/ \E top \in Blocks :
            /\ WalkDesc(ni, ni.signature_ba, 1, MgmtStart, top)
            /\ CallRebuild(Generate([ni EXCEPT !.mapping_blocks_top_ba = top]),
                           "create_map")
       \/ /\ ~ \E top \in Blocks : WalkDesc(ni, ni.signature_ba, 1, MgmtStart, top)
          /\ pc' = "failed"
          /\ UNCHANGED <<ni, lv>>
    /\ UNCHANGED <<flash, oob, skipped, userVars>>

-----------------------------------------------------------------------------
(* nmbm_map_block                                                           *)

\* The spare block the walk finds
Spare(n, pb) == WalkDesc(n, n.mapping_blocks_top_ba, 0, n.mapping_blocks_ba, pb)

NoSpare(n) == ~ \E pb \in Blocks : Spare(n, pb)

\* Mutant: mapping_blocks_top_ba is not moved below the block just used
MapToKeepingTop(n, lb, pb) ==
    [n EXCEPT !.block_mapping = [n.block_mapping EXCEPT ![lb] = pb],
              !.changed = TRUE]

\* Mutant: block_mapping_changed is not raised
MapToUnrecorded(n, lb, pb) ==
    [n EXCEPT !.block_mapping = [n.block_mapping EXCEPT ![lb] = pb],
              !.mapping_blocks_top_ba = n.mapping_blocks_top_ba - 1]

MapTo(n, lb, pb) ==
    [n EXCEPT !.block_mapping = [n.block_mapping EXCEPT ![lb] = pb],
              !.mapping_blocks_top_ba = n.mapping_blocks_top_ba - 1,
              !.changed = TRUE]

StepsOver(pb) == skipped' = (skipped \/ pb # ni.mapping_blocks_top_ba)

\* Map the data blocks missing at the end of the data area
CreateMaps ==
    /\ pc = "create_map" /\ lv.ok
    /\ ni.data_block_count < MgmtStart
    /\ ni.mapping_blocks_ba # ni.mapping_blocks_top_ba
    /\ \E pb \in Blocks :
         /\ Spare(ni, pb)
         /\ ni' = [MapTo(ni, ni.data_block_count, pb) EXCEPT
                     !.data_block_count = ni.data_block_count + 1]
         /\ StepsOver(pb)
    /\ UNCHANGED <<flash, oob, pc, lv, userVars>>

\* The spare area ran out, or every data block is mapped
CreateMapped ==
    /\ pc = "create_map" /\ lv.ok
    /\ \/ ni.data_block_count = MgmtStart
       \/ ni.mapping_blocks_ba = ni.mapping_blocks_top_ba
    /\ CallUpdate("created")
    /\ UNCHANGED <<flash, oob, ni, skipped, userVars>>

CreateMapFails ==
    /\ pc = "create_map" /\ lv.ok
    /\ ni.data_block_count < MgmtStart
    /\ ni.mapping_blocks_ba # ni.mapping_blocks_top_ba
    /\ NoSpare(ni)
    /\ CallUpdate("create_top")
    /\ UNCHANGED <<flash, oob, ni, skipped, userVars>>

CloseSpareArea == ni' = [ni EXCEPT !.mapping_blocks_top_ba = ni.mapping_blocks_ba]

CreateClosesSpare ==
    /\ pc = "create_top"
    /\ CloseSpareArea
    /\ CallUpdate("created")
    /\ UNCHANGED <<flash, oob, skipped, userVars>>

CreateReturns ==
    /\ pc = "created" \/ (pc = "create_map" /\ ~lv.ok)
    /\ pc' = IF lv.ok THEN "idle" ELSE "failed"
    /\ UNCHANGED <<flash, oob, ni, lv, skipped, userVars>>

-----------------------------------------------------------------------------
(* nmbm_erase_logic_block                                                   *)

\* The logic blocks whose content an acknowledged operation determines
Known == {lb \in Logical : expect[lb] # "unknown"}

Expect(lb, x) == expect' = [expect EXCEPT ![lb] = x]

StartOp(o) ==
    /\ pc = "idle"
    /\ ops < MaxOps
    /\ ~ni.protected
    /\ o.lb < ni.data_block_count
    /\ op' = o
    /\ ops' = ops + 1
    /\ Expect(o.lb, "unknown")

StartErase(lb) ==
    /\ StartOp([lb |-> lb, val |-> "none", pb |-> 0])
    /\ pc' = "erase"
    /\ UNCHANGED <<flash, oob, ni, lv, skipped, lost, crashes>>

Home(lb) == ni.block_mapping[lb]

\* -EIO: the logic block has no mapping
EraseUnmapped ==
    /\ pc = "erase" /\ Home(op.lb) = -1
    /\ pc' = "idle"
    /\ UNCHANGED <<flash, oob, ni, lv, skipped, userVars>>

\* The block is known to be unusable, or is found marked bad
EraseGivesUp ==
    /\ pc = "erase" /\ Home(op.lb) # -1
    /\ ni.block_state[Home(op.lb)] # GOOD \/ Home(op.lb) \in oob
    /\ ni' = IF ni.block_state[Home(op.lb)] = GOOD
             THEN SetState(ni, Home(op.lb), BAD) ELSE ni
    /\ op' = [op EXCEPT !.pb = Home(op.lb)]
    /\ pc' = "remap"
    /\ UNCHANGED <<flash, oob, lv, skipped, expect, lost, ops, crashes>>

CanEraseLogic ==
    /\ pc = "erase" /\ Home(op.lb) # -1
    /\ ni.block_state[Home(op.lb)] = GOOD
    /\ Home(op.lb) \notin oob

EraseSucceeds ==
    /\ CanEraseLogic
    /\ flash' = [flash EXCEPT ![Home(op.lb)] = Erased]
    /\ Expect(op.lb, "erased")
    /\ pc' = "idle"
    /\ UNCHANGED <<oob, ni, lv, skipped, op, lost, ops, crashes>>

EraseLogicFails ==
    /\ CanEraseLogic
    /\ Home(op.lb) \in Weak
    /\ MarkFailed(Home(op.lb))
    /\ op' = [op EXCEPT !.pb = Home(op.lb)]
    /\ pc' = "remap"
    /\ UNCHANGED <<lv, skipped, expect, lost, ops, crashes>>

\* The state the abandoned block pb is left with
Abandon(n, pb) ==
    IF n.block_state[pb] = NEED_REMAP THEN n ELSE SetState(n, pb, BAD)

\* Mutant: the info table is not updated before the new block is erased
RemapsUnsaved ==
    /\ pc = "remap"
    /\ ni.mapping_blocks_ba # ni.mapping_blocks_top_ba
    /\ \E pb \in Blocks :
         /\ Spare(ni, pb)
         /\ ni' = Abandon(MapTo(ni, op.lb, pb), op.pb)
         /\ StepsOver(pb)
    /\ pc' = "erase"
    /\ UNCHANGED <<flash, oob, lv, userVars>>

Remaps ==
    /\ pc = "remap"
    /\ ni.mapping_blocks_ba # ni.mapping_blocks_top_ba
    /\ \E pb \in Blocks :
         /\ Spare(ni, pb)
         /\ ni' = Abandon(MapTo(ni, op.lb, pb), op.pb)
         /\ StepsOver(pb)
    /\ CallUpdate("erase")
    /\ UNCHANGED <<flash, oob, userVars>>

\* No spare block: the logic block becomes unusable
Unmapped(n) ==
    Abandon([n EXCEPT !.block_mapping = [n.block_mapping EXCEPT ![op.lb] = -1]],
            op.pb)

RemapRefused ==
    /\ pc = "remap"
    /\ ni.mapping_blocks_ba = ni.mapping_blocks_top_ba
    /\ ni' = Unmapped(ni)
    /\ CallUpdate("idle")
    /\ UNCHANGED <<flash, oob, skipped, userVars>>

RemapFails ==
    /\ pc = "remap"
    /\ ni.mapping_blocks_ba # ni.mapping_blocks_top_ba
    /\ NoSpare(ni)
    /\ CallUpdate("remap_top")
    /\ UNCHANGED <<flash, oob, ni, skipped, userVars>>

RemapClosesSpare ==
    /\ pc = "remap_top"
    /\ ni' = Unmapped([ni EXCEPT !.mapping_blocks_top_ba = ni.mapping_blocks_ba])
    /\ CallUpdate("idle")
    /\ UNCHANGED <<flash, oob, skipped, userVars>>

-----------------------------------------------------------------------------
(* nmbm_write_logic_page, nmbm_mark_bad_block, nmbm_detach, power failure   *)

Usable(lb) == Home(lb) # -1 /\ ni.block_state[Home(lb)] # BAD

StartWrite(lb, v) ==
    /\ StartOp([lb |-> lb, val |-> v, pb |-> 0])
    /\ Usable(lb)
    /\ pc' = "page_write"
    /\ UNCHANGED <<flash, oob, ni, lv, skipped, lost, crashes>>

\* Programming a block that was not erased mixes old and new bits
WriteSucceeds ==
    /\ pc = "page_write"
    /\ LET clean == flash[Home(op.lb)] = Erased
       IN  /\ flash' = [flash EXCEPT ![Home(op.lb)] =
                          IF clean THEN Data(op.val) ELSE Junk]
           /\ Expect(op.lb, IF clean THEN op.val ELSE "unknown")
    /\ pc' = "idle"
    /\ UNCHANGED <<oob, ni, lv, skipped, op, lost, ops, crashes>>

WriteFails ==
    /\ pc = "page_write"
    /\ Home(op.lb) \in Weak
    /\ flash' = [flash EXCEPT ![Home(op.lb)] = Junk]
    /\ ni' = SetState(ni, Home(op.lb), NEED_REMAP)
    /\ CallUpdate("idle")
    /\ UNCHANGED <<oob, skipped, userVars>>

MarkBad(lb) ==
    /\ StartOp([lb |-> lb, val |-> "none", pb |-> 0])
    /\ Home(lb) # -1
    /\ oob' = oob \cup {Home(lb)}
    /\ ni' = SetState([ni EXCEPT !.block_mapping = [@ EXCEPT ![lb] = -1]],
                      Home(lb), BAD)
    /\ CallUpdate("idle")
    /\ UNCHANGED <<flash, skipped, lost, crashes>>

StartDetach ==
    /\ pc = "idle"
    /\ ops < MaxOps
    /\ ops' = ops + 1
    /\ CallUpdate("detach")
    /\ UNCHANGED <<flash, oob, ni, skipped, op, expect, lost, crashes>>

PowerOff ==
    /\ UNCHANGED <<oob, skipped, expect, ops>>
    /\ lost' = (lost \/ (Known # {} /\ TablesOnChip' = {}))
    /\ ni' = InitStructure
    /\ lv' = NoLocals
    /\ op' = NoOp
    /\ pc' = "off"

Detached ==
    /\ pc = "detach"
    /\ UNCHANGED <<flash, crashes>>
    /\ PowerOff

\* The block an interrupted erase or program leaves torn.  A signature half
\* written may already be found; that is the crash before label "create".
Busy ==
    IF \/ CanErase("write") \/ CanErase("erase_range")
       \/ CanEraseSig \/ pc \in {"program", "sig_program"}
    THEN {lv.ba}
    ELSE IF CanEraseLogic \/ pc = "page_write" THEN {Home(op.lb)} ELSE {}

Crash ==
    /\ pc # "off"
    /\ crashes < MaxCrashes
    /\ crashes' = crashes + 1
    /\ \E torn \in SUBSET Busy :
         /\ flash' = [b \in Blocks |-> IF b \in torn THEN Junk ELSE flash[b]]
    /\ PowerOff

-----------------------------------------------------------------------------
Init ==
    /\ flash = [b \in Blocks |-> Erased]
    /\ oob \in FactoryBads
    /\ ni = InitStructure
    /\ pc = "off"
    /\ lv = NoLocals
    /\ skipped = FALSE
    /\ lost = FALSE
    /\ op = NoOp
    /\ expect = [lb \in Logical |-> "unknown"]
    /\ ops = 0
    /\ crashes = 0

AttachStep ==
    \/ AttachLoads \/ AttachLoaded \/ AttachNew \/ AttachRecreates
    \/ SigSkips \/ SigErases \/ SigFails \/ SigWritten \/ SigExhausted
    \/ CreateTables \/ CreateMaps \/ CreateMapped \/ CreateMapFails
    \/ CreateClosesSpare \/ CreateReturns

LogicStep ==
    \/ EraseUnmapped \/ EraseGivesUp \/ EraseSucceeds \/ EraseLogicFails
    \/ Remaps \/ RemapRefused \/ RemapFails \/ RemapClosesSpare
    \/ WriteSucceeds \/ WriteFails \/ Detached

\* What the driver does by itself once an operation or an attach is under way
Step ==
    \/ (BlockStep \/ TableStep) /\ UNCHANGED userVars
    \/ AttachStep
    \/ LogicStep

Next ==
    \/ Step
    \/ \E lb \in Logical : \/ StartErase(lb)
                            \/ \E v \in Vals : StartWrite(lb, v)
                            \/ MarkBad(lb)
    \/ StartDetach
    \/ Crash

Spec == Init /\ [][Next]_vars

FairSpec == Spec /\ WF_vars(Step)

-----------------------------------------------------------------------------
(* Properties                                                               *)

\* nmbm_read_single_page: the answer to a read of logic block lb
ReadSinglePage(lb) ==
    IF ni.protected THEN "EROFS"
    ELSE IF lb >= ni.data_block_count THEN "EINVAL"
    ELSE IF ~Usable(lb) THEN "EIO"
    ELSE "ok"

\* A table has been written or loaded since power came up
Attached == ni.main_table_ba # 0

\* The content an acknowledged erase or write left in logic block lb
Acknowledged(lb) ==
    IF expect[lb] = "erased" THEN Erased ELSE Data(expect[lb])

\* The labels of the loops that erase and program blocks for a table
Writing == {"write", "program", "erase_range"}

\* The type invariant: every block address the driver computes names a block of
\* the chip, every table it writes is well formed.
TypeOK ==
    /\ flash \in [Blocks -> Content]
    /\ oob \in SUBSET Blocks
    /\ ni \in Instance
    /\ lv \in Locals
    /\ pc \in Labels
    /\ skipped \in BOOLEAN
    /\ op \in [lb : Logical, val : Vals \cup {"none"}, pb : Blocks]
    /\ expect \in [Logical -> Vals \cup {"erased", "unknown"}]
    /\ lost \in BOOLEAN
    /\ ops \in 0 .. MaxOps
    /\ crashes \in 0 .. MaxCrashes

\* nmbm_write_mgmt_range and nmbm_erase_range, whoever calls them and whatever
\* the earlier failures, only touch management blocks below the remapped blocks
\* and the signature: never a block of the data area.
TableWritesConfined ==
    pc \in Writing =>
      /\ MgmtStart <= lv.ba
      /\ lv.limit <= ni.mapping_blocks_top_ba
      /\ ni.mapping_blocks_top_ba < ni.signature_ba

\* The management area keeps its layout through every update, rescue, rebuild
\* and reload: main table, backup table, unmapped spare blocks, signature, as
\* long as nmbm_map_block never had to step over a spare block.  (After that the
\* top found when the tables are loaded again may be the table's own block.)
RegionsInOrder ==
    Attached /\ ~skipped =>
      /\ MgmtStart <= ni.main_table_ba
      /\ ni.backup_table_ba # 0 => ni.main_table_ba < ni.backup_table_ba
      /\ ni.main_table_ba < ni.mapping_blocks_ba
      /\ ni.backup_table_ba < ni.mapping_blocks_ba
      /\ ni.mapping_blocks_ba <= ni.mapping_blocks_top_ba
      /\ ni.mapping_blocks_top_ba < ni.signature_ba

\* Two logic blocks never share a physical block, as long as nmbm_map_block
\* never had to step over a spare block that is not GOOD.
MappingInjective ==
    Attached /\ ~skipped => \A i, j \in Logical :
        i # j /\ Home(i) # -1 => Home(i) # Home(j)

\* The blocks the table code may still write to, and the signature, hold no
\* logic block.
SpareHoldsNoData ==
    Attached /\ ~skipped => \A lb \in Logical :
        /\ Home(lb) \notin MgmtStart .. ni.mapping_blocks_top_ba
        /\ Home(lb) # ni.signature_ba

\* While two tables are on record one of them is readable at every moment, in
\* the middle of an update included.
TableSurvives ==
    ni.main_table_ba # 0 /\ ni.backup_table_ba # 0 => TablesOnChip # {}

\* A block holds what the last acknowledged erase or write left in it, whatever
\* happened to other blocks and to the power supply since.  It reads back unless
\* the instance is protected or the block carries a bad mark: power that fails
\* after nmbm_mark_bad_block set the mark, and before a table records it, leaves
\* a marked block in use.  (Excepted: power lost in the window without any
\* table, and shared physical blocks.)
DataSurvives ==
    Attached /\ ~skipped /\ ~lost =>
      \A lb \in Logical : expect[lb] # "unknown" =>
        /\ Home(lb) # -1 /\ flash[Home(lb)] = Acknowledged(lb)
        /\ ~ni.protected /\ Home(lb) \notin oob => ReadSinglePage(lb) = "ok"

\* At every moment, were power to fail now, the next nmbm_attach would find a
\* table, and the one it prefers leads to all acknowledged data.
Recoverable ==
    ~skipped /\ ~lost /\ TablesOnChip # {} =>
      \A sg \in {b \in Blocks : IsSignature(b)} :
      \A first \in {b \in Blocks : IsFirst(sg, b)} :
        /\ first # 0
        /\ \A second \in {b \in Blocks : IsSecond(sg, first, b)} :
             LET map == flash[Chosen(first, second)].tbl.block_mapping
             IN  \A lb \in Logical : expect[lb] # "unknown" =>
                   map[lb] # -1 /\ flash[map[lb]] = Acknowledged(lb)

\* When an operation has returned, the table the next nmbm_attach would prefer
\* maps every usable logic block as the driver does: no remapping is still
\* unsaved, or saved only in a table that a stale one would hide.  (Excepted:
\* shared physical blocks.)
MappingRecorded ==
    pc = "idle" /\ ~ni.protected /\ ~skipped =>
      \A first \in {b \in Blocks : IsFirst(ni.signature_ba, b)} :
        /\ first # 0
        /\ \A second \in {b \in Blocks : IsSecond(ni.signature_ba, first, b)} :
             LET map == flash[Chosen(first, second)].tbl.block_mapping
             IN  \A lb \in Logical : Home(lb) # -1 => map[lb] = Home(lb)

\* Labels at which the driver waits for its user
AtRest == pc \in {"idle", "off", "failed"}

\* Every operation ends, whichever blocks fail while it runs: the retry loops
\* of the erase, of the rescues and of nmbm_update_info_table terminate.
OperationsEnd == ~AtRest ~> AtRest

-----------------------------------------------------------------------------
(* What comments and messages of nmbm-core.c say, and the code does not do  *)

\* nmbm_map_block, "Map a bad block to a unused spare block"
MapsToUnusedBlock ==
    Attached => \A i, j \in Logical :
        i # j /\ Home(i) # -1 => Home(i) # Home(j)
=============================================================================
