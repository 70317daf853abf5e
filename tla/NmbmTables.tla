----------------------------- MODULE NmbmTables -----------------------------
(***************************************************************************)
(* NAND Mapped-block Management (drivers/mtd/nmbm/nmbm-core.c): the chip,   *)
(* the instance structure and the upkeep of the two info tables.            *)
(*                                                                          *)
(* Every physical erase and every physical program is a step of its own, so *)
(* that power can fail between any two of them.  A procedure that touches   *)
(* the chip in a loop is entered through a label in pc; lv holds the local  *)
(* variables of the procedures on the call stack and the labels they        *)
(* return to.                                                               *)
(*                                                                          *)
(* Simplifications: an info table fills one block (true of every chip whose *)
(* blocks hold four bytes and two bits per block of the chip); a block of   *)
(* user data holds one value; a program or an erase that failed             *)
(* NMBM_TRY_COUNT times is one failed step; the OOB bad mark always sticks. *)
(***************************************************************************)
EXTENDS Integers, FiniteSets

CONSTANTS
    BlockCount,   \* block_count: physical blocks of the chip
    MgmtStart,    \* mgmt_start_ba: first block of the management area
    Weak,         \* the blocks whose erase or program may fail
    FactoryBads,  \* the blocks marked bad before the first attach
    Vals          \* what the user writes

Blocks  == 0 .. BlockCount - 1
Logical == 0 .. MgmtStart - 1

ASSUME GeometryAssumption ==
    /\ BlockCount \in Nat
    /\ MgmtStart \in 1 .. BlockCount - 2
    /\ Weak \subseteq Blocks
    /\ FactoryBads \subseteq SUBSET Blocks

BAD        == "bad"          \* BLOCK_ST_BAD
NEED_REMAP == "need_remap"   \* BLOCK_ST_NEED_REMAP
GOOD       == "good"         \* BLOCK_ST_GOOD
BlockState == {BAD, NEED_REMAP, GOOD}

\* info_table_spare_blocks for a table of one block
SpareBlocks == 2

\* Contents of a physical block.  Junk is what an interrupted or failed
\* operation leaves: no checksum over it holds.
Erased   == [kind |-> "erased"]
Junk     == [kind |-> "junk"]
Sig      == [kind |-> "sig"]
Data(v)  == [kind |-> "data", val |-> v]
TableOf(t) == [kind |-> "table", tbl |-> t]

StateTable   == [Blocks -> BlockState]
MappingTable == [Logical -> Blocks \cup {-1}]
InfoTable == [write_count : Nat, block_state : StateTable,
              block_mapping : MappingTable]
Content == {Erased, Junk, Sig} \cup [kind : {"data"}, val : Vals]
             \cup [kind : {"table"}, tbl : InfoTable]

VARIABLES
    flash,    \* durable: contents of every physical block
    oob,      \* durable: the blocks marked bad in their spare area
    ni,       \* struct nmbm_instance; lost with power
    pc,       \* label of the procedure in progress
    lv,       \* locals of the procedures on the call stack
    skipped   \* history: nmbm_map_block once stepped over a block not GOOD

tableVars == <<flash, oob, ni, pc, lv, skipped>>

-----------------------------------------------------------------------------
(* The instance structure                                                   *)

\* changed stands for block_state_changed and block_mapping_changed, which
\* the code only ever tests together and against zero.
Instance == [block_state : StateTable, block_mapping : MappingTable,
             changed : BOOLEAN, write_count : Nat,
             info_table_cache : InfoTable, data_block_count : 0 .. MgmtStart,
             main_table_ba : Blocks, backup_table_ba : Blocks,
             mapping_blocks_ba : 0 .. BlockCount,
             mapping_blocks_top_ba : Blocks, signature_ba : Blocks,
             protected : BOOLEAN]

EmptyTable == [write_count |-> 0, block_state |-> [b \in Blocks |-> GOOD],
               block_mapping |-> [lb \in Logical |-> 0]]

\* nmbm_init_structure on zeroed memory
InitStructure ==
    [block_state |-> [b \in Blocks |-> GOOD],
     block_mapping |-> [lb \in Logical |-> 0],
     changed |-> FALSE, write_count |-> 0, info_table_cache |-> EmptyTable,
     data_block_count |-> 0, main_table_ba |-> 0, backup_table_ba |-> 0,
     mapping_blocks_ba |-> 0, mapping_blocks_top_ba |-> 0,
     signature_ba |-> 0, protected |-> FALSE]

\* nmbm_set_block_state
SetState(n, b, st) ==
    [n EXCEPT !.block_state = [n.block_state EXCEPT ![b] = st],
              !.changed = n.changed \/ n.block_state[b] # st]

\* nmbm_generate_info_table_cache
Generate(n) ==
    LET wc == IF n.changed THEN n.write_count + 1 ELSE n.write_count
    IN  [n EXCEPT !.write_count = wc,
                  !.info_table_cache = [write_count |-> wc,
                                        block_state |-> n.block_state,
                                        block_mapping |-> n.block_mapping]]

\* nmbm_block_walk descending: b is the GOOD block reached from ba after
\* count GOOD blocks; limit itself is not walked.
WalkDesc(n, ba, count, limit, b) ==
    /\ b \in limit + 1 .. ba
    /\ n.block_state[b] = GOOD
    /\ Cardinality({g \in b + 1 .. ba : n.block_state[g] = GOOD}) = count

\* nmbm_try_reserve_blocks: b is the GOOD block reached from ba after
\* skipping as many GOOD blocks as there are, SpareBlocks at most.
Reserve(n, ba, limit, b) ==
    LET good == {g \in ba .. limit - 1 : n.block_state[g] = GOOD}
        before == Cardinality({g \in good : g < b})
    IN  /\ b \in good
        /\ \/ before = SpareBlocks
           \/ before < SpareBlocks /\ before = Cardinality(good) - 1

\* The blocks from which a table could be loaded now
TablesOnChip == {b \in Blocks \ oob : flash[b].kind = "table"}

-----------------------------------------------------------------------------
(* Calls                                                                    *)

\* ba, limit, ret: the loop of nmbm_write_mgmt_range or nmbm_erase_range and
\* where it returns; start and ok: its results; write_ba: where a rescue
\* tries next; tmp: the temporary table; uret: where nmbm_update_info_table
\* returns; bret: where nmbm_rebuild_info_table returns.  A call sets the label
\* it returns to, so NoLocals' are never used.
NoLocals == [ba |-> 0, limit |-> 0, ret |-> "idle", start |-> 0, ok |-> TRUE,
             write_ba |-> 0, tmp |-> 0, uret |-> "idle", bret |-> "upd_ret"]

TableLabels == {"write", "program", "erase_range", "reb_main", "reb_backup",
                "rs_front", "rs_back", "rs_erased", "us_main", "us_backup",
                "update", "upd_backup", "upd_main", "upd_ret", "res_tmp",
                "res_main"}
UserLabels == {"off", "failed", "idle", "loaded", "sig_write", "sig_program",
               "create", "create_map", "create_top", "created", "erase",
               "remap", "remap_top", "page_write", "detach"}
Labels == TableLabels \cup UserLabels

Locals == [ba : 0 .. BlockCount, limit : Blocks, ret : Labels, start : Blocks,
           ok : BOOLEAN, write_ba : Blocks, tmp : Blocks, uret : Labels,
           bret : Labels]

CallWrite(l, ba, limit, ret) ==
    [l EXCEPT !.ba = ba, !.limit = limit, !.ret = ret]

\* nmbm_update_info_table entered, to return to ret
CallUpdate(ret) == pc' = "update" /\ lv' = [lv EXCEPT !.uret = ret]

\* nmbm_rebuild_info_table entered with instance n, to return to ret
CallRebuild(n, ret) ==
    /\ ni' = [n EXCEPT !.main_table_ba = 0, !.backup_table_ba = 0,
                       !.mapping_blocks_ba = n.mapping_blocks_top_ba]
    /\ lv' = [CallWrite(lv, MgmtStart, n.mapping_blocks_top_ba, "reb_main")
                EXCEPT !.bret = ret]
    /\ pc' = "write"

-----------------------------------------------------------------------------
(* nmbm_write_mgmt_range and nmbm_erase_range: one block after the other    *)

NextBlock == lv' = [lv EXCEPT !.ba = lv.ba + 1]

AtBlock(label) ==
    /\ pc = label
    /\ lv.ba < lv.limit

\* A block known not to be GOOD is passed over
SkipKnown(label) ==
    /\ AtBlock(label)
    /\ ni.block_state[lv.ba] # GOOD
    /\ NextBlock
    /\ UNCHANGED <<flash, oob, ni, pc, skipped>>

\* A block that carries the bad mark is recorded and passed over
SkipMarked(label) ==
    /\ AtBlock(label)
    /\ ni.block_state[lv.ba] = GOOD
    /\ lv.ba \in oob
    /\ ni' = SetState(ni, lv.ba, BAD)
    /\ NextBlock
    /\ UNCHANGED <<flash, oob, pc, skipped>>

CanErase(label) ==
    /\ AtBlock(label)
    /\ ni.block_state[lv.ba] = GOOD
    /\ lv.ba \notin oob

\* nmbm_mark_phys_bad_block and BLOCK_ST_BAD after a failed operation
MarkFailed(b) ==
    /\ flash' = [flash EXCEPT ![b] = Junk]
    /\ oob' = oob \cup {b}
    /\ ni' = SetState(ni, b, BAD)

EraseFails(label) ==
    /\ CanErase(label)
    /\ lv.ba \in Weak
    /\ MarkFailed(lv.ba)
    /\ NextBlock
    /\ UNCHANGED <<pc, skipped>>

WriteErases ==
    /\ CanErase("write")
    /\ flash' = [flash EXCEPT ![lv.ba] = Erased]
    /\ pc' = "program"
    /\ UNCHANGED <<oob, ni, lv, skipped>>

RangeErases ==
    /\ CanErase("erase_range")
    /\ flash' = [flash EXCEPT ![lv.ba] = Erased]
    /\ NextBlock
    /\ UNCHANGED <<oob, ni, pc, skipped>>

\* Mutant: the table is not read back after programming
ProgramUnverified ==
    /\ pc = "program"
    /\ flash' = [flash EXCEPT ![lv.ba] =
                   IF lv.ba \in Weak THEN Junk ELSE TableOf(ni.info_table_cache)]
    /\ lv' = [lv EXCEPT !.start = lv.ba, !.ok = TRUE]
    /\ pc' = lv.ret
    /\ UNCHANGED <<oob, ni, skipped>>

\* Written and verified: the table is at lv.start and ends before start + 1
ProgramSucceeds ==
    /\ pc = "program"
    /\ flash' = [flash EXCEPT ![lv.ba] = TableOf(ni.info_table_cache)]
    /\ lv' = [lv EXCEPT !.start = lv.ba, !.ok = TRUE]
    /\ pc' = lv.ret
    /\ UNCHANGED <<oob, ni, skipped>>

ProgramFails ==
    /\ pc = "program"
    /\ lv.ba \in Weak
    /\ MarkFailed(lv.ba)
    /\ NextBlock
    /\ pc' = "write"
    /\ UNCHANGED skipped

\* No block is left in the range
WriteExhausted ==
    /\ pc = "write"
    /\ lv.ba >= lv.limit
    /\ lv' = [lv EXCEPT !.ok = FALSE]
    /\ pc' = lv.ret
    /\ UNCHANGED <<flash, oob, ni, skipped>>

RangeErased ==
    /\ pc = "erase_range"
    /\ lv.ba >= lv.limit
    /\ lv' = [lv EXCEPT !.ok = TRUE]
    /\ pc' = lv.ret
    /\ UNCHANGED <<flash, oob, ni, skipped>>

BlockStep ==
    \/ \E label \in {"write", "erase_range"} :
         SkipKnown(label) \/ SkipMarked(label) \/ EraseFails(label)
    \/ WriteErases \/ ProgramSucceeds \/ ProgramFails \/ WriteExhausted
    \/ RangeErases \/ RangeErased
-----------------------------------------------------------------------------
(* nmbm_rebuild_info_table                                                  *)

ReturnTo(label, ok) ==
    /\ lv' = [lv EXCEPT !.ok = ok]
    /\ pc' = label

WriteNext(n, ba, limit, ret) ==
    /\ ni' = n
    /\ lv' = CallWrite(lv, ba, limit, ret)
    /\ pc' = "write"

EraseRange(n, ba, limit, ret) ==
    /\ ni' = n
    /\ lv' = CallWrite(lv, ba, limit, ret)
    /\ pc' = "erase_range"

\* The room a second table may use: the spare area without its last block
NoRoom(n, ba) ==
    ~ \E b \in Blocks : Reserve(n, ba, n.mapping_blocks_top_ba - 1, b)

RebuildMainWritten ==
    /\ pc = "reb_main" /\ lv.ok
    /\ LET n == [ni EXCEPT !.main_table_ba = lv.start,
                           !.mapping_blocks_ba = lv.start + 1,
                           !.changed = FALSE]
       IN  \/ \E b \in Blocks :
                /\ Reserve(n, lv.start + 1, n.mapping_blocks_top_ba - 1, b)
                /\ WriteNext(n, b, n.mapping_blocks_top_ba, "reb_backup")
           \/ /\ NoRoom(n, lv.start + 1)
              /\ ni' = n
              /\ ReturnTo(lv.bret, TRUE)
    /\ UNCHANGED <<flash, oob, skipped>>

\* Not even one table can be written: the device stops being writable
RebuildMainFailed ==
    /\ pc = "reb_main" /\ ~lv.ok
    /\ ni' = [ni EXCEPT !.protected = TRUE]
    /\ ReturnTo(lv.bret, FALSE)
    /\ UNCHANGED <<flash, oob, skipped>>

RebuildBackupWritten ==
    /\ pc = "reb_backup" /\ lv.ok
    /\ EraseRange([ni EXCEPT !.backup_table_ba = lv.start,
                             !.mapping_blocks_ba = lv.start + 1],
                  ni.main_table_ba + 1, lv.start, lv.bret)
    /\ UNCHANGED <<flash, oob, skipped>>

RebuildBackupFailed ==
    /\ pc = "reb_backup" /\ ~lv.ok
    /\ ReturnTo(lv.bret, TRUE)
    /\ UNCHANGED <<flash, oob, ni, skipped>>

-----------------------------------------------------------------------------
(* nmbm_rescue_single_info_table and nmbm_update_single_info_table, called   *)
(* while attaching; both return to "loaded"                                 *)

RescueSingleFront ==
    /\ pc = "rs_front" /\ lv.ok
    /\ EraseRange([ni EXCEPT !.backup_table_ba = ni.main_table_ba,
                             !.main_table_ba = lv.start,
                             !.changed = FALSE],
                  lv.start + 1, ni.main_table_ba, "loaded")
    /\ UNCHANGED <<flash, oob, skipped>>

RescueSingleBehind ==
    /\ pc = "rs_front" /\ ~lv.ok
    /\ \/ \E b \in Blocks :
            /\ Reserve(ni, ni.mapping_blocks_ba,
                       ni.mapping_blocks_top_ba - 1, b)
            /\ lv' = [CallWrite(lv, b, ni.mapping_blocks_top_ba, "rs_back")
                        EXCEPT !.write_ba = b]
            /\ pc' = "write"
       \/ /\ NoRoom(ni, ni.mapping_blocks_ba)
          /\ ReturnTo("loaded", FALSE)
    /\ UNCHANGED <<flash, oob, ni, skipped>>

\* Mutant: write_ba is not decremented
RetrySame(ret) ==
    /\ lv.write_ba - 1 >= ni.mapping_blocks_ba
    /\ lv' = CallWrite(lv, lv.write_ba, ni.mapping_blocks_top_ba, ret)
    /\ pc' = "write"
    /\ UNCHANGED ni

\* The rescue loops try again one block lower, down to mapping_blocks_ba
RetryLower(ret) ==
    /\ lv.write_ba - 1 >= ni.mapping_blocks_ba
    /\ lv' = [CallWrite(lv, lv.write_ba - 1, ni.mapping_blocks_top_ba, ret)
                EXCEPT !.write_ba = lv.write_ba - 1]
    /\ pc' = "write"
    /\ UNCHANGED ni

RescueSingleRetry ==
    /\ pc = "rs_back" /\ ~lv.ok
    /\ \/ RetryLower("rs_back")
       \/ /\ lv.write_ba - 1 < ni.mapping_blocks_ba
          /\ ReturnTo("loaded", FALSE)
          /\ UNCHANGED ni
    /\ UNCHANGED <<flash, oob, skipped>>

RescueSingleWritten ==
    /\ pc = "rs_back" /\ lv.ok
    /\ EraseRange(ni, ni.mapping_blocks_ba, lv.start, "rs_erased")
    /\ UNCHANGED <<flash, oob, skipped>>

RescueSingleErased ==
    /\ pc = "rs_erased"
    /\ ni' = [ni EXCEPT !.backup_table_ba = lv.start,
                        !.mapping_blocks_ba = lv.start + 1,
                        !.changed = FALSE]
    /\ ReturnTo("loaded", TRUE)
    /\ UNCHANGED <<flash, oob, skipped>>

UpdateSingleMain ==
    /\ pc = "us_main"
    /\ \/ /\ lv.ok
          /\ ni' = [ni EXCEPT !.main_table_ba = lv.start, !.changed = FALSE]
          /\ ReturnTo("loaded", TRUE)
       \/ /\ ~lv.ok
          /\ WriteNext([ni EXCEPT !.main_table_ba = ni.backup_table_ba,
                                  !.backup_table_ba = 0],
                       MgmtStart, ni.backup_table_ba, "rs_front")
    /\ UNCHANGED <<flash, oob, skipped>>

UpdateSingleBackup ==
    /\ pc = "us_backup"
    /\ ni' = IF lv.ok
             THEN [ni EXCEPT !.backup_table_ba = lv.start,
                             !.mapping_blocks_ba = lv.start + 1,
                             !.changed = FALSE]
             ELSE [ni EXCEPT !.mapping_blocks_ba = ni.backup_table_ba,
                             !.backup_table_ba = 0]
    /\ ReturnTo("loaded", lv.ok)
    /\ UNCHANGED <<flash, oob, skipped>>

-----------------------------------------------------------------------------
(* nmbm_update_info_table, nmbm_update_info_table_once and                  *)
(* nmbm_rescue_main_info_table                                              *)

UpdateDone ==
    /\ pc = "update"
    /\ ni.protected \/ ~ni.changed
    /\ ReturnTo(lv.uret, TRUE)
    /\ UNCHANGED <<flash, oob, ni, skipped>>

\* Mutant: without a backup table the main table may grow to the signature
WriteMainToSignature(n) ==
    IF n.main_table_ba = 0
    THEN CallRebuild(n, "upd_ret")
    ELSE WriteNext(n, n.main_table_ba,
                   IF n.backup_table_ba = 0 THEN n.signature_ba
                                            ELSE n.backup_table_ba,
                   "upd_main")

\* The label write_main_table, reached with instance n
WriteMainTable(n) ==
    IF n.main_table_ba = 0
    THEN CallRebuild(n, "upd_ret")
    ELSE WriteNext(n, n.main_table_ba,
                   IF n.backup_table_ba = 0 THEN n.mapping_blocks_top_ba
                                            ELSE n.backup_table_ba,
                   "upd_main")

UpdateOnce ==
    /\ pc = "update"
    /\ ~ni.protected /\ ni.changed
    /\ LET n == Generate(ni)
       IN  IF n.backup_table_ba = 0
           THEN WriteMainTable(n)
           ELSE WriteNext(n, n.backup_table_ba, n.mapping_blocks_top_ba,
                          "upd_backup")
    /\ UNCHANGED <<flash, oob, skipped>>

\* Mutant: mapping_blocks_ba is not adjusted to the end of the backup table
UpdateBackupUnadjusted ==
    /\ pc = "upd_backup"
    /\ WriteMainTable(
         IF lv.ok
         THEN [ni EXCEPT !.backup_table_ba = lv.start, !.changed = FALSE]
         ELSE [ni EXCEPT !.mapping_blocks_ba = ni.backup_table_ba,
                         !.backup_table_ba = 0])
    /\ UNCHANGED <<flash, oob, skipped>>

UpdateBackupReturns ==
    /\ pc = "upd_backup"
    /\ WriteMainTable(
         IF lv.ok
         THEN [ni EXCEPT !.backup_table_ba = lv.start,
                         !.mapping_blocks_ba = lv.start + 1,
                         !.changed = FALSE]
         ELSE [ni EXCEPT !.mapping_blocks_ba = ni.backup_table_ba,
                         !.backup_table_ba = 0])
    /\ UNCHANGED <<flash, oob, skipped>>

UpdateMainWritten ==
    /\ pc = "upd_main" /\ lv.ok
    /\ ni' = [ni EXCEPT !.main_table_ba = lv.start,
                        !.mapping_blocks_ba = IF ni.backup_table_ba = 0
                                              THEN lv.start + 1 ELSE @,
                        !.changed = FALSE]
    /\ ReturnTo("upd_ret", TRUE)
    /\ UNCHANGED <<flash, oob, skipped>>

\* The backup table becomes the only table
BackupBecomesMain ==
    /\ ni' = [ni EXCEPT !.main_table_ba = ni.backup_table_ba,
                        !.backup_table_ba = 0]
    /\ ReturnTo("upd_ret", TRUE)

UpdateMainFailed ==
    /\ pc = "upd_main" /\ ~lv.ok
    /\ \/ /\ ni.backup_table_ba = 0
          /\ CallRebuild(ni, "upd_ret")
       \/ /\ ni.backup_table_ba # 0
          /\ \E b \in Blocks :
               /\ Reserve(ni, ni.mapping_blocks_ba,
                          ni.mapping_blocks_top_ba - 1, b)
               /\ lv' = [CallWrite(lv, b, ni.mapping_blocks_top_ba, "res_tmp")
                           EXCEPT !.write_ba = b]
          /\ pc' = "write"
          /\ UNCHANGED ni
       \/ /\ ni.backup_table_ba # 0
          /\ NoRoom(ni, ni.mapping_blocks_ba)
          /\ BackupBecomesMain
    /\ UNCHANGED <<flash, oob, skipped>>

RescueMainTmpFailed ==
    /\ pc = "res_tmp" /\ ~lv.ok
    /\ \/ RetryLower("res_tmp")
       \/ /\ lv.write_ba - 1 < ni.mapping_blocks_ba
          /\ BackupBecomesMain
    /\ UNCHANGED <<flash, oob, skipped>>

RescueMainTmpWritten ==
    /\ pc = "res_tmp" /\ lv.ok
    /\ ni' = [ni EXCEPT !.mapping_blocks_ba = lv.start + 1]
    /\ lv' = [CallWrite(lv, MgmtStart, lv.start, "res_main")
                EXCEPT !.tmp = lv.start]
    /\ pc' = "write"
    /\ UNCHANGED <<flash, oob, skipped>>

\* A main table written below tmp never reaches past it, so the branch for
\* main_table_end_ba > tmp_table_start_ba is never taken.
RescueMainReturns ==
    /\ pc = "res_main"
    /\ ni' = [ni EXCEPT !.main_table_ba = IF lv.ok THEN lv.start ELSE lv.tmp,
                        !.backup_table_ba = IF lv.ok THEN lv.tmp ELSE 0,
                        !.changed = FALSE]
    /\ ReturnTo("upd_ret", TRUE)
    /\ UNCHANGED <<flash, oob, skipped>>

\* nmbm_update_info_table_once returned: loop, or give up on its failure
UpdateOnceReturns ==
    /\ pc = "upd_ret"
    /\ pc' = IF lv.ok THEN "update" ELSE lv.uret
    /\ UNCHANGED <<flash, oob, ni, lv, skipped>>

TableStep ==
    \/ RebuildMainWritten \/ RebuildMainFailed
    \/ RebuildBackupWritten \/ RebuildBackupFailed
    \/ RescueSingleFront \/ RescueSingleBehind \/ RescueSingleRetry
    \/ RescueSingleWritten \/ RescueSingleErased
    \/ UpdateSingleMain \/ UpdateSingleBackup
    \/ UpdateDone \/ UpdateOnce \/ UpdateBackupReturns
    \/ UpdateMainWritten \/ UpdateMainFailed
    \/ RescueMainTmpFailed \/ RescueMainTmpWritten \/ RescueMainReturns
    \/ UpdateOnceReturns
=============================================================================
