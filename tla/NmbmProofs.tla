----------------------------- MODULE NmbmProofs -----------------------------
(***************************************************************************)
(* nmbm-core.c never leaves its management area while it writes tables, on *)
(* a chip of any size, with any pattern of failing blocks and any number   *)
(* of operations and power failures: IInv of NmbmInv is inductive.         *)
(*                                                                         *)
(* The module opens with the facts about the operators of Nmbm, the        *)
(* labels, the addresses and the chip on which the proofs of all three     *)
(* inductive invariants rest.  What only the proof of IInv needs is a      *)
(* named step of LEMMA NextInv, one for each procedure of the driver.      *)
(***************************************************************************)
EXTENDS NmbmRecord, TLAPS

USE ZenonT(60)

-----------------------------------------------------------------------------
(* Facts about the operators                                                *)

\* nmbm_generate_info_table_cache likewise
LEMMA GenerateType ==
    ASSUME NEW n \in Instance
    PROVE  /\ Generate(n) \in Instance
           /\ Generate(n).main_table_ba = n.main_table_ba
           /\ Generate(n).backup_table_ba = n.backup_table_ba
           /\ Generate(n).mapping_blocks_ba = n.mapping_blocks_ba
           /\ Generate(n).mapping_blocks_top_ba = n.mapping_blocks_top_ba
           /\ Generate(n).signature_ba = n.signature_ba
<1>. DEFINE wc == IF n.changed THEN n.write_count + 1 ELSE n.write_count
            tbl == [write_count |-> wc, block_state |-> n.block_state,
                    block_mapping |-> n.block_mapping]
<1>1. wc \in Nat
  BY SMTT(30) DEF Instance
<1>2. tbl \in InfoTable
  BY <1>1 DEF Instance, InfoTable
<1>3. Generate(n) = [n EXCEPT !.write_count = wc, !.info_table_cache = tbl]
  BY DEF Generate
<1>. HIDE DEF wc, tbl
<1>. QED
  BY <1>1, <1>2, <1>3 DEF Instance

\* nmbm_generate_info_table_cache copies the instance into the cache
LEMMA GenerateFields ==
    ASSUME NEW n \in Instance
    PROVE  LET g == Generate(n)
           IN  /\ g.block_mapping = n.block_mapping /\ g.block_state = n.block_state
               /\ g.info_table_cache.block_mapping = n.block_mapping
               /\ g.info_table_cache.block_state = n.block_state
               /\ g.info_table_cache.write_count = g.write_count
               /\ g.write_count = IF n.changed THEN n.write_count + 1 ELSE n.write_count
<1>1. PICK wc : wc = IF n.changed THEN n.write_count + 1 ELSE n.write_count
  OBVIOUS
<1>2. Generate(n) = [n EXCEPT !.write_count = wc,
                              !.info_table_cache = [write_count |-> wc,
                                                    block_state |-> n.block_state,
                                                    block_mapping |-> n.block_mapping]]
  BY <1>1 DEF Generate
<1>. QED
  BY SMTT(30), <1>1, <1>2 DEF Instance

\* nmbm_try_reserve_blocks only returns a block of the range it is given
LEMMA ReserveInRange ==
    ASSUME NEW n, NEW ba \in Int, NEW limit \in Int, NEW b, Reserve(n, ba, limit, b)
    PROVE  b \in Int /\ ba <= b /\ b < limit
  BY SMTT(30) DEF Reserve

\* The zeroed structures are well formed
LEMMA InitType ==
    /\ InitStructure \in Instance
    /\ NoLocals \in Locals /\ NoLocals.bret \in AfterRebuild
    /\ NoLocals.uret \in AfterUpdate
    /\ NoOp \in [lb : Logical, val : Vals \cup {"none"}, pb : Blocks]
<1>. USE GeometryAssumption
<1>1. 0 \in Blocks /\ 0 \in Logical /\ 0 \in 0 .. BlockCount /\ 0 \in 0 .. MgmtStart
  BY SMTT(30) DEF Blocks, Logical
<1>2. [b \in Blocks |-> GOOD] \in StateTable
  BY DEF StateTable, BlockState
<1>3. [lb \in Logical |-> 0] \in MappingTable
  BY <1>1 DEF MappingTable
<1>4. EmptyTable \in InfoTable
  BY <1>2, <1>3 DEF EmptyTable, InfoTable
<1>5. InitStructure \in Instance
  BY <1>1, <1>2, <1>3, <1>4 DEF InitStructure, Instance
<1>6. /\ "idle" \in Labels /\ "upd_ret" \in Labels
      /\ "idle" \in AfterUpdate /\ "upd_ret" \in AfterRebuild
  BY DEF Labels, TableLabels, UserLabels, AfterRebuild, AfterUpdate
<1>7. NoLocals \in Locals
  BY <1>1, <1>6 DEF NoLocals, Locals
<1>. QED
  BY <1>1, <1>5, <1>6, <1>7 DEF NoLocals, NoOp

\* Marking blocks as bad leaves a state table
LEMMA MarkedType ==
    ASSUME NEW st \in StateTable, NEW S
    PROVE  Marked(st, S) \in StateTable
  BY DEF Marked, StateTable, BlockState, BAD

\* nmbm_map_block uses the top of the spare area
LEMMA MapToType ==
    ASSUME NEW n \in Instance, Laid(n), NEW lb \in Logical, NEW pb \in Blocks,
           Spare(n, pb)
    PROVE  MapTo(n, lb, pb) \in Instance /\ Laid(MapTo(n, lb, pb))
<1>. USE GeometryAssumption
<1>1. /\ n.mapping_blocks_top_ba \in Blocks /\ n.mapping_blocks_ba \in 0 .. BlockCount
      /\ n.block_mapping \in MappingTable
  BY DEF Instance
<1>2. n.mapping_blocks_ba + 1 <= pb /\ pb <= n.mapping_blocks_top_ba
  BY SMTT(30), <1>1 DEF Spare, WalkDesc, Blocks
<1>3. n.mapping_blocks_top_ba - 1 \in Blocks
  BY SMTT(30), <1>1, <1>2 DEF Blocks
<1>4. [n.block_mapping EXCEPT ![lb] = pb] \in MappingTable
  BY <1>1 DEF MappingTable
<1>5. MapTo(n, lb, pb) \in Instance
  BY <1>3, <1>4 DEF MapTo, Instance
<1>6. Laid(MapTo(n, lb, pb))
  <2>1. MgmtStart <= n.mapping_blocks_top_ba - 1
    BY SMTT(30), <1>1, <1>2 DEF Laid, Blocks
  <2>2. n.mapping_blocks_top_ba - 1 < n.signature_ba
    BY SMTT(30), <1>1 DEF Laid, Instance, Blocks
  <2>. QED
    BY <2>1, <2>2 DEF MapTo, Laid, Instance
<1>. QED
  BY <1>5, <1>6

\* An instance whose spare area is closed
LEMMA ClosedType ==
    ASSUME TypeOK, Laid(ni), ni.mapping_blocks_ba \in Blocks
    PROVE  /\ [ni EXCEPT !.mapping_blocks_top_ba = ni.mapping_blocks_ba] \in Instance
           /\ Laid([ni EXCEPT !.mapping_blocks_top_ba = ni.mapping_blocks_ba])
<1>1. ni \in Instance
  BY DEF TypeOK
<1>. QED
  BY <1>1 DEF Instance, Laid

-----------------------------------------------------------------------------
(* The labels                                                               *)

\* The labels the procedures return to
LEMMA ReturnLabelsAreLabels ==
    /\ AfterWrite \subseteq Labels /\ AfterErase \subseteq Labels
    /\ AfterRebuild \subseteq Labels /\ AfterUpdate \subseteq Labels
  BY DEF AfterWrite, AfterErase, AfterRebuild, AfterUpdate, Labels, TableLabels,
         UserLabels

\* Labels between two uses of the loops
Between == Labels \ (Unlaid \cup AfterWrite \cup Writing \cup {"rs_erased"})

\* The labels of the logical operations and of an attach that has tables
LEMMA LogicLabels ==
    {"idle", "loaded", "update", "erase", "remap", "remap_top", "page_write", "detach",
     "create_map", "create_top", "created"} \subseteq Between
  BY DEF Between, Unlaid, Labels, TableLabels, UserLabels, AfterWrite, Writing

\* The procedures that write tables are only called on, and only return to, an
\* instance with a layout
LEMMA TableLabelsLaid ==
    ASSUME ReturnLabels, BlockStep \/ TableStep
    PROVE  pc \notin Unlaid /\ pc' \notin Unlaid
<1>1. /\ lv.bret \notin Unlaid /\ lv.uret \notin Unlaid
      /\ pc \in {"write", "program", "erase_range"} => lv.ret \notin Unlaid
  BY DEF ReturnLabels, AfterRebuild, AfterUpdate, AfterWrite, AfterErase, Unlaid
<1>2. CASE BlockStep
  BY <1>1, <1>2 DEF BlockStep, SkipKnown, SkipMarked, EraseFails, AtBlock, CanErase,
     WriteErases, ProgramSucceeds, ProgramFails, WriteExhausted, RangeErases, RangeErased,
     Unlaid
<1>3. CASE RebuildMainWritten \/ RebuildMainFailed \/ RebuildBackupWritten
             \/ RebuildBackupFailed
  BY <1>1, <1>3 DEF RebuildMainWritten, RebuildMainFailed, RebuildBackupWritten,
     RebuildBackupFailed, WriteNext, ReturnTo, EraseRange, Unlaid
<1>4. CASE RescueSingleFront \/ RescueSingleBehind \/ RescueSingleRetry
             \/ RescueSingleWritten \/ RescueSingleErased
  BY <1>4 DEF RescueSingleFront, RescueSingleBehind, RescueSingleRetry,
     RescueSingleWritten, RescueSingleErased, RetryLower, ReturnTo, EraseRange, Unlaid
<1>5. CASE UpdateSingleMain \/ UpdateSingleBackup \/ UpdateDone \/ UpdateOnce
             \/ UpdateBackupReturns
  BY <1>1, <1>5 DEF UpdateSingleMain, UpdateSingleBackup, UpdateDone, UpdateOnce,
     UpdateBackupReturns, WriteMainTable, CallRebuild, WriteNext, ReturnTo, Unlaid
<1>6. CASE UpdateMainWritten \/ UpdateMainFailed \/ RescueMainTmpFailed
             \/ RescueMainTmpWritten \/ RescueMainReturns \/ UpdateOnceReturns
  BY <1>1, <1>6 DEF UpdateMainWritten, UpdateMainFailed, RescueMainTmpFailed,
     RescueMainTmpWritten, RescueMainReturns, UpdateOnceReturns, BackupBecomesMain,
     RetryLower, CallRebuild, ReturnTo, Unlaid
<1>. QED
  BY <1>2, <1>3, <1>4, <1>5, <1>6 DEF TableStep

\* The driver's operations are only entered with a layout
LEMMA LogicLabelsLaid ==
    ASSUME LogicStep \/ StartDetach \/ AttachLoaded \/ CreateMaps \/ CreateMapped
             \/ CreateMapFails \/ CreateClosesSpare \/ CreateReturns
             \/ \E lb \in Logical : \/ StartErase(lb)
                                    \/ \E v \in Vals : StartWrite(lb, v)
                                    \/ MarkBad(lb)
    PROVE  pc \notin Unlaid
<1>1. CASE LogicStep
  BY <1>1 DEF LogicStep, EraseUnmapped, EraseGivesUp, EraseSucceeds, EraseLogicFails,
     Remaps, RemapRefused, RemapFails, RemapClosesSpare, WriteSucceeds, WriteFails,
     Detached, CanEraseLogic, Unlaid
<1>2. CASE AttachLoaded \/ CreateMaps \/ CreateMapped \/ CreateMapFails
             \/ CreateClosesSpare \/ CreateReturns
  BY <1>2 DEF AttachLoaded, CreateMaps, CreateMapped, CreateMapFails,
     CreateClosesSpare, CreateReturns, Unlaid
<1>3. CASE StartDetach \/ \E lb \in Logical : \/ StartErase(lb)
                                              \/ \E v \in Vals : StartWrite(lb, v)
                                              \/ MarkBad(lb)
  BY <1>3 DEF StartDetach, StartErase, StartWrite, MarkBad, StartOp, Unlaid
<1>. QED
  BY <1>1, <1>2, <1>3

\* Stepping over a spare block is never forgotten
LEMMA SkippedStays ==
    ASSUME Next, skipped
    PROVE  skipped'
<1>1. CASE BlockStep \/ TableStep
  BY <1>1 DEF BlockStep, SkipKnown, SkipMarked, EraseFails,
     WriteErases, ProgramSucceeds, ProgramFails, WriteExhausted, RangeErases, RangeErased,
     TableStep, RebuildMainWritten, RebuildMainFailed, RebuildBackupWritten,
     RebuildBackupFailed, RescueSingleFront, RescueSingleBehind, RescueSingleRetry,
     RescueSingleWritten, RescueSingleErased, UpdateSingleMain, UpdateSingleBackup,
     UpdateDone, UpdateOnce, UpdateBackupReturns, UpdateMainWritten, UpdateMainFailed,
     RescueMainTmpFailed, RescueMainTmpWritten, RescueMainReturns, UpdateOnceReturns
<1>2. CASE AttachStep
  BY <1>2 DEF AttachStep, AttachLoads, AttachLoaded, AttachNew, AttachRecreates,
     SigSkips, SigErases, SigFails, SigWritten, SigExhausted, CreateTables, CreateMaps,
     CreateMapped, CreateMapFails, CreateClosesSpare, CreateReturns, StepsOver
<1>3. CASE LogicStep
  BY <1>3 DEF LogicStep, EraseUnmapped, EraseGivesUp, EraseSucceeds, EraseLogicFails,
     Remaps, RemapRefused, RemapFails, RemapClosesSpare, WriteSucceeds, WriteFails,
     Detached, PowerOff, StepsOver
<1>4. CASE StartDetach \/ Crash \/ \E lb \in Logical : \/ StartErase(lb)
                                                      \/ \E v \in Vals : StartWrite(lb, v)
                                                      \/ MarkBad(lb)
  BY <1>4 DEF StartDetach, Crash, PowerOff, StartErase, StartWrite, MarkBad
<1>. QED
  BY <1>1, <1>2, <1>3, <1>4 DEF Next, Step

-----------------------------------------------------------------------------
(* The addresses                                                            *)

\* The addresses of the instance and of the locals name blocks of the chip
LEMMA Addresses ==
    ASSUME TypeOK
    PROVE  /\ ni \in Instance /\ lv \in Locals
           /\ Blocks \subseteq Nat /\ Blocks \subseteq 0 .. BlockCount
           /\ 0 \in Blocks /\ MgmtStart \in Blocks /\ MgmtStart >= 1
           /\ ni.main_table_ba \in Blocks /\ ni.backup_table_ba \in Blocks
           /\ ni.mapping_blocks_top_ba \in Blocks /\ ni.signature_ba \in Blocks
           /\ ni.mapping_blocks_ba \in 0 .. BlockCount
           /\ lv.ba \in 0 .. BlockCount /\ lv.limit \in Blocks
           /\ lv.start \in Blocks /\ lv.start + 1 \in 0 .. BlockCount
           /\ lv.write_ba \in Blocks /\ lv.tmp \in Blocks
           /\ lv.ok \in BOOLEAN
<1>. USE GeometryAssumption
<1>1. ni \in Instance /\ lv \in Locals
  BY DEF TypeOK
<1>2. Blocks \subseteq Nat /\ Blocks \subseteq 0 .. BlockCount
  BY SMTT(30) DEF Blocks
<1>3. 0 \in Blocks /\ MgmtStart \in Blocks /\ MgmtStart >= 1
  BY SMTT(30) DEF Blocks
<1>4. lv.start + 1 \in 0 .. BlockCount
  BY SMTT(30), <1>1 DEF Locals, Blocks
<1>. QED
  BY <1>1, <1>2, <1>3, <1>4 DEF Instance, Locals

\* With a layout the start of the spare area is a block of the chip too
LEMMA SpareStart ==
    ASSUME TypeOK, Layout, pc \notin Unlaid
    PROVE  ni.mapping_blocks_ba \in Blocks
  BY SMTT(30), GeometryAssumption DEF TypeOK, Layout, Laid, Instance, Blocks

\* The blocks of a loop: the tables it keeps lie outside, the one it replaces
\* inside, all in the area that may hold tables
LEMMA LoopRange ==
    ASSUME IInv, Regions, OnRecord, Extent, pc \in {"write", "program"}
    PROVE  /\ lv.ret \in AfterWrite /\ Writer = lv.ret /\ InWrite
           /\ MgmtStart <= lv.ba /\ lv.limit <= ni.mapping_blocks_top_ba
           /\ ni.mapping_blocks_top_ba < ni.signature_ba
           /\ \A b \in Safe(lv.ret) : /\ b < lv.ba \/ lv.limit <= b
                                      /\ b < ni.mapping_blocks_ba
           /\ \A b \in Replaced(lv.ret) : b < lv.limit
           /\ \A b, c \in Safe(lv.ret) : b = c
<1>. USE Addresses
<1>. TypeOK /\ Layout /\ ReturnLabels /\ Ranges
  BY DEF IInv
<1>. DEFINE l == lv.ret
<1>1. l \in AfterWrite /\ Writer = l /\ InWrite
  BY DEF ReturnLabels, Writer, InWrite
<1>2. /\ MgmtStart <= lv.ba /\ lv.limit <= ni.mapping_blocks_top_ba
      /\ ni.mapping_blocks_top_ba < ni.signature_ba
  BY DEF Ranges, Writing, Layout, Laid, Unlaid
<1>3. From(l, lv.ba) /\ UpTo(l, lv.limit)
  BY <1>1 DEF Extent
<1>4. /\ ni.main_table_ba = 0 <=> l = "reb_main"
      /\ l \in {"us_main", "us_backup", "upd_backup", "res_tmp", "res_main"}
           => ni.backup_table_ba # 0
      /\ l = "res_main" => /\ lv.tmp = ni.mapping_blocks_ba - 1
                           /\ ni.backup_table_ba < lv.tmp
  BY <1>1 DEF OnRecord
<1>. DEFINE m == ni.main_table_ba
            k == ni.backup_table_ba
            mb == ni.mapping_blocks_ba
            top == ni.mapping_blocks_top_ba
<1>5. /\ m # 0 => m < mb
      /\ k # 0 => m # 0 /\ m < k /\ k < mb
      /\ mb <= top
  BY DEF Regions
<1>6. /\ m \in Nat /\ k \in Nat /\ mb \in Nat /\ top \in Nat /\ lv.tmp \in Nat
      /\ lv.ba \in Nat /\ lv.limit \in Nat
  BY SMTT(30), GeometryAssumption
<1>7. \A b \in Blocks : b \in Nat
  BY SMTT(30)
<1>. HIDE DEF m, k, mb, top
<1>8. ASSUME NEW b \in Safe(l)
      PROVE  b < lv.ba \/ lv.limit <= b
  <2>1. b \in Nat /\ b # 0
    BY <1>7, <1>8 DEF Safe
  <2>2. CASE l \in {"reb_backup", "rs_back", "res_tmp"}
    <3>1. mb <= lv.ba /\ (b = m \/ b = k)
      BY <1>3, <1>8, <2>2 DEF From, Safe, m, k, mb
    <3>. QED
      BY SMTT(30), <1>5, <1>6, <2>1, <3>1
  <2>3. CASE l \in {"us_backup", "upd_backup"}
    <3>1. k <= lv.ba /\ b = m /\ k # 0
      BY <1>3, <1>4, <1>8, <2>3 DEF From, Safe, m, k
    <3>. QED
      BY SMTT(30), <1>5, <1>6, <2>1, <3>1
  <2>4. CASE l \in {"us_main", "upd_main", "rs_front", "res_main"}
    <3>1. lv.limit = b
      BY <1>3, <1>8, <2>1, <2>4 DEF UpTo, Safe
    <3>. QED
      BY SMTT(30), <1>6, <3>1
  <2>5. CASE l = "reb_main"
    BY <1>8, <2>5 DEF Safe
  <2>. QED
    BY <1>1, <2>2, <2>3, <2>4, <2>5 DEF AfterWrite
<1>9. ASSUME NEW b \in Safe(l)
      PROVE  b < mb
  <2>1. b \in Nat /\ b # 0
    BY <1>7, <1>9 DEF Safe
  <2>2. b = m \/ b = k \/ (l = "res_main" /\ b = lv.tmp)
    BY <1>9 DEF Safe, m, k
  <2>. QED
    BY SMTT(30), <1>4, <1>5, <1>6, <2>1, <2>2 DEF mb
<1>10. ASSUME NEW b \in Replaced(l)
       PROVE  b < lv.limit
  <2>1. b \in Nat /\ b # 0
    BY <1>7, <1>10 DEF Replaced
  <2>2. CASE l \in {"us_main", "upd_main"}
    <3>1. b = m /\ lv.limit \in {top, k} /\ (lv.limit = k => k # 0 \/ top = k)
      BY <1>3, <1>4, <1>10, <2>2 DEF UpTo, Replaced, m, k, top
    <3>. QED
      BY SMTT(30), <1>5, <1>6, <2>1, <3>1
  <2>3. CASE l \in {"us_backup", "upd_backup"}
    <3>1. b = k /\ lv.limit = top
      BY <1>3, <1>10, <2>3 DEF UpTo, Replaced, k, top
    <3>. QED
      BY SMTT(30), <1>5, <1>6, <2>1, <3>1
  <2>4. CASE l = "res_main"
    BY <1>3, <1>4, <1>10, <2>4 DEF UpTo, Replaced
  <2>. QED
    BY <1>10, <2>2, <2>3, <2>4 DEF Replaced
<1>11. \A b, c \in Safe(l) : b = c
  BY DEF Safe
<1>. QED
  BY <1>1, <1>2, <1>8, <1>9, <1>10, <1>11 DEF mb

\* Between two uses of the loops the tables are those on record
LEMMA BetweenFacts ==
    ASSUME IInv, Session, pc \in Between
    PROVE  LET m == ni.main_table_ba
               k == ni.backup_table_ba
               mb == ni.mapping_blocks_ba
               top == ni.mapping_blocks_top_ba
           IN  /\ m \in Nat /\ k \in Nat /\ mb \in Nat /\ top \in Nat
               /\ m # 0 => m < mb
               /\ k # 0 => m # 0 /\ m < k /\ k < mb
               /\ mb <= top /\ top < ni.signature_ba
               /\ TablesOnChip = Tables({m, k}) /\ NoneFree(m)
               /\ m \in 0 .. BlockCount
<1>. TypeOK /\ Layout
  BY DEF IInv
<1>1. pc \notin Unlaid /\ ~InWrite /\ ~Rescued /\ Settled
  BY DEF Between, Settled, InWrite, Rescued, Writing
<1>2. /\ TablesOnChip = Tables({ni.main_table_ba, ni.backup_table_ba})
      /\ NoneFree(ni.main_table_ba) /\ ni.mapping_blocks_top_ba < ni.signature_ba
  BY <1>1 DEF Session, Holders, MainFirst, Layout, Laid
<1>3. /\ ni.main_table_ba \in Nat /\ ni.backup_table_ba \in Nat
      /\ ni.mapping_blocks_ba \in Nat /\ ni.mapping_blocks_top_ba \in Nat
      /\ ni.main_table_ba \in 0 .. BlockCount
  BY SMTT(30), GeometryAssumption, Addresses
<1>. QED
  BY <1>2, <1>3 DEF Session, Regions

\* The tables lie in the area that may hold them
LEMMA TablesBelowTop ==
    ASSUME IInv, Chip, Session, pc \in Between, NEW b \in TablesOnChip
    PROVE  b \in Blocks /\ b \in MgmtStart .. ni.mapping_blocks_top_ba
<1>1. PICK m, k, mb, top :
        /\ m = ni.main_table_ba /\ k = ni.backup_table_ba /\ mb = ni.mapping_blocks_ba
        /\ top = ni.mapping_blocks_top_ba
  OBVIOUS
<1>2. /\ m \in Nat /\ k \in Nat /\ mb \in Nat /\ top \in Nat /\ mb <= top
      /\ m # 0 => m < mb
      /\ k # 0 => k < mb
      /\ TablesOnChip = Tables({m, k})
  BY <1>1, BetweenFacts
<1>3. MgmtStart <= b /\ (b = m \/ b = k) /\ b # 0 /\ b \in Blocks
  BY <1>2 DEF Chip, TablesClear, Tables, TablesOnChip
<1>4. b \in MgmtStart .. top
  BY SMTT(30), <1>2, <1>3, GeometryAssumption
<1>. QED
  BY <1>1, <1>3, <1>4

\* The block of a logic block is neither a table nor the signature, and lies
\* outside the area that may hold tables
LEMMA HomeApart ==
    ASSUME IInv, Chip, Session, pc \in Between, NEW lb \in Logical, NEW h,
           h = Home(lb), h # -1
    PROVE  /\ h \in Blocks /\ h \notin SigBlocks /\ h \notin TablesOnChip
           /\ h \notin MgmtStart .. ni.mapping_blocks_top_ba
<1>. TypeOK /\ Mappings
  BY DEF IInv, Session
<1>1. ni.block_mapping \in [Logical -> Blocks \cup {-1}]
  BY DEF TypeOK, Instance, MappingTable
<1>2. h \in Blocks
  BY <1>1 DEF Home
<1>3. h \notin MgmtStart .. ni.mapping_blocks_top_ba /\ h # ni.signature_ba
  BY DEF Mappings, Apart, Clear, Home
<1>4. h \notin SigBlocks
  BY <1>3 DEF Mappings, Chip, OneSignature
<1>5. \A b \in TablesOnChip : b \in MgmtStart .. ni.mapping_blocks_top_ba
  BY TablesBelowTop
<1>. QED
  BY <1>2, <1>3, <1>4, <1>5

-----------------------------------------------------------------------------
(* The chip                                                                 *)

\* Only block x changes, and it comes to hold neither table nor signature
LEMMA OneBlock ==
    ASSUME NEW x, oob \subseteq oob',
           \A b \in Blocks : b # x => flash'[b] = flash[b] /\ (b \in oob' <=> b \in oob),
           x \notin SigBlocks, x \in oob' \/ flash'[x].kind \notin {"sig", "table"}
    PROVE  /\ SigBlocks' = SigBlocks
           /\ TablesOnChip' = TablesOnChip \ {x}
           /\ \A b \in TablesOnChip' : Tbl(b)' = Tbl(b)
<1>1. SigBlocks' = SigBlocks
  BY DEF SigBlocks
<1>2. TablesOnChip' = TablesOnChip \ {x}
  BY DEF TablesOnChip
<1>3. \A b \in TablesOnChip' : b \in Blocks /\ b # x
  BY <1>2 DEF TablesOnChip
<1>. QED
  BY <1>1, <1>2, <1>3 DEF Tbl

\* The chip stays as it should be when tables disappear
LEMMA ChipShrinks ==
    ASSUME Chip, oob \subseteq oob', SigBlocks' = SigBlocks,
           TablesOnChip' \subseteq TablesOnChip,
           \A b \in TablesOnChip' : Tbl(b)' = Tbl(b)
    PROVE  Chip'
<1>1. OneSignature'
  BY DEF Chip, OneSignature
<1>2. TablesClear'
  <2>1. \A b \in TablesOnChip' :
          /\ MgmtStart <= b
          /\ Clear(Tbl(b).block_mapping, b + 1)
          /\ \A lb \in Logical : Tbl(b).block_mapping[lb] \notin SigBlocks
    BY DEF Chip, TablesClear
  <2>. QED
    BY <2>1 DEF TablesClear, Clear
<1>3. TwoTables'
  BY DEF Chip, TwoTables
<1>4. TablesAgree'
  <2>1. \A b, c \in TablesOnChip' :
          /\ Tbl(b).block_state[c] = GOOD
          /\ Tbl(c).write_count <= Tbl(b).write_count =>
               /\ Clear(Tbl(b).block_mapping, c + 1)
               /\ Fewer(Tbl(c).block_state, Tbl(b).block_state)
          /\ Tbl(b).write_count = Tbl(c).write_count => Tbl(b) = Tbl(c)
    BY DEF Chip, TablesAgree
  <2>2. \A b, c \in TablesOnChip' :
          Tbl(b)'.write_count = Tbl(c)'.write_count => Tbl(b)' = Tbl(c)'
    BY <2>1
  <2>3. \A b, c \in TablesOnChip' : Tbl(b)'.block_state[c] = GOOD
    BY <2>1
  <2>4. \A b, c \in TablesOnChip' :
          Tbl(c)'.write_count <= Tbl(b)'.write_count =>
            /\ Clear(Tbl(b)'.block_mapping, c + 1)
            /\ Fewer(Tbl(c)'.block_state, Tbl(b)'.block_state)
    BY <2>1
  <2>. QED
    BY <2>2, <2>3, <2>4 DEF TablesAgree
<1>5. NoneBelow'
  <2>1. \A st, hi : Unavailable(st, oob, hi) => Unavailable(st, oob', hi)
    BY DEF Unavailable
  <2>2. \A b, c \in TablesOnChip' :
          b # c /\ Tbl(c).write_count <= Tbl(b).write_count =>
            \/ Unavailable(Tbl(b).block_state, oob, b)
            \/ Unavailable(Tbl(b).block_state, oob, c)
    BY DEF Chip, NoneBelow
  <2>. QED
    BY <2>1, <2>2 DEF NoneBelow
<1>. QED
  BY <1>1, <1>2, <1>3, <1>4, <1>5 DEF Chip

\* The chip is left alone
LEMMA SameChip ==
    ASSUME UNCHANGED <<flash, oob>>
    PROVE  /\ SigBlocks' = SigBlocks /\ TablesOnChip' = TablesOnChip
           /\ \A b \in TablesOnChip' : Tbl(b)' = Tbl(b)
           /\ Chip => Chip'
<1>1. /\ SigBlocks' = SigBlocks /\ TablesOnChip' = TablesOnChip
      /\ \A b \in TablesOnChip' : Tbl(b)' = Tbl(b)
  BY DEF SigBlocks, TablesOnChip, Tbl
<1>. QED
  BY <1>1, ChipShrinks

\* A block that holds a table holds a well-formed one
LEMMA TableType ==
    ASSUME TypeOK, NEW b \in TablesOnChip
    PROVE  b \in Blocks /\ flash[b].tbl \in InfoTable
<1>1. b \in Blocks /\ flash[b] \in Content /\ flash[b].kind = "table"
  BY DEF TablesOnChip, TypeOK
<1>. QED
  BY SMTT(30), <1>1 DEF Content, Erased, Junk, Sig

\* A block that a loop may touch is not the signature
LEMMA BelowSignature ==
    ASSUME IInv, Chip, Mappings, pc \in Writing, lv.ba < lv.limit
    PROVE  lv.ba \in Blocks /\ lv.ba \in Mgmt /\ lv.ba \notin SigBlocks
<1>. TypeOK /\ Layout /\ Ranges
  BY DEF IInv
<1>1. /\ lv.ba \in Nat /\ lv.limit \in Nat /\ ni.mapping_blocks_top_ba \in Nat
      /\ ni.signature_ba \in Blocks
  BY SMTT(30), GeometryAssumption, Addresses
<1>2. /\ MgmtStart <= lv.ba /\ lv.limit <= ni.mapping_blocks_top_ba
      /\ ni.mapping_blocks_top_ba < ni.signature_ba
  BY DEF Ranges, Layout, Laid, Writing, Unlaid
<1>3. lv.ba < ni.signature_ba /\ lv.ba \in Blocks /\ lv.ba \in Mgmt
  BY SMTT(30), <1>1, <1>2, GeometryAssumption DEF Blocks, Mgmt
<1>4. \A s \in SigBlocks : s = ni.signature_ba
  BY DEF Chip, OneSignature, Mappings
<1>5. lv.ba # ni.signature_ba
  BY SMTT(30), <1>1, <1>3
<1>. QED
  BY <1>3, <1>4, <1>5

\* The block that a power failure may tear is not the signature
LEMMA BusyIsNoSignature ==
    ASSUME IInv, Chip, Fresh, pc \notin Unlaid => Session, NEW x \in Busy
    PROVE  x \notin SigBlocks
<1>. TypeOK
  BY DEF IInv
<1>1. CASE CanErase("write") \/ CanErase("erase_range") \/ pc = "program"
  <2>1. pc \in Writing /\ lv.ba < lv.limit /\ x = lv.ba /\ pc \notin Unlaid
    BY <1>1 DEF Busy, CanErase, AtBlock, Writing, IInv, Ranges, Unlaid
  <2>. QED
    BY <2>1, BelowSignature DEF Session
<1>2. CASE CanEraseSig \/ pc = "sig_program"
  BY <1>2 DEF Fresh, CanEraseSig
<1>3. CASE /\ ~(CanErase("write") \/ CanErase("erase_range") \/ pc = "program")
           /\ ~(CanEraseSig \/ pc = "sig_program")
  <2>1. (CanEraseLogic \/ pc = "page_write") /\ x = Home(op.lb)
    BY <1>3 DEF Busy
  <2>2. x # -1 /\ op.lb \in Logical /\ pc \in {"erase", "page_write"}
    BY <2>1 DEF CanEraseLogic, IInv, PageWrite, TypeOK
  <2>3. pc \in Between /\ Session
    BY <2>2, LogicLabels DEF Unlaid
  <2>. QED
    BY <2>1, <2>2, <2>3, HomeApart
<1>. QED
  BY <1>1, <1>2, <1>3

-----------------------------------------------------------------------------
(* The tables that a writing procedure leaves alone                         *)

\* The tables that stay while another is written
LEMMA SafeIs ==
    ASSUME TypeOK, NEW l
    PROVE  /\ l \in {"reb_backup", "rs_front", "rs_back", "us_backup", "upd_backup"}
                => Safe(l) = Tables({ni.main_table_ba})
           /\ l \in {"us_main", "upd_main", "res_tmp"}
                => Safe(l) = Tables({ni.backup_table_ba})
           /\ l = "res_main" => Safe(l) = Tables({lv.tmp})
<1>1. ni.main_table_ba \in Blocks /\ ni.backup_table_ba \in Blocks /\ lv.tmp \in Blocks
  BY Addresses
<1>. QED
  BY <1>1 DEF Safe, Tables

\* What nmbm_write_info_table's callers find when it returns
LEMMA WriteReturned ==
    ASSUME IInv, Session, pc \in AfterWrite
    PROVE  LET m == ni.main_table_ba
               k == ni.backup_table_ba
               mb == ni.mapping_blocks_ba
               top == ni.mapping_blocks_top_ba
           IN  /\ m \in Nat /\ k \in Nat /\ mb \in Nat /\ top \in Nat /\ MgmtStart \in Nat
               /\ lv.start \in Nat /\ lv.ba \in Nat /\ lv.limit \in Nat
               /\ lv.tmp \in Nat /\ lv.write_ba \in Nat
               /\ MgmtStart >= 1 /\ mb <= top
               /\ m # 0 => m < mb /\ MgmtStart <= m
               /\ k # 0 => m # 0 /\ m < k /\ k < mb
               /\ m = 0 <=> pc = "reb_main"
               /\ pc \in {"reb_backup", "rs_front", "rs_back"} => k = 0
               /\ pc \in {"us_main", "us_backup", "upd_backup", "res_tmp", "res_main"}
                    => k # 0
               /\ pc = "res_main" => lv.tmp = mb - 1 /\ k < lv.tmp
               /\ From(pc, lv.ba) /\ UpTo(pc, lv.limit)
               /\ IF lv.ok
                  THEN /\ lv.start = lv.ba /\ lv.ba < lv.limit
                       /\ TablesOnChip = Safe(pc) \cup {lv.start}
                       /\ MgmtStart <= lv.start /\ lv.start < top /\ lv.start # 0
                  ELSE lv.limit <= lv.ba /\ TablesOnChip = Safe(pc)
               /\ pc \in WritesMain => NoneFree(lv.ba)
               /\ pc \in {"res_tmp", "res_main"} => NoneFree(k)
               /\ pc \notin {"reb_main", "rs_front"} => NoneFree(m)
<1>. TypeOK /\ Layout /\ Ranges
  BY DEF IInv
<1>1. Writer = pc /\ InWrite /\ pc \notin Unlaid
  BY DEF Writer, InWrite, AfterWrite, Unlaid
<1>2. Laid(ni)
  BY <1>1 DEF Layout
<1>3. /\ ni.main_table_ba \in Nat /\ ni.backup_table_ba \in Nat
      /\ ni.mapping_blocks_ba \in Nat /\ ni.mapping_blocks_top_ba \in Nat
      /\ MgmtStart \in Nat /\ MgmtStart >= 1 /\ lv.write_ba \in Nat
      /\ lv.start \in Nat /\ lv.ba \in Nat /\ lv.limit \in Nat /\ lv.tmp \in Nat
  BY SMTT(30), GeometryAssumption, Addresses
<1>4. lv.ok => MgmtStart <= lv.start /\ lv.start < ni.mapping_blocks_top_ba
  BY DEF Ranges, TableBlock
<1>5. lv.ok => lv.start # 0
  BY SMTT(30), <1>3, <1>4
<1>6. ni.main_table_ba # 0 => MgmtStart <= ni.main_table_ba
  BY <1>2 DEF Laid
<1>7. /\ IF lv.ok THEN lv.start = lv.ba /\ lv.ba < lv.limit ELSE lv.limit <= lv.ba
      /\ From(pc, lv.ba) /\ UpTo(pc, lv.limit)
  BY <1>1 DEF Session, Extent
<1>8. TablesOnChip = IF lv.ok THEN Safe(pc) \cup {lv.start} ELSE Safe(pc)
  BY DEF Session, Holders
<1>9. /\ pc \in WritesMain => NoneFree(lv.ba)
      /\ pc \in {"res_tmp", "res_main"} => NoneFree(ni.backup_table_ba)
      /\ pc \notin {"reb_main", "rs_front"} => NoneFree(ni.main_table_ba)
  BY <1>1 DEF Session, MainFirst
<1>10. /\ ni.main_table_ba = 0 <=> pc = "reb_main"
       /\ pc \in {"reb_backup", "rs_front", "rs_back"} => ni.backup_table_ba = 0
       /\ pc \in {"us_main", "us_backup", "upd_backup", "res_tmp", "res_main"}
            => ni.backup_table_ba # 0
       /\ pc = "res_main" => /\ lv.tmp = ni.mapping_blocks_ba - 1
                             /\ ni.backup_table_ba < lv.tmp
  BY <1>1 DEF Session, OnRecord
<1>11. /\ ni.main_table_ba # 0 => ni.main_table_ba < ni.mapping_blocks_ba
       /\ ni.backup_table_ba # 0 =>
            /\ ni.main_table_ba # 0
            /\ ni.main_table_ba < ni.backup_table_ba
            /\ ni.backup_table_ba < ni.mapping_blocks_ba
       /\ ni.mapping_blocks_ba <= ni.mapping_blocks_top_ba
  BY DEF Session, Regions
<1>. QED
  BY <1>3, <1>4, <1>5, <1>6, <1>7, <1>8, <1>9, <1>10, <1>11

-----------------------------------------------------------------------------
(* What an attach finds                                                     *)

\* The signature that an attach finds is the one on the chip
LEMMA SignatureFound ==
    ASSUME IInv, Chip
    PROVE  /\ \A s \in Blocks : IsSignature(s) => s \in SigBlocks
           /\ \A s \in SigBlocks : IsSignature(s) /\ MgmtStart < s /\ s < BlockCount
<1>. TypeOK /\ Signature /\ OneSignature
  BY DEF IInv, Chip
<1>1. ASSUME NEW s \in SigBlocks
      PROVE  IsSignature(s) /\ MgmtStart < s /\ s < BlockCount
  <2>1. s \in Blocks \ oob /\ flash[s].kind = "sig" /\ s > MgmtStart
    BY DEF SigBlocks, Signature
  <2>2. ASSUME NEW b \in s + 1 .. BlockCount - 1, b \notin oob, flash[b].kind = "sig"
        PROVE  FALSE
    <3>1. b \in Blocks /\ b # s
      BY SMTT(30), <2>1, <2>2, GeometryAssumption DEF Blocks
    <3>2. b \in SigBlocks
      BY <2>2, <3>1 DEF SigBlocks
    <3>. QED
      BY <3>1, <3>2 DEF OneSignature
  <2>3. s >= MgmtStart - 1 /\ MgmtStart < s /\ s < BlockCount
    BY SMTT(30), <2>1, GeometryAssumption DEF Blocks
  <2>. QED
    BY <2>1, <2>2, <2>3 DEF IsSignature
<1>2. \A s \in Blocks : IsSignature(s) => s \in SigBlocks
  BY DEF IsSignature, SigBlocks
<1>. QED
  BY <1>1, <1>2

\* An attach accepts every table on the chip that it does not take for bad
LEMMA TableIsValid ==
    ASSUME IInv, Chip, NEW s \in SigBlocks, NEW b \in TablesOnChip, NEW st, st[b] = GOOD
    PROVE  b \in Nat /\ MgmtStart <= b /\ b <= s - 2 /\ ValidTable(s, st, b)
<1>. TypeOK /\ OneSignature /\ TablesClear /\ TablesAgree
  BY DEF IInv, Chip
<1>1. b + 2 <= s
  BY DEF OneSignature
<1>2. /\ MgmtStart <= b /\ Clear(Tbl(b).block_mapping, b + 1)
      /\ \A lb \in Logical : Tbl(b).block_mapping[lb] # s
  BY DEF TablesClear
<1>3. b \in Blocks /\ s \in Blocks
  BY DEF TablesOnChip, SigBlocks
<1>4. /\ b \in Nat /\ b <= s - 2
      /\ \A x \in MgmtStart .. b : x \in MgmtStart .. b + 1
  BY SMTT(30), <1>1, <1>3, GeometryAssumption DEF Blocks
<1>5. \A lb \in Logical : Tbl(b).block_mapping[lb] \notin MgmtStart .. b
  BY <1>2, <1>4 DEF Clear
<1>6. Tbl(b).block_state[b] = GOOD
  BY DEF TablesAgree
<1>. QED
  BY <1>2, <1>4, <1>5, <1>6 DEF ValidTable, Tbl

\* nmbm_search_info_table returns a table between the start of the management
\* area and the block below the one before the signature
LEMMA FirstType ==
    ASSUME TypeOK, NEW sg \in Blocks, NEW first \in Blocks \ {0}, IsFirst(sg, first)
    PROVE  first \in TablesOnChip /\ MgmtStart <= first /\ first <= sg - 2
<1>. USE GeometryAssumption
<1>. DEFINE valid == {b \in MgmtStart .. sg - 2 : ValidTable(sg, AllGood, b)}
<1>1. first \in valid
  BY DEF IsFirst, IsLowest
<1>. QED
  BY SMTT(30), <1>1 DEF ValidTable, Blocks

\* The second table nmbm_load_existing finds lies between the first and the
\* signature
LEMMA SecondType ==
    ASSUME TypeOK, NEW sg \in Blocks, NEW first \in Blocks, NEW second \in Blocks \ {0},
           IsSecond(sg, first, second)
    PROVE  second \in TablesOnChip /\ first < second /\ second <= sg - 2
<1>. USE GeometryAssumption
<1>. DEFINE valid == {b \in first + 1 .. sg - 2 :
                        ValidTable(sg, flash[first].tbl.block_state, b)}
<1>1. second \in valid
  BY DEF IsSecond, IsLowest
<1>. QED
  BY SMTT(30), <1>1 DEF ValidTable, Blocks

\* The search for the tables below the signature in s found first and second,
\* which are all there are
Searched(s, first, second) ==
    /\ s \in SigBlocks /\ s \in Blocks /\ first \in Blocks /\ second \in Blocks
    /\ first \in TablesOnChip /\ first # 0 /\ MgmtStart <= first /\ first <= s - 2
    /\ second # 0 => second \in TablesOnChip /\ first < second /\ second <= s - 2
    /\ TablesOnChip = Tables({first, second})

\* The table in block c knows what the others know, and maps nothing to them
Preferred(c) ==
    /\ c \in TablesOnChip
    /\ \A b \in TablesOnChip :
         /\ Tbl(b).write_count \in Nat /\ Tbl(b).write_count <= Tbl(c).write_count
         /\ Tbl(b).write_count = Tbl(c).write_count => Tbl(b) = Tbl(c)
         /\ Fewer(Tbl(b).block_state, Tbl(c).block_state)
         /\ Clear(Tbl(c).block_mapping, b + 1)
         /\ Tbl(c).block_state[b] = GOOD

\* Instance n has the content of the table in block c, and knows of the bad
\* blocks that the search met
LoadedFrom(c, n) ==
    /\ n.block_mapping = Tbl(c).block_mapping
    /\ n.info_table_cache.block_mapping = Tbl(c).block_mapping
    /\ n.info_table_cache.block_state = n.block_state
    /\ n.info_table_cache.write_count = n.write_count
    /\ Fewer(Tbl(c).block_state, n.block_state)
    /\ \A b \in TablesOnChip : n.block_state[b] = GOOD
    /\ Tbl(c).write_count <= n.write_count
    /\ n.write_count = Tbl(c).write_count => n.info_table_cache = Tbl(c)

\* The layout that goes with it
LoadedLayout(s, first, second, c, top, n) ==
    /\ c < s /\ n \in Instance
    /\ n.main_table_ba = first /\ n.backup_table_ba = second
    /\ n.mapping_blocks_top_ba = top
    /\ n.signature_ba = s
    /\ n.mapping_blocks_ba = (IF second = 0 THEN first ELSE second) + 1

\* nmbm_search_info_table finds all tables on the chip
LEMMA TablesFound ==
    ASSUME IInv, Chip, NEW s \in SigBlocks, NEW first \in Blocks \ {0}, NEW second \in Blocks,
           IsFirst(s, first), IsSecond(s, first, second)
    PROVE  Searched(s, first, second)
<1>. TypeOK /\ TablesAgree /\ TwoTables
  BY DEF IInv, Chip
<1>1. s \in Blocks
  BY DEF SigBlocks
<1>2. first \in TablesOnChip /\ MgmtStart <= first /\ first <= s - 2
  BY <1>1, FirstType
<1>3. second # 0 => second \in TablesOnChip /\ first < second /\ second <= s - 2
  BY <1>1, SecondType
<1>4. ASSUME NEW b \in TablesOnChip, b # first
      PROVE  b = second /\ b # 0
  <2>. DEFINE valid == {x \in MgmtStart .. s - 2 : ValidTable(s, AllGood, x)}
              valid2 == {x \in first + 1 .. s - 2 :
                           ValidTable(s, flash[first].tbl.block_state, x)}
  <2>1. AllGood[b] = GOOD /\ flash[first].tbl.block_state[b] = GOOD
    BY <1>2 DEF AllGood, TablesOnChip, TablesAgree, Tbl
  <2>2. /\ b \in Nat /\ MgmtStart <= b /\ b <= s - 2
        /\ ValidTable(s, AllGood, b) /\ ValidTable(s, flash[first].tbl.block_state, b)
    BY <2>1, TableIsValid
  <2>3. /\ b \in MgmtStart .. s - 2 /\ b # 0
        /\ \A x \in first + 1 .. s - 2 : x # 0 /\ x # first
        /\ first <= b => b \in first + 1 .. s - 2
    BY SMTT(30), <1>1, <1>4, <2>2, GeometryAssumption DEF Blocks
  <2>4. b \in valid
    BY <2>2, <2>3
  <2>6. first <= b
    BY <2>4 DEF IsFirst, IsLowest
  <2>7. b \in valid2
    BY <2>2, <2>3, <2>6
  <2>8. second \in valid2
    BY <2>7 DEF IsSecond, IsLowest
  <2>9. second # 0 /\ second # first
    BY <2>3, <2>8
  <2>. QED
    BY <1>2, <1>3, <1>4, <2>3, <2>9 DEF TwoTables
<1>5. TablesOnChip = Tables({first, second})
  BY <1>2, <1>3, <1>4 DEF Tables
<1>. QED
  BY <1>1, <1>2, <1>3, <1>5 DEF Searched

\* The table that an attach prefers knows what the other one knows
LEMMA ChosenKnows ==
    ASSUME IInv, Chip, NEW s, NEW first, NEW second, Searched(s, first, second)
    PROVE  /\ Preferred(Chosen(first, second))
           /\ second # 0 =>
                \/ Unavailable(Tbl(Chosen(first, second)).block_state, oob, first)
                \/ Unavailable(Tbl(Chosen(first, second)).block_state, oob, second)
<1>. DEFINE c == Chosen(first, second)
<1>. TypeOK /\ TablesAgree /\ NoneBelow
  BY DEF IInv, Chip
<1>1. c = IF second # 0 /\ Tbl(second).write_count > Tbl(first).write_count
          THEN second ELSE first
  BY DEF Chosen, Tbl
<1>. /\ first \in TablesOnChip /\ (second # 0 => second \in TablesOnChip)
     /\ TablesOnChip = Tables({first, second})
  BY DEF Searched
<1>. HIDE DEF c
<1>2. c \in TablesOnChip
  BY <1>1
<1>3. \A b \in TablesOnChip : Tbl(b).write_count \in Nat
  BY TableType DEF InfoTable, Tbl
<1>4. \A b \in TablesOnChip : b = first \/ (b = second /\ second # 0)
  BY DEF Tables
<1>5. \A b \in TablesOnChip : Tbl(b).write_count <= Tbl(c).write_count
  BY SMTT(30), <1>1, <1>2, <1>3, <1>4
<1>6. \A b \in TablesOnChip :
        /\ Tbl(b).write_count = Tbl(c).write_count => Tbl(b) = Tbl(c)
        /\ Fewer(Tbl(b).block_state, Tbl(c).block_state)
        /\ Clear(Tbl(c).block_mapping, b + 1)
        /\ Tbl(c).block_state[b] = GOOD
  BY <1>2, <1>5 DEF TablesAgree
<1>7. ASSUME second # 0
      PROVE  \/ Unavailable(Tbl(c).block_state, oob, first)
             \/ Unavailable(Tbl(c).block_state, oob, second)
  <2>0. second # first
    BY SMTT(30), <1>7, GeometryAssumption DEF Searched, Blocks
  <2>1. PICK d \in TablesOnChip : d # c /\ {c, d} = {first, second}
    BY <1>1, <1>7, <2>0
  <2>2. Tbl(d).write_count <= Tbl(c).write_count
    BY <1>5, <2>1
  <2>3. \/ Unavailable(Tbl(c).block_state, oob, c)
        \/ Unavailable(Tbl(c).block_state, oob, d)
    BY <1>2, <2>1, <2>2 DEF NoneBelow
  <2>4. (c = first \/ c = second) /\ (d = first \/ d = second)
    BY <2>1
  <2>. QED
    BY <2>3, <2>4
<1>. QED
  BY <1>2, <1>3, <1>5, <1>6, <1>7 DEF Preferred, c

\* What nmbm_load_info_table leaves in the instance structure
LEMMA LoadedFields ==
    ASSUME IInv, Chip, NEW s, NEW first, NEW second, NEW ecc \in SUBSET Torn,
           NEW top \in Blocks, NEW count \in 0 .. MgmtStart,
           Searched(s, first, second),
           NEW n, n = LoadedInstance(s, first, second, ecc, top, count)
    PROVE  /\ LoadedFrom(Chosen(first, second), n)
           /\ LoadedLayout(s, first, second, Chosen(first, second), top, n)
<1>. TypeOK
  BY DEF IInv
<1>0. /\ s \in SigBlocks /\ s \in Blocks /\ first \in Blocks /\ second \in Blocks
      /\ first \in TablesOnChip /\ MgmtStart <= first /\ first <= s - 2
      /\ second # 0 => second \in TablesOnChip /\ first < second /\ second <= s - 2
  BY DEF Searched
<1>. PICK c : c = Chosen(first, second)
  OBVIOUS
<1>. DEFINE st1 == flash[first].tbl.block_state
            last == IF second = 0 THEN s - 2 ELSE second - 1
            marks1 == Found(AllGood, MgmtStart, first - 1, ecc)
            marks2 == Found(st1, first + 1, last, ecc)
            t == Tbl(c)
            st == IF c = first THEN Marked(st1, marks2) ELSE t.block_state
            changed == marks1 # {} \/ marks2 # {}
            mb == (IF second = 0 THEN first ELSE second) + 1
            m == [InitStructure EXCEPT
                    !.block_state = st, !.block_mapping = t.block_mapping,
                    !.changed = changed, !.write_count = t.write_count,
                    !.data_block_count = count,
                    !.main_table_ba = first, !.backup_table_ba = second,
                    !.mapping_blocks_ba = mb, !.mapping_blocks_top_ba = top,
                    !.signature_ba = s]
<1>1. n = Generate(m)
  BY DEF LoadedInstance, Tbl
<1>2. /\ c \in TablesOnChip
      /\ \A b \in TablesOnChip : t.block_state[b] = GOOD
  BY ChosenKnows DEF Preferred
<1>3. c \in Blocks /\ t \in InfoTable /\ flash[first].tbl \in InfoTable
  BY <1>0, <1>2, TableType DEF Tbl
<1>4. /\ t.block_mapping \in MappingTable /\ t.write_count \in Nat
      /\ t.block_state \in StateTable /\ st1 \in StateTable
  BY <1>3 DEF InfoTable
<1>5. st \in StateTable
  BY <1>4, MarkedType
<1>6. s \in Blocks /\ c < s /\ mb \in 0 .. BlockCount
  <2>1. c = first \/ (second # 0 /\ c = second)
    BY DEF Chosen
  <2>. QED
    BY SMTT(30), <1>0, <2>1, GeometryAssumption DEF Blocks
<1>7. changed \in BOOLEAN
  OBVIOUS
<1>9. Fewer(t.block_state, st) /\ (marks2 = {} => st = t.block_state)
  <2>1. CASE c = first
    <3>1. st1 = t.block_state /\ st = Marked(st1, marks2)
      BY <2>1 DEF Tbl
    <3>2. \A b \in Blocks : st[b] = IF b \in marks2 THEN BAD ELSE st1[b]
      BY <3>1 DEF Marked
    <3>3. \A b \in Mgmt : b \in Blocks
      BY SMTT(30), GeometryAssumption DEF Mgmt, Blocks
    <3>4. Fewer(t.block_state, st)
      BY <3>1, <3>2, <3>3 DEF Fewer, GOOD, BAD
    <3>5. marks2 = {} => st = st1
      BY SMTT(30), <1>4, <3>1 DEF Marked, StateTable
    <3>. QED
      BY <3>1, <3>4, <3>5
  <2>2. CASE c # first
    BY <2>2 DEF Fewer
  <2>. QED
    BY <2>1, <2>2
<1>10. \A b \in TablesOnChip : st[b] = GOOD
  <2>1. ASSUME NEW b \in TablesOnChip
        PROVE  b \notin marks2
    <3>1. b \in Blocks /\ b \notin oob /\ flash[b].kind = "table"
      BY DEF TablesOnChip
    <3>2. b \notin ecc
      <4>1. b \in ecc => flash[b] = Junk
        BY DEF Torn
      <4>2. Junk.kind = "junk"
        BY DEF Junk
      <4>. QED
        BY <3>1, <4>1, <4>2
    <3>. QED
      BY <3>1, <3>2 DEF Found
  <2>. QED
    BY <1>2, <2>1 DEF Marked, Tbl, TablesOnChip
<1>. HIDE DEF st1, last, marks1, marks2, t, st, changed, mb
<1>11. m \in Instance
  BY <1>0, <1>4, <1>5, <1>6, <1>7, InitType DEF Instance
<1>12. /\ m.block_state = st /\ m.block_mapping = t.block_mapping /\ m.changed = changed
       /\ m.write_count = t.write_count /\ m.mapping_blocks_ba = mb /\ m.signature_ba = s
       /\ m.main_table_ba = first /\ m.backup_table_ba = second
       /\ m.mapping_blocks_top_ba = top
  BY InitType DEF Instance
<1>. HIDE DEF m
<1>13. /\ n.block_mapping = t.block_mapping /\ n.block_state = st
       /\ n.info_table_cache.block_mapping = t.block_mapping
       /\ n.info_table_cache.block_state = st
       /\ n.info_table_cache.write_count = n.write_count
       /\ n.write_count = IF changed THEN t.write_count + 1 ELSE t.write_count
  BY <1>1, <1>11, <1>12, GenerateFields
<1>14. /\ n \in Instance /\ n.mapping_blocks_ba = mb /\ n.signature_ba = s
       /\ n.main_table_ba = first /\ n.backup_table_ba = second
       /\ n.mapping_blocks_top_ba = top
  BY <1>1, <1>11, <1>12, GenerateType
<1>15. /\ t.write_count <= n.write_count
       /\ n.write_count = t.write_count => ~changed
  BY SMTT(30), <1>4, <1>13
<1>16. ASSUME n.write_count = t.write_count
       PROVE  n.info_table_cache = t
  <2>1. st = t.block_state
    BY <1>9, <1>15, <1>16 DEF changed
  <2>2. n.info_table_cache \in InfoTable
    BY <1>14 DEF Instance
  <2>. QED
    BY SMTT(30), <1>3, <1>13, <1>16, <2>1, <2>2 DEF InfoTable
<1>17. LoadedFrom(c, n)
  BY <1>9, <1>10, <1>13, <1>15, <1>16 DEF LoadedFrom, t
<1>18. LoadedLayout(s, first, second, c, top, n)
  BY <1>6, <1>14 DEF LoadedLayout, mb
<1>. QED
  BY <1>17, <1>18

-----------------------------------------------------------------------------
(* IInv is inductive                                                        *)

\* What an erase, a failed write and a signature leave in a block
LEMMA ContentTypes == Erased \in Content /\ Junk \in Content /\ Sig \in Content
  BY DEF Content

\* The labels between two table procedures
UserLevel == {"idle", "loaded", "create_map", "create_top", "created", "erase",
              "remap", "remap_top", "page_write", "detach", "update"}

\* The invariant holds before the first attach
LEMMA InitInv == Init => IInv
<1>. SUFFICES ASSUME Init PROVE IInv
  OBVIOUS
<1>. USE GeometryAssumption, BoundAssumption
<1>1. flash \in [Blocks -> Content] /\ \A b \in Blocks : flash[b].kind # "sig"
  BY ContentTypes DEF Init, Erased
<1>5. ni \in Instance /\ lv \in Locals
  BY InitType DEF Init
<1>6. op \in [lb : Logical, val : Vals \cup {"none"}, pb : Blocks]
  BY InitType DEF Init
<1>7. pc \in Labels
  BY DEF Init, Labels, UserLabels
<1>8. expect \in [Logical -> Vals \cup {"erased", "unknown"}]
  BY DEF Init
<1>9. skipped \in BOOLEAN /\ lost \in BOOLEAN
  BY DEF Init
<1>10. oob \in SUBSET Blocks
  BY DEF Init
<1>11. ops \in 0 .. MaxOps /\ crashes \in 0 .. MaxCrashes
  BY SMTT(30) DEF Init
<1>2. TypeOK
  BY <1>1, <1>5, <1>6, <1>7, <1>8, <1>9, <1>10, <1>11 DEF TypeOK
<1>3. Layout /\ ReturnLabels /\ Ranges /\ PageWrite
  BY InitType
     DEF Init, Layout, Unlaid, ReturnLabels, Ranges, Writing, AfterWrite, PageWrite
<1>4. Signature
  BY <1>1 DEF Init, Signature
<1>. QED
  BY <1>2, <1>3, <1>4 DEF IInv

\* Every step keeps IInv: first what each procedure of the driver does, then
\* the disjuncts of Next
LEMMA NextInv == IInv /\ [Next]_vars => IInv'
  \* The cardinality of the empty set
<1>CardEmpty. Cardinality({}) = 0
  <2>. DEFINE G(f) == [T \in SUBSET {} |-> IF T = {} THEN 0
                                          ELSE 1 + f[T \ {CHOOSE x : x \in T}]]
              z == [T \in SUBSET {} |-> 0]
  <2>1. z = G(z)
    OBVIOUS
  <2>2. Cardinality({}) = (CHOOSE f : f = G(f))[{}]
    BY DEF Cardinality
  <2>. HIDE DEF z
  <2>3. PICK c : c = CHOOSE f : f = G(f)
    OBVIOUS
  <2>4. c = G(c)
    BY <2>1, <2>3
  <2>5. c[{}] = 0
    BY <2>4
  <2>. QED
    BY <2>2, <2>3, <2>5

  \* nmbm_set_block_state keeps the instance well formed and moves no address
<1>SetStateType.
    ASSUME NEW n \in Instance, NEW b \in Blocks, NEW st \in BlockState
    PROVE  /\ SetState(n, b, st) \in Instance
           /\ SetState(n, b, st).main_table_ba = n.main_table_ba
           /\ SetState(n, b, st).backup_table_ba = n.backup_table_ba
           /\ SetState(n, b, st).mapping_blocks_ba = n.mapping_blocks_ba
           /\ SetState(n, b, st).mapping_blocks_top_ba = n.mapping_blocks_top_ba
           /\ SetState(n, b, st).signature_ba = n.signature_ba
  <2>1. [n.block_state EXCEPT ![b] = st] \in StateTable
    BY DEF Instance, StateTable
  <2>2. (n.changed \/ n.block_state[b] # st) \in BOOLEAN
    OBVIOUS
  <2>. QED
    BY <2>1, <2>2 DEF SetState, Instance

  \* A step of the table code: what it has to keep for the invariant to hold
<1>TablesKept.
    ASSUME IInv, UNCHANGED <<flash, oob, skipped, userVars>>,
           ni' \in Instance, lv' \in Locals,
           pc' \in Labels \ {"sig_write", "sig_program", "create", "page_write"},
           Layout', ReturnLabels', Ranges'
    PROVE  IInv'
  <2>. USE <1>TablesKept
  <2>1. TypeOK'
    BY DEF IInv, TypeOK, userVars
  <2>2. Signature'
    BY DEF IInv, Signature
  <2>. QED
    BY <2>1, <2>2 DEF IInv, PageWrite

  \* Calling nmbm_write_info_table, or the erase of a range
<1>CallWriteType.
    ASSUME NEW l \in Locals, NEW ba \in Blocks, NEW limit \in Blocks,
           NEW ret \in Labels, NEW b \in Blocks, NEW label \in Labels
    PROVE  /\ CallWrite(l, ba, limit, ret) \in Locals
           /\ [CallWrite(l, ba, limit, ret) EXCEPT !.write_ba = b] \in Locals
           /\ [CallWrite(l, ba, limit, ret) EXCEPT !.tmp = b] \in Locals
           /\ [CallWrite(l, ba, limit, ret) EXCEPT !.bret = label] \in Locals
  <2>1. ba \in 0 .. BlockCount
    BY SMTT(30), GeometryAssumption DEF Blocks
  <2>. QED
    BY <2>1 DEF Locals, CallWrite

  \* A table procedure enters nmbm_write_info_table
<1>EntersWrite.
    ASSUME IInv, UNCHANGED <<flash, oob, skipped, userVars>>,
           ni' \in Instance, Laid(ni'), pc' = "write", lv' \in Locals,
           MgmtStart <= lv'.ba, lv'.limit <= ni'.mapping_blocks_top_ba,
           lv'.ret \in AfterWrite, lv'.bret \in AfterRebuild, lv'.uret = lv.uret,
           lv'.ret = "res_main" => TableBlock(lv.tmp)',
           lv'.ret = "us_main" => /\ MgmtStart <= ni'.backup_table_ba
                                  /\ ni'.backup_table_ba <= ni'.mapping_blocks_top_ba,
           lv'.ret = "rs_front" => /\ MgmtStart <= ni'.main_table_ba
                                   /\ ni'.main_table_ba <= ni'.mapping_blocks_top_ba,
           lv'.ret = "reb_backup" => MgmtStart <= ni'.main_table_ba,
           lv'.ret \in {"us_backup", "upd_backup"} => MgmtStart <= ni'.backup_table_ba
    PROVE  IInv'
  <2>. USE <1>EntersWrite
  <2>1. ReturnLabels'
    BY DEF IInv, ReturnLabels
  <2>2. Ranges'
    BY DEF Ranges, AfterWrite, Writing
  <2>3. Layout'
    BY DEF Layout, Laid
  <2>4. pc' \in Labels \ {"sig_write", "sig_program", "create", "page_write"}
    BY DEF Labels, TableLabels
  <2>. QED
    BY <2>1, <2>2, <2>3, <2>4, <1>TablesKept

  \* A table procedure enters nmbm_erase_range
<1>EntersErase.
    ASSUME IInv, UNCHANGED <<flash, oob, skipped, userVars>>,
           ni' \in Instance, Laid(ni'), pc' = "erase_range", lv' \in Locals,
           MgmtStart <= lv'.ba, lv'.limit <= ni'.mapping_blocks_top_ba,
           lv'.ret \in AfterErase, lv'.bret = lv.bret, lv'.uret = lv.uret,
           TableBlock(lv.start)'
    PROVE  IInv'
  <2>. USE <1>EntersErase
  <2>1. ReturnLabels'
    BY DEF IInv, ReturnLabels
  <2>2. Ranges'
    BY DEF Ranges, AfterWrite, Writing
  <2>3. Layout'
    BY DEF Layout, Laid
  <2>4. pc' \in Labels \ {"sig_write", "sig_program", "create", "page_write"}
    BY DEF Labels, TableLabels
  <2>. QED
    BY <2>1, <2>2, <2>3, <2>4, <1>TablesKept

  \* A table procedure returns to a caller that relies on the layout only
<1>Returns.
    ASSUME IInv, UNCHANGED <<flash, oob, skipped, userVars>>,
           ni' \in Instance, Laid(ni'), lv' \in Locals,
           pc' \in AfterRebuild \cup AfterUpdate \cup {"loaded", "update"},
           lv'.bret = lv.bret, lv'.uret = lv.uret
    PROVE  IInv'
  <2>. USE <1>Returns
  <2>1. ReturnLabels'
    BY DEF IInv, ReturnLabels, AfterRebuild, AfterUpdate
  <2>2. Ranges'
    BY DEF Ranges, AfterWrite, Writing, AfterRebuild, AfterUpdate
  <2>3. Layout'
    BY DEF Layout, Laid
  <2>4. pc' \in Labels \ {"sig_write", "sig_program", "create", "page_write"}
    BY DEF Labels, TableLabels, UserLabels, AfterRebuild, AfterUpdate
  <2>. QED
    BY <2>1, <2>2, <2>3, <2>4, <1>TablesKept

  \* The retry of a rescue one block lower
<1>RetryLowerInv.
    ASSUME IInv, UNCHANGED <<flash, oob, skipped, userVars>>, Laid(ni),
           NEW ret \in {"rs_back", "res_tmp"}, RetryLower(ret)
    PROVE  IInv'
  <2>. USE <1>RetryLowerInv
  <2>. USE GeometryAssumption, Addresses
  <2>. TypeOK /\ ReturnLabels
    BY DEF IInv
  <2>1. lv.write_ba - 1 \in Blocks /\ MgmtStart <= lv.write_ba - 1
    BY SMTT(30) DEF RetryLower, Laid, Blocks
  <2>2. /\ lv' = [CallWrite(lv, lv.write_ba - 1, ni.mapping_blocks_top_ba, ret)
                    EXCEPT !.write_ba = lv.write_ba - 1]
        /\ pc' = "write" /\ ni' = ni
    BY DEF RetryLower
  <2>3. ret \in AfterWrite /\ ret \in Labels
    BY ReturnLabelsAreLabels DEF AfterWrite
  <2>4. lv' \in Locals
    BY <2>1, <2>2, <2>3, <1>CallWriteType
  <2>5. /\ lv'.ba = lv.write_ba - 1 /\ lv'.limit = ni.mapping_blocks_top_ba
        /\ lv'.ret = ret /\ lv'.bret = lv.bret /\ lv'.uret = lv.uret
    BY <2>2 DEF CallWrite, Locals
  <2>. QED
    BY SMTT(30), <2>1, <2>2, <2>3, <2>4, <2>5, <1>EntersWrite DEF ReturnLabels, Laid

  \* The contents of the chip stay well formed when one block changes
<1>FlashType.
    ASSUME flash \in [Blocks -> Content], NEW b \in Blocks, NEW c \in Content
    PROVE  [flash EXCEPT ![b] = c] \in [Blocks -> Content]
    BY <1>FlashType

  \* A step that changes one block, but writes no signature, and otherwise keeps
  \* what the invariant requires
<1>ChipKept.
    ASSUME IInv, UNCHANGED <<skipped, userVars>>,
           NEW b \in Blocks, NEW c \in Content, c.kind # "sig",
           flash' = [flash EXCEPT ![b] = c], oob' \in SUBSET Blocks,
           ni' \in Instance, lv' \in Locals,
           pc' \in Labels \ {"sig_write", "sig_program", "create", "page_write"},
           Layout', ReturnLabels', Ranges'
    PROVE  IInv'
  <2>. USE <1>ChipKept
  <2>1. flash' \in [Blocks -> Content]
    BY <1>FlashType DEF IInv, TypeOK
  <2>2. TypeOK'
    BY <2>1 DEF IInv, TypeOK, userVars
  <2>3. Signature'
    BY DEF IInv, Signature, TypeOK
  <2>. QED
    BY <2>2, <2>3 DEF IInv, PageWrite

  \* nmbm_rebuild_info_table keeps the invariant
<1>RebuildInv.
    ASSUME IInv, UNCHANGED userVars,
           \/ RebuildMainWritten \/ RebuildMainFailed
           \/ RebuildBackupWritten \/ RebuildBackupFailed
    PROVE  IInv'
  <2>. USE <1>RebuildInv
  <2>. USE GeometryAssumption, Addresses, ReturnLabelsAreLabels
  <2>. TypeOK /\ Layout /\ ReturnLabels /\ Ranges
    BY DEF IInv
  <2>1. CASE RebuildMainWritten
    <3>. DEFINE n == [ni EXCEPT !.main_table_ba = lv.start,
                                !.mapping_blocks_ba = lv.start + 1,
                                !.changed = FALSE]
    <3>1. TableBlock(lv.start) /\ Laid(ni) /\ lv.bret \in AfterRebuild
      BY <2>1 DEF RebuildMainWritten, Ranges, AfterWrite, Layout, Unlaid,
                  ReturnLabels
    <3>2. n \in Instance
      BY DEF Instance
    <3>3. /\ n.mapping_blocks_top_ba = ni.mapping_blocks_top_ba
          /\ n.main_table_ba = lv.start
      BY DEF Instance
    <3>4. Laid(n)
      BY SMTT(30), <3>1 DEF Laid, TableBlock, Instance
    <3>5. UNCHANGED <<flash, oob, skipped, userVars>>
      BY <2>1 DEF RebuildMainWritten
    <3>6. \/ \E b \in Blocks :
               /\ Reserve(n, lv.start + 1, n.mapping_blocks_top_ba - 1, b)
               /\ WriteNext(n, b, n.mapping_blocks_top_ba, "reb_backup")
          \/ ni' = n /\ ReturnTo(lv.bret, TRUE)
      BY <2>1 DEF RebuildMainWritten
    <3>. HIDE DEF n
    <3>7. ASSUME NEW b \in Blocks,
                 Reserve(n, lv.start + 1, n.mapping_blocks_top_ba - 1, b),
                 WriteNext(n, b, n.mapping_blocks_top_ba, "reb_backup")
          PROVE  IInv'
      <4>1. MgmtStart <= b
        BY SMTT(30), <3>1, <3>3, <3>7, ReserveInRange DEF TableBlock
      <4>2. /\ lv' = CallWrite(lv, b, ni.mapping_blocks_top_ba, "reb_backup")
            /\ ni' = n /\ pc' = "write"
        BY <3>3, <3>7 DEF WriteNext
      <4>3. lv' \in Locals
        BY <4>2, <1>CallWriteType DEF AfterWrite
      <4>4. /\ lv'.ba = b /\ lv'.limit = ni.mapping_blocks_top_ba
            /\ lv'.ret = "reb_backup" /\ lv'.bret = lv.bret /\ lv'.uret = lv.uret
        BY <4>2 DEF CallWrite, Locals
      <4>. QED
        BY SMTT(30), <3>1, <3>2, <3>3, <3>4, <3>5, <4>1, <4>2, <4>3, <4>4, <1>EntersWrite
           DEF AfterWrite, TableBlock
    <3>8. ASSUME ni' = n, ReturnTo(lv.bret, TRUE)
          PROVE  IInv'
      <4>1. lv' \in Locals /\ lv'.bret = lv.bret /\ lv'.uret = lv.uret
        BY <3>8 DEF ReturnTo, Locals
      <4>. QED
        BY <3>1, <3>2, <3>4, <3>5, <3>8, <4>1, <1>Returns DEF ReturnTo
    <3>. QED
      BY <3>6, <3>7, <3>8
  <2>2. CASE RebuildMainFailed
    <3>1. ni' \in Instance /\ lv' \in Locals
      BY <2>2 DEF RebuildMainFailed, ReturnTo, Instance, Locals
    <3>2. Laid(ni')
      BY <2>2 DEF RebuildMainFailed, Layout, Laid, Instance, Unlaid
    <3>3. /\ pc' \in AfterRebuild
          /\ lv'.bret = lv.bret /\ lv'.uret = lv.uret
      BY <2>2 DEF RebuildMainFailed, ReturnTo, ReturnLabels, Locals
    <3>. QED
      BY <2>2, <3>1, <3>2, <3>3, <1>Returns DEF RebuildMainFailed
  <2>3. CASE RebuildBackupWritten
    <3>1. TableBlock(lv.start) /\ Laid(ni) /\ lv.bret \in AfterRebuild
      BY <2>3 DEF RebuildBackupWritten, Ranges, AfterWrite, Layout, Unlaid,
                  ReturnLabels
    <3>2. MgmtStart <= ni.main_table_ba + 1 /\ ni.main_table_ba + 1 \in Blocks
      BY SMTT(30), <2>3, <3>1 DEF RebuildBackupWritten, Ranges, Laid, Blocks
    <3>3. ni' \in Instance
      BY <2>3 DEF RebuildBackupWritten, EraseRange, Instance
    <3>8. Laid(ni')
      BY SMTT(30), <2>3, <3>1 DEF RebuildBackupWritten, EraseRange, Instance, Laid, TableBlock
    <3>4. lv' = CallWrite(lv, ni.main_table_ba + 1, lv.start, lv.bret)
      BY <2>3 DEF RebuildBackupWritten, EraseRange
    <3>5. lv' \in Locals
      BY <3>1, <3>2, <3>4, <1>CallWriteType
    <3>6. /\ lv'.ba = ni.main_table_ba + 1 /\ lv'.limit = lv.start
          /\ lv'.start = lv.start
          /\ lv'.ret = lv.bret /\ lv'.bret = lv.bret /\ lv'.uret = lv.uret
      BY <3>4 DEF CallWrite, Locals
    <3>7. /\ ni'.mapping_blocks_top_ba = ni.mapping_blocks_top_ba
          /\ pc' = "erase_range"
          /\ UNCHANGED <<flash, oob, skipped, userVars>>
      BY <2>3 DEF RebuildBackupWritten, EraseRange, Instance
    <3>. QED
      BY SMTT(30), <3>1, <3>2, <3>3, <3>5, <3>6, <3>7, <3>8, <1>EntersErase
         DEF TableBlock, AfterErase
  <2>4. CASE RebuildBackupFailed
    <3>1. lv' \in Locals /\ lv'.bret = lv.bret /\ lv'.uret = lv.uret
      BY <2>4 DEF RebuildBackupFailed, ReturnTo, Locals
    <3>2. Laid(ni) /\ pc' \in AfterRebuild
      BY <2>4 DEF RebuildBackupFailed, ReturnTo, ReturnLabels, Layout, Unlaid
    <3>. QED
      BY <2>4, <3>1, <3>2, <1>Returns DEF RebuildBackupFailed, Laid
  <2>. QED
    BY <2>1, <2>2, <2>3, <2>4

  \* nmbm_rescue_single_info_table and nmbm_update_single_info_table keep the
  \* invariant
<1>SingleInv.
    ASSUME IInv, UNCHANGED userVars,
           \/ RescueSingleFront \/ RescueSingleBehind \/ RescueSingleRetry
           \/ RescueSingleWritten \/ RescueSingleErased
           \/ UpdateSingleMain \/ UpdateSingleBackup
    PROVE  IInv'
  <2>. USE <1>SingleInv
  <2>. USE GeometryAssumption, Addresses, ReturnLabelsAreLabels
  <2>. TypeOK /\ Layout /\ ReturnLabels /\ Ranges
    BY DEF IInv
  <2>1. CASE RescueSingleFront
    <3>1. TableBlock(lv.start) /\ Laid(ni)
      BY <2>1 DEF RescueSingleFront, Ranges, AfterWrite, Layout, Unlaid
    <3>2. /\ MgmtStart <= lv.start + 1 /\ lv.start + 1 \in Blocks
          /\ ni.main_table_ba <= ni.mapping_blocks_top_ba
      BY SMTT(30), <2>1, <3>1 DEF RescueSingleFront, Ranges, TableBlock, Blocks
    <3>3. ni' \in Instance
      BY <2>1 DEF RescueSingleFront, EraseRange, Instance
    <3>4. Laid(ni')
      BY SMTT(30), <2>1, <3>1 DEF RescueSingleFront, EraseRange, Instance, Laid, TableBlock
    <3>5. lv' = CallWrite(lv, lv.start + 1, ni.main_table_ba, "loaded")
      BY <2>1 DEF RescueSingleFront, EraseRange
    <3>6. lv' \in Locals
      BY <3>2, <3>5, <1>CallWriteType DEF AfterErase
    <3>7. /\ lv'.ba = lv.start + 1 /\ lv'.limit = ni.main_table_ba
          /\ lv'.start = lv.start
          /\ lv'.ret = "loaded" /\ lv'.bret = lv.bret /\ lv'.uret = lv.uret
      BY <3>5 DEF CallWrite, Locals
    <3>8. /\ ni'.mapping_blocks_top_ba = ni.mapping_blocks_top_ba
          /\ pc' = "erase_range"
          /\ UNCHANGED <<flash, oob, skipped, userVars>>
      BY <2>1 DEF RescueSingleFront, EraseRange, Instance
    <3>. QED
      BY <3>1, <3>2, <3>3, <3>4, <3>6, <3>7, <3>8, <1>EntersErase
         DEF TableBlock, AfterErase
  <2>2. CASE RescueSingleBehind
    <3>1. Laid(ni) /\ ni.mapping_blocks_ba \in Int
      BY SMTT(30), <2>2 DEF RescueSingleBehind, Layout, Unlaid
    <3>2. UNCHANGED <<flash, oob, ni, skipped, userVars>>
      BY <2>2 DEF RescueSingleBehind
    <3>3. ASSUME NEW b \in Blocks,
                 Reserve(ni, ni.mapping_blocks_ba, ni.mapping_blocks_top_ba - 1, b),
                 lv' = [CallWrite(lv, b, ni.mapping_blocks_top_ba, "rs_back")
                          EXCEPT !.write_ba = b],
                 pc' = "write"
          PROVE  IInv'
      <4>1. MgmtStart <= b
        BY SMTT(30), <3>1, <3>3, ReserveInRange DEF Laid
      <4>2. lv' \in Locals
        BY <3>3, <1>CallWriteType DEF AfterWrite
      <4>3. /\ lv'.ba = b /\ lv'.limit = ni.mapping_blocks_top_ba
            /\ lv'.ret = "rs_back" /\ lv'.bret = lv.bret /\ lv'.uret = lv.uret
        BY <3>3 DEF CallWrite, Locals
      <4>. QED
        BY SMTT(30), <3>1, <3>2, <3>3, <4>1, <4>2, <4>3, <1>EntersWrite
           DEF AfterWrite, ReturnLabels, Laid
    <3>4. ASSUME ReturnTo("loaded", FALSE)
          PROVE  IInv'
      <4>1. lv' \in Locals /\ lv'.bret = lv.bret /\ lv'.uret = lv.uret
        BY <3>4 DEF ReturnTo, Locals
      <4>. QED
        BY <3>1, <3>2, <3>4, <4>1, <1>Returns DEF ReturnTo, Laid
    <3>. QED
      BY <2>2, <3>3, <3>4 DEF RescueSingleBehind
  <2>3. CASE RescueSingleRetry
    <3>1. Laid(ni) /\ UNCHANGED <<flash, oob, ni, skipped, userVars>>
      BY <2>3 DEF RescueSingleRetry, RetryLower, Layout, Unlaid
    <3>2. CASE RetryLower("rs_back")
      BY <3>1, <3>2, <1>RetryLowerInv DEF AfterWrite
    <3>3. CASE ReturnTo("loaded", FALSE)
      <4>1. lv' \in Locals /\ lv'.bret = lv.bret /\ lv'.uret = lv.uret
        BY <3>3 DEF ReturnTo, Locals
      <4>. QED
        BY <3>1, <3>3, <4>1, <1>Returns DEF ReturnTo, Laid
    <3>. QED
      BY <2>3, <3>2, <3>3 DEF RescueSingleRetry
  <2>4. CASE RescueSingleWritten
    <3>1. TableBlock(lv.start) /\ Laid(ni)
      BY <2>4 DEF RescueSingleWritten, Ranges, AfterWrite, Layout, Unlaid
    <3>2. ni.mapping_blocks_ba \in Blocks
      BY <2>4, SpareStart DEF RescueSingleWritten, Unlaid
    <3>3. lv' = CallWrite(lv, ni.mapping_blocks_ba, lv.start, "rs_erased")
      BY <2>4 DEF RescueSingleWritten, EraseRange
    <3>4. lv' \in Locals
      BY <3>2, <3>3, <1>CallWriteType DEF AfterErase
    <3>5. /\ lv'.ba = ni.mapping_blocks_ba /\ lv'.limit = lv.start
          /\ lv'.start = lv.start
          /\ lv'.ret = "rs_erased" /\ lv'.bret = lv.bret /\ lv'.uret = lv.uret
      BY <3>3 DEF CallWrite, Locals
    <3>6. /\ ni' = ni /\ pc' = "erase_range"
          /\ UNCHANGED <<flash, oob, skipped, userVars>>
      BY <2>4 DEF RescueSingleWritten, EraseRange
    <3>. QED
      BY SMTT(30), <3>1, <3>2, <3>4, <3>5, <3>6, <1>EntersErase DEF TableBlock, AfterErase, Laid
  <2>5. CASE RescueSingleErased
    <3>1. TableBlock(lv.start) /\ Laid(ni)
      BY <2>5 DEF RescueSingleErased, Ranges, Layout, Unlaid
    <3>2. ni' \in Instance
      BY <2>5 DEF RescueSingleErased, Instance
    <3>3. Laid(ni')
      BY SMTT(30), <2>5, <3>1 DEF RescueSingleErased, Laid, TableBlock, Instance
    <3>4. lv' \in Locals /\ lv'.bret = lv.bret /\ lv'.uret = lv.uret
      BY <2>5 DEF RescueSingleErased, ReturnTo, Locals
    <3>. QED
      BY <2>5, <3>2, <3>3, <3>4, <1>Returns DEF RescueSingleErased, ReturnTo
  <2>6. CASE UpdateSingleMain
    <3>1. /\ Laid(ni) /\ MgmtStart <= ni.backup_table_ba
          /\ ni.backup_table_ba <= ni.mapping_blocks_top_ba
      BY <2>6 DEF UpdateSingleMain, Ranges, Layout, Unlaid
    <3>2. UNCHANGED <<flash, oob, skipped, userVars>>
      BY <2>6 DEF UpdateSingleMain
    <3>3. ASSUME lv.ok, ReturnTo("loaded", TRUE),
                 ni' = [ni EXCEPT !.main_table_ba = lv.start, !.changed = FALSE]
          PROVE  IInv'
      <4>1. TableBlock(lv.start)
        BY <2>6, <3>3 DEF UpdateSingleMain, Ranges, AfterWrite
      <4>2. ni' \in Instance
        BY <3>3 DEF Instance
      <4>3. Laid(ni')
        BY SMTT(30), <3>1, <3>3, <4>1 DEF Laid, TableBlock, Instance
      <4>4. lv' \in Locals /\ lv'.bret = lv.bret /\ lv'.uret = lv.uret
        BY <3>3 DEF ReturnTo, Locals
      <4>. QED
        BY <3>2, <3>3, <4>2, <4>3, <4>4, <1>Returns DEF ReturnTo
    <3>4. ASSUME WriteNext([ni EXCEPT !.main_table_ba = ni.backup_table_ba,
                                      !.backup_table_ba = 0],
                           MgmtStart, ni.backup_table_ba, "rs_front")
          PROVE  IInv'
      <4>1. ni' \in Instance
        BY <3>4 DEF WriteNext, Instance
      <4>2. /\ Laid(ni') /\ ni'.main_table_ba = ni.backup_table_ba
            /\ ni'.mapping_blocks_top_ba = ni.mapping_blocks_top_ba
        BY <3>1, <3>4 DEF WriteNext, Laid, Instance
      <4>3. lv' = CallWrite(lv, MgmtStart, ni.backup_table_ba, "rs_front")
        BY <3>4 DEF WriteNext
      <4>4. lv' \in Locals
        BY <4>3, <1>CallWriteType DEF AfterWrite
      <4>5. /\ lv'.ba = MgmtStart /\ lv'.limit = ni.backup_table_ba
            /\ lv'.ret = "rs_front" /\ lv'.bret = lv.bret /\ lv'.uret = lv.uret
        BY <4>3 DEF CallWrite, Locals
      <4>. QED
        BY SMTT(30), <3>1, <3>2, <3>4, <4>1, <4>2, <4>4, <4>5, <1>EntersWrite
           DEF AfterWrite, ReturnLabels, WriteNext
    <3>. QED
      BY <2>6, <3>3, <3>4 DEF UpdateSingleMain
  <2>7. CASE UpdateSingleBackup
    <3>1. /\ Laid(ni) /\ (lv.ok => TableBlock(lv.start))
          /\ MgmtStart <= ni.backup_table_ba
      BY <2>7 DEF UpdateSingleBackup, Ranges, AfterWrite, Layout, Unlaid
    <3>2. ni' \in Instance
      BY <2>7 DEF UpdateSingleBackup, Instance
    <3>4. Laid(ni')
      <4>1. CASE lv.ok
        BY SMTT(30), <2>7, <3>1, <4>1 DEF UpdateSingleBackup, Laid, TableBlock, Instance
      <4>2. CASE ~lv.ok
        BY SMTT(30), <2>7, <3>1, <4>2 DEF UpdateSingleBackup, Laid, Instance
      <4>. QED
        BY <4>1, <4>2
    <3>5. lv' \in Locals /\ lv'.bret = lv.bret /\ lv'.uret = lv.uret
      BY <2>7 DEF UpdateSingleBackup, ReturnTo, Locals
    <3>. QED
      BY <2>7, <3>2, <3>4, <3>5, <1>Returns DEF UpdateSingleBackup, ReturnTo
  <2>. QED
    BY <2>1, <2>2, <2>3, <2>4, <2>5, <2>6, <2>7

  \* nmbm_rebuild_info_table entered from nmbm_update_info_table_once
<1>CallRebuildInv.
    ASSUME IInv, UNCHANGED <<flash, oob, skipped, userVars>>, NEW n \in Instance,
           MgmtStart <= n.mapping_blocks_top_ba,
           n.mapping_blocks_top_ba < n.signature_ba,
           NEW ret \in AfterRebuild, CallRebuild(n, ret)
    PROVE  IInv'
  <2>. USE <1>CallRebuildInv
  <2>. USE GeometryAssumption, Addresses, ReturnLabelsAreLabels
  <2>. TypeOK /\ ReturnLabels
    BY DEF IInv
  <2>. DEFINE top == n.mapping_blocks_top_ba
  <2>1. top \in Blocks /\ top \in 0 .. BlockCount
    BY DEF Instance
  <2>2. ni' = [n EXCEPT !.main_table_ba = 0, !.backup_table_ba = 0,
                        !.mapping_blocks_ba = top]
    BY DEF CallRebuild
  <2>3. /\ lv' = [CallWrite(lv, MgmtStart, top, "reb_main") EXCEPT !.bret = ret]
        /\ pc' = "write"
    BY DEF CallRebuild
  <2>. HIDE DEF top
  <2>4. ni' \in Instance
    BY <2>1, <2>2 DEF Instance
  <2>5. ni'.mapping_blocks_top_ba = top
    BY <2>2 DEF Instance, top
  <2>6. Laid(ni')
    BY <2>1, <2>2 DEF Laid, Instance, top
  <2>7. lv' \in Locals
    BY <2>1, <2>3, <1>CallWriteType DEF AfterWrite
  <2>8. /\ lv'.ba = MgmtStart /\ lv'.limit = top
        /\ lv'.ret = "reb_main" /\ lv'.bret = ret /\ lv'.uret = lv.uret
    BY <2>3 DEF CallWrite, Locals
  <2>. QED
    BY SMTT(30), <2>1, <2>3, <2>4, <2>5, <2>6, <2>7, <2>8, <1>EntersWrite DEF AfterWrite

  \* The label write_main_table
<1>WriteMainTableInv.
    ASSUME IInv, UNCHANGED <<flash, oob, skipped, userVars>>,
           NEW n \in Instance, Laid(n), WriteMainTable(n),
           n.backup_table_ba # 0 => n.backup_table_ba <= n.mapping_blocks_top_ba
    PROVE  IInv'
  <2>. USE <1>WriteMainTableInv
  <2>. USE GeometryAssumption, Addresses, ReturnLabelsAreLabels
  <2>. TypeOK /\ ReturnLabels
    BY DEF IInv
  <2>1. CASE n.main_table_ba = 0
    BY <2>1, <1>CallRebuildInv DEF WriteMainTable, AfterRebuild, Laid
  <2>2. CASE n.main_table_ba # 0
    <3>. DEFINE limit == IF n.backup_table_ba = 0 THEN n.mapping_blocks_top_ba
                                                  ELSE n.backup_table_ba
    <3>1. /\ n.main_table_ba \in Blocks /\ limit \in Blocks
          /\ n.backup_table_ba \in Blocks /\ n.mapping_blocks_top_ba \in Blocks
      BY DEF Instance
    <3>2. MgmtStart <= n.main_table_ba /\ limit <= n.mapping_blocks_top_ba
      BY SMTT(30), <2>2, <3>1 DEF Laid
    <3>3. WriteNext(n, n.main_table_ba, limit, "upd_main")
      BY <2>2 DEF WriteMainTable
    <3>. HIDE DEF limit
    <3>4. /\ lv' = CallWrite(lv, n.main_table_ba, limit, "upd_main")
          /\ ni' = n /\ pc' = "write"
      BY <3>3 DEF WriteNext
    <3>5. lv' \in Locals
      BY <3>1, <3>4, <1>CallWriteType DEF AfterWrite
    <3>6. /\ lv'.ba = n.main_table_ba /\ lv'.limit = limit
          /\ lv'.ret = "upd_main" /\ lv'.bret = lv.bret /\ lv'.uret = lv.uret
      BY <3>4 DEF CallWrite, Locals
    <3>. QED
      BY <3>2, <3>4, <3>5, <3>6, <1>EntersWrite DEF AfterWrite, ReturnLabels
  <2>. QED
    BY <2>1, <2>2

  \* nmbm_update_info_table, nmbm_update_info_table_once and
  \* nmbm_rescue_main_info_table keep the invariant
<1>UpdateInv.
    ASSUME IInv, UNCHANGED userVars,
           \/ UpdateDone \/ UpdateOnce \/ UpdateBackupReturns
           \/ UpdateMainWritten \/ UpdateMainFailed
           \/ RescueMainTmpFailed \/ RescueMainTmpWritten \/ RescueMainReturns
           \/ UpdateOnceReturns
    PROVE  IInv'
  <2>. USE <1>UpdateInv
  <2>. USE GeometryAssumption, Addresses, ReturnLabelsAreLabels
  <2>. TypeOK /\ Layout /\ ReturnLabels /\ Ranges
    BY DEF IInv
  <2>1. CASE UpdateDone
    <3>1. lv' \in Locals /\ lv'.bret = lv.bret /\ lv'.uret = lv.uret
      BY <2>1 DEF UpdateDone, ReturnTo, Locals
    <3>2. Laid(ni) /\ pc' \in AfterUpdate
      BY <2>1 DEF UpdateDone, ReturnTo, ReturnLabels, Layout, Unlaid
    <3>. QED
      BY <2>1, <3>1, <3>2, <1>Returns DEF UpdateDone, Laid
  <2>2. CASE UpdateOnce
    <3>. DEFINE n == Generate(ni)
    <3>1. Laid(ni)
      BY <2>2 DEF UpdateOnce, Layout, Unlaid
    <3>2. /\ n \in Instance
          /\ n.backup_table_ba = ni.backup_table_ba
          /\ n.mapping_blocks_top_ba = ni.mapping_blocks_top_ba
      BY GenerateType
    <3>3. Laid(n)
      BY SMTT(30), <3>1, GenerateType DEF Laid
    <3>4. UNCHANGED <<flash, oob, skipped, userVars>>
      BY <2>2 DEF UpdateOnce
    <3>5. IF n.backup_table_ba = 0
          THEN WriteMainTable(n)
          ELSE WriteNext(n, n.backup_table_ba, n.mapping_blocks_top_ba, "upd_backup")
      BY <2>2 DEF UpdateOnce
    <3>. HIDE DEF n
    <3>6. CASE n.backup_table_ba = 0
      BY <3>2, <3>3, <3>4, <3>5, <3>6, <1>WriteMainTableInv
    <3>7. CASE n.backup_table_ba # 0
      <4>1. MgmtStart <= n.backup_table_ba
        BY <3>3, <3>7 DEF Laid
      <4>2. /\ lv' = CallWrite(lv, n.backup_table_ba, ni.mapping_blocks_top_ba,
                               "upd_backup")
            /\ ni' = n /\ pc' = "write"
        BY <3>2, <3>5, <3>7 DEF WriteNext
      <4>3. lv' \in Locals
        BY <3>2, <4>2, <1>CallWriteType DEF AfterWrite
      <4>4. /\ lv'.ba = n.backup_table_ba /\ lv'.limit = ni.mapping_blocks_top_ba
            /\ lv'.ret = "upd_backup" /\ lv'.bret = lv.bret /\ lv'.uret = lv.uret
        BY <4>2 DEF CallWrite, Locals
      <4>. QED
        BY SMTT(30), <3>2, <3>3, <3>4, <4>1, <4>2, <4>3, <4>4, <1>EntersWrite
           DEF AfterWrite, ReturnLabels
    <3>. QED
      BY <3>6, <3>7
  <2>3. CASE UpdateBackupReturns
    <3>1. /\ Laid(ni) /\ (lv.ok => TableBlock(lv.start))
          /\ MgmtStart <= ni.backup_table_ba
          /\ UNCHANGED <<flash, oob, skipped, userVars>>
      BY <2>3 DEF UpdateBackupReturns, Ranges, AfterWrite, Layout, Unlaid
    <3>2. CASE lv.ok
      <4>. DEFINE n == [ni EXCEPT !.backup_table_ba = lv.start,
                                  !.mapping_blocks_ba = lv.start + 1,
                                  !.changed = FALSE]
      <4>1. n \in Instance
        BY DEF Instance
      <4>2. Laid(n) /\ n.backup_table_ba <= n.mapping_blocks_top_ba
        BY SMTT(30), <3>1, <3>2 DEF Laid, TableBlock, Instance
      <4>3. WriteMainTable(n)
        BY <2>3, <3>2 DEF UpdateBackupReturns
      <4>. HIDE DEF n
      <4>. QED
        BY <3>1, <4>1, <4>2, <4>3, <1>WriteMainTableInv
    <3>3. CASE ~lv.ok
      <4>. DEFINE n == [ni EXCEPT !.mapping_blocks_ba = ni.backup_table_ba,
                                  !.backup_table_ba = 0]
      <4>1. n \in Instance
        BY DEF Instance
      <4>2. Laid(n) /\ n.backup_table_ba = 0
        BY SMTT(30), <3>1 DEF Laid, Instance
      <4>3. WriteMainTable(n)
        BY <2>3, <3>3 DEF UpdateBackupReturns
      <4>. HIDE DEF n
      <4>. QED
        BY <3>1, <4>1, <4>2, <4>3, <1>WriteMainTableInv
    <3>. QED
      BY <3>2, <3>3
  <2>4. CASE UpdateMainWritten
    <3>1. TableBlock(lv.start) /\ Laid(ni)
      BY <2>4 DEF UpdateMainWritten, Ranges, AfterWrite, Layout, Unlaid
    <3>2. ni' \in Instance
      BY <2>4 DEF UpdateMainWritten, Instance
    <3>3. Laid(ni')
      BY SMTT(30), <2>4, <3>1 DEF UpdateMainWritten, Laid, TableBlock, Instance
    <3>4. lv' \in Locals /\ lv'.bret = lv.bret /\ lv'.uret = lv.uret
      BY <2>4 DEF UpdateMainWritten, ReturnTo, Locals
    <3>. QED
      BY <2>4, <3>2, <3>3, <3>4, <1>Returns DEF UpdateMainWritten, ReturnTo, AfterRebuild
  <2>5. ASSUME Laid(ni), BackupBecomesMain, UNCHANGED <<flash, oob, skipped>>
        PROVE  IInv'
    <3>1. ni' \in Instance
      BY <2>5 DEF BackupBecomesMain, Instance
    <3>2. Laid(ni')
      BY <2>5 DEF BackupBecomesMain, Laid, Instance
    <3>3. lv' \in Locals /\ lv'.bret = lv.bret /\ lv'.uret = lv.uret
      BY <2>5 DEF BackupBecomesMain, ReturnTo, Locals
    <3>. QED
      BY <2>5, <3>1, <3>2, <3>3, <1>Returns DEF BackupBecomesMain, ReturnTo, AfterRebuild
  <2>6. CASE UpdateMainFailed
    <3>1. Laid(ni) /\ UNCHANGED <<flash, oob, skipped, userVars>>
      BY <2>6 DEF UpdateMainFailed, Layout, Unlaid
    <3>2. CASE CallRebuild(ni, "upd_ret")
      BY <3>1, <3>2, <1>CallRebuildInv DEF AfterRebuild, Laid
    <3>3. ASSUME NEW b \in Blocks,
                 Reserve(ni, ni.mapping_blocks_ba, ni.mapping_blocks_top_ba - 1, b),
                 lv' = [CallWrite(lv, b, ni.mapping_blocks_top_ba, "res_tmp")
                          EXCEPT !.write_ba = b],
                 pc' = "write", UNCHANGED ni
          PROVE  IInv'
      <4>1. MgmtStart <= b
        BY SMTT(30), <3>1, <3>3, ReserveInRange DEF Laid
      <4>2. lv' \in Locals
        BY <3>3, <1>CallWriteType DEF AfterWrite
      <4>3. /\ lv'.ba = b /\ lv'.limit = ni.mapping_blocks_top_ba
            /\ lv'.ret = "res_tmp" /\ lv'.bret = lv.bret /\ lv'.uret = lv.uret
        BY <3>3 DEF CallWrite, Locals
      <4>. QED
        BY SMTT(30), <3>1, <3>3, <4>1, <4>2, <4>3, <1>EntersWrite
           DEF AfterWrite, ReturnLabels, Laid
    <3>4. CASE BackupBecomesMain
      BY <2>5, <3>1, <3>4
    <3>. QED
      BY <2>6, <3>2, <3>3, <3>4 DEF UpdateMainFailed
  <2>7. CASE RescueMainTmpFailed
    <3>1. Laid(ni) /\ UNCHANGED <<flash, oob, skipped, userVars>>
      BY <2>7 DEF RescueMainTmpFailed, Layout, Unlaid
    <3>2. CASE RetryLower("res_tmp")
      BY <3>1, <3>2, <1>RetryLowerInv
    <3>3. CASE BackupBecomesMain
      BY <2>5, <3>1, <3>3
    <3>. QED
      BY <2>7, <3>2, <3>3 DEF RescueMainTmpFailed
  <2>8. CASE RescueMainTmpWritten
    <3>1. TableBlock(lv.start) /\ Laid(ni)
      BY <2>8 DEF RescueMainTmpWritten, Ranges, AfterWrite, Layout, Unlaid
    <3>2. ni' \in Instance
      BY <2>8 DEF RescueMainTmpWritten, Instance
    <3>3. Laid(ni') /\ ni'.mapping_blocks_top_ba = ni.mapping_blocks_top_ba
      BY SMTT(30), <2>8, <3>1 DEF RescueMainTmpWritten, Laid, TableBlock, Instance
    <3>4. lv' = [CallWrite(lv, MgmtStart, lv.start, "res_main") EXCEPT !.tmp = lv.start]
      BY <2>8 DEF RescueMainTmpWritten
    <3>5. lv' \in Locals
      BY <3>4, <1>CallWriteType DEF AfterWrite
    <3>6. /\ lv'.ba = MgmtStart /\ lv'.limit = lv.start /\ lv'.tmp = lv.start
          /\ lv'.ret = "res_main" /\ lv'.bret = lv.bret /\ lv'.uret = lv.uret
      BY <3>4 DEF CallWrite, Locals
    <3>. QED
      BY SMTT(30), <2>8, <3>1, <3>2, <3>3, <3>5, <3>6, <1>EntersWrite
         DEF RescueMainTmpWritten, AfterWrite, ReturnLabels, TableBlock
  <2>9. CASE RescueMainReturns
    <3>1. TableBlock(lv.tmp) /\ Laid(ni) /\ (lv.ok => TableBlock(lv.start))
      BY <2>9 DEF RescueMainReturns, Ranges, AfterWrite, Layout, Unlaid
    <3>2. ni' \in Instance
      BY <2>9 DEF RescueMainReturns, Instance
    <3>3. Laid(ni')
      BY SMTT(30), <2>9, <3>1 DEF RescueMainReturns, Laid, TableBlock, Instance
    <3>4. lv' \in Locals /\ lv'.bret = lv.bret /\ lv'.uret = lv.uret
      BY <2>9 DEF RescueMainReturns, ReturnTo, Locals
    <3>. QED
      BY <2>9, <3>2, <3>3, <3>4, <1>Returns DEF RescueMainReturns, ReturnTo, AfterRebuild
  <2>10. CASE UpdateOnceReturns
    <3>1. Laid(ni) /\ pc' \in AfterUpdate \cup {"update"}
      BY <2>10 DEF UpdateOnceReturns, ReturnLabels, Layout, Unlaid
    <3>. QED
      BY <2>10, <3>1, <1>Returns DEF UpdateOnceReturns, Laid
  <2>. QED
    BY <2>1, <2>2, <2>3, <2>4, <2>6, <2>7, <2>8, <2>9, <2>10

  \* Every step of the table procedures between two operations on the chip keeps
  \* the invariant
<1>TableStepInv.
    ASSUME IInv, TableStep, UNCHANGED userVars
    PROVE  IInv'
    BY <1>TableStepInv, <1>RebuildInv, <1>SingleInv, <1>UpdateInv DEF TableStep

  \* The loops of nmbm_write_mgmt_range and nmbm_erase_range keep the invariant
<1>BlockStepInv.
    ASSUME IInv, BlockStep, UNCHANGED userVars
    PROVE  IInv'
  <2>. USE <1>BlockStepInv
  <2>. USE GeometryAssumption, Addresses, ReturnLabelsAreLabels
  <2>. TypeOK /\ Layout /\ ReturnLabels /\ Ranges
    BY DEF IInv
  <2>1. ASSUME NEW label \in {"write", "erase_range"}, AtBlock(label)
        PROVE  lv.ba \in Blocks /\ lv.ba + 1 \in 0 .. BlockCount
    BY SMTT(30), <2>1 DEF AtBlock, Blocks
  <2>2. pc = "program" => lv.ba \in Blocks /\ lv.ba + 1 \in 0 .. BlockCount
    BY SMTT(30) DEF Ranges, Blocks
  <2>3. ASSUME NextBlock, lv.ba + 1 \in 0 .. BlockCount,
               pc \in Writing, pc' \in {"write", "erase_range"},
               pc' = pc \/ (pc = "program" /\ pc' = "write"),
               ni' \in Instance,
               UNCHANGED <<ni.main_table_ba, ni.backup_table_ba,
                           ni.mapping_blocks_ba, ni.mapping_blocks_top_ba,
                           ni.signature_ba>>
        PROVE  /\ lv' \in Locals
               /\ pc' \in Labels \ {"sig_write", "sig_program", "create", "page_write"}
               /\ Layout' /\ ReturnLabels' /\ Ranges'
    <3>1. lv' \in Locals
      BY <2>3 DEF NextBlock, Locals
    <3>2. /\ lv'.ba = lv.ba + 1
          /\ UNCHANGED <<lv.limit, lv.ret, lv.start, lv.ok, lv.tmp, lv.uret, lv.bret>>
      BY <2>3 DEF NextBlock, Locals
    <3>3. pc' \in Labels \ {"sig_write", "sig_program", "create", "page_write"}
      BY <2>3 DEF Labels, TableLabels
    <3>4. Layout'
      BY <2>3 DEF Layout, Laid, Unlaid, Writing
    <3>5. ReturnLabels'
      BY <2>3, <3>2 DEF ReturnLabels, Writing
    <3>6. Ranges'
      BY SMTT(30), <2>3, <3>2 DEF Ranges, TableBlock, Writing, AfterWrite
    <3>. QED
      BY <3>1, <3>3, <3>4, <3>5, <3>6
  <2>4. ASSUME NEW b \in Blocks
        PROVE  /\ SetState(ni, b, BAD) \in Instance
               /\ \A n : n = SetState(ni, b, BAD) =>
                    /\ n.main_table_ba = ni.main_table_ba
                    /\ n.backup_table_ba = ni.backup_table_ba
                    /\ n.mapping_blocks_ba = ni.mapping_blocks_ba
                    /\ n.mapping_blocks_top_ba = ni.mapping_blocks_top_ba
                    /\ n.signature_ba = ni.signature_ba
    BY SMTT(30), <1>SetStateType DEF BlockState, BAD
  <2>5. ASSUME NEW label \in {"write", "erase_range"}, SkipKnown(label)
        PROVE  IInv'
    BY <2>1, <2>3, <2>5, <1>TablesKept DEF SkipKnown, AtBlock, Writing
  <2>6. ASSUME NEW label \in {"write", "erase_range"}, SkipMarked(label)
        PROVE  IInv'
    BY <2>1, <2>3, <2>4, <2>6, <1>TablesKept DEF SkipMarked, AtBlock, Writing
  <2>7. ASSUME NEW b \in Blocks, MarkFailed(b)
        PROVE  /\ ni' \in Instance /\ oob' \in SUBSET Blocks
               /\ flash' = [flash EXCEPT ![b] = Junk]
               /\ UNCHANGED <<ni.main_table_ba, ni.backup_table_ba,
                              ni.mapping_blocks_ba, ni.mapping_blocks_top_ba,
                              ni.signature_ba>>
    BY <2>4, <2>7 DEF MarkFailed, TypeOK
  <2>8. Junk.kind # "sig" /\ Erased.kind # "sig" /\ Junk \in Content /\ Erased \in Content
    BY ContentTypes DEF Junk, Erased
  <2>9. ASSUME NEW label \in {"write", "erase_range"}, EraseFails(label)
        PROVE  IInv'
    <3>1. lv.ba \in Blocks /\ lv.ba + 1 \in 0 .. BlockCount
      BY <2>1, <2>9 DEF EraseFails, CanErase
    <3>2. /\ ni' \in Instance /\ oob' \in SUBSET Blocks
          /\ flash' = [flash EXCEPT ![lv.ba] = Junk]
          /\ UNCHANGED <<ni.main_table_ba, ni.backup_table_ba,
                         ni.mapping_blocks_ba, ni.mapping_blocks_top_ba,
                         ni.signature_ba>>
      BY <2>7, <2>9, <3>1 DEF EraseFails
    <3>3. pc = label /\ pc' = pc /\ NextBlock /\ UNCHANGED skipped
      BY <2>9 DEF EraseFails, CanErase, AtBlock
    <3>4. /\ lv' \in Locals
          /\ pc' \in Labels \ {"sig_write", "sig_program", "create", "page_write"}
          /\ Layout' /\ ReturnLabels' /\ Ranges'
      BY <2>3, <3>1, <3>2, <3>3 DEF Writing
    <3>. QED
      BY <2>8, <3>1, <3>2, <3>3, <3>4, <1>ChipKept
  <2>10. CASE WriteErases
    <3>1. lv.ba \in Blocks /\ lv.ba < lv.limit /\ pc = "write" /\ pc' = "program"
      BY <2>1, <2>10 DEF WriteErases, CanErase, AtBlock
    <3>2. /\ flash' = [flash EXCEPT ![lv.ba] = Erased]
          /\ UNCHANGED <<oob, ni, lv, skipped>>
      BY <2>10 DEF WriteErases
    <3>3. pc' \in Labels \ {"sig_write", "sig_program", "create", "page_write"}
      BY <3>1 DEF Labels, TableLabels
    <3>4. Layout' /\ ReturnLabels'
      BY <3>1, <3>2 DEF Layout, Laid, Unlaid, ReturnLabels
    <3>5. Ranges'
      BY <3>1, <3>2 DEF Ranges, TableBlock, Writing, AfterWrite
    <3>. QED
      BY <2>8, <3>1, <3>2, <3>3, <3>4, <3>5, <1>ChipKept DEF TypeOK
  <2>11. CASE RangeErases
    <3>1. /\ lv.ba \in Blocks /\ lv.ba + 1 \in 0 .. BlockCount
          /\ pc = "erase_range" /\ pc' = pc
      BY <2>1, <2>11 DEF RangeErases, CanErase, AtBlock
    <3>2. /\ flash' = [flash EXCEPT ![lv.ba] = Erased]
          /\ NextBlock /\ UNCHANGED <<oob, ni, skipped>>
      BY <2>11 DEF RangeErases
    <3>3. /\ lv' \in Locals
          /\ pc' \in Labels \ {"sig_write", "sig_program", "create", "page_write"}
          /\ Layout' /\ ReturnLabels' /\ Ranges'
      BY <2>3, <3>1, <3>2 DEF Writing
    <3>. QED
      BY <2>8, <3>1, <3>2, <3>3, <1>ChipKept DEF TypeOK
  <2>12. CASE ProgramSucceeds
    <3>1. lv.ba \in Blocks /\ lv.ba < lv.limit /\ lv.ret \in AfterWrite
      BY <2>2, <2>12 DEF ProgramSucceeds, Ranges, ReturnLabels
    <3>2. TableBlock(lv.ba)
      BY SMTT(30), <2>12, <3>1 DEF ProgramSucceeds, Ranges, TableBlock, Writing
    <3>3. TableOf(ni.info_table_cache) \in Content
          /\ TableOf(ni.info_table_cache).kind # "sig"
      BY DEF TableOf, Content, Instance
    <3>4. /\ flash' = [flash EXCEPT ![lv.ba] = TableOf(ni.info_table_cache)]
          /\ pc' = lv.ret /\ UNCHANGED <<oob, ni, skipped>>
      BY <2>12 DEF ProgramSucceeds
    <3>5. lv' \in Locals
      BY <2>12, <3>1 DEF ProgramSucceeds, Locals
    <3>6. /\ lv'.start = lv.ba
          /\ UNCHANGED <<lv.tmp, lv.ret, lv.bret, lv.uret>>
      BY <2>12 DEF ProgramSucceeds, Locals
    <3>7. pc' \in Labels \ {"sig_write", "sig_program", "create", "page_write"}
      BY <3>1, <3>4 DEF AfterWrite, Labels, TableLabels
    <3>8. Layout' /\ ReturnLabels'
      BY <2>12, <3>1, <3>4, <3>6
         DEF ProgramSucceeds, Layout, Laid, Unlaid, ReturnLabels, AfterWrite
    <3>9. Ranges'
      BY <2>12, <3>1, <3>2, <3>4, <3>6
         DEF ProgramSucceeds, Ranges, TableBlock, Writing, AfterWrite
    <3>. QED
      BY <3>1, <3>3, <3>4, <3>5, <3>7, <3>8, <3>9, <1>ChipKept DEF TypeOK
  <2>13. CASE ProgramFails
    <3>1. lv.ba \in Blocks /\ lv.ba + 1 \in 0 .. BlockCount
      BY <2>2, <2>13 DEF ProgramFails
    <3>2. /\ ni' \in Instance /\ oob' \in SUBSET Blocks
          /\ flash' = [flash EXCEPT ![lv.ba] = Junk]
          /\ UNCHANGED <<ni.main_table_ba, ni.backup_table_ba,
                         ni.mapping_blocks_ba, ni.mapping_blocks_top_ba,
                         ni.signature_ba>>
      BY <2>7, <2>13, <3>1 DEF ProgramFails
    <3>3. pc = "program" /\ pc' = "write" /\ NextBlock /\ UNCHANGED skipped
      BY <2>13 DEF ProgramFails
    <3>4. /\ lv' \in Locals
          /\ pc' \in Labels \ {"sig_write", "sig_program", "create", "page_write"}
          /\ Layout' /\ ReturnLabels' /\ Ranges'
      BY <2>3, <3>1, <3>2, <3>3 DEF Writing
    <3>. QED
      BY <2>8, <3>1, <3>2, <3>3, <3>4, <1>ChipKept
  <2>14. CASE WriteExhausted
    <3>1. /\ pc = "write" /\ pc' = lv.ret /\ lv.ret \in AfterWrite
          /\ UNCHANGED <<flash, oob, ni, skipped>>
      BY <2>14 DEF WriteExhausted, ReturnLabels
    <3>2. /\ lv' \in Locals /\ ~lv'.ok
          /\ UNCHANGED <<lv.tmp, lv.ret, lv.bret, lv.uret>>
      BY <2>14 DEF WriteExhausted, Locals
    <3>3. pc' \in Labels \ {"sig_write", "sig_program", "create", "page_write"}
      BY <3>1 DEF AfterWrite, Labels, TableLabels
    <3>4. Layout' /\ ReturnLabels'
      BY <3>1, <3>2 DEF Layout, Laid, Unlaid, ReturnLabels, AfterWrite
    <3>5. Ranges'
      BY <3>1, <3>2 DEF Ranges, TableBlock, Writing, AfterWrite
    <3>. QED
      BY <3>1, <3>2, <3>3, <3>4, <3>5, <1>TablesKept
  <2>15. CASE RangeErased
    <3>1. /\ pc = "erase_range" /\ pc' = lv.ret /\ lv.ret \in AfterErase
          /\ UNCHANGED <<flash, oob, ni, skipped>>
      BY <2>15 DEF RangeErased, ReturnLabels
    <3>2. /\ lv' \in Locals
          /\ UNCHANGED <<lv.start, lv.tmp, lv.ret, lv.bret, lv.uret>>
      BY <2>15 DEF RangeErased, Locals
    <3>3. pc' \in Labels \ {"sig_write", "sig_program", "create", "page_write"}
      BY <3>1 DEF AfterErase, AfterRebuild, Labels, TableLabels, UserLabels
    <3>4. Layout' /\ ReturnLabels'
      BY <3>1, <3>2 DEF Layout, Laid, Unlaid, ReturnLabels, AfterErase, AfterRebuild
    <3>5. Ranges'
      BY <3>1, <3>2
         DEF Ranges, TableBlock, Writing, AfterWrite, AfterErase, AfterRebuild
    <3>. QED
      BY <3>1, <3>2, <3>3, <3>4, <3>5, <1>TablesKept
  <2>. QED
    BY <2>5, <2>6, <2>9, <2>10, <2>11, <2>12, <2>13, <2>14, <2>15 DEF BlockStep

  \* A step of a logical operation: what it has to keep for the invariant to hold
<1>UserKept.
    ASSUME IInv, flash' \in [Blocks -> Content],
           \A b \in Blocks : flash'[b].kind = "sig" => flash[b].kind = "sig",
           oob' \in SUBSET Blocks, ni' \in Instance, Laid(ni'), lv' \in Locals,
           lv'.bret \in AfterRebuild, lv'.uret \in AfterUpdate,
           pc' \in UserLevel, skipped' \in BOOLEAN,
           pc' = "page_write" => ni'.block_mapping[op'.lb] # -1 /\ op'.val \in Vals,
           op' \in [lb : Logical, val : Vals \cup {"none"}, pb : Blocks],
           expect' \in [Logical -> Vals \cup {"erased", "unknown"}],
           lost' \in BOOLEAN, ops' \in 0 .. MaxOps, crashes' \in 0 .. MaxCrashes
    PROVE  IInv'
  <2>. USE <1>UserKept
  <2>1. pc' \in Labels
    BY DEF UserLevel, Labels, TableLabels, UserLabels
  <2>2. TypeOK'
    BY <2>1 DEF TypeOK
  <2>3. Layout'
    BY DEF Layout, Laid
  <2>4. ReturnLabels'
    BY DEF ReturnLabels, UserLevel
  <2>5. Ranges'
    BY DEF Ranges, UserLevel, Writing, AfterWrite
  <2>6. Signature'
    BY DEF IInv, Signature, UserLevel
  <2>. QED
    BY <2>2, <2>3, <2>4, <2>5, <2>6 DEF IInv, PageWrite, Home

  \* nmbm_update_info_table entered
<1>CallUpdateType.
    ASSUME lv \in Locals, ReturnLabels, NEW ret \in AfterUpdate, CallUpdate(ret)
    PROVE  /\ lv' \in Locals /\ lv'.bret \in AfterRebuild /\ lv'.uret \in AfterUpdate
           /\ pc' \in UserLevel \ {"page_write"}
  <2>. USE <1>CallUpdateType
  <2>1. ret \in Labels
    BY ReturnLabelsAreLabels
  <2>2. lv' = [lv EXCEPT !.uret = ret] /\ pc' = "update"
    BY DEF CallUpdate
  <2>3. lv' \in Locals /\ lv'.bret = lv.bret /\ lv'.uret = ret
    BY <2>1, <2>2 DEF Locals
  <2>. QED
    BY <2>2, <2>3 DEF ReturnLabels, UserLevel

  \* The state of the abandoned block moves no address
<1>AbandonType.
    ASSUME NEW n \in Instance, Laid(n), NEW pb \in Blocks
    PROVE  Abandon(n, pb) \in Instance /\ Laid(Abandon(n, pb))
  <2>. USE <1>AbandonType
  <2>1. BAD \in BlockState
    BY DEF BlockState, BAD
  <2>2. SetState(n, pb, BAD) \in Instance /\ Laid(SetState(n, pb, BAD))
    BY SMTT(30), <2>1, <1>SetStateType DEF Laid
  <2>. QED
    BY <2>2 DEF Abandon

  \* A logic block that loses its mapping
<1>UnmappedType.
    ASSUME NEW n \in Instance, Laid(n), NEW lb \in Logical
    PROVE  /\ [n EXCEPT !.block_mapping = [n.block_mapping EXCEPT ![lb] = -1]] \in Instance
           /\ Laid([n EXCEPT !.block_mapping = [n.block_mapping EXCEPT ![lb] = -1]])
  <2>. USE <1>UnmappedType
  <2>1. [n.block_mapping EXCEPT ![lb] = -1] \in MappingTable
    BY DEF Instance, MappingTable
  <2>. QED
    BY <2>1 DEF Instance, Laid

  \* The steps of nmbm_erase_logic_block and nmbm_write_logic_page keep the
  \* invariant
<1>LogicStepInv.
    ASSUME IInv, LogicStep, ~Detached
    PROVE  IInv'
  <2>. USE <1>LogicStepInv
  <2>. USE GeometryAssumption, BoundAssumption
  <2>. TypeOK /\ Layout /\ ReturnLabels
    BY DEF IInv
  <2>0. /\ ni \in Instance /\ lv \in Locals /\ flash \in [Blocks -> Content]
        /\ oob \in SUBSET Blocks /\ skipped \in BOOLEAN
        /\ op \in [lb : Logical, val : Vals \cup {"none"}, pb : Blocks]
        /\ expect \in [Logical -> Vals \cup {"erased", "unknown"}]
        /\ lost \in BOOLEAN /\ ops \in 0 .. MaxOps /\ crashes \in 0 .. MaxCrashes
        /\ lv.bret \in AfterRebuild /\ lv.uret \in AfterUpdate
        /\ op.lb \in Logical /\ op.pb \in Blocks
    BY DEF TypeOK, ReturnLabels
  <2>1. ASSUME Home(op.lb) # -1
        PROVE  Home(op.lb) \in Blocks
    BY SMTT(30), <2>0, <2>1 DEF Home, Instance, MappingTable
  <2>2. pc \in UserLevel => Laid(ni)
    BY DEF Layout, Unlaid, UserLevel
  <2>3. \A st \in BlockState : \A b \in Blocks : Laid(ni) =>
          SetState(ni, b, st) \in Instance /\ Laid(SetState(ni, b, st))
    BY SMTT(30), <2>0, <1>SetStateType DEF Laid
  <2>4. {"erased", "unknown"} \subseteq Vals \cup {"erased", "unknown"}
    OBVIOUS
  <2>5. \A b \in Blocks, c \in Content : c.kind # "sig" =>
          /\ [flash EXCEPT ![b] = c] \in [Blocks -> Content]
          /\ \A x \in Blocks : [flash EXCEPT ![b] = c][x].kind = "sig"
                                 => flash[x].kind = "sig"
    BY <2>0
  <2>6. /\ Junk.kind # "sig" /\ Erased.kind # "sig"
        /\ Junk \in Content /\ Erased \in Content
    BY ContentTypes DEF Junk, Erased
  <2>7. BAD \in BlockState /\ NEED_REMAP \in BlockState /\ GOOD \in BlockState
    BY DEF BlockState
  <2>8. CASE EraseUnmapped
    BY <2>0, <2>2, <2>8, <1>UserKept DEF EraseUnmapped, UserLevel, Laid, userVars
  <2>9. CASE EraseGivesUp
    <3>1. Home(op.lb) \in Blocks /\ Laid(ni)
      BY <2>1, <2>2, <2>9 DEF EraseGivesUp, UserLevel
    <3>2. ni' \in Instance /\ Laid(ni')
      BY <2>0, <2>3, <2>7, <2>9, <3>1 DEF EraseGivesUp
    <3>3. op' \in [lb : Logical, val : Vals \cup {"none"}, pb : Blocks]
      BY <2>0, <2>9, <3>1 DEF EraseGivesUp
    <3>4. pc' \in UserLevel \ {"page_write"}
      BY <2>9 DEF EraseGivesUp, UserLevel
    <3>. QED
      BY <2>0, <2>9, <3>2, <3>3, <3>4, <1>UserKept DEF EraseGivesUp
  <2>10. CASE EraseSucceeds
    <3>1. Home(op.lb) \in Blocks /\ Laid(ni)
      BY <2>1, <2>2, <2>10 DEF EraseSucceeds, CanEraseLogic, UserLevel
    <3>2. expect' \in [Logical -> Vals \cup {"erased", "unknown"}]
      BY <2>0, <2>10 DEF EraseSucceeds, Expect
    <3>3. flash' = [flash EXCEPT ![Home(op.lb)] = Erased]
      BY <2>10 DEF EraseSucceeds
    <3>4. pc' \in UserLevel \ {"page_write"} /\ Laid(ni')
      BY <2>10, <3>1 DEF EraseSucceeds, UserLevel, Laid
    <3>5. /\ flash' \in [Blocks -> Content]
          /\ \A b \in Blocks : flash'[b].kind = "sig" => flash[b].kind = "sig"
      BY <2>5, <2>6, <3>1, <3>3
    <3>6. UNCHANGED <<oob, ni, lv, skipped, op, lost, ops, crashes>>
      BY <2>10 DEF EraseSucceeds
    <3>. QED
      BY <2>0, <3>2, <3>4, <3>5, <3>6, <1>UserKept
  <2>11. CASE EraseLogicFails
    <3>1. Home(op.lb) \in Blocks /\ Laid(ni)
      BY <2>1, <2>2, <2>11 DEF EraseLogicFails, CanEraseLogic, UserLevel
    <3>2. /\ flash' = [flash EXCEPT ![Home(op.lb)] = Junk]
          /\ oob' \in SUBSET Blocks /\ ni' \in Instance /\ Laid(ni')
      BY <2>0, <2>3, <2>7, <2>11, <3>1 DEF EraseLogicFails, MarkFailed
    <3>3. op' \in [lb : Logical, val : Vals \cup {"none"}, pb : Blocks]
      BY <2>0, <2>11, <3>1 DEF EraseLogicFails
    <3>4. pc' \in UserLevel \ {"page_write"}
      BY <2>11 DEF EraseLogicFails, UserLevel
    <3>5. /\ flash' \in [Blocks -> Content]
          /\ \A b \in Blocks : flash'[b].kind = "sig" => flash[b].kind = "sig"
      BY <2>5, <2>6, <3>1, <3>2
    <3>6. UNCHANGED <<lv, skipped, expect, lost, ops, crashes>>
      BY <2>11 DEF EraseLogicFails
    <3>. QED
      BY <2>0, <3>2, <3>3, <3>4, <3>5, <3>6, <1>UserKept
  <2>12. CASE Remaps
    <3>1. Laid(ni)
      BY <2>2, <2>12 DEF Remaps, UserLevel
    <3>5. PICK pb \in Blocks :
            /\ Spare(ni, pb)
            /\ ni' = Abandon(MapTo(ni, op.lb, pb), op.pb)
            /\ StepsOver(pb)
      BY <2>12 DEF Remaps
    <3>6. MapTo(ni, op.lb, pb) \in Instance /\ Laid(MapTo(ni, op.lb, pb))
      BY <2>0, <3>1, <3>5, MapToType
    <3>2. ni' \in Instance /\ Laid(ni') /\ skipped' \in BOOLEAN
      BY <2>0, <3>5, <3>6, <1>AbandonType DEF StepsOver
    <3>3. CallUpdate("erase") /\ "erase" \in AfterUpdate
      BY <2>12 DEF Remaps, AfterUpdate
    <3>4. /\ lv' \in Locals /\ lv'.bret \in AfterRebuild /\ lv'.uret \in AfterUpdate
          /\ pc' \in UserLevel \ {"page_write"}
      BY <2>0, <3>3, <1>CallUpdateType
    <3>. QED
      BY <2>0, <2>12, <3>2, <3>4, <1>UserKept DEF Remaps, userVars
  <2>13. CASE RemapRefused
    <3>1. Laid(ni)
      BY <2>2, <2>13 DEF RemapRefused, UserLevel
    <3>2. ni' \in Instance /\ Laid(ni')
      BY <2>0, <2>13, <3>1, <1>UnmappedType, <1>AbandonType DEF RemapRefused, Unmapped
    <3>3. CallUpdate("idle") /\ "idle" \in AfterUpdate
      BY <2>13 DEF RemapRefused, AfterUpdate
    <3>4. /\ lv' \in Locals /\ lv'.bret \in AfterRebuild /\ lv'.uret \in AfterUpdate
          /\ pc' \in UserLevel \ {"page_write"}
      BY <2>0, <3>3, <1>CallUpdateType
    <3>. QED
      BY <2>0, <2>13, <3>2, <3>4, <1>UserKept DEF RemapRefused, userVars
  <2>14. CASE RemapFails
    <3>1. Laid(ni')
      BY <2>2, <2>14 DEF RemapFails, UserLevel, Laid
    <3>2. CallUpdate("remap_top") /\ "remap_top" \in AfterUpdate
      BY <2>14 DEF RemapFails, AfterUpdate
    <3>3. /\ lv' \in Locals /\ lv'.bret \in AfterRebuild /\ lv'.uret \in AfterUpdate
          /\ pc' \in UserLevel \ {"page_write"}
      BY <2>0, <3>2, <1>CallUpdateType
    <3>. QED
      BY <2>0, <2>14, <3>1, <3>3, <1>UserKept DEF RemapFails, userVars
  <2>15. CASE RemapClosesSpare
    <3>. DEFINE closed == [ni EXCEPT !.mapping_blocks_top_ba = ni.mapping_blocks_ba]
    <3>1. Laid(ni) /\ ni.mapping_blocks_ba \in Blocks
      BY <2>2, <2>15, SpareStart DEF RemapClosesSpare, UserLevel, Unlaid
    <3>2. closed \in Instance /\ Laid(closed)
      BY <3>1, ClosedType
    <3>3. ni' = Unmapped(closed)
      BY <2>15 DEF RemapClosesSpare
    <3>. HIDE DEF closed
    <3>4. ni' \in Instance /\ Laid(ni')
      BY <2>0, <3>2, <3>3, <1>UnmappedType, <1>AbandonType DEF Unmapped
    <3>5. CallUpdate("idle") /\ "idle" \in AfterUpdate
      BY <2>15 DEF RemapClosesSpare, AfterUpdate
    <3>6. /\ lv' \in Locals /\ lv'.bret \in AfterRebuild /\ lv'.uret \in AfterUpdate
          /\ pc' \in UserLevel \ {"page_write"}
      BY <2>0, <3>5, <1>CallUpdateType
    <3>. QED
      BY <2>0, <2>15, <3>4, <3>6, <1>UserKept DEF RemapClosesSpare, userVars
  <2>16. CASE WriteSucceeds
    <3>. DEFINE clean == flash[Home(op.lb)] = Erased
                c == IF clean THEN Data(op.val) ELSE Junk
                x == IF clean THEN op.val ELSE "unknown"
    <3>1. Home(op.lb) \in Blocks /\ Laid(ni')
      BY <2>1, <2>2, <2>16 DEF WriteSucceeds, UserLevel, IInv, PageWrite, Laid
    <3>2. c \in Content /\ c.kind # "sig"
      BY <2>6, <2>16 DEF Data, Content, WriteSucceeds, IInv, PageWrite
    <3>3. flash' = [flash EXCEPT ![Home(op.lb)] = c]
      BY <2>16 DEF WriteSucceeds
    <3>4. expect' = [expect EXCEPT ![op.lb] = x]
      BY <2>16 DEF WriteSucceeds, Expect
    <3>5. pc' = "idle" /\ pc' \in UserLevel
      BY <2>16 DEF WriteSucceeds, UserLevel
    <3>6. x \in Vals \cup {"erased", "unknown"}
      BY <2>16 DEF WriteSucceeds, IInv, PageWrite
    <3>. HIDE DEF c, x
    <3>7. /\ flash' \in [Blocks -> Content]
          /\ \A b \in Blocks : flash'[b].kind = "sig" => flash[b].kind = "sig"
      BY <2>5, <3>1, <3>2, <3>3
    <3>8. expect' \in [Logical -> Vals \cup {"erased", "unknown"}]
      BY <2>0, <3>4, <3>6
    <3>9. UNCHANGED <<oob, ni, lv, skipped, op, lost, ops, crashes>>
      BY <2>16 DEF WriteSucceeds
    <3>. QED
      BY <2>0, <3>1, <3>5, <3>7, <3>8, <3>9, <1>UserKept
  <2>17. CASE WriteFails
    <3>1. Home(op.lb) \in Blocks /\ Laid(ni)
      BY <2>1, <2>2, <2>17 DEF WriteFails, UserLevel, IInv, PageWrite
    <3>2. /\ flash' = [flash EXCEPT ![Home(op.lb)] = Junk]
          /\ ni' \in Instance /\ Laid(ni')
      BY <2>0, <2>3, <2>7, <2>17, <3>1 DEF WriteFails
    <3>3. CallUpdate("idle") /\ "idle" \in AfterUpdate
      BY <2>17 DEF WriteFails, AfterUpdate
    <3>4. /\ lv' \in Locals /\ lv'.bret \in AfterRebuild /\ lv'.uret \in AfterUpdate
          /\ pc' \in UserLevel \ {"page_write"}
      BY <2>0, <3>3, <1>CallUpdateType
    <3>5. /\ flash' \in [Blocks -> Content]
          /\ \A b \in Blocks : flash'[b].kind = "sig" => flash[b].kind = "sig"
      BY <2>5, <2>6, <3>1, <3>2
    <3>6. UNCHANGED <<oob, skipped, op, expect, lost, ops, crashes>>
      BY <2>17 DEF WriteFails, userVars
    <3>. QED
      BY <2>0, <3>2, <3>4, <3>5, <3>6, <1>UserKept
  <2>. QED
    BY <2>8, <2>9, <2>10, <2>11, <2>12, <2>13, <2>14, <2>15, <2>16, <2>17
       DEF LogicStep

  \* Starting an operation keeps the invariant
<1>StartInv.
    ASSUME IInv,
           \/ \E lb \in Logical : \/ StartErase(lb)
                                  \/ \E v \in Vals : StartWrite(lb, v)
                                  \/ MarkBad(lb)
           \/ StartDetach
    PROVE  IInv'
  <2>. USE <1>StartInv
  <2>. USE GeometryAssumption, BoundAssumption
  <2>. TypeOK /\ Layout /\ ReturnLabels
    BY DEF IInv
  <2>0. /\ ni \in Instance /\ lv \in Locals /\ flash \in [Blocks -> Content]
        /\ oob \in SUBSET Blocks /\ skipped \in BOOLEAN
        /\ op \in [lb : Logical, val : Vals \cup {"none"}, pb : Blocks]
        /\ expect \in [Logical -> Vals \cup {"erased", "unknown"}]
        /\ lost \in BOOLEAN /\ ops \in 0 .. MaxOps /\ crashes \in 0 .. MaxCrashes
        /\ lv.bret \in AfterRebuild /\ lv.uret \in AfterUpdate
    BY DEF TypeOK, ReturnLabels
  <2>1. ASSUME NEW lb \in Logical, NEW val \in Vals \cup {"none"},
               StartOp([lb |-> lb, val |-> val, pb |-> 0])
        PROVE  /\ Laid(ni)
               /\ op' \in [lb : Logical, val : Vals \cup {"none"}, pb : Blocks]
               /\ op'.lb = lb /\ op'.val = val
               /\ expect' \in [Logical -> Vals \cup {"erased", "unknown"}]
               /\ ops' \in 0 .. MaxOps
    <3>1. Laid(ni)
      BY <2>1 DEF StartOp, Layout, Unlaid
    <3>2. /\ op' \in [lb : Logical, val : Vals \cup {"none"}, pb : Blocks]
          /\ op'.lb = lb /\ op'.val = val
      BY SMTT(30), <2>1 DEF StartOp, Blocks
    <3>3. expect' \in [Logical -> Vals \cup {"erased", "unknown"}]
      BY <2>0, <2>1 DEF StartOp, Expect
    <3>4. ops' \in 0 .. MaxOps
      BY SMTT(30), <2>0, <2>1 DEF StartOp
    <3>. QED
      BY <3>1, <3>2, <3>3, <3>4
  <2>2. ASSUME NEW lb \in Logical, StartErase(lb)
        PROVE  IInv'
    BY <2>0, <2>1, <2>2, <1>UserKept DEF StartErase, UserLevel, Laid
  <2>3. ASSUME NEW lb \in Logical, NEW v \in Vals, StartWrite(lb, v)
        PROVE  IInv'
    BY <2>0, <2>1, <2>3, <1>UserKept DEF StartWrite, UserLevel, Laid, Usable, Home
  <2>4. ASSUME NEW lb \in Logical, MarkBad(lb)
        PROVE  IInv'
    <3>. DEFINE n == [ni EXCEPT !.block_mapping = [ni.block_mapping EXCEPT ![lb] = -1]]
    <3>1. Laid(ni) /\ Home(lb) \in Blocks
      BY <2>0, <2>1, <2>4 DEF MarkBad, Home, Instance, MappingTable
    <3>2. n \in Instance /\ Laid(n)
      BY <2>0, <3>1, <1>UnmappedType
    <3>3. ni' = SetState(n, Home(lb), BAD)
      BY <2>0, <2>4 DEF MarkBad, Instance
    <3>. HIDE DEF n
    <3>4. ni' \in Instance /\ Laid(ni')
      BY SMTT(30), <3>1, <3>2, <3>3, <1>SetStateType DEF Laid, BlockState, BAD
    <3>5. CallUpdate("idle") /\ "idle" \in AfterUpdate
      BY <2>4 DEF MarkBad, AfterUpdate
    <3>6. /\ lv' \in Locals /\ lv'.bret \in AfterRebuild /\ lv'.uret \in AfterUpdate
          /\ pc' \in UserLevel \ {"page_write"}
      BY <2>0, <3>5, <1>CallUpdateType
    <3>7. oob' \in SUBSET Blocks
      BY <2>0, <2>4, <3>1 DEF MarkBad
    <3>. QED
      BY <2>0, <2>1, <2>4, <3>4, <3>6, <3>7, <1>UserKept DEF MarkBad
  <2>5. CASE StartDetach
    <3>1. Laid(ni') /\ ops' \in 0 .. MaxOps
      BY SMTT(30), <2>0, <2>5 DEF StartDetach, Layout, Unlaid, Laid
    <3>2. CallUpdate("detach") /\ "detach" \in AfterUpdate
      BY <2>5 DEF StartDetach, AfterUpdate
    <3>3. /\ lv' \in Locals /\ lv'.bret \in AfterRebuild /\ lv'.uret \in AfterUpdate
          /\ pc' \in UserLevel \ {"page_write"}
      BY <2>0, <3>2, <1>CallUpdateType
    <3>. QED
      BY <2>0, <2>5, <3>1, <3>3, <1>UserKept DEF StartDetach
  <2>. QED
    BY <2>2, <2>3, <2>4, <2>5

  \* The state after power comes back: nothing but the chip remains
<1>PoweredInv.
    ASSUME IInv, PowerOff, flash' \in [Blocks -> Content],
           \A b \in Blocks : flash'[b].kind = "sig" => flash[b].kind = "sig",
           crashes' \in 0 .. MaxCrashes
    PROVE  IInv'
  <2>. USE <1>PoweredInv
  <2>. USE GeometryAssumption, BoundAssumption
  <2>. TypeOK
    BY DEF IInv
  <2>1. ni' \in Instance
    BY InitType DEF PowerOff
  <2>2. lv' \in Locals /\ lv'.bret \in AfterRebuild /\ lv'.uret \in AfterUpdate
    BY InitType DEF PowerOff
  <2>3. op' \in [lb : Logical, val : Vals \cup {"none"}, pb : Blocks]
    BY InitType DEF PowerOff
  <2>4. lost' \in BOOLEAN
    BY DEF PowerOff, TypeOK
  <2>5. pc' = "off" /\ pc' \in Labels
    BY DEF PowerOff, Labels, UserLabels
  <2>6. TypeOK'
    BY <2>1, <2>2, <2>3, <2>4, <2>5 DEF PowerOff, TypeOK
  <2>7. Layout' /\ ReturnLabels' /\ Ranges' /\ PageWrite'
    BY <2>2, <2>5
       DEF Layout, Unlaid, ReturnLabels, Ranges, Writing, AfterWrite, PageWrite
  <2>8. Signature'
    BY <2>5 DEF IInv, Signature
  <2>. QED
    BY <2>6, <2>7, <2>8 DEF IInv

  \* nmbm_detach and a power failure at any point keep the invariant
<1>PowerInv.
    ASSUME IInv, Detached \/ Crash
    PROVE  IInv'
  <2>. USE <1>PowerInv
  <2>. USE GeometryAssumption, BoundAssumption
  <2>. TypeOK
    BY DEF IInv
  <2>1. CASE Detached
    BY <2>1, <1>PoweredInv DEF Detached, TypeOK
  <2>2. CASE Crash
    <3>1. PICK torn \in SUBSET Busy :
            flash' = [b \in Blocks |-> IF b \in torn THEN Junk ELSE flash[b]]
      BY <2>2 DEF Crash
    <3>2. flash' \in [Blocks -> Content]
      BY <3>1, ContentTypes DEF TypeOK
    <3>3. \A b \in Blocks : flash'[b].kind = "sig" => flash[b].kind = "sig"
      BY <3>1 DEF Junk
    <3>4. crashes' \in 0 .. MaxCrashes
      BY SMTT(30), <2>2 DEF Crash, TypeOK
    <3>. QED
      BY <2>2, <3>2, <3>3, <3>4, <1>PoweredInv DEF Crash
  <2>. QED
    BY <2>1, <2>2

  \* nmbm_check_info_table finds the top of the spare area between the table and
  \* the signature
<1>TopType.
    ASSUME NEW sg \in Blocks, NEW b \in Blocks, b < sg, NEW top \in Blocks,
           TopOf(sg, b, top)
    PROVE  b <= top /\ top < sg
  <2>. USE <1>TopType
  <2>. USE GeometryAssumption
  <2>1. /\ top + 1 \in {sg} \cup MappedAbove(b)
        /\ top + 1 <= sg
    BY DEF TopOf, IsLowest
  <2>2. \A x \in MappedAbove(b) : x \in b + 1 .. BlockCount - 1
    BY DEF MappedAbove
  <2>. QED
    BY SMTT(30), <2>1, <2>2 DEF Blocks

  \* nmbm_load_info_table yields a well-formed instance with a sound layout
<1>LoadedType.
    ASSUME TypeOK, NEW sg \in Blocks, NEW first \in Blocks, NEW second \in Blocks,
           NEW ecc, NEW top \in Blocks, NEW count \in 0 .. MgmtStart,
           first \in TablesOnChip, MgmtStart <= first, first <= sg - 2,
           second # 0 => /\ second \in TablesOnChip
                         /\ first < second /\ second <= sg - 2,
           TopOf(sg, Chosen(first, second), top),
           NEW n, n = LoadedInstance(sg, first, second, ecc, top, count)
    PROVE  /\ n \in Instance /\ Laid(n)
           /\ n.main_table_ba = first /\ n.backup_table_ba = second
           /\ Chosen(first, second) <= n.mapping_blocks_top_ba
  <2>. USE <1>LoadedType
  <2>. USE GeometryAssumption
  <2>. DEFINE st1 == flash[first].tbl.block_state
              last == IF second = 0 THEN sg - 2 ELSE second - 1
              marks1 == Found(AllGood, MgmtStart, first - 1, ecc)
              marks2 == Found(st1, first + 1, last, ecc)
              chosen == Chosen(first, second)
              t == flash[chosen].tbl
              st == IF chosen = first THEN Marked(st1, marks2) ELSE t.block_state
              changed == marks1 # {} \/ marks2 # {}
              mb == (IF second = 0 THEN first ELSE second) + 1
              m == [InitStructure EXCEPT
                      !.block_state = st, !.block_mapping = t.block_mapping,
                      !.changed = changed, !.write_count = t.write_count,
                      !.data_block_count = count,
                      !.main_table_ba = first, !.backup_table_ba = second,
                      !.mapping_blocks_ba = mb, !.mapping_blocks_top_ba = top,
                      !.signature_ba = sg]
  <2>1. n = Generate(m)
    BY DEF LoadedInstance
  <2>2. chosen \in TablesOnChip /\ MgmtStart <= chosen /\ chosen < sg
    BY SMTT(30) DEF Chosen, Blocks
  <2>3. chosen \in Blocks /\ t \in InfoTable /\ flash[first].tbl \in InfoTable
    BY <2>2, TableType
  <2>4. /\ t.block_mapping \in MappingTable /\ t.write_count \in Nat
        /\ t.block_state \in StateTable /\ st1 \in StateTable
    BY <2>3 DEF InfoTable
  <2>5. st \in StateTable
    BY <2>4, MarkedType
  <2>6. chosen <= top /\ top < sg
    BY <2>2, <2>3, <1>TopType
  <2>7. mb \in 0 .. BlockCount /\ MgmtStart <= mb /\ mb < sg
    BY SMTT(30) DEF Blocks
  <2>8. changed \in BOOLEAN
    OBVIOUS
  <2>9. MgmtStart <= top
    BY SMTT(30), <2>2, <2>3, <2>6 DEF Blocks
  <2>. HIDE DEF st1, last, marks1, marks2, chosen, t, st, changed, mb
  <2>10. m \in Instance
    BY <2>4, <2>5, <2>6, <2>7, <2>8, InitType DEF Instance
  <2>11. /\ m.main_table_ba = first /\ m.backup_table_ba = second
         /\ m.mapping_blocks_ba = mb /\ m.mapping_blocks_top_ba = top
         /\ m.signature_ba = sg
    BY InitType DEF Instance
  <2>. HIDE DEF m
  <2>12. /\ Generate(m) \in Instance
         /\ Generate(m).main_table_ba = first /\ Generate(m).backup_table_ba = second
         /\ Generate(m).mapping_blocks_ba = mb
         /\ Generate(m).mapping_blocks_top_ba = top /\ Generate(m).signature_ba = sg
    BY <2>10, <2>11, GenerateType
  <2>13. first < sg /\ second < sg /\ (second # 0 => MgmtStart <= second)
    BY SMTT(30) DEF Blocks
  <2>14. Laid(Generate(m))
    BY <2>6, <2>7, <2>9, <2>12, <2>13 DEF Laid
  <2>. QED
    BY <2>1, <2>6, <2>12, <2>14 DEF chosen

  \* Loading the tables keeps the invariant
<1>AttachLoadsInv.
    ASSUME IInv, AttachLoads
    PROVE  IInv'
  <2>. USE <1>AttachLoadsInv
  <2>. USE GeometryAssumption, Addresses, ReturnLabelsAreLabels
  <2>. TypeOK /\ ReturnLabels
    BY DEF IInv
  <2>1. PICK sg \in Blocks, first \in Blocks \ {0}, second \in Blocks,
             ecc \in SUBSET Torn, top \in Blocks, count \in 0 .. MgmtStart :
          /\ IsFirst(sg, first)
          /\ IsSecond(sg, first, second)
          /\ TopOf(sg, Chosen(first, second), top)
          /\ LoadedNext(LoadedInstance(sg, first, second, ecc, top, count), first, second)
    BY DEF AttachLoads
  <2>. PICK n : n = LoadedInstance(sg, first, second, ecc, top, count)
    OBVIOUS
  <2>. DEFINE wc1 == flash[first].tbl.write_count
              wc2 == flash[second].tbl.write_count
              nc == [n EXCEPT !.changed = TRUE]
  <2>2. first \in TablesOnChip /\ MgmtStart <= first /\ first <= sg - 2
    BY <2>1, FirstType
  <2>3. second # 0 => second \in TablesOnChip /\ first < second /\ second <= sg - 2
    BY <2>1, SecondType
  <2>4. /\ n \in Instance /\ Laid(n)
        /\ n.main_table_ba = first /\ n.backup_table_ba = second
        /\ Chosen(first, second) <= n.mapping_blocks_top_ba
    <3>1. TopOf(sg, Chosen(first, second), top)
      BY <2>1
    <3>. QED
      BY <2>2, <2>3, <3>1, <1>LoadedType, SMTT(30)
  <2>5. UNCHANGED <<flash, oob, skipped, userVars>>
    BY DEF AttachLoads
  <2>6. /\ wc1 \in Nat
        /\ second # 0 => wc2 \in Nat
    BY <2>2, <2>3, TableType DEF InfoTable
  <2>7. \/ second = 0 /\ WriteNext(n, MgmtStart, first, "rs_front")
        \/ second # 0 /\ wc1 < wc2 /\ WriteNext(nc, first, second, "us_main")
        \/ /\ second # 0 /\ wc1 > wc2
           /\ WriteNext(nc, second, n.mapping_blocks_top_ba, "us_backup")
        \/ ni' = n /\ ReturnTo("loaded", TRUE)
    BY <2>1 DEF LoadedNext
  <2>8. Chosen(first, second) = IF second # 0 /\ wc2 > wc1 THEN second ELSE first
    BY DEF Chosen
  <2>. HIDE DEF wc1, wc2
  <2>9. /\ nc \in Instance /\ Laid(nc)
        /\ nc.main_table_ba = first /\ nc.backup_table_ba = second
        /\ nc.mapping_blocks_top_ba = n.mapping_blocks_top_ba
    BY <2>4 DEF Instance, Laid
  <2>10. n.mapping_blocks_top_ba \in Blocks
    BY <2>4 DEF Instance
  <2>. HIDE DEF nc
  <2>11. CASE second = 0 /\ WriteNext(n, MgmtStart, first, "rs_front")
    <3>1. /\ lv' = CallWrite(lv, MgmtStart, first, "rs_front")
          /\ ni' = n /\ pc' = "write"
      BY <2>11 DEF WriteNext
    <3>2. lv' \in Locals
      BY <3>1, <1>CallWriteType DEF AfterWrite
    <3>3. /\ lv'.ba = MgmtStart /\ lv'.limit = first
          /\ lv'.ret = "rs_front" /\ lv'.bret = lv.bret /\ lv'.uret = lv.uret
      BY <3>1 DEF CallWrite, Locals
    <3>. QED
      BY SMTT(30), <2>2, <2>4, <2>5, <2>8, <2>11, <3>1, <3>2, <3>3, <1>EntersWrite
         DEF AfterWrite, ReturnLabels
  <2>12. CASE second # 0 /\ wc1 < wc2 /\ WriteNext(nc, first, second, "us_main")
    <3>1. /\ lv' = CallWrite(lv, first, second, "us_main")
          /\ ni' = nc /\ pc' = "write"
      BY <2>12 DEF WriteNext
    <3>2. lv' \in Locals
      BY <3>1, <1>CallWriteType DEF AfterWrite
    <3>3. /\ lv'.ba = first /\ lv'.limit = second
          /\ lv'.ret = "us_main" /\ lv'.bret = lv.bret /\ lv'.uret = lv.uret
      BY <3>1 DEF CallWrite, Locals
    <3>4. second <= n.mapping_blocks_top_ba /\ MgmtStart <= second
      BY SMTT(30), <2>2, <2>3, <2>4, <2>6, <2>8, <2>12
    <3>. QED
      BY <2>2, <2>5, <2>9, <3>1, <3>2, <3>3, <3>4, <1>EntersWrite
         DEF AfterWrite, ReturnLabels
  <2>13. CASE /\ second # 0 /\ wc1 > wc2
              /\ WriteNext(nc, second, n.mapping_blocks_top_ba, "us_backup")
    <3>1. /\ lv' = CallWrite(lv, second, n.mapping_blocks_top_ba, "us_backup")
          /\ ni' = nc /\ pc' = "write"
      BY <2>13 DEF WriteNext
    <3>2. lv' \in Locals
      BY <2>10, <3>1, <1>CallWriteType DEF AfterWrite
    <3>3. /\ lv'.ba = second /\ lv'.limit = n.mapping_blocks_top_ba
          /\ lv'.ret = "us_backup" /\ lv'.bret = lv.bret /\ lv'.uret = lv.uret
      BY <3>1 DEF CallWrite, Locals
    <3>4. MgmtStart <= second
      BY SMTT(30), <2>2, <2>3, <2>13
    <3>. QED
      BY SMTT(30), <2>5, <2>9, <2>10, <3>1, <3>2, <3>3, <3>4, <1>EntersWrite
         DEF AfterWrite, ReturnLabels
  <2>14. CASE ni' = n /\ ReturnTo("loaded", TRUE)
    <3>1. lv' \in Locals /\ lv'.bret = lv.bret /\ lv'.uret = lv.uret
      BY <2>14 DEF ReturnTo, Locals
    <3>. QED
      BY <2>4, <2>5, <2>14, <3>1, <1>Returns DEF ReturnTo
  <2>. QED
    BY <2>7, <2>11, <2>12, <2>13, <2>14

  \* Attaching to a chip without tables keeps the invariant
<1>AttachBuildsInv.
    ASSUME IInv, AttachNew \/ AttachRecreates
    PROVE  IInv'
  <2>. USE <1>AttachBuildsInv
  <2>. USE GeometryAssumption
  <2>. TypeOK /\ ReturnLabels /\ Signature
    BY DEF IInv
  <2>1. ASSUME NEW n \in Instance, NEW label, Builds(n, label)
        PROVE  ni' \in Instance /\ ni'.signature_ba = n.signature_ba /\ pc' = label
    <3>1. PICK m \in [Logical -> Logical \cup {-1}], count \in 0 .. MgmtStart :
            ni' = Scanned(n, m, count) /\ pc' = label
      BY <2>1 DEF Builds
    <3>2. m \in MappingTable
      BY SMTT(30) DEF MappingTable, Logical, Blocks
    <3>3. Marked(n.block_state, oob) \in StateTable
      BY MarkedType DEF Instance
    <3>4. (Marked(n.block_state, oob) # AllGood) \in BOOLEAN
      OBVIOUS
    <3>. QED
      BY <3>1, <3>2, <3>3, <3>4 DEF Scanned, Instance
  <2>2. ASSUME ni' \in Instance, lv' \in Locals, UNCHANGED <<lv.bret, lv.uret>>,
               pc' \in {"sig_write", "create"},
               UNCHANGED <<flash, oob, skipped, userVars>>,
               pc' = "sig_write" => lv'.ba < BlockCount,
               pc' = "create" => MgmtStart < ni'.signature_ba
        PROVE  IInv'
    <3>1. pc' \in Labels
      BY <2>2 DEF Labels, UserLabels
    <3>2. TypeOK'
      BY <2>2, <3>1 DEF TypeOK, userVars
    <3>3. Layout' /\ ReturnLabels' /\ PageWrite'
      BY <2>2 DEF Layout, Unlaid, ReturnLabels, PageWrite
    <3>4. Ranges'
      BY <2>2 DEF Ranges, Writing, AfterWrite
    <3>5. Signature'
      BY <2>2 DEF Signature
    <3>. QED
      BY <3>2, <3>3, <3>4, <3>5 DEF IInv
  <2>3. CASE AttachNew
    <3>1. ni' \in Instance /\ pc' = "sig_write"
      BY <2>1, <2>3, InitType DEF AttachNew
    <3>2. BlockCount - 1 \in 0 .. BlockCount
      BY SMTT(30)
    <3>3. /\ lv' \in Locals /\ lv'.ba = BlockCount - 1
          /\ UNCHANGED <<lv.bret, lv.uret>>
      BY <2>3, <3>2 DEF AttachNew, Locals, TypeOK
    <3>. QED
      BY SMTT(30), <2>2, <2>3, <3>1, <3>3 DEF AttachNew
  <2>4. CASE AttachRecreates
    <3>1. PICK sg \in Blocks, ecc \in SUBSET Torn :
            /\ IsSignature(sg)
            /\ Builds([InitStructure EXCEPT
                         !.block_state = Marked(AllGood,
                                                Found(AllGood, MgmtStart, sg - 2, ecc)),
                         !.mapping_blocks_top_ba = sg - 1,
                         !.signature_ba = sg],
                      "create")
      BY <2>4 DEF AttachRecreates
    <3>. DEFINE st == Marked(AllGood, Found(AllGood, MgmtStart, sg - 2, ecc))
                n == [InitStructure EXCEPT !.block_state = st,
                                           !.mapping_blocks_top_ba = sg - 1,
                                           !.signature_ba = sg]
    <3>2. MgmtStart < sg /\ sg - 1 \in Blocks
      BY SMTT(30), <3>1 DEF IsSignature, Signature, Blocks
    <3>3. st \in StateTable
      BY MarkedType DEF AllGood, StateTable, BlockState
    <3>. HIDE DEF st
    <3>4. n \in Instance /\ n.signature_ba = sg
      BY <3>2, <3>3, InitType DEF Instance
    <3>5. Builds(n, "create")
      BY <3>1 DEF st
    <3>. HIDE DEF n
    <3>6. ni' \in Instance /\ ni'.signature_ba = sg /\ pc' = "create"
      BY <2>1, <3>4, <3>5
    <3>. QED
      BY <2>2, <2>4, <3>2, <3>6 DEF AttachRecreates, TypeOK
  <2>. QED
    BY <2>3, <2>4

  \* nmbm_write_signature keeps the invariant
<1>SignatureInv.
    ASSUME IInv, \/ SigSkips \/ SigErases \/ SigFails \/ SigWritten \/ SigExhausted
    PROVE  IInv'
  <2>. USE <1>SignatureInv
  <2>. USE GeometryAssumption, Addresses
  <2>. TypeOK /\ ReturnLabels /\ Signature
    BY DEF IInv
  <2>1. ASSUME ni' \in Instance, lv' \in Locals, UNCHANGED <<lv.bret, lv.uret>>,
               pc' \in {"sig_write", "sig_program", "create", "failed"},
               flash' \in [Blocks -> Content], oob' \in SUBSET Blocks,
               UNCHANGED <<skipped, userVars>>, Signature'
        PROVE  IInv'
    <3>1. pc' \in Labels
      BY <2>1 DEF Labels, UserLabels
    <3>2. TypeOK'
      BY <2>1, <3>1 DEF TypeOK, userVars
    <3>3. Layout' /\ ReturnLabels' /\ PageWrite'
      BY <2>1 DEF Layout, Unlaid, ReturnLabels, PageWrite
    <3>4. Ranges'
      BY <2>1 DEF Ranges, Writing, AfterWrite
    <3>. QED
      BY <2>1, <3>2, <3>3, <3>4 DEF IInv
  <2>2. ASSUME LowerBlock, MgmtStart < lv.ba
        PROVE  lv' \in Locals /\ lv'.ba = lv.ba - 1 /\ UNCHANGED <<lv.bret, lv.uret>>
    <3>1. lv.ba - 1 \in 0 .. BlockCount
      BY SMTT(30), <2>2
    <3>. QED
      BY <2>2, <3>1 DEF LowerBlock, Locals
  <2>3. CASE SigSkips
    <3>1. lv' \in Locals /\ lv'.ba = lv.ba - 1 /\ UNCHANGED <<lv.bret, lv.uret>>
      BY <2>2, <2>3 DEF SigSkips
    <3>2. Signature'
      BY SMTT(30), <2>3, <3>1 DEF SigSkips, Signature
    <3>. QED
      BY <2>1, <2>3, <3>1, <3>2 DEF SigSkips, TypeOK
  <2>4. CASE SigErases
    <3>1. /\ pc = "sig_write" /\ pc' = "sig_program" /\ MgmtStart < lv.ba
          /\ flash' = [flash EXCEPT ![lv.ba] = Erased]
          /\ UNCHANGED <<oob, ni, lv, skipped, userVars>>
      BY <2>4 DEF SigErases, CanEraseSig
    <3>2. lv.ba \in Blocks
      BY SMTT(30), <3>1 DEF Signature, Blocks
    <3>3. flash' \in [Blocks -> Content]
      BY <3>1, <3>2, ContentTypes DEF TypeOK
    <3>4. Signature'
      BY <3>1, <3>2 DEF Signature, Erased, TypeOK
    <3>. QED
      BY <2>1, <3>1, <3>3, <3>4 DEF TypeOK
  <2>5. CASE SigFails
    <3>1. /\ MgmtStart < lv.ba /\ lv.ba \in Blocks
      BY <2>5 DEF SigFails, CanEraseSig, Signature, Blocks
    <3>2. /\ lv' \in Locals /\ lv'.ba = lv.ba - 1 /\ UNCHANGED <<lv.bret, lv.uret>>
          /\ pc' = "sig_write" /\ UNCHANGED <<skipped, userVars>>
      BY <2>2, <2>5, <3>1 DEF SigFails
    <3>3. /\ flash' = [flash EXCEPT ![lv.ba] = Junk]
          /\ oob' \in SUBSET Blocks /\ ni' \in Instance
      BY <2>5, <3>1, <1>SetStateType DEF SigFails, MarkFailed, TypeOK, BlockState, BAD
    <3>4. flash' \in [Blocks -> Content]
      BY <3>1, <3>3, ContentTypes DEF TypeOK
    <3>5. lv'.ba < BlockCount
      BY SMTT(30), <3>1, <3>2 DEF Blocks
    <3>6. Signature'
      BY <3>1, <3>2, <3>3, <3>5 DEF Signature, Junk, TypeOK
    <3>. QED
      BY <2>1, <3>2, <3>3, <3>4, <3>6
  <2>6. CASE SigWritten
    <3>1. /\ MgmtStart < lv.ba /\ lv.ba \in Blocks
      BY SMTT(30), <2>6 DEF SigWritten, Signature, Blocks
    <3>2. /\ flash' = [flash EXCEPT ![lv.ba] = Sig] /\ pc' = "create"
          /\ UNCHANGED <<oob, lv, skipped, userVars>>
      BY <2>6 DEF SigWritten
    <3>3. ni' \in Instance /\ ni'.signature_ba = lv.ba
      BY <2>6, <3>1 DEF SigWritten, Instance
    <3>4. flash' \in [Blocks -> Content]
      BY <3>1, <3>2, ContentTypes DEF TypeOK
    <3>5. Signature'
      BY <3>1, <3>2, <3>3 DEF Signature, TypeOK
    <3>. QED
      BY <2>1, <3>2, <3>3, <3>4, <3>5 DEF TypeOK
  <2>7. CASE SigExhausted
    <3>1. Signature'
      BY <2>7 DEF SigExhausted, Signature
    <3>. QED
      BY <2>1, <2>7, <3>1 DEF SigExhausted, TypeOK
  <2>. QED
    BY <2>3, <2>4, <2>5, <2>6, <2>7

  \* nmbm_create_info_table leaves room for the tables below the signature
<1>CreateTablesInv.
    ASSUME IInv, CreateTables
    PROVE  IInv'
  <2>. USE <1>CreateTablesInv
  <2>. USE GeometryAssumption, Addresses
  <2>. TypeOK /\ ReturnLabels /\ Signature
    BY DEF IInv
  <2>1. ASSUME NEW top \in Blocks, WalkDesc(ni, ni.signature_ba, 1, MgmtStart, top),
               CallRebuild(Generate([ni EXCEPT !.mapping_blocks_top_ba = top]),
                           "create_map")
        PROVE  IInv'
    <3>. DEFINE n == [ni EXCEPT !.mapping_blocks_top_ba = top]
    <3>1. MgmtStart < top /\ top <= ni.signature_ba
      BY SMTT(30), <2>1 DEF WalkDesc, Blocks
    <3>2. top # ni.signature_ba
      <4>. DEFINE G == {g \in top + 1 .. ni.signature_ba : ni.block_state[g] = GOOD}
      <4>1. Cardinality(G) = 1
        BY <2>1 DEF WalkDesc
      <4>2. top = ni.signature_ba => G = {}
        BY SMTT(30) DEF Blocks
      <4>. HIDE DEF G
      <4>3. G = {} => Cardinality(G) = 0
        BY <1>CardEmpty
      <4>. QED
        BY SMTT(30), <4>1, <4>2, <4>3
    <3>3. /\ n \in Instance /\ n.mapping_blocks_top_ba = top
          /\ n.signature_ba = ni.signature_ba
      BY DEF Instance
    <3>. HIDE DEF n
    <3>4. /\ Generate(n) \in Instance /\ Generate(n).mapping_blocks_top_ba = top
          /\ Generate(n).signature_ba = ni.signature_ba
      BY <3>3, GenerateType
    <3>5. CallRebuild(Generate(n), "create_map") /\ "create_map" \in AfterRebuild
      BY <2>1 DEF n, AfterRebuild
    <3>6. UNCHANGED <<flash, oob, skipped, userVars>>
      BY DEF CreateTables
    <3>7. MgmtStart <= top /\ top < ni.signature_ba
      BY SMTT(30), <3>1, <3>2 DEF Blocks
    <3>. QED
      BY <3>4, <3>5, <3>6, <3>7, <1>CallRebuildInv
  <2>2. ASSUME pc' = "failed", UNCHANGED <<ni, lv>>
        PROVE  IInv'
    <3>1. UNCHANGED <<flash, oob, skipped, userVars>>
      BY DEF CreateTables
    <3>2. TypeOK'
      BY <2>2, <3>1 DEF TypeOK, userVars, Labels, UserLabels
    <3>3. Layout' /\ ReturnLabels' /\ PageWrite' /\ Signature'
      BY <2>2, <3>1 DEF Layout, Unlaid, ReturnLabels, PageWrite, Signature
    <3>4. Ranges'
      BY <2>2 DEF Ranges, Writing, AfterWrite
    <3>. QED
      BY <3>2, <3>3, <3>4 DEF IInv
  <2>. QED
    BY <2>1, <2>2 DEF CreateTables

  \* Mapping the missing data blocks, and the end of the attach, keep the invariant
<1>CreateInv.
    ASSUME IInv, \/ AttachLoaded \/ CreateMaps \/ CreateMapped \/ CreateMapFails
                 \/ CreateClosesSpare \/ CreateReturns
    PROVE  IInv'
  <2>. USE <1>CreateInv
  <2>. USE GeometryAssumption, BoundAssumption
  <2>. TypeOK /\ Layout /\ ReturnLabels
    BY DEF IInv
  <2>0. /\ ni \in Instance /\ lv \in Locals /\ flash \in [Blocks -> Content]
        /\ oob \in SUBSET Blocks /\ skipped \in BOOLEAN
        /\ op \in [lb : Logical, val : Vals \cup {"none"}, pb : Blocks]
        /\ expect \in [Logical -> Vals \cup {"erased", "unknown"}]
        /\ lost \in BOOLEAN /\ ops \in 0 .. MaxOps /\ crashes \in 0 .. MaxCrashes
        /\ lv.bret \in AfterRebuild /\ lv.uret \in AfterUpdate
    BY DEF TypeOK, ReturnLabels
  <2>1. pc \in UserLevel => Laid(ni)
    BY DEF Layout, Unlaid, UserLevel
  <2>2. CASE AttachLoaded
    <3>1. Laid(ni)
      BY <2>1, <2>2 DEF AttachLoaded, UserLevel
    <3>2. /\ (\/ ni.mapping_blocks_ba = ni.mapping_blocks_top_ba \/ ~lv.ok) \in BOOLEAN
      OBVIOUS
    <3>3. ni' \in Instance
      BY <2>0, <2>2, <3>2 DEF AttachLoaded, Instance
    <3>4. Laid(ni')
      BY <2>0, <2>2, <3>1 DEF AttachLoaded, Laid, Instance
    <3>5. pc' = "idle" /\ pc' \in UserLevel
      BY <2>2 DEF AttachLoaded, UserLevel
    <3>. QED
      BY <2>0, <2>2, <3>3, <3>4, <3>5, <1>UserKept DEF AttachLoaded, userVars
  <2>3. CASE CreateMaps
    <3>1. Laid(ni) /\ ni.data_block_count < MgmtStart
      BY <2>1, <2>3 DEF CreateMaps, UserLevel
    <3>2. PICK pb \in Blocks :
            /\ Spare(ni, pb)
            /\ ni' = [MapTo(ni, ni.data_block_count, pb) EXCEPT
                        !.data_block_count = ni.data_block_count + 1]
            /\ StepsOver(pb)
      BY <2>3 DEF CreateMaps
    <3>3. ni.data_block_count \in Logical /\ ni.data_block_count + 1 \in 0 .. MgmtStart
      BY SMTT(30), <2>0, <3>1 DEF Instance, Logical
    <3>. DEFINE n == MapTo(ni, ni.data_block_count, pb)
    <3>4. n \in Instance /\ Laid(n)
      BY <2>0, <3>1, <3>2, <3>3, MapToType
    <3>. HIDE DEF n
    <3>5. ni' = [n EXCEPT !.data_block_count = ni.data_block_count + 1]
      BY <3>2 DEF n
    <3>6. ni' \in Instance /\ Laid(ni')
      BY <3>3, <3>4, <3>5 DEF Instance, Laid
    <3>7. skipped' \in BOOLEAN
      BY <3>2 DEF StepsOver
    <3>8. pc' = "create_map" /\ pc' \in UserLevel
      BY <2>3 DEF CreateMaps, UserLevel
    <3>. QED
      BY <2>0, <2>3, <3>6, <3>7, <3>8, <1>UserKept DEF CreateMaps, userVars
  <2>4. CASE CreateMapped
    <3>1. Laid(ni')
      BY <2>1, <2>4 DEF CreateMapped, UserLevel, Laid
    <3>2. CallUpdate("created") /\ "created" \in AfterUpdate
      BY <2>4 DEF CreateMapped, AfterUpdate
    <3>3. /\ lv' \in Locals /\ lv'.bret \in AfterRebuild /\ lv'.uret \in AfterUpdate
          /\ pc' \in UserLevel \ {"page_write"}
      BY <2>0, <3>2, <1>CallUpdateType
    <3>. QED
      BY <2>0, <2>4, <3>1, <3>3, <1>UserKept DEF CreateMapped, userVars
  <2>5. CASE CreateMapFails
    <3>1. Laid(ni')
      BY <2>1, <2>5 DEF CreateMapFails, UserLevel, Laid
    <3>2. CallUpdate("create_top") /\ "create_top" \in AfterUpdate
      BY <2>5 DEF CreateMapFails, AfterUpdate
    <3>3. /\ lv' \in Locals /\ lv'.bret \in AfterRebuild /\ lv'.uret \in AfterUpdate
          /\ pc' \in UserLevel \ {"page_write"}
      BY <2>0, <3>2, <1>CallUpdateType
    <3>. QED
      BY <2>0, <2>5, <3>1, <3>3, <1>UserKept DEF CreateMapFails, userVars
  <2>6. CASE CreateClosesSpare
    <3>1. Laid(ni) /\ ni.mapping_blocks_ba \in Blocks
      BY <2>1, <2>6, SpareStart DEF CreateClosesSpare, UserLevel, Unlaid
    <3>2. ni' \in Instance /\ Laid(ni')
      BY <2>6, <3>1, ClosedType DEF CreateClosesSpare, CloseSpareArea
    <3>3. CallUpdate("created") /\ "created" \in AfterUpdate
      BY <2>6 DEF CreateClosesSpare, AfterUpdate
    <3>4. /\ lv' \in Locals /\ lv'.bret \in AfterRebuild /\ lv'.uret \in AfterUpdate
          /\ pc' \in UserLevel \ {"page_write"}
      BY <2>0, <3>3, <1>CallUpdateType
    <3>. QED
      BY <2>0, <2>6, <3>2, <3>4, <1>UserKept DEF CreateClosesSpare, userVars
  <2>7. CASE CreateReturns
    <3>1. Laid(ni) /\ UNCHANGED <<flash, oob, ni, lv, skipped, userVars>>
      BY <2>1, <2>7 DEF CreateReturns, UserLevel
    <3>2. CASE pc' = "idle"
      BY <2>0, <3>1, <3>2, <1>UserKept DEF UserLevel, Laid, userVars
    <3>3. CASE pc' = "failed"
      <4>1. TypeOK'
        BY <3>1, <3>3 DEF TypeOK, userVars, Labels, UserLabels
      <4>2. Layout' /\ ReturnLabels' /\ PageWrite' /\ Signature'
        BY <3>1, <3>3 DEF Layout, Unlaid, ReturnLabels, PageWrite, Signature, IInv
      <4>3. Ranges'
        BY <3>3 DEF Ranges, Writing, AfterWrite
      <4>. QED
        BY <4>1, <4>2, <4>3 DEF IInv
    <3>. QED
      BY <2>7, <3>2, <3>3 DEF CreateReturns
  <2>. QED
    BY <2>2, <2>3, <2>4, <2>5, <2>6, <2>7

  \* A step in which nothing changes keeps the invariant
<1>StutterInv.
    ASSUME IInv, UNCHANGED vars
    PROVE  IInv'
  <2>. USE <1>StutterInv
  <2>. UNCHANGED <<flash, oob, ni, pc, lv, skipped, op, expect, lost, ops, crashes>>
    BY DEF vars, tableVars, userVars
  <2>1. TypeOK' /\ ReturnLabels' /\ PageWrite'
    BY DEF IInv, TypeOK, ReturnLabels, PageWrite, Home
  <2>2. Layout' /\ Signature'
    BY DEF IInv, Layout, Laid, Signature
  <2>3. Ranges'
    BY DEF IInv, Ranges, TableBlock
  <2>. QED
    BY <2>1, <2>2, <2>3 DEF IInv

<1>. QED
  <2>. SUFFICES ASSUME IInv, [Next]_vars
                PROVE  IInv'
    OBVIOUS
  <2>1. CASE Step
    <3>1. CASE BlockStep /\ UNCHANGED userVars
      BY <3>1, <1>BlockStepInv
    <3>2. CASE TableStep /\ UNCHANGED userVars
      BY <3>2, <1>TableStepInv
    <3>3. CASE AttachStep
      BY <3>3, <1>AttachLoadsInv, <1>AttachBuildsInv, <1>SignatureInv, <1>CreateTablesInv, <1>CreateInv
         DEF AttachStep
    <3>4. CASE LogicStep
      BY <3>4, <1>LogicStepInv, <1>PowerInv
    <3>. QED
      BY <2>1, <3>1, <3>2, <3>3, <3>4 DEF Step
  <2>2. CASE UNCHANGED vars
    BY <2>2, <1>StutterInv
  <2>. QED
    BY <2>1, <2>2, <1>StartInv, <1>PowerInv DEF Next

\* The invariant holds in every state the driver can reach
THEOREM Invariance == Spec => []IInv
  BY InitInv, NextInv, PTL DEF Spec

\* Type correctness: on a chip of any size, whichever blocks fail and however
\* often power is lost, nmbm-core.c only ever computes addresses of blocks of
\* the chip and only writes well-formed tables.
THEOREM TypeCorrect == Spec => []TypeOK
<1>1. IInv => TypeOK
  BY DEF IInv
<1>. QED
  BY <1>1, Invariance, PTL

\* nmbm_write_mgmt_range and nmbm_erase_range never touch the data area, a
\* remapped block or the signature, whoever called them.
THEOREM Confinement == Spec => []TableWritesConfined
<1>1. IInv => TableWritesConfined
  BY DEF IInv, Layout, Laid, Unlaid, Ranges, TableWritesConfined, Writing
<1>. QED
  BY <1>1, Invariance, PTL
=============================================================================
