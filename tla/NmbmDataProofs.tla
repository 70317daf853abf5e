--------------------------- MODULE NmbmDataProofs ---------------------------
(***************************************************************************)
(* Every step of nmbm-core.c keeps DataInv, the invariant of the user's    *)
(* data, for every size of chip, every pattern of failing blocks and any   *)
(* number of operations and power failures: it loses nothing that it has   *)
(* acknowledged.                                                           *)
(***************************************************************************)
EXTENDS NmbmData, NmbmRecordProofs

USE ZenonT(60)

-----------------------------------------------------------------------------
(* What a step has to keep                                                  *)

\* The history is left alone
LEMMA SameHistory ==
    ASSUME expect' = expect
    PROVE  Known' = Known /\ \A lb : Acknowledged(lb)' = Acknowledged(lb)
  BY DEF Known, Acknowledged

\* The blocks with acknowledged data, their mapping and their records are kept
LEMMA HeldKept ==
    ASSUME Held, expect' = expect,
           \A lb \in Known :
             /\ ni'.block_mapping[lb] = Home(lb)
             /\ lb < ni'.data_block_count
             /\ flash'[Home(lb)] = flash[Home(lb)]
             /\ Home(lb) \in oob \/ ni.block_state[Home(lb)] # BAD =>
                  Home(lb) \in oob' \/ ni'.block_state[Home(lb)] # BAD
             /\ \A b \in TablesOnChip' : Tbl(b)'.block_mapping[lb] = Home(lb)
    PROVE  Held'
<1>1. Known' = Known /\ \A lb : Acknowledged(lb)' = Acknowledged(lb)
  BY SameHistory
<1>. SUFFICES ASSUME NEW lb \in Known
     PROVE  /\ ni'.block_mapping[lb] # -1
            /\ flash'[ni'.block_mapping[lb]] = Acknowledged(lb)
            /\ \/ ni'.block_mapping[lb] \in oob'
               \/ ni'.block_state[ni'.block_mapping[lb]] # BAD
            /\ lb < ni'.data_block_count
            /\ \A b \in TablesOnChip' : Tbl(b)'.block_mapping[lb] = ni'.block_mapping[lb]
  BY <1>1 DEF Held, Leads, Home
<1>2. /\ Home(lb) # -1 /\ flash[Home(lb)] = Acknowledged(lb)
      /\ Home(lb) \in oob \/ ni.block_state[Home(lb)] # BAD
  BY DEF Held, Leads, Home
<1>3. /\ ni'.block_mapping[lb] = Home(lb)
      /\ lb < ni'.data_block_count
      /\ flash'[Home(lb)] = flash[Home(lb)]
      /\ Home(lb) \in oob' \/ ni'.block_state[Home(lb)] # BAD
      /\ \A b \in TablesOnChip' : Tbl(b)'.block_mapping[lb] = Home(lb)
  BY <1>2
<1>. QED
  BY <1>2, <1>3

\* The tables lead to the acknowledged data because the mapping in memory does
LEMMA TablesLeadBy ==
    ASSUME TypeOK', Held', BadKnown'
    PROVE  TablesLead'
<1>1. ASSUME NEW b \in TablesOnChip', NEW lb \in Known'
      PROVE  /\ Tbl(b)'.block_mapping[lb] = ni'.block_mapping[lb]
             /\ Tbl(b)'.block_mapping[lb] # -1
             /\ flash'[Tbl(b)'.block_mapping[lb]] = Acknowledged(lb)'
             /\ \/ Tbl(b)'.block_mapping[lb] \in oob'
                \/ Tbl(b)'.block_state[Tbl(b)'.block_mapping[lb]] # BAD
  <2>1. Tbl(b)'.block_mapping[lb] = ni'.block_mapping[lb]
    BY DEF Held, Home
  <2>2. /\ ni'.block_mapping[lb] # -1
        /\ flash'[ni'.block_mapping[lb]] = Acknowledged(lb)'
        /\ \/ ni'.block_mapping[lb] \in oob'
           \/ ni'.block_state[ni'.block_mapping[lb]] # BAD
    BY DEF Held, Leads
  <2>3. ni'.block_mapping[lb] \in Blocks
    BY <2>2 DEF TypeOK, Instance, MappingTable, Known
  <2>4. Tbl(b)'.block_state[ni'.block_mapping[lb]] = BAD =>
          ni'.block_state[ni'.block_mapping[lb]] = BAD
    BY <2>3 DEF BadKnown, FewerBad
  <2>. QED
    BY <2>1, <2>2, <2>4
<1>2. \A b \in TablesOnChip' : Leads(Tbl(b).block_mapping, Tbl(b).block_state)'
  BY <1>1 DEF Leads
<1>3. \A b, c \in TablesOnChip', lb \in Known' :
        Tbl(b)'.block_mapping[lb] = Tbl(c)'.block_mapping[lb]
  BY <1>1
<1>. QED
  BY <1>2, <1>3 DEF TablesLead

\* No table comes to the chip
LEMMA BadKept ==
    ASSUME TablesOnChip' \subseteq TablesOnChip,
           \A b \in TablesOnChip' : Tbl(b)' = Tbl(b)
    PROVE  /\ BadAgree => BadAgree'
           /\ /\ BadKnown
              /\ ni'.info_table_cache = ni.info_table_cache
              /\ FewerBad(ni.block_state, ni'.block_state)
              => BadKnown'
<1>1. BadAgree => BadAgree'
  BY DEF BadAgree
<1>2. ASSUME BadKnown, ni'.info_table_cache = ni.info_table_cache,
             FewerBad(ni.block_state, ni'.block_state)
      PROVE  BadKnown'
  BY <1>2 DEF BadKnown, FewerBad
<1>. QED
  BY <1>1, <1>2

\* A procedure is writing a table, or has just written one
LEMMA WritingCurrent ==
    ASSUME NEW r \in AfterWrite, \/ pc' \in {"write", "program"} /\ lv'.ret = r
                                 \/ pc' = r,
           Records(ni'.info_table_cache.block_mapping, ni'.block_mapping),
           r # "upd_backup" =>
             \A b \in Safe(r)' : Records(Tbl(b)'.block_mapping, ni'.block_mapping),
           pc' = r /\ lv'.ok =>
             Records(flash'[lv'.start].tbl.block_mapping, ni'.block_mapping)
    PROVE  Current' /\ InWrite' /\ Writer' = r
<1>1. r \notin {"write", "program", "upd_ret"}
  BY DEF AfterWrite
<1>2. InWrite' /\ Writer' = r
  BY <1>1 DEF InWrite, Writer
<1>3. pc' # "upd_ret" /\ (pc' \in AfterWrite => pc' = r)
  BY <1>1 DEF AfterWrite
<1>4. r # "upd_backup" => Fit(Safe(Writer))'
  BY <1>2 DEF Fit
<1>5. pc' = r /\ lv'.ok => Fit({lv.start})'
  BY DEF Fit, Tbl
<1>. QED
  BY <1>2, <1>3, <1>4, <1>5 DEF Current

\* No procedure is writing a table
LEMMA SettledCurrent ==
    ASSUME ~InWrite',
           \/ \A b \in TablesOnChip' : Records(Tbl(b)'.block_mapping, ni'.block_mapping)
           \/ pc' \in Ahead /\ ni'.changed,
           pc' = "upd_ret" /\ ~lv'.ok => TablesOnChip' = {}
    PROVE  Current'
<1>1. pc' \notin AfterWrite
  BY DEF InWrite
<1>2. Fit(TablesOnChip)' \/ (pc' \in Ahead /\ ni'.changed)
  BY DEF Fit, Tbl
<1>. QED
  BY <1>1, <1>2 DEF Current

-----------------------------------------------------------------------------
(* The procedures that write the tables                                     *)

\* What has been acknowledged, and the blocks recorded as BAD
Steady == BadAgree /\ BadKnown /\ (~lost => TablesLead /\ Held)

\* The chip and the mapping are left alone
LEMMA SteadyKept ==
    ASSUME TypeOK', Steady, UNCHANGED <<flash, oob, expect, lost>>,
           ni'.block_mapping = ni.block_mapping, ni'.block_state = ni.block_state,
           ni'.data_block_count = ni.data_block_count,
           \/ ni'.info_table_cache = ni.info_table_cache
           \/ ni'.info_table_cache.block_state = ni.block_state
    PROVE  Steady'
<1>1. /\ TablesOnChip' = TablesOnChip
      /\ \A b \in TablesOnChip' : Tbl(b)' = Tbl(b)
  BY SameChip
<1>2. BadAgree' /\ BadKnown'
  BY <1>1, BadKept DEF Steady, BadKnown, FewerBad
<1>3. ASSUME ~lost' PROVE Held' /\ TablesLead'
  <2>1. Held
    BY <1>3 DEF Steady
  <2>2. Held'
    BY <1>1, <2>1, HeldKept DEF Held, Home
  <2>. QED
    BY <1>2, <2>2, TablesLeadBy
<1>. QED
  BY <1>2, <1>3 DEF Steady

\* What a step of the table code leaves alone
TableKeeps ==
    /\ UNCHANGED <<flash, oob>> /\ lv'.uret = lv.uret
    /\ ni'.block_mapping = ni.block_mapping /\ ni'.block_state = ni.block_state
    /\ ni'.data_block_count = ni.data_block_count

LEMMA ReturnStepsKeep ==
    ASSUME TypeOK, TableStep, ~UpdateOnce, ~RebuildMainFailed
    PROVE  /\ TableKeeps /\ ni'.info_table_cache = ni.info_table_cache
           /\ ni'.protected = ni.protected
<1>. lv \in Locals /\ ni \in Instance
  BY DEF TypeOK
<1>. USE DEF TableKeeps
<1>1. CASE RebuildMainWritten \/ RebuildBackupWritten \/ RebuildBackupFailed
  BY <1>1 DEF RebuildMainWritten, RebuildBackupWritten, RebuildBackupFailed, WriteNext,
              EraseRange, CallWrite, ReturnTo, Locals, Instance
<1>2. CASE RescueSingleFront \/ RescueSingleBehind \/ RescueSingleRetry
             \/ RescueSingleWritten \/ RescueSingleErased
  BY <1>2 DEF RescueSingleFront, RescueSingleBehind, RescueSingleRetry, RescueSingleWritten,
              RescueSingleErased, RetryLower, EraseRange, CallWrite, ReturnTo, Locals,
              Instance
<1>3. CASE UpdateSingleMain \/ UpdateSingleBackup
  BY <1>3 DEF UpdateSingleMain, UpdateSingleBackup, WriteNext, CallWrite, ReturnTo, Locals,
              Instance
<1>4. CASE UpdateDone \/ UpdateOnceReturns
  BY <1>4 DEF UpdateDone, UpdateOnceReturns, ReturnTo, Locals, Instance
<1>5. CASE UpdateBackupReturns
  BY <1>5 DEF UpdateBackupReturns, WriteMainTable, CallRebuild, WriteNext, CallWrite, Locals,
              Instance
<1>6. CASE UpdateMainWritten \/ UpdateMainFailed \/ RescueMainTmpFailed
  BY <1>6 DEF UpdateMainWritten, UpdateMainFailed, RescueMainTmpFailed, BackupBecomesMain,
              CallRebuild, RetryLower, CallWrite, ReturnTo, Locals, Instance
<1>7. CASE RescueMainTmpWritten \/ RescueMainReturns
  BY <1>7 DEF RescueMainTmpWritten, RescueMainReturns, CallWrite, ReturnTo, Locals, Instance
<1>. QED
  BY <1>1, <1>2, <1>3, <1>4, <1>5, <1>6, <1>7 DEF TableStep

\* The label nmbm_write_info_table returns to is not one of its own
LEMMA WriterAfter ==
    ASSUME pc \in AfterWrite
    PROVE  InWrite /\ Writer = pc /\ pc \notin {"write", "program", "erase_range", "rs_erased"}
  BY DEF AfterWrite, InWrite, Writer

\* When a table was written, or could not be, all tables record the mapping, but
\* the main table when the backup table was the first to get it
LEMMA ReturnsFit ==
    ASSUME Session, Current, pc \in AfterWrite
    PROVE  /\ pc # "upd_backup" => Fit(TablesOnChip)
           /\ Records(ni.info_table_cache.block_mapping, ni.block_mapping)
<1>1. InWrite /\ Writer = pc
  BY WriterAfter
<1>2. TablesOnChip = IF lv.ok THEN Safe(pc) \cup {lv.start} ELSE Safe(pc)
  BY DEF Session, Holders
<1>3. pc # "upd_backup" => Fit(Safe(pc))
  BY <1>1 DEF Current
<1>4. lv.ok => Fit({lv.start})
  BY DEF Current
<1>5. Records(ni.info_table_cache.block_mapping, ni.block_mapping)
  BY <1>1 DEF Current
<1>. QED
  BY <1>2, <1>3, <1>4, <1>5 DEF Fit

\* While nmbm_write_info_table runs, the tables it does not replace are there
LEMMA SafeThere ==
    ASSUME Session', InWrite'
    PROVE  /\ Safe(Writer)' \subseteq TablesOnChip'
           /\ pc' \in AfterWrite /\ lv'.ok => lv'.start \in TablesOnChip'
<1>1. /\ pc' = "write" => Safe(lv.ret)' \subseteq TablesOnChip'
      /\ pc' = "program" => TablesOnChip' = Safe(lv.ret)'
      /\ pc' \in AfterWrite =>
           TablesOnChip' = IF lv'.ok THEN Safe(pc)' \cup {lv'.start} ELSE Safe(pc)'
  BY DEF Session, Holders
<1>2. /\ pc' \in {"write", "program"} => Safe(Writer)' = Safe(lv.ret)'
      /\ pc' \notin {"write", "program"} => Safe(Writer)' = Safe(pc)'
  BY DEF Writer
<1>3. CASE pc' \in {"write", "program"}
  BY <1>1, <1>2, <1>3 DEF AfterWrite
<1>4. CASE pc' \in AfterWrite
  BY <1>1, <1>2, <1>4 DEF AfterWrite
<1>. QED
  BY <1>3, <1>4 DEF InWrite

\* From a label at which all tables record the mapping
LEMMA FitMoves ==
    ASSUME Session', Fit(TablesOnChip), UNCHANGED <<flash, oob>>,
           ni'.block_mapping = ni.block_mapping,
           InWrite' => Records(ni'.info_table_cache.block_mapping, ni'.block_mapping),
           pc' = "upd_ret" /\ ~lv'.ok => TablesOnChip = {}
    PROVE  Current'
<1>1. /\ TablesOnChip' = TablesOnChip
      /\ \A b \in TablesOnChip' : Tbl(b)' = Tbl(b)
  BY SameChip
<1>2. Fit(TablesOnChip)'
  BY <1>1 DEF Fit
<1>3. CASE InWrite'
  <2>1. /\ Safe(Writer)' \subseteq TablesOnChip'
        /\ pc' \in AfterWrite /\ lv'.ok => lv'.start \in TablesOnChip'
    BY <1>3, SafeThere
  <2>2. Fit(Safe(Writer))' /\ (pc' \in AfterWrite /\ lv'.ok => Fit({lv.start})')
    BY <1>2, <2>1 DEF Fit
  <2>. QED
    BY <1>1, <1>3, <2>2 DEF Current
<1>4. CASE ~InWrite'
  BY <1>1, <1>2, <1>4 DEF Current, InWrite
<1>. QED
  BY <1>3, <1>4

\* There is a table on the chip or one is being written, and so one on record
LEMMA TableOnRecord ==
    ASSUME Session', pc' \notin Unlaid, TablesOnChip' # {}, ~InWrite'
    PROVE  ni'.main_table_ba # 0
<1>1. CASE Rescued'
  BY <1>1 DEF Session, OnRecord
<1>2. CASE ~Rescued'
  <2>1. TablesOnChip' = Tables({ni.main_table_ba, ni.backup_table_ba})'
    BY <1>2 DEF Session, Holders, Settled
  <2>2. ni'.backup_table_ba # 0 => ni'.main_table_ba # 0
    BY DEF Session, Regions
  <2>. QED
    BY <2>1, <2>2 DEF Tables
<1>. QED
  BY <1>1, <1>2

\* A step of the table code that returns keeps the operation
LEMMA TableOperation ==
    ASSUME IInv, Operation, TableStep, TableKeeps, UNCHANGED userVars
    PROVE  Operation'
<1>1. op' = op /\ Known' = Known
  BY DEF userVars, Known
<1>2. pc \in TableLabels
  BY DEF TableStep, RebuildMainWritten, RebuildMainFailed, RebuildBackupWritten,
         RebuildBackupFailed, RescueSingleFront, RescueSingleBehind, RescueSingleRetry,
         RescueSingleWritten, RescueSingleErased, UpdateSingleMain, UpdateSingleBackup,
         UpdateDone, UpdateOnce, UpdateBackupReturns, UpdateMainWritten, UpdateMainFailed,
         RescueMainTmpFailed, RescueMainTmpWritten, RescueMainReturns, UpdateOnceReturns,
         TableLabels
<1>3. pc' \in TableLabels \cup {"loaded", "create_map", lv.uret}
  <2>1. lv.bret \in {"create_map", "upd_ret"}
    BY DEF IInv, ReturnLabels, AfterRebuild
  <2>. QED
    BY <2>1 DEF TableStep, RebuildMainWritten, RebuildMainFailed, RebuildBackupWritten,
         RebuildBackupFailed, RescueSingleFront, RescueSingleBehind, RescueSingleRetry,
         RescueSingleWritten, RescueSingleErased, UpdateSingleMain, UpdateSingleBackup,
         UpdateDone, UpdateOnce, UpdateBackupReturns, UpdateMainWritten, UpdateMainFailed,
         RescueMainTmpFailed, RescueMainTmpWritten, RescueMainReturns, UpdateOnceReturns,
         TableLabels, WriteMainTable, CallRebuild, WriteNext, EraseRange, RetryLower,
         ReturnTo, BackupBecomesMain
<1>4. lv.uret \in Pending \cup {"idle", "detach", "create_top", "created"}
  BY DEF IInv, ReturnLabels, AfterUpdate, Pending
<1>5. lv'.uret = lv.uret
  BY DEF TableKeeps
<1>6. pc' # "page_write"
  BY <1>3, <1>4 DEF TableLabels, Pending
<1>7. (Operating' => Operating) /\ (Remapping' => Remapping)
  BY <1>2, <1>3, <1>4, <1>5 DEF Operating, Remapping, Pending, TableLabels
<1>. QED
  BY <1>1, <1>6, <1>7 DEF Operation, TableKeeps, Home

\* Nothing holds a protected instance, and one without a table is protected
LEMMA ProtectionBy ==
    ASSUME Session', pc' \notin Unlaid, ~ni'.protected, TablesOnChip' # {} \/ InWrite'
    PROVE  Protection'
<1>1. ~InWrite' => ni'.main_table_ba # 0
  BY TableOnRecord
<1>. QED
  BY <1>1 DEF Protection

\* The label at which each step of the table code starts
LEMMA TableStepAt ==
    ASSUME TableStep
    PROVE  /\ pc \in AfterWrite \cup {"rs_erased", "update", "upd_ret"}
           /\ UpdateBackupReturns <=> pc = "upd_backup"
           /\ RescueSingleErased <=> pc = "rs_erased"
           /\ UpdateOnceReturns <=> pc = "upd_ret"
           /\ UpdateDone \/ UpdateOnce <=> pc = "update"
  BY DEF TableStep, RebuildMainWritten, RebuildMainFailed, RebuildBackupWritten,
         RebuildBackupFailed, RescueSingleFront, RescueSingleBehind, RescueSingleRetry,
         RescueSingleWritten, RescueSingleErased, UpdateSingleMain, UpdateSingleBackup,
         UpdateDone, UpdateOnce, UpdateBackupReturns, UpdateMainWritten, UpdateMainFailed,
         RescueMainTmpFailed, RescueMainTmpWritten, RescueMainReturns, UpdateOnceReturns,
         AfterWrite

\* A procedure goes on after nmbm_write_info_table wrote a table or failed to
LEMMA WriteReturnsData ==
    ASSUME IInv, Session, Session', pc' \notin Unlaid, Current, Protection, TableStep,
           pc \in AfterWrite, pc # "upd_backup", ~RebuildMainFailed
    PROVE  Current' /\ Protection'
<1>1. TypeOK /\ ReturnLabels
  BY DEF IInv
<1>2. ~UpdateOnce
  BY DEF UpdateOnce, AfterWrite
<1>3. /\ TableKeeps /\ ni'.info_table_cache = ni.info_table_cache
      /\ ni'.protected = ni.protected
  BY <1>1, <1>2, ReturnStepsKeep
<1>4. InWrite /\ Writer = pc
  BY WriterAfter
<1>5. ~ni'.protected
  BY <1>3, <1>4 DEF Protection
<1>6. Fit(TablesOnChip) /\ Records(ni.info_table_cache.block_mapping, ni.block_mapping)
  BY ReturnsFit
<1>7. TablesOnChip' = TablesOnChip
  BY <1>3, SameChip DEF TableKeeps
<1>8. TablesOnChip # {} \/ InWrite'
  <2>1. CASE lv.ok
    BY <2>1, WriteReturned
  <2>2. CASE ~lv.ok /\ pc = "upd_main" /\ ni.backup_table_ba = 0
    <3>1. UpdateMainFailed
      BY <2>2 DEF TableStep, RebuildMainWritten, RebuildMainFailed, RebuildBackupWritten,
         RebuildBackupFailed, RescueSingleFront, RescueSingleBehind, RescueSingleRetry,
         RescueSingleWritten, RescueSingleErased, UpdateSingleMain, UpdateSingleBackup,
         UpdateDone, UpdateOnce, UpdateBackupReturns, UpdateMainWritten,
         RescueMainTmpFailed, RescueMainTmpWritten, RescueMainReturns, UpdateOnceReturns
    <3>2. pc' = "write"
      BY <2>2, <3>1 DEF UpdateMainFailed, CallRebuild
    <3>. QED
      BY <3>2 DEF InWrite
  <2>3. CASE ~lv.ok /\ pc = "reb_main"
    BY <2>3 DEF TableStep, RebuildMainWritten, RebuildMainFailed, RebuildBackupWritten,
         RebuildBackupFailed, RescueSingleFront, RescueSingleBehind, RescueSingleRetry,
         RescueSingleWritten, RescueSingleErased, UpdateSingleMain, UpdateSingleBackup,
         UpdateDone, UpdateOnce, UpdateBackupReturns, UpdateMainWritten, UpdateMainFailed,
         RescueMainTmpFailed, RescueMainTmpWritten, RescueMainReturns, UpdateOnceReturns
  <2>4. CASE ~lv.ok /\ pc # "reb_main" /\ ~(pc = "upd_main" /\ ni.backup_table_ba = 0)
    <3>1. TablesOnChip = Safe(pc)
      BY <2>4, WriteReturned
    <3>2. /\ ni.main_table_ba # 0
          /\ pc \in {"us_main", "us_backup", "res_tmp", "res_main", "upd_main"} =>
               ni.backup_table_ba # 0
      BY <1>4, <2>4 DEF Session, OnRecord
    <3>3. pc = "res_main" => lv.tmp # 0
      <4>1. MgmtStart \in Nat /\ MgmtStart >= 1 /\ lv.tmp \in Nat
        BY WriteReturned
      <4>2. pc = "res_main" => MgmtStart <= lv.tmp
        BY DEF IInv, Ranges, TableBlock
      <4>. QED
        BY SMTT(30), <4>1, <4>2
    <3>4. CASE pc \in {"reb_backup", "rs_front", "rs_back", "us_backup"}
      BY <1>1, <3>1, <3>2, <3>4, SafeIs DEF Tables
    <3>5. CASE pc \in {"us_main", "upd_main", "res_tmp"}
      BY <1>1, <3>1, <3>2, <3>5, SafeIs DEF Tables
    <3>6. CASE pc = "res_main"
      <4>1. Safe(pc) = Tables({lv.tmp})
        BY <1>1, <3>6, SafeIs
      <4>2. lv.tmp \in Tables({lv.tmp})
        BY <3>3, <3>6 DEF Tables
      <4>. QED
        BY <3>1, <4>1, <4>2
    <3>. QED
      BY <2>4, <3>4, <3>5, <3>6 DEF AfterWrite
  <2>. QED
    BY <2>1, <2>2, <2>3, <2>4
<1>9. pc' = "upd_ret" /\ ~lv'.ok => TablesOnChip = {}
  <2>1. lv \in Locals
    BY <1>1 DEF TypeOK
  <2>2. SUFFICES ASSUME pc' = "upd_ret" PROVE lv'.ok
    OBVIOUS
  <2>. QED
    BY <2>1, <2>2 DEF TableStep, RebuildMainWritten, RebuildMainFailed, RebuildBackupWritten,
         RebuildBackupFailed, RescueSingleFront, RescueSingleBehind, RescueSingleRetry,
         RescueSingleWritten, RescueSingleErased, UpdateSingleMain, UpdateSingleBackup,
         UpdateDone, UpdateOnce, UpdateBackupReturns, UpdateMainWritten, UpdateMainFailed,
         RescueMainTmpFailed, RescueMainTmpWritten, RescueMainReturns, UpdateOnceReturns,
         AfterWrite, CallRebuild, WriteNext, EraseRange, RetryLower,
         ReturnTo, BackupBecomesMain, Locals
<1>. QED
  BY <1>3, <1>5, <1>6, <1>7, <1>8, <1>9, FitMoves, ProtectionBy DEF TableKeeps

\* Not even the main table could be written
LEMMA RebuildFailedData ==
    ASSUME IInv, Session, Session', Current, RebuildMainFailed
    PROVE  /\ TableKeeps /\ ni'.info_table_cache = ni.info_table_cache
           /\ Current' /\ Protection'
<1>1. ni \in Instance /\ lv \in Locals /\ lv.bret \in {"create_map", "upd_ret"}
  BY DEF IInv, TypeOK, ReturnLabels, AfterRebuild
<1>2. pc = "reb_main" /\ pc \in AfterWrite /\ ~lv.ok
  BY DEF RebuildMainFailed, AfterWrite
<1>3. TableKeeps /\ ni'.info_table_cache = ni.info_table_cache /\ ni'.protected
  BY <1>1 DEF RebuildMainFailed, ReturnTo, TableKeeps, Instance, Locals
<1>4. pc' \in {"create_map", "upd_ret"}
  BY <1>1 DEF RebuildMainFailed, ReturnTo
<1>5. TablesOnChip = {}
  BY <1>2, WriteReturned DEF Safe
<1>6. TablesOnChip' = {}
  BY <1>3, <1>5, SameChip DEF TableKeeps
<1>7. ~InWrite' /\ ~Rescued' /\ pc' # "erase_range"
  BY <1>4 DEF InWrite, AfterWrite, Rescued
<1>8. Current'
  BY <1>6, <1>7, SettledCurrent
<1>9. Protection'
  BY <1>3, <1>6, <1>7 DEF Protection
<1>. QED
  BY <1>3, <1>8, <1>9

\* The rescued table is put on record
LEMMA RescueErasedData ==
    ASSUME IInv, Session, Session', Current, Protection, RescueSingleErased
    PROVE  Current' /\ Protection'
<1>1. TypeOK /\ TableStep /\ ~UpdateOnce /\ ~RebuildMainFailed
  BY DEF IInv, RescueSingleErased, UpdateOnce, RebuildMainFailed, TableStep
<1>2. /\ TableKeeps /\ ni'.info_table_cache = ni.info_table_cache
      /\ ni'.protected = ni.protected
  BY <1>1, ReturnStepsKeep
<1>3. pc = "rs_erased" /\ pc' = "loaded"
  BY DEF RescueSingleErased, ReturnTo
<1>4. ~InWrite /\ ~InWrite' /\ Rescued /\ pc \notin Ahead /\ pc' \notin Unlaid
  BY <1>3 DEF InWrite, AfterWrite, Rescued, Ahead, Unlaid
<1>5. Fit(TablesOnChip) /\ ~ni'.protected
  BY <1>2, <1>4 DEF Current, Protection
<1>6. TablesOnChip' = TablesOnChip
  BY <1>2, SameChip DEF TableKeeps
<1>7. TablesOnChip # {}
  BY <1>4 DEF Session, Holders
<1>. QED
  BY <1>2, <1>3, <1>4, <1>5, <1>6, <1>7, FitMoves, ProtectionBy DEF TableKeeps

\* nmbm_update_info_table returns, or tries again
LEMMA UpdateEndsData ==
    ASSUME IInv, Session, Session', Current, Protection, UpdateDone \/ UpdateOnceReturns
    PROVE  Current' /\ Protection'
<1>1. TypeOK /\ TableStep /\ ~UpdateOnce /\ ~RebuildMainFailed
  BY DEF IInv, UpdateDone, UpdateOnceReturns, UpdateOnce, RebuildMainFailed, TableStep
<1>2. TableKeeps /\ UNCHANGED ni
  BY <1>1, ReturnStepsKeep DEF UpdateDone, UpdateOnceReturns
<1>3. pc \in {"update", "upd_ret"} /\ pc' \in {"update", lv.uret}
  BY DEF UpdateDone, UpdateOnceReturns, ReturnTo
<1>4. lv.uret \in {"idle", "detach", "erase", "remap_top", "create_top", "created"}
  BY DEF IInv, ReturnLabels, AfterUpdate
<1>5. /\ ~InWrite /\ ~InWrite' /\ ~Rescued' /\ pc' \notin {"erase_range", "upd_ret"}
  BY <1>3, <1>4 DEF InWrite, AfterWrite, Rescued
<1>6. /\ TablesOnChip' = TablesOnChip
      /\ \A b \in TablesOnChip' : Tbl(b)' = Tbl(b)
  BY <1>2, SameChip DEF TableKeeps
<1>7. pc' # "update" => Fit(TablesOnChip)
  <2>1. CASE UpdateDone
    <3>1. pc = "update" /\ (ni.protected \/ ~ni.changed)
      BY <2>1 DEF UpdateDone
    <3>2. ni.protected => Fit(TablesOnChip)
      BY DEF Protection, Fit
    <3>. QED
      BY <1>5, <3>1, <3>2 DEF Current
  <2>2. CASE UpdateOnceReturns
    <3>1. pc' # "update" => ~lv.ok /\ pc = "upd_ret"
      BY <2>2 DEF UpdateOnceReturns
    <3>. QED
      BY <3>1 DEF Current, Fit
  <2>. QED
    BY <2>1, <2>2
<1>8. Current'
  <2>1. Fit(TablesOnChip) \/ (pc' = "update" /\ ni.changed)
    BY <1>5, <1>7 DEF Current
  <2>. QED
    BY <1>2, <1>5, <1>6, <2>1, SettledCurrent DEF Fit, Ahead
<1>9. Protection'
  <2>1. ni.main_table_ba = 0 => ni.protected
    BY <1>5 DEF Protection
  <2>2. ASSUME ni.protected
        PROVE  \/ TablesOnChip = {}
               \/ /\ pc' \in {"idle", "detach"} \/ (pc' = "update" /\ lv'.uret = "detach")
                  /\ Fit(TablesOnChip)
    <3>1. TablesOnChip = {} \/ (Fit(TablesOnChip) /\ pc = "update" /\ lv.uret = "detach")
      BY <1>3, <2>2 DEF Protection
    <3>2. lv'.uret = lv.uret
      BY <1>2 DEF TableKeeps
    <3>. QED
      BY <1>3, <3>1, <3>2
  <2>3. Fit(TablesOnChip) => Fit(TablesOnChip)'
    BY <1>2, <1>6 DEF Fit
  <2>. QED
    BY <1>2, <1>5, <1>6, <2>1, <2>2, <2>3 DEF Protection
<1>. QED
  BY <1>8, <1>9

\* The table is generated with the mapping in memory
LEMMA GenerateRecords ==
    ASSUME NEW n \in Instance
    PROVE  LET g == Generate(n)
           IN  /\ g.block_mapping = n.block_mapping /\ g.block_state = n.block_state
               /\ g.data_block_count = n.data_block_count /\ g.protected = n.protected
               /\ g.backup_table_ba = n.backup_table_ba
               /\ g.info_table_cache.block_state = n.block_state
               /\ Records(g.info_table_cache.block_mapping, g.block_mapping)
<1>1. /\ Generate(n).data_block_count = n.data_block_count
      /\ Generate(n).protected = n.protected
  BY DEF Generate, Instance
<1>. QED
  BY <1>1, GenerateFields, GenerateType DEF Records

\* nmbm_update_info_table_once starts, with the backup table if there is one
LEMMA UpdateOnceData ==
    ASSUME IInv, UpdateOnce
    PROVE  /\ TableKeeps /\ ni'.info_table_cache.block_state = ni.block_state
           /\ Current' /\ Protection'
<1>1. ni \in Instance /\ lv \in Locals
  BY DEF IInv, TypeOK
<1>2. PICK g \in Instance : g = Generate(ni)
  BY <1>1, GenerateType
<1>3. /\ g.block_mapping = ni.block_mapping /\ g.block_state = ni.block_state
      /\ g.data_block_count = ni.data_block_count /\ ~g.protected
      /\ g.info_table_cache.block_state = ni.block_state
      /\ Records(g.info_table_cache.block_mapping, g.block_mapping)
  BY <1>1, <1>2, GenerateRecords DEF UpdateOnce
<1>4. IF g.backup_table_ba = 0
      THEN WriteMainTable(g)
      ELSE WriteNext(g, g.backup_table_ba, g.mapping_blocks_top_ba, "upd_backup")
  BY <1>2 DEF UpdateOnce
<1>5. /\ ni'.block_mapping = g.block_mapping /\ ni'.block_state = g.block_state
      /\ ni'.data_block_count = g.data_block_count /\ ni'.protected = g.protected
      /\ ni'.info_table_cache = g.info_table_cache
      /\ pc' = "write" /\ lv'.uret = lv.uret
      /\ \/ lv'.ret = "upd_backup"
         \/ lv'.ret = "reb_main"
         \/ lv'.ret = "upd_main" /\ ni'.backup_table_ba = 0
  <2>1. CASE g.backup_table_ba # 0
    BY <1>1, <1>4, <2>1 DEF WriteNext, CallWrite, Locals
  <2>2. CASE g.backup_table_ba = 0 /\ g.main_table_ba = 0
    BY <1>1, <1>4, <2>2 DEF WriteMainTable, CallRebuild, CallWrite, Instance, Locals
  <2>3. CASE g.backup_table_ba = 0 /\ g.main_table_ba # 0
    BY <1>1, <1>4, <2>3 DEF WriteMainTable, WriteNext, CallWrite, Instance, Locals
  <2>. QED
    BY <2>1, <2>2, <2>3
<1>6. TableKeeps /\ ni'.info_table_cache.block_state = ni.block_state
  BY <1>3, <1>5 DEF TableKeeps, UpdateOnce
<1>7. lv'.ret # "upd_backup" => Safe(lv.ret)' = {}
  BY <1>5 DEF Safe
<1>8. PICK r : r = lv'.ret
  OBVIOUS
<1>9. r \in AfterWrite /\ (r # "upd_backup" => Safe(r)' = {})
  BY <1>5, <1>7, <1>8 DEF AfterWrite
<1>10. pc' # r
  BY <1>5, <1>9 DEF AfterWrite
<1>11. Current' /\ InWrite'
  BY <1>3, <1>5, <1>8, <1>9, <1>10, WritingCurrent
<1>12. Protection'
  BY <1>3, <1>5, <1>11 DEF Protection
<1>. QED
  BY <1>6, <1>11, <1>12

\* The main table follows the backup table
LEMMA UpdateBackupData ==
    ASSUME IInv, Session, Current, Protection, UpdateBackupReturns
    PROVE  Current' /\ Protection'
<1>1. ni \in Instance /\ lv \in Locals /\ TypeOK /\ TableStep /\ ~UpdateOnce
      /\ ~RebuildMainFailed
  BY DEF IInv, TypeOK, TableStep, UpdateBackupReturns, UpdateOnce, RebuildMainFailed
<1>2. /\ TableKeeps /\ ni'.info_table_cache = ni.info_table_cache
      /\ ni'.protected = ni.protected
  BY <1>1, ReturnStepsKeep
<1>3. pc = "upd_backup" /\ pc \in AfterWrite
  BY DEF UpdateBackupReturns, AfterWrite
<1>4. InWrite /\ Writer = pc /\ ~ni'.protected
  BY <1>2, <1>3, WriterAfter DEF Protection
<1>5. /\ Records(ni.info_table_cache.block_mapping, ni.block_mapping)
      /\ lv.ok => Records(Tbl(lv.start).block_mapping, ni.block_mapping)
  BY <1>3, <1>4 DEF Current, Fit
<1>6. ni.main_table_ba # 0
  BY <1>3, <1>4 DEF Session, OnRecord
<1>7. /\ pc' = "write" /\ lv'.ret = "upd_main"
      /\ ni'.backup_table_ba = IF lv.ok THEN lv.start ELSE 0
  BY <1>1, <1>6 DEF UpdateBackupReturns, WriteMainTable, WriteNext, CallWrite, Locals, Instance
<1>8. \A b \in Safe("upd_main")' : lv.ok /\ b = lv.start
  BY <1>7 DEF Safe
<1>9. \A b \in Safe("upd_main")' : Records(Tbl(b)'.block_mapping, ni'.block_mapping)
  BY <1>2, <1>5, <1>8 DEF TableKeeps, Tbl
<1>10. "upd_main" \in AfterWrite
  BY DEF AfterWrite
<1>11. Current' /\ InWrite'
  BY <1>2, <1>5, <1>7, <1>9, <1>10, WritingCurrent DEF TableKeeps
<1>. QED
  BY <1>4, <1>11 DEF Protection

\* Every step of the table code keeps the data
LEMMA TableStepData ==
    ASSUME IInv, IInv', Session, Session', Steady, Current, Protection, Operation, TableStep,
           UNCHANGED userVars
    PROVE  Steady' /\ Current' /\ Protection' /\ Operation'
<1>0. TypeOK /\ TypeOK' /\ ReturnLabels /\ pc' \notin Unlaid /\ UNCHANGED <<expect, lost>>
  BY TableLabelsLaid DEF IInv, userVars
<1>1. /\ TableKeeps
      /\ \/ ni'.info_table_cache = ni.info_table_cache
         \/ ni'.info_table_cache.block_state = ni.block_state
  BY <1>0, ReturnStepsKeep, UpdateOnceData, RebuildFailedData
<1>2. Steady'
  BY <1>0, <1>1, SteadyKept DEF TableKeeps
<1>3. Operation'
  BY <1>1, TableOperation
<1>4. Current' /\ Protection'
  <2>1. CASE pc = "update"
    BY <2>1, TableStepAt, UpdateOnceData, UpdateEndsData
  <2>2. CASE pc \in {"upd_ret", "rs_erased", "upd_backup"}
    BY <2>2, TableStepAt, RescueErasedData, UpdateEndsData, UpdateBackupData
  <2>3. CASE pc \in AfterWrite /\ pc # "upd_backup"
    BY <1>0, <2>3, WriteReturnsData, RebuildFailedData
  <2>. QED
    BY <2>1, <2>2, <2>3, TableStepAt
<1>. QED
  BY <1>2, <1>3, <1>4

-----------------------------------------------------------------------------
(* nmbm_write_mgmt_range and nmbm_erase_range                               *)

\* No logic block lies where the loops erase and program
LEMMA LoopApart ==
    ASSUME IInv, Session, pc \in Writing, lv.ba < lv.limit
    PROVE  \A lb \in Logical : Home(lb) # lv.ba
<1>. TypeOK /\ Ranges
  BY DEF IInv
<1>1. /\ lv.ba \in Nat /\ lv.limit \in Nat /\ MgmtStart \in Nat
      /\ ni.mapping_blocks_top_ba \in Nat
  BY SMTT(30), GeometryAssumption, Addresses
<1>2. MgmtStart <= lv.ba /\ lv.limit <= ni.mapping_blocks_top_ba
  BY DEF Ranges
<1>3. lv.ba \in MgmtStart .. ni.mapping_blocks_top_ba
  BY SMTT(30), <1>1, <1>2
<1>. QED
  BY <1>3 DEF Session, Mappings, Apart, Clear, Home

\* What the loops leave alone
LoopKeeps ==
    /\ UNCHANGED <<expect, lost, op>>
    /\ lv'.ret = lv.ret /\ lv'.tmp = lv.tmp /\ lv'.uret = lv.uret
    /\ ni'.block_mapping = ni.block_mapping
    /\ ni'.info_table_cache = ni.info_table_cache
    /\ ni'.data_block_count = ni.data_block_count /\ ni'.protected = ni.protected
    /\ ni'.main_table_ba = ni.main_table_ba /\ ni'.backup_table_ba = ni.backup_table_ba

\* The tables that a procedure does not replace are the same after a step
LEMMA SafeSame ==
    ASSUME LoopKeeps, NEW r
    PROVE  Safe(r)' = Safe(r)
  BY DEF Safe, LoopKeeps

\* The loops go from one block to the next, or erase the block they are at
LEMMA PassesData ==
    ASSUME IInv, IInv', Session, Session', Steady, Current, Protection, Operation,
           pc \in Writing, lv.ba < lv.limit, LoopKeeps,
           pc' \in Writing, pc = "erase_range" <=> pc' = "erase_range",
           \A b \in Blocks : b # lv.ba => /\ flash'[b] = flash[b]
                                          /\ ni'.block_state[b] = ni.block_state[b],
           ni'.block_state[lv.ba] \in {ni.block_state[lv.ba], BAD},
           oob \subseteq oob', TablesOnChip' \subseteq TablesOnChip,
           \A b \in TablesOnChip' : Tbl(b)' = Tbl(b)
    PROVE  Steady' /\ Current' /\ Protection' /\ Operation'
<1>0. TypeOK /\ TypeOK' /\ ReturnLabels
  BY DEF IInv
<1>1. FewerBad(ni.block_state, ni'.block_state)
  BY DEF FewerBad
<1>2. BadAgree' /\ BadKnown'
  BY <1>1, BadKept DEF Steady, LoopKeeps
<1>3. ASSUME ~lost' PROVE Held' /\ TablesLead'
  <2>1. Held
    BY <1>3 DEF Steady, LoopKeeps
  <2>2. ASSUME NEW lb \in Known
        PROVE  /\ Home(lb) \in Blocks /\ Home(lb) # lv.ba
               /\ lb < ni.data_block_count
               /\ \A b \in TablesOnChip : Tbl(b).block_mapping[lb] = Home(lb)
    <3>1. lb \in Logical /\ Home(lb) # -1
      BY <2>1 DEF Known, Held, Leads, Home
    <3>2. Home(lb) \in Blocks
      BY <1>0, <3>1 DEF TypeOK, Instance, MappingTable, Home
    <3>. QED
      BY <2>1, <3>1, <3>2, LoopApart DEF Held
  <2>3. \A lb \in Known :
          /\ ni'.block_mapping[lb] = Home(lb)
          /\ lb < ni'.data_block_count
          /\ flash'[Home(lb)] = flash[Home(lb)]
          /\ ni'.block_state[Home(lb)] = ni.block_state[Home(lb)]
          /\ \A b \in TablesOnChip' : Tbl(b)'.block_mapping[lb] = Home(lb)
    BY <2>2 DEF LoopKeeps, Home
  <2>4. Held'
    BY <2>1, <2>3, HeldKept DEF LoopKeeps
  <2>. QED
    BY <1>0, <1>2, <2>4, TablesLeadBy
<1>4. Current'
  <2>1. CASE pc = "erase_range"
    <3>1. ~InWrite /\ ~InWrite' /\ pc \notin Ahead /\ pc' # "upd_ret"
      BY <2>1 DEF InWrite, AfterWrite, Ahead
    <3>2. Fit(TablesOnChip)
      BY <3>1 DEF Current
    <3>3. \A b \in TablesOnChip' : Records(Tbl(b)'.block_mapping, ni'.block_mapping)
      BY <3>2 DEF Fit, LoopKeeps
    <3>. QED
      BY <3>1, <3>3, SettledCurrent
  <2>2. CASE pc # "erase_range"
    <3>1. pc \in {"write", "program"} /\ pc' \in {"write", "program"}
      BY <2>2 DEF Writing
    <3>2. PICK r \in AfterWrite : r = lv.ret
      BY <1>0, <3>1 DEF ReturnLabels
    <3>3. InWrite /\ Writer = r /\ InWrite' /\ lv'.ret = r /\ pc' # r
      BY <3>1, <3>2 DEF InWrite, Writer, LoopKeeps, AfterWrite
    <3>4. Writer' = r
      BY <3>1, <3>3 DEF Writer
    <3>5. Safe(r)' \subseteq TablesOnChip'
      BY <3>3, <3>4, SafeThere
    <3>6. Safe(r)' = Safe(r)
      BY SafeSame
    <3>7. r # "upd_backup" => Fit(Safe(r))
      BY <3>3 DEF Current
    <3>8. r # "upd_backup" =>
            \A b \in Safe(r)' : Records(Tbl(b)'.block_mapping, ni'.block_mapping)
      BY <3>5, <3>6, <3>7 DEF Fit, LoopKeeps
    <3>9. Records(ni'.info_table_cache.block_mapping, ni'.block_mapping)
      BY <3>3 DEF Current, LoopKeeps
    <3>. QED
      BY <3>1, <3>3, <3>8, <3>9, WritingCurrent
  <2>. QED
    BY <2>1, <2>2
<1>5. Protection'
  <2>1. ~ni'.protected
    BY DEF Protection, LoopKeeps, InWrite, Writing
  <2>2. pc = "erase_range" => ni'.main_table_ba # 0
    BY DEF Session, OnRecord, LoopKeeps
  <2>3. pc # "erase_range" => InWrite'
    BY DEF Writing, InWrite
  <2>. QED
    BY <2>1, <2>2, <2>3 DEF Protection
<1>6. Operation'
  <2>1. pc' # "page_write" /\ (Operating' => Operating) /\ (Remapping' => Remapping)
    BY DEF Operating, Remapping, Writing, TableLabels, Pending, LoopKeeps
  <2>2. Known' = Known
    BY SameHistory DEF LoopKeeps
  <2>. QED
    BY <2>1, <2>2 DEF Operation, LoopKeeps, Home
<1>. QED
  BY <1>2, <1>3, <1>4, <1>5, <1>6 DEF Steady

\* A table has been written and read back
LEMMA ProgramSucceedsData ==
    ASSUME IInv, IInv', Session, Session', Steady, Current, Protection, Operation,
           ProgramSucceeds, UNCHANGED userVars
    PROVE  Steady' /\ Current' /\ Protection' /\ Operation'
<1>0. /\ TypeOK /\ TypeOK' /\ ReturnLabels /\ Knows /\ lv \in Locals /\ Ranges
      /\ flash \in [Blocks -> Content]
  BY DEF IInv, Session, TypeOK
<1>1. PICK r \in AfterWrite : r = lv.ret
  BY <1>0 DEF ReturnLabels, ProgramSucceeds
<1>2. PICK x : x = lv.ba
  OBVIOUS
<1>3. /\ pc = "program" /\ pc' = r /\ lv'.start = x /\ lv'.ok
      /\ lv'.ret = r /\ UNCHANGED <<oob, ni>> /\ LoopKeeps
      /\ flash' = [flash EXCEPT ![x] = TableOf(ni.info_table_cache)]
  BY <1>0, <1>1, <1>2 DEF ProgramSucceeds, LoopKeeps, Locals, userVars
<1>4. r \notin {"write", "program", "upd_ret", "page_write", "erase_range"} /\ r \in TableLabels
  BY DEF AfterWrite, TableLabels
<1>5. InWrite /\ Writer = r /\ InWrite' /\ Writer' = r
  BY <1>1, <1>3, <1>4 DEF InWrite, Writer
<1>6. Safe(r)' = Safe(r) /\ TablesOnChip = Safe(r) /\ TablesOnChip' = Safe(r) \cup {x}
  <2>1. Safe(r)' = Safe(r)
    BY <1>3, SafeSame
  <2>2. TablesOnChip = Safe(r)
    BY <1>1, <1>3 DEF Session, Holders
  <2>3. TablesOnChip' = Safe(r)' \cup {x}
    BY <1>3 DEF Session, Holders
  <2>. QED
    BY <2>1, <2>2, <2>3
<1>7. x \in Blocks /\ x \notin Safe(r) /\ \A lb \in Logical : Home(lb) # x
  <2>1. lv.ba < lv.limit /\ pc \in Writing
    BY <1>0, <1>3 DEF Ranges, Writing
  <2>2. \A b \in Safe(r) : b < lv.ba \/ lv.limit <= b
    BY <1>1, <1>3, LoopRange DEF Session
  <2>3. lv.ba \in Nat /\ lv.limit \in Nat /\ lv.limit < BlockCount
    BY SMTT(30), <1>0, GeometryAssumption DEF Locals, Blocks
  <2>4. lv.ba \notin Safe(r) /\ lv.ba \in Blocks
    BY SMTT(30), <2>1, <2>2, <2>3, GeometryAssumption DEF Blocks
  <2>. QED
    BY <1>2, <2>1, <2>4, LoopApart
<1>8. /\ \A b \in TablesOnChip : Tbl(b)' = Tbl(b)
      /\ Tbl(x)' = ni.info_table_cache
  <2>1. \A b \in TablesOnChip : b \in Blocks /\ b # x
    BY <1>6, <1>7 DEF TablesOnChip
  <2>. QED
    BY <1>0, <1>3, <1>7, <2>1 DEF Tbl, TableOf
<1>9. BadKnown'
  BY <1>3, <1>6, <1>8 DEF Steady, BadKnown, FewerBad
<1>10. BadAgree'
  <2>. SUFFICES ASSUME NEW b \in TablesOnChip', NEW c \in TablesOnChip',
                       Tbl(c)'.write_count <= Tbl(b)'.write_count
                PROVE  FewerBad(Tbl(c)'.block_state, Tbl(b)'.block_state)
    BY DEF BadAgree
  <2>1. CASE b = x
    <3>1. FewerBad(Tbl(c)'.block_state, ni'.info_table_cache.block_state)
      BY <1>9 DEF BadKnown
    <3>. QED
      BY <1>3, <1>8, <2>1, <3>1
  <2>2. CASE b # x /\ c # x
    BY <1>6, <1>8, <2>2 DEF Steady, BadAgree
  <2>3. CASE b # x /\ c = x
    <3>1. /\ Tbl(b).write_count <= ni.info_table_cache.write_count
          /\ Tbl(b).write_count = ni.info_table_cache.write_count
               => Tbl(b) = ni.info_table_cache
      BY <1>0, <1>6, <2>3 DEF Knows
    <3>2. ni.info_table_cache.write_count <= Tbl(b).write_count
      BY <1>6, <1>8, <2>3
    <3>3. b \in TablesOnChip
      BY <1>6, <2>3
    <3>4. Tbl(b).write_count \in Nat /\ ni.info_table_cache.write_count \in Nat
      <4>1. ni.info_table_cache \in InfoTable
        BY <1>0 DEF TypeOK, Instance
      <4>2. flash[b] \in Content /\ flash[b].kind = "table"
        BY <1>0, <3>3 DEF TablesOnChip
      <4>3. Tbl(b) \in InfoTable
        BY SMTT(30), <4>2 DEF Tbl, Content, Erased, Junk, Sig
      <4>. QED
        BY <4>1, <4>3 DEF InfoTable
    <3>5. Tbl(b).write_count = ni.info_table_cache.write_count
      BY SMTT(30), <3>1, <3>2, <3>4
    <3>6. Tbl(b) = ni.info_table_cache
      BY <3>1, <3>5
    <3>. QED
      BY <1>8, <2>3, <3>3, <3>6 DEF FewerBad
  <2>. QED
    BY <2>1, <2>2, <2>3
<1>11. Records(ni.info_table_cache.block_mapping, ni.block_mapping)
  BY <1>5 DEF Current
<1>12. ASSUME ~lost' PROVE Held' /\ TablesLead'
  <2>1. Held
    BY <1>3, <1>12 DEF Steady, LoopKeeps
  <2>2. ASSUME NEW lb \in Known
        PROVE  /\ Home(lb) # x /\ Home(lb) \in Blocks
               /\ lb < ni.data_block_count
               /\ \A b \in TablesOnChip : Tbl(b).block_mapping[lb] = Home(lb)
               /\ ni.info_table_cache.block_mapping[lb] = Home(lb)
    <3>1. lb \in Logical /\ Home(lb) # -1
      BY <2>1 DEF Known, Held, Leads, Home
    <3>2. ni.info_table_cache.block_mapping[lb] = Home(lb)
      BY <1>11, <3>1 DEF Records, Home
    <3>3. Home(lb) \in Blocks
      BY <1>0, <3>1 DEF TypeOK, Instance, MappingTable, Home
    <3>. QED
      BY <1>7, <2>1, <3>1, <3>2, <3>3 DEF Held
  <2>3. \A lb \in Known : flash'[Home(lb)] = flash[Home(lb)]
    BY <1>0, <1>3, <2>2
  <2>4. \A lb \in Known :
          /\ ni'.block_mapping[lb] = Home(lb)
          /\ lb < ni'.data_block_count
          /\ \A b \in TablesOnChip' : Tbl(b)'.block_mapping[lb] = Home(lb)
    BY <1>3, <1>6, <1>8, <2>2 DEF Home
  <2>5. Held'
    BY <1>3, <2>1, <2>3, <2>4, HeldKept DEF LoopKeeps
  <2>. QED
    BY <1>0, <1>9, <2>5, TablesLeadBy
<1>13. Current'
  <2>1. r # "upd_backup" => Fit(Safe(r))
    BY <1>5 DEF Current
  <2>2. r # "upd_backup" =>
          \A b \in Safe(r)' : Records(Tbl(b)'.block_mapping, ni'.block_mapping)
    BY <1>3, <1>6, <1>8, <2>1 DEF Fit
  <2>3. Records(flash'[lv'.start].tbl.block_mapping, ni'.block_mapping)
    BY <1>3, <1>8, <1>11 DEF Tbl
  <2>. QED
    BY <1>3, <1>11, <2>2, <2>3, WritingCurrent
<1>14. Protection'
  BY <1>3, <1>5 DEF Protection
<1>15. Operation'
  <2>1. pc' # "page_write" /\ (Operating' => Operating) /\ (Remapping' => Remapping)
    BY <1>3, <1>4 DEF Operating, Remapping, TableLabels, Pending, LoopKeeps
  <2>2. Known' = Known
    BY <1>3, SameHistory DEF LoopKeeps
  <2>. QED
    BY <1>3, <2>1, <2>2 DEF Operation, LoopKeeps, Home
<1>. QED
  BY <1>9, <1>10, <1>12, <1>13, <1>14, <1>15 DEF Steady

\* Instance m is n with block x in state st
OneState(n, m, x, st) ==
    /\ m.block_mapping = n.block_mapping
    /\ m.info_table_cache = n.info_table_cache
    /\ m.data_block_count = n.data_block_count /\ m.protected = n.protected
    /\ m.main_table_ba = n.main_table_ba /\ m.backup_table_ba = n.backup_table_ba
    /\ m.changed = (n.changed \/ n.block_state[x] # st)
    /\ m.block_state[x] = st
    /\ \A b \in Blocks : b # x => m.block_state[b] = n.block_state[b]

LEMMA SetStateData ==
    ASSUME NEW n \in Instance, NEW x \in Blocks, NEW st \in BlockState
    PROVE  OneState(n, SetState(n, x, st), x, st)
  BY DEF OneState, SetState, Instance, StateTable

\* A loop over a range ends
LEMMA LoopEndsData ==
    ASSUME IInv, IInv', Session, Session', Steady, Current, Protection, Operation,
           WriteExhausted \/ RangeErased, UNCHANGED userVars
    PROVE  Steady' /\ Current' /\ Protection' /\ Operation'
<1>0. TypeOK /\ TypeOK' /\ ReturnLabels /\ lv \in Locals /\ UNCHANGED <<expect, lost, op>>
  BY DEF IInv, TypeOK, userVars
<1>1. PICK r : r = lv.ret
  OBVIOUS
<1>2. /\ pc' = r /\ lv'.ret = r /\ lv'.tmp = lv.tmp /\ lv'.uret = lv.uret
      /\ UNCHANGED <<flash, oob, ni>> /\ lv'.ok = (pc = "erase_range")
      /\ pc \in {"write", "erase_range"}
  BY <1>0, <1>1 DEF WriteExhausted, RangeErased, Locals
<1>3. LoopKeeps
  BY <1>0, <1>1, <1>2 DEF LoopKeeps
<1>4. Steady'
  BY <1>0, <1>2, SteadyKept
<1>5. /\ TablesOnChip' = TablesOnChip
      /\ \A b \in TablesOnChip' : Tbl(b)' = Tbl(b)
  BY <1>2, SameChip
<1>6. Current' /\ Protection'
  <2>1. CASE pc = "write"
    <3>1. r \in AfterWrite /\ ~lv'.ok
      BY <1>0, <1>1, <1>2, <2>1 DEF ReturnLabels
    <3>2. InWrite /\ Writer = r
      BY <1>1, <2>1 DEF InWrite, Writer
    <3>3. r # "upd_backup" => Fit(Safe(r))
      BY <3>2 DEF Current
    <3>4. Safe(r)' = Safe(r) /\ Safe(r) \subseteq TablesOnChip
      BY <1>1, <1>3, <2>1, SafeSame DEF Session, Holders
    <3>5. r # "upd_backup" =>
            \A b \in Safe(r)' : Records(Tbl(b)'.block_mapping, ni'.block_mapping)
      BY <1>2, <1>5, <3>3, <3>4 DEF Fit
    <3>6. Records(ni'.info_table_cache.block_mapping, ni'.block_mapping)
      BY <1>2, <3>2 DEF Current
    <3>7. Current' /\ InWrite'
      BY <1>2, <3>1, <3>5, <3>6, WritingCurrent
    <3>. QED
      BY <1>2, <3>2, <3>7 DEF Protection
  <2>2. CASE pc = "erase_range"
    <3>1. lv'.ok /\ pc' \in AfterErase
      BY <1>0, <1>1, <1>2, <2>2 DEF ReturnLabels
    <3>2. ~InWrite /\ ~InWrite' /\ pc \notin Ahead
      BY <2>2, <3>1 DEF InWrite, AfterWrite, AfterErase, AfterRebuild, Ahead
    <3>3. Fit(TablesOnChip)
      BY <3>2 DEF Current
    <3>4. \A b \in TablesOnChip' : Records(Tbl(b)'.block_mapping, ni'.block_mapping)
      BY <1>2, <1>5, <3>3 DEF Fit
    <3>5. Current'
      BY <3>1, <3>2, <3>4, SettledCurrent
    <3>6. ~ni'.protected /\ ni'.main_table_ba # 0
      BY <1>2, <2>2 DEF Protection, Session, OnRecord
    <3>. QED
      BY <3>5, <3>6 DEF Protection
  <2>. QED
    BY <1>2, <2>1, <2>2
<1>7. Operation'
  <2>1. r \in AfterWrite \cup AfterErase
    BY <1>0, <1>1, <1>2 DEF ReturnLabels
  <2>2. pc' # "page_write" /\ (Operating' => Operating) /\ (Remapping' => Remapping)
    BY <1>2, <2>1 DEF Operating, Remapping, TableLabels, Pending, AfterWrite, AfterErase, AfterRebuild
  <2>3. Known' = Known
    BY <1>0, SameHistory
  <2>. QED
    BY <1>0, <1>2, <2>2, <2>3 DEF Operation, Home
<1>. QED
  BY <1>4, <1>6, <1>7

\* The steps of the loops keep the data
LEMMA BlockStepData ==
    ASSUME IInv, IInv', Session, Session', Steady, Current, Protection, Operation,
           BlockStep, UNCHANGED userVars
    PROVE  Steady' /\ Current' /\ Protection' /\ Operation'
<1>0. /\ TypeOK /\ Ranges /\ Knows /\ lv \in Locals /\ ni \in Instance
      /\ flash \in [Blocks -> Content] /\ UNCHANGED <<expect, lost, op>>
      /\ BAD \in BlockState
  BY DEF IInv, TypeOK, userVars, Session, BlockState
<1>1. ASSUME pc \in Writing, pc' \in Writing, pc = "erase_range" <=> pc' = "erase_range",
             lv.ba < lv.limit, NextBlock \/ lv' = lv,
             ni' = ni \/ ni' = SetState(ni, lv.ba, BAD),
             oob' = oob \/ oob' = oob \cup {lv.ba},
             \/ flash' = flash
             \/ /\ flash' = [flash EXCEPT ![lv.ba] = Erased] \/ lv.ba \in oob'
                /\ \E c : flash' = [flash EXCEPT ![lv.ba] = c]
      PROVE  Steady' /\ Current' /\ Protection' /\ Operation'
  <2>0. PICK x : x = lv.ba
    OBVIOUS
  <2>1. x \in Blocks
    BY SMTT(30), <1>0, <1>1, <2>0, GeometryAssumption DEF Locals, Blocks
  <2>2. /\ ni'.block_mapping = ni.block_mapping
        /\ ni'.info_table_cache = ni.info_table_cache
        /\ ni'.data_block_count = ni.data_block_count /\ ni'.protected = ni.protected
        /\ ni'.main_table_ba = ni.main_table_ba /\ ni'.backup_table_ba = ni.backup_table_ba
        /\ \A b \in Blocks : b # x => ni'.block_state[b] = ni.block_state[b]
        /\ ni'.block_state[x] \in {ni.block_state[x], BAD}
    <3>1. CASE ni' = ni
      BY <3>1
    <3>2. CASE ni' = SetState(ni, x, BAD)
      <4>1. OneState(ni, ni', x, BAD)
        BY <1>0, <2>1, <3>2, SetStateData
      <4>. QED
        BY <4>1 DEF OneState
    <3>. QED
      BY <1>1, <2>0, <3>1, <3>2
  <2>3. LoopKeeps
    <3>1. lv'.ret = lv.ret /\ lv'.tmp = lv.tmp /\ lv'.uret = lv.uret
      BY <1>0, <1>1 DEF NextBlock, Locals
    <3>. QED
      BY <1>0, <2>2, <3>1 DEF LoopKeeps
  <2>4. \A b \in Blocks : b # lv.ba => flash'[b] = flash[b]
    BY <1>0, <1>1, <2>0, <2>1
  <2>5. oob \subseteq oob' /\ \A b \in Blocks : b # lv.ba => (b \in oob' <=> b \in oob)
    BY <1>1
  <2>6. TablesOnChip' \subseteq TablesOnChip /\ \A b \in TablesOnChip' : Tbl(b)' = Tbl(b)
    <3>1. ASSUME NEW b \in TablesOnChip' PROVE b \in TablesOnChip /\ Tbl(b)' = Tbl(b)
      <4>1. b \in Blocks /\ b \notin oob' /\ b \notin oob /\ flash'[b].kind = "table"
        BY <2>5 DEF TablesOnChip
      <4>2. b = lv.ba => flash' = flash
        <5>1. CASE b = lv.ba /\ flash' = [flash EXCEPT ![lv.ba] = Erased]
          BY <1>0, <4>1, <5>1 DEF Erased
        <5>. QED
          BY <1>1, <4>1, <5>1
      <4>3. flash'[b] = flash[b]
        BY <2>4, <4>1, <4>2
      <4>. QED
        BY <4>1, <4>3 DEF TablesOnChip, Tbl
    <3>. QED
      BY <3>1
  <2>. QED
    BY <1>1, <2>0, <2>2, <2>3, <2>4, <2>5, <2>6, PassesData
<1>2. ASSUME NEW label \in {"write", "erase_range"},
             SkipKnown(label) \/ SkipMarked(label) \/ EraseFails(label)
      PROVE  Steady' /\ Current' /\ Protection' /\ Operation'
  BY <1>1, <1>2 DEF SkipKnown, SkipMarked, EraseFails, MarkFailed, CanErase, AtBlock, Writing
<1>3. CASE WriteErases \/ RangeErases
  BY <1>1, <1>3 DEF WriteErases, RangeErases, CanErase, AtBlock, Writing
<1>4. CASE ProgramFails
  BY <1>0, <1>1, <1>4 DEF ProgramFails, MarkFailed, Ranges, Writing
<1>5. CASE ProgramSucceeds
  BY <1>5, ProgramSucceedsData
<1>6. CASE WriteExhausted \/ RangeErased
  BY <1>6, LoopEndsData
<1>. QED
  BY <1>2, <1>3, <1>4, <1>5, <1>6 DEF BlockStep

-----------------------------------------------------------------------------
(* The logical operations                                                   *)

\* A step that concerns one logic block, x, and leaves the tables where they are
LEMMA LogicData ==
    ASSUME IInv, IInv', Session', Steady, Protection, pc \in Between, pc' \in Between,
           TablesOnChip' = TablesOnChip, \A b \in TablesOnChip' : Tbl(b)' = Tbl(b),
           oob \subseteq oob', lost' = lost,
           ni'.info_table_cache = ni.info_table_cache, ni'.protected = ni.protected,
           ni'.main_table_ba = ni.main_table_ba,
           FewerBad(ni.block_state, ni'.block_state),
           ni.protected => TablesOnChip = {}, pc' # "upd_ret",
           NEW x \in Logical,
           \A lb \in Logical :
             /\ lb < ni.data_block_count => lb < ni'.data_block_count
             /\ lb # x =>
                  /\ ni'.block_mapping[lb] = Home(lb)
                  /\ expect'[lb] = expect[lb]
                  /\ Home(lb) # -1 =>
                       /\ flash'[Home(lb)] = flash[Home(lb)]
                       /\ ni'.block_state[Home(lb)] = ni.block_state[Home(lb)],
           \/ Fit(TablesOnChip) /\ ni'.block_mapping[x] \in {Home(x), -1}
           \/ pc' \in Ahead /\ ni'.changed,
           ~lost /\ x \in Known' =>
             /\ ni'.block_mapping[x] # -1 /\ x < ni'.data_block_count
             /\ flash'[ni'.block_mapping[x]] = Acknowledged(x)'
             /\ \/ ni'.block_mapping[x] \in oob'
                \/ ni'.block_state[ni'.block_mapping[x]] # BAD
             /\ \A b \in TablesOnChip : Tbl(b).block_mapping[x] = ni'.block_mapping[x]
    PROVE  Steady' /\ Current' /\ Protection'
<1>0. TypeOK'
  BY DEF IInv
<1>1. BadAgree' /\ BadKnown'
  BY BadKept DEF Steady
<1>2. ASSUME ~lost' PROVE Held' /\ TablesLead'
  <2>1. Held
    BY <1>2 DEF Steady
  <2>2. ASSUME NEW lb \in Known'
        PROVE  /\ ni'.block_mapping[lb] # -1
               /\ flash'[ni'.block_mapping[lb]] = Acknowledged(lb)'
               /\ \/ ni'.block_mapping[lb] \in oob'
                  \/ ni'.block_state[ni'.block_mapping[lb]] # BAD
               /\ lb < ni'.data_block_count
               /\ \A b \in TablesOnChip' : Tbl(b)'.block_mapping[lb] = ni'.block_mapping[lb]
    <3>1. CASE lb = x
      BY <1>2, <2>2, <3>1
    <3>2. CASE lb # x
      <4>1. lb \in Logical /\ expect'[lb] = expect[lb] /\ lb \in Known
        BY <3>2 DEF Known
      <4>2. Acknowledged(lb)' = Acknowledged(lb)
        BY <4>1 DEF Acknowledged
      <4>3. /\ Home(lb) # -1 /\ flash[Home(lb)] = Acknowledged(lb)
            /\ Home(lb) \in oob \/ ni.block_state[Home(lb)] # BAD
            /\ lb < ni.data_block_count
            /\ \A b \in TablesOnChip : Tbl(b).block_mapping[lb] = Home(lb)
        BY <2>1, <4>1 DEF Held, Leads, Home
      <4>. QED
        BY <3>2, <4>1, <4>2, <4>3
    <3>. QED
      BY <3>1, <3>2
  <2>3. Held'
    BY <2>2 DEF Held, Leads, Home
  <2>. QED
    BY <1>0, <1>1, <2>3, TablesLeadBy
<1>3. /\ ~InWrite' /\ ~Rescued' /\ pc' # "erase_range" /\ ~InWrite
  BY DEF Between, InWrite, Rescued, Writing, AfterWrite
<1>4. Current'
  <2>1. ASSUME Fit(TablesOnChip), ni'.block_mapping[x] \in {Home(x), -1}
        PROVE  \A b \in TablesOnChip' : Records(Tbl(b)'.block_mapping, ni'.block_mapping)
    BY <2>1 DEF Fit, Records, Home
  <2>. QED
    BY <1>3, <2>1, SettledCurrent
<1>5. Protection'
  BY <1>3 DEF Protection
<1>. QED
  BY <1>1, <1>2, <1>4, <1>5 DEF Steady

\* Two logic blocks do not share a block
LEMMA OtherHome ==
    ASSUME Session, NEW x \in Logical, NEW lb \in Logical, lb # x, Home(lb) # -1
    PROVE  Home(lb) # Home(x)
  BY DEF Session, Mappings, Apart, Clear, Home

\* The block of a logic block changes: it is erased, programmed, found bad or
\* given a bad mark
LEMMA HomeData ==
    ASSUME IInv, IInv', Chip, Session, Session', Steady, Current, Protection,
           pc \in Between, pc \notin Ahead, pc' \in Between, pc' # "upd_ret", lost' = lost,
           ni.protected => TablesOnChip = {},
           NEW x \in Logical, NEW h, h = Home(x), h # -1,
           \A lb \in Logical : lb # x => expect'[lb] = expect[lb],
           oob' \in {oob, oob \cup {h}},
           flash' = flash \/ (\E c : flash' = [flash EXCEPT ![h] = c]
                                      /\ c.kind \notin {"sig", "table"}),
           NEW n,
           n = ni \/ n = [ni EXCEPT !.block_mapping = [ni.block_mapping EXCEPT ![x] = -1]],
           \/ ni' = n
           \/ ni' = SetState(n, h, BAD)
           \/ ni' = SetState(n, h, NEED_REMAP) /\ ni.block_state[h] # BAD,
           ~lost /\ x \in Known' =>
             /\ ni' = ni /\ x < ni.data_block_count /\ flash'[h] = Acknowledged(x)'
             /\ ni.block_state[h] # BAD
    PROVE  Steady' /\ Current' /\ Protection'
<1>0. /\ ni \in Instance /\ flash \in [Blocks -> Content]
      /\ ni.block_mapping \in [Logical -> Blocks \cup {-1}]
      /\ {BAD, NEED_REMAP} \subseteq BlockState
  BY DEF IInv, TypeOK, BlockState, Instance, MappingTable
<1>1. h \in Blocks /\ h \notin SigBlocks /\ h \notin TablesOnChip
  BY HomeApart
<1>2. /\ n \in Instance /\ n.block_state = ni.block_state
      /\ n.info_table_cache = ni.info_table_cache /\ n.protected = ni.protected
      /\ n.main_table_ba = ni.main_table_ba /\ n.data_block_count = ni.data_block_count
      /\ n.block_mapping[x] \in {Home(x), -1}
      /\ \A lb \in Logical : lb # x => n.block_mapping[lb] = Home(lb)
  <2>1. [ni.block_mapping EXCEPT ![x] = -1] \in MappingTable
    BY <1>0 DEF MappingTable
  <2>2. CASE n = ni
    BY <1>0, <2>2 DEF Home
  <2>3. CASE n = [ni EXCEPT !.block_mapping = [ni.block_mapping EXCEPT ![x] = -1]]
    <3>1. /\ n \in Instance /\ n.block_state = ni.block_state
          /\ n.info_table_cache = ni.info_table_cache /\ n.protected = ni.protected
          /\ n.main_table_ba = ni.main_table_ba
          /\ n.data_block_count = ni.data_block_count
          /\ n.block_mapping = [ni.block_mapping EXCEPT ![x] = -1]
      BY <1>0, <2>1, <2>3 DEF Instance
    <3>. QED
      BY <1>0, <3>1 DEF Home
  <2>. QED
    BY <2>2, <2>3
<1>3. /\ ni'.info_table_cache = ni.info_table_cache /\ ni'.protected = ni.protected
      /\ ni'.main_table_ba = ni.main_table_ba
      /\ ni'.data_block_count = ni.data_block_count
      /\ ni'.block_mapping = n.block_mapping
      /\ \A b \in Blocks : b # h => ni'.block_state[b] = ni.block_state[b]
      /\ ni.block_state[h] = BAD => ni'.block_state[h] = BAD
  <2>1. CASE ni' = n
    BY <1>2, <2>1
  <2>2. CASE ni' = SetState(n, h, BAD)
    <3>1. OneState(n, ni', h, BAD)
      BY <1>0, <1>1, <1>2, <2>2, SetStateData
    <3>. QED
      BY <1>2, <3>1 DEF OneState
  <2>3. CASE ni' = SetState(n, h, NEED_REMAP) /\ ni.block_state[h] # BAD
    <3>1. OneState(n, ni', h, NEED_REMAP)
      BY <1>0, <1>1, <1>2, <2>3, SetStateData
    <3>. QED
      BY <1>2, <2>3, <3>1 DEF OneState
  <2>. QED
    BY <2>1, <2>2, <2>3
<1>4. \A b \in Blocks : b # h => flash'[b] = flash[b] /\ (b \in oob' <=> b \in oob)
  BY <1>0, <1>1
<1>5. /\ TablesOnChip' = TablesOnChip
      /\ \A b \in TablesOnChip' : Tbl(b)' = Tbl(b)
  <2>1. CASE h \in oob' \/ flash'[h].kind \notin {"sig", "table"}
    <3>1. oob \subseteq oob'
      OBVIOUS
    <3>2. /\ TablesOnChip' = TablesOnChip \ {h}
          /\ \A b \in TablesOnChip' : Tbl(b)' = Tbl(b)
      BY <1>1, <1>4, <2>1, <3>1, OneBlock
    <3>. QED
      BY <1>1, <3>2
  <2>2. CASE h \notin oob' /\ flash'[h].kind \in {"sig", "table"}
    <3>1. flash' = flash /\ oob' = oob
      BY <1>0, <1>1, <2>2
    <3>. QED
      BY <3>1, SameChip
  <2>. QED
    BY <2>1, <2>2
<1>6. \A lb \in Logical : lb # x =>
        /\ ni'.block_mapping[lb] = Home(lb)
        /\ Home(lb) # -1 => /\ flash'[Home(lb)] = flash[Home(lb)]
                            /\ ni'.block_state[Home(lb)] = ni.block_state[Home(lb)]
  <2>1. \A lb \in Logical : lb # x /\ Home(lb) # -1 => Home(lb) # h /\ Home(lb) \in Blocks
    BY <1>0, OtherHome DEF Home
  <2>. QED
    BY <1>2, <1>3, <1>4, <2>1
<1>7. FewerBad(ni.block_state, ni'.block_state)
  BY <1>3 DEF FewerBad
<1>8. Fit(TablesOnChip)
  <2>1. ~InWrite
    BY DEF Between, InWrite, Writing
  <2>. QED
    BY <2>1 DEF Current
<1>9. ni'.block_mapping[x] \in {Home(x), -1}
  BY <1>2, <1>3
<1>10. ~lost /\ x \in Known' =>
         /\ ni'.block_mapping[x] # -1 /\ x < ni'.data_block_count
         /\ flash'[ni'.block_mapping[x]] = Acknowledged(x)'
         /\ \/ ni'.block_mapping[x] \in oob'
            \/ ni'.block_state[ni'.block_mapping[x]] # BAD
         /\ \A b \in TablesOnChip : Tbl(b).block_mapping[x] = ni'.block_mapping[x]
  <2>1. \A b \in TablesOnChip : Tbl(b).block_mapping[x] = h
    BY <1>8 DEF Fit, Records, Home
  <2>. QED
    BY <2>1 DEF Home
<1>11. oob \subseteq oob'
  OBVIOUS
<1>. QED
  BY <1>3, <1>5, <1>6, <1>7, <1>8, <1>9, <1>10, <1>11, LogicData

\* A step that leaves the instance structure alone but for its layout
LEMMA QuietData ==
    ASSUME IInv, IInv', Session', Steady, Current, Protection,
           pc \in Between, pc' \in Between, pc' # "upd_ret", pc \in Ahead => pc' \in Ahead,
           UNCHANGED <<flash, oob, lost>>, ni.protected => TablesOnChip = {},
           \A lb \in Logical : expect'[lb] \in {expect[lb], "unknown"},
           ni'.block_mapping = ni.block_mapping, ni'.block_state = ni.block_state,
           ni'.data_block_count = ni.data_block_count, ni'.changed = ni.changed,
           ni'.info_table_cache = ni.info_table_cache, ni'.protected = ni.protected,
           ni'.main_table_ba = ni.main_table_ba
    PROVE  Steady' /\ Current' /\ Protection'
<1>0. TypeOK'
  BY DEF IInv
<1>1. /\ TablesOnChip' = TablesOnChip
      /\ \A b \in TablesOnChip' : Tbl(b)' = Tbl(b)
  BY SameChip
<1>2. BadAgree' /\ BadKnown'
  BY <1>1, BadKept DEF Steady, FewerBad
<1>3. ASSUME ~lost' PROVE Held' /\ TablesLead'
  <2>1. Held
    BY <1>3 DEF Steady
  <2>2. ASSUME NEW lb \in Known'
        PROVE  lb \in Known /\ Acknowledged(lb)' = Acknowledged(lb)
    BY <2>2 DEF Known, Acknowledged
  <2>3. Held'
    BY <1>1, <2>1, <2>2 DEF Held, Leads, Home
  <2>. QED
    BY <1>0, <1>2, <2>3, TablesLeadBy
<1>4. ~InWrite /\ ~InWrite' /\ ~Rescued' /\ pc' # "erase_range"
  BY DEF Between, InWrite, Rescued, Writing, AfterWrite
<1>5. Current'
  <2>1. CASE Fit(TablesOnChip)
    <3>1. \A b \in TablesOnChip' : Records(Tbl(b)'.block_mapping, ni'.block_mapping)
      BY <1>1, <2>1 DEF Fit
    <3>. QED
      BY <1>4, <3>1, SettledCurrent
  <2>2. CASE pc \in Ahead /\ ni.changed
    BY <1>4, <2>2, SettledCurrent
  <2>. QED
    BY <1>4, <2>1, <2>2 DEF Current
<1>6. Protection'
  BY <1>1, <1>4 DEF Protection
<1>. QED
  BY <1>2, <1>3, <1>5, <1>6 DEF Steady

\* A logic block is mapped anew or given up: n is the instance before the state
\* of the abandoned block is recorded
LEMMA RemapData ==
    ASSUME IInv, IInv', Session, Session', Steady, Current, Protection, Operation,
           pc \in {"remap", "remap_top"}, pc' = "update",
           UNCHANGED <<flash, oob, expect, lost>>, NEW n \in Instance,
           n.block_state = ni.block_state, n.data_block_count = ni.data_block_count,
           n.info_table_cache = ni.info_table_cache, n.protected = ni.protected,
           n.main_table_ba = ni.main_table_ba,
           \A lb \in Logical : lb # op.lb => n.block_mapping[lb] = Home(lb),
           n.block_mapping[op.lb] = -1 \/ n.changed,
           ni' = Abandon(n, op.pb)
    PROVE  /\ Steady' /\ Current' /\ Protection'
           /\ ni'.data_block_count = ni.data_block_count
<1>. USE LogicLabels
<1>0. op.lb \in Logical /\ op.pb \in Blocks /\ BAD \in BlockState
  BY DEF IInv, TypeOK, BlockState
<1>1. PICK x, y : x = op.lb /\ y = op.pb
  OBVIOUS
<1>2. x \in Logical /\ x \notin Known /\ y = Home(x) /\ y \in Blocks
  BY <1>0, <1>1 DEF Operation, Operating, Remapping, Pending
<1>3. /\ ni'.info_table_cache = ni.info_table_cache /\ ni'.protected = ni.protected
      /\ ni'.main_table_ba = ni.main_table_ba
      /\ ni'.data_block_count = ni.data_block_count
      /\ ni'.block_mapping = n.block_mapping /\ (n.changed => ni'.changed)
      /\ \A b \in Blocks : b # y => ni'.block_state[b] = ni.block_state[b]
      /\ ni.block_state[y] = BAD => ni'.block_state[y] = BAD
  <2>1. CASE ni' = n
    BY <2>1
  <2>2. CASE ni' = SetState(n, y, BAD)
    <3>1. OneState(n, ni', y, BAD)
      BY <1>0, <1>2, <2>2, SetStateData
    <3>. QED
      BY <3>1 DEF OneState
  <2>. QED
    BY <1>1, <2>1, <2>2 DEF Abandon
<1>4. /\ TablesOnChip' = TablesOnChip
      /\ \A b \in TablesOnChip' : Tbl(b)' = Tbl(b)
  BY SameChip
<1>5. \A lb \in Logical : lb # x =>
        /\ ni'.block_mapping[lb] = Home(lb)
        /\ Home(lb) # -1 => /\ flash'[Home(lb)] = flash[Home(lb)]
                            /\ ni'.block_state[Home(lb)] = ni.block_state[Home(lb)]
  <2>1. ni.block_mapping \in [Logical -> Blocks \cup {-1}]
    BY DEF IInv, TypeOK, Instance, MappingTable
  <2>2. \A lb \in Logical : lb # x /\ Home(lb) # -1 => Home(lb) # y /\ Home(lb) \in Blocks
    BY <1>2, <2>1, OtherHome DEF Home
  <2>. QED
    BY <1>1, <1>3, <2>2
<1>6. FewerBad(ni.block_state, ni'.block_state)
  BY <1>2, <1>3 DEF FewerBad
<1>7. Fit(TablesOnChip) /\ pc' \in Ahead /\ pc' # "upd_ret"
  <2>1. ~InWrite
    BY DEF InWrite, AfterWrite
  <2>. QED
    BY <2>1 DEF Current, Ahead
<1>8. x \notin Known'
  BY <1>2 DEF Known
<1>9. ni.protected => TablesOnChip = {}
  BY DEF Protection
<1>10. ni'.block_mapping[x] \in {Home(x), -1} \/ ni'.changed
  BY <1>1, <1>3
<1>11. pc \in Between /\ pc' \in Between /\ oob \subseteq oob' /\ \A lb \in Logical :
         /\ expect'[lb] = expect[lb]
         /\ lb < ni.data_block_count => lb < ni'.data_block_count
  BY <1>3
<1>. QED
  BY <1>2, <1>3, <1>4, <1>5, <1>6, <1>7, <1>8, <1>9, <1>10, <1>11, LogicData

\* The operation goes on at label l, and nobody else waits for it
LEMMA OperationGoesOn ==
    ASSUME pc' \in {"idle", "remap", "update", "erase", "page_write"},
           \/ pc' = "update" /\ lv'.uret \notin Pending
           \/ pc' = "idle"
           \/ /\ op'.lb \notin Known' /\ op'.lb < ni'.data_block_count
              /\ pc' = "remap" \/ (pc' = "update" /\ lv'.uret = "remap_top")
                   => op'.pb = ni'.block_mapping[op'.lb]
              /\ pc' = "page_write" => ni'.block_state[ni'.block_mapping[op'.lb]] # BAD
    PROVE  Operation'
<1>1. CASE pc' = "idle" \/ (pc' = "update" /\ lv'.uret \notin Pending)
  <2>1. ~Operating' /\ ~Remapping' /\ pc' # "page_write"
    BY <1>1 DEF Operating, Remapping, Pending, TableLabels
  <2>. QED
    BY <2>1 DEF Operation
<1>2. CASE /\ op'.lb \notin Known' /\ op'.lb < ni'.data_block_count
           /\ pc' = "remap" \/ (pc' = "update" /\ lv'.uret = "remap_top")
                => op'.pb = ni'.block_mapping[op'.lb]
           /\ pc' = "page_write" => ni'.block_state[ni'.block_mapping[op'.lb]] # BAD
  <2>1. Remapping' => pc' = "remap" \/ (pc' = "update" /\ lv'.uret = "remap_top")
    BY DEF Remapping, TableLabels
  <2>. QED
    BY <1>2, <2>1 DEF Operation, Home
<1>. QED
  BY <1>1, <1>2

\* Erasing, writing and giving up a logic block keep the data of the others
LEMMA LogicStepData ==
    ASSUME IInv, IInv', Chip, Session, Session', Steady, Current, Protection, Operation,
           LogicStep, ~Detached
    PROVE  Steady' /\ Current' /\ Protection' /\ Operation'
<1>. USE LogicLabels
<1>0. /\ op \in [lb : Logical, val : Vals \cup {"none"}, pb : Blocks]
      /\ op.lb \in Logical /\ op.pb \in Blocks /\ ni \in Instance /\ lv \in Locals
      /\ expect \in [Logical -> Vals \cup {"erased", "unknown"}]
      /\ flash \in [Blocks -> Content]
      /\ ni.block_mapping \in [Logical -> Blocks \cup {-1}]
  BY DEF IInv, TypeOK, Instance, MappingTable
<1>1. PICK x, h : x = op.lb /\ h = Home(x)
  OBVIOUS
<1>2. x \in Logical /\ (h # -1 => h \in Blocks)
  BY <1>0, <1>1 DEF Home
<1>3. ASSUME pc \in {"erase", "remap", "remap_top", "page_write"}
      PROVE  /\ x \notin Known /\ x < ni.data_block_count
             /\ ni.protected => TablesOnChip = {}
             /\ pc \in Between /\ pc \notin Ahead
  <2>1. Operating
    BY <1>3 DEF Operating, Pending
  <2>2. ni.protected => TablesOnChip = {}
    BY <1>3 DEF Protection
  <2>. QED
    BY <1>1, <1>3, <2>1, <2>2 DEF Operation, Ahead
<1>13. TypeOK /\ op.lb \in Logical /\ ni \in Instance
  BY <1>0 DEF IInv
<1>4. CASE EraseUnmapped
  <2>1. pc = "erase" /\ pc' = "idle" /\ UNCHANGED <<flash, oob, ni, expect, lost>>
    BY <1>4 DEF EraseUnmapped, userVars
  <2>2. Operation'
    BY <2>1, OperationGoesOn
  <2>. QED
    BY <1>3, <2>1, <2>2, QuietData
<1>5. CASE EraseGivesUp
  <2>1. /\ pc = "erase" /\ pc' = "remap" /\ h # -1 /\ UNCHANGED <<flash, oob, expect, lost>>
        /\ ni' = ni \/ ni' = SetState(ni, h, BAD)
        /\ op' = [op EXCEPT !.pb = h]
    BY <1>1, <1>5 DEF EraseGivesUp
  <2>2. x \notin Known'
    BY <1>3, <2>1 DEF Known
  <2>3. Steady' /\ Current' /\ Protection'
    BY <1>1, <1>2, <1>3, <2>1, <2>2, HomeData
  <2>4. op'.lb = x /\ op'.pb = h
    BY <1>0, <1>1, <2>1
  <2>5. ni'.block_mapping = ni.block_mapping /\ ni'.data_block_count = ni.data_block_count
    BY <1>0, <2>1 DEF SetState, Instance
  <2>6. Operation'
    BY <1>1, <1>3, <2>1, <2>2, <2>4, <2>5, OperationGoesOn DEF Home
  <2>. QED
    BY <2>3, <2>6
<1>6. CASE EraseSucceeds
  <2>1. /\ pc = "erase" /\ pc' = "idle" /\ h # -1 /\ UNCHANGED <<oob, ni, lost>>
        /\ flash' = [flash EXCEPT ![h] = Erased] /\ Erased.kind \notin {"sig", "table"}
        /\ expect' = [expect EXCEPT ![x] = "erased"] /\ ni.block_state[h] = GOOD
    BY <1>1, <1>6 DEF EraseSucceeds, CanEraseLogic, Erased, Expect
  <2>2. /\ \A lb \in Logical : lb # x => expect'[lb] = expect[lb]
        /\ flash'[h] = Acknowledged(x)' /\ ni.block_state[h] # BAD
    <3>1. expect'[x] = "erased" /\ flash'[h] = Erased
      BY <1>0, <1>2, <2>1
    <3>. QED
      BY <1>0, <2>1, <3>1 DEF Acknowledged, GOOD, BAD
  <2>3. Operation'
    BY <2>1, OperationGoesOn
  <2>. QED
    BY <1>1, <1>2, <1>3, <2>1, <2>2, <2>3, HomeData
<1>7. CASE EraseLogicFails
  <2>1. /\ pc = "erase" /\ pc' = "remap" /\ h # -1 /\ oob' = oob \cup {h}
        /\ flash' = [flash EXCEPT ![h] = Junk] /\ Junk.kind \notin {"sig", "table"}
        /\ ni' = SetState(ni, h, BAD) /\ op' = [op EXCEPT !.pb = h]
        /\ UNCHANGED <<expect, lost>>
    BY <1>1, <1>7 DEF EraseLogicFails, CanEraseLogic, MarkFailed, Junk
  <2>2. x \notin Known'
    BY <1>3, <2>1 DEF Known
  <2>3. Steady' /\ Current' /\ Protection'
    BY <1>1, <1>2, <1>3, <2>1, <2>2, HomeData
  <2>4. op'.lb = x /\ op'.pb = h
    BY <1>0, <1>1, <2>1
  <2>5. ni'.block_mapping = ni.block_mapping /\ ni'.data_block_count = ni.data_block_count
    BY <1>0, <2>1 DEF SetState, Instance
  <2>6. Operation'
    BY <1>1, <1>3, <2>1, <2>2, <2>4, <2>5, OperationGoesOn DEF Home
  <2>. QED
    BY <2>3, <2>6
<1>8. CASE Remaps
  <2>1. PICK pb \in Blocks : Spare(ni, pb) /\ ni' = Abandon(MapTo(ni, op.lb, pb), op.pb)
    BY <1>8 DEF Remaps
  <2>2. /\ pc = "remap" /\ pc' = "update" /\ UNCHANGED <<flash, oob, expect, lost, op>>
        /\ lv' = [lv EXCEPT !.uret = "erase"]
    BY <1>8 DEF Remaps, CallUpdate, userVars
  <2>3. PICK n : n = MapTo(ni, op.lb, pb)
    OBVIOUS
  <2>4. Laid(ni)
    BY <2>2 DEF IInv, Layout, Unlaid
  <2>5. n \in Instance
    BY <1>13, <2>1, <2>3, <2>4, MapToType
  <2>6. /\ n.block_state = ni.block_state /\ n.data_block_count = ni.data_block_count
        /\ n.info_table_cache = ni.info_table_cache /\ n.protected = ni.protected
        /\ n.main_table_ba = ni.main_table_ba /\ n.changed
        /\ n.block_mapping = [ni.block_mapping EXCEPT ![op.lb] = pb]
    BY <1>0, <2>3 DEF MapTo, Instance
  <2>7. \A lb \in Logical : lb # op.lb => n.block_mapping[lb] = Home(lb)
    BY <1>0, <2>6 DEF Home
  <2>8. /\ Steady' /\ Current' /\ Protection'
        /\ ni'.data_block_count = ni.data_block_count
    BY <2>1, <2>2, <2>3, <2>5, <2>6, <2>7, RemapData
  <2>9. op'.lb \notin Known' /\ lv'.uret = "erase"
    BY <1>0, <1>1, <1>3, <2>2 DEF Known, Locals
  <2>10. Operation'
    BY <1>1, <1>3, <2>2, <2>8, <2>9, OperationGoesOn
  <2>. QED
    BY <2>8, <2>10
<1>9. CASE RemapRefused \/ RemapClosesSpare
  <2>. DEFINE n0 == IF RemapRefused THEN ni
                    ELSE [ni EXCEPT !.mapping_blocks_top_ba = ni.mapping_blocks_ba]
              n == [n0 EXCEPT !.block_mapping = [n0.block_mapping EXCEPT ![op.lb] = -1]]
  <2>1. /\ pc \in {"remap", "remap_top"} /\ pc' = "update"
        /\ UNCHANGED <<flash, oob, expect, lost, op>>
        /\ lv' = [lv EXCEPT !.uret = "idle"]
    BY <1>9 DEF RemapRefused, RemapClosesSpare, CallUpdate, userVars
  <2>2. ni' = Abandon(n, op.pb)
    BY <1>9 DEF RemapRefused, RemapClosesSpare, Unmapped
  <2>3. Laid(ni) /\ ni.mapping_blocks_ba \in Blocks
    BY <2>1, SpareStart DEF IInv, Layout, Unlaid
  <2>4. n0 \in Instance
    BY <1>13, <2>3, ClosedType
  <2>5. /\ n0.block_state = ni.block_state /\ n0.data_block_count = ni.data_block_count
        /\ n0.info_table_cache = ni.info_table_cache /\ n0.protected = ni.protected
        /\ n0.main_table_ba = ni.main_table_ba /\ n0.block_mapping = ni.block_mapping
    BY <1>0 DEF Instance
  <2>6. [n0.block_mapping EXCEPT ![op.lb] = -1] \in MappingTable
    BY <1>0, <2>4 DEF Instance, MappingTable
  <2>. HIDE DEF n0
  <2>7. /\ n \in Instance /\ n.block_state = ni.block_state
        /\ n.data_block_count = ni.data_block_count
        /\ n.info_table_cache = ni.info_table_cache /\ n.protected = ni.protected
        /\ n.main_table_ba = ni.main_table_ba
        /\ n.block_mapping = [ni.block_mapping EXCEPT ![op.lb] = -1]
    BY <2>4, <2>5, <2>6 DEF Instance
  <2>. HIDE DEF n
  <2>8. /\ \A lb \in Logical : lb # op.lb => n.block_mapping[lb] = Home(lb)
        /\ n.block_mapping[op.lb] = -1
    BY <1>0, <2>7 DEF Home
  <2>9. Steady' /\ Current' /\ Protection'
    BY <2>1, <2>2, <2>7, <2>8, RemapData
  <2>10. lv'.uret = "idle"
    BY <1>0, <2>1 DEF Locals
  <2>11. Operation'
    BY <2>1, <2>10, OperationGoesOn DEF Pending
  <2>. QED
    BY <2>9, <2>11
<1>10. CASE RemapFails
  <2>1. /\ pc = "remap" /\ pc' = "update" /\ UNCHANGED <<flash, oob, ni, expect, lost, op>>
        /\ lv' = [lv EXCEPT !.uret = "remap_top"]
    BY <1>10 DEF RemapFails, CallUpdate, userVars
  <2>2. /\ op'.lb \notin Known' /\ op'.lb < ni'.data_block_count
        /\ op'.pb = ni'.block_mapping[op'.lb]
    BY <1>1, <1>3, <2>1 DEF Known, Operation, Remapping, Home
  <2>3. Operation'
    BY <2>1, <2>2, OperationGoesOn
  <2>. QED
    BY <1>3, <2>1, <2>3, QuietData
<1>11. CASE WriteSucceeds
  <2>1. h # -1 /\ op.val \in Vals
    BY <1>1, <1>11 DEF IInv, PageWrite, WriteSucceeds
  <2>2. PICK c, v : /\ flash' = [flash EXCEPT ![h] = c]
                    /\ expect' = [expect EXCEPT ![x] = v]
                    /\ (c = Data(v) /\ v = op.val) \/ (c = Junk /\ v = "unknown")
    BY <1>1, <1>11 DEF WriteSucceeds, Expect
  <2>3. pc = "page_write" /\ pc' = "idle" /\ UNCHANGED <<oob, ni, lost>>
    BY <1>11 DEF WriteSucceeds
  <2>4. c.kind \notin {"sig", "table"}
    BY <2>2, SMTT(30) DEF Data, Junk
  <2>5. /\ \A lb \in Logical : lb # x => expect'[lb] = expect[lb]
        /\ expect'[x] = v /\ flash'[h] = c
    BY <1>0, <1>2, <2>1, <2>2
  <2>6. x \in Known' => flash'[h] = Acknowledged(x)'
    BY <2>1, <2>2, <2>5, ValsAssumption DEF Known, Acknowledged
  <2>7. ni.block_state[h] # BAD
    BY <1>1, <2>3 DEF Operation
  <2>8. Operation'
    BY <2>3, OperationGoesOn
  <2>9. \E d : flash' = [flash EXCEPT ![h] = d] /\ d.kind \notin {"sig", "table"}
    BY <2>2, <2>4
  <2>. QED
    BY <1>1, <1>2, <1>3, <2>1, <2>3, <2>5, <2>6, <2>7, <2>8, <2>9, HomeData
<1>12. CASE WriteFails
  <2>1. h # -1
    BY <1>1, <1>12 DEF IInv, PageWrite, WriteFails
  <2>2. /\ pc = "page_write" /\ pc' = "update" /\ UNCHANGED <<oob, expect, lost>>
        /\ flash' = [flash EXCEPT ![h] = Junk] /\ Junk.kind \notin {"sig", "table"}
        /\ ni' = SetState(ni, h, NEED_REMAP) /\ lv' = [lv EXCEPT !.uret = "idle"]
    BY <1>1, <1>12 DEF WriteFails, CallUpdate, userVars, Junk
  <2>3. x \notin Known'
    BY <1>3, <2>2 DEF Known
  <2>4. ni.block_state[h] # BAD
    BY <1>1, <2>2 DEF Operation
  <2>5. lv'.uret = "idle"
    BY <1>0, <2>2 DEF Locals
  <2>6. Operation'
    BY <2>2, <2>5, OperationGoesOn DEF Pending
  <2>. QED
    BY <1>1, <1>2, <1>3, <2>1, <2>2, <2>3, <2>4, <2>6, HomeData
<1>. QED
  BY <1>4, <1>5, <1>6, <1>7, <1>8, <1>9, <1>10, <1>11, <1>12 DEF LogicStep

\* The user's calls keep the data
LEMMA StartData ==
    ASSUME IInv, IInv', Chip, Session, Session', Steady, Current, Protection, Operation,
           \/ \E lb \in Logical : \/ StartErase(lb)
                                  \/ \E v \in Vals : StartWrite(lb, v)
                                  \/ MarkBad(lb)
           \/ StartDetach
    PROVE  Steady' /\ Current' /\ Protection' /\ Operation'
<1>. USE LogicLabels
<1>0. /\ expect \in [Logical -> Vals \cup {"erased", "unknown"}]
      /\ lv \in Locals /\ ni \in Instance
  BY DEF IInv, TypeOK
<1>1. pc = "idle" /\ "idle" \notin Ahead /\ "idle" \in Between
  BY DEF StartErase, StartWrite, MarkBad, StartDetach, StartOp, Ahead
<1>2. ASSUME NEW lb \in Logical, StartErase(lb) \/ \E v \in Vals : StartWrite(lb, v)
      PROVE  Steady' /\ Current' /\ Protection' /\ Operation'
  <2>1. /\ pc' \in {"erase", "page_write"} /\ UNCHANGED <<flash, oob, ni, lost>>
        /\ expect' = [expect EXCEPT ![lb] = "unknown"]
        /\ ~ni.protected /\ lb < ni.data_block_count
        /\ pc' = "page_write" => ni.block_state[Home(lb)] # BAD
    BY <1>2, SMTT(30) DEF StartErase, StartWrite, StartOp, Usable, Expect
  <2>2. op'.lb = lb
    BY <1>2, SMTT(30) DEF StartErase, StartWrite, StartOp
  <2>3. \A i \in Logical : expect'[i] \in {expect[i], "unknown"}
    BY <1>0, <2>1
  <2>4. op'.lb \notin Known'
    BY <1>0, <2>1, <2>2 DEF Known
  <2>5. Operation'
    BY <2>1, <2>2, <2>4, OperationGoesOn DEF Home
  <2>6. pc' # "upd_ret"
    BY <2>1
  <2>. QED
    BY <1>1, <2>1, <2>3, <2>5, <2>6, QuietData
<1>3. ASSUME NEW lb \in Logical, MarkBad(lb)
      PROVE  Steady' /\ Current' /\ Protection' /\ Operation'
  <2>1. PICK h, n : /\ h = Home(lb)
                    /\ n = [ni EXCEPT !.block_mapping = [ni.block_mapping EXCEPT ![lb] = -1]]
    OBVIOUS
  <2>2. /\ pc' = "update" /\ UNCHANGED <<flash, lost>> /\ h # -1
        /\ oob' = oob \cup {h} /\ ni' = SetState(n, h, BAD)
        /\ expect' = [expect EXCEPT ![lb] = "unknown"]
        /\ ~ni.protected /\ lv' = [lv EXCEPT !.uret = "idle"]
    BY <1>3, <2>1 DEF MarkBad, StartOp, CallUpdate, Expect
  <2>3. lb \notin Known' /\ \A i \in Logical : i # lb => expect'[i] = expect[i]
    BY <1>0, <2>2 DEF Known
  <2>4. lv'.uret = "idle"
    BY <1>0, <2>2 DEF Locals
  <2>5. Operation'
    BY <2>2, <2>4, OperationGoesOn DEF Pending
  <2>. QED
    BY <1>1, <2>1, <2>2, <2>3, <2>5, HomeData
<1>4. CASE StartDetach
  <2>1. /\ pc' = "update" /\ UNCHANGED <<flash, oob, ni, expect, lost>>
        /\ lv' = [lv EXCEPT !.uret = "detach"]
    BY <1>4 DEF StartDetach, CallUpdate
  <2>2. lv'.uret = "detach"
    BY <1>0, <2>1 DEF Locals
  <2>3. Operation'
    BY <2>1, <2>2, OperationGoesOn DEF Pending
  <2>4. TypeOK'
    BY DEF IInv
  <2>5. Steady'
    BY <2>1, <2>4, SteadyKept
  <2>6. /\ TablesOnChip' = TablesOnChip
        /\ \A b \in TablesOnChip' : Tbl(b)' = Tbl(b)
    BY <2>1, SameChip
  <2>7. ~InWrite /\ ~InWrite' /\ ~Rescued' /\ pc' # "erase_range" /\ pc' # "upd_ret"
    BY <1>1, <2>1 DEF InWrite, Rescued, AfterWrite
  <2>8. \A b \in TablesOnChip' : Records(Tbl(b)'.block_mapping, ni'.block_mapping)
    <3>1. Fit(TablesOnChip)
      BY <1>1, <2>7 DEF Current
    <3>. QED
      BY <2>1, <2>6, <3>1 DEF Fit
  <2>9. Current'
    BY <2>7, <2>8, SettledCurrent
  <2>10. Protection'
    <3>1. Fit(TablesOnChip)'
      BY <2>8 DEF Fit, Tbl
    <3>2. ni.main_table_ba = 0 => ni.protected
      BY <2>7 DEF Protection
    <3>. QED
      BY <2>1, <2>2, <2>7, <3>1, <3>2 DEF Protection
  <2>. QED
    BY <2>3, <2>5, <2>9, <2>10
<1>. QED
  BY <1>2, <1>3, <1>4

-----------------------------------------------------------------------------
(* The end of an attach                                                     *)

\* The procedures that return to nmbm_load_existing have a main table
LEMMA LoadedHasMain ==
    ASSUME IInv, Session, BlockStep \/ TableStep, pc' = "loaded"
    PROVE  ni'.main_table_ba # 0
<1>0. /\ TypeOK /\ ni \in Instance /\ lv \in Locals /\ ReturnLabels
      /\ lv.bret # "loaded" /\ lv.uret # "loaded"
  BY DEF IInv, TypeOK, ReturnLabels, AfterRebuild, AfterUpdate
<1>1. /\ pc = "erase_range" => ni.main_table_ba # 0
      /\ pc = "rs_erased" => ni.main_table_ba # 0
      /\ pc \in {"rs_front", "rs_back", "us_backup"} => ni.main_table_ba # 0
  BY DEF Session, OnRecord, Rescued, InWrite, AfterWrite, Writer
<1>2. CASE BlockStep
  <2>1. \/ RangeErased
        \/ pc \in {"write", "program"} /\ pc' = lv.ret
        \/ pc' \in Writing
    BY <1>2 DEF BlockStep, SkipKnown, SkipMarked, EraseFails, WriteErases, ProgramSucceeds,
         ProgramFails, WriteExhausted, RangeErases, CanErase, AtBlock, Writing
  <2>2. pc = "erase_range" /\ ni' = ni
    BY <1>0, <2>1 DEF RangeErased, Writing, ReturnLabels, AfterWrite
  <2>. QED
    BY <1>1, <2>2
<1>3. CASE TableStep
  <2>1. \/ RescueSingleBehind /\ ni' = ni
        \/ RescueSingleRetry /\ ni' = ni
        \/ RescueSingleErased
        \/ UpdateSingleMain /\ lv.ok /\ ni' = [ni EXCEPT !.main_table_ba = lv.start,
                                                         !.changed = FALSE]
        \/ UpdateSingleBackup
    BY <1>0, <1>3 DEF TableStep, RebuildMainWritten, RebuildMainFailed, RebuildBackupWritten,
         RebuildBackupFailed, RescueSingleFront, RescueSingleBehind, RescueSingleRetry,
         RescueSingleWritten, RescueSingleErased, UpdateSingleMain, UpdateSingleBackup,
         UpdateDone, UpdateOnce, UpdateBackupReturns, UpdateMainWritten, UpdateMainFailed,
         RescueMainTmpFailed, RescueMainTmpWritten, RescueMainReturns, UpdateOnceReturns,
         WriteMainTable, CallRebuild, WriteNext, EraseRange, RetryLower,
         ReturnTo, BackupBecomesMain
  <2>2. CASE UpdateSingleMain /\ lv.ok /\ ni' = [ni EXCEPT !.main_table_ba = lv.start,
                                                           !.changed = FALSE]
    <3>1. ni'.main_table_ba = lv.start /\ TableBlock(lv.start)
      BY <1>0, <2>2 DEF UpdateSingleMain, IInv, Ranges, AfterWrite, Instance
    <3>. QED
      BY SMTT(30), <3>1, GeometryAssumption DEF TableBlock
  <2>3. CASE RescueSingleErased \/ UpdateSingleBackup
    <3>1. ni'.main_table_ba = ni.main_table_ba
      BY <1>0, <2>3 DEF RescueSingleErased, UpdateSingleBackup, Instance
    <3>. QED
      BY <1>1, <2>3, <3>1 DEF RescueSingleErased, UpdateSingleBackup
  <2>. QED
    BY <1>1, <2>1, <2>2, <2>3 DEF RescueSingleBehind, RescueSingleRetry
<1>. QED
  BY <1>2, <1>3

\* The end of an attach, and mapping the data blocks missing at the end of the
\* data area, keep the data
LEMMA CreateData ==
    ASSUME IInv, IInv', Session, pc' # "failed" => Session',
           Steady, Current, Protection, Loaded,
           \/ AttachLoaded \/ CreateMaps \/ CreateMapped \/ CreateMapFails
           \/ CreateClosesSpare \/ CreateReturns
    PROVE  /\ Steady'
           /\ pc' # "failed" => Current' /\ Protection' /\ Operation'
<1>. USE LogicLabels
<1>0. /\ ni \in Instance /\ lv \in Locals /\ TypeOK'
      /\ UNCHANGED <<flash, oob, expect, lost>>
  BY DEF IInv, TypeOK, AttachLoaded, CreateMaps, CreateMapped, CreateMapFails,
         CreateClosesSpare, CreateReturns, userVars
<1>1. pc \in {"loaded", "create_map", "create_top", "created"}
  BY DEF AttachLoaded, CreateMaps, CreateMapped, CreateMapFails,
         CreateClosesSpare, CreateReturns
<1>2. pc \in Between /\ ~InWrite /\ (ni.protected => TablesOnChip = {})
  BY <1>1 DEF Protection, InWrite, AfterWrite
<1>3. /\ TablesOnChip' = TablesOnChip
      /\ \A b \in TablesOnChip' : Tbl(b)' = Tbl(b)
  BY <1>0, SameChip
<1>4. CASE AttachLoaded
  <2>1. pc = "loaded" /\ pc' = "idle" /\ \E p \in BOOLEAN : ni' = [ni EXCEPT !.protected = p]
    <3>1. (ni.mapping_blocks_ba = ni.mapping_blocks_top_ba \/ ~lv.ok) \in BOOLEAN
      OBVIOUS
    <3>. QED
      BY <1>4, <3>1 DEF AttachLoaded
  <2>2. /\ ni'.block_mapping = ni.block_mapping /\ ni'.block_state = ni.block_state
        /\ ni'.data_block_count = ni.data_block_count
        /\ ni'.info_table_cache = ni.info_table_cache
        /\ ni'.main_table_ba = ni.main_table_ba
    BY <1>0, <2>1 DEF Instance
  <2>3. Steady'
    BY <1>0, <2>2, SteadyKept
  <2>4. ~InWrite' /\ ~Rescued' /\ pc' # "erase_range"
    BY <2>1 DEF InWrite, Rescued, AfterWrite
  <2>5. \A b \in TablesOnChip' : Records(Tbl(b)'.block_mapping, ni'.block_mapping)
    BY <1>2, <1>3, <2>1, <2>2 DEF Current, Ahead, Fit
  <2>6. Current'
    BY <2>1, <2>4, <2>5, SettledCurrent
  <2>7. Fit(TablesOnChip)'
    BY <2>5 DEF Fit, Tbl
  <2>8. Protection'
    BY <2>1, <2>2, <2>4, <2>7 DEF Protection, Loaded
  <2>9. Operation'
    BY <2>1, OperationGoesOn
  <2>. QED
    BY <2>3, <2>6, <2>8, <2>9
<1>5. CASE CreateMaps
  <2>1. PICK pb \in Blocks :
          /\ Spare(ni, pb)
          /\ ni' = [MapTo(ni, ni.data_block_count, pb) EXCEPT
                      !.data_block_count = ni.data_block_count + 1]
    BY <1>5 DEF CreateMaps
  <2>2. PICK x, n : x = ni.data_block_count /\ n = MapTo(ni, x, pb)
    OBVIOUS
  <2>3. pc = "create_map" /\ pc' = "create_map" /\ x < MgmtStart
    BY <1>5, <2>2 DEF CreateMaps
  <2>4. /\ x \in Logical /\ \A lb \in Logical : lb < x => lb < x + 1
        /\ ~(x < x)
    BY SMTT(30), <1>0, <2>2, <2>3, GeometryAssumption DEF Instance, Logical
  <2>5. Laid(ni)
    BY <2>3 DEF IInv, Layout, Unlaid
  <2>6. n \in Instance
    BY <1>0, <2>1, <2>2, <2>4, <2>5, MapToType
  <2>7. /\ n.block_state = ni.block_state /\ n.protected = ni.protected
        /\ n.info_table_cache = ni.info_table_cache
        /\ n.main_table_ba = ni.main_table_ba /\ n.changed
        /\ n.block_mapping = [ni.block_mapping EXCEPT ![x] = pb]
    BY <1>0, <2>2 DEF MapTo, Instance
  <2>8. /\ ni'.block_state = n.block_state /\ ni'.protected = n.protected
        /\ ni'.info_table_cache = n.info_table_cache /\ ni'.changed = n.changed
        /\ ni'.main_table_ba = n.main_table_ba
        /\ ni'.block_mapping = n.block_mapping
        /\ ni'.data_block_count = x + 1
    BY <2>1, <2>2, <2>6 DEF Instance
  <2>9. \A lb \in Logical : lb # x => ni'.block_mapping[lb] = Home(lb)
    <3>1. ni.block_mapping \in [Logical -> Blocks \cup {-1}]
      BY <1>0 DEF Instance, MappingTable
    <3>. QED
      BY <2>7, <2>8, <3>1 DEF Home
  <2>10. ~(~lost /\ x \in Known')
    BY <1>0, <2>2, <2>4 DEF Steady, Held, Known
  <2>11. FewerBad(ni.block_state, ni'.block_state)
    BY <2>7, <2>8 DEF FewerBad
  <2>12. pc' \in Ahead /\ pc' \in Between /\ pc' # "upd_ret" /\ Session' /\ ni'.changed
    BY <2>3, <2>7, <2>8 DEF Ahead
  <2>13. Steady' /\ Current' /\ Protection'
    <3>1. \A lb \in Logical :
            /\ lb < ni.data_block_count => lb < ni'.data_block_count
            /\ lb # x => /\ ni'.block_mapping[lb] = Home(lb)
                         /\ expect'[lb] = expect[lb]
                         /\ Home(lb) # -1 =>
                              /\ flash'[Home(lb)] = flash[Home(lb)]
                              /\ ni'.block_state[Home(lb)] = ni.block_state[Home(lb)]
      BY <1>0, <2>2, <2>4, <2>7, <2>8, <2>9
    <3>2. /\ ni'.info_table_cache = ni.info_table_cache /\ ni'.protected = ni.protected
          /\ ni'.main_table_ba = ni.main_table_ba /\ oob \subseteq oob' /\ lost' = lost
      BY <1>0, <2>7, <2>8
    <3>. QED
      BY <1>2, <1>3, <2>4, <2>10, <2>11, <2>12, <3>1, <3>2, LogicData
  <2>14. Operation'
    BY <2>3 DEF Operation, Operating, Remapping, Pending, TableLabels
  <2>. QED
    BY <2>13, <2>14
<1>6. CASE CreateMapped \/ CreateMapFails
  <2>1. /\ pc = "create_map" /\ pc' = "update" /\ ni' = ni
        /\ \E r \in {"created", "create_top"} : lv' = [lv EXCEPT !.uret = r]
    BY <1>6 DEF CreateMapped, CreateMapFails, CallUpdate
  <2>2. lv'.uret \notin Pending
    BY <1>0, <2>1 DEF Locals, Pending
  <2>3. Operation'
    BY <2>1, <2>2, OperationGoesOn
  <2>4. pc' \in Ahead /\ pc' # "upd_ret" /\ Session' /\ pc' \in Between
    BY <2>1 DEF Ahead
  <2>. QED
    BY <1>0, <1>2, <2>1, <2>3, <2>4, QuietData
<1>7. CASE CreateClosesSpare
  <2>1. /\ pc = "create_top" /\ pc' = "update" /\ lv' = [lv EXCEPT !.uret = "created"]
        /\ ni' = [ni EXCEPT !.mapping_blocks_top_ba = ni.mapping_blocks_ba]
    BY <1>7 DEF CreateClosesSpare, CloseSpareArea, CallUpdate
  <2>2. lv'.uret \notin Pending
    BY <1>0, <2>1 DEF Locals, Pending
  <2>3. Operation'
    BY <2>1, <2>2, OperationGoesOn
  <2>4. pc' \in Ahead /\ pc' # "upd_ret" /\ Session' /\ pc' \in Between
    BY <2>1 DEF Ahead
  <2>5. /\ ni'.block_mapping = ni.block_mapping /\ ni'.block_state = ni.block_state
        /\ ni'.data_block_count = ni.data_block_count /\ ni'.changed = ni.changed
        /\ ni'.info_table_cache = ni.info_table_cache /\ ni'.protected = ni.protected
        /\ ni'.main_table_ba = ni.main_table_ba
    BY <1>0, <2>1 DEF Instance
  <2>. QED
    BY <1>0, <1>2, <2>3, <2>4, <2>5, QuietData
<1>8. CASE CreateReturns /\ lv.ok
  <2>1. pc = "created" /\ pc' = "idle" /\ ni' = ni
    BY <1>8 DEF CreateReturns
  <2>2. Operation'
    BY <2>1, OperationGoesOn
  <2>3. pc \notin Ahead /\ pc' # "upd_ret" /\ Session' /\ pc' \in Between
    BY <2>1 DEF Ahead
  <2>. QED
    BY <1>0, <1>2, <2>1, <2>2, <2>3, QuietData
<1>9. CASE CreateReturns /\ ~lv.ok
  <2>1. pc' = "failed" /\ ni' = ni
    BY <1>9 DEF CreateReturns
  <2>. QED
    BY <1>0, <2>1, SteadyKept
<1>. QED
  BY <1>4, <1>5, <1>6, <1>7, <1>8, <1>9

-----------------------------------------------------------------------------
(* Attaching to a chip without tables, and power failures                   *)

\* A chip without a signature has no tables
LEMMA NewChip ==
    ASSUME Chip, Fresh, pc \in {"sig_write", "sig_program", "create"}
    PROVE  TablesOnChip = {}
  BY DEF Chip, OneSignature, Fresh

\* Until nmbm_create_info_table writes one there is no table, and no acknowledged
\* data but what was lost with the last one
LEMMA FreshData ==
    ASSUME IInv, IInv', Chip, Chip', Fresh, Fresh', Start, pc' \in Unlaid, pc' # "off",
           \/ AttachNew \/ AttachRecreates \/ CreateTables
           \/ SigSkips \/ SigErases \/ SigFails \/ SigWritten \/ SigExhausted
    PROVE  BadAgree' /\ Start' /\ TablesLead' /\ ni'.main_table_ba = 0
<1>0. ni \in Instance /\ lv \in Locals /\ InitStructure \in Instance
  BY InitType DEF IInv, TypeOK
<1>1. UNCHANGED <<expect, lost>> /\ lv'.uret = lv.uret /\ ~ni'.protected
      /\ ni'.main_table_ba = 0
  <2>1. pc \in Unlaid \ {"failed"} /\ ~ni.protected /\ ni.main_table_ba = 0
    BY DEF AttachNew, AttachRecreates, CreateTables, SigSkips, SigErases, SigFails,
           SigWritten, SigExhausted, CanEraseSig, Start, Fresh, Unlaid
  <2>2. CASE AttachNew \/ AttachRecreates
    <3>1. PICK n, label : Builds(n, label) /\ n \in Instance /\ ~n.protected
                          /\ n.main_table_ba = 0
      <4>1. CASE AttachNew
        <5>1. ~InitStructure.protected /\ InitStructure.main_table_ba = 0
          BY DEF InitStructure
        <5>. QED
          BY <1>0, <4>1, <5>1 DEF AttachNew
      <4>2. CASE AttachRecreates
        <5>1. PICK sg \in Blocks, ecc \in SUBSET Torn :
                /\ IsSignature(sg)
                /\ Builds([InitStructure EXCEPT
                             !.block_state = Marked(AllGood,
                                                    Found(AllGood, MgmtStart, sg - 2, ecc)),
                             !.mapping_blocks_top_ba = sg - 1,
                             !.signature_ba = sg],
                          "create")
          BY <4>2 DEF AttachRecreates
        <5>2. PICK st : st = Marked(AllGood, Found(AllGood, MgmtStart, sg - 2, ecc))
          OBVIOUS
        <5>3. sg - 1 \in Blocks
          <6>1. MgmtStart < sg
            BY <5>1, SignatureFound
          <6>. QED
            BY SMTT(30), <6>1, GeometryAssumption DEF Blocks
        <5>4. st \in StateTable
          BY <5>2, MarkedType DEF AllGood, StateTable, BlockState
        <5>5. PICK n : n = [InitStructure EXCEPT !.block_state = st,
                              !.mapping_blocks_top_ba = sg - 1, !.signature_ba = sg]
          OBVIOUS
        <5>6. n \in Instance /\ ~n.protected /\ n.main_table_ba = 0
          BY <1>0, <5>3, <5>4, <5>5 DEF Instance, InitStructure
        <5>. QED
          BY <5>1, <5>2, <5>5, <5>6
      <4>. QED
        BY <2>2, <4>1, <4>2
    <3>2. ~ni'.protected /\ ni'.main_table_ba = 0
      BY <3>1 DEF Builds, Scanned, Instance
    <3>3. UNCHANGED <<expect, lost>> /\ lv'.uret = lv.uret
      BY <1>0, <2>2 DEF AttachNew, AttachRecreates, userVars, Locals
    <3>. QED
      BY <3>2, <3>3
  <2>3. CASE CreateTables \/ SigSkips \/ SigErases \/ SigExhausted
    <3>1. CreateTables => UNCHANGED <<ni, lv>>
      BY DEF CreateTables, CallRebuild, Unlaid
    <3>2. UNCHANGED <<ni, expect, lost>> /\ lv'.uret = lv.uret
      BY <1>0, <2>3, <3>1 DEF CreateTables, SigSkips, SigErases, SigExhausted, LowerBlock,
           userVars, Locals
    <3>. QED
      BY <2>1, <3>2
  <2>4. CASE SigFails \/ SigWritten
    <3>1. UNCHANGED <<expect, lost>> /\ lv'.uret = lv.uret
      BY <1>0, <2>4 DEF SigFails, SigWritten, LowerBlock, userVars, Locals
    <3>2. ni'.protected = ni.protected /\ ni'.main_table_ba = ni.main_table_ba
      BY <1>0, <2>4 DEF SigFails, SigWritten, MarkFailed, SetState, Instance
    <3>. QED
      BY <2>1, <3>1, <3>2
  <2>. QED
    BY <2>2, <2>3, <2>4
<1>2. TablesOnChip = {} /\ TablesOnChip' = {}
  <2>1. CASE AttachNew \/ AttachRecreates
    <3>1. pc' \in {"sig_write", "create"} /\ UNCHANGED <<flash, oob>>
      BY <2>1 DEF AttachNew, AttachRecreates, Builds
    <3>2. TablesOnChip' = {}
      BY <3>1 DEF Chip, OneSignature, Fresh
    <3>. QED
      BY <3>1, <3>2, SameChip
  <2>2. CASE ~(AttachNew \/ AttachRecreates)
    <3>1. pc \in {"sig_write", "sig_program", "create"}
      BY <2>2 DEF CreateTables, SigSkips, SigErases, SigFails, SigWritten, SigExhausted,
           CanEraseSig
    <3>2. TablesOnChip = {}
      BY <3>1, NewChip
    <3>3. CASE pc' = "failed"
      <4>1. UNCHANGED <<flash, oob>>
        BY <2>2, <3>3 DEF CreateTables, SigSkips, SigErases, SigFails, SigWritten,
             SigExhausted
      <4>. QED
        BY <3>2, <4>1, SameChip
    <3>4. CASE pc' # "failed"
      <4>1. pc' \in {"sig_write", "sig_program", "create"}
        BY <3>4 DEF Unlaid
      <4>. QED
        BY <3>2, <4>1 DEF Chip, OneSignature, Fresh
    <3>. QED
      BY <3>3, <3>4
  <2>. QED
    BY <2>1, <2>2
<1>3. lv.uret \notin Pending /\ (~lost => Known = {})
  <2>1. pc \in Unlaid \ {"failed"}
    BY DEF AttachNew, AttachRecreates, CreateTables, SigSkips, SigErases, SigFails,
           SigWritten, SigExhausted, CanEraseSig, Unlaid
  <2>. QED
    BY <1>2, <2>1 DEF Start
<1>4. Start'
  BY <1>1, <1>3 DEF Start, Known
<1>. QED
  BY <1>1, <1>2, <1>4 DEF BadAgree, TablesLead

\* nmbm_create_info_table starts without acknowledged data
LEMMA CreateTablesData ==
    ASSUME IInv, IInv', Chip, Fresh, Start, CreateTables, pc' \notin Unlaid
    PROVE  Steady' /\ Current' /\ Protection' /\ Operation'
<1>0. /\ ni \in Instance /\ lv \in Locals /\ pc = "create"
      /\ UNCHANGED <<flash, oob, expect, lost>>
  BY DEF IInv, TypeOK, CreateTables, userVars
<1>1. PICK top \in Blocks :
        CallRebuild(Generate([ni EXCEPT !.mapping_blocks_top_ba = top]), "create_map")
  BY DEF CreateTables, Unlaid
<1>2. PICK n : n = [ni EXCEPT !.mapping_blocks_top_ba = top]
  OBVIOUS
<1>3. n \in Instance /\ n.protected = ni.protected
  BY <1>0, <1>2 DEF Instance
<1>4. PICK g : g = Generate(n)
  OBVIOUS
<1>5. /\ g \in Instance /\ g.block_mapping = n.block_mapping
      /\ g.block_state = n.block_state /\ g.protected = n.protected
      /\ g.info_table_cache.block_mapping = n.block_mapping
      /\ g.info_table_cache.block_state = n.block_state
  <2>1. g.protected = n.protected
    BY <1>3, <1>4 DEF Generate, Instance
  <2>. QED
    BY <1>3, <1>4, <2>1, GenerateFields, GenerateType
<1>6. /\ ni' = [g EXCEPT !.main_table_ba = 0, !.backup_table_ba = 0,
                         !.mapping_blocks_ba = g.mapping_blocks_top_ba]
      /\ pc' = "write" /\ lv'.uret = lv.uret /\ lv'.ret = "reb_main"
  BY <1>0, <1>1, <1>2, <1>4 DEF CallRebuild, CallWrite, Locals
<1>7. /\ ni'.block_mapping = g.block_mapping /\ ni'.block_state = g.block_state
      /\ ni'.info_table_cache = g.info_table_cache /\ ni'.protected = g.protected
  BY <1>5, <1>6 DEF Instance
<1>8. /\ ~ni.protected /\ lv.uret \notin Pending /\ TablesOnChip = {}
      /\ ~lost => Known = {}
  BY <1>0, NewChip DEF Start, Unlaid
<1>9. TablesOnChip' = {} /\ (~lost' => Known' = {})
  BY <1>0, <1>8, SameChip DEF Known
<1>10. Steady'
  <2>1. BadAgree' /\ BadKnown'
    BY <1>5, <1>7, <1>9 DEF BadAgree, BadKnown, FewerBad
  <2>2. ~lost' => TablesLead' /\ Held'
    BY <1>9 DEF TablesLead, Held, Leads
  <2>. QED
    BY <2>1, <2>2 DEF Steady
<1>11. InWrite' /\ Writer' = "reb_main" /\ pc' \notin AfterWrite /\ pc' # "upd_ret"
  BY <1>6 DEF InWrite, Writer, AfterWrite
<1>12. Current'
  <2>1. Safe("reb_main")' = {}
    BY DEF Safe
  <2>2. Records(ni'.info_table_cache.block_mapping, ni'.block_mapping)
    BY <1>5, <1>7 DEF Records
  <2>3. Fit({})'
    BY DEF Fit
  <2>4. Fit(Safe(Writer))'
    BY <1>11, <2>1, <2>3 DEF Fit
  <2>. QED
    BY <1>11, <2>2, <2>4 DEF Current
<1>13. Protection'
  BY <1>3, <1>5, <1>7, <1>8, <1>11 DEF Protection
<1>14. Operation'
  BY <1>6, <1>8 DEF Operation, Operating, Remapping, Pending
<1>. QED
  BY <1>10, <1>12, <1>13, <1>14

-----------------------------------------------------------------------------
(* Attaching to a chip with tables                                          *)

\* Of the blocks that are not BAD in the table in block c, instance n takes only
\* marked and torn ones for bad
OnlyDamaged(c, n) ==
    \A b \in Blocks : n.block_state[b] = BAD =>
      Tbl(c).block_state[b] = BAD \/ b \in oob \/ flash[b] = Junk

\* What nmbm_load_info_table leaves in the instance structure, beyond the layout
LEMMA LoadedRest ==
    ASSUME IInv, Chip, NEW s, NEW first, NEW second, NEW ecc \in SUBSET Torn,
           NEW top \in Blocks, NEW count \in 0 .. MgmtStart,
           Searched(s, first, second),
           NEW n, n = LoadedInstance(s, first, second, ecc, top, count)
    PROVE  /\ ~n.protected /\ n.data_block_count = count
           /\ FewerBad(Tbl(Chosen(first, second)).block_state, n.block_state)
           /\ OnlyDamaged(Chosen(first, second), n)
<1>. TypeOK
  BY DEF IInv
<1>. PICK c : c = Chosen(first, second)
  OBVIOUS
<1>0. /\ s \in Blocks /\ first \in Blocks /\ second \in Blocks
      /\ first \in TablesOnChip /\ MgmtStart <= first /\ first <= s - 2
      /\ second # 0 => second \in TablesOnChip /\ first < second /\ second <= s - 2
  BY DEF Searched
<1>. DEFINE st1 == flash[first].tbl.block_state
            last == IF second = 0 THEN s - 2 ELSE second - 1
            marks1 == Found(AllGood, MgmtStart, first - 1, ecc)
            marks2 == Found(st1, first + 1, last, ecc)
            t == Tbl(c)
            st == IF c = first THEN Marked(st1, marks2) ELSE t.block_state
            changed == marks1 # {} \/ marks2 # {}
            mb == (IF second = 0 THEN first ELSE second) + 1
            m == [InitStructure EXCEPT
                    !.block_state = st, !.block_mapping = t.block_mapping,
                    !.changed = changed, !.write_count = t.write_count,
                    !.data_block_count = count,
                    !.main_table_ba = first, !.backup_table_ba = second,
                    !.mapping_blocks_ba = mb, !.mapping_blocks_top_ba = top,
                    !.signature_ba = s]
<1>1. n = Generate(m)
  BY DEF LoadedInstance, Tbl
<1>2. c \in TablesOnChip
  BY ChosenKnows DEF Preferred
<1>3. t \in InfoTable /\ flash[first].tbl \in InfoTable
  BY <1>0, <1>2, TableType DEF Tbl
<1>4. /\ t.block_mapping \in MappingTable /\ t.write_count \in Nat
      /\ t.block_state \in StateTable /\ st1 \in StateTable
  BY <1>3 DEF InfoTable
<1>5. st \in StateTable
  BY <1>4, MarkedType
<1>6. mb \in 0 .. BlockCount
  BY SMTT(30), <1>0, GeometryAssumption DEF Blocks
<1>7. changed \in BOOLEAN
  OBVIOUS
<1>8. \A b \in Blocks : \/ st[b] = t.block_state[b]
                        \/ st[b] = BAD /\ (b \in oob \/ flash[b] = Junk)
  <2>1. CASE c = first
    <3>1. st1 = t.block_state /\ st = Marked(st1, marks2)
      BY <2>1 DEF Tbl
    <3>2. \A b \in Blocks : st[b] = IF b \in marks2 THEN BAD ELSE st1[b]
      BY <3>1 DEF Marked
    <3>3. \A b \in marks2 : b \in oob \/ flash[b] = Junk
      BY DEF Found, Torn
    <3>. QED
      BY <3>1, <3>2, <3>3
  <2>2. CASE c # first
    BY <2>2
  <2>. QED
    BY <2>1, <2>2
<1>. HIDE DEF st1, last, marks1, marks2, t, st, changed, mb
<1>11. m \in Instance
  BY <1>0, <1>4, <1>5, <1>6, <1>7, InitType DEF Instance
<1>12. m.block_state = st /\ ~m.protected /\ m.data_block_count = count
  <2>1. ~InitStructure.protected
    BY DEF InitStructure
  <2>. QED
    BY <2>1, InitType DEF Instance
<1>. HIDE DEF m
<1>13. n.block_state = st
  BY <1>1, <1>11, <1>12, GenerateFields
<1>14. ~n.protected /\ n.data_block_count = count
  BY <1>1, <1>11, <1>12 DEF Generate, Instance
<1>15. FewerBad(t.block_state, n.block_state)
  BY <1>8, <1>13 DEF FewerBad
<1>16. OnlyDamaged(c, n)
  BY <1>8, <1>13 DEF OnlyDamaged, t
<1>. QED
  BY <1>14, <1>15, <1>16 DEF t

\* The instance that an attach loads leads to the acknowledged data
LEMMA LoadedSteady ==
    ASSUME IInv, IInv', Chip, BadAgree, ~lost => TablesLead,
           NEW s, NEW first, NEW second, NEW ecc \in SUBSET Torn,
           NEW top \in Blocks, NEW count \in 0 .. MgmtStart,
           Searched(s, first, second),
           DataBlocks(flash[Chosen(first, second)].tbl.block_mapping, count),
           NEW n, n = LoadedInstance(s, first, second, ecc, top, count),
           UNCHANGED <<flash, oob, expect, lost>>,
           ni'.block_mapping = n.block_mapping, ni'.block_state = n.block_state,
           ni'.data_block_count = n.data_block_count,
           ni'.info_table_cache = n.info_table_cache
    PROVE  Steady'
<1>. TypeOK
  BY DEF IInv
<1>1. PICK c : c = Chosen(first, second)
  OBVIOUS
<1>2. Preferred(c)
  BY <1>1, ChosenKnows
<1>3. LoadedFrom(c, n)
  BY <1>1, LoadedFields
<1>4. /\ n.data_block_count = count
      /\ FewerBad(Tbl(c).block_state, n.block_state)
      /\ OnlyDamaged(c, n)
  <2>1. FewerBad(Tbl(Chosen(first, second)).block_state, n.block_state)
    BY LoadedRest
  <2>2. OnlyDamaged(Chosen(first, second), n)
    BY LoadedRest
  <2>3. n.data_block_count = count
    BY SMTT(30), LoadedRest
  <2>. QED
    BY <1>1, <2>1, <2>2, <2>3
<1>5. c \in TablesOnChip /\ \A b \in TablesOnChip : Tbl(b).write_count <= Tbl(c).write_count
  BY <1>2 DEF Preferred
<1>6. /\ n.block_mapping = Tbl(c).block_mapping
      /\ n.info_table_cache.block_state = n.block_state
  BY <1>3 DEF LoadedFrom
<1>7. /\ TablesOnChip' = TablesOnChip /\ \A b \in TablesOnChip' : Tbl(b)' = Tbl(b)
      /\ Known' = Known /\ \A lb : Acknowledged(lb)' = Acknowledged(lb)
  BY SameChip, SameHistory
<1>8. BadAgree'
  BY <1>7, BadKept
<1>9. BadKnown'
  <2>1. ASSUME NEW b \in TablesOnChip
        PROVE  FewerBad(Tbl(b).block_state, n.block_state)
    <3>1. FewerBad(Tbl(b).block_state, Tbl(c).block_state)
      BY <1>5 DEF BadAgree
    <3>. QED
      BY <1>4, <3>1 DEF FewerBad
  <2>2. ni'.info_table_cache.block_state = n.block_state
    BY <1>6
  <2>3. \A b \in TablesOnChip' :
          FewerBad(Tbl(b)'.block_state, ni'.info_table_cache.block_state)
    BY <1>7, <2>1, <2>2
  <2>4. FewerBad(ni'.info_table_cache.block_state, ni'.block_state)
    BY <2>2 DEF FewerBad
  <2>. QED
    BY <2>3, <2>4 DEF BadKnown, FewerBad
<1>10. ASSUME ~lost
       PROVE  TablesLead' /\ Held'
  <2>1. Leads(Tbl(c).block_mapping, Tbl(c).block_state)
    BY <1>5, <1>10 DEF TablesLead
  <2>2. Tbl(c).block_mapping \in [Logical -> Blocks \cup {-1}]
    BY <1>5, TableType DEF Tbl, InfoTable, MappingTable
  <2>3. ASSUME NEW lb \in Known
        PROVE  /\ n.block_mapping[lb] # -1
               /\ flash[n.block_mapping[lb]] = Acknowledged(lb)
               /\ n.block_mapping[lb] \in oob \/ n.block_state[n.block_mapping[lb]] # BAD
               /\ lb < count
               /\ \A b \in TablesOnChip : Tbl(b).block_mapping[lb] = n.block_mapping[lb]
    <3>1. PICK pb : pb = n.block_mapping[lb]
      OBVIOUS
    <3>2. lb \in Logical /\ pb = Tbl(c).block_mapping[lb]
      BY <1>6, <3>1 DEF Known
    <3>3. /\ pb # -1 /\ flash[pb] = Acknowledged(lb)
          /\ pb \in oob \/ Tbl(c).block_state[pb] # BAD
      BY <2>1, <3>2 DEF Leads
    <3>4. pb \in Blocks
      BY <2>2, <3>2, <3>3
    <3>5. flash[pb] # Junk
      <4>1. Acknowledged(lb).kind \in {"erased", "data"} /\ Junk.kind = "junk"
        BY DEF Acknowledged, Erased, Data, Junk
      <4>. QED
        BY <3>3, <4>1
    <3>6. pb \in oob \/ n.block_state[pb] # BAD
      BY <1>4, <3>3, <3>4, <3>5 DEF OnlyDamaged
    <3>7. lb < count
      <4>1. ~(\A x \in Logical : Tbl(c).block_mapping[x] = -1)
        BY <3>2, <3>3
      <4>2. ~(lb >= count)
        BY <1>1, <3>2, <3>3, <4>1 DEF DataBlocks, Tbl
      <4>. QED
        BY SMTT(30), <3>2, <4>2, GeometryAssumption DEF Logical
    <3>8. \A b \in TablesOnChip : Tbl(b).block_mapping[lb] = pb
      BY <1>5, <1>10, <3>2 DEF TablesLead
    <3>. QED
      BY <3>1, <3>3, <3>6, <3>7, <3>8
  <2>4. ASSUME NEW lb \in Known'
        PROVE  /\ ni'.block_mapping[lb] # -1
               /\ flash'[ni'.block_mapping[lb]] = Acknowledged(lb)'
               /\ \/ ni'.block_mapping[lb] \in oob'
                  \/ ni'.block_state[ni'.block_mapping[lb]] # BAD
               /\ lb < ni'.data_block_count
               /\ \A b \in TablesOnChip' :
                    Tbl(b)'.block_mapping[lb] = ni'.block_mapping[lb]
    <3>1. lb \in Known /\ Acknowledged(lb)' = Acknowledged(lb)
      BY <1>7
    <3>2. /\ n.block_mapping[lb] # -1
          /\ flash[n.block_mapping[lb]] = Acknowledged(lb)
          /\ n.block_mapping[lb] \in oob \/ n.block_state[n.block_mapping[lb]] # BAD
          /\ lb < count
      BY <2>3, <3>1
    <3>3. \A b \in TablesOnChip : Tbl(b).block_mapping[lb] = n.block_mapping[lb]
      BY <2>3, <3>1
    <3>4. \A b \in TablesOnChip' : Tbl(b)'.block_mapping[lb] = n.block_mapping[lb]
      BY <1>7, <3>3
    <3>5. lb < ni'.data_block_count
      BY <1>4, <3>2
    <3>. QED
      BY <3>1, <3>2, <3>4, <3>5
  <2>5. Held'
    BY <2>4 DEF Held, Leads, Home
  <2>6. TablesLead'
    BY <1>9, <2>5, TablesLeadBy DEF IInv
  <2>. QED
    BY <2>5, <2>6
<1>. QED
  BY <1>8, <1>9, <1>10 DEF Steady

\* The instance that nmbm_load_info_table hands to the write of a table, or returns
LEMMA AttachLoadsData ==
    ASSUME IInv, IInv', Chip, Fresh, Start, BadAgree, ~lost => TablesLead, AttachLoads
    PROVE  /\ Steady' /\ Current' /\ Protection' /\ Operation'
           /\ pc' \notin Unlaid /\ ni'.main_table_ba # 0
<1>. TypeOK
  BY DEF IInv
<1>0. /\ UNCHANGED <<flash, oob, expect, lost>> /\ pc = "off"
      /\ lv \in Locals /\ lv.uret \notin Pending
  BY DEF AttachLoads, userVars, TypeOK, Start, Unlaid
<1>1. PICK s \in Blocks, first \in Blocks \ {0}, second \in Blocks,
           ecc \in SUBSET Torn, top \in Blocks, count \in 0 .. MgmtStart :
        /\ IsSignature(s)
        /\ IsFirst(s, first)
        /\ IsSecond(s, first, second)
        /\ DataBlocks(flash[Chosen(first, second)].tbl.block_mapping, count)
        /\ LoadedNext(LoadedInstance(s, first, second, ecc, top, count), first, second)
  BY DEF AttachLoads
<1>2. PICK n : n = LoadedInstance(s, first, second, ecc, top, count)
  OBVIOUS
<1>3. Searched(s, first, second)
  <2>1. s \in SigBlocks
    BY <1>1, SignatureFound
  <2>. QED
    BY <1>1, <2>1, TablesFound
<1>4. PICK c : c = Chosen(first, second)
  OBVIOUS
<1>5. n \in Instance /\ n.main_table_ba = first /\ n.backup_table_ba = second
  <2>1. LoadedLayout(s, first, second, Chosen(first, second), top, n)
    BY <1>2, <1>3, LoadedFields
  <2>. QED
    BY <2>1 DEF LoadedLayout
<1>6. /\ n.block_mapping = Tbl(c).block_mapping
      /\ n.info_table_cache.block_mapping = Tbl(c).block_mapping
  <2>1. LoadedFrom(Chosen(first, second), n)
    BY <1>2, <1>3, LoadedFields
  <2>. QED
    BY <1>4, <2>1 DEF LoadedFrom
<1>7. ~n.protected
  BY <1>2, <1>3, LoadedRest
<1>8. /\ TablesOnChip = Tables({first, second}) /\ first \in TablesOnChip
      /\ second # 0 => second \in TablesOnChip
      /\ TablesOnChip' = TablesOnChip /\ \A b \in TablesOnChip' : Tbl(b)' = Tbl(b)
  BY <1>0, <1>3, SameChip DEF Searched
<1>9. /\ Tbl(first).write_count \in Nat
      /\ second # 0 => Tbl(second).write_count \in Nat
      /\ c = IF second # 0 /\ Tbl(second).write_count > Tbl(first).write_count
             THEN second ELSE first
  <2>1. \A b \in TablesOnChip : Tbl(b).write_count \in Nat
    BY TableType DEF InfoTable, Tbl
  <2>. QED
    BY <1>4, <1>8, <2>1 DEF Chosen, Tbl
<1>10. ASSUME ni' = n \/ ni' = [n EXCEPT !.changed = TRUE]
       PROVE  /\ Steady' /\ ~ni'.protected /\ ni'.main_table_ba = first
              /\ ni'.backup_table_ba = second
              /\ Records(ni'.info_table_cache.block_mapping, ni'.block_mapping)
              /\ ni'.block_mapping = Tbl(c).block_mapping
  <2>1. /\ ni'.block_mapping = n.block_mapping /\ ni'.block_state = n.block_state
        /\ ni'.data_block_count = n.data_block_count
        /\ ni'.info_table_cache = n.info_table_cache
        /\ ni'.protected = n.protected /\ ni'.main_table_ba = n.main_table_ba
        /\ ni'.backup_table_ba = n.backup_table_ba
    BY <1>5, <1>10 DEF Instance
  <2>2. Steady'
    BY <1>0, <1>1, <1>2, <1>3, <2>1, LoadedSteady
  <2>3. Records(n.info_table_cache.block_mapping, n.block_mapping)
    BY <1>6 DEF Records
  <2>. QED
    BY <1>5, <1>6, <1>7, <2>1, <2>2, <2>3
<1>11. ASSUME NEW l \in {"rs_front", "us_main", "us_backup"},
              ni' = n \/ ni' = [n EXCEPT !.changed = TRUE],
              pc' = "write", lv'.ret = l, lv'.uret = lv.uret,
              \A b \in Safe(l)' : b = c
       PROVE  /\ Steady' /\ Current' /\ Protection' /\ Operation'
              /\ pc' \notin Unlaid /\ ni'.main_table_ba # 0
  <2>1. /\ Steady' /\ ~ni'.protected /\ ni'.main_table_ba = first
        /\ Records(ni'.info_table_cache.block_mapping, ni'.block_mapping)
        /\ ni'.block_mapping = Tbl(c).block_mapping
    BY <1>10, <1>11
  <2>2. l \in AfterWrite
    BY DEF AfterWrite
  <2>3. c \in TablesOnChip /\ Tbl(c)' = Tbl(c)
    BY <1>8, <1>9
  <2>4. Records(Tbl(c)'.block_mapping, ni'.block_mapping)
    BY <2>1, <2>3 DEF Records
  <2>5. \A b \in Safe(l)' : Records(Tbl(b)'.block_mapping, ni'.block_mapping)
    BY <1>11, <2>4
  <2>6. pc' # l
    BY <1>11
  <2>7. Current' /\ InWrite'
    BY <1>11, <2>1, <2>2, <2>5, <2>6, WritingCurrent
  <2>8. Protection'
    BY <2>1, <2>7 DEF Protection
  <2>9. Operation'
    BY <1>0, <1>11 DEF Operation, Operating, Remapping, Pending
  <2>. QED
    BY <1>11, <2>1, <2>7, <2>8, <2>9 DEF Unlaid
<1>12. \/ second = 0 /\ WriteNext(n, MgmtStart, first, "rs_front")
       \/ /\ second # 0 /\ Tbl(first).write_count < Tbl(second).write_count
          /\ WriteNext([n EXCEPT !.changed = TRUE], first, second, "us_main")
       \/ /\ second # 0 /\ Tbl(first).write_count > Tbl(second).write_count
          /\ WriteNext([n EXCEPT !.changed = TRUE], second, n.mapping_blocks_top_ba,
                       "us_backup")
       \/ /\ second # 0 /\ Tbl(first).write_count = Tbl(second).write_count
          /\ ni' = n /\ ReturnTo("loaded", TRUE)
  BY <1>1, <1>2 DEF LoadedNext, Tbl
<1>13. CASE second = 0 /\ WriteNext(n, MgmtStart, first, "rs_front")
  <2>1. /\ ni' = n /\ pc' = "write" /\ lv'.ret = "rs_front" /\ lv'.uret = lv.uret
    BY <1>0, <1>13 DEF WriteNext, CallWrite, Locals
  <2>2. c = first /\ ni'.main_table_ba = first
    BY <1>5, <1>9, <1>13, <2>1
  <2>3. \A b \in Safe("rs_front")' : b = c
    BY <2>2 DEF Safe
  <2>. QED
    BY <1>11, <2>1, <2>3
<1>14. CASE /\ second # 0 /\ Tbl(first).write_count < Tbl(second).write_count
            /\ WriteNext([n EXCEPT !.changed = TRUE], first, second, "us_main")
  <2>1. /\ ni' = [n EXCEPT !.changed = TRUE] /\ pc' = "write" /\ lv'.ret = "us_main"
        /\ lv'.uret = lv.uret
    BY <1>0, <1>14 DEF WriteNext, CallWrite, Locals
  <2>2. c = second
    BY SMTT(30), <1>9, <1>14
  <2>3. ni'.backup_table_ba = second
    BY <1>10, <2>1
  <2>4. \A b \in Safe("us_main")' : b = c
    BY <2>2, <2>3 DEF Safe
  <2>. QED
    BY <1>11, <2>1, <2>4
<1>15. CASE /\ second # 0 /\ Tbl(first).write_count > Tbl(second).write_count
            /\ WriteNext([n EXCEPT !.changed = TRUE], second, n.mapping_blocks_top_ba,
                         "us_backup")
  <2>1. /\ ni' = [n EXCEPT !.changed = TRUE] /\ pc' = "write" /\ lv'.ret = "us_backup"
        /\ lv'.uret = lv.uret
    BY <1>0, <1>15 DEF WriteNext, CallWrite, Locals
  <2>2. c = first
    BY SMTT(30), <1>9, <1>15
  <2>3. ni'.main_table_ba = first
    BY <1>10, <2>1
  <2>4. \A b \in Safe("us_backup")' : b = c
    BY <2>2, <2>3 DEF Safe
  <2>. QED
    BY <1>11, <2>1, <2>4
<1>16. CASE /\ second # 0 /\ Tbl(first).write_count = Tbl(second).write_count
            /\ ni' = n /\ ReturnTo("loaded", TRUE)
  <2>1. pc' = "loaded"
    BY <1>16 DEF ReturnTo
  <2>2. /\ Steady' /\ ~ni'.protected /\ ni'.main_table_ba = first
        /\ ni'.block_mapping = Tbl(c).block_mapping
    BY <1>10, <1>16
  <2>3. \A b \in TablesOnChip : Tbl(b).write_count = Tbl(c).write_count
    BY <1>8, <1>9, <1>16 DEF Tables
  <2>4. \A b \in TablesOnChip : Tbl(b) = Tbl(c)
    <3>1. Preferred(c)
      BY <1>3, <1>4, ChosenKnows
    <3>. QED
      BY <2>3, <3>1 DEF Preferred
  <2>5. \A b \in TablesOnChip' : Records(Tbl(b)'.block_mapping, ni'.block_mapping)
    BY <1>8, <2>2, <2>4 DEF Records
  <2>6. ~InWrite' /\ pc' \notin {"upd_ret", "erase_range"}
    BY <2>1 DEF InWrite, AfterWrite
  <2>7. Current'
    BY <2>5, <2>6, SettledCurrent
  <2>8. Protection'
    BY <2>2 DEF Protection
  <2>9. Operation'
    BY <2>1 DEF Operation, Operating, Remapping, Pending, TableLabels
  <2>. QED
    BY <2>1, <2>2, <2>7, <2>8, <2>9 DEF Unlaid
<1>. QED
  BY <1>12, <1>13, <1>14, <1>15, <1>16

-----------------------------------------------------------------------------
(* Power failures                                                           *)

\* An interrupted erase or program tears no block with acknowledged data
LEMMA PowerData ==
    ASSUME IInv, Chip, Fresh, pc \notin Unlaid => Session /\ Operation, BadAgree,
           ~lost => TablesLead /\ (pc \notin Unlaid => Held), Detached \/ Crash
    PROVE  /\ BadAgree' /\ Start' /\ pc' = "off" /\ ni'.main_table_ba = 0
           /\ ~lost' => TablesLead'
<1>. TypeOK
  BY DEF IInv
<1>1. /\ pc' = "off" /\ UNCHANGED <<oob, expect>> /\ lv' = NoLocals /\ ni' = InitStructure
      /\ lost' = (lost \/ (Known # {} /\ TablesOnChip' = {}))
  BY DEF Detached, Crash, PowerOff
<1>2. PICK torn \in SUBSET Busy :
        flash' = [b \in Blocks |-> IF b \in torn THEN Junk ELSE flash[b]]
  <2>1. CASE Detached
    <3>1. flash' = [b \in Blocks |-> IF b \in {} THEN Junk ELSE flash[b]]
      BY SMTT(30), <2>1 DEF Detached, TypeOK
    <3>2. {} \in SUBSET Busy
      OBVIOUS
    <3>. QED
      BY <3>1, <3>2
  <2>2. CASE Crash
    BY <2>2 DEF Crash
  <2>. QED
    BY <2>1, <2>2
<1>3. /\ TablesOnChip' \subseteq TablesOnChip
      /\ \A b \in TablesOnChip' : Tbl(b)' = Tbl(b)
  <2>1. \A b \in Blocks : b \in torn => flash'[b].kind = "junk"
    BY <1>2 DEF Junk
  <2>2. \A b \in Blocks : b \notin torn => flash'[b] = flash[b]
    BY <1>2
  <2>. QED
    BY <1>1, <2>1, <2>2 DEF TablesOnChip, Tbl
<1>4. BadAgree'
  BY <1>3, BadKept
<1>5. Known' = Known /\ \A lb : Acknowledged(lb)' = Acknowledged(lb)
  BY <1>1, SameHistory
<1>6. Start'
  <2>1. ~ni'.protected /\ lv'.uret \notin Pending
    BY <1>1 DEF InitStructure, NoLocals, Pending
  <2>2. TablesOnChip' = {} /\ ~lost' => Known' = {}
    BY <1>1, <1>5
  <2>. QED
    BY <2>1, <2>2 DEF Start
<1>7. ASSUME ~lost, NEW b \in TablesOnChip', NEW lb \in Known
      PROVE  Tbl(b).block_mapping[lb] \notin torn
  <2>1. b \in TablesOnChip /\ lb \in Logical
    BY <1>3 DEF Known
  <2>2. CASE pc \in Unlaid
    <3>1. pc \notin {"sig_write", "sig_program"}
      BY <2>1, NewChip
    <3>2. Busy = {}
      BY <2>2, <3>1 DEF Busy, CanErase, AtBlock, CanEraseSig, CanEraseLogic, Unlaid
    <3>. QED
      BY <3>2
  <2>3. CASE pc \notin Unlaid
    <3>1. Tbl(b).block_mapping[lb] = Home(lb) /\ Home(lb) # -1
      BY <1>7, <2>1, <2>3 DEF Held, Leads, Home
    <3>2. Session /\ Operation
      BY <2>3
    <3>3. CASE CanErase("write") \/ CanErase("erase_range") \/ pc = "program"
      <4>1. pc \in Writing /\ lv.ba < lv.limit
        BY <3>3 DEF CanErase, AtBlock, Writing, IInv, Ranges
      <4>2. Busy = {lv.ba}
        BY <3>3 DEF Busy
      <4>. QED
        BY <2>1, <3>1, <3>2, <4>1, <4>2, LoopApart
    <3>4. CASE ~(CanErase("write") \/ CanErase("erase_range") \/ pc = "program")
      <4>1. ~(CanEraseSig \/ pc = "sig_program")
        BY <2>3 DEF CanEraseSig, Unlaid
      <4>2. CASE CanEraseLogic \/ pc = "page_write"
        <5>1. pc \in {"erase", "page_write"} /\ op.lb \in Logical
          BY <4>2 DEF CanEraseLogic, TypeOK
        <5>2. Operating
          BY <5>1 DEF Operating, Pending
        <5>3. lb # op.lb
          BY <3>2, <5>2 DEF Operation
        <5>4. Home(lb) # Home(op.lb)
          BY <2>1, <3>1, <3>2, <5>1, <5>3, OtherHome
        <5>5. Busy = {Home(op.lb)}
          BY <3>4, <4>1, <4>2 DEF Busy
        <5>. QED
          BY <3>1, <5>4, <5>5
      <4>3. CASE ~(CanEraseLogic \/ pc = "page_write")
        <5>1. Busy = {}
          BY <3>4, <4>1, <4>3 DEF Busy
        <5>. QED
          BY <5>1
      <4>. QED
        BY <4>2, <4>3
    <3>. QED
      BY <3>3, <3>4
  <2>. QED
    BY <2>2, <2>3
<1>8. ASSUME ~lost'
      PROVE  TablesLead'
  <2>1. ~lost /\ TablesLead
    BY <1>1, <1>8
  <2>2. ASSUME NEW b \in TablesOnChip', NEW lb \in Known
        PROVE  /\ Tbl(b)'.block_mapping[lb] # -1
               /\ flash'[Tbl(b)'.block_mapping[lb]] = Acknowledged(lb)
               /\ \/ Tbl(b)'.block_mapping[lb] \in oob
                  \/ Tbl(b)'.block_state[Tbl(b)'.block_mapping[lb]] # BAD
    <3>1. PICK pb : pb = Tbl(b).block_mapping[lb]
      OBVIOUS
    <3>2. b \in TablesOnChip /\ Tbl(b)' = Tbl(b) /\ lb \in Logical
      BY <1>3 DEF Known
    <3>3. /\ pb # -1 /\ flash[pb] = Acknowledged(lb)
          /\ pb \in oob \/ Tbl(b).block_state[pb] # BAD
      BY <2>1, <3>1, <3>2 DEF TablesLead, Leads
    <3>4. Tbl(b).block_mapping \in [Logical -> Blocks \cup {-1}]
      BY <3>2, TableType DEF Tbl, InfoTable, MappingTable
    <3>5. pb \in Blocks /\ pb \notin torn
      BY <1>7, <2>1, <3>1, <3>2, <3>3, <3>4
    <3>6. flash'[pb] = flash[pb]
      BY <1>2, <3>5
    <3>. QED
      BY <3>1, <3>2, <3>3, <3>6
  <2>3. \A b \in TablesOnChip' : Leads(Tbl(b).block_mapping, Tbl(b).block_state)'
    BY <1>1, <1>5, <2>2 DEF Leads
  <2>4. ASSUME NEW b \in TablesOnChip', NEW c \in TablesOnChip', NEW lb \in Known'
        PROVE  Tbl(b)'.block_mapping[lb] = Tbl(c)'.block_mapping[lb]
    <3>1. b \in TablesOnChip /\ c \in TablesOnChip /\ lb \in Known
      BY <1>3, <1>5
    <3>2. Tbl(b)' = Tbl(b) /\ Tbl(c)' = Tbl(c)
      BY <1>3
    <3>. QED
      BY <2>1, <3>1, <3>2 DEF TablesLead
  <2>. QED
    BY <2>3, <2>4 DEF TablesLead
<1>9. ni'.main_table_ba = 0
  BY <1>1 DEF InitStructure
<1>. QED
  BY <1>1, <1>4, <1>6, <1>8, <1>9

-----------------------------------------------------------------------------
(* Every step keeps the data                                                *)

\* DataInv while a device is in use
LEMMA LaidData ==
    ASSUME pc' \notin Unlaid, Steady', Current', Protection', Operation', Loaded'
    PROVE  DataInv'
  BY DEF DataInv, Steady, Start

LEMMA LaidSteady ==
    ASSUME DataInv, ~skipped, pc \notin Unlaid
    PROVE  Steady /\ Current /\ Protection /\ Operation /\ Loaded
  BY DEF DataInv, Steady

\* DataInv before and after
LEMMA UnlaidData ==
    ASSUME pc' \in Unlaid, BadAgree', Start', ~lost' => TablesLead',
           ~lost' => ni'.main_table_ba = 0 \/ Held'
    PROVE  DataInv'
  BY DEF DataInv

\* An erased chip holds no data
LEMMA InitData ==
    ASSUME Init
    PROVE  DataInv
<1>1. pc \in Unlaid /\ TablesOnChip = {}
  BY DEF Init, Unlaid, TablesOnChip, Erased
<1>2. ~ni.protected /\ ni.main_table_ba = 0 /\ lv.uret \notin Pending
  BY DEF Init, InitStructure, NoLocals, Pending
<1>3. Known = {}
  BY DEF Init, Known
<1>4. BadAgree /\ TablesLead /\ Start
  BY <1>1, <1>2, <1>3 DEF BadAgree, TablesLead, Start
<1>. QED
  BY <1>1, <1>2, <1>4 DEF DataInv

\* The invariant is about the variables only
LEMMA StutterData ==
    ASSUME DataInv, UNCHANGED vars
    PROVE  DataInv'
<1>1. UNCHANGED <<flash, oob, ni, lv, pc, op, skipped, expect, lost>>
  BY DEF vars, tableVars, userVars
<1>2. /\ TablesOnChip' = TablesOnChip /\ \A b : Tbl(b)' = Tbl(b)
      /\ Known' = Known /\ \A lb : Acknowledged(lb)' = Acknowledged(lb) /\ Home(lb)' = Home(lb)
  BY <1>1, SameHistory DEF TablesOnChip, Tbl, Home
<1>3. /\ InWrite' = InWrite /\ Rescued' = Rescued /\ Writer' = Writer
      /\ Operating' = Operating /\ Remapping' = Remapping
      /\ \A l : Safe(l)' = Safe(l)
  BY <1>1 DEF InWrite, Rescued, Writer, Operating, Remapping, Safe
<1>4. (BadAgree => BadAgree') /\ (Start => Start') /\ (BadKnown => BadKnown')
  BY <1>1, <1>2 DEF BadAgree, Start, BadKnown, Tbl
<1>5. (TablesLead => TablesLead') /\ (Held => Held')
  <2>1. ASSUME NEW map, NEW st, Leads(map, st)
        PROVE  Leads(map, st)'
    BY <1>1, <1>2, <2>1 DEF Leads
  <2>2. ASSUME TablesLead
        PROVE  TablesLead'
    <3>1. \A b \in TablesOnChip' : Leads(Tbl(b)'.block_mapping, Tbl(b)'.block_state)
      BY <1>2, <2>2 DEF TablesLead
    <3>2. \A b \in TablesOnChip' : Leads(Tbl(b).block_mapping, Tbl(b).block_state)'
      BY <1>2, <2>1, <3>1
    <3>3. ASSUME NEW b \in TablesOnChip', NEW c \in TablesOnChip', NEW lb \in Known'
          PROVE  Tbl(b)'.block_mapping[lb] = Tbl(c)'.block_mapping[lb]
      <4>1. Tbl(b).block_mapping[lb] = Tbl(c).block_mapping[lb]
        BY <1>2, <2>2 DEF TablesLead
      <4>. QED
        BY <1>2, <4>1
    <3>. QED
      BY <3>2, <3>3 DEF TablesLead
  <2>3. ASSUME Held
        PROVE  Held'
    <3>1. Leads(ni.block_mapping, ni.block_state)'
      BY <1>1, <2>1, <2>3 DEF Held
    <3>2. \A lb \in Known' :
            /\ lb < ni'.data_block_count
            /\ \A b \in TablesOnChip' : Tbl(b)'.block_mapping[lb] = Home(lb)'
      BY <1>1, <1>2, <2>3 DEF Held
    <3>. QED
      BY <3>1, <3>2 DEF Held
  <2>. QED
    BY <2>2, <2>3
<1>6. Current => Current'
  BY <1>1, <1>2, <1>3 DEF Current, Fit, Tbl
<1>7. Protection => Protection'
  BY <1>1, <1>2, <1>3 DEF Protection, Fit, Tbl
<1>8. (Operation => Operation') /\ (Loaded => Loaded')
  BY <1>1, <1>2, <1>3 DEF Operation, Loaded
<1>. QED
  BY <1>1, <1>4, <1>5, <1>6, <1>7, <1>8 DEF DataInv

\* Every step keeps the invariant
LEMMA NextData ==
    ASSUME IInv, IInv', RecordInv, RecordInv', DataInv, Next
    PROVE  DataInv'
<1>. SUFFICES ASSUME ~skipped'
              PROVE  DataInv'
  BY DEF DataInv
<1>0. ~skipped
  BY SkippedStays
<1>1. /\ Chip /\ Fresh /\ (pc \notin Unlaid => Session)
      /\ Chip' /\ Fresh' /\ (pc' \notin Unlaid => Session')
  BY <1>0 DEF RecordInv
<1>2. /\ BadAgree /\ Start
      /\ ~lost => TablesLead /\ (pc \notin Unlaid => Held)
  BY <1>0 DEF DataInv
<1>3. pc \notin Unlaid => Steady /\ Current /\ Protection /\ Operation /\ Loaded
  BY <1>0, LaidSteady
<1>4. CASE (BlockStep \/ TableStep) /\ UNCHANGED userVars
  <2>1. pc \notin Unlaid /\ pc' \notin Unlaid
    BY <1>4, TableLabelsLaid DEF IInv
  <2>2. Steady' /\ Current' /\ Protection' /\ Operation'
    BY <1>1, <1>3, <1>4, <2>1, BlockStepData, TableStepData
  <2>3. Loaded'
    BY <1>1, <1>4, <2>1, LoadedHasMain DEF Loaded
  <2>. QED
    BY <2>1, <2>2, <2>3, LaidData
<1>5. CASE Detached \/ Crash
  <2>1. /\ BadAgree' /\ Start' /\ pc' = "off" /\ ni'.main_table_ba = 0
        /\ ~lost' => TablesLead'
    BY <1>1, <1>2, <1>3, <1>5, PowerData
  <2>. QED
    BY <2>1, UnlaidData DEF Unlaid
<1>6. CASE LogicStep /\ ~Detached
  <2>1. pc \notin Unlaid /\ pc' \notin Unlaid /\ pc' # "loaded"
    BY <1>6 DEF LogicStep, EraseUnmapped, EraseGivesUp, EraseSucceeds, EraseLogicFails,
       Remaps, RemapRefused, RemapFails, RemapClosesSpare, WriteSucceeds, WriteFails,
       CanEraseLogic, CallUpdate, CloseSpareArea, Unlaid
  <2>2. Steady' /\ Current' /\ Protection' /\ Operation'
    BY <1>1, <1>3, <1>6, <2>1, LogicStepData
  <2>. QED
    BY <2>1, <2>2, LaidData DEF Loaded
<1>7. CASE StartDetach \/ \E lb \in Logical : \/ StartErase(lb)
                                              \/ \E v \in Vals : StartWrite(lb, v)
                                              \/ MarkBad(lb)
  <2>1. pc \notin Unlaid /\ pc' \notin Unlaid /\ pc' # "loaded"
    BY <1>7 DEF StartDetach, StartErase, StartWrite, MarkBad, StartOp, CallUpdate, Unlaid
  <2>2. Steady' /\ Current' /\ Protection' /\ Operation'
    BY <1>1, <1>3, <1>7, <2>1, StartData
  <2>. QED
    BY <2>1, <2>2, LaidData DEF Loaded
<1>8. CASE AttachLoaded \/ CreateMaps \/ CreateMapped \/ CreateMapFails
             \/ CreateClosesSpare \/ CreateReturns
  <2>1. /\ pc \notin Unlaid /\ (pc' \in Unlaid => pc' = "failed") /\ pc' # "loaded"
    BY <1>8 DEF AttachLoaded, CreateMaps, CreateMapped, CreateMapFails,
       CreateClosesSpare, CreateReturns, CallUpdate, CloseSpareArea, Unlaid
  <2>2. Steady' /\ (pc' # "failed" => Current' /\ Protection' /\ Operation')
    BY <1>1, <1>3, <1>8, <2>1, CreateData
  <2>3. CASE pc' = "failed"
    <3>1. Start' /\ pc' \in Unlaid
      BY <2>3 DEF Start, Unlaid
    <3>. QED
      BY <2>2, <3>1, UnlaidData DEF Steady
  <2>4. CASE pc' # "failed"
    BY <2>1, <2>2, <2>4, LaidData DEF Loaded
  <2>. QED
    BY <2>3, <2>4
<1>9. CASE AttachLoads
  <2>1. /\ Steady' /\ Current' /\ Protection' /\ Operation'
        /\ pc' \notin Unlaid /\ ni'.main_table_ba # 0
    BY <1>1, <1>2, <1>9, AttachLoadsData
  <2>. QED
    BY <2>1, LaidData DEF Loaded
<1>10. CASE CreateTables /\ pc' \notin Unlaid
  <2>1. Steady' /\ Current' /\ Protection' /\ Operation'
    BY <1>1, <1>2, <1>10, CreateTablesData
  <2>2. pc' # "loaded"
    BY <1>10 DEF CreateTables, CallRebuild
  <2>. QED
    BY <1>10, <2>1, <2>2, LaidData DEF Loaded
<1>11. CASE \/ AttachNew \/ AttachRecreates \/ (CreateTables /\ pc' \in Unlaid)
            \/ SigSkips \/ SigErases \/ SigFails \/ SigWritten \/ SigExhausted
  <2>1. pc' \in Unlaid /\ pc' # "off"
    BY <1>11 DEF AttachNew, AttachRecreates, Builds, CreateTables, CallRebuild, SigSkips,
       SigErases, SigFails, SigWritten, SigExhausted, CanEraseSig, Unlaid
  <2>2. BadAgree' /\ Start' /\ TablesLead' /\ ni'.main_table_ba = 0
    BY <1>1, <1>2, <1>11, <2>1, FreshData
  <2>. QED
    BY <2>1, <2>2, UnlaidData
<1>. QED
  BY <1>4, <1>5, <1>6, <1>7, <1>8, <1>9, <1>10, <1>11 DEF Next, Step, AttachStep

-----------------------------------------------------------------------------
(* What the invariant says of the data                                      *)

\* With a table on the chip nmbm_search_info_table finds one
LEMMA FirstFound ==
    ASSUME IInv, Chip, NEW s \in SigBlocks, TablesOnChip # {},
           NEW first \in Blocks, IsFirst(s, first)
    PROVE  first # 0
<1>. DEFINE valid == {b \in MgmtStart .. s - 2 : ValidTable(s, AllGood, b)}
<1>1. PICK b : b \in TablesOnChip
  OBVIOUS
<1>2. AllGood[b] = GOOD
  BY <1>1 DEF AllGood, TablesOnChip
<1>3. b \in Nat /\ MgmtStart <= b /\ b <= s - 2 /\ ValidTable(s, AllGood, b)
  BY <1>1, <1>2, TableIsValid
<1>4. b \in MgmtStart .. s - 2
  BY SMTT(30), <1>3, GeometryAssumption DEF SigBlocks, Blocks
<1>5. first \in valid
  BY <1>3, <1>4 DEF IsFirst, IsLowest
<1>. QED
  BY SMTT(30), <1>5, GeometryAssumption

\* DataInv yields DataSurvives
LEMMA DataHeld ==
    ASSUME IInv, DataInv
    PROVE  DataSurvives
<1>. SUFFICES ASSUME Attached, ~skipped, ~lost, NEW lb \in Logical, expect[lb] # "unknown"
              PROVE  /\ Home(lb) # -1 /\ flash[Home(lb)] = Acknowledged(lb)
                     /\ ~ni.protected /\ Home(lb) \notin oob => ReadSinglePage(lb) = "ok"
  BY DEF DataSurvives
<1>1. Held /\ lb \in Known
  BY DEF DataInv, Attached, Known
<1>2. /\ Home(lb) # -1 /\ flash[Home(lb)] = Acknowledged(lb)
      /\ Home(lb) \in oob \/ ni.block_state[Home(lb)] # BAD
      /\ lb < ni.data_block_count
  BY <1>1 DEF Held, Leads, Home
<1>3. ~(lb >= ni.data_block_count)
  BY SMTT(30), <1>2, GeometryAssumption DEF IInv, TypeOK, Instance, Logical
<1>. QED
  BY <1>2, <1>3 DEF ReadSinglePage, Usable

\* DataInv yields Recoverable
LEMMA TablesRecover ==
    ASSUME IInv, RecordInv, DataInv
    PROVE  Recoverable
<1>. SUFFICES ASSUME ~skipped, ~lost, TablesOnChip # {},
                     NEW sg \in Blocks, IsSignature(sg),
                     NEW first \in Blocks, IsFirst(sg, first)
              PROVE  /\ first # 0
                     /\ \A second \in Blocks : IsSecond(sg, first, second) =>
                          LET map == flash[Chosen(first, second)].tbl.block_mapping
                          IN  \A lb \in Logical : expect[lb] # "unknown" =>
                                map[lb] # -1 /\ flash[map[lb]] = Acknowledged(lb)
  BY DEF Recoverable
<1>1. Chip /\ TablesLead
  BY DEF RecordInv, DataInv
<1>2. sg \in SigBlocks
  BY <1>1, SignatureFound
<1>3. first # 0
  BY <1>1, <1>2, FirstFound
<1>4. ASSUME NEW second \in Blocks, IsSecond(sg, first, second),
             NEW lb \in Logical, expect[lb] # "unknown"
      PROVE  /\ flash[Chosen(first, second)].tbl.block_mapping[lb] # -1
             /\ flash[flash[Chosen(first, second)].tbl.block_mapping[lb]] = Acknowledged(lb)
  <2>1. PICK c : c = Chosen(first, second)
    OBVIOUS
  <2>2. Searched(sg, first, second)
    BY <1>1, <1>2, <1>3, <1>4, TablesFound
  <2>3. Preferred(Chosen(first, second))
    BY <1>1, <2>2, ChosenKnows
  <2>4. c \in TablesOnChip /\ lb \in Known
    BY <1>4, <2>1, <2>3 DEF Preferred, Known
  <2>5. Leads(Tbl(c).block_mapping, Tbl(c).block_state)
    BY <1>1, <2>4 DEF TablesLead
  <2>. QED
    BY <2>1, <2>4, <2>5 DEF Leads, Tbl
<1>. QED
  BY <1>3, <1>4

\* DataInv yields MappingRecorded
LEMMA TablesRecordMapping ==
    ASSUME IInv, RecordInv, DataInv
    PROVE  MappingRecorded
<1>. SUFFICES ASSUME pc = "idle", ~ni.protected, ~skipped,
                     NEW first \in Blocks, IsFirst(ni.signature_ba, first)
              PROVE  /\ first # 0
                     /\ \A second \in Blocks : IsSecond(ni.signature_ba, first, second) =>
                          LET map == flash[Chosen(first, second)].tbl.block_mapping
                          IN  \A lb \in Logical : Home(lb) # -1 => map[lb] = Home(lb)
  BY DEF MappingRecorded
<1>1. pc \notin Unlaid /\ ~InWrite /\ ~Rescued /\ pc \notin Ahead
  BY DEF Unlaid, InWrite, AfterWrite, Rescued, Ahead
<1>2. Chip /\ Holders /\ ni.signature_ba \in SigBlocks
  BY <1>1 DEF RecordInv, Session, Mappings
<1>3. ni.main_table_ba # 0 /\ Fit(TablesOnChip)
  BY <1>1 DEF DataInv, Protection, Current
<1>4. TablesOnChip # {}
  BY <1>1, <1>2, <1>3 DEF Holders, Settled, Tables
<1>5. first # 0
  BY <1>2, <1>4, FirstFound
<1>6. ASSUME NEW second \in Blocks, IsSecond(ni.signature_ba, first, second),
             NEW lb \in Logical, Home(lb) # -1
      PROVE  flash[Chosen(first, second)].tbl.block_mapping[lb] = Home(lb)
  <2>1. PICK c : c = Chosen(first, second)
    OBVIOUS
  <2>2. Searched(ni.signature_ba, first, second)
    BY <1>2, <1>5, <1>6, TablesFound
  <2>3. Preferred(Chosen(first, second))
    BY <1>2, <2>2, ChosenKnows
  <2>4. c \in TablesOnChip
    BY <2>1, <2>3 DEF Preferred
  <2>5. Records(Tbl(c).block_mapping, ni.block_mapping)
    BY <1>3, <2>4 DEF Fit
  <2>. QED
    BY <1>6, <2>1, <2>5 DEF Records, Home, Tbl
<1>. QED
  BY <1>5, <1>6

-----------------------------------------------------------------------------
(* The theorems                                                             *)

\* DataInv is inductive on top of IInv and RecordInv
THEOREM UserData == Spec => []DataInv
<1>1. Init => DataInv
  BY InitData
<1>2. IInv /\ IInv' /\ RecordInv /\ RecordInv' /\ DataInv /\ [Next]_vars => DataInv'
  BY NextData, StutterData
<1>. QED
  BY <1>1, <1>2, Invariance, Record, PTL DEF Spec

\* A block holds what the last acknowledged erase or write left in it, however
\* often it was remapped and power failed, and reads back unless it is marked bad
\* or the instance is protected
THEOREM DataIsKept == Spec => []DataSurvives
<1>1. IInv /\ DataInv => DataSurvives
  BY DataHeld
<1>. QED
  BY <1>1, Invariance, UserData, PTL

\* At every moment, in the middle of every write of a table included, the tables
\* that the next nmbm_attach would find lead it to all acknowledged data
THEOREM AlwaysRecoverable == Spec => []Recoverable
<1>1. IInv /\ RecordInv /\ DataInv => Recoverable
  BY TablesRecover
<1>. QED
  BY <1>1, Invariance, Record, UserData, PTL

\* When an operation has returned, the table that the next nmbm_attach would
\* prefer has the mapping that the driver works with
THEOREM MappingIsRecorded == Spec => []MappingRecorded
<1>1. IInv /\ RecordInv /\ DataInv => MappingRecorded
  BY TablesRecordMapping
<1>. QED
  BY <1>1, Invariance, Record, UserData, PTL
=============================================================================
