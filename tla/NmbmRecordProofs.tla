-------------------------- MODULE NmbmRecordProofs --------------------------
(***************************************************************************)
(* Every step of nmbm-core.c keeps RecordInv, the invariant of its tables, *)
(* for every size of chip, every pattern of failing blocks and any number  *)
(* of operations and power failures: it never loses its tables.            *)
(***************************************************************************)
EXTENDS NmbmProofs

USE ZenonT(60)

-----------------------------------------------------------------------------
(* Changes of the instance                                                  *)

\* Two instances that differ in the states of blocks only
Alike(n, n2) ==
    /\ n2.block_mapping = n.block_mapping
    /\ n2.info_table_cache = n.info_table_cache
    /\ n2.write_count = n.write_count
    /\ n2.main_table_ba = n.main_table_ba
    /\ n2.backup_table_ba = n.backup_table_ba
    /\ n2.mapping_blocks_ba = n.mapping_blocks_ba
    /\ n2.mapping_blocks_top_ba = n.mapping_blocks_top_ba
    /\ n2.signature_ba = n.signature_ba

\* Two instances that differ in where the tables are recorded
Relocated(n, n2) ==
    /\ n2.block_state = n.block_state
    /\ n2.block_mapping = n.block_mapping
    /\ n2.info_table_cache = n.info_table_cache
    /\ n2.write_count = n.write_count
    /\ n2.mapping_blocks_top_ba = n.mapping_blocks_top_ba
    /\ n2.signature_ba = n.signature_ba

-----------------------------------------------------------------------------
(* RecordInv is inductive on top of IInv                                    *)

\* A new chip satisfies the invariant
LEMMA InitRecord ==
    ASSUME Init
    PROVE  RecordInv
<1>1. /\ flash = [b \in Blocks |-> Erased] /\ ni = InitStructure /\ pc = "off" /\ op = NoOp
  BY DEF Init
<1>2. SigBlocks = {} /\ TablesOnChip = {}
  BY <1>1 DEF SigBlocks, TablesOnChip, Erased
<1>3. Chip
  BY <1>2 DEF Chip, OneSignature, TablesClear, TwoTables, TablesAgree, NoneBelow
<1>4. ni.main_table_ba = 0 /\ op.pb = 0
  BY <1>1 DEF InitStructure, NoOp
<1>. QED
  BY <1>1, <1>3, <1>4 DEF RecordInv, Fresh, Failed, Unlaid

\* A step that leaves everything alone keeps the invariant
LEMMA StutterRecord ==
    ASSUME RecordInv, UNCHANGED vars
    PROVE  RecordInv'
<1>1. UNCHANGED <<flash, oob, ni, lv, pc, op, skipped>>
  BY DEF vars, tableVars, userVars
<1>2. /\ SigBlocks' = SigBlocks /\ TablesOnChip' = TablesOnChip
      /\ Chip => Chip'
  BY <1>1, SameChip
<1>3. /\ InWrite' = InWrite /\ Rescued' = Rescued /\ Writer' = Writer
      /\ Settled' = Settled
  BY <1>1 DEF InWrite, Rescued, Writer, Settled
<1>4. Regions => Regions'
  BY <1>1 DEF Regions
<1>5. OnRecord => OnRecord'
  BY <1>1, <1>3 DEF OnRecord
<1>6. Extent => Extent'
  BY <1>1, <1>3 DEF Extent, From, UpTo
<1>7. Holders => Holders'
  BY <1>1, <1>2, <1>3 DEF Holders, Safe, Replaced
<1>8. Mappings => Mappings'
  BY <1>1, <1>2 DEF Mappings, Apart
<1>9. Knows => Knows'
  BY <1>1, <1>2 DEF Knows, Tbl
<1>10. MainFirst => MainFirst'
  BY <1>1, <1>3 DEF MainFirst, NoneFree
<1>11. Fresh => Fresh'
  BY <1>1, <1>2 DEF Fresh
<1>12. Failed => Failed'
  BY <1>1, <1>2, <1>4, <1>8 DEF Failed
<1>. QED
  BY <1>1, <1>2, <1>4, <1>5, <1>6, <1>7, <1>8, <1>9, <1>10, <1>11, <1>12
     DEF RecordInv, Session

\* Every step keeps RecordInv: first what each procedure of the driver does,
\* then the disjuncts of Next
LEMMA NextRecord == IInv /\ RecordInv /\ Next => RecordInv'
  (* What a step has to keep                                                  *)

  \* What the instance knows, when tables disappear and more blocks are known
  \* not to be GOOD
<1>KnowsKept.
    ASSUME TypeOK, Knows, oob \subseteq oob', TablesOnChip' \subseteq TablesOnChip,
           \A b \in TablesOnChip' : Tbl(b)' = Tbl(b) /\ ni'.block_state[b] = GOOD,
           ni'.info_table_cache = ni.info_table_cache,
           ni'.write_count = ni.write_count,
           ni'.mapping_blocks_top_ba \in Int,
           ni'.mapping_blocks_top_ba <= ni.mapping_blocks_top_ba,
           Fewer(ni.block_state, ni'.block_state),
           \A b \in MgmtStart .. ni'.mapping_blocks_top_ba :
             ni'.block_state[b] # GOOD => ni.block_state[b] # GOOD \/ b \in oob'
    PROVE  Knows'
  <2>. USE <1>KnowsKept
  <2>. USE GeometryAssumption
  <2>. DEFINE cache == ni.info_table_cache
  <2>1. cache.write_count = ni.write_count /\ Fewer(cache.block_state, ni.block_state)
    BY DEF Knows
  <2>2. \A b \in TablesOnChip' :
          /\ Tbl(b).write_count <= cache.write_count
          /\ Tbl(b).write_count = cache.write_count => Tbl(b) = cache
          /\ Fewer(Tbl(b).block_state, cache.block_state)
    BY DEF Knows
  <2>3. Fewer(cache.block_state, ni'.block_state)
    BY <2>1 DEF Fewer
  <2>4. \A b \in MgmtStart .. ni'.mapping_blocks_top_ba :
          b \in MgmtStart .. ni.mapping_blocks_top_ba
    BY SMTT(30), Addresses
  <2>5. \A b \in MgmtStart .. ni.mapping_blocks_top_ba :
          ni.block_state[b] # GOOD => b \in oob \/ cache.block_state[b] # GOOD
    BY DEF Knows
  <2>6. \A b \in MgmtStart .. ni'.mapping_blocks_top_ba :
          ni'.block_state[b] # GOOD => b \in oob' \/ cache.block_state[b] # GOOD
    BY <2>4, <2>5
  <2>. QED
    BY <2>1, <2>2, <2>3, <2>6 DEF Knows, Fewer

  \* ... and when the instance stays as it is
<1>KnowsStays.
    ASSUME TypeOK, Knows, ni' = ni, oob \subseteq oob', TablesOnChip' \subseteq TablesOnChip,
           \A b \in TablesOnChip' : Tbl(b)' = Tbl(b)
    PROVE  Knows'
  <2>. USE <1>KnowsStays
  <2>1. Fewer(ni.block_state, ni'.block_state)
    BY DEF Fewer
  <2>2. \A b \in TablesOnChip' : Tbl(b)' = Tbl(b) /\ ni'.block_state[b] = GOOD
    BY DEF Knows
  <2>3. /\ ni'.mapping_blocks_top_ba \in Int
        /\ ni'.mapping_blocks_top_ba <= ni.mapping_blocks_top_ba
    BY SMTT(30), Addresses
  <2>. QED
    BY <2>1, <2>2, <2>3, <1>KnowsKept

  \* What is not available stays so when more becomes known, below any lower bound
<1>UnavailableKept.
    ASSUME NEW st, NEW st2, NEW marks, NEW marks2, NEW hi \in Int, NEW lo \in Int,
           Unavailable(st, marks, hi), lo <= hi, hi <= BlockCount,
           marks \subseteq marks2, Fewer(st, st2)
    PROVE  Unavailable(st2, marks2, lo)
  <2>. USE <1>UnavailableKept
  <2>1. \A b \in MgmtStart .. lo - 1 : b \in MgmtStart .. hi - 1 /\ b \in Mgmt
    BY SMTT(30), GeometryAssumption DEF Mgmt
  <2>. QED
    BY <2>1 DEF Unavailable, Fewer

  (* nmbm_write_mgmt_range and nmbm_erase_range                               *)

  \* nmbm_set_block_state changes the state of one block
<1>SetStateAlike.
    ASSUME NEW n \in Instance, NEW b \in Blocks, NEW st \in BlockState
    PROVE  /\ Alike(n, SetState(n, b, st))
           /\ SetState(n, b, st).block_state[b] = st
           /\ \A x \in Blocks : x # b => SetState(n, b, st).block_state[x] = n.block_state[x]
  <2>1. Alike(n, SetState(n, b, st))
    BY DEF Alike, SetState, Instance
  <2>2. SetState(n, b, st).block_state = [n.block_state EXCEPT ![b] = st]
    BY DEF SetState, Instance
  <2>3. n.block_state \in [Blocks -> BlockState]
    BY DEF Instance, StateTable
  <2>. QED
    BY <2>1, <2>2, <2>3

  \* The mappings stay apart from the tables when the addresses do not change
<1>MappingsKept.
    ASSUME Mappings, Alike(ni, ni'), SigBlocks' = SigBlocks, op' = op
    PROVE  Mappings'
    BY <1>MappingsKept DEF Mappings, Apart, Clear, Alike

  \* The blocks that nmbm_erase_range is given hold no table
<1>RangeHoldsNone.
    ASSUME IInv, OnRecord, Holders, pc = "erase_range", lv.ba < lv.limit
    PROVE  lv.ba \notin TablesOnChip
  <2>. USE <1>RangeHoldsNone
  <2>. TypeOK
    BY DEF IInv
  <2>1. lv.ba \in Nat /\ lv.limit \in Nat /\ ni.main_table_ba \in Nat
    BY SMTT(30), GeometryAssumption, Addresses
  <2>2. /\ ni.main_table_ba < lv.ba /\ ni.main_table_ba # 0
        /\ lv.limit = IF Rescued THEN lv.start ELSE ni.backup_table_ba
    BY DEF OnRecord
  <2>3. TablesOnChip \subseteq {ni.main_table_ba, lv.limit}
    <3>1. CASE Rescued
      BY <2>2, <3>1 DEF Holders
    <3>2. CASE ~Rescued
      <4>1. Settled
        BY <3>2 DEF Settled, InWrite, AfterWrite, Unlaid
      <4>. QED
        BY <2>2, <3>2, <4>1 DEF Holders, Tables
    <3>. QED
      BY <3>1, <3>2
  <2>. QED
    BY SMTT(30), <2>1, <2>2, <2>3

  \* A loop leaves block lv.ba behind without having used it
<1>PassesBlock.
    ASSUME IInv, Chip, Session, pc \in Writing, lv.ba < lv.limit,
           pc' = IF pc = "program" THEN "write" ELSE pc, NextBlock, op' = op,
           ni' = ni \/ ni' = SetState(ni, lv.ba, BAD), oob \subseteq oob',
           pc = "erase_range" \/ ni.block_state[lv.ba] # GOOD \/ lv.ba \in oob',
           ni' # ni => lv.ba \in oob',
           SigBlocks' = SigBlocks, TablesOnChip' = TablesOnChip \ {lv.ba},
           \A b \in TablesOnChip' : Tbl(b)' = Tbl(b)
    PROVE  Chip' /\ Session'
  <2>. USE <1>PassesBlock
  <2>. USE GeometryAssumption, Addresses
  <2>. TypeOK /\ Layout /\ ReturnLabels /\ Ranges
    BY DEF IInv
  <2>. Regions /\ OnRecord /\ Extent /\ Holders /\ Mappings /\ Knows /\ MainFirst
    BY DEF Session
  <2>0. Chip'
    BY ChipShrinks
  <2>1. /\ MgmtStart <= lv.ba /\ lv.limit <= ni.mapping_blocks_top_ba
        /\ lv.ba \in Nat /\ lv.limit \in Nat /\ ni.mapping_blocks_top_ba \in Nat
    BY SMTT(30) DEF Ranges
  <2>2. lv.ba \in Blocks /\ lv.ba \in MgmtStart .. ni.mapping_blocks_top_ba
    BY SMTT(30), <2>1 DEF Blocks
  <2>3. /\ Alike(ni, ni') /\ \A b \in Blocks : b # lv.ba => ni'.block_state[b] = ni.block_state[b]
        /\ ni'.block_state[lv.ba] # GOOD => ni.block_state[lv.ba] # GOOD \/ lv.ba \in oob'
        /\ ni.block_state[lv.ba] # GOOD => ni'.block_state[lv.ba] # GOOD
    <3>1. CASE ni' = ni
      BY <3>1 DEF Alike
    <3>2. CASE ni' = SetState(ni, lv.ba, BAD)
      <4>1. BAD \in BlockState /\ BAD # GOOD
        BY DEF BlockState, BAD, GOOD
      <4>0. ni \in Instance
        OBVIOUS
      <4>2. /\ Alike(ni, SetState(ni, lv.ba, BAD))
            /\ SetState(ni, lv.ba, BAD).block_state[lv.ba] = BAD
            /\ \A b \in Blocks : b # lv.ba =>
                 SetState(ni, lv.ba, BAD).block_state[b] = ni.block_state[b]
        BY SMTT(30), <2>2, <4>0, <4>1, <1>SetStateAlike
      <4>. QED
        BY <3>2, <4>1, <4>2
    <3>. QED
      BY <3>1, <3>2
  <2>4. /\ lv'.ba = lv.ba + 1 /\ lv'.limit = lv.limit /\ lv'.ret = lv.ret
        /\ lv'.start = lv.start /\ lv'.tmp = lv.tmp /\ lv'.ok = lv.ok
    BY DEF NextBlock, Locals
  <2>5. pc' # "program" /\ (pc' = "erase_range" <=> pc = "erase_range")
        /\ pc' \in Writing /\ pc' # "rs_erased"
    BY DEF Writing
  <2>6. /\ InWrite' <=> InWrite
        /\ InWrite => Writer' = Writer /\ Writer = lv.ret
        /\ Rescued' <=> Rescued
        /\ InWrite => ~Settled'
        /\ pc' \notin AfterWrite
    <3>1. CASE pc = "erase_range"
      BY <2>4, <2>5, <3>1 DEF InWrite, Writer, Rescued, Settled, AfterWrite
    <3>2. CASE pc \in {"write", "program"}
      BY <2>4, <3>2 DEF InWrite, Writer, Rescued, Settled, AfterWrite
    <3>. QED
      BY <3>1, <3>2 DEF Writing
  <2>7. Regions'
    BY <2>3 DEF Regions, Alike
  <2>8. OnRecord'
    <3>1. /\ ni'.main_table_ba = ni.main_table_ba /\ ni'.backup_table_ba = ni.backup_table_ba
          /\ ni'.mapping_blocks_ba = ni.mapping_blocks_ba
      BY <2>3 DEF Alike
    <3>2. pc = "erase_range" => ni.main_table_ba < lv.ba + 1
      BY SMTT(30) DEF OnRecord
    <3>. QED
      BY <2>4, <2>5, <2>6, <3>1, <3>2 DEF OnRecord
  <2>9. Extent'
    <3>1. \A l : From(l, lv.ba) => From(l, lv.ba + 1)
      BY SMTT(30), <2>1 DEF From
    <3>2. InWrite => From(lv.ret, lv.ba + 1) /\ UpTo(lv.ret, lv.limit)
      BY <2>6, <3>1 DEF Extent
    <3>3. InWrite' => From(lv.ret, lv.ba)' /\ UpTo(lv.ret, lv.limit)'
      BY <2>3, <2>4, <2>6, <3>2 DEF From, UpTo, Alike
    <3>. QED
      BY <2>4, <2>5, <2>6, <3>3 DEF Extent
  <2>10. Holders'
    <3>1. CASE pc = "erase_range"
      <4>1. lv.ba \notin TablesOnChip
        BY <3>1, <1>RangeHoldsNone
      <4>2. Rescued => TablesOnChip = {ni.main_table_ba, lv.start}
        BY DEF Holders
      <4>3. ~Rescued => TablesOnChip = Tables({ni.main_table_ba, ni.backup_table_ba})
        BY <3>1 DEF Holders, Settled, InWrite, AfterWrite, Unlaid
      <4>4. /\ TablesOnChip' = TablesOnChip /\ lv'.start = lv.start
            /\ ni'.main_table_ba = ni.main_table_ba
            /\ ni'.backup_table_ba = ni.backup_table_ba
        BY <2>3, <2>4, <4>1 DEF Alike
      <4>5. pc' = "erase_range" /\ (Rescued' <=> Rescued) /\ (Settled' => ~Rescued)
        BY <2>5, <2>6, <3>1 DEF Settled
      <4>. QED
        BY <4>2, <4>3, <4>4, <4>5 DEF Holders, AfterWrite, Tables
    <3>2. CASE pc \in {"write", "program"}
      <4>. DEFINE l == lv.ret
      <4>1. /\ Safe(l) \subseteq TablesOnChip
            /\ \A b \in TablesOnChip : b \in Safe(l) \/ (b \in Replaced(l) /\ lv.ba <= b)
        BY <3>2 DEF Holders
      <4>2. lv.ba \notin Safe(l)
        <5>1. \A b \in Safe(l) : b \in Nat /\ (b < lv.ba \/ lv.limit <= b)
          BY <3>2, LoopRange DEF Safe
        <5>. QED
          BY SMTT(30), <2>1, <5>1
      <4>3. Safe(l)' = Safe(l) /\ Replaced(l)' = Replaced(l)
        <5>1. /\ ni'.main_table_ba = ni.main_table_ba /\ lv'.tmp = lv.tmp
              /\ ni'.backup_table_ba = ni.backup_table_ba
          BY <2>3, <2>4 DEF Alike
        <5>2. lv'.ret = lv.ret
          BY <2>4
        <5>. QED
          BY SMTT(30), <5>1, <5>2 DEF Safe, Replaced
      <4>4. \A b \in TablesOnChip : b \in Nat
        BY DEF TablesOnChip
      <4>5. \A b \in TablesOnChip' : lv.ba <= b => lv.ba + 1 <= b
        BY SMTT(30), <2>1, <4>4
      <4>6. \A b \in TablesOnChip' : b \in Safe(l)' \/ (b \in Replaced(l)' /\ lv'.ba <= b)
        BY <2>4, <4>1, <4>3, <4>5
      <4>7. Safe(l)' \subseteq TablesOnChip'
        BY <4>1, <4>2, <4>3
      <4>8. ~Rescued' /\ ~Settled'
        BY <2>6, <3>2 DEF Rescued, InWrite
      <4>9. pc' = "write"
        BY <3>2
      <4>. QED
        BY <2>4, <2>6, <4>6, <4>7, <4>8, <4>9 DEF Holders
    <3>. QED
      BY <3>1, <3>2 DEF Writing
  <2>11. Mappings'
    BY <2>3, <1>MappingsKept
  <2>12. Knows'
    <3>0. Mgmt \subseteq Blocks /\ MgmtStart .. ni'.mapping_blocks_top_ba \subseteq Blocks
      BY SMTT(30), <2>3 DEF Mgmt, Blocks, Alike
    <3>1. Fewer(ni.block_state, ni'.block_state)
      BY <2>3, <3>0 DEF Fewer
    <3>2. \A b \in MgmtStart .. ni'.mapping_blocks_top_ba :
            ni'.block_state[b] # GOOD => ni.block_state[b] # GOOD \/ b \in oob'
      BY <2>3, <3>0
    <3>3. \A b \in TablesOnChip' : Tbl(b)' = Tbl(b) /\ ni'.block_state[b] = GOOD
      BY <2>3 DEF Knows, TablesOnChip
    <3>4. /\ ni'.info_table_cache = ni.info_table_cache /\ ni'.write_count = ni.write_count
          /\ ni'.mapping_blocks_top_ba \in Int
          /\ ni'.mapping_blocks_top_ba <= ni.mapping_blocks_top_ba
      BY SMTT(30), <2>1, <2>3 DEF Alike
    <3>. QED
      BY <3>1, <3>2, <3>3, <3>4, <1>KnowsKept
  <2>13. MainFirst'
    <3>. DEFINE st == ni.info_table_cache.block_state
    <3>1. \A b : Unavailable(st, oob, b) => Unavailable(st, oob', b)
      BY DEF Unavailable
    <3>2. InWrite => lv.ba \in oob' \/ st[lv.ba] # GOOD
      BY <2>2 DEF Knows, InWrite, AfterWrite
    <3>3. InWrite /\ Unavailable(st, oob, lv.ba) => Unavailable(st, oob', lv.ba + 1)
      BY SMTT(30), <2>1, <3>2 DEF Unavailable
    <3>4. ni'.info_table_cache.block_state = st
      BY <2>3 DEF Alike
    <3>. HIDE DEF st
    <3>5. /\ InWrite /\ Writer \in WritesMain => Unavailable(st, oob', lv.ba + 1)
          /\ InWrite /\ Writer \in {"res_tmp", "res_main"}
               => Unavailable(st, oob', ni.backup_table_ba)
          /\ ~(InWrite /\ Writer \in {"reb_main", "rs_front"})
               => Unavailable(st, oob', ni.main_table_ba)
      BY <3>1, <3>3 DEF MainFirst, NoneFree, st
    <3>. QED
      BY <2>3, <2>4, <2>6, <3>4, <3>5 DEF MainFirst, NoneFree, Alike
  <2>. QED
    BY <2>0, <2>7, <2>8, <2>9, <2>10, <2>11, <2>12, <2>13 DEF Session

  \* nmbm_write_mgmt_range erases a block: of the tables only those it keeps remain
<1>WriteErasesRecord.
    ASSUME IInv, Chip, Session, WriteErases, op' = op
    PROVE  Chip' /\ Session'
  <2>. USE <1>WriteErasesRecord
  <2>. TypeOK /\ Layout /\ ReturnLabels /\ Ranges
    BY DEF IInv
  <2>. Regions /\ OnRecord /\ Extent /\ Holders /\ Mappings /\ Knows /\ MainFirst
    BY DEF Session
  <2>. DEFINE l == lv.ret
  <2>1. /\ pc = "write" /\ lv.ba < lv.limit /\ ni.block_state[lv.ba] = GOOD
        /\ lv.ba \notin oob /\ flash' = [flash EXCEPT ![lv.ba] = Erased]
        /\ pc' = "program" /\ UNCHANGED <<oob, ni, lv, skipped>>
    BY DEF WriteErases, CanErase, AtBlock
  <2>2. lv.ba \in Blocks /\ lv.ba \in Mgmt /\ lv.ba \notin SigBlocks
    BY <2>1, BelowSignature DEF Writing
  <2>3. /\ SigBlocks' = SigBlocks /\ TablesOnChip' = TablesOnChip \ {lv.ba}
        /\ \A b \in TablesOnChip' : Tbl(b)' = Tbl(b)
    <3>1. /\ \A b \in Blocks : b # lv.ba =>
               flash'[b] = flash[b] /\ (b \in oob' <=> b \in oob)
          /\ flash'[lv.ba].kind \notin {"sig", "table"}
      BY <2>1, <2>2 DEF TypeOK, Erased
    <3>. QED
      BY <2>1, <2>2, <3>1, OneBlock
  <2>4. Chip'
    BY <2>1, <2>3, ChipShrinks
  <2>5. /\ l \in AfterWrite /\ Writer = l /\ Writer' = l /\ InWrite /\ InWrite'
        /\ ~Rescued' /\ ~Settled' /\ pc' \notin AfterWrite
    BY <2>1, LoopRange DEF Writer, InWrite, Rescued, Settled, AfterWrite
  <2>6. lv.ba \notin Safe(l)
    <3>1. \A b \in Safe(l) : b \in Nat /\ (b < lv.ba \/ lv.limit <= b)
      BY <2>1, LoopRange, Addresses DEF Safe
    <3>2. lv.ba \in Nat /\ lv.limit \in Nat
      BY SMTT(30), GeometryAssumption, Addresses
    <3>. QED
      BY SMTT(30), <2>1, <3>1, <3>2
  <2>7. ASSUME NEW b \in TablesOnChip, b \in Replaced(l), lv.ba <= b
        PROVE  b = lv.ba
    <3>1. b \in Nat /\ lv.ba \in Nat /\ MgmtStart \in Nat /\ MgmtStart <= lv.ba
      BY SMTT(30), <2>1, <2>2, <2>7, GeometryAssumption, Addresses DEF Mgmt, TablesOnChip
    <3>2. CASE l # "res_main"
      <4>1. b <= lv.ba
        BY <2>5, <2>7, <3>2 DEF Replaced, Extent, From
      <4>. QED
        BY SMTT(30), <2>7, <3>1, <4>1
    <3>3. CASE l = "res_main"
      <4>1. b = ni.backup_table_ba /\ NoneFree(b)
        BY <2>5, <2>7, <3>3 DEF Replaced, MainFirst
      <4>2. lv.ba \notin oob /\ ni.info_table_cache.block_state[lv.ba] = GOOD
        BY <2>1, <2>2 DEF Knows, Fewer
      <4>3. lv.ba \notin MgmtStart .. b - 1
        BY <4>1, <4>2 DEF NoneFree, Unavailable
      <4>. QED
        BY SMTT(30), <2>7, <3>1, <4>3
    <3>. QED
      BY <3>2, <3>3
  <2>8. TablesOnChip' = Safe(l)
    BY <2>1, <2>3, <2>6, <2>7 DEF Holders
  <2>9. Safe(l)' = Safe(l)
    BY <2>1 DEF Safe
  <2>10. Regions' /\ OnRecord' /\ MainFirst'
    BY <2>1, <2>5 DEF Regions, OnRecord, MainFirst, NoneFree
  <2>11. Extent'
    BY <2>1, <2>5 DEF Extent, From, UpTo
  <2>12. Holders'
    BY <2>1, <2>5, <2>8, <2>9 DEF Holders
  <2>13. Mappings'
    BY <2>1, <2>3, <1>MappingsKept DEF Alike
  <2>14. Knows'
    BY <2>1, <2>3, <1>KnowsStays
  <2>. QED
    BY <2>4, <2>10, <2>11, <2>12, <2>13, <2>14 DEF Session

  \* Block x comes to hold the table t, besides one other table at most
<1>ChipGains.
    ASSUME Chip, NEW x, NEW t, MgmtStart <= x, t.write_count \in Int,
           SigBlocks' = SigBlocks, oob' = oob, TablesOnChip' = TablesOnChip \cup {x},
           \A b \in TablesOnChip : Tbl(b)' = Tbl(b), Tbl(x)' = t,
           \E s \in SigBlocks : x + 2 <= s,
           Clear(t.block_mapping, x + 1),
           \A lb \in Logical : t.block_mapping[lb] \notin SigBlocks,
           t.block_state[x] = GOOD,
           \A b, c \in TablesOnChip : b = c,
           \A b \in TablesOnChip :
             /\ t.block_state[b] = GOOD /\ Tbl(b).block_state[x] = GOOD
             /\ Tbl(b).write_count \in Int /\ Tbl(b).write_count <= t.write_count
             /\ Tbl(b).write_count = t.write_count => Tbl(b) = t
             /\ Clear(t.block_mapping, b + 1)
             /\ Fewer(Tbl(b).block_state, t.block_state)
             /\ Unavailable(t.block_state, oob, x) \/ Unavailable(t.block_state, oob, b)
    PROVE  Chip'
  <2>. USE <1>ChipGains
  <2>1. OneSignature'
    BY DEF Chip, OneSignature
  <2>2. TablesClear'
    <3>1. \A b \in TablesOnChip :
            /\ MgmtStart <= b
            /\ Clear(Tbl(b).block_mapping, b + 1)
            /\ \A lb \in Logical : Tbl(b).block_mapping[lb] \notin SigBlocks
      BY DEF Chip, TablesClear
    <3>2. \A b \in TablesOnChip' :
            /\ MgmtStart <= b
            /\ Clear(Tbl(b)'.block_mapping, b + 1)
            /\ \A lb \in Logical : Tbl(b)'.block_mapping[lb] \notin SigBlocks
      BY <3>1
    <3>. QED
      BY <3>2 DEF TablesClear
  <2>3. TwoTables'
    BY DEF TwoTables
  <2>4. \A b \in TablesOnChip : t.write_count <= Tbl(b).write_count => Tbl(b) = t
    <3>. SUFFICES ASSUME NEW b \in TablesOnChip, t.write_count <= Tbl(b).write_count
                  PROVE  Tbl(b) = t
      OBVIOUS
    <3>1. Tbl(b).write_count \in Int /\ Tbl(b).write_count <= t.write_count
      OBVIOUS
    <3>2. Tbl(b).write_count = t.write_count
      BY SMTT(30), <3>1
    <3>. QED
      BY <3>2
  <2>5. Fewer(t.block_state, t.block_state) /\ \A b : Fewer(Tbl(b).block_state, Tbl(b).block_state)
    BY DEF Fewer
  <2>6. TablesAgree'
    <3>. SUFFICES ASSUME NEW b \in TablesOnChip', NEW c \in TablesOnChip'
                  PROVE  /\ Tbl(b)'.block_state[c] = GOOD
                         /\ Tbl(c)'.write_count <= Tbl(b)'.write_count =>
                              /\ Clear(Tbl(b)'.block_mapping, c + 1)
                              /\ Fewer(Tbl(c)'.block_state, Tbl(b)'.block_state)
                         /\ Tbl(b)'.write_count = Tbl(c)'.write_count => Tbl(b)' = Tbl(c)'
      BY DEF TablesAgree
    <3>1. CASE b \in TablesOnChip /\ c \in TablesOnChip
      BY <3>1 DEF Chip, TablesAgree
    <3>2. CASE b = x /\ c = x
      BY <2>5, <3>2
    <3>3. CASE b = x /\ c \in TablesOnChip
      BY <3>3
    <3>4. CASE b \in TablesOnChip /\ c = x
      <4>1. Tbl(b)' = Tbl(b) /\ Tbl(c)' = t /\ Tbl(b).block_state[c] = GOOD
        BY <3>4
      <4>2. t.write_count = Tbl(b).write_count => Tbl(b) = t
        BY <3>4
      <4>3. t.write_count <= Tbl(b).write_count => Tbl(b) = t
        BY <2>4, <3>4
      <4>. QED
        BY <2>5, <3>4, <4>1, <4>2, <4>3
    <3>. QED
      BY <3>1, <3>2, <3>3, <3>4
  <2>7. NoneBelow'
    <3>. SUFFICES ASSUME NEW b \in TablesOnChip', NEW c \in TablesOnChip', b # c,
                         Tbl(c)'.write_count <= Tbl(b)'.write_count
                  PROVE  \/ Unavailable(Tbl(b)'.block_state, oob, b)
                         \/ Unavailable(Tbl(b)'.block_state, oob, c)
      BY DEF NoneBelow
    <3>1. CASE b = x /\ c \in TablesOnChip
      BY <3>1
    <3>2. CASE b \in TablesOnChip /\ c = x
      <4>1. Tbl(b)' = Tbl(b) /\ Tbl(c)' = t
        BY <3>2
      <4>2. t.write_count <= Tbl(b).write_count
        BY <4>1
      <4>3. Tbl(b) = t
        BY <2>4, <3>2, <4>2
      <4>. QED
        BY <3>2, <4>1, <4>3
    <3>. QED
      BY <3>1, <3>2
  <2>. QED
    BY <2>1, <2>2, <2>3, <2>6, <2>7 DEF Chip

  \* The table that nmbm_write_mgmt_range programs agrees with the one it keeps
<1>ProgramSucceedsRecord.
    ASSUME IInv, Chip, Session, ProgramSucceeds, op' = op
    PROVE  Chip' /\ Session'
  <2>. USE <1>ProgramSucceedsRecord
  <2>. TypeOK /\ Layout /\ ReturnLabels /\ Ranges
    BY DEF IInv
  <2>. Regions /\ OnRecord /\ Extent /\ Holders /\ Mappings /\ Knows /\ MainFirst
    BY DEF Session
  <2>0. PICK l, x : l = lv.ret /\ x = lv.ba
    OBVIOUS
  <2>. DEFINE t == ni.info_table_cache
              top == ni.mapping_blocks_top_ba
  <2>1. /\ pc = "program" /\ pc' = l /\ flash' = [flash EXCEPT ![x] = TableOf(t)]
        /\ lv' = [lv EXCEPT !.start = x, !.ok = TRUE]
        /\ UNCHANGED <<oob, ni, skipped>>
    BY <2>0 DEF ProgramSucceeds
  <2>2. x < lv.limit /\ ni.block_state[x] = GOOD /\ x \notin oob
    BY <2>0, <2>1 DEF Ranges, Extent
  <2>3. x \in Blocks /\ x \in Mgmt /\ x \notin SigBlocks
    BY <2>0, <2>1, <2>2, BelowSignature DEF Writing
  <2>4. /\ l \in AfterWrite /\ Writer = l /\ InWrite
        /\ lv.limit <= top /\ top < ni.signature_ba
        /\ \A b \in Safe(l) : (b < x \/ lv.limit <= b) /\ b < ni.mapping_blocks_ba
        /\ \A b, c \in Safe(l) : b = c
    BY <2>0, <2>1, LoopRange
  <2>5. /\ x \in Nat /\ lv.limit \in Nat /\ top \in Nat /\ ni.signature_ba \in Nat
        /\ ni.mapping_blocks_ba \in Nat /\ MgmtStart \in Nat
        /\ \A b \in Blocks : b \in Nat
    BY SMTT(30), <2>0, GeometryAssumption, Addresses
  <2>6. TablesOnChip = Safe(l)
    BY <2>0, <2>1 DEF Holders
  <2>7. flash \in [Blocks -> Content] /\ t \in InfoTable
    BY DEF TypeOK, Instance
  <2>8. /\ TablesOnChip' = TablesOnChip \cup {x} /\ SigBlocks' = SigBlocks
        /\ Tbl(x)' = t /\ x \notin TablesOnChip
    <3>1. flash'[x] = TableOf(t) /\ \A b \in Blocks : b # x => flash'[b] = flash[b]
      BY <2>1, <2>3, <2>7
    <3>2. TableOf(t).kind = "table" /\ TableOf(t).tbl = t
      BY DEF TableOf
    <3>3. x \notin TablesOnChip
      BY SMTT(30), <2>2, <2>4, <2>5, <2>6
    <3>4. TablesOnChip' = TablesOnChip \cup {x}
      BY <2>1, <2>2, <2>3, <3>1, <3>2 DEF TablesOnChip
    <3>5. SigBlocks' = SigBlocks
      BY <2>1, <2>3, <3>1, <3>2 DEF SigBlocks
    <3>. QED
      BY <3>1, <3>2, <3>3, <3>4, <3>5 DEF Tbl
  <2>9. \A b \in TablesOnChip : Tbl(b)' = Tbl(b)
    BY <2>1, <2>7, <2>8 DEF Tbl, TablesOnChip
  <2>10. x + 2 <= ni.signature_ba /\ ni.signature_ba \in SigBlocks
    BY SMTT(30), <2>2, <2>4, <2>5 DEF Mappings
  <2>11. /\ Apart(t.block_mapping)
         /\ \A hi \in Nat : hi <= top => Clear(t.block_mapping, hi)
    <3>1. Apart(t.block_mapping)
      BY DEF Mappings
    <3>2. \A hi \in Nat : hi <= top => \A b \in MgmtStart .. hi : b \in MgmtStart .. top
      BY SMTT(30), <2>5
    <3>. QED
      BY <3>1, <3>2 DEF Apart, Clear
  <2>12. /\ Clear(t.block_mapping, x + 1)
         /\ \A b \in TablesOnChip : Clear(t.block_mapping, b + 1)
    <3>1. x + 1 \in Nat /\ x + 1 <= top
      BY SMTT(30), <2>2, <2>4, <2>5
    <3>2. ASSUME NEW b \in TablesOnChip
          PROVE  b + 1 \in Nat /\ b + 1 <= top
      <4>1. b \in Nat /\ b < ni.mapping_blocks_ba /\ ni.mapping_blocks_ba <= top
        BY <2>4, <2>5, <2>6, <3>2 DEF Regions, TablesOnChip
      <4>. QED
        BY SMTT(30), <2>5, <4>1
    <3>. QED
      BY <2>11, <3>1, <3>2
  <2>13. \A lb \in Logical : t.block_mapping[lb] \notin SigBlocks
    BY <2>10, <2>11 DEF Chip, OneSignature, Apart
  <2>14. \A b \in Mgmt : ni.block_state[b] = GOOD => t.block_state[b] = GOOD
    BY DEF Knows, Fewer
  <2>15. \A b \in TablesOnChip : b \in Mgmt
    <3>. SUFFICES ASSUME NEW b \in TablesOnChip PROVE b \in Mgmt
      OBVIOUS
    <3>1. b \in Blocks /\ MgmtStart <= b
      BY DEF Chip, TablesClear, TablesOnChip
    <3>. QED
      BY SMTT(30), <3>1, GeometryAssumption DEF Mgmt, Blocks
  <2>16. ASSUME NEW b \in TablesOnChip
         PROVE  /\ t.block_state[b] = GOOD /\ Tbl(b).block_state[x] = GOOD
                /\ Tbl(b).write_count \in Int /\ Tbl(b).write_count <= t.write_count
                /\ Tbl(b).write_count = t.write_count => Tbl(b) = t
                /\ Fewer(Tbl(b).block_state, t.block_state)
                /\ Unavailable(t.block_state, oob, x) \/ Unavailable(t.block_state, oob, b)
    <3>1. /\ Tbl(b).write_count <= t.write_count
          /\ Tbl(b).write_count = t.write_count => Tbl(b) = t
          /\ Fewer(Tbl(b).block_state, t.block_state)
          /\ ni.block_state[b] = GOOD
      BY DEF Knows
    <3>2. t.block_state[b] = GOOD /\ t.block_state[x] = GOOD
      BY <2>2, <2>3, <2>14, <2>15, <3>1
    <3>3. Tbl(b).block_state[x] = GOOD
      BY <2>3, <3>1, <3>2 DEF Fewer
    <3>4. Tbl(b).write_count \in Int
      <4>1. Tbl(b) \in InfoTable
        BY SMTT(30), <2>7 DEF Tbl, TablesOnChip, Content, Erased, Junk, Sig
      <4>. QED
        BY SMTT(30), <4>1 DEF InfoTable
    <3>5. Unavailable(t.block_state, oob, x) \/ Unavailable(t.block_state, oob, b)
      <4>1. CASE l \in WritesMain
        BY <2>0, <2>4, <4>1 DEF MainFirst, NoneFree
      <4>2. CASE l = "res_tmp"
        <5>1. b = ni.backup_table_ba
          BY <2>6, <4>2 DEF Safe
        <5>. QED
          BY <2>4, <4>2, <5>1 DEF MainFirst, NoneFree
      <4>3. CASE l \in {"reb_backup", "rs_back", "us_backup", "upd_backup"}
        <5>1. b = ni.main_table_ba
          BY <2>6, <4>3 DEF Safe
        <5>2. l \notin {"reb_main", "rs_front"}
          BY <4>3
        <5>. QED
          BY <2>4, <5>1, <5>2 DEF MainFirst, NoneFree
      <4>. QED
        BY <2>4, <4>1, <4>2, <4>3 DEF AfterWrite, WritesMain
    <3>. QED
      BY <3>1, <3>2, <3>3, <3>4, <3>5
  <2>17. Chip'
    <3>1. MgmtStart <= x /\ t.write_count \in Int
      BY SMTT(30), <2>3, <2>5, <2>7 DEF Mgmt, InfoTable
    <3>2. t.block_state[x] = GOOD
      BY <2>2, <2>3, <2>14
    <3>3. \A b, c \in TablesOnChip : b = c
      BY <2>4, <2>6
    <3>. HIDE DEF t
    <3>. QED
      BY <2>1, <2>8, <2>9, <2>10, <2>12, <2>13, <2>16, <3>1, <3>2, <3>3, <1>ChipGains
  <2>18. /\ lv'.start = x /\ lv'.ok /\ lv'.ba = x /\ lv'.limit = lv.limit /\ lv'.tmp = lv.tmp
    BY <2>0, <2>1 DEF TypeOK, Locals
  <2>19. /\ Writer' = l /\ InWrite' /\ ~Rescued' /\ ~Settled' /\ pc' = l
         /\ pc' \notin {"write", "program", "erase_range"} /\ pc' \in AfterWrite
    BY <2>1, <2>4 DEF Writer, InWrite, Rescued, Settled, AfterWrite
  <2>20. Regions' /\ OnRecord'
    BY <2>1, <2>4, <2>18, <2>19 DEF Regions, OnRecord
  <2>21. MainFirst'
    BY <2>0, <2>1, <2>4, <2>18, <2>19 DEF MainFirst, NoneFree
  <2>22. Extent'
    BY <2>0, <2>1, <2>2, <2>4, <2>18, <2>19 DEF Extent, From, UpTo
  <2>23. Holders'
    <3>1. Safe(l)' = Safe(l)
      BY SMTT(30), <2>1, <2>18, <2>19 DEF Safe
    <3>2. Safe(pc)' = Safe(l)'
      BY <2>19 DEF Safe
    <3>3. TablesOnChip' = Safe(pc)' \cup {lv'.start}
      BY <2>6, <2>8, <2>18, <3>1, <3>2
    <3>. QED
      BY <2>18, <2>19, <3>3 DEF Holders
  <2>24. Mappings'
    BY <2>1, <2>8, <1>MappingsKept DEF Alike
  <2>25. Knows'
    <3>1. \A b \in TablesOnChip' :
            /\ Tbl(b)'.write_count <= t.write_count
            /\ Tbl(b)'.write_count = t.write_count => Tbl(b)' = t
            /\ Fewer(Tbl(b)'.block_state, t.block_state)
            /\ ni.block_state[b] = GOOD
      <4>1. t.write_count <= t.write_count /\ Fewer(t.block_state, t.block_state)
        BY SMTT(30), <2>7 DEF InfoTable, Fewer
      <4>2. \A b \in TablesOnChip : ni.block_state[b] = GOOD
        BY DEF Knows
      <4>. QED
        BY <2>2, <2>8, <2>9, <2>16, <4>1, <4>2
    <3>. QED
      BY <2>1, <3>1 DEF Knows
  <2>. QED
    BY <2>17, <2>20, <2>21, <2>22, <2>23, <2>24, <2>25 DEF Session

  \* A loop that has come to its end hands the tables back to its caller
<1>LoopEndsRecord.
    ASSUME IInv, Chip, Session, WriteExhausted \/ RangeErased, op' = op
    PROVE  Chip' /\ Session'
  <2>. USE <1>LoopEndsRecord
  <2>. TypeOK /\ Layout /\ ReturnLabels /\ Ranges
    BY DEF IInv
  <2>. Regions /\ OnRecord /\ Extent /\ Holders /\ Mappings /\ Knows /\ MainFirst
    BY DEF Session
  <2>0. PICK l : l = lv.ret
    OBVIOUS
  <2>1. /\ pc' = l /\ lv.limit <= lv.ba /\ UNCHANGED <<flash, oob, ni, skipped>>
        /\ lv'.start = lv.start /\ lv'.ba = lv.ba /\ lv'.limit = lv.limit
        /\ lv'.tmp = lv.tmp /\ lv'.ret = lv.ret
        /\ lv'.ok = (pc = "erase_range")
    <3>1. /\ pc' = l /\ lv.ba >= lv.limit /\ UNCHANGED <<flash, oob, ni, skipped>>
          /\ \/ lv' = [lv EXCEPT !.ok = FALSE] /\ pc = "write"
             \/ lv' = [lv EXCEPT !.ok = TRUE] /\ pc = "erase_range"
      BY <2>0 DEF WriteExhausted, RangeErased
    <3>2. lv.limit <= lv.ba
      BY SMTT(30), <3>1, GeometryAssumption, Addresses
    <3>. QED
      BY <3>1, <3>2 DEF TypeOK, Locals
  <2>2. /\ SigBlocks' = SigBlocks /\ TablesOnChip' = TablesOnChip /\ Alike(ni, ni')
        /\ \A b \in TablesOnChip' : Tbl(b)' = Tbl(b)
    BY <2>1 DEF SigBlocks, TablesOnChip, Tbl, Alike
  <2>3. Chip'
    BY <2>1, <2>2, ChipShrinks
  <2>4. Mappings' /\ Knows'
    BY <2>1, <2>2, <1>MappingsKept, <1>KnowsStays
  <2>5. CASE WriteExhausted
    <3>1. pc = "write" /\ ~lv'.ok
      BY <2>1, <2>5 DEF WriteExhausted
    <3>2. /\ l \in AfterWrite /\ Writer = l /\ InWrite
          /\ \A b \in Replaced(l) : b < lv.limit
      BY <2>0, <3>1, LoopRange
    <3>3. /\ Writer' = l /\ InWrite' /\ ~Rescued' /\ ~Settled'
          /\ pc' \notin {"write", "program", "erase_range"} /\ pc' \in AfterWrite
      BY <2>1, <3>2 DEF Writer, InWrite, Rescued, Settled, AfterWrite
    <3>4. Regions' /\ OnRecord'
      BY <2>1, <3>2, <3>3 DEF Regions, OnRecord
    <3>5. MainFirst'
      BY <2>1, <3>2, <3>3 DEF MainFirst, NoneFree
    <3>6. Extent'
      BY <2>0, <2>1, <3>1, <3>2, <3>3 DEF Extent, From, UpTo
    <3>7. Holders'
      <4>1. \A b \in TablesOnChip : b \in Safe(l)
        <5>1. ASSUME NEW b \in Replaced(l), lv.ba <= b
              PROVE  FALSE
          <6>1. b \in Nat /\ lv.ba \in Nat /\ lv.limit \in Nat /\ b < lv.limit
            BY SMTT(30), <3>2, <5>1, GeometryAssumption, Addresses DEF Replaced
          <6>. QED
            BY SMTT(30), <2>1, <5>1, <6>1
        <5>. QED
          BY <2>0, <3>1, <5>1 DEF Holders
      <4>2. TablesOnChip = Safe(l)
        BY <2>0, <3>1, <4>1 DEF Holders
      <4>3. Safe(pc)' = Safe(l)
        BY SMTT(30), <2>1 DEF Safe
      <4>. QED
        BY <2>2, <3>1, <3>3, <4>2, <4>3 DEF Holders
    <3>. QED
      BY <2>3, <2>4, <3>4, <3>5, <3>6, <3>7 DEF Session
  <2>6. CASE RangeErased
    <3>1. pc = "erase_range" /\ l \in AfterErase
      BY <2>0, <2>6 DEF RangeErased, ReturnLabels
    <3>2. /\ ~InWrite /\ ~InWrite' /\ pc' \notin AfterWrite
          /\ pc' \notin {"write", "program", "erase_range"}
          /\ Rescued' <=> Rescued
          /\ Settled' => Settled
      BY <2>0, <2>1, <2>6, <3>1
         DEF InWrite, AfterErase, AfterRebuild, AfterWrite, Rescued, Settled, Unlaid
    <3>3. Regions' /\ OnRecord' /\ MainFirst'
      BY <2>1, <3>2 DEF Regions, OnRecord, MainFirst, NoneFree
    <3>4. Extent'
      BY <3>2 DEF Extent
    <3>5. Holders'
      BY <2>1, <2>2, <3>2 DEF Holders
    <3>. QED
      BY <2>3, <2>4, <3>3, <3>4, <3>5 DEF Session
  <2>. QED
    BY <2>1, <2>3, <2>5, <2>6

  \* The steps of the loops keep the record
<1>BlockStepRecord.
    ASSUME IInv, Chip, Session, BlockStep, op' = op
    PROVE  Chip' /\ Session'
  <2>. USE <1>BlockStepRecord
  <2>. TypeOK /\ Layout /\ ReturnLabels /\ Ranges
    BY DEF IInv
  <2>. Regions /\ OnRecord /\ Extent /\ Holders /\ Mappings /\ Knows /\ MainFirst
    BY DEF Session
  <2>1. ASSUME NEW label \in {"write", "erase_range"},
               SkipKnown(label) \/ SkipMarked(label)
        PROVE  Chip' /\ Session'
    <3>1. /\ pc \in Writing /\ pc # "program" /\ pc' = pc /\ lv.ba < lv.limit /\ NextBlock
          /\ ni' = ni \/ ni' = SetState(ni, lv.ba, BAD)
          /\ UNCHANGED <<flash, oob>>
          /\ ni.block_state[lv.ba] # GOOD \/ lv.ba \in oob
          /\ ni' # ni => lv.ba \in oob
      BY <2>1 DEF SkipKnown, SkipMarked, AtBlock, Writing
    <3>2. /\ SigBlocks' = SigBlocks /\ TablesOnChip' = TablesOnChip
          /\ \A b \in TablesOnChip' : Tbl(b)' = Tbl(b)
      BY <3>1 DEF SigBlocks, TablesOnChip, Tbl
    <3>3. lv.ba \notin TablesOnChip
      BY <3>1 DEF Knows, TablesOnChip
    <3>. QED
      BY <3>1, <3>2, <3>3, <1>PassesBlock
  <2>2. ASSUME pc \in Writing, lv.ba < lv.limit, MarkFailed(lv.ba), NextBlock,
               pc' = IF pc = "program" THEN "write" ELSE pc
        PROVE  Chip' /\ Session'
    <3>1. lv.ba \in Blocks /\ lv.ba \notin SigBlocks
      BY <2>2, BelowSignature
    <3>2. /\ flash' = [flash EXCEPT ![lv.ba] = Junk] /\ oob' = oob \cup {lv.ba}
          /\ ni' = SetState(ni, lv.ba, BAD)
      BY <2>2 DEF MarkFailed
    <3>3. \A b \in Blocks : b # lv.ba => flash'[b] = flash[b] /\ (b \in oob' <=> b \in oob)
      BY <3>1, <3>2 DEF TypeOK
    <3>4. /\ SigBlocks' = SigBlocks /\ TablesOnChip' = TablesOnChip \ {lv.ba}
          /\ \A b \in TablesOnChip' : Tbl(b)' = Tbl(b)
      BY <3>1, <3>2, <3>3, OneBlock
    <3>. QED
      BY <2>2, <3>2, <3>4, <1>PassesBlock
  <2>3. ASSUME NEW label \in {"write", "erase_range"}, EraseFails(label)
        PROVE  Chip' /\ Session'
    BY <2>2, <2>3 DEF EraseFails, CanErase, AtBlock, Writing
  <2>4. CASE WriteErases
    BY <2>4, <1>WriteErasesRecord
  <2>5. CASE ProgramSucceeds
    BY <2>5, <1>ProgramSucceedsRecord
  <2>6. CASE ProgramFails
    BY <2>2, <2>6 DEF ProgramFails, Ranges, Writing
  <2>7. CASE WriteExhausted \/ RangeErased
    BY <2>7, <1>LoopEndsRecord
  <2>8. CASE RangeErases
    <3>1. /\ pc = "erase_range" /\ lv.ba < lv.limit /\ NextBlock /\ pc' = pc
          /\ flash' = [flash EXCEPT ![lv.ba] = Erased] /\ UNCHANGED <<oob, ni>>
      BY <2>8 DEF RangeErases, CanErase, AtBlock
    <3>2. lv.ba \in Blocks /\ lv.ba \notin SigBlocks
      BY <3>1, BelowSignature DEF Writing
    <3>3. /\ \A b \in Blocks : b # lv.ba =>
               flash'[b] = flash[b] /\ (b \in oob' <=> b \in oob)
          /\ flash'[lv.ba].kind \notin {"sig", "table"}
      BY <3>1, <3>2 DEF TypeOK, Erased
    <3>4. /\ SigBlocks' = SigBlocks /\ TablesOnChip' = TablesOnChip \ {lv.ba}
          /\ \A b \in TablesOnChip' : Tbl(b)' = Tbl(b)
      BY <3>1, <3>2, <3>3, OneBlock
    <3>5. pc \in Writing /\ pc' = IF pc = "program" THEN "write" ELSE pc
      BY <3>1 DEF Writing
    <3>. QED
      BY <3>1, <3>4, <3>5, <1>PassesBlock
  <2>. QED
    BY <2>1, <2>3, <2>4, <2>5, <2>6, <2>7, <2>8 DEF BlockStep

  (* The procedures that decide where the tables go                           *)

  \* What the instance knows does not depend on where it looks for tables
<1>RelocatedKeeps.
    ASSUME TypeOK, Mappings, Knows, UNCHANGED <<flash, oob>>, op' = op,
           Relocated(ni, ni')
    PROVE  /\ Mappings' /\ Knows'
           /\ \A hi : NoneFree(hi) => Unavailable(ni'.info_table_cache.block_state, oob', hi)
  <2>. USE <1>RelocatedKeeps
  <2>1. /\ SigBlocks' = SigBlocks /\ TablesOnChip' = TablesOnChip
        /\ \A b \in TablesOnChip' : Tbl(b)' = Tbl(b)
    BY SameChip
  <2>2. Mappings'
    BY <2>1 DEF Mappings, Apart, Clear, Relocated
  <2>3. Knows'
    <3>1. Fewer(ni.block_state, ni'.block_state)
      BY DEF Fewer, Relocated
    <3>2. \A b \in TablesOnChip' : Tbl(b)' = Tbl(b) /\ ni'.block_state[b] = GOOD
      BY <2>1 DEF Knows, Relocated
    <3>3. /\ ni'.mapping_blocks_top_ba \in Int
          /\ ni'.mapping_blocks_top_ba <= ni.mapping_blocks_top_ba
      BY SMTT(30), Addresses DEF Relocated
    <3>. QED
      BY <2>1, <3>1, <3>2, <3>3, <1>KnowsKept DEF Relocated
  <2>4. \A hi : NoneFree(hi) => Unavailable(ni'.info_table_cache.block_state, oob', hi)
    BY DEF NoneFree, Relocated
  <2>. QED
    BY <2>2, <2>3, <2>4

  \* A procedure returns with its tables on record
<1>SettlesRecord.
    ASSUME Mappings', Knows', Regions', pc' \in Between,
           TablesOnChip' = Tables({ni'.main_table_ba, ni'.backup_table_ba}),
           Unavailable(ni'.info_table_cache.block_state, oob', ni'.main_table_ba)
    PROVE  Session'
  <2>. USE <1>SettlesRecord
  <2>1. /\ ~InWrite' /\ ~Rescued' /\ pc' \notin AfterWrite
        /\ pc' \notin {"write", "program", "erase_range"}
    BY DEF Between, Writing, InWrite, Rescued
  <2>2. OnRecord'
    BY <2>1 DEF OnRecord
  <2>3. Extent'
    BY <2>1 DEF Extent
  <2>4. Holders'
    BY <2>1 DEF Holders
  <2>5. MainFirst'
    BY <2>1 DEF MainFirst, NoneFree
  <2>. QED
    BY <2>2, <2>3, <2>4, <2>5 DEF Session

  \* nmbm_write_info_table is called
<1>EntersWriteRecord.
    ASSUME Mappings', Knows', Regions', pc' = "write",
           NEW r \in AfterWrite, lv'.ret = r,
           ni'.main_table_ba = 0 <=> r = "reb_main",
           r \in {"reb_backup", "rs_front", "rs_back"} => ni'.backup_table_ba = 0,
           r \in {"us_main", "us_backup", "upd_backup", "res_tmp", "res_main"}
             => ni'.backup_table_ba # 0,
           r = "res_main" => /\ lv'.tmp = ni'.mapping_blocks_ba - 1
                             /\ ni'.backup_table_ba < lv'.tmp,
           From(r, lv.ba)', UpTo(r, lv.limit)',
           Safe(r)' \subseteq TablesOnChip',
           \A b \in TablesOnChip' : b \in Safe(r)' \/ (b \in Replaced(r)' /\ lv'.ba <= b),
           r \in WritesMain => Unavailable(ni'.info_table_cache.block_state, oob', lv'.ba),
           r \in {"res_tmp", "res_main"} =>
             Unavailable(ni'.info_table_cache.block_state, oob', ni'.backup_table_ba),
           r \notin {"reb_main", "rs_front"} =>
             Unavailable(ni'.info_table_cache.block_state, oob', ni'.main_table_ba)
    PROVE  Session'
  <2>. USE <1>EntersWriteRecord
  <2>1. /\ InWrite' /\ Writer' = r /\ ~Rescued' /\ ~Settled'
        /\ pc' \notin AfterWrite /\ pc' \notin {"program", "erase_range"}
    BY DEF Writer, InWrite, Rescued, Settled, AfterWrite
  <2>2. OnRecord'
    BY <2>1 DEF OnRecord
  <2>3. Extent'
    BY <2>1 DEF Extent, From, UpTo
  <2>4. Holders'
    <3>1. Safe(lv.ret)' = Safe(r)' /\ Replaced(lv.ret)' = Replaced(r)'
      BY SMTT(30) DEF Safe, Replaced
    <3>. QED
      BY <2>1, <3>1 DEF Holders
  <2>5. MainFirst'
    BY <2>1 DEF MainFirst, NoneFree
  <2>. QED
    BY <2>2, <2>3, <2>4, <2>5 DEF Session

  \* nmbm_erase_range is called to clear the blocks between two tables
<1>EntersEraseRecord.
    ASSUME Mappings', Knows', Regions', pc' = "erase_range", lv'.ret \in AfterErase,
           ni'.main_table_ba # 0, ni'.main_table_ba < lv'.ba,
           IF lv'.ret = "rs_erased"
           THEN /\ lv'.limit = lv'.start
                /\ ni'.backup_table_ba = 0 /\ ni'.mapping_blocks_ba <= lv'.start
                /\ TablesOnChip' = {ni'.main_table_ba, lv'.start}
           ELSE /\ lv'.limit = ni'.backup_table_ba
                /\ TablesOnChip' = Tables({ni'.main_table_ba, ni'.backup_table_ba}),
           Unavailable(ni'.info_table_cache.block_state, oob', ni'.main_table_ba)
    PROVE  Session'
  <2>. USE <1>EntersEraseRecord
  <2>1. /\ ~InWrite' /\ pc' \notin AfterWrite /\ pc' \notin {"write", "program"}
        /\ Rescued' <=> lv'.ret = "rs_erased"
        /\ Settled' => ~Rescued'
    BY DEF InWrite, AfterWrite, Rescued, Settled
  <2>2. OnRecord'
    BY <2>1 DEF OnRecord
  <2>3. Extent'
    BY <2>1 DEF Extent
  <2>4. Holders'
    BY <2>1 DEF Holders
  <2>5. MainFirst'
    BY <2>1 DEF MainFirst, NoneFree
  <2>. QED
    BY <2>2, <2>3, <2>4, <2>5 DEF Session

  \* The labels at which the procedures return to their callers
<1>ReturnsBetween.
    /\ AfterRebuild \cup AfterUpdate \subseteq Between
    /\ {"loaded", "upd_ret", "update"} \subseteq Between
    BY DEF AfterRebuild, AfterUpdate, Between, Unlaid, Labels, TableLabels, UserLabels,
           AfterWrite, Writing

  \* nmbm_rebuild_info_table has written the main table, or cannot
<1>RebuildMainRecord.
    ASSUME IInv, Session, RebuildMainWritten \/ RebuildMainFailed, op' = op
    PROVE  Session'
  <2>. USE <1>RebuildMainRecord
  <2>. TypeOK /\ ReturnLabels /\ Mappings /\ Knows
    BY DEF IInv, Session
  <2>0. pc = "reb_main" /\ pc \in AfterWrite /\ Safe(pc) = {} /\ UNCHANGED <<flash, oob>>
    BY DEF RebuildMainWritten, RebuildMainFailed, AfterWrite, Safe
  <2>1. PICK m, k, mb, top, start :
          /\ m = ni.main_table_ba /\ k = ni.backup_table_ba /\ mb = ni.mapping_blocks_ba
          /\ top = ni.mapping_blocks_top_ba /\ start = lv.start
    OBVIOUS
  <2>2. /\ mb \in Nat /\ top \in Nat /\ start \in Nat /\ MgmtStart \in Nat /\ m = 0 /\ k = 0
        /\ MgmtStart >= 1 /\ mb <= top
        /\ IF lv.ok THEN start # 0 /\ start < top /\ TablesOnChip = {start} /\ NoneFree(start)
                    ELSE TablesOnChip = {}
    BY <2>0, <2>1, WriteReturned DEF WritesMain
  <2>3. TablesOnChip' = TablesOnChip
    BY <2>0, SameChip
  <2>4. lv.bret \in Between
    BY <1>ReturnsBetween DEF ReturnLabels
  <2>5. lv \in Locals /\ ni \in Instance
    BY DEF TypeOK
  <2>6. CASE RebuildMainWritten
    <3>1. lv.ok /\ TablesOnChip = {start} /\ start # 0 /\ start < top
      BY <2>2, <2>6 DEF RebuildMainWritten
    <3>. DEFINE n == [ni EXCEPT !.main_table_ba = lv.start,
                                !.mapping_blocks_ba = lv.start + 1,
                                !.changed = FALSE]
    <3>2. ni' = n
      BY <2>6 DEF RebuildMainWritten, WriteNext
    <3>3. /\ Relocated(ni, ni') /\ ni'.main_table_ba = start
          /\ ni'.mapping_blocks_ba = start + 1 /\ ni'.backup_table_ba = 0
          /\ ni'.mapping_blocks_top_ba = top
      BY <2>1, <2>2, <2>5, <3>2 DEF Relocated, Instance
    <3>4. Mappings' /\ Knows' /\ Unavailable(ni'.info_table_cache.block_state, oob', start)
      BY <2>0, <2>2, <3>1, <3>3, <1>RelocatedKeeps
    <3>5. Regions'
      <4>1. start < start + 1 /\ start + 1 <= top
        BY SMTT(30), <2>2, <3>1
      <4>. QED
        BY <3>3, <4>1 DEF Regions
    <3>6. ASSUME NEW b \in Blocks, Reserve(n, lv.start + 1, n.mapping_blocks_top_ba - 1, b),
                 WriteNext(n, b, n.mapping_blocks_top_ba, "reb_backup")
          PROVE  Session'
      <4>1. n.mapping_blocks_top_ba = top
        BY <2>1, <2>5 DEF Instance
      <4>2. start + 1 <= b
        <5>1. start + 1 \in Int /\ top - 1 \in Int
          BY SMTT(30), <2>2
        <5>2. Reserve(n, start + 1, top - 1, b)
          BY <2>1, <3>6, <4>1
        <5>. QED
          BY <5>1, <5>2, ReserveInRange
      <4>3. /\ lv' = CallWrite(lv, b, top, "reb_backup") /\ pc' = "write"
        BY <3>6, <4>1 DEF WriteNext
      <4>4. lv'.ba = b /\ lv'.limit = top /\ lv'.ret = "reb_backup"
        BY <2>5, <4>3 DEF CallWrite, Locals
      <4>5. From("reb_backup", lv.ba)' /\ UpTo("reb_backup", lv.limit)'
        BY <3>3, <4>2, <4>4 DEF From, UpTo
      <4>6. start \in Blocks
        BY <2>1, <2>5 DEF Locals
      <4>7. start \in Safe("reb_backup")' /\ \A x \in Safe("reb_backup")' : x = start
        BY <3>1, <3>3, <4>6 DEF Safe
      <4>. QED
        BY <2>3, <3>1, <3>3, <3>4, <3>5, <4>3, <4>4, <4>5, <4>7, <1>EntersWriteRecord
           DEF AfterWrite, WritesMain
    <3>7. ASSUME ReturnTo(lv.bret, TRUE)
          PROVE  Session'
      <4>1. pc' \in Between
        BY <2>4, <3>7 DEF ReturnTo
      <4>2. TablesOnChip' = Tables({ni'.main_table_ba, ni'.backup_table_ba})
        BY <2>3, <3>1, <3>3 DEF Tables
      <4>. QED
        BY <3>3, <3>4, <3>5, <4>1, <4>2, <1>SettlesRecord
    <3>8. \/ \E b \in Blocks : /\ Reserve(n, lv.start + 1, n.mapping_blocks_top_ba - 1, b)
                               /\ WriteNext(n, b, n.mapping_blocks_top_ba, "reb_backup")
          \/ ReturnTo(lv.bret, TRUE)
      BY <2>6 DEF RebuildMainWritten
    <3>. QED
      BY <3>6, <3>7, <3>8
  <2>7. CASE RebuildMainFailed
    <3>1. ~lv.ok /\ ni' = [ni EXCEPT !.protected = TRUE] /\ pc' = lv.bret
      BY <2>7 DEF RebuildMainFailed, ReturnTo
    <3>2. /\ Relocated(ni, ni') /\ ni'.main_table_ba = m /\ ni'.backup_table_ba = k
          /\ ni'.mapping_blocks_ba = mb /\ ni'.mapping_blocks_top_ba = top
      BY <2>1, <2>5, <3>1 DEF Relocated, Instance
    <3>3. \A st, marks : Unavailable(st, marks, 0)
      BY SMTT(30), <2>2 DEF Unavailable
    <3>4. Mappings' /\ Knows'
      BY <2>0, <3>2, <1>RelocatedKeeps
    <3>5. Regions'
      BY <2>2, <3>2 DEF Regions
    <3>6. TablesOnChip' = Tables({ni'.main_table_ba, ni'.backup_table_ba})
      BY <2>2, <2>3, <3>1, <3>2 DEF Tables
    <3>. QED
      BY <2>2, <2>4, <2>7, <3>1, <3>2, <3>3, <3>4, <3>5, <3>6, <1>SettlesRecord
  <2>. QED
    BY <2>6, <2>7

  \* nmbm_rebuild_info_table has written the backup table, or does without
<1>RebuildBackupRecord.
    ASSUME IInv, Session, RebuildBackupWritten \/ RebuildBackupFailed, op' = op
    PROVE  Session'
  <2>. USE <1>RebuildBackupRecord
  <2>. TypeOK /\ ReturnLabels /\ Mappings /\ Knows
    BY DEF IInv, Session
  <2>0. pc = "reb_backup" /\ pc \in AfterWrite /\ UNCHANGED <<flash, oob>>
    BY DEF RebuildBackupWritten, RebuildBackupFailed, AfterWrite, EraseRange
  <2>1. PICK m, k, mb, top, start :
          /\ m = ni.main_table_ba /\ k = ni.backup_table_ba /\ mb = ni.mapping_blocks_ba
          /\ top = ni.mapping_blocks_top_ba /\ start = lv.start
    OBVIOUS
  <2>2. /\ m \in Nat /\ mb \in Nat /\ top \in Nat /\ start \in Nat /\ k = 0 /\ m # 0 /\ m < mb
        /\ mb <= top /\ NoneFree(m)
        /\ IF lv.ok THEN /\ start # 0 /\ start < top /\ mb <= start
                         /\ TablesOnChip = Safe(pc) \cup {start}
                    ELSE TablesOnChip = Safe(pc)
    BY <2>0, <2>1, WriteReturned DEF From
  <2>3. TablesOnChip' = TablesOnChip
    BY <2>0, SameChip
  <2>4. Safe(pc) = {m}
    BY <2>0, <2>1, <2>2, SafeIs DEF Tables
  <2>5. lv \in Locals /\ ni \in Instance /\ lv.bret \in AfterRebuild
    BY DEF TypeOK, ReturnLabels
  <2>6. CASE RebuildBackupWritten
    <3>1. /\ lv.ok /\ pc' = "erase_range"
          /\ ni' = [ni EXCEPT !.backup_table_ba = lv.start, !.mapping_blocks_ba = lv.start + 1]
          /\ lv' = CallWrite(lv, ni.main_table_ba + 1, lv.start, lv.bret)
      BY <2>6 DEF RebuildBackupWritten, EraseRange
    <3>2. /\ Relocated(ni, ni') /\ ni'.main_table_ba = m /\ ni'.backup_table_ba = start
          /\ ni'.mapping_blocks_ba = start + 1 /\ ni'.mapping_blocks_top_ba = top
      BY <2>1, <2>5, <3>1 DEF Relocated, Instance
    <3>3. lv'.ba = m + 1 /\ lv'.limit = start /\ lv'.ret = lv.bret
      BY <2>1, <2>5, <3>1 DEF CallWrite, Locals
    <3>4. /\ m < m + 1 /\ m < start + 1 /\ m < start /\ start < start + 1
          /\ start + 1 <= top
      BY SMTT(30), <2>2, <3>1
    <3>5. Mappings' /\ Knows' /\ Unavailable(ni'.info_table_cache.block_state, oob', m)
      BY <2>0, <2>2, <3>2, <1>RelocatedKeeps
    <3>6. Regions'
      BY <2>2, <3>2, <3>4 DEF Regions
    <3>7. TablesOnChip' = Tables({ni'.main_table_ba, ni'.backup_table_ba})
      BY <2>2, <2>3, <2>4, <3>1, <3>2 DEF Tables
    <3>8. lv'.ret \in AfterErase /\ lv'.ret # "rs_erased"
      BY <2>5, <3>3 DEF AfterErase, AfterRebuild
    <3>. QED
      BY <2>2, <3>1, <3>2, <3>3, <3>4, <3>5, <3>6, <3>7, <3>8, <1>EntersEraseRecord
  <2>7. CASE RebuildBackupFailed
    <3>1. ~lv.ok /\ ni' = ni /\ pc' = lv.bret
      BY <2>7 DEF RebuildBackupFailed, ReturnTo
    <3>2. Relocated(ni, ni')
      BY <3>1 DEF Relocated
    <3>3. Mappings' /\ Knows' /\ Unavailable(ni'.info_table_cache.block_state, oob', m)
      BY <2>0, <2>2, <3>2, <1>RelocatedKeeps
    <3>4. Regions'
      BY <3>1 DEF Session, Regions
    <3>5. TablesOnChip' = Tables({ni'.main_table_ba, ni'.backup_table_ba})
      BY <2>1, <2>2, <2>3, <2>4, <3>1 DEF Tables
    <3>6. pc' \in Between
      BY <2>5, <2>7, <3>1, <1>ReturnsBetween
    <3>. QED
      BY <2>1, <3>1, <3>3, <3>4, <3>5, <3>6, <1>SettlesRecord
  <2>. QED
    BY <2>6, <2>7

  \* nmbm_rescue_single_info_table: a second table in front of the one loaded, or
  \* behind it
<1>RescueFrontRecord.
    ASSUME IInv, Session, RescueSingleFront \/ RescueSingleBehind, op' = op
    PROVE  Session'
  <2>. USE <1>RescueFrontRecord
  <2>. TypeOK /\ ReturnLabels /\ Mappings /\ Knows
    BY DEF IInv, Session
  <2>0. pc = "rs_front" /\ pc \in AfterWrite /\ UNCHANGED <<flash, oob>>
    BY DEF RescueSingleFront, RescueSingleBehind, AfterWrite, EraseRange
  <2>1. PICK m, k, mb, top, start, ba :
          /\ m = ni.main_table_ba /\ k = ni.backup_table_ba /\ mb = ni.mapping_blocks_ba
          /\ top = ni.mapping_blocks_top_ba /\ start = lv.start /\ ba = lv.ba
    OBVIOUS
  <2>2. /\ m \in Nat /\ mb \in Nat /\ top \in Nat /\ start \in Nat /\ ba \in Nat
        /\ k = 0 /\ m # 0 /\ m < mb /\ mb <= top /\ NoneFree(ba)
        /\ IF lv.ok THEN /\ start # 0 /\ start = ba /\ start < m
                         /\ TablesOnChip = Safe(pc) \cup {start}
                    ELSE m <= ba /\ TablesOnChip = Safe(pc)
    BY <2>0, <2>1, WriteReturned DEF UpTo, WritesMain
  <2>3. TablesOnChip' = TablesOnChip
    BY <2>0, SameChip
  <2>4. Safe(pc) = {m}
    BY <2>0, <2>1, <2>2, SafeIs DEF Tables
  <2>5. lv \in Locals /\ ni \in Instance
    BY DEF TypeOK
  <2>6. CASE RescueSingleFront
    <3>1. /\ lv.ok /\ pc' = "erase_range"
          /\ ni' = [ni EXCEPT !.backup_table_ba = ni.main_table_ba,
                              !.main_table_ba = lv.start,
                              !.changed = FALSE]
          /\ lv' = CallWrite(lv, lv.start + 1, ni.main_table_ba, "loaded")
      BY <2>6 DEF RescueSingleFront, EraseRange
    <3>2. /\ Relocated(ni, ni') /\ ni'.main_table_ba = start /\ ni'.backup_table_ba = m
          /\ ni'.mapping_blocks_ba = mb /\ ni'.mapping_blocks_top_ba = top
      BY <2>1, <2>5, <3>1 DEF Relocated, Instance
    <3>3. lv'.ba = start + 1 /\ lv'.limit = m /\ lv'.ret = "loaded"
      BY <2>1, <2>5, <3>1 DEF CallWrite, Locals
    <3>4. start < start + 1 /\ start < mb
      BY SMTT(30), <2>2, <3>1
    <3>5. Mappings' /\ Knows' /\ Unavailable(ni'.info_table_cache.block_state, oob', start)
      BY <2>0, <2>2, <3>1, <3>2, <1>RelocatedKeeps
    <3>6. Regions'
      BY <2>2, <3>1, <3>2, <3>4 DEF Regions
    <3>7. TablesOnChip' = Tables({ni'.main_table_ba, ni'.backup_table_ba})
      BY <2>2, <2>3, <2>4, <3>1, <3>2 DEF Tables
    <3>8. lv'.ret \in AfterErase /\ lv'.ret # "rs_erased"
      BY <3>3 DEF AfterErase
    <3>. QED
      BY <2>2, <3>1, <3>2, <3>3, <3>4, <3>5, <3>6, <3>7, <3>8, <1>EntersEraseRecord
  <2>7. CASE RescueSingleBehind
    <3>1. ~lv.ok /\ ni' = ni /\ m <= ba
      BY <2>2, <2>7 DEF RescueSingleBehind
    <3>2. Relocated(ni, ni')
      BY <3>1 DEF Relocated
    <3>3. NoneFree(m)
      <4>1. ba <= BlockCount /\ m \in Int /\ ba \in Int
        BY SMTT(30), <2>1, <2>2, GeometryAssumption, Addresses
      <4>2. Fewer(ni.info_table_cache.block_state, ni.info_table_cache.block_state)
        BY DEF Fewer
      <4>. QED
        BY <2>2, <3>1, <4>1, <4>2, <1>UnavailableKept DEF NoneFree
    <3>4. Mappings' /\ Knows' /\ Unavailable(ni'.info_table_cache.block_state, oob', m)
      BY <2>0, <3>2, <3>3, <1>RelocatedKeeps
    <3>5. Regions'
      BY <3>1 DEF Session, Regions
    <3>6. ASSUME NEW b \in Blocks,
                 Reserve(ni, ni.mapping_blocks_ba, ni.mapping_blocks_top_ba - 1, b),
                 lv' = [CallWrite(lv, b, ni.mapping_blocks_top_ba, "rs_back")
                          EXCEPT !.write_ba = b],
                 pc' = "write"
          PROVE  Session'
      <4>1. mb <= b
        <5>1. mb \in Int /\ top - 1 \in Int
          BY SMTT(30), <2>2
        <5>. QED
          BY <2>1, <3>6, <5>1, ReserveInRange
      <4>2. lv'.ba = b /\ lv'.limit = top /\ lv'.ret = "rs_back"
        BY <2>1, <2>5, <3>6 DEF CallWrite, Locals
      <4>3. From("rs_back", lv.ba)' /\ UpTo("rs_back", lv.limit)'
        BY <2>1, <3>1, <4>1, <4>2 DEF From, UpTo
      <4>4. m \in Blocks
        BY <2>1, <2>5 DEF Instance
      <4>5. m \in Safe("rs_back")' /\ \A x \in Safe("rs_back")' : x = m
        BY <2>1, <2>2, <3>1, <4>4 DEF Safe
      <4>. QED
        BY <2>1, <2>2, <2>3, <2>4, <3>1, <3>4, <3>5, <3>6, <4>2, <4>3, <4>5,
           <1>EntersWriteRecord DEF AfterWrite, WritesMain
    <3>7. ASSUME pc' = "loaded"
          PROVE  Session'
      <4>1. TablesOnChip' = Tables({ni'.main_table_ba, ni'.backup_table_ba})
        BY <2>1, <2>2, <2>3, <2>4, <3>1 DEF Tables
      <4>. QED
        BY <2>1, <3>1, <3>4, <3>5, <3>7, <4>1, <1>ReturnsBetween, <1>SettlesRecord
    <3>. QED
      BY <2>7, <3>6, <3>7 DEF RescueSingleBehind, ReturnTo
  <2>. QED
    BY <2>6, <2>7

  \* ... the attempts behind it
<1>RescueBackRecord.
    ASSUME IInv, Session, RescueSingleRetry \/ RescueSingleWritten, op' = op
    PROVE  Session'
  <2>. USE <1>RescueBackRecord
  <2>. TypeOK /\ ReturnLabels /\ Mappings /\ Knows
    BY DEF IInv, Session
  <2>0. pc = "rs_back" /\ pc \in AfterWrite /\ UNCHANGED <<flash, oob>> /\ ni' = ni
    BY DEF RescueSingleRetry, RescueSingleWritten, RetryLower, AfterWrite, EraseRange
  <2>1. PICK m, k, mb, top, start :
          /\ m = ni.main_table_ba /\ k = ni.backup_table_ba /\ mb = ni.mapping_blocks_ba
          /\ top = ni.mapping_blocks_top_ba /\ start = lv.start
    OBVIOUS
  <2>2. /\ m \in Nat /\ mb \in Nat /\ top \in Nat /\ start \in Nat /\ lv.write_ba \in Nat
        /\ k = 0 /\ m # 0 /\ m < mb /\ mb <= top /\ NoneFree(m)
        /\ IF lv.ok THEN mb <= start /\ TablesOnChip = Safe(pc) \cup {start}
                    ELSE TablesOnChip = Safe(pc)
    BY <2>0, <2>1, WriteReturned DEF From
  <2>3. TablesOnChip' = TablesOnChip
    BY <2>0, SameChip
  <2>4. Safe(pc) = {m}
    BY <2>0, <2>1, <2>2, SafeIs DEF Tables
  <2>5. lv \in Locals /\ ni \in Instance
    BY DEF TypeOK
  <2>6. Mappings' /\ Knows' /\ Unavailable(ni'.info_table_cache.block_state, oob', m)
    BY <2>0, <2>2, <1>RelocatedKeeps DEF Relocated
  <2>7. Regions'
    BY <2>0 DEF Session, Regions
  <2>8. ASSUME ~lv.ok, RetryLower("rs_back")
        PROVE  Session'
    <3>1. /\ mb <= lv.write_ba - 1 /\ pc' = "write"
          /\ lv' = [CallWrite(lv, lv.write_ba - 1, ni.mapping_blocks_top_ba, "rs_back")
                      EXCEPT !.write_ba = lv.write_ba - 1]
      <4>1. lv.write_ba - 1 >= mb
        BY <2>1, <2>8 DEF RetryLower
      <4>2. mb <= lv.write_ba - 1
        BY SMTT(30), <2>2, <4>1
      <4>. QED
        BY <2>8, <4>2 DEF RetryLower
    <3>2. lv'.ba = lv.write_ba - 1 /\ lv'.limit = top /\ lv'.ret = "rs_back"
      BY <2>1, <2>5, <3>1 DEF CallWrite, Locals
    <3>3. From("rs_back", lv.ba)' /\ UpTo("rs_back", lv.limit)'
      BY <2>0, <2>1, <3>1, <3>2 DEF From, UpTo
    <3>4. m \in Blocks
      BY <2>1, <2>5 DEF Instance
    <3>5. m \in Safe("rs_back")' /\ \A x \in Safe("rs_back")' : x = m
      BY <2>0, <2>1, <2>2, <3>4 DEF Safe
    <3>. QED
      BY <2>0, <2>1, <2>2, <2>3, <2>4, <2>6, <2>7, <2>8, <3>1, <3>2, <3>3, <3>5,
         <1>EntersWriteRecord DEF AfterWrite, WritesMain
  <2>9. ASSUME ~lv.ok, pc' = "loaded"
        PROVE  Session'
    <3>1. TablesOnChip' = Tables({ni'.main_table_ba, ni'.backup_table_ba})
      BY <2>0, <2>1, <2>2, <2>3, <2>4, <2>9 DEF Tables
    <3>. QED
      BY <2>0, <2>1, <2>6, <2>7, <2>9, <3>1, <1>ReturnsBetween, <1>SettlesRecord
  <2>10. CASE RescueSingleWritten
    <3>1. /\ lv.ok /\ pc' = "erase_range"
          /\ lv' = CallWrite(lv, ni.mapping_blocks_ba, lv.start, "rs_erased")
      BY <2>10 DEF RescueSingleWritten, EraseRange
    <3>2. lv'.ba = mb /\ lv'.limit = start /\ lv'.ret = "rs_erased" /\ lv'.start = start
      BY <2>1, <2>5, <3>1 DEF CallWrite, Locals
    <3>3. TablesOnChip' = {ni'.main_table_ba, lv'.start}
      BY <2>0, <2>1, <2>2, <2>3, <2>4, <3>1, <3>2
    <3>4. lv'.ret \in AfterErase
      BY <3>2 DEF AfterErase
    <3>. QED
      BY <2>0, <2>1, <2>2, <2>6, <2>7, <3>1, <3>2, <3>3, <3>4, <1>EntersEraseRecord
  <2>. QED
    BY <2>8, <2>9, <2>10 DEF RescueSingleRetry, ReturnTo

  \* ... and the blocks below the new table erased
<1>RescueErasedRecord.
    ASSUME IInv, Session, RescueSingleErased, op' = op
    PROVE  Session'
  <2>. USE <1>RescueErasedRecord
  <2>. TypeOK /\ Ranges /\ Mappings /\ Knows
    BY DEF IInv, Session
  <2>0. /\ pc = "rs_erased" /\ UNCHANGED <<flash, oob>> /\ pc' = "loaded"
        /\ ni' = [ni EXCEPT !.backup_table_ba = lv.start,
                            !.mapping_blocks_ba = lv.start + 1,
                            !.changed = FALSE]
    BY DEF RescueSingleErased, ReturnTo
  <2>1. PICK m, mb, top, start :
          /\ m = ni.main_table_ba /\ mb = ni.mapping_blocks_ba
          /\ top = ni.mapping_blocks_top_ba /\ start = lv.start
    OBVIOUS
  <2>2. m \in Nat /\ mb \in Nat /\ top \in Nat /\ start \in Nat
    BY SMTT(30), <2>1, GeometryAssumption, Addresses
  <2>3. Rescued /\ ~InWrite
    BY <2>0 DEF Rescued, InWrite, AfterWrite
  <2>4. /\ m # 0 /\ m < mb /\ mb <= start /\ start < top /\ NoneFree(m)
        /\ TablesOnChip = {m, start}
    BY <2>0, <2>1, <2>3 DEF Session, Regions, OnRecord, Holders, MainFirst, Ranges, TableBlock
  <2>5. m < start /\ m < start + 1 /\ start < start + 1 /\ start + 1 <= top /\ start # 0
    BY SMTT(30), <2>2, <2>4
  <2>6. ni \in Instance
    BY DEF TypeOK
  <2>7. /\ Relocated(ni, ni') /\ ni'.main_table_ba = m /\ ni'.backup_table_ba = start
        /\ ni'.mapping_blocks_ba = start + 1 /\ ni'.mapping_blocks_top_ba = top
    BY <2>0, <2>1, <2>6 DEF Relocated, Instance
  <2>8. Mappings' /\ Knows' /\ Unavailable(ni'.info_table_cache.block_state, oob', m)
    BY <2>0, <2>4, <2>7, <1>RelocatedKeeps
  <2>9. Regions'
    BY <2>4, <2>5, <2>7 DEF Regions
  <2>10. TablesOnChip' = Tables({ni'.main_table_ba, ni'.backup_table_ba})
    BY <2>0, <2>4, <2>5, <2>7, SameChip DEF Tables
  <2>. QED
    BY <2>0, <2>7, <2>8, <2>9, <2>10, <1>ReturnsBetween, <1>SettlesRecord

  \* nmbm_update_single_info_table
<1>UpdateSingleRecord.
    ASSUME IInv, Session, UpdateSingleMain \/ UpdateSingleBackup, op' = op
    PROVE  Session'
  <2>. USE <1>UpdateSingleRecord
  <2>. TypeOK /\ ReturnLabels /\ Mappings /\ Knows
    BY DEF IInv, Session
  <2>0. pc \in {"us_main", "us_backup"} /\ pc \in AfterWrite /\ UNCHANGED <<flash, oob>>
    BY DEF UpdateSingleMain, UpdateSingleBackup, AfterWrite
  <2>1. PICK m, k, mb, top, start, ba :
          /\ m = ni.main_table_ba /\ k = ni.backup_table_ba /\ mb = ni.mapping_blocks_ba
          /\ top = ni.mapping_blocks_top_ba /\ start = lv.start /\ ba = lv.ba
    OBVIOUS
  <2>2. /\ m \in Nat /\ mb \in Nat /\ top \in Nat /\ start \in Nat /\ k \in Nat /\ ba \in Nat
        /\ k # 0 /\ m # 0 /\ m < k /\ k < mb /\ mb <= top /\ NoneFree(m)
        /\ MgmtStart \in Nat
        /\ IF lv.ok THEN /\ start # 0 /\ start = ba /\ start < lv.limit /\ start < top
                         /\ TablesOnChip = Safe(pc) \cup {start}
                    ELSE TablesOnChip = Safe(pc)
        /\ From(pc, ba) /\ UpTo(pc, lv.limit) /\ (pc = "us_main" => NoneFree(ba))
    BY <2>0, <2>1, WriteReturned DEF WritesMain
  <2>3. TablesOnChip' = TablesOnChip
    BY <2>0, SameChip
  <2>5. lv \in Locals /\ ni \in Instance
    BY DEF TypeOK
  <2>6. CASE UpdateSingleMain /\ lv.ok
    <3>1. /\ pc = "us_main" /\ pc' = "loaded"
          /\ ni' = [ni EXCEPT !.main_table_ba = lv.start, !.changed = FALSE]
      BY <2>6 DEF UpdateSingleMain, ReturnTo
    <3>2. /\ Relocated(ni, ni') /\ ni'.main_table_ba = start /\ ni'.backup_table_ba = k
          /\ ni'.mapping_blocks_ba = mb /\ ni'.mapping_blocks_top_ba = top
      BY <2>1, <2>5, <3>1 DEF Relocated, Instance
    <3>3. start < k
      BY <2>1, <2>2, <2>6, <3>1 DEF UpTo
    <3>4. start < mb
      BY SMTT(30), <2>2, <3>3
    <3>5. Mappings' /\ Knows' /\ Unavailable(ni'.info_table_cache.block_state, oob', start)
      BY <2>0, <2>2, <2>6, <3>1, <3>2, <1>RelocatedKeeps
    <3>6. Regions'
      BY <2>2, <2>6, <3>2, <3>3, <3>4 DEF Regions
    <3>7. Safe(pc) = {k}
      BY <2>1, <2>2, <3>1, SafeIs DEF Tables
    <3>8. TablesOnChip' = Tables({ni'.main_table_ba, ni'.backup_table_ba})
      BY <2>2, <2>3, <2>6, <3>2, <3>7 DEF Tables
    <3>. QED
      BY <3>1, <3>2, <3>5, <3>6, <3>8, <1>ReturnsBetween, <1>SettlesRecord
  <2>7. CASE UpdateSingleMain /\ ~lv.ok
    <3>1. /\ pc = "us_main" /\ pc' = "write"
          /\ ni' = [ni EXCEPT !.main_table_ba = ni.backup_table_ba, !.backup_table_ba = 0]
          /\ lv' = CallWrite(lv, MgmtStart, ni.backup_table_ba, "rs_front")
      BY <2>7 DEF UpdateSingleMain, WriteNext
    <3>2. /\ Relocated(ni, ni') /\ ni'.main_table_ba = k /\ ni'.backup_table_ba = 0
          /\ ni'.mapping_blocks_ba = mb /\ ni'.mapping_blocks_top_ba = top
      BY <2>1, <2>5, <3>1 DEF Relocated, Instance
    <3>3. lv'.ba = MgmtStart /\ lv'.limit = k /\ lv'.ret = "rs_front"
      BY <2>1, <2>5, <3>1 DEF CallWrite, Locals
    <3>4. Mappings' /\ Knows'
      BY <2>0, <3>2, <1>RelocatedKeeps
    <3>5. Unavailable(ni'.info_table_cache.block_state, oob', MgmtStart)
      BY SMTT(30), <2>2 DEF Unavailable
    <3>6. Regions'
      BY <2>2, <3>2 DEF Regions
    <3>7. Safe(pc) = {k}
      BY <2>1, <2>2, <3>1, SafeIs DEF Tables
    <3>8. From("rs_front", lv.ba)' /\ UpTo("rs_front", lv.limit)'
      BY <3>2, <3>3 DEF From, UpTo
    <3>9. k \in Blocks
      BY <2>1, <2>5 DEF Instance
    <3>10. k \in Safe("rs_front")' /\ \A x \in Safe("rs_front")' : x = k
      BY <2>2, <3>2, <3>9 DEF Safe
    <3>. QED
      BY <2>2, <2>3, <2>7, <3>1, <3>2, <3>3, <3>4, <3>5, <3>6, <3>7, <3>8, <3>10,
         <1>EntersWriteRecord DEF AfterWrite, WritesMain
  <2>8. CASE UpdateSingleBackup
    <3>1. pc = "us_backup" /\ pc' = "loaded" /\ k <= ba
      BY <2>1, <2>2, <2>8 DEF UpdateSingleBackup, ReturnTo, From
    <3>2. Safe(pc) = {m}
      BY <2>1, <2>2, <3>1, SafeIs DEF Tables
    <3>3. CASE lv.ok
      <4>1. ni' = [ni EXCEPT !.backup_table_ba = lv.start, !.mapping_blocks_ba = lv.start + 1,
                             !.changed = FALSE]
        BY <2>8, <3>3 DEF UpdateSingleBackup
      <4>2. /\ Relocated(ni, ni') /\ ni'.main_table_ba = m /\ ni'.backup_table_ba = start
            /\ ni'.mapping_blocks_ba = start + 1 /\ ni'.mapping_blocks_top_ba = top
        BY <2>1, <2>5, <4>1 DEF Relocated, Instance
      <4>3. m < start /\ m < start + 1 /\ start < start + 1 /\ start + 1 <= top
        BY SMTT(30), <2>2, <3>1, <3>3
      <4>4. Mappings' /\ Knows' /\ Unavailable(ni'.info_table_cache.block_state, oob', m)
        BY <2>0, <2>2, <4>2, <1>RelocatedKeeps
      <4>5. Regions'
        BY <2>2, <4>2, <4>3 DEF Regions
      <4>6. TablesOnChip' = Tables({ni'.main_table_ba, ni'.backup_table_ba})
        BY <2>2, <2>3, <3>2, <3>3, <4>2 DEF Tables
      <4>. QED
        BY <3>1, <4>2, <4>4, <4>5, <4>6, <1>ReturnsBetween, <1>SettlesRecord
    <3>4. CASE ~lv.ok
      <4>1. ni' = [ni EXCEPT !.mapping_blocks_ba = ni.backup_table_ba, !.backup_table_ba = 0]
        BY <2>8, <3>4 DEF UpdateSingleBackup
      <4>2. /\ Relocated(ni, ni') /\ ni'.main_table_ba = m /\ ni'.backup_table_ba = 0
            /\ ni'.mapping_blocks_ba = k /\ ni'.mapping_blocks_top_ba = top
        BY <2>1, <2>5, <4>1 DEF Relocated, Instance
      <4>3. k <= top
        BY SMTT(30), <2>2
      <4>4. Mappings' /\ Knows' /\ Unavailable(ni'.info_table_cache.block_state, oob', m)
        BY <2>0, <2>2, <4>2, <1>RelocatedKeeps
      <4>5. Regions'
        BY <2>2, <4>2, <4>3 DEF Regions
      <4>6. TablesOnChip' = Tables({ni'.main_table_ba, ni'.backup_table_ba})
        BY <2>2, <2>3, <3>2, <3>4, <4>2 DEF Tables
      <4>. QED
        BY <3>1, <4>2, <4>4, <4>5, <4>6, <1>ReturnsBetween, <1>SettlesRecord
    <3>. QED
      BY <3>3, <3>4
  <2>. QED
    BY <2>6, <2>7, <2>8

  \* A table generated anew holds what the instance knows
<1>GenerateKeeps.
    ASSUME TypeOK, Mappings, Knows, UNCHANGED <<flash, oob>>, op' = op, ni.changed,
           Relocated(Generate(ni), ni')
    PROVE  /\ Mappings' /\ Knows'
           /\ \A hi \in 0 .. BlockCount :
                NoneFree(hi) => Unavailable(ni'.info_table_cache.block_state, oob', hi)
  <2>. USE <1>GenerateKeeps
  <2>. DEFINE c == ni.info_table_cache
  <2>1. ni \in Instance
    BY DEF TypeOK
  <2>2. ni.write_count \in Nat
    BY <2>1 DEF Instance
  <2>3. PICK wc : wc = ni.write_count + 1
    OBVIOUS
  <2>4. /\ ni'.write_count = wc /\ ni'.info_table_cache.write_count = wc
        /\ ni'.info_table_cache.block_state = ni.block_state
        /\ ni'.info_table_cache.block_mapping = ni.block_mapping
        /\ ni'.block_state = ni.block_state /\ ni'.block_mapping = ni.block_mapping
        /\ ni'.mapping_blocks_top_ba = ni.mapping_blocks_top_ba
        /\ ni'.signature_ba = ni.signature_ba
    <3>1. /\ Generate(ni).write_count = wc
          /\ Generate(ni).info_table_cache = [write_count |-> wc,
                                              block_state |-> ni.block_state,
                                              block_mapping |-> ni.block_mapping]
          /\ Generate(ni).block_state = ni.block_state
          /\ Generate(ni).block_mapping = ni.block_mapping
          /\ Generate(ni).mapping_blocks_top_ba = ni.mapping_blocks_top_ba
          /\ Generate(ni).signature_ba = ni.signature_ba
      BY <2>1, <2>3 DEF Generate, Instance
    <3>2. /\ ni'.info_table_cache = [write_count |-> wc, block_state |-> ni.block_state,
                                     block_mapping |-> ni.block_mapping]
          /\ ni'.write_count = wc
          /\ ni'.block_state = ni.block_state /\ ni'.block_mapping = ni.block_mapping
          /\ ni'.mapping_blocks_top_ba = ni.mapping_blocks_top_ba
          /\ ni'.signature_ba = ni.signature_ba
      BY <3>1 DEF Relocated
    <3>. QED
      BY SMTT(30), <3>2
  <2>5. /\ SigBlocks' = SigBlocks /\ TablesOnChip' = TablesOnChip
        /\ \A b \in TablesOnChip' : Tbl(b)' = Tbl(b)
    BY SameChip
  <2>6. Mappings'
    BY <2>4, <2>5 DEF Mappings, Apart, Clear
  <2>7. Knows'
    <3>1. /\ c.write_count = ni.write_count /\ Fewer(c.block_state, ni.block_state)
          /\ \A b \in TablesOnChip :
               /\ Tbl(b).write_count <= c.write_count
               /\ Fewer(Tbl(b).block_state, c.block_state)
               /\ ni.block_state[b] = GOOD
      BY DEF Knows
    <3>2. ASSUME NEW b \in TablesOnChip
          PROVE  /\ Tbl(b).write_count <= wc /\ Tbl(b).write_count # wc
                 /\ Fewer(Tbl(b).block_state, ni.block_state)
      <4>1. Tbl(b).write_count \in Nat
        BY TableType DEF Tbl, InfoTable
      <4>2. Tbl(b).write_count <= ni.write_count
        BY <3>1
      <4>3. Tbl(b).write_count <= wc /\ Tbl(b).write_count # wc
        BY SMTT(30), <2>2, <2>3, <4>1, <4>2
      <4>. QED
        BY <3>1, <4>3 DEF Fewer
    <3>3. \A b \in TablesOnChip' :
               /\ Tbl(b)'.write_count <= ni'.info_table_cache.write_count
               /\ Tbl(b)'.write_count = ni'.info_table_cache.write_count
                    => Tbl(b)' = ni'.info_table_cache
               /\ Fewer(Tbl(b)'.block_state, ni'.info_table_cache.block_state)
               /\ ni'.block_state[b] = GOOD
      BY <2>4, <2>5, <3>1, <3>2
    <3>4. Fewer(ni'.info_table_cache.block_state, ni'.block_state)
      BY <2>4 DEF Fewer
    <3>. QED
      BY <2>4, <3>3, <3>4 DEF Knows, Fewer
  <2>8. ASSUME NEW hi \in 0 .. BlockCount, NoneFree(hi)
        PROVE  Unavailable(ni'.info_table_cache.block_state, oob', hi)
    <3>1. hi \in Int /\ hi <= hi /\ hi <= BlockCount
      BY SMTT(30), GeometryAssumption
    <3>2. Fewer(c.block_state, ni.block_state)
      BY DEF Knows
    <3>. QED
      BY <2>4, <2>8, <3>1, <3>2, <1>UnavailableKept DEF NoneFree
  <2>. QED
    BY <2>6, <2>7, <2>8

  \* nmbm_rebuild_info_table is called when no table is left
<1>CallRebuildRecord.
    ASSUME lv \in Locals, NEW n \in Instance, NEW ret, CallRebuild(n, ret), Mappings', Knows',
           TablesOnChip' = {}
    PROVE  Session'
  <2>. USE <1>CallRebuildRecord
  <2>1. MgmtStart \in Nat /\ MgmtStart >= 1 /\ n.mapping_blocks_top_ba \in Nat
    BY SMTT(30), GeometryAssumption DEF Instance, Blocks
  <2>2. /\ ni' = [n EXCEPT !.main_table_ba = 0, !.backup_table_ba = 0,
                           !.mapping_blocks_ba = n.mapping_blocks_top_ba]
        /\ lv' = [CallWrite(lv, MgmtStart, n.mapping_blocks_top_ba, "reb_main")
                    EXCEPT !.bret = ret]
        /\ pc' = "write"
    BY DEF CallRebuild
  <2>3. /\ ni'.main_table_ba = 0 /\ ni'.backup_table_ba = 0
        /\ ni'.mapping_blocks_ba = n.mapping_blocks_top_ba
        /\ ni'.mapping_blocks_top_ba = n.mapping_blocks_top_ba
    BY <2>2 DEF Instance
  <2>4. /\ lv'.ba = MgmtStart /\ lv'.limit = n.mapping_blocks_top_ba
        /\ lv'.ret = "reb_main"
    BY <2>2 DEF CallWrite, Locals
  <2>5. Regions'
    <3>1. n.mapping_blocks_top_ba <= n.mapping_blocks_top_ba
      BY SMTT(30), <2>1
    <3>. QED
      BY <2>3, <3>1 DEF Regions
  <2>6. From("reb_main", lv.ba)' /\ UpTo("reb_main", lv.limit)'
    BY <2>3, <2>4 DEF From, UpTo
  <2>7. Unavailable(ni'.info_table_cache.block_state, oob', MgmtStart)
    BY SMTT(30), <2>1 DEF Unavailable
  <2>8. Safe("reb_main")' \subseteq TablesOnChip'
    BY DEF Safe
  <2>. QED
    BY <2>2, <2>3, <2>4, <2>5, <2>6, <2>7, <2>8, <1>EntersWriteRecord DEF AfterWrite, WritesMain

  \* The label write_main_table: the main table is written again over itself
<1>WriteMainRecord.
    ASSUME lv \in Locals, NEW n \in Instance, WriteMainTable(n), Mappings', Knows',
           TablesOnChip' = Tables({n.main_table_ba, n.backup_table_ba}),
           n.main_table_ba # 0 => n.main_table_ba < n.mapping_blocks_ba,
           n.backup_table_ba # 0 => /\ n.main_table_ba # 0
                                    /\ n.main_table_ba < n.backup_table_ba
                                    /\ n.backup_table_ba < n.mapping_blocks_ba,
           n.mapping_blocks_ba <= n.mapping_blocks_top_ba,
           Unavailable(ni'.info_table_cache.block_state, oob', n.main_table_ba)
    PROVE  Session'
  <2>. USE <1>WriteMainRecord
  <2>1. CASE n.main_table_ba = 0
    <3>1. CallRebuild(n, "upd_ret")
      BY <2>1 DEF WriteMainTable
    <3>2. TablesOnChip' = {}
      BY <2>1 DEF Tables
    <3>. QED
      BY <3>1, <3>2, <1>CallRebuildRecord
  <2>2. CASE n.main_table_ba # 0
    <3>1. PICK m, k, limit : /\ m = n.main_table_ba /\ k = n.backup_table_ba
                             /\ limit = IF k = 0 THEN n.mapping_blocks_top_ba ELSE k
      OBVIOUS
    <3>2. ni' = n /\ lv' = CallWrite(lv, m, limit, "upd_main") /\ pc' = "write"
      BY <2>2, <3>1 DEF WriteMainTable, WriteNext
    <3>3. lv'.ba = m /\ lv'.limit = limit /\ lv'.ret = "upd_main"
      BY <3>2 DEF CallWrite, Locals
    <3>4. Regions'
      BY <3>2 DEF Regions
    <3>5. m \in Blocks /\ k \in Blocks /\ m <= m
      <4>1. m \in Blocks /\ k \in Blocks
        BY <3>1 DEF Instance
      <4>. QED
        BY SMTT(30), <4>1, GeometryAssumption DEF Blocks
    <3>6. From("upd_main", lv.ba)' /\ UpTo("upd_main", lv.limit)'
      BY <3>1, <3>2, <3>3, <3>5 DEF From, UpTo
    <3>7. /\ Safe("upd_main")' = Tables({k}) /\ m \in Replaced("upd_main")'
      BY <2>2, <3>1, <3>2, <3>5 DEF Safe, Replaced, Tables
    <3>8. /\ Safe("upd_main")' \subseteq TablesOnChip'
          /\ \A b \in TablesOnChip' :
               b \in Safe("upd_main")' \/ (b \in Replaced("upd_main")' /\ lv'.ba <= b)
      BY <3>1, <3>3, <3>5, <3>7 DEF Tables
    <3>. QED
      BY <2>2, <3>1, <3>2, <3>3, <3>4, <3>6, <3>8, <1>EntersWriteRecord DEF AfterWrite, WritesMain
  <2>. QED
    BY <2>1, <2>2

  \* A step between two uses of the loops that leaves tables and instance alone
<1>IdleRecord.
    ASSUME IInv, Session, pc \in Between, pc' \in Between, UNCHANGED <<flash, oob, ni>>,
           op'.pb = op.pb \/ op'.pb = 0
    PROVE  Session'
  <2>. USE <1>IdleRecord
  <2>. TypeOK /\ Mappings /\ Knows
    BY DEF IInv, Session
  <2>1. /\ SigBlocks' = SigBlocks /\ TablesOnChip' = TablesOnChip
        /\ \A b \in TablesOnChip' : Tbl(b)' = Tbl(b)
    BY SameChip
  <2>2. 0 \notin MgmtStart .. ni.mapping_blocks_top_ba
    BY SMTT(30), GeometryAssumption, Addresses
  <2>3. Mappings'
    BY <2>1, <2>2 DEF Mappings, Apart, Clear
  <2>4. Knows'
    BY <2>1, <1>KnowsStays
  <2>5. Regions'
    BY DEF Session, Regions
  <2>6. TablesOnChip' = Tables({ni'.main_table_ba, ni'.backup_table_ba})
    BY <2>1, BetweenFacts
  <2>7. Unavailable(ni'.info_table_cache.block_state, oob', ni'.main_table_ba)
    BY BetweenFacts DEF NoneFree
  <2>. QED
    BY <2>3, <2>4, <2>5, <2>6, <2>7, <1>SettlesRecord

  \* nmbm_update_info_table: what is left to do
<1>UpdateRecord.
    ASSUME IInv, Session, UpdateDone \/ UpdateOnce \/ UpdateOnceReturns, op' = op
    PROVE  Session'
  <2>. USE <1>UpdateRecord
  <2>. TypeOK /\ ReturnLabels /\ Mappings /\ Knows
    BY DEF IInv, Session
  <2>0. pc \in {"update", "upd_ret"} /\ UNCHANGED <<flash, oob>>
    BY DEF UpdateDone, UpdateOnce, UpdateOnceReturns
  <2>1. pc \in Between /\ lv.uret \in Between /\ "update" \in Between
    BY <2>0, <1>ReturnsBetween DEF ReturnLabels
  <2>2. CASE UpdateDone \/ UpdateOnceReturns
    <3>1. ni' = ni /\ pc' \in {"update", lv.uret}
      BY <2>2 DEF UpdateDone, UpdateOnceReturns, ReturnTo
    <3>. QED
      BY <2>0, <2>1, <3>1, <1>IdleRecord
  <2>3. CASE UpdateOnce
    <3>1. PICK m, k, mb, top, n :
            /\ m = ni.main_table_ba /\ k = ni.backup_table_ba /\ mb = ni.mapping_blocks_ba
            /\ top = ni.mapping_blocks_top_ba /\ n = Generate(ni)
      OBVIOUS
    <3>2. /\ ni.changed
          /\ IF n.backup_table_ba = 0
             THEN WriteMainTable(n)
             ELSE WriteNext(n, n.backup_table_ba, n.mapping_blocks_top_ba, "upd_backup")
      BY <2>3, <3>1 DEF UpdateOnce
    <3>3. lv \in Locals /\ ni \in Instance
      BY DEF TypeOK
    <3>4. /\ n \in Instance /\ n.main_table_ba = m /\ n.backup_table_ba = k
          /\ n.mapping_blocks_ba = mb /\ n.mapping_blocks_top_ba = top
      BY <3>1, <3>3, GenerateType
    <3>5. /\ m # 0 => m < mb
          /\ k # 0 => m # 0 /\ m < k /\ k < mb
          /\ mb <= top /\ TablesOnChip = Tables({m, k}) /\ NoneFree(m)
          /\ m \in 0 .. BlockCount
      BY <2>1, <3>1, BetweenFacts
    <3>6. Relocated(Generate(ni), ni')
      <4>1. CASE ni' = n
        BY <3>1, <4>1 DEF Relocated
      <4>2. CASE CallRebuild(n, "upd_ret")
        <5>1. ni' = [n EXCEPT !.main_table_ba = 0, !.backup_table_ba = 0,
                              !.mapping_blocks_ba = n.mapping_blocks_top_ba]
          BY <4>2 DEF CallRebuild
        <5>. QED
          BY <3>1, <3>4, <5>1 DEF Relocated, Instance
      <4>. QED
        BY <3>2, <4>1, <4>2 DEF WriteMainTable, WriteNext
    <3>7. Mappings' /\ Knows' /\ Unavailable(ni'.info_table_cache.block_state, oob', m)
      BY <2>0, <3>2, <3>5, <3>6, <1>GenerateKeeps
    <3>8. TablesOnChip' = Tables({m, k})
      BY <2>0, <3>5, SameChip
    <3>9. CASE k = 0
      <4>1. WriteMainTable(n)
        BY <3>2, <3>4, <3>9
      <4>. QED
        BY <3>3, <3>4, <3>5, <3>7, <3>8, <4>1, <1>WriteMainRecord
    <3>10. CASE k # 0
      <4>1. ni' = n /\ lv' = CallWrite(lv, k, top, "upd_backup") /\ pc' = "write"
        BY <3>2, <3>4, <3>10 DEF WriteNext
      <4>2. lv'.ba = k /\ lv'.limit = top /\ lv'.ret = "upd_backup"
        BY <3>3, <4>1 DEF CallWrite, Locals
      <4>3. Regions'
        BY <3>4, <3>5, <4>1 DEF Regions
      <4>4. m \in Blocks /\ k \in Blocks /\ k <= k
        <5>1. m \in Blocks /\ k \in Blocks
          BY <3>1, <3>3 DEF Instance
        <5>. QED
          BY SMTT(30), <5>1, GeometryAssumption DEF Blocks
      <4>5. From("upd_backup", lv.ba)' /\ UpTo("upd_backup", lv.limit)'
        BY <3>4, <4>1, <4>2, <4>4 DEF From, UpTo
      <4>6. Safe("upd_backup")' = Tables({m}) /\ k \in Replaced("upd_backup")'
        BY <3>4, <3>10, <4>1, <4>4 DEF Safe, Replaced, Tables
      <4>7. /\ Safe("upd_backup")' \subseteq TablesOnChip'
            /\ \A b \in TablesOnChip' :
                 b \in Safe("upd_backup")' \/ (b \in Replaced("upd_backup")' /\ lv'.ba <= b)
        BY <3>8, <4>2, <4>4, <4>6 DEF Tables
      <4>. QED
        BY <3>4, <3>5, <3>7, <3>10, <4>1, <4>2, <4>3, <4>5, <4>7, <1>EntersWriteRecord
           DEF AfterWrite, WritesMain
    <3>. QED
      BY <3>9, <3>10
  <2>. QED
    BY <2>2, <2>3

  \* nmbm_update_info_table_once has written the backup table, or gave it up
<1>UpdateBackupRecord.
    ASSUME IInv, Session, UpdateBackupReturns, op' = op
    PROVE  Session'
  <2>. USE <1>UpdateBackupRecord
  <2>. TypeOK /\ ReturnLabels /\ Mappings /\ Knows
    BY DEF IInv, Session
  <2>0. pc = "upd_backup" /\ pc \in AfterWrite /\ UNCHANGED <<flash, oob>>
    BY DEF UpdateBackupReturns, AfterWrite
  <2>1. PICK m, k, mb, top, start, n :
          /\ m = ni.main_table_ba /\ k = ni.backup_table_ba /\ mb = ni.mapping_blocks_ba
          /\ top = ni.mapping_blocks_top_ba /\ start = lv.start
          /\ n = IF lv.ok
                 THEN [ni EXCEPT !.backup_table_ba = lv.start,
                                 !.mapping_blocks_ba = lv.start + 1,
                                 !.changed = FALSE]
                 ELSE [ni EXCEPT !.mapping_blocks_ba = ni.backup_table_ba,
                                 !.backup_table_ba = 0]
    OBVIOUS
  <2>2. /\ m \in Nat /\ k \in Nat /\ mb \in Nat /\ top \in Nat /\ start \in Nat
        /\ k # 0 /\ m # 0 /\ m < k /\ k < mb /\ mb <= top /\ NoneFree(m)
        /\ IF lv.ok THEN /\ start # 0 /\ start < top /\ k <= start
                         /\ TablesOnChip = Safe(pc) \cup {start}
                    ELSE TablesOnChip = Safe(pc)
    BY <2>0, <2>1, WriteReturned DEF From
  <2>3. TablesOnChip' = TablesOnChip /\ Safe(pc) = {m}
    BY <2>0, <2>1, <2>2, SameChip, SafeIs DEF Tables
  <2>4. lv \in Locals /\ ni \in Instance
    BY DEF TypeOK
  <2>5. WriteMainTable(n)
    BY <2>1 DEF UpdateBackupReturns
  <2>6. /\ Relocated(ni, n) /\ n.main_table_ba = m /\ n.mapping_blocks_top_ba = top
        /\ n.backup_table_ba = IF lv.ok THEN start ELSE 0
        /\ n.mapping_blocks_ba = IF lv.ok THEN start + 1 ELSE k
    <3>1. CASE lv.ok
      BY <2>1, <2>4, <3>1 DEF Relocated, Instance
    <3>2. CASE ~lv.ok
      BY <2>1, <2>4, <3>2 DEF Relocated, Instance
    <3>. QED
      BY <3>1, <3>2
  <2>7. /\ m < n.mapping_blocks_ba /\ n.mapping_blocks_ba <= top
        /\ n.backup_table_ba # 0 => m < n.backup_table_ba
                                    /\ n.backup_table_ba < n.mapping_blocks_ba
    BY SMTT(30), <2>2, <2>6
  <2>8. n \in Instance
    <3>1. /\ start \in Blocks /\ 0 \in Blocks /\ start + 1 \in 0 .. BlockCount
          /\ k \in Blocks /\ k \in 0 .. BlockCount
      BY <2>1, Addresses
    <3>2. FALSE \in BOOLEAN
      OBVIOUS
    <3>3. CASE lv.ok
      <4>1. n = [ni EXCEPT !.backup_table_ba = start, !.mapping_blocks_ba = start + 1,
                           !.changed = FALSE]
        BY <2>1, <3>3
      <4>. QED
        BY <2>4, <3>1, <3>2, <4>1 DEF Instance
    <3>4. CASE ~lv.ok
      <4>1. n = [ni EXCEPT !.mapping_blocks_ba = k, !.backup_table_ba = 0]
        BY <2>1, <3>4
      <4>. QED
        BY <2>4, <3>1, <4>1 DEF Instance
    <3>. QED
      BY <3>3, <3>4
  <2>9. ni' = n
    BY <2>2, <2>5, <2>6 DEF WriteMainTable, WriteNext
  <2>10. Mappings' /\ Knows' /\ Unavailable(ni'.info_table_cache.block_state, oob', m)
    BY <2>0, <2>2, <2>6, <2>9, <1>RelocatedKeeps
  <2>11. TablesOnChip' = Tables({n.main_table_ba, n.backup_table_ba})
    BY <2>2, <2>3, <2>6 DEF Tables
  <2>. QED
    BY <2>2, <2>4, <2>5, <2>6, <2>7, <2>8, <2>10, <2>11, <1>WriteMainRecord

  \* The loop ended at or above hi: no block below hi was free
<1>NoneFreeBelow.
    ASSUME TypeOK, NoneFree(lv.ba), NEW hi \in Nat, hi <= lv.ba
    PROVE  NoneFree(hi)
  <2>. USE <1>NoneFreeBelow
  <2>1. lv.ba <= BlockCount /\ hi \in Int /\ lv.ba \in Int
    BY SMTT(30), GeometryAssumption, Addresses
  <2>2. Fewer(ni.info_table_cache.block_state, ni.info_table_cache.block_state)
    BY DEF Fewer
  <2>. QED
    BY <2>1, <2>2, <1>UnavailableKept DEF NoneFree

  \* nmbm_rescue_main_info_table is left with the backup table alone
<1>BackupMainRecord.
    ASSUME IInv, Session, pc \in {"upd_main", "res_tmp"}, BackupBecomesMain,
           NoneFree(ni.backup_table_ba),
           UNCHANGED <<flash, oob>>, op' = op, ni.backup_table_ba # 0, ~lv.ok
    PROVE  Session'
  <2>. USE <1>BackupMainRecord
  <2>. TypeOK /\ ReturnLabels /\ Mappings /\ Knows
    BY DEF IInv, Session
  <2>1. PICK k, mb, top :
          k = ni.backup_table_ba /\ mb = ni.mapping_blocks_ba /\ top = ni.mapping_blocks_top_ba
    OBVIOUS
  <2>2. k # 0 /\ k < mb /\ mb <= top /\ TablesOnChip = Safe(pc) /\ NoneFree(k)
    BY <2>1, WriteReturned DEF AfterWrite
  <2>3. TablesOnChip' = {k}
    <3>1. TablesOnChip' = Safe(pc)
      BY <2>2, SameChip
    <3>2. Safe(pc) = Tables({k})
      BY <2>1, SafeIs
    <3>. QED
      BY <2>2, <3>1, <3>2 DEF Tables
  <2>4. ni \in Instance
    BY DEF TypeOK
  <2>5. /\ ni' = [ni EXCEPT !.main_table_ba = ni.backup_table_ba, !.backup_table_ba = 0]
        /\ pc' = "upd_ret"
    BY DEF BackupBecomesMain, ReturnTo
  <2>6. /\ Relocated(ni, ni') /\ ni'.main_table_ba = k /\ ni'.backup_table_ba = 0
        /\ ni'.mapping_blocks_ba = mb /\ ni'.mapping_blocks_top_ba = top
    BY <2>1, <2>4, <2>5 DEF Relocated, Instance
  <2>7. Mappings' /\ Knows' /\ Unavailable(ni'.info_table_cache.block_state, oob', k)
    BY <2>2, <2>6, <1>RelocatedKeeps
  <2>8. Regions'
    BY <2>2, <2>6 DEF Regions
  <2>9. TablesOnChip' = Tables({ni'.main_table_ba, ni'.backup_table_ba})
    BY <2>2, <2>3, <2>6 DEF Tables
  <2>. QED
    BY <2>5, <2>6, <2>7, <2>8, <2>9, <1>ReturnsBetween, <1>SettlesRecord

  \* nmbm_rescue_main_info_table writes the temporary table, in block b or above
<1>WritesTmpRecord.
    ASSUME IInv, Session, pc \in {"upd_main", "res_tmp"}, NoneFree(ni.backup_table_ba),
           UNCHANGED <<flash, oob, ni>>, op' = op, ni.backup_table_ba # 0, ~lv.ok,
           NEW b, ni.mapping_blocks_ba <= b, pc' = "write",
           lv' = [CallWrite(lv, b, ni.mapping_blocks_top_ba, "res_tmp") EXCEPT !.write_ba = b]
    PROVE  Session'
  <2>. USE <1>WritesTmpRecord
  <2>. TypeOK /\ ReturnLabels /\ Mappings /\ Knows
    BY DEF IInv, Session
  <2>1. PICK m, k, top :
          m = ni.main_table_ba /\ k = ni.backup_table_ba /\ top = ni.mapping_blocks_top_ba
    OBVIOUS
  <2>2. k # 0 /\ m # 0 /\ TablesOnChip = Safe(pc) /\ NoneFree(k) /\ NoneFree(m)
    BY <2>1, WriteReturned DEF AfterWrite
  <2>3. TablesOnChip' = {k}
    BY <2>1, <2>2, SameChip, SafeIs DEF Tables
  <2>4. lv \in Locals /\ ni \in Instance
    BY DEF TypeOK
  <2>5. /\ Mappings' /\ Knows' /\ Unavailable(ni'.info_table_cache.block_state, oob', k)
        /\ Unavailable(ni'.info_table_cache.block_state, oob', m)
    BY <2>2, <1>RelocatedKeeps DEF Relocated
  <2>6. Regions'
    BY DEF Session, Regions
  <2>7. lv'.ba = b /\ lv'.limit = top /\ lv'.ret = "res_tmp"
    BY <2>1, <2>4 DEF CallWrite, Locals
  <2>8. From("res_tmp", lv.ba)' /\ UpTo("res_tmp", lv.limit)'
    BY <2>1, <2>7 DEF From, UpTo
  <2>9. k \in Blocks
    BY <2>1, <2>4 DEF Instance
  <2>10. k \in Safe("res_tmp")' /\ \A x \in Safe("res_tmp")' : x = k
    BY <2>1, <2>2, <2>9 DEF Safe
  <2>. QED
    BY <2>1, <2>2, <2>3, <2>5, <2>6, <2>7, <2>8, <2>10, <1>EntersWriteRecord
       DEF AfterWrite, WritesMain

  \* nmbm_update_info_table_once has written the main table, or could not
<1>UpdateMainRecord.
    ASSUME IInv, Session, UpdateMainWritten \/ UpdateMainFailed \/ RescueMainTmpFailed, op' = op
    PROVE  Session'
  <2>. USE <1>UpdateMainRecord
  <2>. TypeOK /\ ReturnLabels /\ Mappings /\ Knows
    BY DEF IInv, Session
  <2>0. pc \in {"upd_main", "res_tmp"} /\ pc \in AfterWrite /\ UNCHANGED <<flash, oob>>
    BY DEF UpdateMainWritten, UpdateMainFailed, RescueMainTmpFailed, AfterWrite
  <2>1. PICK m, k, mb, top, start, ba :
          /\ m = ni.main_table_ba /\ k = ni.backup_table_ba /\ mb = ni.mapping_blocks_ba
          /\ top = ni.mapping_blocks_top_ba /\ start = lv.start /\ ba = lv.ba
    OBVIOUS
  <2>2. /\ m \in Nat /\ k \in Nat /\ mb \in Nat /\ top \in Nat /\ start \in Nat /\ ba \in Nat
        /\ m # 0 /\ mb <= top /\ (k # 0 => m < k /\ k < mb) /\ lv.write_ba \in Nat
        /\ IF lv.ok THEN /\ start # 0 /\ start = ba /\ start < lv.limit /\ start < top
                         /\ TablesOnChip = Safe(pc) \cup {start}
                    ELSE lv.limit <= ba /\ TablesOnChip = Safe(pc)
        /\ UpTo(pc, lv.limit)
        /\ pc = "upd_main" => NoneFree(ba)
        /\ pc = "res_tmp" => NoneFree(k) /\ k # 0
    BY <2>0, <2>1, WriteReturned DEF WritesMain
  <2>3. TablesOnChip' = TablesOnChip /\ Safe(pc) = Tables({k})
    BY <2>0, <2>1, SameChip, SafeIs
  <2>4. lv \in Locals /\ ni \in Instance
    BY DEF TypeOK
  <2>5. CASE UpdateMainWritten
    <3>1. /\ pc = "upd_main" /\ lv.ok /\ pc' = "upd_ret"
          /\ ni' = [ni EXCEPT !.main_table_ba = lv.start,
                              !.mapping_blocks_ba = IF ni.backup_table_ba = 0
                                                    THEN lv.start + 1 ELSE @,
                              !.changed = FALSE]
      BY <2>5 DEF UpdateMainWritten, ReturnTo
    <3>2. /\ Relocated(ni, ni') /\ ni'.main_table_ba = start /\ ni'.backup_table_ba = k
          /\ ni'.mapping_blocks_ba = IF k = 0 THEN start + 1 ELSE mb
          /\ ni'.mapping_blocks_top_ba = top
      BY <2>1, <2>4, <3>1 DEF Relocated, Instance
    <3>3. k # 0 => start < k
      BY <2>1, <2>2, <3>1 DEF UpTo
    <3>4. /\ start < IF k = 0 THEN start + 1 ELSE mb
          /\ (IF k = 0 THEN start + 1 ELSE mb) <= top
      BY SMTT(30), <2>2, <3>1, <3>3
    <3>5. Mappings' /\ Knows' /\ Unavailable(ni'.info_table_cache.block_state, oob', start)
      BY <2>0, <2>2, <3>1, <3>2, <1>RelocatedKeeps
    <3>6. Regions'
      BY <2>2, <3>1, <3>2, <3>3, <3>4 DEF Regions
    <3>7. TablesOnChip' = Tables({ni'.main_table_ba, ni'.backup_table_ba})
      BY <2>2, <2>3, <3>1, <3>2 DEF Tables
    <3>. QED
      BY <3>1, <3>2, <3>5, <3>6, <3>7, <1>ReturnsBetween, <1>SettlesRecord
  <2>6. CASE UpdateMainFailed
    <3>1. pc = "upd_main" /\ ~lv.ok
      BY <2>6 DEF UpdateMainFailed
    <3>2. k # 0 => NoneFree(k)
      <4>1. k # 0 => k <= lv.ba
        BY <2>1, <2>2, <3>1 DEF UpTo
      <4>. QED
        BY <2>1, <2>2, <3>1, <4>1, <1>NoneFreeBelow
    <3>3. CASE k = 0 /\ CallRebuild(ni, "upd_ret")
      <4>1. TablesOnChip' = {}
        BY <2>2, <2>3, <3>1, <3>3 DEF Tables
      <4>2. ni' = [ni EXCEPT !.main_table_ba = 0, !.backup_table_ba = 0,
                             !.mapping_blocks_ba = ni.mapping_blocks_top_ba]
        BY <3>3 DEF CallRebuild
      <4>3. Relocated(ni, ni')
        BY <2>4, <4>2 DEF Relocated, Instance
      <4>4. Mappings' /\ Knows'
        BY <2>0, <4>3, <1>RelocatedKeeps
      <4>. QED
        BY <2>4, <3>3, <4>1, <4>4, <1>CallRebuildRecord
    <3>4. ASSUME k # 0, pc' = "write", ni' = ni, NEW b \in Blocks,
                 Reserve(ni, ni.mapping_blocks_ba, ni.mapping_blocks_top_ba - 1, b),
                 lv' = [CallWrite(lv, b, ni.mapping_blocks_top_ba, "res_tmp")
                          EXCEPT !.write_ba = b]
          PROVE  Session'
      <4>1. mb \in Int /\ top - 1 \in Int
        BY SMTT(30), <2>2
      <4>2. mb <= b
        BY <2>1, <3>4, <4>1, ReserveInRange
      <4>. QED
        BY <2>0, <2>1, <3>1, <3>2, <3>4, <4>2, <1>WritesTmpRecord
    <3>5. CASE k # 0 /\ BackupBecomesMain
      BY <2>0, <2>1, <3>1, <3>2, <3>5, <1>BackupMainRecord
    <3>. QED
      BY <2>1, <2>6, <3>3, <3>4, <3>5 DEF UpdateMainFailed
  <2>7. CASE RescueMainTmpFailed
    <3>1. pc = "res_tmp" /\ ~lv.ok /\ k # 0 /\ NoneFree(k)
      BY <2>2, <2>7 DEF RescueMainTmpFailed
    <3>2. CASE RetryLower("res_tmp")
      <4>1. lv.write_ba - 1 >= mb
        BY <2>1, <3>2 DEF RetryLower
      <4>2. mb <= lv.write_ba - 1
        BY SMTT(30), <2>2, <4>1
      <4>3. PICK b : b = lv.write_ba - 1
        OBVIOUS
      <4>4. /\ pc' = "write" /\ ni' = ni
            /\ lv' = [CallWrite(lv, b, ni.mapping_blocks_top_ba, "res_tmp")
                        EXCEPT !.write_ba = b]
        BY <3>2, <4>3 DEF RetryLower
      <4>. QED
        BY <2>0, <2>1, <3>1, <4>2, <4>3, <4>4, <1>WritesTmpRecord
    <3>3. CASE BackupBecomesMain
      BY <2>0, <2>1, <3>1, <3>3, <1>BackupMainRecord
    <3>. QED
      BY <2>7, <3>2, <3>3 DEF RescueMainTmpFailed
  <2>. QED
    BY <2>5, <2>6, <2>7

  \* nmbm_rescue_main_info_table: the temporary table becomes the backup table
<1>RescueMainRecord.
    ASSUME IInv, Session, RescueMainTmpWritten \/ RescueMainReturns, op' = op
    PROVE  Session'
  <2>. USE <1>RescueMainRecord
  <2>. TypeOK /\ ReturnLabels /\ Mappings /\ Knows
    BY DEF IInv, Session
  <2>0. pc \in {"res_tmp", "res_main"} /\ pc \in AfterWrite /\ UNCHANGED <<flash, oob>>
    BY DEF RescueMainTmpWritten, RescueMainReturns, AfterWrite
  <2>1. PICK m, k, mb, top, start, ba, tmp :
          /\ m = ni.main_table_ba /\ k = ni.backup_table_ba /\ mb = ni.mapping_blocks_ba
          /\ top = ni.mapping_blocks_top_ba /\ start = lv.start /\ ba = lv.ba /\ tmp = lv.tmp
    OBVIOUS
  <2>2. /\ m \in Nat /\ k \in Nat /\ mb \in Nat /\ top \in Nat /\ start \in Nat /\ ba \in Nat
        /\ tmp \in Nat /\ MgmtStart \in Nat /\ MgmtStart <= m
        /\ m # 0 /\ k # 0 /\ m < k /\ k < mb /\ mb <= top
        /\ IF lv.ok THEN /\ start # 0 /\ start = ba /\ start < lv.limit /\ start < top
                         /\ TablesOnChip = Safe(pc) \cup {start}
                    ELSE lv.limit <= ba /\ TablesOnChip = Safe(pc)
        /\ From(pc, ba) /\ UpTo(pc, lv.limit)
        /\ pc = "res_main" => tmp = mb - 1 /\ k < tmp /\ NoneFree(ba)
        /\ NoneFree(k) /\ NoneFree(m)
    BY <2>0, <2>1, WriteReturned DEF WritesMain
  <2>3. TablesOnChip' = TablesOnChip
    BY <2>0, SameChip
  <2>4. lv \in Locals /\ ni \in Instance
    BY DEF TypeOK
  <2>5. CASE RescueMainTmpWritten
    <3>1. /\ pc = "res_tmp" /\ lv.ok /\ pc' = "write"
          /\ ni' = [ni EXCEPT !.mapping_blocks_ba = lv.start + 1]
          /\ lv' = [CallWrite(lv, MgmtStart, lv.start, "res_main") EXCEPT !.tmp = lv.start]
      BY <2>5 DEF RescueMainTmpWritten
    <3>2. /\ Relocated(ni, ni') /\ ni'.main_table_ba = m /\ ni'.backup_table_ba = k
          /\ ni'.mapping_blocks_ba = start + 1 /\ ni'.mapping_blocks_top_ba = top
      BY <2>1, <2>4, <3>1 DEF Relocated, Instance
    <3>3. /\ lv'.ba = MgmtStart /\ lv'.limit = start /\ lv'.ret = "res_main"
          /\ lv'.tmp = start
      BY <2>1, <2>4, <3>1 DEF CallWrite, Locals
    <3>4. mb <= start /\ Safe(pc) = {k}
      BY <2>1, <2>2, <3>1, SafeIs DEF From, Tables
    <3>5. /\ k < start /\ k < start + 1 /\ m < start + 1
          /\ start + 1 <= top /\ MgmtStart <= k
      BY SMTT(30), <2>2, <3>1, <3>4
    <3>6. /\ Mappings' /\ Knows' /\ Unavailable(ni'.info_table_cache.block_state, oob', k)
          /\ Unavailable(ni'.info_table_cache.block_state, oob', m)
      BY <2>0, <2>2, <3>2, <1>RelocatedKeeps
    <3>7. Unavailable(ni'.info_table_cache.block_state, oob', MgmtStart)
      BY SMTT(30), <2>2 DEF Unavailable
    <3>8. Regions'
      BY <2>2, <3>2, <3>5 DEF Regions
    <3>9. From("res_main", lv.ba)' /\ UpTo("res_main", lv.limit)'
      BY <3>3 DEF From, UpTo
    <3>10. k \in Blocks /\ start \in Blocks
      BY <2>1, <2>4 DEF Instance, Locals
    <3>11. /\ start \in Safe("res_main")' /\ \A x \in Safe("res_main")' : x = start
           /\ k \in Replaced("res_main")'
      BY <2>2, <3>1, <3>2, <3>3, <3>10 DEF Safe, Replaced
    <3>12. TablesOnChip' = {k, start}
      BY <2>2, <2>3, <3>1, <3>4
    <3>13. /\ Safe("res_main")' \subseteq TablesOnChip'
           /\ \A b \in TablesOnChip' :
                b \in Safe("res_main")' \/ (b \in Replaced("res_main")' /\ lv'.ba <= b)
      BY <3>3, <3>5, <3>11, <3>12
    <3>14. /\ "res_main" \in AfterWrite
           /\ ni'.main_table_ba # 0 /\ ni'.backup_table_ba # 0
           /\ lv'.tmp = ni'.mapping_blocks_ba - 1 /\ ni'.backup_table_ba < lv'.tmp
      BY SMTT(30), <2>2, <3>2, <3>3, <3>5 DEF AfterWrite
    <3>15. /\ Unavailable(ni'.info_table_cache.block_state, oob', lv'.ba)
           /\ Unavailable(ni'.info_table_cache.block_state, oob', ni'.backup_table_ba)
           /\ Unavailable(ni'.info_table_cache.block_state, oob', ni'.main_table_ba)
      BY <3>2, <3>3, <3>6, <3>7
    <3>. QED
      BY <3>1, <3>3, <3>6, <3>8, <3>9, <3>13, <3>14, <3>15, <1>EntersWriteRecord
  <2>6. CASE RescueMainReturns
    <3>1. /\ pc = "res_main" /\ pc' = "upd_ret"
          /\ ni' = [ni EXCEPT !.main_table_ba = IF lv.ok THEN lv.start ELSE lv.tmp,
                              !.backup_table_ba = IF lv.ok THEN lv.tmp ELSE 0,
                              !.changed = FALSE]
      BY <2>6 DEF RescueMainReturns, ReturnTo
    <3>2. /\ Relocated(ni, ni') /\ ni'.main_table_ba = IF lv.ok THEN start ELSE tmp
          /\ ni'.backup_table_ba = IF lv.ok THEN tmp ELSE 0
          /\ ni'.mapping_blocks_ba = mb /\ ni'.mapping_blocks_top_ba = top
      BY <2>1, <2>4, <3>1 DEF Relocated, Instance
    <3>3. lv.limit = tmp /\ tmp = mb - 1 /\ k < tmp
      BY <2>1, <2>2, <3>1 DEF UpTo
    <3>4. /\ tmp # 0 /\ tmp < mb /\ (lv.ok => start < tmp /\ start < mb)
      BY SMTT(30), <2>2, <3>3
    <3>5. Safe(pc) = {tmp}
      BY <2>1, <3>1, <3>4, SafeIs DEF Tables
    <3>6. NoneFree(IF lv.ok THEN start ELSE tmp)
      <4>1. ~lv.ok => NoneFree(tmp)
        BY <2>1, <2>2, <3>1, <3>3, <1>NoneFreeBelow
      <4>. QED
        BY <2>2, <3>1, <4>1
    <3>7. /\ Mappings' /\ Knows'
          /\ Unavailable(ni'.info_table_cache.block_state, oob', ni'.main_table_ba)
      BY <2>0, <3>2, <3>6, <1>RelocatedKeeps
    <3>8. Regions'
      BY <2>2, <3>2, <3>4 DEF Regions
    <3>9. TablesOnChip' = Tables({ni'.main_table_ba, ni'.backup_table_ba})
      BY <2>2, <2>3, <3>2, <3>4, <3>5 DEF Tables
    <3>. QED
      BY <3>1, <3>7, <3>8, <3>9, <1>ReturnsBetween, <1>SettlesRecord
  <2>. QED
    BY <2>5, <2>6

  \* The procedures that decide where the tables go keep the record
<1>TableStepRecord.
    ASSUME IInv, Chip, Session, TableStep, op' = op
    PROVE  Chip' /\ Session'
  <2>. USE <1>TableStepRecord
  <2>1. UNCHANGED <<flash, oob>>
    BY DEF TableStep, RebuildMainWritten, RebuildMainFailed, RebuildBackupWritten,
           RebuildBackupFailed, RescueSingleFront, RescueSingleBehind, RescueSingleRetry,
           RescueSingleWritten, RescueSingleErased, UpdateSingleMain, UpdateSingleBackup,
           UpdateDone, UpdateOnce, UpdateBackupReturns, UpdateMainWritten, UpdateMainFailed,
           RescueMainTmpFailed, RescueMainTmpWritten, RescueMainReturns, UpdateOnceReturns
  <2>2. Chip'
    BY <2>1, SameChip
  <2>. QED
    BY <2>2, <1>RebuildMainRecord, <1>RebuildBackupRecord, <1>RescueFrontRecord,
       <1>RescueBackRecord, <1>RescueErasedRecord, <1>UpdateSingleRecord, <1>UpdateRecord,
       <1>UpdateBackupRecord, <1>UpdateMainRecord, <1>RescueMainRecord DEF TableStep

  (* The logical operations                                                   *)

  \* A step that leaves the tables where they are
<1>LogicRecord.
    ASSUME IInv, Chip, Session, pc \in Between, pc' \in Between, oob \subseteq oob',
           SigBlocks' = SigBlocks, TablesOnChip' = TablesOnChip,
           \A b \in TablesOnChip : Tbl(b)' = Tbl(b),
           NEW top \in Int, ni'.mapping_blocks_top_ba = top,
           ni.mapping_blocks_ba <= top, top <= ni.mapping_blocks_top_ba,
           ni'.main_table_ba = ni.main_table_ba, ni'.backup_table_ba = ni.backup_table_ba,
           ni'.mapping_blocks_ba = ni.mapping_blocks_ba,
           ni'.signature_ba = ni.signature_ba, ni'.write_count = ni.write_count,
           ni'.info_table_cache = ni.info_table_cache,
           Clear(ni'.block_mapping, top),
           \A lb \in Logical : ni'.block_mapping[lb] # ni.signature_ba,
           op'.pb \notin MgmtStart .. top,
           Fewer(ni.block_state, ni'.block_state),
           \A b \in MgmtStart .. top : ni'.block_state[b] = ni.block_state[b],
           \A b \in TablesOnChip : ni'.block_state[b] = ni.block_state[b]
    PROVE  Chip' /\ Session'
  <2>. USE <1>LogicRecord
  <2>. TypeOK /\ Mappings /\ Knows
    BY DEF IInv, Session
  <2>1. Chip'
    BY ChipShrinks
  <2>2. \A b \in MgmtStart .. top : b \in MgmtStart .. ni.mapping_blocks_top_ba
    BY SMTT(30), GeometryAssumption, Addresses
  <2>3. Mappings'
    <3>1. Clear(ni.info_table_cache.block_mapping, top)
      BY <2>2 DEF Mappings, Apart, Clear
    <3>. QED
      BY <3>1 DEF Mappings, Apart, Clear
  <2>4. Knows'
    <3>1. \A b \in TablesOnChip' : Tbl(b)' = Tbl(b) /\ ni'.block_state[b] = GOOD
      BY DEF Knows
    <3>. QED
      BY <3>1, <1>KnowsKept
  <2>5. Regions'
    BY DEF Session, Regions
  <2>6. TablesOnChip' = Tables({ni'.main_table_ba, ni'.backup_table_ba})
    BY BetweenFacts
  <2>7. Unavailable(ni'.info_table_cache.block_state, oob', ni'.main_table_ba)
    <3>1. NoneFree(ni.main_table_ba)
      BY BetweenFacts
    <3>. QED
      BY <3>1 DEF NoneFree, Unavailable
  <2>. QED
    BY <2>1, <2>3, <2>4, <2>5, <2>6, <2>7, <1>SettlesRecord

  \* The block of a logic block changes: it is erased, programmed, found bad or
  \* given a bad mark
<1>HomeChanges.
    ASSUME IInv, Chip, Session, pc \in Between, pc' \in Between,
           NEW lb \in Logical, NEW h, h = Home(lb), h # -1,
           oob' \in {oob, oob \cup {h}}, op'.pb \in {0, op.pb, h},
           flash' = flash \/ (\E c : flash' = [flash EXCEPT ![h] = c]
                                      /\ c.kind \notin {"sig", "table"}),
           NEW n,
           n = ni \/ n = [ni EXCEPT !.block_mapping = [ni.block_mapping EXCEPT ![lb] = -1]],
           ni' = n \/ \E st \in {BAD, NEED_REMAP} : ni' = SetState(n, h, st)
    PROVE  Chip' /\ Session'
  <2>. USE <1>HomeChanges
  <2>. TypeOK /\ Mappings
    BY DEF IInv, Session
  <2>1. /\ h \in Blocks /\ h \notin SigBlocks /\ h \notin TablesOnChip
        /\ h \notin MgmtStart .. ni.mapping_blocks_top_ba
    BY HomeApart
  <2>2. /\ SigBlocks' = SigBlocks /\ TablesOnChip' = TablesOnChip
        /\ \A b \in TablesOnChip' : Tbl(b)' = Tbl(b)
    <3>1. flash \in [Blocks -> Content] /\ \A b \in Blocks : b # h => flash'[b] = flash[b]
      BY <2>1 DEF TypeOK
    <3>2. /\ \A b \in Blocks : b \in SigBlocks' <=> b \in SigBlocks
          /\ \A b \in Blocks : b \in TablesOnChip' <=> b \in TablesOnChip
      <4>1. ASSUME NEW b \in Blocks, b # h
            PROVE  (b \in oob' <=> b \in oob) /\ flash'[b] = flash[b]
        BY <3>1, <4>1
      <4>2. h \in oob \/ flash[h].kind \notin {"sig", "table"}
        BY <2>1 DEF SigBlocks, TablesOnChip
      <4>3. h \in oob' \/ flash'[h].kind \notin {"sig", "table"}
        BY <2>1, <3>1, <4>2
      <4>. QED
        BY <4>1, <4>2, <4>3 DEF SigBlocks, TablesOnChip
    <3>3. SigBlocks' = SigBlocks /\ TablesOnChip' = TablesOnChip
      BY <3>2 DEF SigBlocks, TablesOnChip
    <3>. QED
      BY <2>1, <3>1, <3>3 DEF Tbl, TablesOnChip
  <2>3. ni \in Instance /\ ni.block_mapping \in [Logical -> Blocks \cup {-1}]
    BY DEF TypeOK, Instance, MappingTable
  <2>4. /\ n.main_table_ba = ni.main_table_ba /\ n.backup_table_ba = ni.backup_table_ba
        /\ n.mapping_blocks_ba = ni.mapping_blocks_ba
        /\ n.mapping_blocks_top_ba = ni.mapping_blocks_top_ba
        /\ n.signature_ba = ni.signature_ba /\ n.write_count = ni.write_count
        /\ n.info_table_cache = ni.info_table_cache /\ n.block_state = ni.block_state
        /\ \/ n.block_mapping = ni.block_mapping
           \/ n.block_mapping = [ni.block_mapping EXCEPT ![lb] = -1]
        /\ n \in Instance
    <3>1. [ni.block_mapping EXCEPT ![lb] = -1] \in MappingTable
      BY <2>3 DEF MappingTable
    <3>. QED
      BY <2>3, <3>1 DEF Instance
  <2>5. /\ Alike(n, ni') /\ \A b \in Blocks : b # h => ni'.block_state[b] = ni.block_state[b]
        /\ ni.block_state[h] # GOOD => ni'.block_state[h] # GOOD
    <3>1. CASE ni' = n
      BY <2>4, <3>1 DEF Alike
    <3>2. ASSUME NEW st \in {BAD, NEED_REMAP}, ni' = SetState(n, h, st)
          PROVE  /\ Alike(n, ni')
                 /\ \A b \in Blocks : b # h => ni'.block_state[b] = ni.block_state[b]
                 /\ ni.block_state[h] # GOOD => ni'.block_state[h] # GOOD
      <4>1. st \in BlockState /\ st # GOOD
        BY DEF BlockState, BAD, NEED_REMAP, GOOD
      <4>2. h \in Blocks /\ n \in Instance
        BY <2>1, <2>4
      <4>3. /\ Alike(n, SetState(n, h, st)) /\ SetState(n, h, st).block_state[h] = st
            /\ \A b \in Blocks :
                 b # h => SetState(n, h, st).block_state[b] = n.block_state[b]
        BY <4>1, <4>2, <1>SetStateAlike
      <4>. QED
        BY <2>4, <3>2, <4>1, <4>3
    <3>. QED
      BY <2>4, <3>1, <3>2
  <2>6. PICK top : top = ni.mapping_blocks_top_ba
    OBVIOUS
  <2>7. top \in Int /\ ni.mapping_blocks_ba <= top /\ top <= top
    BY SMTT(30), <2>6, BetweenFacts
  <2>8. /\ Clear(ni'.block_mapping, top)
        /\ \A i \in Logical : ni'.block_mapping[i] # ni.signature_ba
    <3>1. /\ Clear(ni.block_mapping, top)
          /\ \A i \in Logical : ni.block_mapping[i] # ni.signature_ba
      BY <2>6 DEF Mappings, Apart
    <3>2. ni'.block_mapping = n.block_mapping
      BY <2>5 DEF Alike
    <3>3. CASE n.block_mapping = ni.block_mapping
      BY <3>1, <3>2, <3>3
    <3>4. CASE n.block_mapping = [ni.block_mapping EXCEPT ![lb] = -1]
      <4>1. \A i \in Logical :
              ni'.block_mapping[i] = IF i = lb THEN -1 ELSE ni.block_mapping[i]
        BY <2>3, <3>2, <3>4
      <4>2. -1 \notin MgmtStart .. top /\ -1 # ni.signature_ba
        BY SMTT(30), <2>7, GeometryAssumption, Addresses
      <4>. QED
        BY <3>1, <4>1, <4>2 DEF Clear
    <3>. QED
      BY <2>4, <3>3, <3>4
  <2>9. op'.pb \notin MgmtStart .. top
    <3>1. 0 \notin MgmtStart .. top
      BY SMTT(30), <2>7, GeometryAssumption
    <3>. QED
      BY <2>1, <2>6, <3>1 DEF Mappings
  <2>10. \A b \in Mgmt : b \in Blocks
    BY SMTT(30), GeometryAssumption DEF Mgmt, Blocks
  <2>11. \A b \in MgmtStart .. top : b \in Blocks /\ b # h
    <3>1. \A b \in MgmtStart .. top : b \in Blocks
      BY SMTT(30), <2>6, GeometryAssumption, Addresses DEF Blocks
    <3>. QED
      BY <2>1, <2>6, <3>1
  <2>12. Fewer(ni.block_state, ni'.block_state)
    BY <2>5, <2>10 DEF Fewer
  <2>13. \A b \in TablesOnChip : ni'.block_state[b] = ni.block_state[b]
    BY <2>1, <2>5 DEF TablesOnChip
  <2>14. /\ ni'.main_table_ba = ni.main_table_ba /\ ni'.backup_table_ba = ni.backup_table_ba
         /\ ni'.mapping_blocks_ba = ni.mapping_blocks_ba
         /\ ni'.mapping_blocks_top_ba = top
         /\ ni'.signature_ba = ni.signature_ba /\ ni'.write_count = ni.write_count
         /\ ni'.info_table_cache = ni.info_table_cache
    BY <2>4, <2>5, <2>6 DEF Alike
  <2>. QED
    BY <2>2, <2>5, <2>6, <2>7, <2>8, <2>9, <2>11, <2>12, <2>13, <2>14, <1>LogicRecord

  \* A logic block is mapped anew or given up: n is the instance before the state
  \* of the abandoned block is recorded
<1>RemapRecord.
    ASSUME IInv, Chip, Session, pc \in Between, pc' \in Between,
           UNCHANGED <<flash, oob>>, op' = op, NEW n \in Instance,
           n.block_state = ni.block_state, n.write_count = ni.write_count,
           n.info_table_cache = ni.info_table_cache, n.signature_ba = ni.signature_ba,
           n.main_table_ba = ni.main_table_ba, n.backup_table_ba = ni.backup_table_ba,
           n.mapping_blocks_ba = ni.mapping_blocks_ba,
           ni.mapping_blocks_ba <= n.mapping_blocks_top_ba,
           n.mapping_blocks_top_ba <= ni.mapping_blocks_top_ba,
           Clear(n.block_mapping, n.mapping_blocks_top_ba),
           \A lb \in Logical : n.block_mapping[lb] # ni.signature_ba,
           ni' = n \/ ni' = Abandon(n, op.pb)
    PROVE  Chip' /\ Session'
  <2>. USE <1>RemapRecord
  <2>. TypeOK /\ Mappings
    BY DEF IInv, Session
  <2>1. /\ SigBlocks' = SigBlocks /\ TablesOnChip' = TablesOnChip
        /\ \A b \in TablesOnChip' : Tbl(b)' = Tbl(b)
    BY SameChip
  <2>2. PICK x, top : x = op.pb /\ top = n.mapping_blocks_top_ba
    OBVIOUS
  <2>3. x \in Blocks /\ x \notin MgmtStart .. ni.mapping_blocks_top_ba
    BY <2>2 DEF Mappings, TypeOK
  <2>4. /\ Alike(n, ni') /\ \A b \in Blocks : b # x => ni'.block_state[b] = ni.block_state[b]
        /\ ni.block_state[x] # GOOD => ni'.block_state[x] # GOOD
    <3>1. CASE ni' = n
      BY <3>1 DEF Alike
    <3>2. CASE ni' = SetState(n, x, BAD)
      <4>1. BAD \in BlockState /\ BAD # GOOD
        BY DEF BlockState, BAD, GOOD
      <4>2. /\ Alike(n, SetState(n, x, BAD)) /\ SetState(n, x, BAD).block_state[x] = BAD
            /\ \A b \in Blocks :
                 b # x => SetState(n, x, BAD).block_state[b] = n.block_state[b]
        BY <2>3, <4>1, <1>SetStateAlike
      <4>. QED
        BY <3>2, <4>1, <4>2
    <3>. QED
      BY <2>2, <3>1, <3>2 DEF Abandon
  <2>5. top \in Int
    BY SMTT(30), <2>2, GeometryAssumption DEF Instance, Blocks
  <2>6. \A b \in MgmtStart .. top : b \in Blocks /\ b \in MgmtStart .. ni.mapping_blocks_top_ba
    BY SMTT(30), <2>2, <2>5, GeometryAssumption, Addresses DEF Blocks
  <2>7. \A b \in Mgmt : b \in Blocks
    BY SMTT(30), GeometryAssumption DEF Mgmt, Blocks
  <2>8. \A b \in TablesOnChip : b \in Blocks /\ b \in MgmtStart .. ni.mapping_blocks_top_ba
    BY TablesBelowTop
  <2>9. /\ Fewer(ni.block_state, ni'.block_state)
        /\ \A b \in MgmtStart .. top : ni'.block_state[b] = ni.block_state[b]
        /\ \A b \in TablesOnChip : ni'.block_state[b] = ni.block_state[b]
    BY <2>3, <2>4, <2>6, <2>7, <2>8 DEF Fewer
  <2>10. op'.pb \notin MgmtStart .. top
    BY <2>2, <2>3, <2>6
  <2>11. /\ ni'.main_table_ba = ni.main_table_ba /\ ni'.backup_table_ba = ni.backup_table_ba
         /\ ni'.mapping_blocks_ba = ni.mapping_blocks_ba
         /\ ni'.mapping_blocks_top_ba = top
         /\ ni'.signature_ba = ni.signature_ba /\ ni'.write_count = ni.write_count
         /\ ni'.info_table_cache = ni.info_table_cache
         /\ ni'.block_mapping = n.block_mapping
    BY <2>2, <2>4 DEF Alike
  <2>. QED
    BY <2>1, <2>2, <2>5, <2>9, <2>10, <2>11, <1>LogicRecord

  \* nmbm_map_block uses the topmost spare block
<1>MapsTopRecord.
    ASSUME IInv, Chip, Session, pc \in Between, pc' \in Between,
           UNCHANGED <<flash, oob>>, op' = op, NEW lb \in Logical,
           ni.mapping_blocks_ba # ni.mapping_blocks_top_ba,
           NEW n \in Instance, Alike(MapTo(ni, lb, ni.mapping_blocks_top_ba), n),
           n.block_state = ni.block_state,
           ni' = n \/ ni' = Abandon(n, op.pb)
    PROVE  Chip' /\ Session'
  <2>. USE <1>MapsTopRecord
  <2>. TypeOK /\ Mappings
    BY DEF IInv, Session
  <2>1. ni \in Instance /\ ni.block_mapping \in [Logical -> Blocks \cup {-1}]
    BY DEF TypeOK, Instance, MappingTable
  <2>2. PICK top : top = ni.mapping_blocks_top_ba
    OBVIOUS
  <2>3. /\ n.block_mapping = [ni.block_mapping EXCEPT ![lb] = top]
        /\ n.mapping_blocks_top_ba = top - 1
        /\ n.main_table_ba = ni.main_table_ba /\ n.backup_table_ba = ni.backup_table_ba
        /\ n.mapping_blocks_ba = ni.mapping_blocks_ba
        /\ n.signature_ba = ni.signature_ba /\ n.write_count = ni.write_count
        /\ n.info_table_cache = ni.info_table_cache
    BY <2>1, <2>2 DEF Alike, MapTo, Instance
  <2>4. /\ top \in Nat /\ ni.mapping_blocks_ba \in Nat /\ ni.mapping_blocks_ba <= top
        /\ top < ni.signature_ba
    BY <2>2, BetweenFacts
  <2>5. /\ ni.mapping_blocks_ba <= top - 1 /\ top - 1 <= top
        /\ top # ni.signature_ba /\ top \notin MgmtStart .. top - 1
        /\ \A b \in MgmtStart .. top - 1 : b \in MgmtStart .. top
    BY SMTT(30), <2>2, <2>4, GeometryAssumption, Addresses
  <2>6. top \in MgmtStart .. top
    <3>1. MgmtStart <= top
      BY <2>2 DEF IInv, Layout, Laid, Between
    <3>. QED
      BY SMTT(30), <2>4, <3>1, GeometryAssumption
  <2>7. /\ \A i, j \in Logical :
             i # j /\ ni.block_mapping[i] # -1 => ni.block_mapping[i] # ni.block_mapping[j]
        /\ \A i \in Logical : /\ ni.block_mapping[i] \notin MgmtStart .. top
                              /\ ni.block_mapping[i] # ni.signature_ba
    BY <2>2 DEF Mappings, Apart, Clear
  <2>8. \A i \in Logical : n.block_mapping[i] = IF i = lb THEN top ELSE ni.block_mapping[i]
    BY <2>1, <2>3
  <2>9. /\ Clear(n.block_mapping, top - 1)
        /\ \A i \in Logical : n.block_mapping[i] # ni.signature_ba
    <3>1. \A i \in Logical : /\ n.block_mapping[i] \notin MgmtStart .. top - 1
                             /\ n.block_mapping[i] # ni.signature_ba
      BY <2>5, <2>7, <2>8
    <3>2. \A i, j \in Logical :
             i # j /\ n.block_mapping[i] # -1 => n.block_mapping[i] # n.block_mapping[j]
      BY <2>6, <2>7, <2>8
    <3>. QED
      BY <3>1, <3>2 DEF Clear
  <2>. QED
    BY <2>2, <2>3, <2>5, <2>9, <1>RemapRecord

  \* Erasing, writing and giving up a logic block keep the record
<1>LogicStepRecord.
    ASSUME IInv, Chip, Session, LogicStep, ~Detached, ~skipped'
    PROVE  Chip' /\ Session' /\ pc' \in Between
  <2>. USE <1>LogicStepRecord
  <2>. TypeOK /\ Mappings
    BY DEF IInv, Session
  <2>0. op.lb \in Logical /\ ni \in Instance
    BY DEF TypeOK
  <2>1. PICK h : h = Home(op.lb)
    OBVIOUS
  <2>2. Chip /\ UNCHANGED <<flash, oob>> => Chip'
    BY SameChip
  <2>. USE LogicLabels
  <2>3. CASE EraseUnmapped
    <3>1. pc = "erase" /\ pc' = "idle" /\ UNCHANGED <<flash, oob, ni>> /\ op' = op
      BY <2>3 DEF EraseUnmapped, userVars
    <3>. QED
      BY <2>2, <3>1, <1>IdleRecord
  <2>4. CASE EraseGivesUp
    <3>1. /\ pc = "erase" /\ pc' = "remap" /\ h # -1 /\ UNCHANGED <<flash, oob>>
          /\ ni' = ni \/ ni' = SetState(ni, h, BAD)
          /\ op' = [op EXCEPT !.pb = h]
      BY <2>1, <2>4 DEF EraseGivesUp
    <3>2. op'.pb = h
      BY <3>1 DEF TypeOK
    <3>. QED
      BY <2>0, <2>1, <3>1, <3>2, <1>HomeChanges
  <2>5. CASE EraseSucceeds
    <3>1. /\ pc = "erase" /\ pc' = "idle" /\ h # -1 /\ UNCHANGED <<oob, ni, op>>
          /\ flash' = [flash EXCEPT ![h] = Erased] /\ Erased.kind \notin {"sig", "table"}
      BY <2>1, <2>5 DEF EraseSucceeds, CanEraseLogic, Erased
    <3>. QED
      BY <2>0, <2>1, <3>1, <1>HomeChanges
  <2>6. CASE EraseLogicFails
    <3>1. /\ pc = "erase" /\ pc' = "remap" /\ h # -1 /\ oob' = oob \cup {h}
          /\ flash' = [flash EXCEPT ![h] = Junk] /\ Junk.kind \notin {"sig", "table"}
          /\ ni' = SetState(ni, h, BAD) /\ op' = [op EXCEPT !.pb = h]
      BY <2>1, <2>6 DEF EraseLogicFails, CanEraseLogic, MarkFailed, Junk
    <3>2. op'.pb = h
      BY <3>1 DEF TypeOK
    <3>. QED
      BY <2>0, <2>1, <3>1, <3>2, <1>HomeChanges
  <2>7. CASE Remaps
    <3>1. PICK pb \in Blocks : /\ Spare(ni, pb)
                               /\ ni' = Abandon(MapTo(ni, op.lb, pb), op.pb)
                               /\ StepsOver(pb)
      BY <2>7 DEF Remaps
    <3>2. /\ pc = "remap" /\ pc' = "update" /\ UNCHANGED <<flash, oob>> /\ op' = op
          /\ ni.mapping_blocks_ba # ni.mapping_blocks_top_ba
      BY <2>7 DEF Remaps, CallUpdate, userVars
    <3>3. pb = ni.mapping_blocks_top_ba
      BY <3>1 DEF StepsOver
    <3>4. Laid(ni)
      BY <3>2 DEF IInv, Layout, Unlaid
    <3>5. MapTo(ni, op.lb, pb) \in Instance
      BY <2>0, <3>1, <3>4, MapToType
    <3>6. /\ Alike(MapTo(ni, op.lb, pb), MapTo(ni, op.lb, pb))
          /\ MapTo(ni, op.lb, pb).block_state = ni.block_state
      BY <2>0 DEF Alike, MapTo, Instance
    <3>. QED
      BY <2>0, <3>1, <3>2, <3>3, <3>5, <3>6, <1>MapsTopRecord
  <2>8. CASE RemapRefused \/ RemapClosesSpare
    <3>. DEFINE n0 == IF RemapRefused THEN ni
                      ELSE [ni EXCEPT !.mapping_blocks_top_ba = ni.mapping_blocks_ba]
                n == [n0 EXCEPT !.block_mapping = [n0.block_mapping EXCEPT ![op.lb] = -1]]
    <3>1. /\ pc \in {"remap", "remap_top"} /\ pc' = "update" /\ UNCHANGED <<flash, oob>>
          /\ op' = op
      BY <2>8 DEF RemapRefused, RemapClosesSpare, CallUpdate, userVars
    <3>2. ni' = Abandon(n, op.pb)
      BY <2>8 DEF RemapRefused, RemapClosesSpare, Unmapped
    <3>3. Laid(ni) /\ ni.mapping_blocks_ba \in Blocks
      BY <3>1, SpareStart DEF IInv, Layout, Unlaid
    <3>4. n0 \in Instance
      BY <2>0, <3>3, ClosedType
    <3>5. /\ n0.block_state = ni.block_state /\ n0.write_count = ni.write_count
          /\ n0.info_table_cache = ni.info_table_cache
          /\ n0.signature_ba = ni.signature_ba
          /\ n0.main_table_ba = ni.main_table_ba /\ n0.backup_table_ba = ni.backup_table_ba
          /\ n0.mapping_blocks_ba = ni.mapping_blocks_ba
          /\ n0.block_mapping = ni.block_mapping
          /\ n0.mapping_blocks_top_ba \in {ni.mapping_blocks_ba, ni.mapping_blocks_top_ba}
      BY <2>0 DEF Instance
    <3>6. [n0.block_mapping EXCEPT ![op.lb] = -1] \in MappingTable
      BY <2>0, <3>4 DEF Instance, MappingTable
    <3>. HIDE DEF n0
    <3>7. /\ n \in Instance /\ n.block_state = ni.block_state
          /\ n.write_count = ni.write_count /\ n.info_table_cache = ni.info_table_cache
          /\ n.signature_ba = ni.signature_ba
          /\ n.main_table_ba = ni.main_table_ba /\ n.backup_table_ba = ni.backup_table_ba
          /\ n.mapping_blocks_ba = ni.mapping_blocks_ba
          /\ n.mapping_blocks_top_ba = n0.mapping_blocks_top_ba
          /\ n.block_mapping = [ni.block_mapping EXCEPT ![op.lb] = -1]
      BY <3>4, <3>5, <3>6 DEF Instance
    <3>. HIDE DEF n
    <3>8. PICK top, top2 : top = ni.mapping_blocks_top_ba /\ top2 = n0.mapping_blocks_top_ba
      OBVIOUS
    <3>9. top \in Nat /\ ni.mapping_blocks_ba \in Nat /\ ni.mapping_blocks_ba <= top
      BY <3>1, <3>8, BetweenFacts
    <3>10. /\ ni.mapping_blocks_ba <= top2 /\ top2 <= top
           /\ \A b \in MgmtStart .. top2 : b \in MgmtStart .. top
           /\ -1 \notin MgmtStart .. top2 /\ -1 # ni.signature_ba
      BY SMTT(30), <3>5, <3>8, <3>9, GeometryAssumption, Addresses
    <3>11. ni.block_mapping \in [Logical -> Blocks \cup {-1}]
      BY <2>0 DEF Instance, MappingTable
    <3>12. \A i \in Logical :
             n.block_mapping[i] = IF i = op.lb THEN -1 ELSE ni.block_mapping[i]
      BY <3>7, <3>11
    <3>13. /\ Clear(ni.block_mapping, top)
           /\ \A i \in Logical : ni.block_mapping[i] # ni.signature_ba
      BY <3>8 DEF Mappings, Apart
    <3>14. /\ Clear(n.block_mapping, top2)
           /\ \A i \in Logical : n.block_mapping[i] # ni.signature_ba
      BY <3>10, <3>12, <3>13 DEF Clear
    <3>. QED
      BY <3>1, <3>2, <3>7, <3>8, <3>10, <3>14, <1>RemapRecord
  <2>9. CASE RemapFails
    <3>1. pc = "remap" /\ pc' = "update" /\ UNCHANGED <<flash, oob, ni>> /\ op' = op
      BY <2>9 DEF RemapFails, CallUpdate, userVars
    <3>. QED
      BY <2>2, <3>1, <1>IdleRecord
  <2>10. CASE WriteSucceeds
    <3>1. h # -1
      BY <2>1, <2>10 DEF IInv, PageWrite, WriteSucceeds
    <3>2. /\ pc = "page_write" /\ pc' = "idle" /\ UNCHANGED <<oob, ni, op>>
          /\ \E c \in {Data(op.val), Junk} : flash' = [flash EXCEPT ![h] = c]
      BY <2>1, <2>10 DEF WriteSucceeds
    <3>3. \A c \in {Data(op.val), Junk} : c.kind \notin {"sig", "table"}
      BY SMTT(30) DEF Data, Junk
    <3>. QED
      BY <2>0, <2>1, <3>1, <3>2, <3>3, <1>HomeChanges
  <2>11. CASE WriteFails
    <3>1. h # -1
      BY <2>1, <2>11 DEF IInv, PageWrite, WriteFails
    <3>2. /\ pc = "page_write" /\ pc' = "update" /\ oob' = oob /\ op' = op
          /\ flash' = [flash EXCEPT ![h] = Junk] /\ Junk.kind \notin {"sig", "table"}
          /\ ni' = SetState(ni, h, NEED_REMAP)
      BY <2>1, <2>11 DEF WriteFails, CallUpdate, userVars, Junk
    <3>. QED
      BY <2>0, <2>1, <3>1, <3>2, <1>HomeChanges
  <2>. QED
    BY <2>3, <2>4, <2>5, <2>6, <2>7, <2>8, <2>9, <2>10, <2>11 DEF LogicStep

  \* The user's calls keep the record
<1>StartRecord.
    ASSUME IInv, Chip, Session,
           \/ \E lb \in Logical : \/ StartErase(lb)
                                  \/ \E v \in Vals : StartWrite(lb, v)
                                  \/ MarkBad(lb)
           \/ StartDetach
    PROVE  Chip' /\ Session' /\ pc' \in Between
  <2>. USE <1>StartRecord
  <2>. USE LogicLabels
  <2>1. Chip /\ UNCHANGED <<flash, oob>> => Chip'
    BY SameChip
  <2>2. ASSUME NEW lb \in Logical, StartErase(lb) \/ \E v \in Vals : StartWrite(lb, v)
        PROVE  Chip' /\ Session' /\ pc' \in Between
    <3>1. /\ pc = "idle" /\ pc' \in {"erase", "page_write"} /\ UNCHANGED <<flash, oob, ni>>
          /\ op'.pb = 0
      BY SMTT(30), <2>2 DEF StartErase, StartWrite, StartOp
    <3>. QED
      BY <2>1, <3>1, <1>IdleRecord
  <2>3. ASSUME NEW lb \in Logical, MarkBad(lb)
        PROVE  Chip' /\ Session' /\ pc' \in Between
    <3>1. PICK h, n : /\ h = Home(lb)
                      /\ n = [ni EXCEPT !.block_mapping = [ni.block_mapping EXCEPT ![lb] = -1]]
      OBVIOUS
    <3>2. /\ pc = "idle" /\ pc' = "update" /\ flash' = flash /\ h # -1
          /\ oob' = oob \cup {h} /\ op'.pb = 0 /\ ni' = SetState(n, h, BAD)
      BY <2>3, <3>1 DEF MarkBad, StartOp, CallUpdate
    <3>. QED
      BY <3>1, <3>2, <1>HomeChanges
  <2>4. CASE StartDetach
    <3>1. pc = "idle" /\ pc' = "update" /\ UNCHANGED <<flash, oob, ni>> /\ op' = op
      BY <2>4 DEF StartDetach, CallUpdate
    <3>. QED
      BY <2>1, <3>1, <1>IdleRecord
  <2>. QED
    BY <2>2, <2>3, <2>4

  \* The end of an attach, and mapping the data blocks missing at the end of the
  \* data area, keep the record
<1>CreateRecord.
    ASSUME IInv, Chip, Session, ~skipped',
           \/ AttachLoaded \/ CreateMaps \/ CreateMapped \/ CreateMapFails
           \/ CreateClosesSpare \/ CreateReturns
    PROVE  Chip' /\ ((pc' = "failed" /\ Failed') \/ (pc' \in Between /\ Session'))
  <2>. USE <1>CreateRecord
  <2>. TypeOK /\ Mappings
    BY DEF IInv, Session
  <2>0. ni \in Instance /\ UNCHANGED <<flash, oob>> /\ op' = op
    BY DEF TypeOK, AttachLoaded, CreateMaps, CreateMapped, CreateMapFails,
           CreateClosesSpare, CreateReturns, userVars
  <2>. USE LogicLabels
  <2>1. pc \in Between
    BY DEF AttachLoaded, CreateMaps, CreateMapped, CreateMapFails,
           CreateClosesSpare, CreateReturns
  <2>2. Chip'
    BY <2>0, SameChip
  <2>3. PICK mb, top : mb = ni.mapping_blocks_ba /\ top = ni.mapping_blocks_top_ba
    OBVIOUS
  <2>4. mb \in Nat /\ top \in Nat /\ mb <= top
    BY <2>1, <2>3, BetweenFacts
  <2>5. /\ mb <= mb /\ top <= top
        /\ \A b \in MgmtStart .. mb : b \in MgmtStart .. top
    BY SMTT(30), <2>4, GeometryAssumption
  <2>6. /\ Clear(ni.block_mapping, top) /\ Clear(ni.block_mapping, mb)
        /\ \A i \in Logical : ni.block_mapping[i] # ni.signature_ba
    BY <2>3, <2>5 DEF Mappings, Apart, Clear
  <2>7. CASE AttachLoaded
    <3>1. pc' = "idle" /\ \E p \in BOOLEAN : ni' = [ni EXCEPT !.protected = p]
      <4>1. (ni.mapping_blocks_ba = ni.mapping_blocks_top_ba \/ ~lv.ok) \in BOOLEAN
        OBVIOUS
      <4>. QED
        BY <2>7, <4>1 DEF AttachLoaded
    <3>2. /\ ni' \in Instance /\ Alike(ni, ni') /\ ni'.block_state = ni.block_state
      BY <2>0, <3>1 DEF Instance, Alike
    <3>. QED
      BY <2>0, <2>1, <2>3, <2>4, <2>5, <2>6, <3>1, <3>2, <1>RemapRecord DEF Alike
  <2>8. CASE CreateMaps
    <3>1. PICK pb \in Blocks :
            /\ Spare(ni, pb)
            /\ ni' = [MapTo(ni, ni.data_block_count, pb) EXCEPT
                        !.data_block_count = ni.data_block_count + 1]
            /\ StepsOver(pb)
      BY <2>8 DEF CreateMaps
    <3>2. pb = ni.mapping_blocks_top_ba
      BY <3>1 DEF StepsOver
    <3>3. /\ pc = "create_map" /\ pc' = "create_map" /\ ni.data_block_count < MgmtStart
          /\ ni.mapping_blocks_ba # ni.mapping_blocks_top_ba
      BY <2>8 DEF CreateMaps
    <3>4. ni.data_block_count \in Logical /\ ni.data_block_count + 1 \in 0 .. MgmtStart
      BY SMTT(30), <2>0, <3>3, GeometryAssumption DEF Instance, Logical
    <3>5. Laid(ni)
      BY <3>3 DEF IInv, Layout, Unlaid
    <3>6. MapTo(ni, ni.data_block_count, pb) \in Instance
      BY <2>0, <3>1, <3>4, <3>5, MapToType
    <3>7. MapTo(ni, ni.data_block_count, pb).block_state = ni.block_state
      BY <2>0 DEF MapTo, Instance
    <3>8. /\ ni' \in Instance /\ Alike(MapTo(ni, ni.data_block_count, pb), ni')
          /\ ni'.block_state = ni.block_state
      BY <3>1, <3>4, <3>6, <3>7 DEF Alike, Instance
    <3>. QED
      BY <2>0, <2>1, <3>2, <3>3, <3>4, <3>8, <1>MapsTopRecord
  <2>9. CASE CreateMapped \/ CreateMapFails \/ (CreateReturns /\ lv.ok)
    <3>1. ni' = ni /\ pc' \in {"update", "idle"}
      BY <2>9 DEF CreateMapped, CreateMapFails, CreateReturns, CallUpdate
    <3>. QED
      BY <2>0, <2>1, <2>2, <3>1, <1>IdleRecord
  <2>10. CASE CreateClosesSpare
    <3>1. /\ pc = "create_top" /\ pc' = "update"
          /\ ni' = [ni EXCEPT !.mapping_blocks_top_ba = ni.mapping_blocks_ba]
      BY <2>10 DEF CreateClosesSpare, CloseSpareArea, CallUpdate
    <3>2. Laid(ni) /\ ni.mapping_blocks_ba \in Blocks
      BY <3>1, SpareStart DEF IInv, Layout, Unlaid
    <3>3. /\ ni' \in Instance /\ ni'.block_mapping = ni.block_mapping
          /\ ni'.block_state = ni.block_state /\ ni'.write_count = ni.write_count
          /\ ni'.info_table_cache = ni.info_table_cache
          /\ ni'.signature_ba = ni.signature_ba
          /\ ni'.main_table_ba = ni.main_table_ba /\ ni'.backup_table_ba = ni.backup_table_ba
          /\ ni'.mapping_blocks_ba = mb /\ ni'.mapping_blocks_top_ba = mb
      BY <2>0, <2>3, <3>1, <3>2 DEF Instance
    <3>. QED
      BY <2>0, <2>1, <2>3, <2>4, <2>5, <2>6, <3>1, <3>3, <1>RemapRecord
  <2>11. CASE CreateReturns /\ ~lv.ok
    <3>1. pc \in {"created", "create_map"} /\ pc' = "failed" /\ ni' = ni
      BY <2>11 DEF CreateReturns
    <3>2. Laid(ni) /\ Regions /\ Settled
      BY <2>1, <3>1 DEF IInv, Layout, Unlaid, Session, Settled, InWrite, AfterWrite, Rescued
    <3>3. TablesOnChip = Tables({ni.main_table_ba, ni.backup_table_ba})
      BY <3>2 DEF Session, Holders
    <3>4. SigBlocks' = SigBlocks /\ TablesOnChip' = TablesOnChip
      BY <2>0, SameChip
    <3>5. Laid(ni)' /\ Regions' /\ Mappings'
      BY <2>0, <3>1, <3>2, <3>4 DEF Laid, Regions, Mappings, Apart
    <3>6. Failed'
      BY <3>1, <3>3, <3>4, <3>5 DEF Failed
    <3>. QED
      BY <2>2, <3>1, <3>6
  <2>. QED
    BY <2>7, <2>8, <2>9, <2>10, <2>11

  (* Power failures                                                           *)

  \* Losing power, in the middle of an erase or a program or not, leaves the chip
  \* as an attach expects it
<1>PowerRecord.
    ASSUME IInv, Chip, Fresh, pc \notin Unlaid => Session, Detached \/ Crash
    PROVE  Chip' /\ Fresh' /\ pc' = "off"
  <2>. USE <1>PowerRecord
  <2>. TypeOK
    BY DEF IInv
  <2>1. pc' = "off" /\ oob' = oob /\ op' = NoOp /\ ni' = InitStructure
    BY DEF Detached, Crash, PowerOff
  <2>2. Fresh'
    BY <2>1 DEF Fresh, NoOp, InitStructure
  <2>3. CASE Detached
    <3>1. UNCHANGED <<flash, oob>>
      BY <2>1, <2>3 DEF Detached
    <3>. QED
      BY <2>1, <2>2, <3>1, SameChip
  <2>4. CASE Crash
    <3>1. PICK torn \in SUBSET Busy :
            flash' = [b \in Blocks |-> IF b \in torn THEN Junk ELSE flash[b]]
      BY <2>4 DEF Crash
    <3>2. \A b \in Blocks : b \in torn => b \notin SigBlocks /\ flash'[b].kind = "junk"
      BY <3>1, BusyIsNoSignature DEF Junk
    <3>3. \A b \in Blocks : b \notin torn => flash'[b] = flash[b]
      BY <3>1
    <3>4. SigBlocks' = SigBlocks
      BY <2>1, <3>2, <3>3 DEF SigBlocks
    <3>5. /\ TablesOnChip' \subseteq TablesOnChip
          /\ \A b \in TablesOnChip' : Tbl(b)' = Tbl(b)
      BY <2>1, <3>2, <3>3 DEF TablesOnChip, Tbl
    <3>. QED
      BY <2>1, <2>2, <3>4, <3>5, ChipShrinks
  <2>. QED
    BY <2>3, <2>4

  (* Attaching to a chip without tables                                       *)

  \* nmbm_build_mapping_table maps every logic block to a block of its own in the
  \* data area, or to none
<1>BuildsClear.
    ASSUME NEW n \in Instance, NEW label, Builds(n, label)
    PROVE  /\ Clear(ni'.block_mapping, BlockCount - 1)
           /\ ni'.main_table_ba = n.main_table_ba /\ ni'.signature_ba = n.signature_ba
           /\ \A b \in Blocks : ni'.block_state[b] = GOOD => b \notin oob
  <2>. USE <1>BuildsClear
  <2>1. PICK m \in [Logical -> Logical \cup {-1}], count \in 0 .. MgmtStart :
          /\ BuildMapping(Marked(n.block_state, oob), m, count)
          /\ ni' = Scanned(n, m, count)
    BY DEF Builds
  <2>2. /\ ni'.block_mapping = m /\ ni'.block_state = Marked(n.block_state, oob)
        /\ ni'.main_table_ba = n.main_table_ba /\ ni'.signature_ba = n.signature_ba
    BY <2>1 DEF Scanned, Instance
  <2>3. /\ \A i, j \in 0 .. count - 1 : i < j => m[i] < m[j]
        /\ \A lb \in count .. MgmtStart - 1 : m[lb] = -1
    BY <2>1 DEF BuildMapping
  <2>4. ASSUME NEW i \in Logical, NEW j \in Logical, i # j, m[i] # -1
        PROVE  m[i] # m[j]
    <3>1. m[i] \in Int /\ m[j] \in Int
      BY SMTT(30), GeometryAssumption DEF Logical
    <3>. QED
      BY SMTT(30), <2>3, <2>4, <3>1, GeometryAssumption DEF Logical
  <2>5. \A lb \in Logical : m[lb] \notin MgmtStart .. BlockCount - 1
    BY SMTT(30), GeometryAssumption DEF Logical
  <2>6. \A b \in Blocks : Marked(n.block_state, oob)[b] = GOOD => b \notin oob
    BY DEF Marked, GOOD, BAD
  <2>. QED
    BY <2>2, <2>4, <2>5, <2>6 DEF Clear

  \* Attaching to a chip without signature, or without table
<1>AttachBuildsRecord.
    ASSUME IInv, Chip, Fresh, AttachNew \/ AttachRecreates
    PROVE  Chip' /\ Fresh' /\ pc' \in {"sig_write", "create"}
  <2>. USE <1>AttachBuildsRecord
  <2>. TypeOK
    BY DEF IInv
  <2>1. UNCHANGED <<flash, oob>> /\ pc = "off" /\ op' = op
    BY DEF AttachNew, AttachRecreates, userVars
  <2>2. op'.pb = 0
    BY <2>1 DEF Fresh, Unlaid
  <2>3. SigBlocks' = SigBlocks /\ TablesOnChip' = TablesOnChip /\ Chip'
    BY <2>1, SameChip
  <2>4. CASE AttachNew
    <3>1. Builds(InitStructure, "sig_write") /\ ~ \E sg \in Blocks : IsSignature(sg)
      BY <2>4 DEF AttachNew
    <3>2. /\ Clear(ni'.block_mapping, BlockCount - 1) /\ ni'.main_table_ba = 0
          /\ \A b \in Blocks : ni'.block_state[b] = GOOD => b \notin oob
      BY <3>1, <1>BuildsClear, InitType DEF InitStructure
    <3>3. pc' = "sig_write"
      BY <3>1 DEF Builds
    <3>4. SigBlocks = {}
      BY <3>1, SignatureFound DEF SigBlocks
    <3>. QED
      BY <2>1, <2>2, <2>3, <3>2, <3>3, <3>4 DEF Fresh
  <2>5. CASE AttachRecreates
    <3>1. PICK sg \in Blocks, ecc \in SUBSET Torn :
            /\ IsSignature(sg) /\ IsFirst(sg, 0)
            /\ Builds([InitStructure EXCEPT
                         !.block_state = Marked(AllGood,
                                                Found(AllGood, MgmtStart, sg - 2, ecc)),
                         !.mapping_blocks_top_ba = sg - 1,
                         !.signature_ba = sg],
                      "create")
      BY <2>5 DEF AttachRecreates
    <3>. DEFINE st == Marked(AllGood, Found(AllGood, MgmtStart, sg - 2, ecc))
                n == [InitStructure EXCEPT !.block_state = st,
                                           !.mapping_blocks_top_ba = sg - 1,
                                           !.signature_ba = sg]
    <3>2. sg \in SigBlocks /\ MgmtStart < sg
      BY <3>1, SignatureFound
    <3>3. sg - 1 \in Blocks /\ sg \in Nat
      BY SMTT(30), <3>2, GeometryAssumption DEF Blocks
    <3>4. st \in StateTable
      BY MarkedType DEF AllGood, StateTable, BlockState
    <3>. HIDE DEF st
    <3>5. n \in Instance /\ n.signature_ba = sg /\ n.main_table_ba = 0
      BY <3>3, <3>4, InitType DEF Instance, InitStructure
    <3>6. Builds(n, "create")
      BY <3>1 DEF st
    <3>. HIDE DEF n
    <3>7. /\ Clear(ni'.block_mapping, BlockCount - 1) /\ ni'.main_table_ba = 0
          /\ ni'.signature_ba = sg
      BY <3>5, <3>6, <1>BuildsClear
    <3>8. pc' = "create"
      BY <3>6 DEF Builds
    <3>9. TablesOnChip = {}
      <4>1. SUFFICES ASSUME NEW b \in TablesOnChip
                     PROVE  FALSE
        OBVIOUS
      <4>. DEFINE valid == {x \in MgmtStart .. sg - 2 : ValidTable(sg, AllGood, x)}
      <4>2. AllGood[b] = GOOD
        BY DEF AllGood, TablesOnChip
      <4>3. b \in Nat /\ MgmtStart <= b /\ b <= sg - 2 /\ ValidTable(sg, AllGood, b)
        BY <3>2, <4>2, TableIsValid
      <4>4. b \in MgmtStart .. sg - 2
        BY SMTT(30), <3>3, <4>3, GeometryAssumption
      <4>5. b \in valid /\ 0 \notin valid
        <5>1. \A x \in MgmtStart .. sg - 2 : x # 0
          BY SMTT(30), <3>3, GeometryAssumption
        <5>. QED
          BY <4>3, <4>4, <5>1
      <4>6. 0 \in valid
        BY <3>1, <4>5 DEF IsFirst, IsLowest
      <4>. QED
        BY <4>5, <4>6
    <3>. QED
      BY <2>2, <2>3, <3>2, <3>7, <3>8, <3>9 DEF Fresh
  <2>. QED
    BY <2>4, <2>5

  \* nmbm_write_signature puts the only signature on a chip without tables
<1>SignatureRecord.
    ASSUME IInv, Chip, Fresh, SigSkips \/ SigErases \/ SigFails \/ SigWritten \/ SigExhausted
    PROVE  Chip' /\ Fresh' /\ Failed'
           /\ pc' \in {"sig_write", "sig_program", "create", "failed"}
  <2>. USE <1>SignatureRecord
  <2>. TypeOK /\ Signature
    BY DEF IInv
  <2>0. ni \in Instance /\ op' = op /\ pc \in {"sig_write", "sig_program"}
    BY DEF TypeOK, userVars, SigSkips, SigErases, SigFails, SigWritten, SigExhausted,
           CanEraseSig
  <2>1. /\ ni.main_table_ba = 0 /\ op'.pb = 0 /\ SigBlocks = {}
        /\ Clear(ni.block_mapping, BlockCount - 1)
        /\ \A b \in Blocks : ni.block_state[b] = GOOD => b \notin oob
        /\ pc = "sig_program" => ni.block_state[lv.ba] = GOOD
    BY <2>0 DEF Fresh, Unlaid
  <2>2. TablesOnChip = {}
    BY <2>1 DEF Chip, OneSignature
  <2>3. ASSUME TablesOnChip' = {}, SigBlocks' = {} \/ \E s : SigBlocks' = {s}
        PROVE  Chip'
    BY <2>3 DEF Chip, OneSignature, TablesClear, TwoTables, TablesAgree, NoneBelow
  <2>4. CASE SigSkips \/ SigExhausted
    <3>1. /\ UNCHANGED <<flash, oob>> /\ ni' = ni
          /\ pc' = "sig_write" \/ pc' = "failed"
      BY <2>4 DEF SigSkips, SigExhausted
    <3>2. Chip' /\ SigBlocks' = SigBlocks
      BY <3>1, SameChip
    <3>. QED
      BY <2>1, <3>1, <3>2 DEF Fresh, Failed
  <2>5. CASE SigErases
    <3>1. /\ pc' = "sig_program" /\ ni.block_state[lv.ba] = GOOD
          /\ flash' = [flash EXCEPT ![lv.ba] = Erased]
          /\ UNCHANGED <<oob, ni, lv>>
      BY <2>5 DEF SigErases, CanEraseSig
    <3>2. \A b \in Blocks :
            IF b = lv.ba THEN flash'[b].kind = "erased" ELSE flash'[b] = flash[b]
      BY <3>1 DEF TypeOK, Erased
    <3>3. TablesOnChip' = {} /\ SigBlocks' = {}
      BY <2>1, <2>2, <3>1, <3>2 DEF TablesOnChip, SigBlocks
    <3>. QED
      BY <2>1, <2>3, <3>1, <3>3 DEF Fresh, Failed
  <2>6. CASE SigFails
    <3>1. lv.ba \in Blocks
      BY SMTT(30), <2>6, Addresses, GeometryAssumption
         DEF SigFails, CanEraseSig, Signature, Blocks
    <3>2. /\ flash' = [flash EXCEPT ![lv.ba] = Junk] /\ oob' = oob \cup {lv.ba}
          /\ ni' = SetState(ni, lv.ba, BAD) /\ pc' = "sig_write"
      BY <2>6 DEF SigFails, MarkFailed
    <3>3. \A b \in Blocks :
            IF b = lv.ba THEN flash'[b].kind = "junk" ELSE flash'[b] = flash[b]
      BY <3>2 DEF TypeOK, Junk
    <3>4. TablesOnChip' = {} /\ SigBlocks' = {}
      BY <2>1, <2>2, <3>2, <3>3 DEF TablesOnChip, SigBlocks
    <3>5. /\ ni'.block_mapping = ni.block_mapping /\ ni'.main_table_ba = ni.main_table_ba
          /\ ni'.block_state = [ni.block_state EXCEPT ![lv.ba] = BAD]
      BY <2>0, <3>1, <3>2 DEF SetState, Instance
    <3>6. \A b \in Blocks : ni'.block_state[b] = GOOD => b \notin oob'
      <4>1. ni.block_state \in [Blocks -> BlockState]
        BY <2>0 DEF Instance, StateTable
      <4>2. \A b \in Blocks :
              ni'.block_state[b] = IF b = lv.ba THEN BAD ELSE ni.block_state[b]
        BY <3>1, <3>5, <4>1
      <4>. QED
        BY <2>1, <3>2, <4>2 DEF GOOD, BAD
    <3>. QED
      BY <2>1, <2>3, <3>2, <3>4, <3>5, <3>6 DEF Fresh, Failed
  <2>7. CASE SigWritten
    <3>1. /\ pc = "sig_program" /\ pc' = "create" /\ flash' = [flash EXCEPT ![lv.ba] = Sig]
          /\ ni' = [ni EXCEPT !.signature_ba = lv.ba] /\ oob' = oob
      BY <2>7 DEF SigWritten
    <3>2. lv.ba \in Blocks
      BY SMTT(30), <3>1, Addresses, GeometryAssumption DEF Signature, Blocks
    <3>3. /\ ni'.block_mapping = ni.block_mapping /\ ni'.main_table_ba = ni.main_table_ba
          /\ ni'.signature_ba = lv.ba
      BY <2>0, <3>1, <3>2 DEF Instance
    <3>4. \A b \in Blocks :
            IF b = lv.ba THEN flash'[b].kind = "sig" ELSE flash'[b] = flash[b]
      BY <3>1 DEF TypeOK, Sig
    <3>5. lv.ba \notin oob
      BY <2>1, <3>1, <3>2
    <3>6. TablesOnChip' = {}
      BY <2>2, <3>1, <3>4 DEF TablesOnChip
    <3>7. SigBlocks' = {lv.ba}
      BY <2>1, <3>1, <3>2, <3>4, <3>5 DEF SigBlocks
    <3>8. Chip'
      BY <2>3, <3>6, <3>7
    <3>9. ni'.signature_ba \in SigBlocks'
      BY <3>3, <3>7
    <3>. QED
      BY <2>1, <3>1, <3>3, <3>6, <3>8, <3>9 DEF Fresh, Failed
  <2>. QED
    BY <2>4, <2>5, <2>6, <2>7

  \* nmbm_create_info_table starts the record of a new chip
<1>CreateTablesRecord.
    ASSUME IInv, Chip, Fresh, CreateTables
    PROVE  Chip' /\ Failed' /\ (pc' = "failed" \/ (pc' \notin Unlaid /\ Session'))
  <2>. USE <1>CreateTablesRecord
  <2>. TypeOK /\ Signature
    BY DEF IInv
  <2>0. ni \in Instance /\ lv \in Locals /\ op' = op /\ pc = "create" /\ UNCHANGED <<flash, oob>>
    BY DEF TypeOK, userVars, CreateTables
  <2>1. /\ ni.main_table_ba = 0 /\ op'.pb = 0 /\ ni.signature_ba \in SigBlocks
        /\ TablesOnChip = {} /\ Clear(ni.block_mapping, BlockCount - 1)
    BY <2>0 DEF Fresh, Unlaid
  <2>2. SigBlocks' = SigBlocks /\ TablesOnChip' = TablesOnChip /\ Chip'
    BY <2>0, SameChip
  <2>3. ASSUME NEW top \in Blocks,
               CallRebuild(Generate([ni EXCEPT !.mapping_blocks_top_ba = top]), "create_map")
        PROVE  pc' \notin Unlaid /\ Session'
    <3>. DEFINE n == [ni EXCEPT !.mapping_blocks_top_ba = top]
    <3>1. /\ n \in Instance /\ n.mapping_blocks_top_ba = top /\ n.signature_ba = ni.signature_ba
          /\ n.block_mapping = ni.block_mapping
      BY <2>0 DEF Instance
    <3>. HIDE DEF n
    <3>2. PICK g : g = Generate(n)
      OBVIOUS
    <3>3. /\ g \in Instance /\ g.mapping_blocks_top_ba = top
          /\ g.signature_ba = ni.signature_ba
      BY <3>1, <3>2, GenerateType
    <3>4. /\ g.block_mapping = ni.block_mapping
          /\ g.info_table_cache.block_mapping = ni.block_mapping
          /\ g.info_table_cache.write_count = g.write_count
          /\ g.info_table_cache.block_state = g.block_state
      BY <3>1, <3>2, GenerateFields
    <3>5. CallRebuild(g, "create_map")
      BY <2>3, <3>2 DEF n
    <3>6. pc' \notin Unlaid
      BY <3>5 DEF CallRebuild, Unlaid
    <3>7. /\ ni'.block_mapping = ni.block_mapping
          /\ ni'.info_table_cache.block_mapping = ni.block_mapping
          /\ ni'.info_table_cache.write_count = ni'.write_count
          /\ ni'.info_table_cache.block_state = ni'.block_state
          /\ ni'.mapping_blocks_top_ba = top /\ ni'.signature_ba = ni.signature_ba
      BY <3>3, <3>4, <3>5 DEF CallRebuild, Instance
    <3>8. ni.signature_ba \in Mgmt /\ \A b \in MgmtStart .. top : b \in Mgmt
      <4>1. MgmtStart < ni.signature_ba /\ ni.signature_ba < BlockCount
        BY <2>1, SignatureFound
      <4>2. ni.signature_ba \in Nat /\ top \in Nat /\ top < BlockCount
        BY SMTT(30), <2>0, GeometryAssumption DEF Instance, Blocks
      <4>. QED
        BY SMTT(30), <4>1, <4>2, GeometryAssumption DEF Mgmt
    <3>9. \A lb \in Logical : ni.block_mapping[lb] \notin Mgmt
      BY <2>1 DEF Clear, Mgmt
    <3>10. Clear(ni.block_mapping, top)
      BY <2>1, <3>8, <3>9 DEF Clear
    <3>11. 0 \notin MgmtStart .. top
      BY SMTT(30), GeometryAssumption
    <3>12. Mappings'
      BY <2>1, <2>2, <3>7, <3>8, <3>9, <3>10, <3>11 DEF Mappings, Apart
    <3>13. Knows'
      BY <2>1, <2>2, <3>7 DEF Knows, Fewer
    <3>. QED
      BY <2>0, <2>1, <2>2, <3>3, <3>5, <3>6, <3>12, <3>13, <1>CallRebuildRecord
  <2>4. CASE pc' = "failed" /\ UNCHANGED <<ni, lv>>
    BY <2>1, <2>2, <2>4 DEF Failed
  <2>5. ASSUME pc' \notin Unlaid
        PROVE  Failed'
    BY <2>5 DEF Failed, Unlaid
  <2>. QED
    BY <2>2, <2>3, <2>4, <2>5 DEF CreateTables

  (* Attaching to a chip with tables                                          *)

  \* The instance that an attach loads knows the tables on the chip, and its
  \* regions are in order
<1>LoadedKnows.
    ASSUME IInv, Chip, NEW s, NEW first, NEW second, NEW ecc \in SUBSET Torn,
           NEW top \in Blocks, NEW count \in 0 .. MgmtStart,
           Searched(s, first, second), TopOf(s, Chosen(first, second), top),
           UNCHANGED <<flash, oob>>, op'.pb = 0,
           NEW n, n = LoadedInstance(s, first, second, ecc, top, count), Relocated(n, ni'),
           ni'.main_table_ba = first, ni'.backup_table_ba = second,
           ni'.mapping_blocks_ba = n.mapping_blocks_ba
    PROVE  /\ Mappings' /\ Knows' /\ Regions'
           /\ second # 0 => Unavailable(ni'.info_table_cache.block_state, oob', first)
  <2>. USE <1>LoadedKnows
  <2>. TypeOK
    BY DEF IInv
  <2>0. /\ s \in SigBlocks /\ s \in Blocks /\ first \in Blocks /\ second \in Blocks
        /\ first \in TablesOnChip /\ first # 0 /\ MgmtStart <= first /\ first <= s - 2
        /\ second # 0 => second \in TablesOnChip /\ first < second /\ second <= s - 2
    BY DEF Searched
  <2>1. PICK c : c = Chosen(first, second)
    OBVIOUS
  <2>2. PICK mb : mb = n.mapping_blocks_ba
    OBVIOUS
  <2>3. /\ Preferred(c)
        /\ second # 0 => \/ Unavailable(Tbl(c).block_state, oob, first)
                         \/ Unavailable(Tbl(c).block_state, oob, second)
    BY <2>1, ChosenKnows
  <2>4. /\ LoadedFrom(c, n)
        /\ c < s /\ n \in Instance /\ n.signature_ba = s
        /\ n.mapping_blocks_top_ba = top
        /\ n.mapping_blocks_ba = (IF second = 0 THEN first ELSE second) + 1
    <3>1. /\ LoadedFrom(Chosen(first, second), n)
          /\ LoadedLayout(s, first, second, Chosen(first, second), top, n)
      BY LoadedFields
    <3>. QED
      BY <2>1, <3>1 DEF LoadedLayout
  <2>. PICK t : t = Tbl(c)
    OBVIOUS
  <2>5. /\ c \in TablesOnChip /\ c \in Blocks /\ MgmtStart <= c
        /\ \A b \in TablesOnChip : Clear(t.block_mapping, b + 1)
    BY <2>3 DEF Preferred, Chip, TablesClear, TablesOnChip
  <2>6. /\ n.block_mapping = t.block_mapping
        /\ n.info_table_cache.block_mapping = t.block_mapping
        /\ n.info_table_cache.block_state = n.block_state
        /\ n.info_table_cache.write_count = n.write_count
        /\ Fewer(t.block_state, n.block_state)
        /\ \A b \in TablesOnChip : n.block_state[b] = GOOD
        /\ t.write_count <= n.write_count
        /\ n.write_count = t.write_count => n.info_table_cache = t
    BY <2>4 DEF LoadedFrom
  <2>7. /\ ni'.block_mapping = t.block_mapping
        /\ ni'.info_table_cache = n.info_table_cache
        /\ ni'.block_state = n.block_state
        /\ ni'.write_count = n.write_count
        /\ ni'.signature_ba = s /\ ni'.mapping_blocks_top_ba = top
        /\ ni'.mapping_blocks_ba = mb
    BY <2>2, <2>4, <2>6 DEF Relocated
  <2>8. /\ SigBlocks' = SigBlocks /\ TablesOnChip' = TablesOnChip
        /\ \A b \in TablesOnChip' : Tbl(b)' = Tbl(b)
    BY SameChip
  <2>9. TablesClear
    BY DEF Chip
  <2>10. t.block_mapping \in [Logical -> Blocks \cup {-1}]
    BY <2>5, TableType DEF InfoTable, MappingTable, Tbl
  <2>11. /\ Clear(t.block_mapping, first + 1)
         /\ second # 0 => Clear(t.block_mapping, second + 1)
         /\ Clear(t.block_mapping, c + 1)
    BY <2>0, <2>5
  <2>12. ASSUME NEW lb \in Logical, t.block_mapping[lb] \in c + 1 .. BlockCount - 1
         PROVE  mb + 1 <= t.block_mapping[lb]
    <3>1. /\ t.block_mapping[lb] \notin MgmtStart .. first + 1
          /\ second # 0 => t.block_mapping[lb] \notin MgmtStart .. second + 1
      BY <2>11 DEF Clear
    <3>. QED
      BY SMTT(30), <2>0, <2>2, <2>4, <2>5, <2>12, <3>1, GeometryAssumption DEF Blocks
  <2>13. PICK low : low = top + 1
    OBVIOUS
  <2>14. \A pb \in MappedAbove(c) : mb + 1 <= pb
    BY <2>12 DEF Tbl, MappedAbove
  <2>15. mb + 1 <= s /\ mb \in Nat /\ s \in Nat
    BY SMTT(30), <2>0, <2>2, <2>4, GeometryAssumption DEF Blocks
  <2>17. \A lb \in Logical : t.block_mapping[lb] \in c + 1 .. BlockCount - 1
                               => t.block_mapping[lb] \in MappedAbove(c)
    BY DEF Tbl, MappedAbove
  <2>19. /\ low \in {s} \cup MappedAbove(c)
         /\ \A x \in {s} \cup MappedAbove(c) : low <= x
    BY <2>1, <2>13 DEF TopOf, IsLowest
  <2>20. mb + 1 <= low
    BY <2>14, <2>15, <2>19
  <2>21. /\ low \in Nat /\ top = low - 1 /\ mb <= top /\ top \in Int
    BY SMTT(30), <2>13, <2>15, <2>20, GeometryAssumption DEF Blocks
  <2>22. \A lb \in Logical : t.block_mapping[lb] \notin MgmtStart .. top
    <3>1. SUFFICES ASSUME NEW lb \in Logical, t.block_mapping[lb] \in MgmtStart .. top
                   PROVE  FALSE
      OBVIOUS
    <3>2. t.block_mapping[lb] \notin MgmtStart .. c + 1
      BY <2>11 DEF Clear
    <3>3. t.block_mapping[lb] \in Blocks \cup {-1}
      BY <2>10
    <3>4. t.block_mapping[lb] \in c + 1 .. BlockCount - 1
      BY SMTT(30), <2>5, <3>1, <3>2, <3>3, GeometryAssumption DEF Blocks
    <3>5. low <= t.block_mapping[lb]
      BY <2>17, <2>19, <3>4
    <3>. QED
      BY SMTT(30), <2>10, <2>21, <3>1, <3>5, GeometryAssumption
  <2>23. Clear(t.block_mapping, top)
    BY <2>11, <2>22 DEF Clear
  <2>24. \A lb \in Logical : t.block_mapping[lb] # s
    BY <2>0, <2>5, <2>9 DEF TablesClear
  <2>25. 0 \notin MgmtStart .. top
    BY SMTT(30), <2>21, GeometryAssumption
  <2>26. Mappings'
    BY <2>0, <2>6, <2>7, <2>8, <2>23, <2>24, <2>25 DEF Mappings, Apart
  <2>27. Regions'
    <3>1. /\ first < mb /\ (second # 0 => first < second /\ second < mb)
      BY SMTT(30), <2>0, <2>2, <2>4, GeometryAssumption DEF Blocks
    <3>. QED
      BY <2>0, <2>7, <2>21, <3>1 DEF Regions
  <2>28. Knows'
    <3>1. n.write_count \in Nat /\ t.write_count \in Nat
      BY <2>3, <2>4, <2>5 DEF Instance, Preferred
    <3>2. ASSUME NEW b \in TablesOnChip
          PROVE  /\ Tbl(b).write_count <= n.write_count
                 /\ Tbl(b).write_count = n.write_count => Tbl(b) = n.info_table_cache
                 /\ Fewer(Tbl(b).block_state, n.block_state)
      <4>1. /\ Tbl(b).write_count \in Nat /\ Tbl(b).write_count <= t.write_count
            /\ Tbl(b).write_count = t.write_count => Tbl(b) = t
            /\ Fewer(Tbl(b).block_state, t.block_state)
        BY <2>3 DEF Preferred
      <4>2. /\ Tbl(b).write_count <= n.write_count
            /\ Tbl(b).write_count = n.write_count =>
                 Tbl(b).write_count = t.write_count /\ n.write_count = t.write_count
        BY SMTT(30), <2>6, <3>1, <4>1
      <4>3. Fewer(Tbl(b).block_state, n.block_state)
        BY <2>6, <4>1 DEF Fewer
      <4>. QED
        BY <2>6, <4>1, <4>2, <4>3
    <3>3. ASSUME NEW b \in TablesOnChip'
          PROVE  /\ Tbl(b)'.write_count <= n.write_count
                 /\ Tbl(b)'.write_count = n.write_count => Tbl(b)' = n.info_table_cache
                 /\ Fewer(Tbl(b)'.block_state, n.block_state)
                 /\ n.block_state[b] = GOOD
      BY <2>6, <2>8, <3>2
    <3>5. /\ ni'.info_table_cache.write_count = ni'.write_count
          /\ ni'.info_table_cache.block_state = ni'.block_state
          /\ ni'.info_table_cache.write_count = n.write_count
      BY <2>6, <2>7
    <3>6. \A b \in TablesOnChip' :
            /\ Tbl(b)'.write_count <= ni'.info_table_cache.write_count
            /\ Tbl(b)'.write_count = ni'.info_table_cache.write_count
                 => Tbl(b)' = ni'.info_table_cache
            /\ Fewer(Tbl(b)'.block_state, ni'.info_table_cache.block_state)
            /\ ni'.block_state[b] = GOOD
      BY <2>7, <3>3, <3>5
    <3>7. Fewer(ni'.info_table_cache.block_state, ni'.block_state)
      BY <3>5 DEF Fewer
    <3>. QED
      BY <3>5, <3>6, <3>7 DEF Knows
  <2>29. ASSUME second # 0
         PROVE  Unavailable(ni'.info_table_cache.block_state, oob', first)
    <3>1. \A b \in MgmtStart .. first - 1 : b \in MgmtStart .. second - 1 /\ b \in Mgmt
      BY SMTT(30), <2>0, <2>29, GeometryAssumption DEF Blocks, Mgmt
    <3>2. Unavailable(t.block_state, oob, first)
      BY <2>3, <2>29, <3>1 DEF Unavailable
    <3>3. Unavailable(n.block_state, oob, first)
      BY <2>6, <3>1, <3>2 DEF Unavailable, Fewer
    <3>4. ni'.info_table_cache.block_state = n.block_state
      BY <2>6, <2>7
    <3>. QED
      BY <3>3, <3>4
  <2>. QED
    BY <2>26, <2>27, <2>28, <2>29

  \* Loading the tables starts the record from what is on the chip
<1>AttachLoadsRecord.
    ASSUME IInv, Chip, Fresh, AttachLoads
    PROVE  Chip' /\ pc' \notin Unlaid /\ Session'
  <2>. USE <1>AttachLoadsRecord
  <2>. TypeOK
    BY DEF IInv
  <2>0. UNCHANGED <<flash, oob>> /\ pc = "off" /\ op' = op /\ lv \in Locals
    BY DEF AttachLoads, userVars, TypeOK
  <2>1. op'.pb = 0
    BY <2>0 DEF Fresh, Unlaid
  <2>2. /\ SigBlocks' = SigBlocks /\ TablesOnChip' = TablesOnChip /\ Chip'
    BY <2>0, SameChip
  <2>3. PICK s \in Blocks, first \in Blocks \ {0}, second \in Blocks,
             ecc \in SUBSET Torn, top \in Blocks, count \in 0 .. MgmtStart :
          /\ IsSignature(s)
          /\ IsFirst(s, first)
          /\ IsSecond(s, first, second)
          /\ TopOf(s, Chosen(first, second), top)
          /\ LoadedNext(LoadedInstance(s, first, second, ecc, top, count), first, second)
    BY DEF AttachLoads
  <2>4. PICK n : n = LoadedInstance(s, first, second, ecc, top, count)
    OBVIOUS
  <2>7. Searched(s, first, second)
    <3>1. s \in SigBlocks
      BY <2>3, SignatureFound
    <3>. QED
      BY <2>3, <3>1, TablesFound
  <2>9. /\ n \in Instance /\ n.main_table_ba = first /\ n.backup_table_ba = second
        /\ n.mapping_blocks_top_ba = top
    <3>1. LoadedLayout(s, first, second, Chosen(first, second), top, n)
      BY <2>4, <2>7, LoadedFields
    <3>. QED
      BY <3>1 DEF LoadedLayout
  <2>6. \/ second = 0 /\ WriteNext(n, MgmtStart, first, "rs_front")
        \/ second # 0 /\ WriteNext([n EXCEPT !.changed = TRUE], first, second, "us_main")
        \/ second # 0 /\ WriteNext([n EXCEPT !.changed = TRUE], second, top, "us_backup")
        \/ second # 0 /\ ni' = n /\ ReturnTo("loaded", TRUE)
    BY <2>3, <2>4, <2>9 DEF LoadedNext
  <2>8. /\ first \in Nat /\ second \in Nat /\ first # 0
        /\ first \in Blocks \ {0}
        /\ second # 0 => second \in Blocks \ {0} /\ first <= second
        /\ TablesOnChip' = Tables({first, second})
        /\ first <= first /\ second <= second
    <3>1. first \in Nat /\ second \in Nat
      BY SMTT(30), GeometryAssumption DEF Blocks
    <3>2. first <= first /\ second <= second /\ (second # 0 => first <= second)
      BY SMTT(30), <2>7, <3>1 DEF Searched
    <3>. QED
      BY <2>2, <2>7, <3>1, <3>2 DEF Searched
  <2>10. ASSUME ni' = n \/ ni' = [n EXCEPT !.changed = TRUE]
         PROVE  /\ ni'.main_table_ba = first /\ ni'.backup_table_ba = second
                /\ ni'.mapping_blocks_top_ba = top
                /\ Mappings' /\ Knows' /\ Regions'
                /\ second # 0 => Unavailable(ni'.info_table_cache.block_state, oob', first)
    <3>1. /\ Relocated(n, ni') /\ ni'.main_table_ba = first /\ ni'.backup_table_ba = second
          /\ ni'.mapping_blocks_ba = n.mapping_blocks_ba
      BY <2>9, <2>10 DEF Relocated, Instance
    <3>2. /\ Mappings' /\ Knows' /\ Regions'
          /\ second # 0 => Unavailable(ni'.info_table_cache.block_state, oob', first)
      BY <2>0, <2>1, <2>3, <2>4, <2>7, <3>1, <1>LoadedKnows
    <3>. QED
      BY <2>9, <3>1, <3>2 DEF Relocated
  <2>11. CASE second = 0 /\ WriteNext(n, MgmtStart, first, "rs_front")
    <3>1. ni' = n /\ pc' = "write" /\ lv' = CallWrite(lv, MgmtStart, first, "rs_front")
      BY <2>11 DEF WriteNext
    <3>2. lv'.ba = MgmtStart /\ lv'.limit = first /\ lv'.ret = "rs_front"
      BY <2>0, <3>1 DEF CallWrite, Locals
    <3>3. /\ ni'.main_table_ba = first /\ ni'.backup_table_ba = 0
          /\ Mappings' /\ Knows' /\ Regions'
      BY <2>10, <2>11, <3>1
    <3>4. From("rs_front", lv.ba)' /\ UpTo("rs_front", lv.limit)'
      BY <3>2, <3>3 DEF From, UpTo
    <3>5. Unavailable(ni'.info_table_cache.block_state, oob', MgmtStart)
      BY SMTT(30), GeometryAssumption DEF Unavailable
    <3>6. Safe("rs_front")' = {first} /\ TablesOnChip' = {first}
      BY <2>8, <2>11, <3>3 DEF Safe, Tables
    <3>7. Session'
      BY <2>8, <3>1, <3>2, <3>3, <3>4, <3>5, <3>6, <1>EntersWriteRecord DEF AfterWrite
    <3>. QED
      BY <2>2, <3>1, <3>7 DEF Unlaid
  <2>12. CASE second # 0 /\ WriteNext([n EXCEPT !.changed = TRUE], first, second, "us_main")
    <3>1. /\ ni' = [n EXCEPT !.changed = TRUE] /\ pc' = "write"
          /\ lv' = CallWrite(lv, first, second, "us_main")
      BY <2>12 DEF WriteNext
    <3>2. lv'.ba = first /\ lv'.limit = second /\ lv'.ret = "us_main"
      BY <2>0, <3>1 DEF CallWrite, Locals
    <3>3. /\ ni'.main_table_ba = first /\ ni'.backup_table_ba = second
          /\ Mappings' /\ Knows' /\ Regions'
          /\ Unavailable(ni'.info_table_cache.block_state, oob', first)
      BY <2>10, <2>12, <3>1
    <3>4. From("us_main", lv.ba)' /\ UpTo("us_main", lv.limit)'
      BY <2>8, <3>2, <3>3 DEF From, UpTo
    <3>5. Safe("us_main")' = {second} /\ Replaced("us_main")' = {first}
      BY <2>8, <2>12, <3>3 DEF Safe, Replaced
    <3>6. second \in TablesOnChip' /\ \A b \in TablesOnChip' : b = first \/ b = second
      BY <2>8, <2>12 DEF Tables
    <3>7. /\ Safe("us_main")' \subseteq TablesOnChip'
          /\ \A b \in TablesOnChip' :
               b \in Safe("us_main")' \/ (b \in Replaced("us_main")' /\ lv'.ba <= b)
      BY <2>8, <3>2, <3>5, <3>6
    <3>8. Session'
      BY <2>8, <2>12, <3>1, <3>2, <3>3, <3>4, <3>7, <1>EntersWriteRecord DEF AfterWrite
    <3>. QED
      BY <2>2, <3>1, <3>8 DEF Unlaid
  <2>13. CASE second # 0 /\ WriteNext([n EXCEPT !.changed = TRUE], second, top, "us_backup")
    <3>1. /\ ni' = [n EXCEPT !.changed = TRUE] /\ pc' = "write"
          /\ lv' = CallWrite(lv, second, top, "us_backup")
      BY <2>13 DEF WriteNext
    <3>2. lv'.ba = second /\ lv'.limit = top /\ lv'.ret = "us_backup"
      BY <2>0, <3>1 DEF CallWrite, Locals
    <3>3. /\ ni'.main_table_ba = first /\ ni'.backup_table_ba = second
          /\ ni'.mapping_blocks_top_ba = top
          /\ Mappings' /\ Knows' /\ Regions'
          /\ Unavailable(ni'.info_table_cache.block_state, oob', first)
      BY <2>10, <2>13, <3>1
    <3>4. From("us_backup", lv.ba)' /\ UpTo("us_backup", lv.limit)'
      BY <2>8, <3>2, <3>3 DEF From, UpTo
    <3>5. Safe("us_backup")' = {first} /\ Replaced("us_backup")' = {second}
      BY <2>8, <2>13, <3>3 DEF Safe, Replaced
    <3>6. first \in TablesOnChip' /\ \A b \in TablesOnChip' : b = first \/ b = second
      BY <2>8, <2>13 DEF Tables
    <3>7. /\ Safe("us_backup")' \subseteq TablesOnChip'
          /\ \A b \in TablesOnChip' :
               b \in Safe("us_backup")' \/ (b \in Replaced("us_backup")' /\ lv'.ba <= b)
      BY <2>8, <3>2, <3>5, <3>6
    <3>8. Session'
      BY <2>8, <2>13, <3>1, <3>2, <3>3, <3>4, <3>7, <1>EntersWriteRecord
         DEF AfterWrite, WritesMain
    <3>. QED
      BY <2>2, <3>1, <3>8 DEF Unlaid
  <2>14. CASE second # 0 /\ ni' = n /\ ReturnTo("loaded", TRUE)
    <3>1. pc' = "loaded"
      BY <2>14 DEF ReturnTo
    <3>2. /\ ni'.main_table_ba = first /\ ni'.backup_table_ba = second
          /\ Mappings' /\ Knows' /\ Regions'
          /\ Unavailable(ni'.info_table_cache.block_state, oob', first)
      BY <2>10, <2>14
    <3>3. pc' \in Between
      BY <3>1, LogicLabels
    <3>4. Session'
      BY <2>8, <3>2, <3>3, <1>SettlesRecord
    <3>. QED
      BY <2>2, <3>1, <3>4 DEF Unlaid
  <2>. QED
    BY <2>6, <2>11, <2>12, <2>13, <2>14

<1>. QED
  <2>. SUFFICES ASSUME IInv, RecordInv, Next
                PROVE  RecordInv'
    OBVIOUS
  <2>. SUFFICES ASSUME ~skipped'
                PROVE  Chip' /\ Fresh' /\ Failed' /\ (pc' \notin Unlaid => Session')
    BY DEF RecordInv
  <2>1. Chip /\ Fresh /\ Failed /\ (pc \notin Unlaid => Session)
    BY SkippedStays DEF RecordInv
  <2>2. pc' \notin Unlaid => Fresh' /\ Failed'
    BY DEF Fresh, Failed, Unlaid
  <2>3. \A l \in Between : l \notin Unlaid
    BY DEF Between
  <2>4. ASSUME (BlockStep \/ TableStep) /\ UNCHANGED userVars
        PROVE  Chip' /\ Session' /\ pc' \notin Unlaid
    <3>1. pc \notin Unlaid /\ pc' \notin Unlaid /\ op' = op
      BY <2>4, TableLabelsLaid DEF IInv, userVars
    <3>. QED
      BY <2>1, <2>4, <3>1, <1>BlockStepRecord, <1>TableStepRecord
  <2>5. CASE Detached \/ Crash
    <3>1. Chip' /\ Fresh' /\ pc' = "off"
      BY <2>1, <2>5, <1>PowerRecord
    <3>. QED
      BY <3>1 DEF Failed, Unlaid
  <2>6. CASE LogicStep /\ ~Detached
    <3>1. pc \notin Unlaid
      BY <2>6, LogicLabelsLaid
    <3>. QED
      BY <2>1, <2>2, <2>3, <2>6, <3>1, <1>LogicStepRecord
  <2>7. CASE StartDetach \/ \E lb \in Logical : \/ StartErase(lb)
                                                \/ \E v \in Vals : StartWrite(lb, v)
                                                \/ MarkBad(lb)
    <3>1. pc \notin Unlaid
      BY <2>7, LogicLabelsLaid
    <3>2. Chip' /\ Session' /\ pc' \in Between
      BY <2>1, <2>7, <3>1, <1>StartRecord
    <3>. QED
      BY <2>2, <2>3, <3>2
  <2>8. CASE AttachLoaded \/ CreateMaps \/ CreateMapped \/ CreateMapFails
               \/ CreateClosesSpare \/ CreateReturns
    <3>1. pc \notin Unlaid
      BY <2>8, LogicLabelsLaid
    <3>2. Chip' /\ ((pc' = "failed" /\ Failed') \/ (pc' \in Between /\ Session'))
      BY <2>1, <2>8, <3>1, <1>CreateRecord
    <3>3. pc' = "failed" => Fresh'
      BY DEF Fresh
    <3>. QED
      BY <2>2, <2>3, <3>2, <3>3 DEF Unlaid
  <2>9. CASE AttachLoads
    BY <2>1, <2>2, <2>9, <1>AttachLoadsRecord
  <2>10. CASE AttachNew \/ AttachRecreates
    <3>1. Chip' /\ Fresh' /\ pc' \in {"sig_write", "create"}
      BY <2>1, <2>10, <1>AttachBuildsRecord
    <3>. QED
      BY <3>1 DEF Failed, Unlaid
  <2>11. CASE SigSkips \/ SigErases \/ SigFails \/ SigWritten \/ SigExhausted
    <3>1. Chip' /\ Fresh' /\ Failed' /\ pc' \in {"sig_write", "sig_program", "create", "failed"}
      BY <2>1, <2>11, <1>SignatureRecord
    <3>. QED
      BY <3>1 DEF Unlaid
  <2>12. CASE CreateTables
    <3>1. Chip' /\ Failed' /\ (pc' = "failed" \/ (pc' \notin Unlaid /\ Session'))
      BY <2>1, <2>12, <1>CreateTablesRecord
    <3>2. pc' = "failed" => Fresh'
      BY DEF Fresh
    <3>. QED
      BY <2>2, <3>1, <3>2 DEF Unlaid
  <2>. QED
    BY <2>2, <2>4, <2>5, <2>6, <2>7, <2>8, <2>9, <2>10, <2>11, <2>12 DEF Next, Step, AttachStep
-----------------------------------------------------------------------------
(* The theorems                                                             *)

\* What the tables on the chip and the instance structure have in common stays
\* in step through every update, rescue, rebuild, reload and power failure
THEOREM Record == Spec => []RecordInv
<1>1. Init => RecordInv
  BY InitRecord
<1>2. IInv /\ RecordInv /\ [Next]_vars => RecordInv'
  BY NextRecord, StutterRecord
<1>. QED
  BY <1>1, <1>2, Invariance, PTL DEF Spec

\* With the layout attached, its regions and its mappings are those on record
LEMMA AttachedRecord ==
    ASSUME IInv, RecordInv, Attached, ~skipped
    PROVE  Laid(ni) /\ Regions /\ Mappings
<1>1. CASE pc \in Unlaid \ {"failed"}
  BY <1>1 DEF RecordInv, Fresh, Attached
<1>2. CASE pc = "failed"
  BY <1>2 DEF RecordInv, Failed, Attached
<1>3. CASE pc \notin Unlaid
  BY <1>3 DEF RecordInv, Session, IInv, Layout
<1>. QED
  BY <1>1, <1>2, <1>3

\* The management area keeps its layout, on a chip of any size: main table,
\* backup table, unmapped spare blocks, signature
THEOREM RegionsStayInOrder == Spec => []RegionsInOrder
<1>1. ASSUME IInv, RecordInv, Attached, ~skipped
      PROVE  RegionsInOrder
  <2>1. Laid(ni) /\ Regions /\ ni.main_table_ba # 0
    BY <1>1, AttachedRecord DEF Attached
  <2>2. /\ MgmtStart <= ni.main_table_ba /\ ni.main_table_ba < ni.mapping_blocks_ba
        /\ ni.backup_table_ba # 0 => /\ ni.main_table_ba < ni.backup_table_ba
                                     /\ ni.backup_table_ba < ni.mapping_blocks_ba
        /\ ni.mapping_blocks_ba <= ni.mapping_blocks_top_ba
        /\ ni.mapping_blocks_top_ba < ni.signature_ba
        /\ MgmtStart <= ni.mapping_blocks_ba
    BY <2>1 DEF Laid, Regions
  <2>3. ni.backup_table_ba < ni.mapping_blocks_ba
    <3>1. ni.mapping_blocks_ba \in Nat
      BY SMTT(30), <1>1, GeometryAssumption DEF IInv, TypeOK, Instance
    <3>2. 0 < ni.mapping_blocks_ba
      BY SMTT(30), <2>2, <3>1, GeometryAssumption
    <3>. QED
      BY <2>2, <3>2
  <2>. QED
    BY <2>2, <2>3 DEF RegionsInOrder
<1>2. IInv /\ RecordInv => RegionsInOrder
  BY <1>1 DEF RegionsInOrder
<1>. QED
  BY <1>2, Invariance, Record, PTL

\* Two logic blocks never share a physical block
THEOREM MappingStaysInjective == Spec => []MappingInjective
<1>1. IInv /\ RecordInv => MappingInjective
  BY AttachedRecord DEF MappingInjective, Mappings, Apart, Clear, Home
<1>. QED
  BY <1>1, Invariance, Record, PTL

\* No logic block lies in a block that the table code may still erase, nor in
\* the signature's
THEOREM SpareStaysFree == Spec => []SpareHoldsNoData
<1>1. IInv /\ RecordInv => SpareHoldsNoData
  BY AttachedRecord DEF SpareHoldsNoData, Mappings, Apart, Clear, Home
<1>. QED
  BY <1>1, Invariance, Record, PTL

\* While two tables are on record one of them is readable at every moment, in
\* the middle of an update included, as long as nmbm_map_block never had to step
\* over a spare block
THEOREM TablesSurvive == Spec => [](~skipped => TableSurvives)
<1>1. ASSUME IInv, RecordInv, ~skipped, ni.main_table_ba # 0, ni.backup_table_ba # 0
      PROVE  TablesOnChip # {}
  <2>1. ni \in Instance /\ lv \in Locals
    BY <1>1 DEF IInv, TypeOK
  <2>2. ni.main_table_ba \in Blocks \ {0} /\ ni.backup_table_ba \in Blocks \ {0}
    BY <1>1, <2>1 DEF Instance
  <2>3. CASE pc \in Unlaid
    BY <1>1, <2>2, <2>3 DEF RecordInv, Fresh, Failed, Tables
  <2>4. CASE pc \notin Unlaid /\ ~InWrite
    <3>1. Holders
      BY <1>1, <2>4 DEF RecordInv, Session
    <3>. QED
      BY <2>2, <2>4, <3>1 DEF Holders, Settled, Tables
  <2>5. CASE pc \notin Unlaid /\ InWrite
    <3>1. Holders /\ OnRecord
      BY <1>1, <2>5 DEF RecordInv, Session
    <3>2. PICK l : l = Writer
      OBVIOUS
    <3>3. l \in AfterWrite /\ l # "reb_main"
      BY <1>1, <2>5, <3>1, <3>2 DEF IInv, ReturnLabels, Writer, InWrite, OnRecord
    <3>4. l = "res_main" => lv.tmp \in Blocks \ {0}
      <4>1. SUFFICES ASSUME l = "res_main"
                     PROVE  lv.tmp \in Blocks \ {0}
        OBVIOUS
      <4>2. lv.tmp = ni.mapping_blocks_ba - 1 /\ ni.backup_table_ba < lv.tmp
        BY <2>5, <3>1, <3>2, <4>1 DEF OnRecord
      <4>3. ni.mapping_blocks_ba \in 0 .. BlockCount
        BY <2>1 DEF Instance
      <4>. QED
        BY SMTT(30), <2>2, <4>2, <4>3, GeometryAssumption DEF Blocks
    <3>5. \E b : b \in Safe(l)
      BY <1>1, <2>2, <3>3, <3>4 DEF Safe, AfterWrite
    <3>6. Safe(l) \subseteq TablesOnChip
      BY <2>5, <3>1, <3>2 DEF Holders, InWrite, Writer, AfterWrite
    <3>. QED
      BY <3>5, <3>6
  <2>. QED
    BY <2>3, <2>4, <2>5
<1>2. IInv /\ RecordInv => (~skipped => TableSurvives)
  BY <1>1 DEF TableSurvives
<1>. QED
  BY <1>2, Invariance, Record, PTL
=============================================================================
