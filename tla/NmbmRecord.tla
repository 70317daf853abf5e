----------------------------- MODULE NmbmRecord -----------------------------
(***************************************************************************)
(* The inductive invariant of Nmbm that yields RegionsInOrder,              *)
(* MappingInjective, SpareHoldsNoData and TableSurvives: which blocks hold  *)
(* a table at each label of nmbm-core.c, what the tables on the chip and    *)
(* the instance structure have in common, and why an attach after a power   *)
(* failure finds them as they were.  It holds as long as nmbm_map_block     *)
(* never had to step over a spare block.                                    *)
(***************************************************************************)
EXTENDS NmbmInv

Mgmt == MgmtStart .. BlockCount - 1
SigBlocks == {b \in Blocks \ oob : flash[b].kind = "sig"}
Tbl(b) == flash[b].tbl

\* The mapping gives no two logic blocks one block, and no block of the
\* management area up to hi
Clear(map, hi) ==
    /\ \A i, j \in Logical : i # j /\ map[i] # -1 => map[i] # map[j]
    /\ \A lb \in Logical : map[lb] \notin MgmtStart .. hi

\* The blocks not GOOD in st are not GOOD in st2
Fewer(st, st2) == \A b \in Mgmt : st[b] # GOOD => st2[b] # GOOD

\* With the states st and the bad marks no block of the management area below hi
\* can be written
Unavailable(st, marks, hi) == \A b \in MgmtStart .. hi - 1 : b \in marks \/ st[b] # GOOD

-----------------------------------------------------------------------------
(* The chip: what holds of it at every moment, power failures included      *)

\* There is one signature, above all tables
OneSignature ==
    /\ \A s, t \in SigBlocks : s = t
    /\ \A b \in TablesOnChip : \E s \in SigBlocks : b + 2 <= s

\* A table maps nothing into the area that may hold tables, nor to the signature
TablesClear ==
    \A b \in TablesOnChip :
      /\ MgmtStart <= b
      /\ Clear(Tbl(b).block_mapping, b + 1)
      /\ \A lb \in Logical : Tbl(b).block_mapping[lb] \notin SigBlocks

\* There are two tables at most
TwoTables == \A x, y, z \in TablesOnChip : x = y \/ y = z \/ x = z

\* Tables trust each other's blocks; the one with the larger write_count knows
\* of all blocks the other knows to be unusable, and maps nothing to it
TablesAgree ==
    \A b, c \in TablesOnChip :
      /\ Tbl(b).block_state[c] = GOOD
      /\ Tbl(c).write_count <= Tbl(b).write_count =>
           /\ Clear(Tbl(b).block_mapping, c + 1)
           /\ Fewer(Tbl(c).block_state, Tbl(b).block_state)
      /\ Tbl(b).write_count = Tbl(c).write_count => Tbl(b) = Tbl(c)

\* Below two tables no block is left that could be written
NoneBelow ==
    \A b, c \in TablesOnChip :
      b # c /\ Tbl(c).write_count <= Tbl(b).write_count =>
        \/ Unavailable(Tbl(b).block_state, oob, b)
        \/ Unavailable(Tbl(b).block_state, oob, c)

Chip == OneSignature /\ TablesClear /\ TwoTables /\ TablesAgree /\ NoneBelow

-----------------------------------------------------------------------------
(* nmbm_write_info_table on behalf of the procedure with label l            *)

\* The procedure that called it, while it runs or returns
Writer == IF pc \in {"write", "program"} THEN lv.ret ELSE pc

InWrite == pc \in {"write", "program"} \cup AfterWrite

\* The addresses that name a table: 0 stands for none
Tables(S) == S \ {0}

\* The blocks that hold a table while l writes another, ...
Safe(l) ==
    {b \in Blocks \ {0} :
       \/ /\ l \in {"reb_backup", "rs_front", "rs_back", "us_backup", "upd_backup"}
          /\ b = ni.main_table_ba
       \/ l \in {"us_main", "upd_main", "res_tmp"} /\ b = ni.backup_table_ba
       \/ l = "res_main" /\ b = lv.tmp}

\* ... the one that may still hold the table that it replaces, ...
Replaced(l) ==
    {b \in Blocks \ {0} :
       \/ l \in {"us_main", "upd_main"} /\ b = ni.main_table_ba
       \/ l \in {"us_backup", "upd_backup", "res_main"} /\ b = ni.backup_table_ba}

\* ... and the range that it may use: where it may be, and where it ends
From(l, ba) ==
    /\ l \in {"us_main", "upd_main"} => ni.main_table_ba <= ba
    /\ l \in {"us_backup", "upd_backup"} => ni.backup_table_ba <= ba
    /\ l \in {"reb_backup", "rs_back", "res_tmp"} => ni.mapping_blocks_ba <= ba

UpTo(l, limit) ==
    /\ l = "rs_front" => limit = ni.main_table_ba
    /\ l = "us_main" => limit = ni.backup_table_ba
    /\ l = "upd_main" => limit = IF ni.backup_table_ba = 0 THEN ni.mapping_blocks_top_ba
                                                          ELSE ni.backup_table_ba
    /\ l = "res_main" => limit = lv.tmp
    /\ l \in {"reb_main", "reb_backup", "rs_back", "us_backup", "upd_backup", "res_tmp"}
         => limit = ni.mapping_blocks_top_ba

\* The procedures that write a main table
WritesMain == {"reb_main", "rs_front", "us_main", "upd_main", "res_main"}

\* nmbm_rescue_single_info_table has written a table and not recorded it yet
Rescued == pc = "rs_erased" \/ (pc = "erase_range" /\ lv.ret = "rs_erased")

\* The tables on the chip are those on record
Settled == pc \notin Unlaid /\ ~InWrite /\ ~Rescued
-----------------------------------------------------------------------------
(* The instance structure and the chip                                      *)

\* The management area is in order
Regions ==
    /\ ni.main_table_ba # 0 => ni.main_table_ba < ni.mapping_blocks_ba
    /\ ni.backup_table_ba # 0 =>
         /\ ni.main_table_ba # 0
         /\ ni.main_table_ba < ni.backup_table_ba
         /\ ni.backup_table_ba < ni.mapping_blocks_ba
    /\ ni.mapping_blocks_ba <= ni.mapping_blocks_top_ba

\* Which tables are on record at which label
OnRecord ==
    /\ InWrite =>
         /\ ni.main_table_ba = 0 <=> Writer = "reb_main"
         /\ Writer \in {"reb_backup", "rs_front", "rs_back"} => ni.backup_table_ba = 0
         /\ Writer \in {"us_main", "us_backup", "upd_backup", "res_tmp", "res_main"}
              => ni.backup_table_ba # 0
         /\ Writer = "res_main" => /\ lv.tmp = ni.mapping_blocks_ba - 1
                                   /\ ni.backup_table_ba < lv.tmp
    /\ Rescued =>
         /\ ni.main_table_ba # 0 /\ ni.backup_table_ba = 0
         /\ ni.mapping_blocks_ba <= lv.start
    /\ pc = "erase_range" =>
         /\ ni.main_table_ba # 0 /\ ni.main_table_ba < lv.ba
         /\ lv.limit = IF Rescued THEN lv.start ELSE ni.backup_table_ba

\* Where the loop of nmbm_write_mgmt_range is, and where it ended
Extent ==
    /\ InWrite => From(Writer, lv.ba) /\ UpTo(Writer, lv.limit)
    /\ pc = "program" => ni.block_state[lv.ba] = GOOD /\ lv.ba \notin oob
    /\ pc \in AfterWrite =>
         IF lv.ok THEN lv.start = lv.ba /\ lv.ba < lv.limit ELSE lv.limit <= lv.ba

\* Which blocks hold a table
Holders ==
    /\ pc = "write" =>
         /\ Safe(lv.ret) \subseteq TablesOnChip
         /\ \A b \in TablesOnChip :
              b \in Safe(lv.ret) \/ (b \in Replaced(lv.ret) /\ lv.ba <= b)
    /\ pc = "program" => TablesOnChip = Safe(lv.ret)
    /\ pc \in AfterWrite =>
         TablesOnChip = IF lv.ok THEN Safe(pc) \cup {lv.start} ELSE Safe(pc)
    /\ Rescued => TablesOnChip = {ni.main_table_ba, lv.start}
    /\ Settled => TablesOnChip = Tables({ni.main_table_ba, ni.backup_table_ba})

\* The mapping map is clear of the area that may hold tables
Apart(map) ==
    /\ Clear(map, ni.mapping_blocks_top_ba)
    /\ \A lb \in Logical : map[lb] # ni.signature_ba

Mappings ==
    /\ ni.signature_ba \in SigBlocks
    /\ Apart(ni.block_mapping)
    /\ Apart(ni.info_table_cache.block_mapping)
    /\ op.pb \notin MgmtStart .. ni.mapping_blocks_top_ba

\* The instance knows what the tables know; it wrote what it knows into its
\* cache, but for blocks that are not GOOD
Knows ==
    LET cache == ni.info_table_cache
    IN  /\ cache.write_count = ni.write_count
        /\ \A b \in TablesOnChip :
             /\ Tbl(b).write_count <= cache.write_count
             /\ Tbl(b).write_count = cache.write_count => Tbl(b) = cache
             /\ Fewer(Tbl(b).block_state, cache.block_state)
             /\ ni.block_state[b] = GOOD
        /\ Fewer(cache.block_state, ni.block_state)
        /\ \A b \in MgmtStart .. ni.mapping_blocks_top_ba :
             ni.block_state[b] # GOOD => b \in oob \/ cache.block_state[b] # GOOD

\* No block below hi can be written
NoneFree(hi) == Unavailable(ni.info_table_cache.block_state, oob, hi)

\* The main table is in the first block that could be written
MainFirst ==
    /\ InWrite /\ Writer \in WritesMain => NoneFree(lv.ba)
    /\ InWrite /\ Writer \in {"res_tmp", "res_main"} => NoneFree(ni.backup_table_ba)
    /\ ~(InWrite /\ Writer \in {"reb_main", "rs_front"}) => NoneFree(ni.main_table_ba)

\* A new chip: no signature yet, or no table
Fresh ==
    /\ pc \in Unlaid \ {"failed"} => ni.main_table_ba = 0 /\ op.pb = 0
    /\ pc \in {"sig_write", "sig_program", "create"} =>
         Clear(ni.block_mapping, BlockCount - 1)
    /\ pc \in {"sig_write", "sig_program"} =>
         /\ SigBlocks = {}
         /\ \A b \in Blocks : ni.block_state[b] = GOOD => b \notin oob
    /\ pc = "sig_program" => ni.block_state[lv.ba] = GOOD
    /\ pc = "create" => ni.signature_ba \in SigBlocks /\ TablesOnChip = {}

Session ==
    /\ Regions /\ OnRecord /\ Extent /\ Holders
    /\ Mappings /\ Knows /\ MainFirst

\* nmbm_attach failed before it wrote a table, or after the layout was complete
Failed ==
    pc = "failed" /\ ni.main_table_ba # 0 =>
      /\ Laid(ni) /\ Regions /\ Mappings
      /\ TablesOnChip = Tables({ni.main_table_ba, ni.backup_table_ba})

\* Inductive on top of IInv
RecordInv == ~skipped => Chip /\ Fresh /\ Failed /\ (pc \notin Unlaid => Session)
=============================================================================
