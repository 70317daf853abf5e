------------------------------ MODULE NmbmData ------------------------------
(***************************************************************************)
(* The inductive invariant of Nmbm that yields MappingRecorded,            *)
(* Recoverable and DataSurvives: at each label of nmbm-core.c, which       *)
(* tables record the mapping in memory, and why all of them, those left by *)
(* a power failure included, lead to the acknowledged data.                *)
(***************************************************************************)
EXTENDS NmbmRecord

-----------------------------------------------------------------------------
(* The chip                                                                 *)

\* The blocks BAD in st are BAD in st2
FewerBad(st, st2) == \A b \in Blocks : st[b] = BAD => st2[b] = BAD

\* The mapping map leads to the acknowledged data, which the states st allow to
\* be read
Leads(map, st) ==
    \A lb \in Known :
      /\ map[lb] # -1
      /\ flash[map[lb]] = Acknowledged(lb)
      /\ map[lb] \in oob \/ st[map[lb]] # BAD

\* Every table leads to the acknowledged data, and to the same blocks
TablesLead ==
    /\ \A b \in TablesOnChip : Leads(Tbl(b).block_mapping, Tbl(b).block_state)
    /\ \A b, c \in TablesOnChip, lb \in Known :
         Tbl(b).block_mapping[lb] = Tbl(c).block_mapping[lb]

\* The table with the larger write_count knows of all blocks BAD in the other
BadAgree ==
    \A b, c \in TablesOnChip :
      Tbl(c).write_count <= Tbl(b).write_count =>
        FewerBad(Tbl(c).block_state, Tbl(b).block_state)

-----------------------------------------------------------------------------
(* The instance structure and the chip                                      *)

\* The mapping in memory leads to the acknowledged data, as all tables do
Held ==
    /\ Leads(ni.block_mapping, ni.block_state)
    /\ \A lb \in Known :
         /\ lb < ni.data_block_count
         /\ \A b \in TablesOnChip : Tbl(b).block_mapping[lb] = Home(lb)

\* A block once recorded as BAD stays so
BadKnown ==
    /\ \A b \in TablesOnChip :
         FewerBad(Tbl(b).block_state, ni.info_table_cache.block_state)
    /\ FewerBad(ni.info_table_cache.block_state, ni.block_state)

\* map has the block of every logic block that is usable according to home
Records(map, home) == \A lb \in Logical : home[lb] # -1 => map[lb] = home[lb]

\* The tables in the blocks of S record the mapping in memory
Fit(S) == \A b \in S : Records(Tbl(b).block_mapping, ni.block_mapping)

\* The labels at which the mapping in memory may be ahead of the tables
Ahead == {"update", "upd_ret", "create_map"}

\* Which tables record the mapping in memory.  upd_backup writes the first table
\* with a new mapping, all others write when one with it exists.
Current ==
    /\ InWrite =>
         /\ Records(ni.info_table_cache.block_mapping, ni.block_mapping)
         /\ Writer # "upd_backup" => Fit(Safe(Writer))
    /\ pc \in AfterWrite /\ lv.ok => Fit({lv.start})
    /\ ~InWrite => Fit(TablesOnChip) \/ (pc \in Ahead /\ ni.changed)
    /\ pc = "upd_ret" /\ ~lv.ok => TablesOnChip = {}

\* A protected instance has no table, or waits to be detached; without a table
\* it is protected
Protection ==
    /\ ni.protected =>
         /\ ~InWrite /\ pc # "erase_range" /\ ~Rescued
         /\ \/ TablesOnChip = {}
            \/ /\ pc \in {"idle", "detach"} \/ (pc = "update" /\ lv.uret = "detach")
               /\ Fit(TablesOnChip)
    /\ ~InWrite /\ ni.main_table_ba = 0 => ni.protected

\* Where an update returns to an operation that is not yet acknowledged, and the
\* labels of such an operation
Pending == {"erase", "remap_top"}

Operating ==
    \/ pc \in Pending \cup {"remap", "page_write"}
    \/ pc \in TableLabels /\ lv.uret \in Pending

\* The block that is being abandoned is still the one in use
Remapping ==
    \/ pc \in {"remap", "remap_top"}
    \/ pc \in TableLabels /\ lv.uret = "remap_top"

Operation ==
    /\ Operating => op.lb \notin Known /\ op.lb < ni.data_block_count
    /\ Remapping => op.pb = Home(op.lb)
    /\ pc = "page_write" => ni.block_state[Home(op.lb)] # BAD

\* Before the layout is known
Start ==
    pc \in Unlaid \ {"failed"} =>
      /\ ~ni.protected /\ lv.uret \notin Pending
      /\ TablesOnChip = {} /\ ~lost => Known = {}

\* nmbm_load_info_table succeeds with a table
Loaded == pc = "loaded" => ni.main_table_ba # 0

\* Inductive on top of IInv and RecordInv
DataInv ==
    ~skipped =>
      /\ BadAgree /\ Start
      /\ pc \notin Unlaid => BadKnown /\ Current /\ Protection /\ Operation /\ Loaded
      /\ ~lost =>
           /\ TablesLead
           /\ pc \notin Unlaid \/ ni.main_table_ba # 0 => Held
=============================================================================
