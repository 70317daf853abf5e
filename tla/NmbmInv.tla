------------------------------- MODULE NmbmInv -------------------------------
(***************************************************************************)
(* The inductive invariant of Nmbm that yields TypeOK and                   *)
(* TableWritesConfined: which addresses each procedure of nmbm-core.c may   *)
(* rely on when it is entered and when the procedures it calls return.      *)
(***************************************************************************)
EXTENDS Nmbm

\* The labels reached before the management area has a layout
Unlaid == {"off", "failed", "sig_write", "sig_program", "create"}

\* Where nmbm_write_info_table, nmbm_erase_range, nmbm_update_info_table and
\* nmbm_rebuild_info_table return
AfterWrite == {"reb_main", "reb_backup", "rs_front", "rs_back", "us_main",
               "us_backup", "upd_backup", "upd_main", "res_tmp", "res_main"}
AfterRebuild == {"create_map", "upd_ret"}
AfterErase == AfterRebuild \cup {"loaded", "rs_erased"}
AfterUpdate == {"idle", "detach", "erase", "remap_top", "create_top", "created"}

\* b is a block in which a table may lie, with the spare area ending at top
TableBlock(b) == MgmtStart <= b /\ b < ni.mapping_blocks_top_ba

\* The layout of the management area that every procedure keeps
Laid(n) ==
    /\ MgmtStart <= n.mapping_blocks_top_ba
    /\ n.mapping_blocks_top_ba < n.signature_ba
    /\ MgmtStart <= n.mapping_blocks_ba
    /\ n.mapping_blocks_ba < n.signature_ba
    /\ \A b \in {n.main_table_ba, n.backup_table_ba} :
         b # 0 => MgmtStart <= b /\ b < n.signature_ba

Layout == pc \notin Unlaid => Laid(ni)

ReturnLabels ==
    /\ pc \in {"write", "program"} => lv.ret \in AfterWrite
    /\ pc = "erase_range" => lv.ret \in AfterErase
    /\ lv.bret \in AfterRebuild
    /\ lv.uret \in AfterUpdate

\* What the loops and their callers may rely on
Ranges ==
    /\ pc \in Writing => MgmtStart <= lv.ba /\ lv.limit <= ni.mapping_blocks_top_ba
    /\ pc = "program" => lv.ba < lv.limit
    /\ pc = "erase_range" => TableBlock(lv.start)
    /\ pc = "rs_erased" => TableBlock(lv.start)
    /\ pc \in AfterWrite /\ lv.ok => TableBlock(lv.start)
    /\ pc = "res_main" \/ (pc \in {"write", "program"} /\ lv.ret = "res_main")
         => TableBlock(lv.tmp)
    /\ pc = "us_main" \/ (pc \in {"write", "program"} /\ lv.ret = "us_main")
         => /\ MgmtStart <= ni.backup_table_ba
            /\ ni.backup_table_ba <= ni.mapping_blocks_top_ba
    /\ pc = "rs_front" \/ (pc \in {"write", "program"} /\ lv.ret = "rs_front")
         => /\ MgmtStart <= ni.main_table_ba
            /\ ni.main_table_ba <= ni.mapping_blocks_top_ba
    /\ pc = "reb_backup" \/ (pc \in {"write", "program"} /\ lv.ret = "reb_backup")
         => MgmtStart <= ni.main_table_ba
    /\ (\/ pc \in {"us_backup", "upd_backup"}
        \/ pc \in {"write", "program"} /\ lv.ret \in {"us_backup", "upd_backup"})
         => MgmtStart <= ni.backup_table_ba

\* A signature only ever lies in the management area, where its search ends
Signature ==
    /\ \A b \in Blocks : flash[b].kind = "sig" => b > MgmtStart
    /\ pc = "sig_program" => MgmtStart < lv.ba /\ lv.ba < BlockCount
    /\ pc = "sig_write" => lv.ba < BlockCount
    /\ pc = "create" => MgmtStart < ni.signature_ba

\* nmbm_write_logic_page has checked that the logic block is mapped
PageWrite == pc = "page_write" => Home(op.lb) # -1 /\ op.val \in Vals

\* Inductive: every step of the driver, and a power failure in the middle of any
\* of them, keeps the tables' writes between the data area and the spare area's
\* top, and every address computed within the chip.
IInv == TypeOK /\ Layout /\ ReturnLabels /\ Ranges /\ Signature /\ PageWrite
=============================================================================
