------------------------------ MODULE NmbmPageIo ------------------------------
(***************************************************************************)
(* The page loops of the MTD glue: nmbm_mtd_read_data and                  *)
(* nmbm_mtd_write_data (nmbm-mtd.c), with the checks their callers         *)
(* nmbm_mtd_read_oob and nmbm_mtd_write_oob make first.  A request names a *)
(* run of data bytes and a run of out-of-band (oob) bytes.  The loop cuts  *)
(* both at page boundaries and moves them, a page at a time, through one   *)
(* page cache kept in the device structure.                                *)
(*                                                                         *)
(* One step is one turn of the loop.  Bytes are tokens that tell where     *)
(* they came from.                                                         *)
(***************************************************************************)
EXTENDS Integers, Sequences, FiniteSetsExt

CONSTANTS WriteSize,   \* data bytes in a page
          OobAvail,    \* maxooblen: oob bytes in a page the mode gives access to
          Pages,       \* pages of the device
          Flips        \* numbers of bit flips the core may report for a page

ASSUME SizeAssumption ==
    WriteSize \in Nat \ {0} /\ OobAvail \in Nat \ {0} /\ Pages \in Nat \ {0}
ASSUME FlipsAssumption == Flips \subseteq Nat /\ 0 \in Flips

VARIABLES pc,          \* "idle", "loop" or "done"
          ops,         \* the request
          ret,         \* what the call returns
          cur,         \* locals of the loop
          cache,       \* nm->page_cache: data part and oob part
          chip,        \* the pages below
          buf,         \* ops->datbuf and ops->oobbuf, as far as filled by a read
          seen         \* history: what the core returned for each page

vars == <<pc, ops, ret, cur, cache, chip, buf, seen>>

DatCells == 0..WriteSize-1
OobCells == 0..OobAvail-1
Blank    == <<"ff">>

(* What the core may answer for a page read: bit flips corrected, an       *)
(* uncorrectable page, or a failure; for a page write, success or failure. *)
EBADMSG == -74
EIO     == -5
ReadReturns  == Flips \union {EBADMSG, EIO}
WriteReturns == {0, EIO}

Requests == [dir : {"read", "write"}, from : 0..WriteSize*Pages, len : 0..WriteSize*Pages,
             ooboffs : 0..OobAvail, ooblen : 0..OobAvail*Pages]

Init ==
    /\ pc = "idle"
    /\ ops = [dir |-> "read", from |-> 0, len |-> 0, ooboffs |-> 0, ooblen |-> 0]
    /\ ret = 0
    /\ cur = [addr |-> 0, col |-> 0, ooboffs |-> 0, len |-> 0, ooblen |-> 0,
              retlen |-> 0, oobretlen |-> 0, ecc |-> FALSE, flips |-> 0]
    /\ cache = [dat |-> [i \in DatCells |-> <<"stale", "dat", i>>],
                oob |-> [i \in OobCells |-> <<"stale", "oob", i>>]]
    /\ chip = [p \in 0..Pages-1 |-> [dat |-> [i \in DatCells |-> Blank],
                                     oob |-> [i \in OobCells |-> Blank]]]
    /\ buf = [dat |-> <<>>, oob |-> <<>>]
    /\ seen = <<>>

(* What a page holds when it is read: a token for each place.              *)
Stored(p) == [dat |-> [i \in DatCells |-> <<"chip", "dat", p * WriteSize + i>>],
              oob |-> [i \in OobCells |-> <<"chip", "oob", p * OobAvail + i>>]]

Least(a, b) == IF a <= b THEN a ELSE b

(* The checks of nmbm_mtd_read_oob and nmbm_mtd_write_oob on a request     *)
(* with an oob buffer; any other request is refused with -EINVAL.          *)
Admits(r) ==
    /\ r.from + r.len <= WriteSize * Pages
    /\ r.ooboffs < OobAvail
    /\ r.from < WriteSize * Pages
    /\ r.ooboffs + r.ooblen <= (Pages - r.from \div WriteSize) * OobAvail

Start(r) ==
    /\ pc = "idle"
    /\ Admits(r)
    /\ ops' = r
    /\ cur' = [cur EXCEPT !.addr = r.from \div WriteSize, !.col = r.from % WriteSize,
                          !.ooboffs = r.ooboffs, !.len = r.len, !.ooblen = r.ooblen]
    /\ chip' = IF r.dir = "read" THEN [p \in 0..Pages-1 |-> Stored(p)] ELSE chip
    /\ pc' = "loop"
    /\ UNCHANGED <<ret, cache, buf, seen>>

(* Bytes this turn moves.                                                  *)
DatChunk == Least(WriteSize - cur.col, cur.len)
OobChunk == Least(OobAvail - cur.ooboffs, cur.ooblen)

(* Mutant: the second page is cut like the first.                          *)
KeepCol(rd) ==
    [cur EXCEPT !.len = @ - DatChunk, !.retlen = @ + DatChunk,
                !.ooblen = @ - OobChunk,
                !.ooboffs = IF cur.ooblen > 0 THEN 0 ELSE @, !.oobretlen = @ + OobChunk,
                !.addr = @ + 1,
                !.ecc = @ \/ rd = EBADMSG, !.flips = Max({@, rd})]

(* Mutant: an uncorrectable page is forgotten when the next one is fine.   *)
ForgetEcc(rd) ==
    [cur EXCEPT !.len = @ - DatChunk, !.retlen = @ + DatChunk,
                !.col = IF cur.len > 0 THEN 0 ELSE @,
                !.ooblen = @ - OobChunk,
                !.ooboffs = IF cur.ooblen > 0 THEN 0 ELSE @, !.oobretlen = @ + OobChunk,
                !.addr = @ + 1,
                !.ecc = rd = EBADMSG, !.flips = Max({@, rd})]

(* The locals after a turn: later pages start at their first byte.         *)
Advance(rd) ==
    [cur EXCEPT !.len = @ - DatChunk, !.retlen = @ + DatChunk,
                !.col = IF cur.len > 0 THEN 0 ELSE @,
                !.ooblen = @ - OobChunk,
                !.ooboffs = IF cur.ooblen > 0 THEN 0 ELSE @, !.oobretlen = @ + OobChunk,
                !.addr = @ + 1,
                !.ecc = @ \/ rd = EBADMSG, !.flips = Max({@, rd})]

More == pc = "loop" /\ (cur.len > 0 \/ cur.ooblen > 0)

(* Cells first, first+1, ... of a cached page part.                        *)
Slice(part, first, n) == [i \in 1..n |-> part[first + i - 1]]

(* A page is read into the cache, data if the request has data, oob if it  *)
(* has oob, and the wanted bytes are copied out.                           *)
ReadPage(rd) ==
    /\ More /\ ops.dir = "read"
    /\ seen' = Append(seen, rd)
    /\ cache' = [dat |-> IF ops.len > 0 THEN chip[cur.addr].dat ELSE cache.dat,
                 oob |-> IF ops.ooblen > 0 THEN chip[cur.addr].oob ELSE cache.oob]
    /\ buf' = [dat |-> buf.dat \o Slice(cache'.dat, cur.col, DatChunk),
               oob |-> buf.oob \o Slice(cache'.oob, cur.ooboffs, OobChunk)]
    /\ cur' = Advance(rd)
    /\ UNCHANGED <<pc, ops, ret, chip>>

(* A page cannot be read at all: the call gives up.                        *)
ReadFails ==
    /\ More /\ ops.dir = "read"
    /\ seen' = Append(seen, EIO)
    /\ ret' = EIO
    /\ pc' = "done"
    /\ UNCHANGED <<ops, cur, cache, chip, buf>>

(* The bytes of a page part: n of the caller's, from the k-th on, at cell  *)
(* first, and 0xff around them.                                            *)
Padded(cells, what, k, first, n) ==
    [i \in cells |-> IF i \in first..first+n-1 THEN <<what, k + i - first>> ELSE Blank]

(* Mutant: the bytes around the caller's are left as they were.            *)
Unpadded ==
    [dat |-> [i \in DatCells |-> IF i \in cur.col..cur.col+DatChunk-1
                                 THEN <<"dat", cur.retlen + i - cur.col>> ELSE cache.dat[i]],
     oob |-> cache.oob]

(* The cache a write prepares.  A part with no bytes left keeps what the   *)
(* turn before put there.                                                  *)
Filled ==
    [dat |-> IF cur.len > 0
             THEN Padded(DatCells, "dat", cur.retlen, cur.col, DatChunk) ELSE cache.dat,
     oob |-> IF cur.ooblen > 0
             THEN Padded(OobCells, "oob", cur.oobretlen, cur.ooboffs, OobChunk) ELSE cache.oob]

(* The page is put together in the cache and written, data if the request  *)
(* has data, oob if it has oob.  A page that cannot be written ends the    *)
(* call.                                                                   *)
WritePage(rd) ==
    /\ More /\ ops.dir = "write"
    /\ cache' = Filled
    /\ cur' = Advance(0)
    /\ seen' = Append(seen, rd)
    /\ IF rd = 0
       THEN /\ chip' = [chip EXCEPT ![cur.addr] =
                           [dat |-> IF ops.len > 0 THEN Filled.dat ELSE @.dat,
                            oob |-> IF ops.ooblen > 0 THEN Filled.oob ELSE @.oob]]
            /\ UNCHANGED <<pc, ret>>
       ELSE /\ pc' = "done"
            /\ ret' = rd
            /\ UNCHANGED chip
    /\ UNCHANGED <<ops, buf>>

Finish ==
    /\ pc = "loop" /\ ~More
    /\ ret' = IF ops.dir = "write" THEN 0
              ELSE IF cur.ecc THEN EBADMSG ELSE cur.flips
    /\ pc' = "done"
    /\ UNCHANGED <<ops, cur, cache, chip, buf, seen>>

Next ==
    \/ \E r \in Requests : Start(r)
    \/ \E rd \in ReadReturns \ {EIO} : ReadPage(rd)
    \/ ReadFails
    \/ \E rd \in WriteReturns : WritePage(rd)
    \/ Finish

Spec == Init /\ [][Next]_vars
-----------------------------------------------------------------------------
(* A read that does not fail delivers the bytes of the device from the     *)
(* requested place on, data and oob each in one run across the pages,      *)
(* whatever the two lengths are.                                           *)
ReadDelivers ==
    (pc = "done" /\ ops.dir = "read" /\ ret # EIO) =>
        /\ buf.dat = [i \in 1..ops.len |-> <<"chip", "dat", ops.from + i - 1>>]
        /\ buf.oob = [i \in 1..ops.ooblen |->
              <<"chip", "oob", (ops.from \div WriteSize) * OobAvail + ops.ooboffs + i - 1>>]

(* A read reports the worst page: -EBADMSG if any page was uncorrectable,  *)
(* otherwise the largest number of bit flips of any page.                  *)
ReadReportsWorst ==
    (pc = "done" /\ ops.dir = "read") =>
        ret = CASE EIO \in Range(seen) -> EIO
                [] EIO \notin Range(seen) /\ EBADMSG \in Range(seen) -> EBADMSG
                [] OTHER -> Max({0} \union Range(seen))

(* Pages the data run and the oob run of a request reach.                  *)
DatPages(r) == ((r.from % WriteSize) + r.len + WriteSize - 1) \div WriteSize
OobPages(r) == (r.ooboffs + r.ooblen + OobAvail - 1) \div OobAvail
EvenRuns(r) == r.len = 0 \/ r.ooblen = 0 \/ DatPages(r) = OobPages(r)

(* A write whose data and oob runs reach the same pages puts every byte at *)
(* its place, leaves 0xff everywhere else in those pages, and stops at the *)
(* page that failed.                                                       *)
WritePlaces ==
    (pc = "done" /\ ops.dir = "write" /\ EvenRuns(ops)) =>
        LET good == {i \in DOMAIN seen : seen[i] = 0}
            first == ops.from \div WriteSize
            wrote(p) == p - first + 1 \in good
        IN \A p \in 0..Pages-1 :
              /\ \A i \in DatCells :
                    LET k == p * WriteSize + i - ops.from
                    IN chip[p].dat[i] = IF wrote(p) /\ k \in 0..ops.len-1
                                        THEN <<"dat", k>> ELSE Blank
              /\ \A i \in OobCells :
                    LET k == (p - first) * OobAvail + i - ops.ooboffs
                    IN chip[p].oob[i] = IF wrote(p) /\ k \in 0..ops.ooblen-1
                                        THEN <<"oob", k>> ELSE Blank
=============================================================================
