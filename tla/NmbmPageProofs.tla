--------------------------- MODULE NmbmPageProofs ---------------------------
(***************************************************************************)
(* Proofs about NmbmPageIo: what the page loops of nmbm-mtd.c deliver,     *)
(* report and write, for pages and devices of any size and every request.  *)
(***************************************************************************)
EXTENDS NmbmPageIo, TLAPS

USE ZenonT(60)

-----------------------------------------------------------------------------
(* The inductive invariant                                                  *)

(* The first page of the request, and the place of its first oob byte.     *)
First == ops.from \div WriteSize
OobFirst == First * OobAvail + ops.ooboffs

Locals == [addr : Nat, col : DatCells, ooboffs : OobCells, len : Nat, ooblen : Nat,
           retlen : Nat, oobretlen : Nat, ecc : BOOLEAN, flips : Nat]

Types ==
    /\ pc \in {"idle", "loop", "done"}
    /\ ops \in Requests
    /\ cur \in Locals
    /\ seen \in Seq(ReadReturns)
    /\ DOMAIN chip = 0..Pages-1

(* Before the call, and what its request has passed.                       *)
Begun ==
    /\ pc = "idle" =>
         /\ cur.retlen = 0 /\ cur.oobretlen = 0 /\ ~cur.ecc /\ cur.flips = 0
         /\ seen = <<>> /\ buf = [dat |-> <<>>, oob |-> <<>>]
         /\ \A p \in 0..Pages-1 : /\ \A i \in DatCells : chip[p].dat[i] = Blank
                                  /\ \A i \in OobCells : chip[p].oob[i] = Blank
    /\ pc # "idle" => Admits(ops)

(* Column col of page a, with size bytes to a page, is byte n.             *)
At(a, size, col, n) == a * size + col = n

(* Where the loop stands: the next bytes are those at the column col of    *)
(* page addr, in both runs, as long as bytes are left.                     *)
Cut ==
    pc = "loop" =>
      /\ cur.addr = First + Len(seen)
      /\ cur.retlen + cur.len = ops.len
      /\ cur.oobretlen + cur.ooblen = ops.ooblen
      /\ cur.len > 0 => /\ At(cur.addr, WriteSize, cur.col, ops.from + cur.retlen)
                        /\ cur.col > 0 => cur.retlen = 0
      /\ cur.ooblen > 0 =>
           /\ At(cur.addr, OobAvail, cur.ooboffs, OobFirst + cur.oobretlen)
           /\ cur.ooboffs > 0 => cur.oobretlen = 0

(* n bytes of the device from the first one on.                            *)
Bytes(what, first, n) == [i \in 1..n |-> <<"chip", what, first + i - 1>>]
IsRun(s, what, first, n) == s = Bytes(what, first, n)

(* What a read has copied so far.                                          *)
Copied ==
    pc = "loop" /\ ops.dir = "read" =>
      /\ chip = [p \in 0..Pages-1 |-> Stored(p)]
      /\ IsRun(buf.dat, "dat", ops.from, cur.retlen)
      /\ IsRun(buf.oob, "oob", OobFirst, cur.oobretlen)

(* What a read has met so far.                                             *)
Met ==
    pc = "loop" /\ ops.dir = "read" =>
      /\ EIO \notin Range(seen)
      /\ cur.ecc <=> EBADMSG \in Range(seen)
      /\ cur.flips \in {0} \union Range(seen)
      /\ \A x \in Range(seen) : x <= cur.flips

(* Pages that n bytes reach.                                               *)
Reach(n, size) == (n + size - 1) \div size

(* The data run and the oob run of a write end in the same page.           *)
InStep ==
    /\ ops.len > 0 /\ ops.ooblen > 0 =>
         /\ Reach(cur.col + cur.len, WriteSize) = Reach(cur.ooboffs + cur.ooblen, OobAvail)
         /\ cur.len = 0 => cur.col = 0
         /\ cur.ooblen = 0 => cur.ooboffs = 0

(* The pages written are those the core has accepted.                      *)
Wrote(p) == p - First + 1 \in {i \in DOMAIN seen : seen[i] = 0}

(* The device holds the bytes at their places in the pages written.        *)
DatPlaced(p) ==
    \A i \in DatCells :
      LET k == p * WriteSize + i - ops.from
      IN  chip[p].dat[i] = IF Wrote(p) /\ k \in 0..ops.len-1 THEN <<"dat", k>> ELSE Blank
OobPlaced(p) ==
    \A i \in OobCells :
      LET k == (p - First) * OobAvail + i - ops.ooboffs
      IN  chip[p].oob[i] = IF Wrote(p) /\ k \in 0..ops.ooblen-1 THEN <<"oob", k>> ELSE Blank

Placed ==
    ops.dir = "write" /\ EvenRuns(ops) =>
      /\ pc = "loop" => InStep /\ \A i \in DOMAIN seen : seen[i] = 0
      /\ pc # "idle" => \A p \in 0..Pages-1 : DatPlaced(p) /\ OobPlaced(p)

PageInv ==
    /\ Types /\ Begun /\ Cut /\ Copied /\ Met /\ Placed
    /\ ReadDelivers /\ ReadReportsWorst
-----------------------------------------------------------------------------
(* Facts about numbers and sequences                                        *)

\* Division with remainder
LEMMA DivMod ==
    ASSUME NEW a \in Nat, NEW b \in Nat \ {0}
    PROVE  a \div b \in Nat /\ a % b \in 0..b-1 /\ a = (a \div b) * b + (a % b)
  BY SMTT(30)

\* The next page begins where this one ends
LEMMA NextPage ==
    ASSUME NEW a \in Int, NEW size \in Int, NEW col \in Int, NEW c \in Int, NEW n \in Int,
           NEW k \in Int, At(a, size, col, c + n), col + k = size
    PROVE  At(a + 1, size, 0, c + (n + k))
<1>1. (a + 1) * size = a * size + size /\ a * size \in Int
  BY SMTT(30)
<1>. QED
  BY SMTT(30), <1>1 DEF At

\* Products and differences
LEMMA Minus ==
    ASSUME NEW a \in Int, NEW b \in Int, NEW c \in Int
    PROVE  (a - b) * c = a * c - b * c
  BY SMTT(30)

\* A page that begins before another one ends is not after it
LEMMA Before ==
    ASSUME NEW a \in Int, NEW b \in Int, NEW c \in Nat \ {0}, a * c < b * c
    PROVE  a < b
  BY SMTT(30)

\* No page is reached by nothing, one by at most a page, and one more by a page
\* more
LEMMA Reaches ==
    ASSUME NEW n \in Nat, NEW size \in Nat \ {0}
    PROVE  /\ n = 0 => Reach(n, size) = 0
           /\ n > 0 /\ n <= size => Reach(n, size) = 1
           /\ n > size => Reach(n, size) = Reach(n - size, size) + 1
           /\ n > 0 => Reach(n, size) >= 1
           /\ Reach(n, size) \in Nat
<1>1. n = 0 => (n + size - 1) \div size = 0
  BY SMTT(30)
<1>2. n > 0 /\ n <= size => (n + size - 1) \div size = 1
  <2>1. ASSUME n > 0, n <= size
        PROVE  (n + size - 1) \div size = 1
    BY SMTT(30), <2>1
  <2>. QED
    BY <2>1
<1>3. n > size => (n + size - 1) \div size = ((n - size) + size - 1) \div size + 1
  BY SMTT(30)
<1>4. n > 0 => (n + size - 1) \div size >= 1
  BY SMTT(30)
<1>5. (n + size - 1) \div size \in Nat
  BY SMTT(30)
<1>. QED
  BY <1>1, <1>2, <1>3, <1>4, <1>5 DEF Reach

\* Max, by what it is the maximum of
LEMMA MaxIs ==
    ASSUME NEW S, NEW m \in S, S \subseteq Int, \A x \in S : x <= m
    PROVE  Max(S) = m
<1>1. \A x \in S : m >= x
  BY SMTT(30)
<1>2. Max(S) \in S /\ \A x \in S : Max(S) >= x
  BY <1>1 DEF Max
<1>. DEFINE k == Max(S)
<1>3. k \in Int /\ m \in Int /\ k >= m /\ k <= m
  BY <1>2
<1>. HIDE DEF k
<1>4. k = m
  BY SMTT(30), <1>3
<1>. QED
  BY <1>4 DEF k

\* What the core has returned so far
LEMMA RangeAppend ==
    ASSUME NEW T, NEW s \in Seq(T), NEW x \in T
    PROVE  Range(Append(s, x)) = Range(s) \union {x}
<1>1. /\ Len(s) \in Nat /\ DOMAIN s = 1..Len(s)
      /\ DOMAIN Append(s, x) = 1..Len(s)+1
      /\ \A i \in 1..Len(s) : Append(s, x)[i] = s[i]
      /\ Append(s, x)[Len(s) + 1] = x
  BY SMTT(30)
<1>2. \A i : i \in 1..Len(s)+1 <=> i \in 1..Len(s) \/ i = Len(s) + 1
  BY SMTT(30), <1>1
<1>. QED
  BY <1>1, <1>2 DEF Range

\* Two adjacent runs of bytes are one
LEMMA BytesJoin ==
    ASSUME NEW what, NEW first \in Int, NEW m \in Nat, NEW n \in Nat, NEW u, NEW v,
           IsRun(u, what, first, m), IsRun(v, what, first + m, n)
    PROVE  IsRun(u \o v, what, first, m + n)
<1>. DEFINE F(i) == <<"chip", what, first + i - 1>>
            s == [i \in 1..m |-> F(i)]
            t == [i \in 1..n |-> F(m + i)]
<1>1. u = s /\ Bytes(what, first, m + n) = [i \in 1..m+n |-> F(i)]
  BY DEF Bytes, IsRun
<1>2. v = t
  <2>1. \A i \in 1..n : first + m + i - 1 = first + (m + i) - 1
    BY SMTT(30)
  <2>. QED
    BY <2>1 DEF Bytes, IsRun
<1>. HIDE DEF F
<1>3. s \in Seq({F(i) : i \in Int}) /\ t \in Seq({F(i) : i \in Int})
  BY SMTT(30)
<1>4. Len(s) = m /\ Len(t) = n
  BY SMTT(30)
<1>5. s \o t = [i \in 1..m+n |-> F(i)]
  BY SMTT(30), <1>3, <1>4
<1>. QED
  BY <1>1, <1>2, <1>5 DEF IsRun

-----------------------------------------------------------------------------
(* A turn of the loop                                                       *)

\* The page and the column at which a request begins
LEMMA Beginning ==
    ASSUME Types
    PROVE  /\ ops.from \in Nat /\ ops.len \in Nat /\ ops.ooboffs \in Nat
           /\ ops.ooblen \in Nat /\ ops.dir \in {"read", "write"}
           /\ First \in Nat /\ OobFirst \in Nat /\ ops.from % WriteSize \in DatCells
           /\ ops.from = First * WriteSize + (ops.from % WriteSize)
<1>1. /\ ops.from \in Nat /\ ops.len \in Nat /\ ops.ooboffs \in Nat
      /\ ops.ooblen \in Nat /\ ops.dir \in {"read", "write"}
  BY SMTT(30), SizeAssumption DEF Types, Requests
<1>2. First \in Nat /\ ops.from % WriteSize \in DatCells
      /\ ops.from = First * WriteSize + (ops.from % WriteSize)
  BY <1>1, DivMod, SizeAssumption DEF First, DatCells
<1>3. OobFirst \in Nat
  BY SMTT(30), <1>1, <1>2, SizeAssumption DEF OobFirst
<1>. QED
  BY <1>1, <1>2, <1>3

\* A chunk ends with the run or with the page
LEMMA Chunks ==
    ASSUME Types
    PROVE  /\ DatChunk \in 0..cur.len /\ cur.col + DatChunk <= WriteSize
           /\ DatChunk = cur.len \/ cur.col + DatChunk = WriteSize
           /\ cur.len > 0 => DatChunk > 0
           /\ OobChunk \in 0..cur.ooblen /\ cur.ooboffs + OobChunk <= OobAvail
           /\ OobChunk = cur.ooblen \/ cur.ooboffs + OobChunk = OobAvail
           /\ cur.ooblen > 0 => OobChunk > 0
  BY SMTT(30), SizeAssumption
     DEF Types, Locals, DatChunk, OobChunk, Least, DatCells, OobCells

\* The checks before the loop keep it on the device
LEMMA InDevice ==
    ASSUME Types, Begun, Cut, More
    PROVE  cur.addr \in 0..Pages-1
<1>1. /\ cur.addr \in Nat /\ cur.col \in Nat /\ cur.ooboffs \in Nat /\ cur.len \in Nat
      /\ cur.ooblen \in Nat /\ cur.retlen \in Nat /\ cur.oobretlen \in Nat
      /\ WriteSize \in Nat \ {0} /\ OobAvail \in Nat \ {0} /\ Pages \in Nat \ {0}
      /\ cur.addr \in Int /\ Pages \in Int /\ OobAvail \in Int
  BY SMTT(30), SizeAssumption DEF Types, Locals, DatCells, OobCells
<1>2. pc = "loop" /\ Admits(ops) /\ ops.from + ops.len <= WriteSize * Pages
  BY DEF More, Begun, Admits
<1>3. cur.addr < Pages
  <2>1. CASE cur.len > 0
    <3>1. /\ cur.addr * WriteSize + cur.col = ops.from + cur.retlen
          /\ cur.retlen + cur.len = ops.len
      BY <1>2, <2>1 DEF Cut, At
    <3>2. cur.addr * WriteSize < Pages * WriteSize
      BY SMTT(30), <1>1, <1>2, <2>1, <3>1, Beginning
    <3>. QED
      BY <1>1, <3>2, Before
  <2>2. CASE cur.ooblen > 0
    <3>1. /\ cur.addr * OobAvail + cur.ooboffs
               = First * OobAvail + ops.ooboffs + cur.oobretlen
          /\ cur.oobretlen + cur.ooblen = ops.ooblen
      BY <1>2, <2>2 DEF Cut, At, OobFirst
    <3>2. ops.ooboffs + ops.ooblen <= (Pages - First) * OobAvail
      BY <1>2 DEF Admits, First
    <3>. First \in Int
      BY SMTT(30), Beginning
    <3>3. (Pages - First) * OobAvail = Pages * OobAvail - First * OobAvail
      BY <1>1, Minus
    <3>4. cur.addr * OobAvail \in Int /\ First * OobAvail \in Int /\ Pages * OobAvail \in Int
      BY SMTT(30), <1>1
    <3>5. cur.addr * OobAvail < Pages * OobAvail
      BY SMTT(30), <1>1, <2>2, <3>1, <3>2, <3>3, <3>4, Beginning
    <3>. QED
      BY <1>1, <3>5, Before
  <2>. QED
    BY <2>1, <2>2 DEF More
<1>. QED
  BY SMTT(30), <1>1, <1>3

\* The locals after a turn
LEMMA Advanced ==
    ASSUME Types, NEW rd \in ReadReturns, cur' = Advance(rd)
    PROVE  /\ cur' \in Locals
           /\ cur'.addr = cur.addr + 1
           /\ cur'.len = cur.len - DatChunk /\ cur'.retlen = cur.retlen + DatChunk
           /\ cur'.col = IF cur.len > 0 THEN 0 ELSE cur.col
           /\ cur'.ooblen = cur.ooblen - OobChunk
           /\ cur'.oobretlen = cur.oobretlen + OobChunk
           /\ cur'.ooboffs = IF cur.ooblen > 0 THEN 0 ELSE cur.ooboffs
           /\ cur'.ecc = (cur.ecc \/ rd = EBADMSG)
           /\ cur'.flips \in {cur.flips, rd} /\ cur'.flips >= cur.flips /\ cur'.flips >= rd
<1>1. rd \in Int /\ cur.flips \in Nat
  BY SMTT(30), FlipsAssumption DEF Types, Locals, ReadReturns, EBADMSG, EIO
<1>. DEFINE m == Max({cur.flips, rd})
<1>2. m \in {cur.flips, rd} /\ m >= cur.flips /\ m >= rd
  <2>1. CASE rd <= cur.flips
    <3>1. m = cur.flips
      <4>1. {cur.flips, rd} \subseteq Int /\ \A x \in {cur.flips, rd} : x <= cur.flips
        BY SMTT(30), <1>1, <2>1
      <4>. QED
        BY <4>1, MaxIs
    <3>. QED
      BY SMTT(30), <1>1, <2>1, <3>1
  <2>2. CASE cur.flips <= rd
    <3>1. m = rd
      <4>1. {cur.flips, rd} \subseteq Int /\ \A x \in {cur.flips, rd} : x <= rd
        BY SMTT(30), <1>1, <2>2
      <4>. QED
        BY <4>1, MaxIs
    <3>. QED
      BY SMTT(30), <1>1, <2>2, <3>1
  <2>. QED
    BY SMTT(30), <1>1, <2>1, <2>2
<1>3. m \in Nat
  BY SMTT(30), <1>1, <1>2
<1>4. cur' = [cur EXCEPT !.len = @ - DatChunk, !.retlen = @ + DatChunk,
                !.col = IF cur.len > 0 THEN 0 ELSE @,
                !.ooblen = @ - OobChunk,
                !.ooboffs = IF cur.ooblen > 0 THEN 0 ELSE @, !.oobretlen = @ + OobChunk,
                !.addr = @ + 1,
                !.ecc = @ \/ rd = EBADMSG, !.flips = m]
  BY DEF Advance
<1>. HIDE DEF m
<1>5. cur \in Locals
  BY DEF Types
<1>6. /\ cur'.addr = cur.addr + 1
      /\ cur'.len = cur.len - DatChunk /\ cur'.retlen = cur.retlen + DatChunk
      /\ cur'.col = IF cur.len > 0 THEN 0 ELSE cur.col
      /\ cur'.ooblen = cur.ooblen - OobChunk
      /\ cur'.oobretlen = cur.oobretlen + OobChunk
      /\ cur'.ooboffs = IF cur.ooblen > 0 THEN 0 ELSE cur.ooboffs
      /\ cur'.ecc = (cur.ecc \/ rd = EBADMSG)
      /\ cur'.flips = m
  BY <1>4, <1>5 DEF Locals
<1>7. /\ cur.addr + 1 \in Nat /\ cur.len - DatChunk \in Nat /\ cur.retlen + DatChunk \in Nat
      /\ cur.ooblen - OobChunk \in Nat /\ cur.oobretlen + OobChunk \in Nat
      /\ 0 \in DatCells /\ 0 \in OobCells
  BY SMTT(30), <1>5, Chunks, SizeAssumption DEF Locals, DatCells, OobCells
<1>8. cur' \in Locals
  BY <1>3, <1>4, <1>5, <1>7 DEF Locals
<1>. QED
  BY <1>2, <1>6, <1>8

\* Types of what a turn works with
LEMMA Known ==
    ASSUME Types
    PROVE  /\ cur.addr \in Int /\ cur.col \in Int /\ cur.ooboffs \in Int
           /\ cur.retlen \in Int /\ cur.oobretlen \in Int
           /\ cur.len \in Nat /\ cur.ooblen \in Nat
           /\ cur.retlen \in Nat /\ cur.oobretlen \in Nat
           /\ ops.from \in Int /\ OobFirst \in Int
           /\ DatChunk \in Nat /\ OobChunk \in Nat /\ DatChunk \in Int /\ OobChunk \in Int
           /\ WriteSize \in Int /\ OobAvail \in Int
<1>1. /\ cur.addr \in Int /\ cur.col \in Int /\ cur.ooboffs \in Int
      /\ cur.retlen \in Int /\ cur.oobretlen \in Int
      /\ cur.len \in Nat /\ cur.ooblen \in Nat
      /\ cur.retlen \in Nat /\ cur.oobretlen \in Nat
      /\ WriteSize \in Int /\ OobAvail \in Int
  BY SMTT(30), SizeAssumption DEF Types, Locals, DatCells, OobCells
<1>2. ops.from \in Int /\ OobFirst \in Int
  <2>1. ops.from \in Nat /\ OobFirst \in Nat
    BY Beginning
  <2>. QED
    BY SMTT(30), <2>1
<1>3. DatChunk \in Nat /\ OobChunk \in Nat /\ DatChunk \in Int /\ OobChunk \in Int
  BY SMTT(30), <1>1, Chunks
<1>. QED
  BY <1>1, <1>2, <1>3

\* After a turn the next bytes are at the beginning of the next page
LEMMA CutKept ==
    ASSUME Types, Cut, More, NEW rd \in ReadReturns, cur' = Advance(rd),
           NEW x \in ReadReturns, seen' = Append(seen, x), ops' = ops
    PROVE  Cut'
<1>1. First' = First /\ OobFirst' = OobFirst
  BY DEF First, OobFirst
<1>2. cur'.addr = First + Len(seen')
  <2>1. Len(seen') = Len(seen) + 1 /\ Len(seen) \in Nat
    BY SMTT(30) DEF Types
  <2>2. cur.addr = First + Len(seen) /\ cur'.addr = cur.addr + 1 /\ First \in Nat
    BY Advanced, Beginning DEF Cut, More
  <2>. QED
    BY SMTT(30), <2>1, <2>2
<1>3. cur'.retlen + cur'.len = ops.len /\ cur'.oobretlen + cur'.ooblen = ops.ooblen
  <2>1. /\ cur.retlen + cur.len = ops.len /\ cur.oobretlen + cur.ooblen = ops.ooblen
        /\ cur'.len = cur.len - DatChunk /\ cur'.retlen = cur.retlen + DatChunk
        /\ cur'.ooblen = cur.ooblen - OobChunk
        /\ cur'.oobretlen = cur.oobretlen + OobChunk
    BY Advanced DEF Cut, More
  <2>2. /\ cur.retlen \in Int /\ cur.oobretlen \in Int /\ cur.len \in Int
        /\ cur.ooblen \in Int /\ DatChunk \in Int /\ OobChunk \in Int
    BY SMTT(30), Known
  <2>3. /\ (cur.retlen + DatChunk) + (cur.len - DatChunk) = cur.retlen + cur.len
        /\ (cur.oobretlen + OobChunk) + (cur.ooblen - OobChunk) = cur.oobretlen + cur.ooblen
    BY SMTT(30), <2>2
  <2>. QED
    BY <2>1, <2>3
<1>4. ASSUME cur'.len > 0
      PROVE  At(cur'.addr, WriteSize, cur'.col, ops.from + cur'.retlen) /\ cur'.col = 0
  <2>1. cur.len > 0 /\ cur.col + DatChunk = WriteSize
    <3>1. /\ DatChunk \in 0..cur.len
          /\ DatChunk = cur.len \/ cur.col + DatChunk = WriteSize
          /\ cur.len - DatChunk > 0
      BY <1>4, Advanced, Chunks
    <3>. QED
      BY SMTT(30), <3>1, Known
  <2>2. At(cur.addr, WriteSize, cur.col, ops.from + cur.retlen)
    BY <2>1 DEF Cut, More
  <2>3. /\ cur'.col = 0 /\ cur'.retlen = cur.retlen + DatChunk
        /\ cur'.addr = cur.addr + 1
    BY <2>1, Advanced
  <2>4. At(cur.addr + 1, WriteSize, 0, ops.from + (cur.retlen + DatChunk))
    BY <2>1, <2>2, Known, NextPage
  <2>. QED
    BY <2>3, <2>4
<1>5. ASSUME cur'.ooblen > 0
      PROVE  At(cur'.addr, OobAvail, cur'.ooboffs, OobFirst + cur'.oobretlen) /\ cur'.ooboffs = 0
  <2>1. cur.ooblen > 0 /\ cur.ooboffs + OobChunk = OobAvail
    <3>1. /\ OobChunk \in 0..cur.ooblen
          /\ OobChunk = cur.ooblen \/ cur.ooboffs + OobChunk = OobAvail
          /\ cur.ooblen - OobChunk > 0
      BY <1>5, Advanced, Chunks
    <3>. QED
      BY SMTT(30), <3>1, Known
  <2>2. At(cur.addr, OobAvail, cur.ooboffs, OobFirst + cur.oobretlen)
    BY <2>1 DEF Cut, More
  <2>3. /\ cur'.ooboffs = 0 /\ cur'.oobretlen = cur.oobretlen + OobChunk
        /\ cur'.addr = cur.addr + 1
    BY <2>1, Advanced
  <2>4. At(cur.addr + 1, OobAvail, 0, OobFirst + (cur.oobretlen + OobChunk))
    BY <2>1, <2>2, Known, NextPage
  <2>. QED
    BY <2>3, <2>4
<1>6. ~(0 > 0)
  BY SMTT(30)
<1>. QED
  BY <1>1, <1>2, <1>3, <1>4, <1>5, <1>6 DEF Cut, At

(* part is the data or oob part of page a, as it is read.                  *)
IsPart(part, what, cells, a, size) == part = [i \in cells |-> <<"chip", what, a * size + i>>]

\* The bytes that are copied out of a page just read are the next ones
LEMMA SliceIsRun ==
    ASSUME NEW what, NEW cells, NEW size \in Int, NEW a \in Int, NEW col \in Int,
           NEW first \in Int, NEW n \in Nat, cells = 0..size-1, 0 <= col, col + n <= size,
           n > 0 => At(a, size, col, first),
           NEW part, n > 0 => IsPart(part, what, cells, a, size)
    PROVE  IsRun(Slice(part, col, n), what, first, n)
<1>1. ASSUME NEW i \in 1..n
      PROVE  part[col + i - 1] = <<"chip", what, first + i - 1>>
  <2>1. n > 0 /\ col + i - 1 \in cells
    BY SMTT(30)
  <2>2. a * size + col = first /\ a * size \in Int
    BY SMTT(30), <2>1 DEF At
  <2>3. a * size + (col + i - 1) = first + i - 1
    BY SMTT(30), <2>2
  <2>. QED
    BY <2>1, <2>3 DEF IsPart
<1>. QED
  BY <1>1 DEF IsRun, Slice, Bytes

\* A turn of a read copies the next bytes of both runs
LEMMA CopiedKept ==
    ASSUME Types, Begun, Cut, Copied, NEW rd \in ReadReturns, ReadPage(rd)
    PROVE  Copied'
<1>1. /\ More /\ pc = "loop" /\ ops.dir = "read" /\ cur' = Advance(rd)
      /\ UNCHANGED <<pc, ops, chip>>
      /\ buf'.dat = buf.dat \o Slice(cache'.dat, cur.col, DatChunk)
      /\ buf'.oob = buf.oob \o Slice(cache'.oob, cur.ooboffs, OobChunk)
  BY DEF ReadPage, More
<1>2. /\ ops.len > 0 => cache'.dat = chip[cur.addr].dat
      /\ ops.ooblen > 0 => cache'.oob = chip[cur.addr].oob
  BY DEF ReadPage
<1>3. OobFirst' = OobFirst
  BY <1>1 DEF OobFirst, First
<1>4. /\ chip[cur.addr].dat = [i \in DatCells |-> <<"chip", "dat", cur.addr * WriteSize + i>>]
      /\ chip[cur.addr].oob = [i \in OobCells |-> <<"chip", "oob", cur.addr * OobAvail + i>>]
  <2>1. chip[cur.addr] = Stored(cur.addr)
    BY <1>1, InDevice DEF Copied
  <2>2. /\ Stored(cur.addr).dat = [i \in DatCells |-> <<"chip", "dat", cur.addr * WriteSize + i>>]
        /\ Stored(cur.addr).oob = [i \in OobCells |-> <<"chip", "oob", cur.addr * OobAvail + i>>]
    BY DEF Stored
  <2>. QED
    BY <2>1, <2>2
<1>5. IsRun(Slice(cache'.dat, cur.col, DatChunk), "dat", ops.from + cur.retlen, DatChunk)
  <2>1. /\ ops.from + cur.retlen \in Int /\ 0 <= cur.col
        /\ DatChunk > 0 => cur.len > 0 /\ cur.retlen + cur.len > 0
    BY SMTT(30), Known, Chunks DEF Types, Locals, DatCells
  <2>2. DatChunk > 0 => /\ At(cur.addr, WriteSize, cur.col, ops.from + cur.retlen)
                        /\ ops.len > 0
    BY <1>1, <2>1 DEF Cut
  <2>3. cur.col + DatChunk <= WriteSize /\ DatCells = 0..WriteSize-1
    BY Chunks DEF DatCells
  <2>4. DatChunk > 0 => IsPart(cache'.dat, "dat", DatCells, cur.addr, WriteSize)
    BY <1>2, <1>4, <2>2 DEF IsPart
  <2>. QED
    BY <2>1, <2>2, <2>3, <2>4, Known, SliceIsRun
<1>6. IsRun(Slice(cache'.oob, cur.ooboffs, OobChunk), "oob", OobFirst + cur.oobretlen, OobChunk)
  <2>1. /\ OobFirst + cur.oobretlen \in Int /\ 0 <= cur.ooboffs
        /\ OobChunk > 0 => cur.ooblen > 0 /\ cur.oobretlen + cur.ooblen > 0
    BY SMTT(30), Known, Chunks DEF Types, Locals, OobCells
  <2>2. OobChunk > 0 => /\ At(cur.addr, OobAvail, cur.ooboffs, OobFirst + cur.oobretlen)
                        /\ ops.ooblen > 0
    BY <1>1, <2>1 DEF Cut
  <2>3. cur.ooboffs + OobChunk <= OobAvail /\ OobCells = 0..OobAvail-1
    BY Chunks DEF OobCells
  <2>4. OobChunk > 0 => IsPart(cache'.oob, "oob", OobCells, cur.addr, OobAvail)
    BY <1>2, <1>4, <2>2 DEF IsPart
  <2>. QED
    BY <2>1, <2>2, <2>3, <2>4, Known, SliceIsRun
<1>7. IsRun(buf'.dat, "dat", ops.from, cur'.retlen)
  <2>1. IsRun(buf.dat, "dat", ops.from, cur.retlen) /\ cur'.retlen = cur.retlen + DatChunk
    BY <1>1, Advanced DEF Copied
  <2>2. IsRun(buf.dat \o Slice(cache'.dat, cur.col, DatChunk), "dat", ops.from,
              cur.retlen + DatChunk)
    BY <1>5, <2>1, Known, BytesJoin
  <2>. QED
    BY <1>1, <2>1, <2>2
<1>8. IsRun(buf'.oob, "oob", OobFirst, cur'.oobretlen)
  <2>1. IsRun(buf.oob, "oob", OobFirst, cur.oobretlen)
        /\ cur'.oobretlen = cur.oobretlen + OobChunk
    BY <1>1, Advanced DEF Copied
  <2>2. IsRun(buf.oob \o Slice(cache'.oob, cur.ooboffs, OobChunk), "oob", OobFirst,
              cur.oobretlen + OobChunk)
    BY <1>6, <2>1, Known, BytesJoin
  <2>. QED
    BY <1>1, <2>1, <2>2
<1>9. chip = [p \in 0..Pages-1 |-> Stored(p)]
  BY <1>1 DEF Copied
<1>. QED
  BY <1>1, <1>3, <1>7, <1>8, <1>9 DEF Copied, IsRun, Stored

\* A turn of a read remembers the worst page
LEMMA MetKept ==
    ASSUME Types, Met, NEW rd \in ReadReturns \ {EIO}, ReadPage(rd)
    PROVE  Met'
<1>1. /\ pc = "loop" /\ ops.dir = "read" /\ cur' = Advance(rd) /\ seen' = Append(seen, rd)
      /\ UNCHANGED <<pc, ops>>
  BY DEF ReadPage, More
<1>2. Range(seen') = Range(seen) \union {rd} /\ Range(seen) \subseteq Int
  <2>1. seen \in Seq(ReadReturns)
    BY DEF Types
  <2>2. Range(seen') = Range(seen) \union {rd}
    BY <1>1, <2>1, RangeAppend
  <2>3. Range(seen) \subseteq ReadReturns
    BY SMTT(30), <2>1 DEF Range
  <2>4. ReadReturns \subseteq Int
    BY SMTT(30), FlipsAssumption DEF ReadReturns, EBADMSG, EIO
  <2>. QED
    BY <2>2, <2>3, <2>4
<1>3. /\ EIO \notin Range(seen) /\ (cur.ecc <=> EBADMSG \in Range(seen))
      /\ cur.flips \in {0} \union Range(seen)
      /\ \A x \in Range(seen) : x <= cur.flips
  BY <1>1 DEF Met
<1>4. /\ cur'.ecc = (cur.ecc \/ rd = EBADMSG) /\ cur'.flips \in {cur.flips, rd}
      /\ cur'.flips >= cur.flips /\ cur'.flips >= rd
      /\ cur'.flips \in Int /\ cur.flips \in Int /\ rd \in Int
  <2>1. cur'.flips \in Nat /\ cur.flips \in Nat /\ rd \in Int
    BY <1>1, Advanced, SMTT(30), FlipsAssumption DEF Types, Locals, ReadReturns, EBADMSG, EIO
  <2>2. cur'.flips \in Int /\ cur.flips \in Int
    BY SMTT(30), <2>1
  <2>. QED
    BY <1>1, <2>1, <2>2, Advanced
<1>5. \A x \in Range(seen') : x <= cur'.flips
  <2>1. \A x \in Range(seen) : x <= cur'.flips
    BY SMTT(30), <1>2, <1>3, <1>4
  <2>2. rd <= cur'.flips
    BY SMTT(30), <1>4
  <2>. QED
    BY <1>2, <2>1, <2>2
<1>6. cur'.ecc <=> EBADMSG \in Range(seen')
  BY <1>2, <1>3, <1>4
<1>7. cur'.flips \in {0} \union Range(seen') /\ EIO \notin Range(seen')
  BY <1>2, <1>3, <1>4
<1>. QED
  BY <1>5, <1>6, <1>7 DEF Met

-----------------------------------------------------------------------------
(* A turn of a write                                                        *)

\* A chunk takes a run to the next page, or to its end
LEMMA ReachKept ==
    ASSUME NEW size \in Nat \ {0}, NEW col \in 0..size-1, NEW len \in Nat, len > 0,
           NEW n \in 0..len, n > 0, n = len \/ col + n = size, col + n <= size
    PROVE  Reach(col + len, size) = Reach(0 + (len - n), size) + 1
<1>1. CASE n = len
  <2>1. col + len \in Nat /\ col + len > 0 /\ col + len <= size /\ 0 + (len - n) = 0
    BY SMTT(30), <1>1
  <2>2. Reach(col + len, size) = 1
    BY <2>1, Reaches
  <2>3. Reach(0, size) = 0
    BY SMTT(30), Reaches
  <2>. QED
    BY SMTT(30), <2>1, <2>2, <2>3
<1>2. CASE n # len
  <2>1. /\ col + len \in Nat /\ col + len > size
        /\ (col + len) - size = 0 + (len - n)
    BY SMTT(30), <1>2
  <2>2. Reach(col + len, size) = Reach((col + len) - size, size) + 1
    BY <2>1, Reaches
  <2>. QED
    BY <2>1, <2>2
<1>. QED
  BY <1>1, <1>2

\* While both runs are in step, a turn writes data if and only if the request
\* has data, and oob if and only if it has oob
LEMMA BothLeft ==
    ASSUME Types, Cut, More, InStep
    PROVE  (ops.len > 0 <=> cur.len > 0) /\ (ops.ooblen > 0 <=> cur.ooblen > 0)
<1>1. /\ cur.len \in Nat /\ cur.ooblen \in Nat /\ cur.retlen \in Nat /\ cur.oobretlen \in Nat
      /\ cur.col \in Nat /\ cur.ooboffs \in Nat
      /\ ops.len = cur.retlen + cur.len /\ ops.ooblen = cur.oobretlen + cur.ooblen
      /\ cur.len > 0 \/ cur.ooblen > 0
      /\ WriteSize \in Nat \ {0} /\ OobAvail \in Nat \ {0}
  <2>1. /\ cur.len \in Nat /\ cur.ooblen \in Nat /\ cur.retlen \in Nat
        /\ cur.oobretlen \in Nat /\ cur.col \in Nat /\ cur.ooboffs \in Nat
    BY SMTT(30), SizeAssumption DEF Types, Locals, DatCells, OobCells
  <2>. QED
    BY <2>1, SizeAssumption DEF Cut, More
<1>2. ASSUME ops.len > 0, ops.ooblen > 0
      PROVE  cur.len > 0 /\ cur.ooblen > 0
  <2>1. /\ Reach(cur.col + cur.len, WriteSize) = Reach(cur.ooboffs + cur.ooblen, OobAvail)
        /\ cur.len = 0 => cur.col = 0
        /\ cur.ooblen = 0 => cur.ooboffs = 0
    BY <1>2 DEF InStep
  <2>2. cur.col + cur.len \in Nat /\ cur.ooboffs + cur.ooblen \in Nat
    BY SMTT(30), <1>1
  <2>3. /\ cur.col + cur.len = 0 => Reach(cur.col + cur.len, WriteSize) = 0
        /\ cur.col + cur.len > 0 => Reach(cur.col + cur.len, WriteSize) >= 1
    BY <1>1, <2>2, Reaches
  <2>4. /\ cur.ooboffs + cur.ooblen = 0 => Reach(cur.ooboffs + cur.ooblen, OobAvail) = 0
        /\ cur.ooboffs + cur.ooblen > 0 => Reach(cur.ooboffs + cur.ooblen, OobAvail) >= 1
    BY <1>1, <2>2, Reaches
  <2>. QED
    BY SMTT(30), <1>1, <2>1, <2>2, <2>3, <2>4
<1>. QED
  BY SMTT(30), <1>1, <1>2

\* Runs that end in the same page stay in step
LEMMA InStepKept ==
    ASSUME Types, Cut, More, InStep, NEW rd \in ReadReturns, cur' = Advance(rd), ops' = ops
    PROVE  InStep'
<1>1. SUFFICES ASSUME ops.len > 0, ops.ooblen > 0
               PROVE  /\ Reach(cur'.col + cur'.len, WriteSize)
                           = Reach(cur'.ooboffs + cur'.ooblen, OobAvail)
                      /\ cur'.col = 0 /\ cur'.ooboffs = 0
  BY DEF InStep, Reach
<1>2. cur.len > 0 /\ cur.ooblen > 0
  BY <1>1, BothLeft
<1>3. /\ cur'.col = 0 /\ cur'.ooboffs = 0
      /\ cur'.len = cur.len - DatChunk /\ cur'.ooblen = cur.ooblen - OobChunk
  BY <1>2, Advanced
<1>4. Reach(cur.col + cur.len, WriteSize) = Reach(cur.ooboffs + cur.ooblen, OobAvail)
  BY <1>1 DEF InStep
<1>5. /\ cur.col \in 0..WriteSize-1 /\ cur.ooboffs \in 0..OobAvail-1
      /\ cur.len \in Nat /\ cur.ooblen \in Nat
      /\ WriteSize \in Nat \ {0} /\ OobAvail \in Nat \ {0}
  BY SizeAssumption DEF Types, Locals, DatCells, OobCells
<1>6. Reach(cur.col + cur.len, WriteSize) = Reach(0 + (cur.len - DatChunk), WriteSize) + 1
  BY <1>2, <1>5, Chunks, ReachKept
<1>7. Reach(cur.ooboffs + cur.ooblen, OobAvail)
        = Reach(0 + (cur.ooblen - OobChunk), OobAvail) + 1
  BY <1>2, <1>5, Chunks, ReachKept
<1>8. /\ Reach(0 + (cur.len - DatChunk), WriteSize) \in Nat
      /\ Reach(0 + (cur.ooblen - OobChunk), OobAvail) \in Nat
  <2>1. 0 + (cur.len - DatChunk) \in Nat /\ 0 + (cur.ooblen - OobChunk) \in Nat
    BY SMTT(30), <1>5, Chunks
  <2>. QED
    BY <1>5, <2>1, Reaches
<1>. QED
  BY SMTT(30), <1>3, <1>4, <1>6, <1>7, <1>8

(* Cell i of part has byte j of a run of total bytes, if that is in it.    *)
PutAt(part, i, what, j, total) ==
    part[i] = IF j \in 0..total-1 THEN <<what, j>> ELSE Blank

(* In a page with these cells, n bytes from column col on, of a run of     *)
(* total bytes of which k are done, end with the run or with the page.     *)
IsChunk(cells, col, k, n, total) ==
    \E size \in Int : /\ cells = 0..size-1
                      /\ k + n <= total
                      /\ k + n = total \/ col + n = size
                      /\ col > 0 => k = 0

\* A page part as a write prepares it: the bytes of the run that belong into the
\* page, and 0xff around them
LEMMA Pads ==
    ASSUME NEW what, NEW cells, NEW col \in Nat, NEW k \in Nat, NEW n \in Nat,
           NEW total \in Nat, IsChunk(cells, col, k, n, total),
           NEW i \in cells, NEW j, j = k + i - col
    PROVE  PutAt(Padded(cells, what, k, col, n), i, what, j, total)
<1>1. PICK size \in Int : /\ cells = 0..size-1
                          /\ k + n <= total
                          /\ k + n = total \/ col + n = size
                          /\ col > 0 => k = 0
  BY DEF IsChunk
<1>2. i \in Int /\ j \in Int
  BY SMTT(30), <1>1
<1>3. i \in col..col+n-1 <=> j \in 0..total-1
  BY SMTT(30), <1>1, <1>2
<1>4. Padded(cells, what, k, col, n)[i]
        = IF i \in col..col+n-1 THEN <<what, k + i - col>> ELSE Blank
  BY DEF Padded
<1>. QED
  BY <1>3, <1>4 DEF PutAt

\* The pages written after the core has answered for another one
LEMMA WroteKept ==
    ASSUME Types, cur.addr = First + Len(seen), NEW rd \in ReadReturns,
           seen' = Append(seen, rd), ops' = ops, NEW p \in Int
    PROVE  /\ Wrote(p)' <=> Wrote(p) \/ (p = cur.addr /\ rd = 0)
           /\ ~Wrote(cur.addr)
<1>1. /\ Len(seen) \in Nat /\ DOMAIN seen = 1..Len(seen) /\ DOMAIN seen' = 1..Len(seen)+1
      /\ \A i \in 1..Len(seen) : seen'[i] = seen[i]
      /\ seen'[Len(seen) + 1] = rd
  BY SMTT(30) DEF Types
<1>2. First \in Int /\ First' = First
  <2>1. First \in Nat
    BY Beginning
  <2>. QED
    BY SMTT(30), <2>1 DEF First
<1>. DEFINE q == p - First + 1
            m == Len(seen)
<1>3. /\ q \in Int /\ (p = cur.addr <=> q = m + 1) /\ cur.addr - First + 1 = m + 1
      /\ m + 1 \notin 1..m
      /\ (q \in 1..m+1 <=> q \in 1..m \/ q = m + 1)
  BY SMTT(30), <1>1, <1>2
<1>4. Wrote(p) <=> q \in 1..m /\ seen[q] = 0
  BY <1>1 DEF Wrote
<1>5. Wrote(p)' <=> q \in 1..m+1 /\ seen'[q] = 0
  BY <1>1, <1>2 DEF Wrote
<1>6. ~Wrote(cur.addr)
  BY <1>1, <1>3 DEF Wrote
<1>. HIDE DEF q, m
<1>. QED
  BY <1>1, <1>3, <1>4, <1>5, <1>6 DEF m

\* What a write changes on the device
LEMMA WritesPage ==
    ASSUME Types, Begun, Cut, NEW rd \in WriteReturns, WritePage(rd),
           NEW p \in 0..Pages-1
    PROVE  /\ ~(p = cur.addr /\ rd = 0) => chip'[p] = chip[p]
           /\ p = cur.addr /\ rd = 0 =>
                /\ chip'[p].dat = IF ops.len > 0 THEN Filled.dat ELSE chip[p].dat
                /\ chip'[p].oob = IF ops.ooblen > 0 THEN Filled.oob ELSE chip[p].oob
           /\ DOMAIN chip' = 0..Pages-1
<1>1. CASE rd = 0
  <2>1. chip' = [chip EXCEPT ![cur.addr] =
                   [dat |-> IF ops.len > 0 THEN Filled.dat ELSE @.dat,
                    oob |-> IF ops.ooblen > 0 THEN Filled.oob ELSE @.oob]]
    BY <1>1 DEF WritePage
  <2>2. DOMAIN chip = 0..Pages-1
    BY DEF Types
  <2>. QED
    BY <1>1, <2>1, <2>2
<1>2. CASE rd # 0
  BY <1>2 DEF WritePage, Types
<1>. QED
  BY <1>1, <1>2

\* The data of a write are at their places after a turn
LEMMA DatKept ==
    ASSUME Types, Begun, Cut, InStep, NEW rd \in WriteReturns, WritePage(rd),
           NEW p \in 0..Pages-1, DatPlaced(p)
    PROVE  DatPlaced(p)'
<1>1. /\ More /\ pc = "loop" /\ seen' = Append(seen, rd) /\ ops' = ops
      /\ rd \in ReadReturns /\ cur.addr = First + Len(seen) /\ p \in Int
  BY SMTT(30), SizeAssumption, FlipsAssumption DEF WritePage, More, Cut, WriteReturns, ReadReturns
<1>2. SUFFICES ASSUME NEW i \in DatCells, NEW k, k = p * WriteSize + i - ops.from
               PROVE  chip'[p].dat[i] = IF Wrote(p)' /\ k \in 0..ops.len-1
                                        THEN <<"dat", k>> ELSE Blank
  BY <1>1 DEF DatPlaced, DatCells
<1>3. chip[p].dat[i] = IF Wrote(p) /\ k \in 0..ops.len-1 THEN <<"dat", k>> ELSE Blank
  BY <1>2 DEF DatPlaced
<1>4. CASE ~(p = cur.addr /\ rd = 0)
  <2>1. Wrote(p)' <=> Wrote(p)
    BY <1>1, <1>4, WroteKept
  <2>2. chip'[p] = chip[p]
    BY <1>4, WritesPage
  <2>. QED
    BY <1>3, <2>1, <2>2
<1>5. CASE p = cur.addr /\ rd = 0
  <2>1. Wrote(p)' /\ ~Wrote(p)
    BY <1>1, <1>5, WroteKept
  <2>2. CASE ops.len > 0
    <3>1. cur.len > 0
      BY <1>1, <2>2, BothLeft
    <3>2. chip'[p].dat = Padded(DatCells, "dat", cur.retlen, cur.col, DatChunk)
      BY <1>5, <2>2, <3>1, WritesPage DEF Filled
    <3>3. cur.retlen + cur.len = ops.len /\ (cur.col > 0 => cur.retlen = 0)
      BY <1>1, <3>1 DEF Cut
    <3>a. p * WriteSize + cur.col = ops.from + cur.retlen
      BY <1>1, <1>5, <3>1 DEF Cut, At
    <3>4. k = cur.retlen + i - cur.col
      <4>1. p * WriteSize \in Int /\ i \in Int
        BY SMTT(30), <1>1, SizeAssumption DEF DatCells
      <4>. QED
        BY SMTT(30), <1>2, <3>a, <4>1, Known
    <3>5. IsChunk(DatCells, cur.col, cur.retlen, DatChunk, ops.len)
      <4>1. /\ DatChunk \in 0..cur.len /\ cur.len \in Nat /\ cur.retlen \in Nat
            /\ DatChunk = cur.len \/ cur.col + DatChunk = WriteSize
        BY Chunks, Known
      <4>2. /\ cur.retlen + DatChunk <= ops.len
            /\ cur.retlen + DatChunk = ops.len \/ cur.col + DatChunk = WriteSize
        BY SMTT(30), <3>3, <4>1
      <4>. QED
        BY <3>3, <4>2, Known DEF IsChunk, DatCells
    <3>6. cur.col \in Nat /\ ops.len \in Nat
      BY SMTT(30), Beginning DEF Types, Locals, DatCells
    <3>7. PutAt(Padded(DatCells, "dat", cur.retlen, cur.col, DatChunk), i, "dat", k, ops.len)
      BY <3>4, <3>5, <3>6, Known, Pads
    <3>. QED
      BY <2>1, <3>2, <3>7 DEF PutAt
  <2>3. CASE ~(ops.len > 0)
    <3>1. k \notin 0..ops.len-1
      BY SMTT(30), <2>3, Beginning
    <3>2. chip'[p].dat = chip[p].dat
      BY <1>5, <2>3, WritesPage
    <3>. QED
      BY <1>3, <3>1, <3>2
  <2>. QED
    BY <2>2, <2>3
<1>. QED
  BY <1>4, <1>5

\* The oob bytes of a write are at their places after a turn
LEMMA OobKept ==
    ASSUME Types, Begun, Cut, InStep, NEW rd \in WriteReturns, WritePage(rd),
           NEW p \in 0..Pages-1, OobPlaced(p)
    PROVE  OobPlaced(p)'
<1>1. /\ More /\ pc = "loop" /\ seen' = Append(seen, rd) /\ ops' = ops
      /\ rd \in ReadReturns /\ cur.addr = First + Len(seen) /\ p \in Int
  BY SMTT(30), SizeAssumption, FlipsAssumption DEF WritePage, More, Cut, WriteReturns, ReadReturns
<1>0. ASSUME p = cur.addr, cur.ooblen > 0, NEW i \in OobCells
      PROVE  (p - First) * OobAvail + i - ops.ooboffs = cur.oobretlen + i - cur.ooboffs
  <2>1. p * OobAvail + cur.ooboffs = First * OobAvail + ops.ooboffs + cur.oobretlen
    BY <1>0, <1>1 DEF Cut, At, OobFirst
  <2>2. First \in Int /\ ops.ooboffs \in Int /\ OobAvail \in Int /\ i \in Int
    BY SMTT(30), <1>1, Beginning, SizeAssumption DEF OobCells
  <2>3. (p - First) * OobAvail = p * OobAvail - First * OobAvail
    BY <1>1, <2>2, Minus
  <2>4. p * OobAvail \in Int /\ First * OobAvail \in Int
    BY SMTT(30), <1>1, <2>2
  <2>5. PICK A \in Int, B \in Int : A = p * OobAvail /\ B = First * OobAvail
    BY <2>4
  <2>6. (p - First) * OobAvail = A - B /\ A + cur.ooboffs = B + ops.ooboffs + cur.oobretlen
    BY <2>1, <2>3, <2>5
  <2>7. PICK r \in Int, o \in Int, f \in Int :
          r = cur.oobretlen /\ o = cur.ooboffs /\ f = ops.ooboffs
    BY <2>2, Known
  <2>8. A + o = B + f + r
    BY <2>6, <2>7
  <2>9. A - B + i - f = r + i - o
    BY SMTT(30), <2>2, <2>8
  <2>. QED
    BY <2>6, <2>7, <2>9
<1>2. SUFFICES ASSUME NEW i \in OobCells, NEW k, k = (p - First) * OobAvail + i - ops.ooboffs
               PROVE  chip'[p].oob[i] = IF Wrote(p)' /\ k \in 0..ops.ooblen-1
                                        THEN <<"oob", k>> ELSE Blank
  BY <1>1 DEF OobPlaced, OobCells, First
<1>3. chip[p].oob[i] = IF Wrote(p) /\ k \in 0..ops.ooblen-1 THEN <<"oob", k>> ELSE Blank
  BY <1>2 DEF OobPlaced
<1>4. CASE ~(p = cur.addr /\ rd = 0)
  <2>1. Wrote(p)' <=> Wrote(p)
    BY <1>1, <1>4, WroteKept
  <2>2. chip'[p] = chip[p]
    BY <1>4, WritesPage
  <2>. QED
    BY <1>3, <2>1, <2>2
<1>5. CASE p = cur.addr /\ rd = 0
  <2>1. Wrote(p)' /\ ~Wrote(p)
    BY <1>1, <1>5, WroteKept
  <2>2. CASE ops.ooblen > 0
    <3>1. cur.ooblen > 0
      BY <1>1, <2>2, BothLeft
    <3>2. chip'[p].oob = Padded(OobCells, "oob", cur.oobretlen, cur.ooboffs, OobChunk)
      BY <1>5, <2>2, <3>1, WritesPage DEF Filled
    <3>3. cur.oobretlen + cur.ooblen = ops.ooblen /\ (cur.ooboffs > 0 => cur.oobretlen = 0)
      BY <1>1, <3>1 DEF Cut
    <3>4. k = cur.oobretlen + i - cur.ooboffs
      BY <1>0, <1>2, <1>5, <3>1 DEF OobCells
    <3>5. IsChunk(OobCells, cur.ooboffs, cur.oobretlen, OobChunk, ops.ooblen)
      <4>1. /\ OobChunk \in 0..cur.ooblen /\ cur.ooblen \in Nat /\ cur.oobretlen \in Nat
            /\ OobChunk = cur.ooblen \/ cur.ooboffs + OobChunk = OobAvail
        BY Chunks, Known
      <4>2. /\ cur.oobretlen + OobChunk <= ops.ooblen
            /\ cur.oobretlen + OobChunk = ops.ooblen \/ cur.ooboffs + OobChunk = OobAvail
        BY SMTT(30), <3>3, <4>1
      <4>. QED
        BY <3>3, <4>2, Known DEF IsChunk, OobCells
    <3>6. cur.ooboffs \in Nat /\ ops.ooblen \in Nat
      BY SMTT(30), Beginning DEF Types, Locals, OobCells
    <3>7. PutAt(Padded(OobCells, "oob", cur.oobretlen, cur.ooboffs, OobChunk), i, "oob", k,
                ops.ooblen)
      BY <3>4, <3>5, <3>6, Known, Pads
    <3>. QED
      BY <2>1, <3>2, <3>7 DEF PutAt
  <2>3. CASE ~(ops.ooblen > 0)
    <3>1. k \notin 0..ops.ooblen-1
      BY SMTT(30), <2>3, Beginning
    <3>2. chip'[p].oob = chip[p].oob
      BY <1>5, <2>3, WritesPage
    <3>. QED
      BY <1>3, <3>1, <3>2
  <2>. QED
    BY <2>2, <2>3
<1>. QED
  BY <1>4, <1>5

-----------------------------------------------------------------------------
(* PageInv is inductive                                                     *)

\* Before the call
LEMMA InitInv == Init => PageInv
<1>. SUFFICES ASSUME Init PROVE PageInv
  OBVIOUS
<1>1. 0 \in DatCells /\ 0 \in OobCells
  BY SMTT(30), SizeAssumption DEF DatCells, OobCells
<1>2. ops \in Requests /\ ops.dir = "read"
  <2>1. 0 \in 0..WriteSize*Pages /\ 0 \in 0..OobAvail /\ 0 \in 0..OobAvail*Pages
    BY SMTT(30), SizeAssumption
  <2>. QED
    BY <2>1 DEF Init, Requests
<1>3. cur \in Locals
  BY SMTT(30), <1>1 DEF Init, Locals
<1>4. seen \in Seq(ReadReturns)
  BY SMTT(30) DEF Init
<1>5. DOMAIN chip = 0..Pages-1
  BY DEF Init
<1>6. Types /\ pc = "idle"
  BY <1>2, <1>3, <1>4, <1>5 DEF Types, Init
<1>7. Begun
  BY <1>6 DEF Init, Begun
<1>. QED
  BY <1>2, <1>6, <1>7 DEF PageInv, Cut, Copied, Met, Placed, ReadDelivers, ReadReportsWorst

\* A request is admitted
LEMMA StartInv ==
    ASSUME PageInv, NEW r \in Requests, Start(r)
    PROVE  PageInv'
<1>1. /\ pc = "idle" /\ pc' = "loop" /\ Admits(r) /\ ops' = r
      /\ UNCHANGED <<ret, cache, buf, seen>>
      /\ chip' = IF r.dir = "read" THEN [p \in 0..Pages-1 |-> Stored(p)] ELSE chip
      /\ Types /\ Begun
  BY DEF Start, PageInv
<1>2. /\ cur.retlen = 0 /\ cur.oobretlen = 0 /\ cur.ecc = FALSE /\ cur.flips = 0 /\ seen = <<>>
      /\ buf = [dat |-> <<>>, oob |-> <<>>]
  <2>1. cur.ecc \in BOOLEAN
    BY <1>1 DEF Types, Locals
  <2>. QED
    BY <1>1, <2>1 DEF Begun
<1>3. /\ r.from \in Nat /\ r.len \in Nat /\ r.ooboffs \in OobCells /\ r.ooblen \in Nat
      /\ r.ooboffs \in Nat
  BY SMTT(30), <1>1, SizeAssumption DEF Requests, Admits, OobCells
<1>4. /\ r.from \div WriteSize \in Nat /\ r.from % WriteSize \in DatCells
      /\ r.from = (r.from \div WriteSize) * WriteSize + (r.from % WriteSize)
  BY <1>3, DivMod, SizeAssumption DEF DatCells
<1>5. cur' = [cur EXCEPT !.addr = r.from \div WriteSize, !.col = r.from % WriteSize,
                         !.ooboffs = r.ooboffs, !.len = r.len, !.ooblen = r.ooblen]
  BY DEF Start
<1>6. cur' \in Locals
  BY <1>1, <1>3, <1>4, <1>5 DEF Types, Locals
<1>7. /\ cur'.addr = r.from \div WriteSize /\ cur'.col = r.from % WriteSize
      /\ cur'.ooboffs = r.ooboffs /\ cur'.len = r.len /\ cur'.ooblen = r.ooblen
      /\ cur'.retlen = 0 /\ cur'.oobretlen = 0 /\ cur'.ecc = FALSE /\ cur'.flips = 0
  BY <1>1, <1>2, <1>5 DEF Types, Locals
<1>8. Types'
  <2>1. DOMAIN chip' = 0..Pages-1
    BY <1>1 DEF Types
  <2>. QED
    BY <1>1, <1>6, <2>1 DEF Types
<1>9. Begun'
  BY <1>1 DEF Begun, Admits
<1>10. First' = r.from \div WriteSize /\ OobFirst' = First' * OobAvail + r.ooboffs
  BY <1>1 DEF First, OobFirst
<1>11. Cut'
  <2>1. cur'.addr = First' + Len(seen')
    BY SMTT(30), <1>1, <1>2, <1>4, <1>7, <1>10
  <2>2. cur'.retlen + cur'.len = r.len /\ cur'.oobretlen + cur'.ooblen = r.ooblen
    BY SMTT(30), <1>3, <1>7
  <2>3. At(cur'.addr, WriteSize, cur'.col, r.from + cur'.retlen)
    <3>1. r.from + 0 = r.from
      BY SMTT(30), <1>3
    <3>. QED
      BY <1>4, <1>7, <3>1 DEF At
  <2>4. At(cur'.addr, OobAvail, cur'.ooboffs, OobFirst' + cur'.oobretlen)
    <3>1. OobFirst' \in Int
      BY SMTT(30), <1>3, <1>4, <1>10, SizeAssumption
    <3>2. \A n \in Int : n + 0 = n
      BY SMTT(30)
    <3>3. OobFirst' + 0 = OobFirst'
      BY <3>1, <3>2
    <3>. QED
      BY <1>7, <1>10, <3>3 DEF At
  <2>. QED
    BY <1>1, <1>7, <2>1, <2>2, <2>3, <2>4 DEF Cut, At
<1>12. Copied'
  <2>1. 1..0 = {}
    BY SMTT(30)
  <2>2. \A what, first : IsRun(<<>>, what, first, 0)
    BY SMTT(30), <2>1 DEF IsRun, Bytes
  <2>3. IsRun(buf'.dat, "dat", r.from, cur'.retlen)
        /\ IsRun(buf'.oob, "oob", OobFirst', cur'.oobretlen)
    BY <1>1, <1>2, <1>7, <2>2
  <2>. QED
    BY <1>1, <2>3 DEF Copied, IsRun, Stored
<1>13. Met'
  <2>1. Range(seen') = {}
    BY SMTT(30), <1>1, <1>2 DEF Range
  <2>. QED
    BY <1>7, <2>1 DEF Met
<1>14. Placed'
  <2>1. SUFFICES ASSUME r.dir = "write", EvenRuns(r)
                 PROVE  /\ InStep' /\ \A i \in DOMAIN seen' : seen'[i] = 0
                        /\ \A p \in 0..Pages-1 : DatPlaced(p)' /\ OobPlaced(p)'
    BY <1>1 DEF Placed, EvenRuns, DatPages, OobPages
  <2>2. DOMAIN seen' = {} /\ chip' = chip
    BY SMTT(30), <1>1, <1>2, <2>1
  <2>3. \A p : ~Wrote(p)'
    BY <2>2 DEF Wrote
  <2>4. \A p \in 0..Pages-1 : /\ \A i \in DatCells : chip'[p].dat[i] = Blank
                              /\ \A i \in OobCells : chip'[p].oob[i] = Blank
    BY <1>1, <2>2 DEF Begun
  <2>5. InStep'
    <3>1. r.len > 0 /\ r.ooblen > 0 => DatPages(r) = OobPages(r)
      BY SMTT(30), <2>1 DEF EvenRuns
    <3>2. r.len > 0 /\ r.ooblen > 0 =>
            Reach(cur'.col + cur'.len, WriteSize) = Reach(cur'.ooboffs + cur'.ooblen, OobAvail)
      BY <1>7, <3>1 DEF DatPages, OobPages, Reach
    <3>3. (r.len > 0 => ~(r.len = 0)) /\ (r.ooblen > 0 => ~(r.ooblen = 0))
      BY SMTT(30)
    <3>. QED
      BY <1>1, <1>7, <3>2, <3>3 DEF InStep, Reach
  <2>. QED
    BY <2>2, <2>3, <2>4, <2>5 DEF DatPlaced, OobPlaced, DatCells, OobCells, Blank
<1>. QED
  BY <1>1, <1>8, <1>9, <1>11, <1>12, <1>13, <1>14
     DEF PageInv, ReadDelivers, ReadReportsWorst

\* A page is read
LEMMA ReadPageInv ==
    ASSUME PageInv, NEW rd \in ReadReturns \ {EIO}, ReadPage(rd)
    PROVE  PageInv'
<1>1. /\ More /\ pc = "loop" /\ ops.dir = "read" /\ rd \in ReadReturns
      /\ UNCHANGED <<pc, ops, ret, chip>> /\ cur' = Advance(rd) /\ seen' = Append(seen, rd)
      /\ Types /\ Begun /\ Cut /\ Copied /\ Met
  BY DEF ReadPage, PageInv, More
<1>2. seen' \in Seq(ReadReturns)
  BY SMTT(30), <1>1 DEF Types
<1>3. Types'
  BY <1>1, <1>2, Advanced DEF Types
<1>4. Begun'
  BY <1>1 DEF Begun, Admits
<1>5. Cut' /\ Copied' /\ Met'
  BY <1>1, CutKept, CopiedKept, MetKept
<1>6. pc' = "loop" /\ ops'.dir = "read"
  BY <1>1
<1>. QED
  BY <1>3, <1>4, <1>5, <1>6 DEF PageInv, Placed, ReadDelivers, ReadReportsWorst

\* A page cannot be read
LEMMA ReadFailsInv ==
    ASSUME PageInv, ReadFails
    PROVE  PageInv'
<1>1. /\ pc = "loop" /\ pc' = "done" /\ ops.dir = "read" /\ ret' = EIO
      /\ UNCHANGED <<ops, cur, chip>> /\ seen' = Append(seen, EIO)
      /\ Types /\ Begun
  BY DEF ReadFails, PageInv, More
<1>2. EIO \in ReadReturns
  BY DEF ReadReturns
<1>3. seen' \in Seq(ReadReturns)
  BY SMTT(30), <1>1, <1>2 DEF Types
<1>4. Types' /\ Begun'
  BY <1>1, <1>3 DEF Types, Begun, Admits
<1>5. Range(seen') = Range(seen) \union {EIO}
  BY SMTT(30), <1>1, <1>2, RangeAppend DEF Types
<1>6. ReadReportsWorst'
  BY SMTT(30), <1>1, <1>5 DEF ReadReportsWorst
<1>7. pc' = "done" /\ ops'.dir = "read" /\ ret' = EIO
  BY <1>1
<1>. QED
  BY <1>4, <1>6, <1>7 DEF PageInv, Cut, Copied, Met, Placed, ReadDelivers

\* A page is written, or cannot be
LEMMA WritePageInv ==
    ASSUME PageInv, NEW rd \in WriteReturns, WritePage(rd)
    PROVE  PageInv'
<1>1. /\ More /\ pc = "loop" /\ ops.dir = "write" /\ UNCHANGED ops
      /\ cur' = Advance(0) /\ seen' = Append(seen, rd)
      /\ pc' \in {"loop", "done"} /\ (pc' = "loop" => rd = 0)
      /\ Types /\ Begun /\ Cut /\ Placed
  BY DEF WritePage, PageInv, More
<1>2. 0 \in ReadReturns /\ rd \in ReadReturns
  BY FlipsAssumption DEF ReadReturns, WriteReturns
<1>3. seen' \in Seq(ReadReturns) /\ pc' # "idle"
  BY SMTT(30), <1>1, <1>2 DEF Types
<1>4. 0 \in 0..Pages-1
  BY SMTT(30), SizeAssumption
<1>5. DOMAIN chip' = 0..Pages-1
  BY <1>1, <1>4, WritesPage
<1>6. Types'
  BY <1>1, <1>2, <1>3, <1>5, Advanced DEF Types
<1>7. Begun'
  BY <1>1, <1>3 DEF Begun, Admits
<1>8. Cut'
  BY <1>1, <1>2, CutKept
<1>9. Placed'
  <2>1. SUFFICES ASSUME EvenRuns(ops)
                 PROVE  /\ pc' = "loop" => InStep' /\ \A i \in DOMAIN seen' : seen'[i] = 0
                        /\ \A p \in 0..Pages-1 : DatPlaced(p)' /\ OobPlaced(p)'
    BY <1>1 DEF Placed, EvenRuns, DatPages, OobPages
  <2>2. /\ InStep /\ \A i \in DOMAIN seen : seen[i] = 0
        /\ \A p \in 0..Pages-1 : DatPlaced(p) /\ OobPlaced(p)
    BY <1>1, <2>1 DEF Placed
  <2>3. InStep'
    BY <1>1, <1>2, <2>2, InStepKept
  <2>4. pc' = "loop" => \A i \in DOMAIN seen' : seen'[i] = 0
    BY SMTT(30), <1>1, <2>2 DEF Types
  <2>. QED
    BY <1>1, <2>2, <2>3, <2>4, DatKept, OobKept
<1>10. ops'.dir = "write"
  BY <1>1
<1>. QED
  BY <1>6, <1>7, <1>8, <1>9, <1>10
     DEF PageInv, Copied, Met, ReadDelivers, ReadReportsWorst

\* The loop ends
LEMMA FinishInv ==
    ASSUME PageInv, Finish
    PROVE  PageInv'
<1>1. /\ pc = "loop" /\ pc' = "done" /\ UNCHANGED <<ops, cur, chip, buf, seen>> /\ ~More
      /\ ret' = IF ops.dir = "write" THEN 0 ELSE IF cur.ecc THEN EBADMSG ELSE cur.flips
      /\ Types /\ Begun /\ Cut /\ Copied /\ Met /\ Placed
  BY DEF Finish, PageInv
<1>2. Types' /\ Begun'
  BY <1>1 DEF Types, Begun, Admits
<1>3. Placed'
  BY <1>1 DEF Placed, EvenRuns, DatPages, OobPages, DatPlaced, OobPlaced, Wrote, First
<1>4. ReadDelivers'
  <2>1. SUFFICES ASSUME ops.dir = "read"
                 PROVE  /\ IsRun(buf.dat, "dat", ops.from, ops.len)
                        /\ IsRun(buf.oob, "oob", OobFirst, ops.ooblen)
    BY <1>1 DEF ReadDelivers, IsRun, Bytes, OobFirst, First
  <2>2. ~(cur.len > 0) /\ ~(cur.ooblen > 0)
    BY <1>1 DEF More
  <2>3. cur.retlen + cur.len = ops.len /\ cur.oobretlen + cur.ooblen = ops.ooblen
    BY <1>1 DEF Cut
  <2>4. cur.retlen = ops.len /\ cur.oobretlen = ops.ooblen
    BY SMTT(30), <1>1, <2>2, <2>3, Known
  <2>. QED
    BY <1>1, <2>1, <2>4 DEF Copied
<1>5. ReadReportsWorst'
  <2>1. SUFFICES ASSUME ops.dir = "read" PROVE ReadReportsWorst'
    BY <1>1 DEF ReadReportsWorst
  <2>2. /\ EIO \notin Range(seen) /\ (cur.ecc <=> EBADMSG \in Range(seen))
        /\ cur.flips \in {0} \union Range(seen) /\ \A x \in Range(seen) : x <= cur.flips
    BY <1>1, <2>1 DEF Met
  <2>3. cur.flips \in Nat
    BY <1>1 DEF Types, Locals
  <2>4. Range(seen) \subseteq Int
    <3>1. Range(seen) \subseteq ReadReturns
      BY SMTT(30), <1>1 DEF Types, Range
    <3>2. ReadReturns \subseteq Int
      BY SMTT(30), FlipsAssumption DEF ReadReturns, EBADMSG, EIO
    <3>. QED
      BY <3>1, <3>2
  <2>5. 0 <= cur.flips /\ 0 \in Int
    BY SMTT(30), <2>3
  <2>6. /\ {0} \union Range(seen) \subseteq Int
        /\ \A x \in {0} \union Range(seen) : x <= cur.flips
    BY <2>2, <2>4, <2>5
  <2>7. Max({0} \union Range(seen)) = cur.flips
    BY SMTT(30), <2>2, <2>6, MaxIs
  <2>8. ret' = IF cur.ecc THEN EBADMSG ELSE cur.flips
    BY <1>1, <2>1
  <2>. HIDE DEF EBADMSG, EIO
  <2>9. CASE cur.ecc
    BY SMTT(30), <1>1, <2>2, <2>8, <2>9 DEF ReadReportsWorst
  <2>10. CASE ~cur.ecc
    <3>1. EBADMSG \notin Range(seen)
      BY <2>2, <2>10
    <3>2. ret' = Max({0} \union Range(seen))
      BY <2>7, <2>8, <2>10
    <3>. QED
      BY SMTT(30), <1>1, <2>2, <3>1, <3>2 DEF ReadReportsWorst
  <2>. QED
    BY <2>9, <2>10
<1>. QED
  BY <1>1, <1>2, <1>3, <1>4, <1>5 DEF PageInv, Cut, Copied, Met

\* Steps that change nothing
LEMMA StutterInv == PageInv /\ UNCHANGED vars => PageInv'
<1>. SUFFICES ASSUME PageInv, UNCHANGED vars PROVE PageInv'
  OBVIOUS
<1>1. UNCHANGED <<pc, ops, ret, cur, chip, buf, seen>>
  BY DEF vars
<1>2. Types' /\ Begun' /\ Cut'
  BY <1>1 DEF PageInv, Types, Begun, Admits, Cut, First, OobFirst, At
<1>3. Copied' /\ Met'
  BY <1>1 DEF PageInv, Copied, OobFirst, First, IsRun, Bytes, Met
<1>4. Placed'
  BY <1>1 DEF PageInv, Placed, EvenRuns, DatPages, OobPages, DatPlaced, OobPlaced, Wrote,
              First, InStep, Reach
<1>5. ReadDelivers' /\ ReadReportsWorst'
  BY <1>1 DEF PageInv, ReadDelivers, ReadReportsWorst
<1>. QED
  BY <1>2, <1>3, <1>4, <1>5 DEF PageInv

\* Every step
LEMMA StepInv == PageInv /\ [Next]_vars => PageInv'
  BY StartInv, ReadPageInv, ReadFailsInv, WritePageInv, FinishInv, StutterInv DEF Next
-----------------------------------------------------------------------------
(* The theorems                                                             *)

(* The invariant of the page loops: where the loop stands in both runs of  *)
(* bytes, what a read has copied and met, and what a write has placed.     *)
THEOREM PageInvariance == Spec => []PageInv
<1>1. Init => PageInv
  BY InitInv
<1>2. PageInv /\ [Next]_vars => PageInv'
  BY StepInv
<1>. QED
  BY <1>1, <1>2, PTL DEF Spec

(* nmbm_mtd_read_data: a read that does not fail delivers the requested    *)
(* data and oob bytes, each in one run across the pages.                   *)
THEOREM ReadsDeliver == Spec => []ReadDelivers
<1>1. PageInv => ReadDelivers
  BY DEF PageInv
<1>. QED
  BY <1>1, PageInvariance, PTL

(* nmbm_mtd_read_data: a read reports the worst page it met.               *)
THEOREM ReadsReportWorst == Spec => []ReadReportsWorst
<1>1. PageInv => ReadReportsWorst
  BY DEF PageInv
<1>. QED
  BY <1>1, PageInvariance, PTL

(* nmbm_mtd_write_data: a write whose two runs reach the same pages puts   *)
(* every byte at its place, 0xff around them, and nothing past the page    *)
(* that failed.                                                            *)
THEOREM WritesPlace == Spec => []WritePlaces
<1>1. PageInv => WritePlaces
  <2>1. SUFFICES ASSUME PageInv, pc = "done", ops.dir = "write", EvenRuns(ops)
                 PROVE  WritePlaces
    BY DEF WritePlaces
  <2>2. \A p \in 0..Pages-1 : DatPlaced(p) /\ OobPlaced(p)
    BY <2>1 DEF PageInv, Placed
  <2>. QED
    BY <2>2 DEF DatPlaced, OobPlaced, WritePlaces, Wrote, First
<1>. QED
  BY <1>1, PageInvariance, PTL
=============================================================================
