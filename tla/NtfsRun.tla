------------------------------ MODULE NtfsRun ------------------------------
(***************************************************************************)
(* The run list of ntfs3 (run.c, attr_load_runs): a sorted array of runs   *)
(* [vcn, len, lcn] that is split, merged, cut and collapsed in place, and  *)
(* its packed form on disk.  Indices are those of the code, from 0.        *)
(*                                                                         *)
(* A tree t is a record: its runs, the slots allocated for them, mem, the  *)
(* number of further allocations that succeed, and ok, what the function   *)
(* returns.  The owner's lock makes every function atomic.                 *)
(***************************************************************************)
EXTENDS Integers, Sequences, SequencesExt

CONSTANTS MaxVcn,     \* last cluster of the file
          Lcns,       \* where an added run may start; Sparse for a hole
          FirstSlots, \* runs that fit in the first allocation (64 bytes)
          HalfMax,    \* NTFS3_RUN_MAX_BYTES / sizeof(struct ntfs_run) / 2
          Nbits,      \* clusters of the volume
          Attrs,      \* attributes runs are loaded from: [svcn, evcn, pairs]
          BufSizes    \* room for packed runs

Vcns == 0 .. MaxVcn
Sparse == -1

ASSUME BoundsAssumption ==
  /\ MaxVcn \in Nat /\ FirstSlots \in Nat \ {0} /\ HalfMax \in Nat \ {0}
  /\ Nbits \in Nat /\ BufSizes \subseteq Nat \ {0}
ASSUME LcnsAssumption == Lcns \subseteq {Sparse} \cup 0 .. Nbits

VARIABLES runs,       \* run->runs[0 .. count - 1]
          allocated   \* run->allocated, in runs

vars == <<runs, allocated>>

Run(vcn, len, lcn) == [vcn |-> vcn, len |-> len, lcn |-> lcn]
End(r) == r.vcn + r.len
At(rs, index) == rs[index + 1]
Shift(lcn, d) == IF lcn = Sparse THEN Sparse ELSE lcn + d

-----------------------------------------------------------------------------
(* run_lookup *)
Found(i) == [found |-> TRUE, index |-> i]
Missing(i) == [found |-> FALSE, index |-> i]

(* Mutant: the search ends when one run is left. *)
RECURSIVE BisectShort(_, _, _, _)
BisectShort(rs, vcn, min, max) ==
  LET mid == min + (max - min) \div 2 IN
  IF min >= max THEN Missing(max + 1)
  ELSE IF vcn < At(rs, mid).vcn THEN BisectShort(rs, vcn, min, mid - 1)
  ELSE IF vcn >= End(At(rs, mid)) THEN BisectShort(rs, vcn, mid + 1, max)
  ELSE Found(mid)

RECURSIVE Bisect(_, _, _, _)
Bisect(rs, vcn, min, max) ==
  LET mid == min + (max - min) \div 2 IN
  IF min > max THEN Missing(max + 1)
  ELSE IF vcn < At(rs, mid).vcn THEN Bisect(rs, vcn, min, mid - 1)
  ELSE IF vcn >= End(At(rs, mid)) THEN Bisect(rs, vcn, mid + 1, max)
  ELSE Found(mid)

Lookup(rs, vcn) ==
  IF rs = <<>> THEN Missing(0)
  ELSE LET first == At(rs, 0)
           last == At(rs, Len(rs) - 1) IN
       CASE vcn < first.vcn -> Missing(0)
         [] first.vcn <= vcn /\ vcn < End(first) -> Found(0)
         [] vcn >= End(first) /\ vcn >= End(last) -> Missing(Len(rs))
         [] OTHER -> IF vcn >= last.vcn THEN Found(Len(rs) - 1)
                     ELSE Bisect(rs, vcn, 0, Len(rs) - 1)

\* run_lookup_entry: the part from vcn on of the run that holds it.
Rest(r, vcn) == Run(vcn, End(r) - vcn, Shift(r.lcn, vcn - r.vcn))

LookupEntry(rs, look, vcn) ==
  [ok |-> look.found, index |-> look.index,
   run |-> IF look.found THEN Rest(At(rs, look.index), vcn) ELSE Run(vcn, 0, 0)]

\* run_is_mapped_full
RECURSIVE CoveredFrom(_, _, _)
CoveredFrom(rs, i, evcn) ==
  LET next == End(At(rs, i)) IN
  next > evcn \/ (i + 1 < Len(rs) /\ At(rs, i + 1).vcn = next
                    /\ CoveredFrom(rs, i + 1, evcn))

Covered(rs, look, evcn) == look.found /\ CoveredFrom(rs, look.index, evcn)
IsMappedFull(rs, svcn, evcn) == Covered(rs, Lookup(rs, svcn), evcn)

-----------------------------------------------------------------------------
(* run_consolidate: merge the run at index with what follows it. *)
RECURSIVE Consolidate(_, _)

\* The run n at index + 1 begins where r, the one at index, ends.
Merge(rs, index, r, n) ==
  IF (n.lcn = Sparse) # (r.lcn = Sparse) THEN Consolidate(rs, index + 1)
  ELSE IF n.lcn # Sparse /\ n.lcn # r.lcn + r.len THEN rs
  ELSE Consolidate([RemoveAt(rs, index + 2) EXCEPT ![index + 1].len = @ + n.len], index)

Settle(rs, index, r, n) ==
  CASE n.vcn > End(r) -> rs
    [] n.vcn = End(r) -> Merge(rs, index, r, n)
    [] n.vcn < End(r) /\ End(n) <= End(r) -> Consolidate(RemoveAt(rs, index + 2), index)
    [] OTHER -> Merge([rs EXCEPT ![index + 2] = Rest(n, End(r))], index, r,
                      Rest(n, End(r)))

Consolidate(rs, index) ==
  IF index + 1 >= Len(rs) THEN rs
  ELSE Settle(rs, index, At(rs, index), At(rs, index + 1))

(* run_add_entry *)

\* Make room at index, allocating when the array is full, and put e there.
Insert(t, index, e) ==
  LET full == Len(t.runs) + 1 > t.allocated
      put == [t EXCEPT !.runs = InsertAt(@, index + 1, e)] IN
  IF ~full THEN put
  ELSE IF t.mem = 0 THEN [t EXCEPT !.ok = FALSE]
  ELSE [put EXCEPT !.mem = @ - 1,
                   !.allocated = IF t.runs = <<>> THEN FirstSlots ELSE 2 * @]

\* The run e begins where the one before index ends, on the next clusters.
Continues(rs, index, e) ==
  index > 0 /\ LET p == At(rs, index - 1) IN
    /\ End(p) = e.vcn /\ (p.lcn = Sparse) = (e.lcn = Sparse)
    /\ (e.lcn = Sparse \/ e.lcn = p.lcn + p.len)

\* e, which begins inside r, lies on other clusters than r.
Differs(r, e) ==
  \/ (e.lcn = Sparse) # (r.lcn = Sparse)
  \/ e.lcn # Sparse /\ e.lcn # r.lcn + (e.vcn - r.vcn)

RECURSIVE AddEntry(_, _)

\* The end of run_add_entry: normalise, and add the tail again that was cut
\* off the run e was put into.
AddTail(t, tail) == IF tail.len > 0 THEN AddEntry(t, tail) ELSE t

Finish(t, from, tail) ==
  IF ~t.ok THEN t
  ELSE AddTail([t EXCEPT !.runs = Consolidate(Consolidate(@, from), from + 1)], tail)

NoTail == Run(0, 0, 0)
Previous(index) == IF index > 0 THEN index - 1 ELSE index

\* e begins in, or right after, the run r at index.
AddInside(t, index, r, e) ==
  LET tail == IF Differs(r, e) /\ End(e) < End(r) THEN Rest(r, End(e)) ELSE NoTail IN
  IF Differs(r, e) /\ e.vcn > r.vcn
  THEN Finish(Insert([t EXCEPT !.runs[index + 1].len = e.vcn - r.vcn], index + 1, e),
              index + 1, tail)
  ELSE Finish([t EXCEPT !.runs[index + 1] =
                 Run(r.vcn, Max({End(r), End(e)}) - r.vcn,
                     IF Differs(r, e) THEN e.lcn ELSE r.lcn)],
              Previous(index), tail)

AddAt(t, look, e) ==
  IF look.found THEN AddInside(t, look.index, At(t.runs, look.index), e)
  ELSE IF Continues(t.runs, look.index, e)
  THEN AddInside(t, look.index - 1, At(t.runs, look.index - 1), e)
  ELSE Finish(Insert(t, look.index, e), look.index, NoTail)

AddEntry(t, e) == AddAt(t, Lookup(t.runs, e.vcn), e)

-----------------------------------------------------------------------------
(* run_truncate_head, run_truncate, run_truncate_around *)

\* The array is freed when the last run goes.
Freed(t) == IF t.runs = <<>> THEN [t EXCEPT !.allocated = 0] ELSE t

(* Mutant: the run that is cut keeps its lcn. *)
HeadCutKeepingLcn(rs, look, vcn) ==
  LET left == SubSeq(rs, look.index + 1, Len(rs)) IN
  IF look.found
  THEN [left EXCEPT ![1] = Run(vcn, End(@) - vcn, @.lcn)]
  ELSE left

\* The runs from the one at look on, the first cut to begin at vcn.
HeadCut(rs, look, vcn) ==
  LET left == SubSeq(rs, look.index + 1, Len(rs)) IN
  IF look.found THEN [left EXCEPT ![1] = Rest(@, vcn)] ELSE left

\* The runs before the one at look, and its part before vcn.
TailCut(rs, look, vcn) ==
  LET left == SubSeq(rs, 1, look.index)
      r == At(rs, look.index) IN
  IF look.found /\ vcn > r.vcn
  THEN Append(left, [r EXCEPT !.len = vcn - r.vcn]) ELSE left

TruncateHead(t, vcn) ==
  Freed([t EXCEPT !.runs = HeadCut(@, Lookup(@, vcn), vcn)])

Truncate(t, vcn) ==
  Freed([t EXCEPT !.runs = TailCut(@, Lookup(@, vcn), vcn)])

Halve(t) ==
  IF Len(t.runs) >= HalfMax
  THEN Truncate(t, At(t.runs, Len(t.runs) \div 2).vcn) ELSE t

TruncateAround(t, vcn) == Halve(TruncateHead(t, vcn))

(* run_collapse_range *)
RECURSIVE CollapseRange(_, _, _)

\* What is left of the runs rs from vcn on when [vcn, end) is taken out.
MovedDown(rs, vcn, end) ==
  LET Moved(n) == IF n.vcn >= end THEN [n EXCEPT !.vcn = @ - (end - vcn)]
                  ELSE [Rest(n, end) EXCEPT !.vcn = vcn]
      left == SelectSeq(rs, LAMBDA n : End(n) > end) IN
  [i \in DOMAIN left |-> Moved(left[i])]

\* The run r at index is cut off at vcn, or shortened when it is a hole that
\* goes on after the range.
CollapseInside(t, index, r, vcn, end) ==
  LET first == [r EXCEPT !.len = IF End(r) <= end THEN vcn - r.vcn
                                 ELSE @ - (end - vcn)] IN
  [t EXCEPT !.runs = Append(SubSeq(@, 1, index), first)
                       \o MovedDown(SubSeq(@, index + 2, Len(@)), vcn, end)]

\* A range in the middle of a run is made a hole first.
CollapseHole(t, vcn, len) == IF t.ok THEN CollapseRange(t, vcn, len) ELSE t

CollapseAt(t, index, r, vcn, len) ==
  IF vcn = r.vcn
  THEN [t EXCEPT !.runs = SubSeq(@, 1, index)
                            \o MovedDown(SubSeq(@, index + 1, Len(@)), vcn, vcn + len)]
  ELSE IF End(r) > vcn + len /\ r.lcn # Sparse
  THEN CollapseHole(AddEntry(t, Run(vcn, len, Sparse)), vcn, len)
  ELSE CollapseInside(t, index, r, vcn, vcn + len)

CollapseLooked(t, index, vcn, len) == CollapseAt(t, index, At(t.runs, index), vcn, len)
CollapseRange(t, vcn, len) == CollapseLooked(t, Lookup(t.runs, vcn).index, vcn, len)

-----------------------------------------------------------------------------
(* The packed form.  A byte holds two bits here (Base = 4), so that short  *)
(* files reach lengths and offsets of several bytes.  A packed run is the  *)
(* bytes of its length and of its offset, least significant first; how     *)
(* many there are is what the header byte says, and an empty list stands   *)
(* for offset_size = 0.                                                    *)
Base == 4
Byte(n, i) == (n \div Base ^ i) % Base
Bytes(n, size) == [i \in 1 .. size |-> Byte(n, i - 1)]

\* The highest byte of n, from the lowest on, that is not just the sign.
TopByte(n, fill) ==
  LET Used(p, is) == \E i \in is : Byte(n, p + i) # fill
      Add2(p) == IF Used(p, 2 .. 3) THEN p + 2 ELSE p
      Add1(p) == IF Used(p, {1}) THEN p + 1 ELSE p IN
  Add1(Add2(IF Used(0, 4 .. 7) THEN 4 ELSE 0))

(* Mutant: no byte is added for the sign. *)
SignedSizeBare(n, top) == 1 + top

\* One byte more when the top bit of that byte does not show the sign.
SignedSize(n, top) ==
  1 + (IF (Byte(n, top) >= Base \div 2) # (n < 0) THEN top + 1 ELSE top)

\* run_packed_size: the bytes of an s64 that run_pack_s64 has to keep.
PackedSize(n) == SignedSize(n, TopByte(n, IF n >= 0 THEN 0 ELSE Base - 1))
Packed(n) == Bytes(n, PackedSize(n))

\* run_unpack_s64 into 0, and into 0 or -1 after the top bit of the last byte.
Unsigned(b) == FoldRight(LAMBDA x, y : x + Base * y, b, 0)
Signed(b) == IF b # <<>> /\ Last(b) >= Base \div 2
             THEN Unsigned(b) - Base ^ Len(b) ELSE Unsigned(b)

(* run_pack *)
RECURSIVE PackFrom(_, _, _, _, _, _, _)

\* The packed run p fits if there is room for header and terminator too.
Fits(p, size, room) == room - size - 2 - Len(p.off) >= Len(p.len)

Packs(out, p, n) ==
  [out EXCEPT !.pairs = Append(@, p), !.vcns = @ + n,
              !.size = @ + 1 + Len(p.off) + Len(p.len)]

\* Go on with the run after index, which has to begin at next.
PackNext(rs, index, next, prev, evcn1, room, out) ==
  IF out.size + 1 >= room \/ next >= evcn1 THEN out
  ELSE IF index + 1 >= Len(rs) \/ At(rs, index + 1).vcn # next
  THEN [out EXCEPT !.ok = FALSE]
  ELSE PackFrom(rs, index + 1, At(rs, index + 1), prev, evcn1, room, out)

PackRun(rs, index, r, p, n, prev, evcn1, room, out) ==
  IF Fits(p, out.size, room)
  THEN PackNext(rs, index, End(r), IF r.lcn = Sparse THEN prev ELSE r.lcn,
                evcn1, room, Packs(out, p, n))
  ELSE out

PackFrom(rs, index, r, prev, evcn1, room, out) ==
  LET n == Min({End(r), evcn1}) - r.vcn IN
  PackRun(rs, index, r,
          [len |-> Packed(n),
           off |-> IF r.lcn = Sparse THEN <<>> ELSE Packed(r.lcn - prev)],
          n, prev, evcn1, room, out)

PackEntry(rs, e, evcn1, room, none) ==
  IF e.ok THEN PackFrom(rs, e.index, e.run, 0, evcn1, room, none)
  ELSE [none EXCEPT !.ok = FALSE]

Pack(rs, svcn, len, room) ==
  PackEntry(rs, LookupEntry(rs, Lookup(rs, svcn), svcn), svcn + len, room,
            [ok |-> TRUE, pairs |-> <<>>, size |-> 0, vcns |-> 0])

(* run_unpack *)
RECURSIVE Unpack(_, _, _, _, _, _)

Unpacked(p, vcn, prev) ==
  Run(vcn, Unsigned(p.len), IF p.off = <<>> THEN Sparse ELSE prev + Signed(p.off))

\* lcn is unsigned in the code: a run that ends before cluster 0 ends far
\* behind the volume.  The test for 2^32 clusters refuses no run of a volume
\* smaller than that which the others do not refuse.
Refused(p, r, evcn) ==
  \/ Len(p.len) > 8 \/ Len(p.off) > 8
  \/ r.len = 0 \/ (p.off # <<>> /\ Signed(p.off) = 0)
  \/ End(r) > evcn + 1 \/ (r.lcn # Sparse /\ r.lcn + r.len \notin 0 .. Nbits)

\* Add the part of r from vcn on.  For a hole lcn is SPARSE_LCN64, and the
\* code adds dlen to it like to any other lcn when vcn lies within the run.
AddFrom(t, r, vcn) ==
  IF r.vcn >= vcn THEN AddEntry(t, r)
  ELSE IF End(r) > vcn
  THEN AddEntry(t, Run(vcn, End(r) - vcn, r.lcn + (vcn - r.vcn)))
  ELSE t

UnpackNext(t, pairs, vcn64, prev, evcn, vcn) ==
  IF ~t.ok THEN t ELSE Unpack(t, pairs, vcn64, prev, evcn, vcn)

UnpackRun(t, pairs, r, prev, evcn, vcn) ==
  IF Refused(Head(pairs), r, evcn) THEN [t EXCEPT !.ok = FALSE]
  ELSE UnpackNext(AddFrom(t, r, vcn), Tail(pairs), End(r),
                  IF Head(pairs).off = <<>> THEN prev ELSE r.lcn, evcn, vcn)

Unpack(t, pairs, vcn64, prev, evcn, vcn) ==
  IF pairs = <<>> THEN [t EXCEPT !.ok = vcn64 = evcn + 1]
  ELSE UnpackRun(t, pairs, Unpacked(Head(pairs), vcn64, prev), prev, evcn, vcn)

\* attr_load_runs with run_unpack_ex, which wants the whole attribute mapped
\* in the end.
Checked(t, attr) ==
  [t EXCEPT !.ok = @ /\ IsMappedFull(t.runs, attr.svcn, attr.evcn)]

LoadRuns(t, attr, vcn) ==
  IF IsMappedFull(t.runs, attr.svcn, attr.evcn) THEN t
  ELSE Checked(Unpack(t, attr.pairs, attr.svcn, 0, attr.evcn, vcn), attr)

-----------------------------------------------------------------------------
Init == runs = <<>> /\ allocated = 0

\* A function of the run list is called; mem allocations of it succeed.
Mems == {0, 1, 4}
Tree(mem) == [runs |-> runs, allocated |-> allocated, mem |-> mem, ok |-> TRUE]
Becomes(t) == runs' = t.runs /\ allocated' = t.allocated

Add(vcn, lcn, len) ==
  \E mem \in Mems : Becomes(AddEntry(Tree(mem), Run(vcn, len, lcn)))

DropHead(vcn) == Becomes(TruncateHead(Tree(0), vcn))
DropTail(vcn) == Becomes(Truncate(Tree(0), vcn))
DropAround(vcn) == Becomes(TruncateAround(Tree(0), vcn))

\* The caller has made sure that vcn is mapped.
Collapse(vcn, len) ==
  /\ Lookup(runs, vcn).found
  /\ \E mem \in Mems : Becomes(CollapseRange(Tree(mem), vcn, len))

Load(attr, vcn) ==
  /\ vcn \in attr.svcn .. attr.evcn
  /\ \E mem \in Mems : Becomes(LoadRuns(Tree(mem), attr, vcn))

Next ==
  \/ \E vcn \in Vcns, lcn \in Lcns, len \in 1 .. MaxVcn + 1 :
       vcn + len - 1 \in Vcns /\ (Add(vcn, lcn, len) \/ Collapse(vcn, len))
  \/ \E vcn \in Vcns : DropHead(vcn) \/ DropTail(vcn) \/ DropAround(vcn)
  \/ \E attr \in Attrs, vcn \in Vcns : Load(attr, vcn)

Spec == Init /\ [][Next]_vars

-----------------------------------------------------------------------------
(* Properties. *)
Unmapped == -2
M == INSTANCE NtfsRunMap

Holds(r, v) == r.vcn <= v /\ v < End(r)

\* The map a run list stands for.
MapOf(rs) ==
  [v \in Vcns |->
     IF \E i \in DOMAIN rs : Holds(rs[i], v)
     THEN LET r == rs[CHOOSE i \in DOMAIN rs : Holds(rs[i], v)] IN
          Shift(r.lcn, v - r.vcn)
     ELSE Unmapped]

map == MapOf(runs)

LooksRight(v, look) ==
  /\ {i \in DOMAIN runs : Holds(runs[i], v)}
       = IF look.found THEN {look.index + 1} ELSE {}
  /\ look.index = Len(SelectSeq(runs, LAMBDA r : End(r) <= v))
  /\ look.found => LookupEntry(runs, look, v).run.lcn = map[v]
  /\ \A e \in v .. MaxVcn :
       IsMappedFull(runs, v, e) <=> \A w \in v .. e : map[w] # Unmapped

\* Whatever splits, merges, cuts and failed allocations came before, the list
\* is sorted without overlap: run_lookup's bisection finds exactly the run
\* that holds vcn, or else the place where one has to be inserted, and
\* run_lookup_entry and run_is_mapped_full agree with the map.
LookupFinds ==
  /\ Len(runs) <= allocated
  /\ \A v \in Vcns : LooksRight(v, Lookup(runs, v))

\* The packed runs p of [svcn, evcn] fit, all of them if there is room, and
\* unpacking them gives the clusters back.
Unpacks(u, svcn, last) == u.ok /\ MapOf(u.runs) = M!Keep(map, svcn, last + 1)

GoodPack(p, svcn, evcn, room) ==
  LET last == svcn + p.vcns - 1
      empty == [runs |-> <<>>, allocated |-> 0, mem |-> MaxVcn + 1, ok |-> TRUE] IN
  /\ p.ok /\ p.size + 1 <= room
  /\ 10 * (evcn + 1 - svcn) < room => last = evcn
  /\ Unpacks(Unpack(empty, p.pairs, svcn, 0, last, svcn), svcn, last)

\* A part of the file that is mapped can be packed into any buffer, what is
\* packed fits, a large buffer takes all of it, and unpacking gives the same
\* clusters back.  (Not for a file with cluster 0, the boot sector: an offset
\* of 0 is packed, but run_unpack refuses it.)
PackRoundTrips ==
  M!Disjoint(map) /\ (\A v \in Vcns : map[v] # 0) =>
    \A svcn \in Vcns, room \in BufSizes : \A evcn \in svcn .. MaxVcn :
      IsMappedFull(runs, svcn, evcn) =>
        GoodPack(Pack(runs, svcn, evcn + 1 - svcn, room), svcn, evcn, room)

\* The clusters an attribute's packed runs stand for, as far as they go.
Stored(attr) ==
  LET lens == [k \in DOMAIN attr.pairs |-> Unsigned(attr.pairs[k].len)]
      offs == [k \in DOMAIN attr.pairs |-> Signed(attr.pairs[k].off)]
      start == [k \in DOMAIN lens |-> attr.svcn + SumFunctionOnSet(lens, 1 .. k - 1)]
      Pair(v) == CHOOSE k \in DOMAIN lens : start[k] <= v /\ v < start[k] + lens[k]
      Lcn(k, v) == IF attr.pairs[k].off = <<>> THEN Sparse
                   ELSE SumFunctionOnSet(offs, 1 .. k) + (v - start[k])
      total == SumFunctionOnSet(lens, DOMAIN lens)
  IN [v \in attr.svcn .. attr.svcn + total - 1 |-> Lcn(Pair(v), v)]

\* vcn lies inside a hole of the attribute, not at its beginning: the case in
\* which run_unpack maps the rest of the hole to the clusters from dlen - 1.
InHole(attr, vcn) ==
  /\ {vcn - 1, vcn} \subseteq DOMAIN Stored(attr)
  /\ Stored(attr)[vcn - 1] = Sparse /\ Stored(attr)[vcn] = Sparse

AddSets ==
  \A vcn \in Vcns, lcn \in Lcns, mem \in Mems : \A len \in 1 .. MaxVcn + 1 - vcn :
    LET t == AddEntry(Tree(mem), Run(vcn, len, lcn)) IN
    IF t.ok THEN MapOf(t.runs) = M!Set(map, vcn, lcn, len)
    ELSE M!Partly(map, MapOf(t.runs), vcn, lcn, len)

DropsKeep ==
  \A vcn \in Vcns :
    /\ MapOf(TruncateHead(Tree(0), vcn).runs) = M!Keep(map, vcn, MaxVcn + 1)
    /\ MapOf(Truncate(Tree(0), vcn).runs) = M!Keep(map, 0, vcn)
    /\ LET left == MapOf(TruncateAround(Tree(0), vcn).runs) IN
       /\ \E hi \in 0 .. MaxVcn + 1 : left = M!Keep(map, vcn, hi)
       /\ left[vcn] = map[vcn]

CollapseCuts ==
  \A vcn \in Vcns, mem \in Mems : \A len \in 1 .. MaxVcn + 1 - vcn :
    map[vcn] # Unmapped =>
      LET t == CollapseRange(Tree(mem), vcn, len) IN
      IF t.ok THEN MapOf(t.runs) = M!Cut(map, vcn, len)
      ELSE M!Partly(map, MapOf(t.runs), vcn, Sparse, len)

LoadTakesOver ==
  \A attr \in Attrs, mem \in Mems : \A vcn \in attr.svcn .. attr.evcn :
    LET t == LoadRuns(Tree(mem), attr, vcn) IN
    /\ M!Before(map, MapOf(t.runs), vcn)
    /\ IF IsMappedFull(runs, attr.svcn, attr.evcn) THEN t.runs = runs
       ELSE IF InHole(attr, vcn) THEN TRUE
       ELSE IF t.ok THEN MapOf(t.runs) = M!Over(map, Stored(attr), vcn)
       ELSE M!PartlyOver(map, MapOf(t.runs), Stored(attr), vcn)

\* Every function does to the map what NtfsRunMap says, however runs are
\* split and merged on the way.  When memory runs out half way, or the packed
\* runs are refused half way, the part of the file before vcn keeps its
\* clusters, and after it no cluster is mapped to a place that is neither its
\* old nor its new one: it may only be forgotten.  (Of a load that begins
\* inside a hole only the part before vcn is asked for: InHole.)
Implements == AddSets /\ DropsKeep /\ CollapseCuts /\ LoadTakesOver
=============================================================================
