----------------------------- MODULE NtfsRunMap -----------------------------
(***************************************************************************)
(* What a runs_tree of ntfs3 promises: a map m from the virtual clusters   *)
(* of a file to clusters of the volume, to a hole (-1), or to nothing.     *)
(***************************************************************************)
EXTENDS Integers

CONSTANTS Vcns, Unmapped

\* Range [vcn, vcn + len) is set to the clusters from lcn on, or to a hole.
Set(m, vcn, lcn, len) ==
  [v \in Vcns |-> IF v \notin vcn .. vcn + len - 1 THEN m[v]
                  ELSE IF lcn = -1 THEN -1 ELSE lcn + (v - vcn)]

\* What lies before lo and from hi on is forgotten.
Keep(m, lo, hi) ==
  [v \in Vcns |-> IF lo <= v /\ v < hi THEN m[v] ELSE Unmapped]

\* Range [vcn, vcn + len) is cut out and what follows moves down.
Cut(m, vcn, len) ==
  [v \in Vcns |-> IF v < vcn THEN m[v]
                  ELSE IF v + len \in Vcns THEN m[v + len] ELSE Unmapped]

\* The clusters in stored are taken over, from vcn on.
Over(m, stored, vcn) ==
  [v \in Vcns |-> IF v >= vcn /\ v \in DOMAIN stored THEN stored[v] ELSE m[v]]

\* The maps agree before vcn: what an operation at vcn that fails owes.
Before(m, n, vcn) == \A v \in Vcns : v < vcn => m[v] = n[v]

\* A Set that failed: n differs from m only from vcn on, by what was to be set
\* and by what was forgotten.
Partly(m, n, vcn, lcn, len) ==
  /\ Before(m, n, vcn)
  /\ \A v \in Vcns : n[v] \in {m[v], Set(m, vcn, lcn, len)[v], Unmapped}

\* An Over that failed: n has taken over a part of it, or forgotten clusters.
PartlyOver(m, n, stored, vcn) ==
  \A v \in Vcns : n[v] \in {m[v], Over(m, stored, vcn)[v], Unmapped}

\* No cluster of the volume is mapped twice.
Disjoint(m) ==
  \A v, w \in Vcns : v # w /\ m[v] = m[w] => m[v] \in {-1, Unmapped}
=============================================================================
