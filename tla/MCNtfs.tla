------------------------------- MODULE MCNtfs -------------------------------
(* Small volumes and attributes for the run of NtfsRun. *)
EXTENDS NtfsRun

Pair(len, off, k) == [len |-> Bytes(len, 1), off |-> Bytes(off, k)]

\* Offsets between them need all of the three tests of run_packed_size.
Starts == {Sparse, 40, 5000}

\* Two runs with a hole between them; the second part of a file; one whose
\* runs are shorter than it says; runs of which the second lies before the
\* volume; an offset of too many bytes.
Few ==
  {[svcn |-> 0, evcn |-> 3,
    pairs |-> <<Pair(1, 42, 4), Pair(2, 0, 0), Pair(1, -2, 2)>>],
   [svcn |-> 2, evcn |-> 3, pairs |-> <<Pair(2, 11, 3)>>],
   [svcn |-> 0, evcn |-> 2, pairs |-> <<Pair(1, 0, 0)>>],
   [svcn |-> 0, evcn |-> 2, pairs |-> <<Pair(1, 40, 4), Pair(2, -310, 6)>>],
   [svcn |-> 1, evcn |-> 2, pairs |-> <<Pair(2, 40, 9)>>]}
=============================================================================
