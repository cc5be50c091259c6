---------------------------- MODULE MCIngestBatch ----------------------------
(* Instances of IngestBatch for TLC. *)
EXTENDS IngestBatch, TLC

CONSTANTS m1, m2, t1, t2, i1, i2
MCSymmetry == Permutations(Machines) \cup Permutations(Requests) \cup Permutations(Items)
=============================================================================
