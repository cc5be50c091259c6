---------------------------- MODULE MCSyncHalt ----------------------------
(* Instances of SyncHalt for TLC.                                           *)
EXTENDS SyncHalt, TLC

CONSTANTS f1, f2, tray, reporter

FolderSymmetry == Permutations({f1, f2})
Symmetric == FolderSymmetry \cup Permutations({tray, reporter})
=============================================================================
