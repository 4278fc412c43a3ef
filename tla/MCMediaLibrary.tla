--------------------------- MODULE MCMediaLibrary ---------------------------
(* Small instances of QuietSync.  Files and Uploads are model values,       *)
(* interchangeable where the run checks no liveness.                       *)
EXTENDS QuietSync, TLC

FileSymmetry == Permutations(Files)
=============================================================================
