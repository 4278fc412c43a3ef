---------------------------- MODULE MCTranscoder ----------------------------
(* Three jobs for one video and one for another.                             *)
EXTENDS Transcoder

CONSTANTS i1, i2, j1, j2, j3, j4

MCJobItem == [j \in Jobs |-> IF j = j4 THEN i2 ELSE i1]
=============================================================================
