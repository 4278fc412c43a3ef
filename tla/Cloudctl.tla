------------------------------ MODULE Cloudctl ------------------------------
(* The processes that run cloudctl on one host at the same time.  Credentials *)
(* and Backups each follow what they do.                                      *)
CONSTANTS
  Sessions,     \* the processes
  Cron          \* the one of them that only ever makes backups

ASSUME SessionsAssumption == Cron \in Sessions
=============================================================================
