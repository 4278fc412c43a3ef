----------------------------- MODULE QuietSync -----------------------------
(***************************************************************************)
(* What a sync is worth when it is left alone.  MediaLibrary with one      *)
(* history variable, which says of the syncs that run or have just ended   *)
(* which had the files and the index to themselves since they began: no    *)
(* other sync_all meanwhile, no write to the disk, no file that could not  *)
(* be read.                                                                *)
(***************************************************************************)
EXTENDS MediaLibrary

VARIABLE calm   \* history: the threads whose sync has been left alone

quietVars == <<vars, calm>>

Begins(p)    == phase[p] \notin Busy /\ phase'[p] \in Busy
GoesOn(p)    == phase'[p] \in Busy \cup {"done"}
LeftAlone(p) == disk' = disk /\ \A q \in Procs \ {p} : phase'[q] \notin Busy
Misses(p)    == \E f \in Files : disk[f] # 0 /\ ScanMiss(p, f)

Watch == calm' = {p \in Procs : /\ p \in calm \/ Begins(p)
                                /\ GoesOn(p) /\ LeftAlone(p) /\ ~Misses(p)}

QuietInit == Init /\ calm = {}
QuietNext == Next /\ Watch
QuietSpec == QuietInit /\ [][QuietNext]_quietVars

QuietFairSpec == QuietSpec /\ Fairness

(* A sync that was left alone and returns has made the index that of the   *)
(* disk: every file there with the signature it has, none that is not.     *)
(* Whatever crashes, errors and half-finished syncs came before it.        *)
(* (indexer.py: sync_all.)                                                 *)
QuietSyncIsExact == \A p \in calm : phase[p] = "done" => rowStamp = disk

(* POST /api/upload again: an answer without an item means that the sync of *)
(* the upload was not left alone, or that the file is gone.                *)
QuietUploadAnswered ==
  [][\A u \in Uploads : up[u] = "syncing" /\ up'[u] = "unindexed"
                          => "loop" \notin calm \/ disk[upFile[u]] = 0]_quietVars

(* What makes the two inductive: the files each loop of such a sync is     *)
(* done with are seen, indexed or pruned as the disk has them.             *)
SoFar(p) ==
  /\ phase[p] \in Busy \cup {"done"}
  /\ \A q \in Procs \ {p} : phase[q] \notin Busy
  /\ phase[p] = "scan" =>
       \A f \in Files : seen[p][f] = IF f \in todo[p] THEN 0 ELSE disk[f]
  /\ phase[p] \in Busy \ {"scan"} => seen[p] = disk
  /\ phase[p] \in {"process", "extract", "thumb", "upsert"} =>
       \A f \in Files \ todo[p] : disk[f] # 0 => rowStamp[f] = disk[f]
  /\ phase[p] = "prune" => /\ \A f \in Files \ todo[p] : rowStamp[f] = disk[f]
                           /\ \A f \in todo[p] : disk[f] = 0
  /\ phase[p] = "done" => rowStamp = disk

QuietSoFar == \A p \in calm : SoFar(p)
=============================================================================
