------------------------ MODULE MediaLibrary_proofs ------------------------
(***************************************************************************)
(* For any files, uploads and bounds: the types of MediaLibrary; that the  *)
(* change detection of sync_all never trusts a row whose metadata is older *)
(* than the file (UnchangedMeansCurrent); that no row of a file in place   *)
(* is pruned (StableFileKeepsRow); and that a sync left alone makes the    *)
(* index that of the disk (QuietSyncIsExact).  For any threads and items,  *)
(* what shared generation would be worth to Thumbnails (FinishedStays).    *)
(***************************************************************************)
EXTENDS QuietSync, Thumbnails, TLAPS

-----------------------------------------------------------------------------
(* Types.  Every action is one case; the groups of variables it leaves     *)
(* alone are expanded so that the provers see each of them.                *)

LEMMA InitTypeOK == Init => TypeOK
<1> SUFFICES ASSUME Init PROVE TypeOK
  OBVIOUS
<1> USE MediaLibraryAssumption DEF Init, Stamps, Procs, Busy, Ended
<1>1. /\ clock \in Stamps /\ disk \in [Files -> Stamps]
      /\ rowStamp \in [Files -> Stamps] /\ rowMeta \in [Files -> Stamps]
      /\ meta \in [Procs -> Stamps] /\ faults \in 0..MaxFaults
  OBVIOUS
<1>2. seen \in [Procs -> [Files -> Stamps]]
  OBVIOUS
<1>3. /\ cur \in [Procs -> Files \cup {"none"}]
      /\ \A p \in Procs : cur[p] \notin Files /\ phase[p] = "idle"
  OBVIOUS
<1> QED
  BY <1>1, <1>2, <1>3 DEF TypeOK

LEMMA NextTypeOK == TypeOK /\ [Next]_vars => TypeOK'
<1> SUFFICES ASSUME TypeOK, [Next]_vars PROVE TypeOK'
  OBVIOUS
<1> USE MediaLibraryAssumption
    DEF TypeOK, Stamps, Procs, Busy, Ended, disks, rows, cache, upload, sync,
        LoopFree, Fault, Touch, Unlink, Goto, Done, Elsewhere
<1>1. ASSUME NEW f \in Files, WriteFile(f) PROVE TypeOK'
  BY <1>1 DEF WriteFile
<1>2. ASSUME NEW f \in Files, DeleteFile(f) PROVE TypeOK'
  BY <1>2 DEF DeleteFile
<1>3. ASSUME NEW p \in Procs, NEW f \in Files, ScanMiss(p, f) PROVE TypeOK'
  BY <1>3 DEF ScanMiss
<1>4. ASSUME NEW p \in Procs, SyncError(p) PROVE TypeOK'
  BY <1>4 DEF SyncError, SyncEnd
<1>5. ASSUME NEW u \in Uploads, UploadError(u) PROVE TypeOK'
  BY <1>5 DEF UploadError
<1>6. CASE Crash
  BY <1>6 DEF Crash
<1>7. CASE PurgeThumbnails
  BY <1>7 DEF PurgeThumbnails
<1>8. CASE Boot
  BY <1>8 DEF Boot, SyncBegin
<1>9. CASE BootEnd
  <2>1. CASE phase["loop"] = "done"
    BY <1>9, <2>1 DEF BootEnd, SyncEnd
  <2>2. CASE phase["loop"] = "failed"
    BY <1>9, <2>2 DEF BootEnd, SyncEnd
  <2> QED BY <1>9, <2>1, <2>2 DEF BootEnd
<1>10. CASE TriggerScan
  BY <1>10 DEF TriggerScan, SyncBegin
<1>11. CASE ScanReply
  BY <1>11 DEF ScanReply, SyncEnd
<1>12. ASSUME NEW u \in Uploads, UploadOpen(u) PROVE TypeOK'
  BY <1>12 DEF UploadOpen
<1>13. ASSUME NEW u \in Uploads, UploadChunk(u) PROVE TypeOK'
  BY <1>13 DEF UploadChunk
<1>14. ASSUME NEW u \in Uploads, UploadReject(u) PROVE TypeOK'
  BY <1>14 DEF UploadReject
<1>15. ASSUME NEW u \in Uploads, UploadSync(u) PROVE TypeOK'
  BY <1>15 DEF UploadSync, SyncBegin
<1>16. ASSUME NEW u \in Uploads, UploadReply(u) PROVE TypeOK'
  <2>1. up' \in [Uploads -> {"idle", "writing", "syncing", "indexed",
                             "unindexed", "rejected", "failed"}]
    BY <1>16 DEF UploadReply
  <2>2. /\ owner \notin {"none", "boot"} /\ owner' = "none"
        /\ UNCHANGED <<disks, rows, cache, app, worker, upFile, linked, faults>>
        /\ SyncEnd("loop", "idle")
    BY <1>16 DEF UploadReply
  <2> QED BY <2>1, <2>2 DEF SyncEnd
<1>17. ASSUME NEW f \in Files, ServeThumbnail(f) PROVE TypeOK'
  BY <1>17 DEF ServeThumbnail
<1>18. CASE WorkerSync
  BY <1>18 DEF WorkerSync, SyncBegin
<1>19. CASE WorkerThrottled \/ WorkerWake
  BY <1>19 DEF WorkerThrottled, WorkerWake
<1>20. CASE WorkerJoin
  BY <1>20 DEF WorkerJoin, SyncEnd
<1>21. ASSUME NEW p \in Procs, NEW f \in Files,
              ScanFile(p, f) \/ LookUp(p, f) \/ Prune(p, f)
       PROVE  TypeOK'
  <2>1. CASE ScanFile(p, f)
    BY <2>1 DEF ScanFile
  <2>2. CASE LookUp(p, f)
    BY <2>2 DEF LookUp
  <2>3. CASE Prune(p, f)
    BY <2>3 DEF Prune
  <2> QED BY <1>21, <2>1, <2>2, <2>3
<1>22. ASSUME NEW p \in Procs,
              ScanDone(p) \/ Extract(p) \/ Thumbnail(p) \/ Upsert(p)
                \/ ListRemoved(p) \/ SyncDone(p)
       PROVE  TypeOK'
  <2>1. CASE ScanDone(p)
    BY <2>1 DEF ScanDone
  <2>2. CASE Extract(p)
    BY <2>2 DEF Extract
  <2>3. CASE Thumbnail(p)
    BY <2>3 DEF Thumbnail, SyncEnd
  <2>4. CASE Upsert(p)
    BY <2>4 DEF Upsert
  <2>5. CASE ListRemoved(p)
    BY <2>5 DEF ListRemoved
  <2>6. CASE SyncDone(p)
    BY <2>6 DEF SyncDone, SyncEnd
  <2> QED BY <1>22, <2>1, <2>2, <2>3, <2>4, <2>5, <2>6
<1>23. CASE UNCHANGED vars
  BY <1>23 DEF vars
<1> QED
  BY <1>1, <1>2, <1>3, <1>4, <1>5, <1>6, <1>7, <1>8, <1>9, <1>10, <1>11, <1>12,
     <1>13, <1>14, <1>15, <1>16, <1>17, <1>18, <1>19, <1>20, <1>21, <1>22, <1>23
  DEF Next, Environment, Handlers, Worker, SyncStep

(* The variables of MediaLibrary keep their types, a handler owns the loop *)
(* exactly while sync_all runs there, and _run_loop awaits the worker      *)
(* thread exactly while there is one.                                      *)
THEOREM TypeCorrect == Spec => []TypeOK
<1>1. Init => TypeOK
  BY InitTypeOK
<1>2. TypeOK /\ [Next]_vars => TypeOK'
  BY NextTypeOK
<1> QED BY <1>1, <1>2, PTL DEF Spec

-----------------------------------------------------------------------------
(* What a step does to the files, the rows and the syncs: most actions are *)
(* one of a few kinds, and the invariants below go by kind.                *)

Reset == /\ phase' = [p \in Procs |-> "idle"]
         /\ seen' = [p \in Procs |-> [f \in Files |-> 0]]

Starts(p) == SyncBegin(p) /\ UNCHANGED <<disks, rows>>

Stops(p) ==
  /\ \E s \in {"idle"} \cup Ended :
       SyncEnd(p, s) /\ (s = "done" => phase[p] = "prune" /\ todo[p] = {})
  /\ UNCHANGED <<disks, rows>>

Writes == /\ \E f \in Files : Touch(f)
          /\ UNCHANGED <<rows, sync>>

Removes == /\ \E f \in Files : Unlink(f)
           /\ UNCHANGED <<rows, phase, todo, seen, cur, meta>>

LEMMA StepKinds ==
  ASSUME TypeOK, [Next]_vars
  PROVE  \/ UNCHANGED <<disks, rows, sync>>
         \/ Writes
         \/ Removes
         \/ Reset /\ UNCHANGED <<disks, rows>>
         \/ \E p \in Procs : Starts(p) \/ Stops(p)
         \/ \E p \in Procs, f \in Files :
              ScanFile(p, f) \/ ScanMiss(p, f) \/ LookUp(p, f) \/ Prune(p, f)
         \/ \E p \in Procs :
              \/ ScanDone(p) \/ Extract(p) \/ Upsert(p) \/ ListRemoved(p)
              \/ Thumbnail(p) /\ phase' = [phase EXCEPT ![p] = "upsert"]
                   /\ UNCHANGED <<todo, seen, cur, meta, gone>>
<1> USE DEF disks, rows
<1>1. CASE UNCHANGED vars
  BY <1>1 DEF vars
<1>2. CASE Environment
  <2>1. ASSUME NEW f \in Files, WriteFile(f) PROVE Writes
    BY <2>1 DEF WriteFile, Writes
  <2>2. ASSUME NEW f \in Files, DeleteFile(f) PROVE Removes
    BY <2>2 DEF DeleteFile, Removes
  <2>3. ASSUME NEW p \in Procs, SyncError(p) PROVE Stops(p)
    BY <2>3 DEF SyncError, Stops, Elsewhere, Ended
  <2>4. CASE Crash
    BY <2>4 DEF Crash, Reset
  <2>5. CASE PurgeThumbnails
    BY <2>5 DEF PurgeThumbnails
  <2>6. CASE \E u \in Uploads : UploadError(u)
    BY <2>6 DEF UploadError
  <2> QED BY <1>2, <2>1, <2>2, <2>3, <2>4, <2>5, <2>6 DEF Environment
<1>3. CASE Handlers
  <2>1. CASE Boot \/ TriggerScan \/ \E u \in Uploads : UploadSync(u)
    BY <2>1 DEF Boot, TriggerScan, UploadSync, Starts, Procs
  <2>2. CASE BootEnd \/ ScanReply \/ \E u \in Uploads : UploadReply(u)
    BY <2>2 DEF BootEnd, ScanReply, UploadReply, Stops, Procs
  <2>3. CASE \E u \in Uploads : UploadOpen(u) \/ UploadChunk(u)
    BY <2>3 DEF UploadOpen, UploadChunk, Writes, TypeOK
  <2>4. CASE \E u \in Uploads : UploadReject(u)
    BY <2>4 DEF UploadReject, Removes, TypeOK
  <2>5. CASE \E f \in Files : ServeThumbnail(f)
    BY <2>5 DEF ServeThumbnail
  <2> QED BY <1>3, <2>1, <2>2, <2>3, <2>4, <2>5 DEF Handlers
<1>4. CASE Worker
  BY <1>4 DEF Worker, WorkerSync, WorkerThrottled, WorkerJoin, WorkerWake,
              Starts, Stops, Procs
<1>5. ASSUME NEW p \in Procs, SyncStep(p)
      PROVE  \/ \E f \in Files : ScanFile(p, f) \/ LookUp(p, f) \/ Prune(p, f)
             \/ ScanDone(p) \/ Extract(p) \/ Upsert(p) \/ ListRemoved(p)
             \/ Stops(p)
             \/ Thumbnail(p) /\ phase' = [phase EXCEPT ![p] = "upsert"]
                  /\ UNCHANGED <<todo, seen, cur, meta, gone>>
  <2>1. ASSUME Thumbnail(p)
        PROVE  \/ Stops(p)
               \/ /\ phase' = [phase EXCEPT ![p] = "upsert"]
                  /\ UNCHANGED <<todo, seen, cur, meta, gone>>
    BY <2>1 DEF Thumbnail, Stops, Elsewhere, Ended, Goto
  <2>2. ASSUME SyncDone(p) PROVE Stops(p)
    BY <2>2 DEF SyncDone, Stops, Elsewhere, Ended
  <2> QED BY <1>5, <2>1, <2>2 DEF SyncStep
<1> QED
  BY <1>1, <1>2, <1>3, <1>4, <1>5 DEF Next, Environment

-----------------------------------------------------------------------------
(* Change detection.                                                       *)

CurrentInv == TypeOK /\ StampsIssued /\ ExtractCurrent /\ UnchangedMeansCurrent

LEMMA InitCurrent == Init => CurrentInv
<1> SUFFICES ASSUME Init PROVE StampsIssued /\ ExtractCurrent /\ UnchangedMeansCurrent
  BY InitTypeOK DEF CurrentInv
<1> QED
  BY DEF Init, StampsIssued, ExtractCurrent, UnchangedMeansCurrent, Procs

LEMMA NextCurrent == CurrentInv /\ [Next]_vars => CurrentInv'
<1> SUFFICES ASSUME CurrentInv, [Next]_vars
             PROVE  (StampsIssued /\ ExtractCurrent /\ UnchangedMeansCurrent)'
  BY NextTypeOK DEF CurrentInv
<1> USE DEF CurrentInv, TypeOK, Stamps, StampsIssued, ExtractCurrent,
            UnchangedMeansCurrent, disks, rows, sync, Goto, Done, Elsewhere
<1>1. CASE UNCHANGED <<disks, rows, sync>>
  BY <1>1
<1>2. CASE Writes
  BY <1>2 DEF Writes, Touch
<1>3. CASE Removes
  BY <1>3 DEF Removes, Unlink
<1>4. CASE Reset /\ UNCHANGED <<disks, rows>>
  BY <1>4 DEF Reset
<1>5. ASSUME NEW p \in Procs, Starts(p) \/ Stops(p)
      PROVE  (StampsIssued /\ ExtractCurrent /\ UnchangedMeansCurrent)'
  <2>1. CASE Starts(p)
    BY <2>1 DEF Starts, SyncBegin
  <2>2. CASE Stops(p)
    BY <2>2 DEF Stops, SyncEnd, Ended
  <2> QED BY <1>5, <2>1, <2>2
<1>6. ASSUME NEW p \in Procs, NEW f \in Files,
             ScanFile(p, f) \/ ScanMiss(p, f) \/ LookUp(p, f) \/ Prune(p, f)
      PROVE  (StampsIssued /\ ExtractCurrent /\ UnchangedMeansCurrent)'
  <2>1. CASE ScanFile(p, f)
    BY <2>1 DEF ScanFile
  <2>2. CASE ScanMiss(p, f)
    BY <2>2 DEF ScanMiss
  <2>3. CASE LookUp(p, f)
    BY <2>3 DEF LookUp
  <2>4. CASE Prune(p, f)
    BY <2>4 DEF Prune
  <2> QED BY <1>6, <2>1, <2>2, <2>3, <2>4
<1>7. ASSUME NEW p \in Procs,
             \/ ScanDone(p) \/ Extract(p) \/ Upsert(p) \/ ListRemoved(p)
             \/ Thumbnail(p) /\ phase' = [phase EXCEPT ![p] = "upsert"]
                  /\ UNCHANGED <<todo, seen, cur, meta, gone>>
      PROVE  (StampsIssued /\ ExtractCurrent /\ UnchangedMeansCurrent)'
  <2>1. CASE ScanDone(p)
    BY <2>1 DEF ScanDone
  <2>2. CASE Extract(p)
    BY <2>2 DEF Extract
  <2>3. CASE Upsert(p)
    BY <2>3 DEF Upsert
  <2>4. CASE ListRemoved(p)
    BY <2>4 DEF ListRemoved
  <2>5. CASE Thumbnail(p) /\ phase' = [phase EXCEPT ![p] = "upsert"]
                  /\ UNCHANGED <<todo, seen, cur, meta, gone>>
    BY <2>5 DEF Thumbnail
  <2> QED BY <1>7, <2>1, <2>2, <2>3, <2>4, <2>5
<1> QED
  BY <1>1, <1>2, <1>3, <1>4, <1>5, <1>6, <1>7, StepKinds

(* A row whose signature is the file's own never describes an older        *)
(* content: skipping unchanged files in sync_all is sound for any number   *)
(* of files, writes, uploads and faults.                                   *)
THEOREM ChangeDetectionSound == Spec => []UnchangedMeansCurrent
<1>1. Init => CurrentInv
  BY InitCurrent
<1>2. CurrentInv /\ [Next]_vars => CurrentInv'
  BY NextCurrent
<1>3. CurrentInv => UnchangedMeansCurrent
  BY DEF CurrentInv
<1> QED BY <1>1, <1>2, <1>3, PTL DEF Spec

-----------------------------------------------------------------------------
(* Pruning.                                                                *)

PruneInv == TypeOK /\ UnseenGone

LEMMA InitPrune == Init => PruneInv
  BY InitTypeOK DEF Init, PruneInv, UnseenGone, Busy, Procs

LEMMA NextPrune == PruneInv /\ [Next]_vars => PruneInv'
<1> SUFFICES ASSUME PruneInv, [Next]_vars PROVE UnseenGone'
  BY NextTypeOK DEF PruneInv
<1> USE DEF PruneInv, TypeOK, UnseenGone, Busy, Ended, disks, rows, sync,
            Goto, Done, Elsewhere
<1>1. CASE UNCHANGED <<disks, rows, sync>>
  BY <1>1
<1>2. CASE Writes
  BY <1>2, MediaLibraryAssumption DEF Writes, Touch, Stamps
<1>3. CASE Removes
  BY <1>3 DEF Removes, Unlink
<1>4. CASE Reset /\ UNCHANGED <<disks, rows>>
  BY <1>4 DEF Reset
<1>5. ASSUME NEW p \in Procs, Starts(p) \/ Stops(p) PROVE UnseenGone'
  <2>1. CASE Starts(p)
    BY <2>1 DEF Starts, SyncBegin
  <2>2. CASE Stops(p)
    BY <2>2 DEF Stops, SyncEnd
  <2> QED BY <1>5, <2>1, <2>2
<1>6. ASSUME NEW p \in Procs, NEW f \in Files,
             ScanFile(p, f) \/ ScanMiss(p, f) \/ LookUp(p, f) \/ Prune(p, f)
      PROVE  UnseenGone'
  <2>1. CASE ScanFile(p, f)
    BY <2>1 DEF ScanFile
  <2>2. CASE ScanMiss(p, f)
    BY <2>2 DEF ScanMiss
  <2>3. CASE LookUp(p, f)
    <3>1. CASE NeedsProcessing(p, f)
      BY <2>3, <3>1 DEF LookUp
    <3>2. CASE ~NeedsProcessing(p, f)
      BY <2>3, <3>2, MediaLibraryAssumption DEF LookUp
    <3> QED BY <3>1, <3>2
  <2>4. CASE Prune(p, f)
    BY <2>4 DEF Prune
  <2> QED BY <1>6, <2>1, <2>2, <2>3, <2>4
<1>7. ASSUME NEW p \in Procs,
             \/ ScanDone(p) \/ Extract(p) \/ Upsert(p) \/ ListRemoved(p)
             \/ Thumbnail(p) /\ phase' = [phase EXCEPT ![p] = "upsert"]
                  /\ UNCHANGED <<todo, seen, cur, meta, gone>>
      PROVE  UnseenGone'
  <2>1. CASE ScanDone(p)
    BY <2>1 DEF ScanDone
  <2>2. CASE Extract(p)
    BY <2>2 DEF Extract
  <2>3. CASE Upsert(p)
    BY <2>3, MediaLibraryAssumption DEF Upsert
  <2>4. CASE ListRemoved(p)
    BY <2>4 DEF ListRemoved
  <2>5. CASE Thumbnail(p) /\ phase' = [phase EXCEPT ![p] = "upsert"]
                  /\ UNCHANGED <<todo, seen, cur, meta, gone>>
    BY <2>5 DEF Thumbnail
  <2> QED BY <1>7, <2>1, <2>2, <2>3, <2>4, <2>5
<1> QED
  BY <1>1, <1>2, <1>3, <1>4, <1>5, <1>6, <1>7, StepKinds

KeepsRow ==
  \A f \in Files : rowStamp[f] # 0 /\ rowStamp'[f] = 0
                     => \E p \in Procs : phase[p] = "prune" /\ f \in gone[p]

LEMMA StepKeepsRow == PruneInv /\ [Next]_vars => KeepsRow
<1> SUFFICES ASSUME PruneInv, [Next]_vars,
                    NEW f \in Files, rowStamp[f] # 0, rowStamp'[f] = 0
             PROVE  \E p \in Procs : phase[p] = "prune" /\ f \in gone[p]
  BY DEF KeepsRow
<1> USE DEF PruneInv, TypeOK, UnseenGone, Busy
<1>1. ASSUME NEW p \in Procs, Upsert(p) PROVE FALSE
  BY <1>1 DEF Upsert
<1>2. ASSUME NEW p \in Procs, NEW g \in Files, Prune(p, g)
      PROVE  phase[p] = "prune" /\ f \in gone[p]
  BY <1>2 DEF Prune
<1>3. UNCHANGED rowStamp \/ (\E p \in Procs : Upsert(p))
        \/ (\E p \in Procs, g \in Files : Prune(p, g))
  BY StepKinds
  DEF rows, Writes, Removes, Starts, Stops, ScanFile, ScanMiss, LookUp,
      ScanDone, Extract, ListRemoved, Thumbnail
<1> QED BY <1>1, <1>2, <1>3

(* No sync prunes the row of a file that was there and readable all the    *)
(* time it ran, whatever the other sync, the handlers and the users did.   *)
THEOREM PruningSound == Spec => StableFileKeepsRow
<1>1. Init => PruneInv
  BY InitPrune
<1>2. PruneInv /\ [Next]_vars => PruneInv'
  BY NextPrune
<1>3. PruneInv /\ [Next]_vars => [KeepsRow]_vars
  BY StepKeepsRow
<1>4. StableFileKeepsRow <=> [][KeepsRow]_vars
  BY DEF StableFileKeepsRow, KeepsRow
<1> QED BY <1>1, <1>2, <1>3, <1>4, PTL DEF Spec
-----------------------------------------------------------------------------
(* Syncs left alone.                                                       *)

QuietInv == TypeOK /\ QuietSoFar

LEMMA InitQuiet == QuietInit => QuietInv
  BY InitTypeOK DEF QuietInit, QuietInv, QuietSoFar

(* A sync that begins alone, and one that goes on alone: by then all other *)
(* kinds of step leave what SoFar speaks of as it was.                     *)
LEMMA QuietBegins ==
  ASSUME TypeOK, [Next]_vars, NEW p \in Procs, Begins(p), LeftAlone(p)
  PROVE  SoFar(p)'
<1> USE DEF TypeOK, Begins, Busy, Ended, disks, rows, sync, Goto, Done, Elsewhere
<1>1. Starts(p)
  <2>1. ASSUME NEW q \in Procs, Starts(q) \/ Stops(q) PROVE Starts(p)
    BY <2>1 DEF Starts, Stops, SyncBegin, SyncEnd
  <2>2. ASSUME NEW q \in Procs, NEW f \in Files,
               ScanFile(q, f) \/ ScanMiss(q, f) \/ LookUp(q, f) \/ Prune(q, f)
        PROVE  FALSE
    BY <2>2 DEF ScanFile, ScanMiss, LookUp, Prune
  <2>3. ASSUME NEW q \in Procs,
               \/ ScanDone(q) \/ Extract(q) \/ Upsert(q) \/ ListRemoved(q)
               \/ Thumbnail(q) /\ phase' = [phase EXCEPT ![q] = "upsert"]
                    /\ UNCHANGED <<todo, seen, cur, meta, gone>>
        PROVE  FALSE
    BY <2>3 DEF ScanDone, Extract, Upsert, ListRemoved, Thumbnail
  <2>4. ~(Reset /\ UNCHANGED <<disks, rows>>) /\ ~UNCHANGED <<disks, rows, sync>>
          /\ ~Writes /\ ~Removes
    BY DEF Reset, Writes, Removes
  <2> QED BY <2>1, <2>2, <2>3, <2>4, StepKinds
<1> QED
  BY <1>1 DEF Starts, SyncBegin, SoFar, LeftAlone

LEMMA QuietGoesOn ==
  ASSUME TypeOK, [Next]_vars, NEW p \in Procs, SoFar(p),
         GoesOn(p), LeftAlone(p), ~Misses(p)
  PROVE  SoFar(p)'
<1> USE DEF TypeOK, SoFar, GoesOn, LeftAlone, Busy, Ended, disks, rows, sync,
            Goto, Done, Elsewhere
<1>1. CASE UNCHANGED <<disks, rows, sync>> \/ Writes \/ Removes
  BY <1>1 DEF Writes, Removes
<1>2. CASE Reset /\ UNCHANGED <<disks, rows>>
  BY <1>2 DEF Reset
<1>3. ASSUME NEW q \in Procs, Starts(q) \/ Stops(q) PROVE SoFar(p)'
  <2>1. CASE Starts(q) /\ q = p
    BY <2>1 DEF Starts, SyncBegin
  <2>2. CASE Starts(q) /\ q # p
    BY <2>2 DEF Starts, SyncBegin
  <2>3. CASE Stops(q) /\ q = p
    BY <2>3 DEF Stops, SyncEnd
  <2>4. CASE Stops(q) /\ q # p
    BY <2>4 DEF Stops, SyncEnd
  <2> QED BY <1>3, <2>1, <2>2, <2>3, <2>4
<1>4. ASSUME NEW q \in Procs, NEW f \in Files,
             ScanFile(q, f) \/ ScanMiss(q, f) \/ LookUp(q, f) \/ Prune(q, f)
      PROVE  SoFar(p)'
  <2>1. q = p
    BY <1>4 DEF ScanFile, ScanMiss, LookUp, Prune
  <2>2. CASE ScanFile(p, f)
    BY <2>2 DEF ScanFile
  <2>3. CASE ScanMiss(p, f)
    <3>1. disk[f] = 0
      BY <2>3 DEF Misses
    <3> QED BY <2>3, <3>1 DEF ScanMiss
  <2>4. CASE LookUp(p, f)
    BY <2>4 DEF LookUp, NeedsProcessing
  <2>5. CASE Prune(p, f)
    BY <2>5 DEF Prune
  <2> QED BY <1>4, <2>1, <2>2, <2>3, <2>4, <2>5
<1>5. ASSUME NEW q \in Procs,
             \/ ScanDone(q) \/ Extract(q) \/ Upsert(q) \/ ListRemoved(q)
             \/ Thumbnail(q) /\ phase' = [phase EXCEPT ![q] = "upsert"]
                  /\ UNCHANGED <<todo, seen, cur, meta, gone>>
      PROVE  SoFar(p)'
  <2>1. q = p
    BY <1>5 DEF ScanDone, Extract, Upsert, ListRemoved, Thumbnail
  <2>2. CASE ScanDone(p)
    BY <2>2 DEF ScanDone
  <2>3. CASE Extract(p)
    BY <2>3 DEF Extract
  <2>4. CASE Upsert(p)
    BY <2>4 DEF Upsert
  <2>5. CASE ListRemoved(p)
    BY <2>5 DEF ListRemoved
  <2>6. CASE Thumbnail(p) /\ phase' = [phase EXCEPT ![p] = "upsert"]
                  /\ UNCHANGED <<todo, seen, cur, meta, gone>>
    BY <2>6 DEF Thumbnail
  <2> QED BY <1>5, <2>1, <2>2, <2>3, <2>4, <2>5, <2>6
<1> QED
  BY <1>1, <1>2, <1>3, <1>4, <1>5, StepKinds

LEMMA NextQuiet == QuietInv /\ [QuietNext]_quietVars => QuietInv'
<1>1. CASE UNCHANGED quietVars
  BY <1>1 DEF quietVars, vars, disks, rows, sync, cache, upload, QuietInv,
              QuietSoFar, SoFar, TypeOK
<1>2. ASSUME QuietInv, QuietNext PROVE QuietInv'
  <2>1. TypeOK /\ [Next]_vars
    BY <1>2 DEF QuietInv, QuietNext
  <2>2. ASSUME NEW p \in calm' PROVE SoFar(p)'
    <3>1. /\ p \in Procs /\ (p \in calm \/ Begins(p))
          /\ GoesOn(p) /\ LeftAlone(p) /\ ~Misses(p)
      BY <1>2, <2>2 DEF QuietNext, Watch
    <3>2. CASE Begins(p)
      BY <2>1, <3>1, <3>2, QuietBegins
    <3>3. CASE p \in calm
      BY <1>2, <2>1, <3>1, <3>3, QuietGoesOn DEF QuietInv, QuietSoFar
    <3> QED BY <3>1, <3>2, <3>3
  <2> QED BY <2>1, <2>2, NextTypeOK DEF QuietInv, QuietSoFar
<1> QED BY <1>1, <1>2

LEMMA QuietAlways == QuietSpec => []QuietInv
  BY InitQuiet, NextQuiet, PTL DEF QuietSpec

(* The history variable forbids nothing of MediaLibrary's own steps, so    *)
(* what is proved of Spec holds of QuietSpec.                              *)
LEMMA QuietIsPlain == QuietSpec => Spec
<1>1. QuietInit => Init
  BY DEF QuietInit
<1>2. [QuietNext]_quietVars => [Next]_vars
  BY DEF QuietNext, quietVars
<1> QED BY <1>1, <1>2, PTL DEF QuietSpec, Spec

(* A sync that had the files and the index to itself makes the index that  *)
(* of the disk, whatever crashed or half-finished syncs came before it.    *)
THEOREM QuietSyncsExact == QuietSpec => []QuietSyncIsExact
<1>1. QuietInv => QuietSyncIsExact
  BY DEF QuietInv, QuietSoFar, SoFar, QuietSyncIsExact
<1> QED BY <1>1, QuietAlways, PTL

LEMMA OnlyReplyAnswers ==
  ASSUME TypeOK, [Next]_vars, NEW u \in Uploads,
         up[u] = "syncing", up'[u] = "unindexed"
  PROVE  phase["loop"] = "done" /\ rowStamp[upFile[u]] = 0
<1> USE DEF TypeOK, upload
<1>1. ASSUME NEW v \in Uploads, UploadReply(v)
      PROVE  phase["loop"] = "done" /\ rowStamp[upFile[u]] = 0
  <2>1. v = u
    BY <1>1 DEF UploadReply
  <2> QED BY <1>1, <2>1 DEF UploadReply, Ended
<1>2. CASE Environment
  BY <1>2 DEF Environment, WriteFile, DeleteFile, ScanMiss, SyncError,
              UploadError, Crash, PurgeThumbnails, Elsewhere
<1>3. CASE Handlers
  BY <1>1, <1>3 DEF Handlers, Boot, BootEnd, TriggerScan, ScanReply, UploadOpen,
                    UploadChunk, UploadReject, UploadSync, ServeThumbnail
<1>4. CASE Worker
  BY <1>4 DEF Worker, WorkerSync, WorkerThrottled, WorkerJoin, WorkerWake
<1>5. ASSUME NEW p \in Procs, SyncStep(p) PROVE FALSE
  BY <1>5 DEF SyncStep, ScanFile, ScanDone, LookUp, Extract, Thumbnail, Upsert,
              ListRemoved, Prune, SyncDone, Elsewhere
<1>6. CASE UNCHANGED vars
  BY <1>6 DEF vars
<1> QED BY <1>2, <1>3, <1>4, <1>5, <1>6 DEF Next

Answered ==
  \A u \in Uploads : up[u] = "syncing" /\ up'[u] = "unindexed"
                       => "loop" \notin calm \/ disk[upFile[u]] = 0

LEMMA StepAnswered == QuietInv /\ [QuietNext]_quietVars => Answered
<1> SUFFICES ASSUME QuietInv, [QuietNext]_quietVars, NEW u \in Uploads,
                    up[u] = "syncing", up'[u] = "unindexed", "loop" \in calm
             PROVE  disk[upFile[u]] = 0
  BY DEF Answered
<1>1. TypeOK /\ [Next]_vars
  BY DEF QuietInv, QuietNext, quietVars
<1>2. phase["loop"] = "done" /\ rowStamp[upFile[u]] = 0
  BY <1>1, OnlyReplyAnswers
<1>3. rowStamp = disk
  BY <1>2 DEF QuietInv, QuietSoFar, SoFar
<1> QED BY <1>2, <1>3

(* An upload answered without its item was disturbed by another sync or a  *)
(* change of the disk while its own ran, or its file is gone.              *)
THEOREM QuietUploadsAnswered == QuietSpec => QuietUploadAnswered
<1>1. QuietUploadAnswered <=> [][Answered]_quietVars
  BY DEF QuietUploadAnswered, Answered
<1>2. QuietInv /\ [QuietNext]_quietVars => [Answered]_quietVars
  BY StepAnswered
<1>3. QuietSpec => [][QuietNext]_quietVars
  BY DEF QuietSpec
<1> QED BY <1>1, <1>2, <1>3, QuietAlways, PTL

-----------------------------------------------------------------------------
(* Thumbnails.                                                             *)

(* Who is making a thumbnail has found none there, and no one else has     *)
(* finished one since.                                                     *)
Unfinished ==
  /\ at \in [Threads -> {"idle", "ffmpeg", "extracting", "open", "saving", "badge",
                        "drawing"}]
  /\ item \in [Threads -> Items \cup {"none"}]
  /\ dest \in [Items -> {"none", "partial", "picture", "badge"}]
  /\ \A t \in Threads : /\ at[t] # "idle" => item[t] # "none"
                        /\ item[t] # "none" => dest[item[t]] \in {"none", "partial"}

Final == \A i \in Items : dest[i] \in {"picture", "badge"} => dest'[i] = dest[i]

LEMMA NextUnfinished ==
  ASSUME "none" \notin Items, Unfinished, GenerationIsShared, GenerationIsShared',
         [ThumbNext]_thumbVars
  PROVE  Unfinished' /\ Final
<1>1. ASSUME NEW t \in Threads, NEW i \in Items, Generate(t, i) PROVE Unfinished' /\ Final
  BY <1>1 DEF Generate, Goes, Unfinished, Final
<1>2. ASSUME NEW t \in Threads, ExtractFrame(t) \/ FrameExtracted(t)
      PROVE  Unfinished' /\ Final
  BY <1>2 DEF ExtractFrame, FrameExtracted, Goes, Unfinished, Final
<1>3. ASSUME NEW t \in Threads, OpenPicture(t) \/ DrawBadge(t)
      PROVE  Unfinished' /\ Final
  BY <1>3 DEF OpenPicture, DrawBadge, Goes, Unfinished, Final
<1>4. ASSUME NEW t \in Threads, SavePicture(t) \/ SaveBadge(t)
      PROVE  Unfinished' /\ Final
  BY <1>4 DEF SavePicture, SaveBadge, Leaves, Goes, Unfinished, Final, GenerationIsShared
<1>5. CASE UNCHANGED thumbVars
  BY <1>5 DEF thumbVars, Unfinished, Final
<1> QED BY <1>1, <1>2, <1>3, <1>4, <1>5 DEF ThumbNext

(* Sharing is all that is missing: as long as no two threads make the      *)
(* thumbnail of one item at once, a finished thumbnail is never replaced,  *)
(* whatever fails.                                                         *)
THEOREM SharedThumbnailsStay ==
  ASSUME "none" \notin Items
  PROVE  ThumbSpec /\ []GenerationIsShared => FinishedStays
<1>1. ThumbInit => Unfinished
  BY DEF ThumbInit, Unfinished
<1>2. Unfinished /\ GenerationIsShared /\ GenerationIsShared' /\ [ThumbNext]_thumbVars
      => Unfinished' /\ [Final]_thumbVars
  BY NextUnfinished
<1>3. ThumbSpec /\ []GenerationIsShared => [][Final]_thumbVars
  BY <1>1, <1>2, PTL DEF ThumbSpec
<1> QED BY <1>3 DEF FinishedStays, Final
=============================================================================
