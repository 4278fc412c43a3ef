---------------------------- MODULE MediaLibrary ----------------------------
(***************************************************************************)
(* The media service's library: the files under data_path, the SQLite      *)
(* index of them, the thumbnail cache, and the two threads that run        *)
(* MediaIndexer.sync_all against all three (src/src/media):                *)
(*                                                                         *)
(*   "loop"    the asyncio event loop's own thread: start-up, POST         *)
(*             /api/scan and POST /api/upload call sync_all synchronously, *)
(*             so while it runs no other handler does;                     *)
(*   "worker"  the thread asyncio.to_thread gives the BackgroundWorker.    *)
(*                                                                         *)
(* Nothing orders the two, so a sync is a sequence of small steps: one     *)
(* file scanned, looked up, extracted, thumbnailed, upserted or pruned.    *)
(*                                                                         *)
(* A file's (mtime, size) signature is a stamp drawn from a clock: every   *)
(* write gives a new one, 0 is "no such file".  A row keeps the stamp the  *)
(* scan saw (0: no row) and the stamp of the content its metadata was      *)
(* extracted from (0: the fallback metadata of a failed extraction).       *)
(***************************************************************************)
EXTENDS Naturals, FiniteSets

CONSTANTS Files,      \* media files, by rel_path (an item's id is its hash)
          Uploads,    \* upload requests, each made at most once
          MaxStamp,   \* bound: writes to the disk
          FaultKinds, \* faults that may happen, from "crash" "miss" "error" "purge"
          MaxFaults   \* bound: faults of any kind

ASSUME MediaLibraryAssumption == /\ Files # {}
                                 /\ MaxStamp \in Nat \ {0}
                                 /\ MaxFaults \in Nat
                                 /\ Uploads \cap {"none", "boot", "scan"} = {}
                                 /\ "none" \notin Files

VARIABLES
  clock,    \* the last stamp given out
  disk,     \* Files -> stamp of the file on disk
  rowStamp, \* Files -> (mtime, size_bytes) of its row in media_items
  rowMeta,  \* Files -> the content its row's metadata describes
  thumbs,   \* files with an image in thumbnails_dir
  thumbDir, \* thumbnails_dir itself: "present" or "missing"
  app,      \* the service process: "down", "booting" (lifespan), "up"
  owner,    \* the handler whose sync_all occupies the event loop
  worker,   \* where the coroutine BackgroundWorker._run_loop stands
  up,       \* Uploads -> progress of the request
  upFile,   \* Uploads -> dest_path, the file each request names
  linked,   \* uploads whose open handle is still the file at dest_path
  phase,    \* Procs -> step of sync_all
  todo,     \* Procs -> files the current loop of sync_all has left
  seen,     \* Procs -> scanned_files: stamp of each file (0: not found)
  cur,      \* Procs -> sc, the file being processed ("none" outside it)
  meta,     \* Procs -> what extract returned for it
  gone,     \* Procs -> history: files not there at some time in this sync
  faults    \* faults so far

disks  == <<clock, disk>>
rows   == <<rowStamp, rowMeta>>
cache  == <<thumbs, thumbDir>>
upload == <<up, upFile, linked>>
sync   == <<phase, todo, seen, cur, meta, gone>>
vars   == <<disks, rows, cache, app, owner, worker, upload, sync, faults>>

Procs  == {"loop", "worker"}
Stamps == 0..MaxStamp
Busy   == {"scan", "process", "extract", "thumb", "upsert", "prune"}
Ended  == {"done", "failed"}

(* Each Init file is there or not when the service is first installed.     *)
Init ==
  /\ clock = 1
  /\ disk \in [Files -> 0..1]
  /\ rowStamp = [f \in Files |-> 0] /\ rowMeta = [f \in Files |-> 0]
  /\ thumbs = {} /\ thumbDir = "missing"
  /\ app = "down" /\ owner = "none" /\ worker = "off"
  /\ up = [u \in Uploads |-> "idle"]
  /\ upFile \in [Uploads -> Files]
  /\ linked = {}
  /\ phase = [p \in Procs |-> "idle"]
  /\ todo = [p \in Procs |-> {}]
  /\ seen = [p \in Procs |-> [f \in Files |-> 0]]
  /\ cur = [p \in Procs |-> "none"]
  /\ meta = [p \in Procs |-> 0]
  /\ gone = [p \in Procs |-> {}]
  /\ faults = 0

(* A handler or a callback of the event loop can run.                      *)
LoopFree == app = "up" /\ owner = "none"

Fault(kind) == kind \in FaultKinds /\ faults < MaxFaults /\ faults' = faults + 1

-----------------------------------------------------------------------------
(* The disk.                                                               *)

Touch(f) == /\ clock < MaxStamp
            /\ clock' = clock + 1
            /\ disk' = [disk EXCEPT ![f] = clock + 1]

(* Unlinking f: the handles on it keep an inode that has no name.          *)
Unlink(f) == /\ disk' = [disk EXCEPT ![f] = 0]
             /\ linked' = {u \in linked : upFile[u] # f}
             /\ gone' = [p \in Procs |-> gone[p] \cup {f}]
             /\ UNCHANGED clock

(* Nextcloud, or an administrator, puts a file in place by renaming.       *)
WriteFile(f) ==
  /\ Touch(f)
  /\ linked' = {u \in linked : upFile[u] # f}
  /\ UNCHANGED <<rows, cache, app, owner, worker, up, upFile, sync, faults>>

DeleteFile(f) ==
  /\ disk[f] # 0
  /\ Unlink(f)
  /\ UNCHANGED <<rows, cache, app, owner, worker, up, upFile,
                 phase, todo, seen, cur, meta, faults>>

-----------------------------------------------------------------------------
(* MediaIndexer.sync_all, run by thread p.                                 *)

SyncBegin(p) ==
  /\ phase' = [phase EXCEPT ![p] = "scan"]
  /\ todo' = [todo EXCEPT ![p] = Files]
  /\ seen' = [seen EXCEPT ![p] = [f \in Files |-> 0]]
  /\ gone' = [gone EXCEPT ![p] = {f \in Files : disk[f] = 0}]
  /\ UNCHANGED <<cur, meta>>

(* sync_all returns or raises: its locals are gone.                        *)
SyncEnd(p, step) ==
  /\ phase' = [phase EXCEPT ![p] = step]
  /\ todo' = [todo EXCEPT ![p] = {}]
  /\ seen' = [seen EXCEPT ![p] = [f \in Files |-> 0]]
  /\ cur' = [cur EXCEPT ![p] = "none"]
  /\ meta' = [meta EXCEPT ![p] = 0]
  /\ gone' = [gone EXCEPT ![p] = {}]

Goto(p, step) == phase' = [phase EXCEPT ![p] = step]
Done(p, f)    == todo' = [todo EXCEPT ![p] = @ \ {f}]
Elsewhere     == UNCHANGED <<disks, app, owner, worker, upload>>

(* os.walk reaches f's directory and stat()s it, in an order of its own.   *)
ScanFile(p, f) ==
  /\ phase[p] = "scan" /\ f \in todo[p]
  /\ seen' = [seen EXCEPT ![p][f] = disk[f]]
  /\ Done(p, f)
  /\ Elsewhere /\ UNCHANGED <<rows, cache, phase, cur, meta, gone, faults>>

(* stat() or the listing fails: the file is skipped as if it were absent.  *)
ScanMiss(p, f) ==
  /\ phase[p] = "scan" /\ f \in todo[p]
  /\ Fault("miss")
  /\ gone' = [gone EXCEPT ![p] = @ \cup {f}]
  /\ Done(p, f)
  /\ Elsewhere /\ UNCHANGED <<rows, cache, phase, seen, cur, meta>>

ScanDonePartial(p) ==   \* mutant: the walk's result is used before it ends
  /\ phase[p] = "scan"
  /\ Goto(p, "process")
  /\ todo' = [todo EXCEPT ![p] = {f \in Files : seen[p][f] # 0}]
  /\ Elsewhere /\ UNCHANGED <<rows, cache, seen, cur, meta, gone, faults>>

ScanDone(p) ==
  /\ phase[p] = "scan" /\ todo[p] = {}
  /\ Goto(p, "process")
  /\ todo' = [todo EXCEPT ![p] = {f \in Files : seen[p][f] # 0}]
  /\ Elsewhere /\ UNCHANGED <<rows, cache, seen, cur, meta, gone, faults>>

NeedsProcessingNewOnly(p, f) == rowStamp[f] = 0  \* mutant: "modified" dropped

(* existing is None, or its mtime or size is not what the scan saw.        *)
NeedsProcessing(p, f) == rowStamp[f] # seen[p][f]

LookUp(p, f) ==
  /\ phase[p] = "process" /\ f \in todo[p]
  /\ IF NeedsProcessing(p, f)
     THEN Goto(p, "extract") /\ cur' = [cur EXCEPT ![p] = f] /\ UNCHANGED todo
     ELSE Done(p, f) /\ UNCHANGED <<phase, cur>>
  /\ Elsewhere /\ UNCHANGED <<rows, cache, seen, meta, gone, faults>>

(* process_file opens the file again: it reads what is there now, or gets  *)
(* the fallback metadata (file gone, unreadable, ffprobe timed out).       *)
Extract(p) ==
  /\ phase[p] = "extract"
  /\ Goto(p, "thumb")
  /\ \E m \in {disk[cur[p]], 0} : meta' = [meta EXCEPT ![p] = m]
  /\ Elsewhere /\ UNCHANGED <<rows, cache, todo, seen, cur, gone, faults>>

(* A cached image is kept whatever it shows; a new one, or the fallback    *)
(* badge, can be saved only while thumbnails_dir exists.                   *)
Thumbnail(p) ==
  /\ phase[p] = "thumb"
  /\ IF cur[p] \in thumbs \/ thumbDir = "present"
     THEN /\ Goto(p, "upsert")
          /\ thumbs' = thumbs \cup {cur[p]}
          /\ UNCHANGED <<todo, seen, cur, meta, gone>>
     ELSE SyncEnd(p, "failed") /\ UNCHANGED thumbs
  /\ Elsewhere /\ UNCHANGED <<rows, thumbDir, faults>>

UpsertRestat(p) ==   \* mutant: the row takes the file's signature of now
  /\ phase[p] = "upsert"
  /\ rowStamp' = [rowStamp EXCEPT ![cur[p]] = disk[cur[p]]]
  /\ rowMeta' = [rowMeta EXCEPT ![cur[p]] = meta[p]]
  /\ Goto(p, "process") /\ Done(p, cur[p])
  /\ cur' = [cur EXCEPT ![p] = "none"] /\ meta' = [meta EXCEPT ![p] = 0]
  /\ Elsewhere /\ UNCHANGED <<cache, seen, gone, faults>>

Upsert(p) ==
  /\ phase[p] = "upsert"
  /\ rowStamp' = [rowStamp EXCEPT ![cur[p]] = seen[p][cur[p]]]
  /\ rowMeta' = [rowMeta EXCEPT ![cur[p]] = meta[p]]
  /\ Goto(p, "process") /\ Done(p, cur[p])
  /\ cur' = [cur EXCEPT ![p] = "none"] /\ meta' = [meta EXCEPT ![p] = 0]
  /\ Elsewhere /\ UNCHANGED <<cache, seen, gone, faults>>

(* removed_ids = db_ids - scanned_ids, with db_ids read now.               *)
ListRemoved(p) ==
  /\ phase[p] = "process" /\ todo[p] = {}
  /\ Goto(p, "prune")
  /\ todo' = [todo EXCEPT ![p] =
                {f \in Files : rowStamp[f] # 0 /\ seen[p][f] = 0}]
  /\ Elsewhere /\ UNCHANGED <<rows, cache, seen, cur, meta, gone, faults>>

Prune(p, f) ==
  /\ phase[p] = "prune" /\ f \in todo[p]
  /\ rowStamp' = [rowStamp EXCEPT ![f] = 0]
  /\ rowMeta' = [rowMeta EXCEPT ![f] = 0]
  /\ Done(p, f)
  /\ Elsewhere /\ UNCHANGED <<cache, phase, seen, cur, meta, gone, faults>>

SyncDone(p) ==
  /\ phase[p] = "prune" /\ todo[p] = {}
  /\ SyncEnd(p, "done")
  /\ Elsewhere /\ UNCHANGED <<rows, cache, faults>>

(* Any exception ends sync_all where it is: "database is locked", a full   *)
(* disk.  Every statement before it is committed.                          *)
SyncError(p) ==
  /\ phase[p] \in Busy
  /\ Fault("error")
  /\ SyncEnd(p, "failed")
  /\ Elsewhere /\ UNCHANGED <<rows, cache>>

SyncStep(p) ==
  \/ \E f \in Files : ScanFile(p, f)
  \/ ScanDone(p)
  \/ \E f \in Files : LookUp(p, f)
  \/ Extract(p)
  \/ Thumbnail(p)
  \/ Upsert(p)
  \/ ListRemoved(p)
  \/ \E f \in Files : Prune(p, f)
  \/ SyncDone(p)

-----------------------------------------------------------------------------
(* The event loop's handlers.                                              *)

(* create_app makes the cache directories, lifespan runs the first sync.   *)
Boot ==
  /\ app = "down"
  /\ app' = "booting" /\ owner' = "boot"
  /\ thumbDir' = "present"
  /\ SyncBegin("loop")
  /\ UNCHANGED <<disks, rows, thumbs, worker, upload, faults>>

(* lifespan goes on to worker.start(), or start-up fails with the sync.    *)
(* background_processing is taken to be on, as it is by default: without   *)
(* the worker nobody would repeat a sync that failed.                      *)
BootEnd ==
  /\ owner = "boot" /\ phase["loop"] \in Ended
  /\ owner' = "none"
  /\ IF phase["loop"] = "done" THEN app' = "up" /\ worker' = "top"
                               ELSE app' = "down" /\ UNCHANGED worker
  /\ SyncEnd("loop", "idle")
  /\ UNCHANGED <<disks, rows, cache, upload, faults>>

(* POST /api/scan: sync_all inside the handler, its result the answer.     *)
TriggerScan ==
  /\ LoopFree
  /\ owner' = "scan"
  /\ SyncBegin("loop")
  /\ UNCHANGED <<disks, rows, cache, app, worker, upload, faults>>

ScanReply ==
  /\ owner = "scan" /\ phase["loop"] \in Ended
  /\ owner' = "none"
  /\ SyncEnd("loop", "idle")
  /\ UNCHANGED <<disks, rows, cache, app, worker, upload, faults>>

(* POST /api/upload up to its first await: open(dest_path, "wb") creates   *)
(* the file or truncates the one that is there.                            *)
UploadOpen(u) ==
  /\ LoopFree /\ up[u] = "idle"
  /\ up' = [up EXCEPT ![u] = "writing"]
  /\ linked' = linked \cup {u}
  /\ Touch(upFile[u])
  /\ UNCHANGED <<rows, cache, app, owner, worker, upFile, sync, faults>>

(* One file.read() and f.write(); once the file is unlinked, writes go     *)
(* nowhere anybody looks.                                                  *)
UploadChunk(u) ==
  /\ LoopFree /\ up[u] = "writing" /\ u \in linked
  /\ Touch(upFile[u])
  /\ UNCHANGED <<rows, cache, app, owner, worker, upload, sync, faults>>

(* Over max_upload_size_mb: whatever is at dest_path is unlinked, 413, and *)
(* no sync.                                                                *)
UploadReject(u) ==
  /\ LoopFree /\ up[u] = "writing"
  /\ up' = [up EXCEPT ![u] = "rejected"]
  /\ Unlink(upFile[u])
  /\ UNCHANGED <<rows, cache, app, owner, worker, upFile,
                 phase, todo, seen, cur, meta, faults>>

(* f.write raises, the disk is full: a 500, and the partial file stays.    *)
UploadError(u) ==
  /\ LoopFree /\ up[u] = "writing"
  /\ Fault("error")
  /\ up' = [up EXCEPT ![u] = "failed"]
  /\ UNCHANGED <<disks, rows, cache, app, owner, worker, upFile, linked, sync>>

(* The last chunk is written: sync_all runs with no await in between.      *)
UploadSync(u) ==
  /\ LoopFree /\ up[u] = "writing"
  /\ up' = [up EXCEPT ![u] = "syncing"]
  /\ owner' = u
  /\ SyncBegin("loop")
  /\ UNCHANGED <<disks, rows, cache, app, worker, upFile, linked, faults>>

(* The answer carries get_by_rel_path's row, or null, or is a 500.         *)
UploadReply(u) ==
  /\ owner = u /\ phase["loop"] \in Ended
  /\ up' = [up EXCEPT ![u] = IF phase["loop"] = "failed" THEN "failed"
                             ELSE IF rowStamp[upFile[u]] # 0 THEN "indexed"
                             ELSE "unindexed"]
  /\ owner' = "none"
  /\ SyncEnd("loop", "idle")
  /\ UNCHANGED <<disks, rows, cache, app, worker, upFile, linked, faults>>

(* GET /api/media/{id}/thumbnail makes a missing image on demand (a 500    *)
(* when the directory is missing too).                                     *)
ServeThumbnail(f) ==
  /\ LoopFree /\ rowStamp[f] # 0 /\ f \notin thumbs
  /\ disk[f] # 0 /\ thumbDir = "present"
  /\ thumbs' = thumbs \cup {f}
  /\ UNCHANGED <<disks, rows, thumbDir, app, owner, worker, upload, sync, faults>>

-----------------------------------------------------------------------------
(* BackgroundWorker._run_loop, a coroutine of the event loop.              *)

WorkerSync ==
  /\ LoopFree /\ worker = "top"
  /\ worker' = "syncing"
  /\ SyncBegin("worker")
  /\ UNCHANGED <<disks, rows, cache, app, owner, upload, faults>>

(* should_throttle_background_jobs: CPU above 85% or RAM above 90%.        *)
WorkerThrottled ==
  /\ LoopFree /\ worker = "top"
  /\ worker' = "waiting"
  /\ UNCHANGED <<disks, rows, cache, app, owner, upload, sync, faults>>

WorkerJoinEarly ==   \* mutant: to_thread is not awaited
  /\ LoopFree /\ worker = "syncing"
  /\ worker' = "waiting"
  /\ UNCHANGED <<disks, rows, cache, app, owner, upload, sync, faults>>

(* to_thread returns, or its exception is logged.                          *)
WorkerJoin ==
  /\ LoopFree /\ worker = "syncing" /\ phase["worker"] \in Ended
  /\ worker' = "waiting"
  /\ SyncEnd("worker", "idle")
  /\ UNCHANGED <<disks, rows, cache, app, owner, upload, faults>>

(* wait_for times out after interval_seconds, or the event is set.         *)
WorkerWake ==
  /\ LoopFree /\ worker = "waiting"
  /\ worker' = "top"
  /\ UNCHANGED <<disks, rows, cache, app, owner, upload, sync, faults>>

-----------------------------------------------------------------------------
(* Faults from outside.                                                    *)

(* The process dies: disk, SQLite file and cache stay as they are, a       *)
(* half-written upload included.                                           *)
Crash ==
  /\ app # "down"
  /\ Fault("crash")
  /\ app' = "down" /\ owner' = "none" /\ worker' = "off"
  /\ up' = [u \in Uploads |-> IF up[u] \in {"writing", "syncing"}
                              THEN "failed" ELSE up[u]]
  /\ phase' = [p \in Procs |-> "idle"] /\ todo' = [p \in Procs |-> {}]
  /\ seen' = [p \in Procs |-> [f \in Files |-> 0]]
  /\ meta' = [p \in Procs |-> 0] /\ gone' = [p \in Procs |-> {}]
  /\ cur' = [p \in Procs |-> "none"]
  /\ UNCHANGED <<disks, rows, cache, upFile, linked>>

(* cloudctl cleanup --purge-thumbnails removes the directory and all.      *)
PurgeThumbnails ==
  /\ thumbDir = "present"
  /\ Fault("purge")
  /\ thumbDir' = "missing" /\ thumbs' = {}
  /\ UNCHANGED <<disks, rows, app, owner, worker, upload, sync>>

-----------------------------------------------------------------------------
Environment ==
  \/ \E f \in Files : WriteFile(f)
  \/ \E f \in Files : DeleteFile(f)
  \/ \E p \in Procs, f \in Files : ScanMiss(p, f)
  \/ \E p \in Procs : SyncError(p)
  \/ \E u \in Uploads : UploadError(u)
  \/ Crash
  \/ PurgeThumbnails

Handlers ==
  \/ Boot
  \/ BootEnd
  \/ TriggerScan
  \/ ScanReply
  \/ \E u \in Uploads : UploadOpen(u)
  \/ \E u \in Uploads : UploadChunk(u)
  \/ \E u \in Uploads : UploadReject(u)
  \/ \E u \in Uploads : UploadSync(u)
  \/ \E u \in Uploads : UploadReply(u)
  \/ \E f \in Files : ServeThumbnail(f)

Worker == WorkerSync \/ WorkerThrottled \/ WorkerJoin \/ WorkerWake

Next == Environment \/ Handlers \/ Worker \/ \E p \in Procs : SyncStep(p)

Spec == Init /\ [][Next]_vars

(***************************************************************************)
(* A thread that is in sync_all goes on; the supervisor restarts a service *)
(* that is down; the loop, a FIFO of callbacks, comes round to a callback  *)
(* that is ready again and again; load does not stay high for ever.        *)
(* Requests and the disk's users owe nothing.                              *)
(***************************************************************************)
Fairness ==
  /\ \A p \in Procs : WF_vars(SyncStep(p))
  /\ WF_vars(Boot) /\ WF_vars(BootEnd) /\ WF_vars(ScanReply)
  /\ \A u \in Uploads : WF_vars(UploadReply(u))
  /\ SF_vars(WorkerSync) /\ SF_vars(WorkerJoin) /\ SF_vars(WorkerWake)

FairSpec == Spec /\ Fairness

-----------------------------------------------------------------------------
(* Types, and the threads' states agreeing with the coroutines' that wait  *)
(* for them: sync_all occupies the loop exactly while a handler owns it,   *)
(* lifespan owns it exactly while the service boots, and there is a worker *)
(* thread exactly while _run_loop awaits one.                              *)
TypeOK ==
  /\ clock \in Stamps
  /\ disk \in [Files -> Stamps]
  /\ rowStamp \in [Files -> Stamps] /\ rowMeta \in [Files -> Stamps]
  /\ thumbs \subseteq Files /\ thumbDir \in {"present", "missing"}
  /\ app \in {"down", "booting", "up"}
  /\ owner \in {"none", "boot", "scan"} \cup Uploads
  /\ worker \in {"off", "top", "syncing", "waiting"}
  /\ up \in [Uploads -> {"idle", "writing", "syncing", "indexed",
                         "unindexed", "rejected", "failed"}]
  /\ upFile \in [Uploads -> Files] /\ linked \subseteq Uploads
  /\ phase \in [Procs -> {"idle"} \cup Busy \cup Ended]
  /\ todo \in [Procs -> SUBSET Files]
  /\ seen \in [Procs -> [Files -> Stamps]]
  /\ cur \in [Procs -> Files \cup {"none"}]
  /\ meta \in [Procs -> Stamps]
  /\ gone \in [Procs -> SUBSET Files]
  /\ faults \in 0..MaxFaults
  /\ owner = "none" <=> phase["loop"] = "idle"
  /\ worker = "syncing" <=> phase["worker"] # "idle"
  /\ app # "up" => worker = "off"
  /\ app = "down" => owner = "none"
  /\ app = "booting" <=> owner = "boot"
  /\ \A p \in Procs : cur[p] \in Files <=> phase[p] \in {"extract", "thumb", "upsert"}

(* sync_all skips a file whose row has the signature just scanned: such a  *)
(* row must not describe an older content of the file, or the stale        *)
(* metadata would never be corrected.  (indexer.py: scan before extract.)  *)
UnchangedMeansCurrent ==
  \A f \in Files : rowStamp[f] # 0 /\ rowStamp[f] = disk[f]
                     => rowMeta[f] \in {disk[f], 0}

(* A row is deleted only by a sync during which its file was, at some      *)
(* moment, not there to be seen: a file that stays in place keeps its row, *)
(* whatever the other thread does.  (indexer.py: removed_ids.)             *)
StableFileKeepsRow ==
  [][\A f \in Files : rowStamp[f] # 0 /\ rowStamp'[f] = 0
                        => \E p \in Procs : phase[p] = "prune" /\ f \in gone[p]]_vars

(* What makes the two properties above inductive.  Stamps on disk, in rows *)
(* and in scans were all given out; what extract returned after the scan   *)
(* of an unchanged file is that file's; and a file that a sync has not     *)
(* seen when its scan is over has been away, so all it prunes has.         *)
StampsIssued ==
  \A f \in Files : /\ disk[f] <= clock /\ rowStamp[f] <= clock
                  /\ \A p \in Procs : seen[p][f] <= clock

ExtractCurrent ==
  \A p \in Procs : phase[p] \in {"thumb", "upsert"} =>
    \A f \in Files : f = cur[p] /\ seen[p][f] # 0 /\ seen[p][f] = disk[f]
                     => meta[p] \in {disk[f], 0}

UnseenGone ==
  \A p \in Procs : phase[p] \in Busy =>
    \A f \in Files :
      /\ disk[f] = 0 => f \in gone[p]
      /\ seen[p][f] = 0 /\ ~(phase[p] = "scan" /\ f \in todo[p]) => f \in gone[p]
      /\ f \in todo[p] /\ phase[p] = "prune" => f \in gone[p]
      /\ f \in todo[p] /\ phase[p] \notin {"scan", "prune"} => seen[p][f] # 0
      /\ f = cur[p] => f \in todo[p]

(* Once the files stop changing, the index ends up listing exactly the     *)
(* files on disk with their last signatures, and stays so, whatever races, *)
(* errors and restarts came before.  (worker.py: periodic sync_all.)       *)
Converges == <>[](rowStamp = disk)

(* POST /api/upload: "Upload media file directly into library and index    *)
(* immediately" (app.py): an upload whose file has stayed in place is      *)
(* answered with its item.                                                 *)
UploadAnsweredWithItem ==
  \A u \in Uploads : up[u] = "unindexed" => u \notin linked
=============================================================================
