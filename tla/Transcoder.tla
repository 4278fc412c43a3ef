----------------------------- MODULE Transcoder -----------------------------
(***************************************************************************)
(* Transcoder.transcode_to_mp4 (src/src/media/transcoder.py): a job waits  *)
(* for the semaphore, has ffmpeg write <item>.tmp.mp4 and renames it to    *)
(* <item>.mp4.  What a path holds is the set of jobs whose ffmpeg has      *)
(* opened that inode ({}: no such path).  The ffmpeg of a cancelled job is *)
(* not stopped: it goes on as an orphan, outside the semaphore.            *)
(***************************************************************************)
EXTENDS Naturals, FiniteSets

CONSTANTS Items, Jobs,
          JobItem,         \* Jobs -> item_id
          MaxConcurrency,  \* max_concurrency, the semaphore's permits
          MaxCrashes       \* bound: deaths of the service

ASSUME TranscoderAssumption == /\ JobItem \in [Jobs -> Items]
                               /\ MaxConcurrency \in Nat \ {0}
                               /\ MaxCrashes \in Nat

VARIABLES
  job,      \* Jobs -> "new", "queued", "ffmpeg", "encoded", "path", "none", "dead",
            \* "orphan" (cancelled, its ffmpeg still runs), "cancelled"
  permits,  \* of the semaphore
  temp,     \* Items -> what temp_dest holds
  dest,     \* Items -> what dest_path holds
  crashes

transVars == <<job, permits, temp, dest, crashes>>

TransInit ==
  /\ job = [j \in Jobs |-> "new"]
  /\ permits = MaxConcurrency
  /\ temp = [i \in Items |-> {}]
  /\ dest = [i \in Items |-> {}]
  /\ crashes = 0

(* The cached file is returned; else the job queues at the semaphore.      *)
RequestTranscode(j) ==
  /\ job[j] = "new"
  /\ job' = [job EXCEPT ![j] = IF dest[JobItem[j]] # {} THEN "path" ELSE "queued"]
  /\ UNCHANGED <<permits, temp, dest, crashes>>

StartFfmpegUnbounded(j) ==   \* mutant: no semaphore
  /\ job[j] = "queued"
  /\ job' = [job EXCEPT ![j] = "ffmpeg"]
  /\ temp' = [temp EXCEPT ![JobItem[j]] = @ \cup {j}]
  /\ UNCHANGED <<permits, dest, crashes>>

StartFfmpegInPlace(j) ==   \* mutant: ffmpeg writes dest_path itself
  /\ job[j] = "queued" /\ permits > 0
  /\ permits' = permits - 1
  /\ job' = [job EXCEPT ![j] = "ffmpeg"]
  /\ dest' = [dest EXCEPT ![JobItem[j]] = {j}]
  /\ UNCHANGED <<temp, crashes>>

(* async with semaphore; ffmpeg -y truncates what temp_dest holds, which   *)
(* another ffmpeg may still have open, an orphan's too; a file that nobody *)
(* writes any more is simply redone.                                       *)
StartFfmpeg(j) ==
  /\ job[j] = "queued" /\ permits > 0
  /\ permits' = permits - 1
  /\ job' = [job EXCEPT ![j] = "ffmpeg"]
  /\ temp' = [temp EXCEPT ![JobItem[j]] =
                       {k \in @ : job[k] \in {"ffmpeg", "orphan"}} \cup {j}]
  /\ UNCHANGED <<dest, crashes>>

(* The process has exited with status 0.                                   *)
FfmpegSucceeds(j) ==
  /\ job[j] = "ffmpeg"
  /\ job' = [job EXCEPT ![j] = "encoded"]
  /\ UNCHANGED <<permits, temp, dest, crashes>>

(* temp_dest.exists(): the rename to dest_path, the permit, the answer.    *)
Publish(j) ==
  /\ job[j] = "encoded" /\ temp[JobItem[j]] # {}
  /\ dest' = [dest EXCEPT ![JobItem[j]] = temp[JobItem[j]]]
  /\ temp' = [temp EXCEPT ![JobItem[j]] = {}]
  /\ job' = [job EXCEPT ![j] = "path"]
  /\ permits' = permits + 1
  /\ UNCHANGED crashes

GiveUpOnDest(j) ==   \* mutant: the failed job unlinks dest_path
  /\ job[j] = "ffmpeg" \/ (job[j] = "encoded" /\ temp[JobItem[j]] = {})
  /\ temp' = [temp EXCEPT ![JobItem[j]] = {}]
  /\ dest' = [dest EXCEPT ![JobItem[j]] = {}]
  /\ job' = [job EXCEPT ![j] = "none"]
  /\ permits' = permits + 1
  /\ UNCHANGED crashes

(* ffmpeg failed, or temp_dest has gone: it is unlinked, None is returned. *)
GiveUp(j) ==
  /\ job[j] = "ffmpeg" \/ (job[j] = "encoded" /\ temp[JobItem[j]] = {})
  /\ temp' = [temp EXCEPT ![JobItem[j]] = {}]
  /\ job' = [job EXCEPT ![j] = "none"]
  /\ permits' = permits + 1
  /\ UNCHANGED <<dest, crashes>>

(* CancelledError, at the semaphore or in communicate(): a permit goes     *)
(* back, but ffmpeg is not killed and temp_dest not unlinked.              *)
Cancel(j) ==
  /\ job[j] \in {"queued", "ffmpeg", "encoded"}
  /\ job' = [job EXCEPT ![j] = IF @ = "ffmpeg" THEN "orphan" ELSE "cancelled"]
  /\ permits' = IF job[j] = "queued" THEN permits ELSE permits + 1
  /\ UNCHANGED <<temp, dest, crashes>>

OrphanEnds(j) ==
  /\ job[j] = "orphan"
  /\ job' = [job EXCEPT ![j] = "cancelled"]
  /\ UNCHANGED <<permits, temp, dest, crashes>>

(* The container of the service dies with its ffmpeg processes; the files  *)
(* stay, half a temp_dest included.                                        *)
TransCrash ==
  /\ crashes < MaxCrashes
  /\ crashes' = crashes + 1
  /\ job' = [j \in Jobs |->
               IF job[j] \in {"queued", "ffmpeg", "encoded"} THEN "dead"
               ELSE IF job[j] = "orphan" THEN "cancelled" ELSE job[j]]
  /\ permits' = MaxConcurrency
  /\ UNCHANGED <<temp, dest>>

TransNext == \/ \E j \in Jobs : RequestTranscode(j)
             \/ \E j \in Jobs : StartFfmpeg(j)
             \/ \E j \in Jobs : FfmpegSucceeds(j)
             \/ \E j \in Jobs : Publish(j)
             \/ \E j \in Jobs : GiveUp(j)
             \/ \E j \in Jobs : Cancel(j)
             \/ \E j \in Jobs : OrphanEnds(j)
             \/ TransCrash

TransSpec == TransInit /\ [][TransNext]_transVars

-----------------------------------------------------------------------------
(* dest_path.exists() is taken for "transcoded" (transcoder.py:51): what   *)
(* is there was encoded to its end by a job that answered with it, and no  *)
(* other ffmpeg ever had that file open but one that a cancelled job left  *)
(* running (which may write it still); also after a crash in the middle of *)
(* an encoding.                                                            *)
DestIsComplete ==
  \A i \in Items : dest[i] # {} =>
    \E j \in dest[i] : /\ job[j] = "path"
                       /\ \A k \in dest[i] \ {j} : job[k] \in {"orphan", "cancelled"}

(* transcode_to_mp4 is a cache of files: who is answered with a path finds *)
(* the whole video there, then and ever after, though later jobs of the    *)
(* item go on renaming their own files onto it.  Of an item of which a     *)
(* request was cancelled the cache promises nothing.                       *)
Cache == INSTANCE FileCache
  WITH answer <- [j \in Jobs |->
                   IF job[j] \in {"path", "none", "dead"} THEN job[j]
                   ELSE IF job[j] \in {"orphan", "cancelled"} THEN "cancelled"
                   ELSE "waiting"],
       whole <- {i \in Items : \E j \in Jobs : dest[i] = {j} /\ job[j] = "path"}

IsFileCache == Cache!Spec

(* No permit is lost or invented on any path out of the semaphore.         *)
PermitsConserved ==
  permits + Cardinality({j \in Jobs : job[j] \in {"ffmpeg", "encoded"}}) = MaxConcurrency
=============================================================================
