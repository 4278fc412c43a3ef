# A TLA+ model of USPC

USPC is two programs and a page. `cloudctl` (src/src/cloudctl) installs and runs
a private cloud (Nextcloud, PostgreSQL, Redis, Headscale and a media service) in
Podman, Docker or K3s, and backs it up. The media service (src/src/media, FastAPI)
indexes, thumbnails and streams the files Nextcloud keeps. The web client
(src/web) shows the library.

These modules model the parts whose correctness depends on the order of events.
Run a check with `tlc -config <cfg> <module>`, a proof with `tlapm <module>.tla`.

## Inventory

| part | state | operations | hard behaviours |
|---|---|---|---|
| library sync: `indexer`, `scanner`, `models`, `worker`, upload handler | files, SQLite rows, thumbnail directory, the two threads in `sync_all` | scan, look up, extract, thumbnail, upsert, prune; start-up, `POST /api/scan`, `POST /api/upload`, the worker's loop | two syncs at once, files that change under them, crash, read error, exception in the middle |
| `ConcurrencyManager` | streams by user | acquire, release | limits, lost slots |
| `stream_media` | request | acquire, respond, send | the body outlives the handler |
| `SlidingWindowRateLimiter` | request times by client | check | window boundary |
| `InFlightDeduplicator` | `_in_flight`, futures, tasks | join or start, resolve, pop | late joiners, failures, cancellation |
| `ThumbnailGenerator` | temporary and final image | generate | two threads, one file name |
| `Transcoder` | semaphore, temporary and final video | transcode | two jobs for one item, crash during ffmpeg, a cancelled job whose ffmpeg goes on |
| tokens (`auth`) | revoked tokens, in memory | create, verify, revoke | restart, truncated clock, two tokens in one request, one expiry spelled in two ways |
| ranges (`streaming`) | none | parse, send chunk by chunk | empty file, file replaced while sent |
| containers and backends, install, setup, start, stop, restart, doctor, uninstall | containers, pod or network, postgres directory | run, start, stop, remove | any engine call fails, interruption, rerun, containers that die |
| secret vault | secrets file | load, generate, regenerate | concurrent sessions, damaged file, loss of the host |
| backup, restore, update, cleanup | dump file, repository | dump, snapshot, verify, restore, erase | failed step ignored, sessions sharing the dump file |
| configuration | `cloud.yaml`, its `.bak` | init, switch, migrate, import, load | layers, validation before or after merging, edits by hand, interruption |
| migration bundles | staging directory, archive | export, import | users writing meanwhile, unreadable files, interruption |
| metrics and alerts | SQLite samples | record, alert, prune, reset | storage limit, lock timeout taken for corruption |
| readiness, health, security checks | none | evaluate | many checks combined into one verdict |
| acceptance lab | exported reports | quick, full, export, hardware | phases that raise, status overwritten |
| storage, performance, host detection, reporting, command line | none that outlives a call | probe, format | none |
| web client | current list, queue | load, play, upload | answers out of order |

How they interact: the handlers of the media service and the coroutine of its worker
share one event loop; the worker's sync runs in a thread of its own, and so at the
same time as the sync of a handler, against the same database, files and thumbnail
directory and without a lock. The streaming handler calls the concurrency manager,
the HTTP middleware the rate limiter. The deduplicator is created (app.py:50) and
asked by nobody; the transcoder is called by tests only. `cloudctl cleanup` deletes
directories under the running service, and the dump under a running backup. Every
cloudctl command is a process of its own: a backup put into cron
(docs/BACKUP-DR.md:76) and the administrator's commands meet in the secrets file,
the dump, the repository and the metrics database, mostly without a lock. What must
hold of each part is stated below, with the module that states it.

## Modules

### Library

**MediaLibrary** models a sync as the sequence of its file-level steps, once for
each of the two threads in `Procs`. `disk[f]` is the (mtime, size) signature of a
file as a stamp of a clock that every write advances, 0 when there is none; a row
is `rowStamp[f]` (the signature stored) and `rowMeta[f]` (the content its
metadata was read from, 0 for fallback metadata). `phase`, `todo`, `seen`, `cur`
and `meta` are the locals of `sync_all`. `owner` says which handler's synchronous
`sync_all` occupies the event loop: while it does, no other handler or callback
runs (`LoopFree`). An upload opens (and truncates) its file, writes it in steps
between which other handlers run, and then syncs. Environment: users and
Nextcloud write, replace and delete files; `FaultKinds` are a crash of the
process, a file that cannot be stat()ed during a scan ("miss"), an exception that
ends a sync or an upload ("error"), and `cleanup --purge-thumbnails` ("purge"). `linked` and
`gone` are history variables for the properties.

- `UnchangedMeansCurrent`: a sync skips a file whose row has the signature just
  scanned, so such a row must not describe an older content. It holds because the
  signature is taken before the content is read, never after.
- `StableFileKeepsRow`: a row is pruned only by a sync during which the file was,
  at some moment, not there or not readable.
- `Converges`: when the disk stops changing, the index becomes and stays equal to
  it, whatever raced, failed or crashed before.
- `UploadAnsweredWithItem` is what upload_media's docstring promises. It does not
  hold: see Findings.

**QuietSync** adds one history variable, `calm`: the threads whose sync has, since
it began, met no other sync, no write to the disk and no unreadable file.
`QuietSyncIsExact`: such a sync returns with the index equal to the disk, whatever
crashed or half-finished syncs came before. `QuietUploadAnswered`: and an upload
whose sync was calm is answered with its item, if its file is still there. Both say
how far the violated property goes wrong: nothing but another sync or another
writer is needed, and nothing else suffices.

### Requests

**ConcurrencyManager**, **RateLimiter**, **Tokens** and **RangeRead** are what a
request for a file goes through. They share no state in the code; **MCRequests**
puts them into one specification, `focus` saying which of them moves, so that one
run explores the four side by side.

- ConcurrencyManager: `SlotsConserved` and `LimitsHold`, the manager counts the
  callers that hold a slot, and neither limit is exceeded.
- RateLimiter keeps for each client the set of its recent requests, each with a
  number of its own, since two may fall into one tick. `NoWindowOverfull` and
  `RefusedOnlyWhenFull`, in no span of `window_seconds` are more than `max_requests`
  requests let through, and none is refused without that many in the window; both
  are checked against the history of all accepted requests, not the list the limiter
  keeps.
- Tokens has `create_media_token`, `verify_media_token_user`, `revoke_token` and
  the order in which `authenticate_request` tries the query token and the bearer.
  A token is the record of what it was made from; a signature verifies exactly
  with the item and the secret it was made with. What is sent, and what is
  revoked, is a string: a token and the way its expiry is spelled, as created or
  otherwise, since verification takes int() of it and revocation compares the
  string. Time is in ticks, `Second` of them to the second, since create_media_token
  truncates it to whole seconds and verification does not. A restart forgets
  revocations and may bring another secret. `AccessIsOwed`: whoever is let in, and
  as whom, is owed to one presented token that is live, of that scope, sent as a
  string that is not revoked. `LiveTokenWorks`: a live one as it was created works,
  whatever is sent with it, but for the part of its last second that was truncated:
  less than a whole second, at any grain of time. `RefusalIsFinal`: no step but a
  restart lets a refused string in again.
- RangeRead has `parse_range_header` over every shape of header, and
  `chunk_generator`, which opens the file after the headers have been sent and
  reads it while it may be cut, extended or removed. Of a header with several
  ranges only the first is looked at, so that one is all that is modelled.
  `RangeIsWhatWasAsked`
  compares with the set of bytes the header means; `BodyKeepsItsLength`: the body
  is no longer than announced, and shorter only if the file was.

**StreamEndpoint** extends ConcurrencyManager with stream_media as its only
caller. `StreamsWithinLimits` is what the limits are for and does not hold (see
Findings); `NobodyRefused` is what holds instead.

### Generated media

**SingleFlight** is what any deduplicator promises: one run of a key at a time,
shared by those who come during it. **Deduplicator** is the code's futures, tasks
and dictionary; `IsSingleFlight` is the refinement. A run that is spawned or
running is SingleFlight's run of its key; one that has ended or been cancelled is
over.

**Transcoder** models a path by the set of jobs that have opened its inode, since
ffmpeg goes on writing an inode that has been renamed. A job may fail, die with the
service, or be cancelled: then its permit goes back, but ffmpeg is not killed and
the temporary file stays (`Cancel`, `OrphanEnds`), so that the next job of the item
shares the inode with it. **MCTranscoder** gives it three jobs of one video.
`DestIsComplete`: a published file was encoded to its end by the job that answered
with it, and no other ffmpeg had it open but one that a cancelled job left running.
**FileCache** is what any cache of expensive files promises: a path that was
answered leads to a whole file from then on, unless a request of that file was
cancelled, after which it promises nothing of it. `IsFileCache` is the refinement: a
job up to its answer is a waiting request, and an item's file is whole when only the
job that answered with it has written it.

**Thumbnails** has the event loop and the worker in `ThumbnailGenerator.generate`;
`GenerationIsShared` is what the documentation says, `FinishedStays` what it would
be good for.

### Operations

**MCOperations** extends the seven modules below and runs them side by side in one
specification, in the same way as MCRequests. **Cloudctl** declares the sessions,
one of them cron's, that Credentials and Backups share.

**Deployment**: a command is the sequence of engine calls it makes (`run.todo`),
translated from the command's code; each call succeeds or fails on its own, the
command may be interrupted between two calls, and containers die at any moment.
Podman's pod and the docker fallback differ where the code differs: `install`
recreates the pod, which removes its containers, the backend's setup keeps it,
headscale is missing from the backend's list. `CleanCommandRepairs`: from any
state reached so far, an install, setup, start, restart or doctor without a
failed call ends with every enabled service running, also a start that has met a
missing container and installed (`start_install`). `ExitStatusHonest`: status 0
of restart, of doctor and of a start that found every container is never a lie.
install is not in it, nor a start that fell through to it: install ignores the
result of every engine call and returns 0 whatever happened. `StopOrder`: as long as
its calls succeed, stop does not take the database away under a running nextcloud;
after a failed call it goes on all the same.

**Credentials**: the vault, the repository's key and the password in the postgres
directory, as generations of keys. Sessions load, generate and save step by step,
so that two may generate at once. `CredentialsStayValid`: without one of the named
accidents (forced, damaged, host lost, two sessions generating the first secrets)
no interleaving leaves repository, snapshots or database with credentials the
vault has not. `RestorableUnlessLost`: until one of them, a restore that finds a snapshot never
fails for want of the right password. `lost` is the history of those accidents,
and the bound on them.

**Backups**: the contents instead, as versions. The dump file is shared by all
sessions. `BackupIsCurrent`: a backup that reports success holds files and, if its
dump worked, a dump no older than its own beginning, unless another session
rewrote the dump meanwhile. A dump that fails is left out of the guarantee because
the code leaves it out: an older dump is then snapshotted silently.

**ConfigStore**: `cloud.yaml` as a partial function of five keys that stand for
the schema's kinds (colliding ports, a switch, a key set by every layer, the
version). `SavedConfigLoads`: what cloudctl has written, load_config accepts,
though import validates the source without the defaults it will be merged with;
it holds because every key whose default could collide is required.
`ImportKeepsOld`: an interrupted import leaves the old settings in the file or the
`.bak`. `MigrateKeepsSettings`: a migration changes only the version.
`SwitchTakesEffect`: no profile or variable brings the former mode back.

**Migration**: export copies file after file while users write and delete, import
unpacks over existing files; both may be interrupted and run again.
`ManifestMatchesArchive` and `ImportIsComplete`.

**Metrics**: samples, alerts over the last five minutes, the pruning at the
storage limit with its VACUUM, and the reset of a database that is damaged or
locked for too long (any DatabaseError is taken for corruption).
`AlertsFollowPeaks`: a CRITICAL alert is up exactly while a recent peak is
recorded, whatever was pruned, as long as the database is not reset.

**Readiness**: the verdict, score and exit status as functions of what the probes
find. `ReadyMeansClean`: exit status 0 exactly when nothing is wrong beyond what
`Tolerated` lists. `TopVerdictIsFullScore`: verdict and score, computed apart,
agree at the top. `WorseIsNeverBetter`: one more problem, or one running container
less, never improves the verdict, although some problems hide others. Containers
exit, are removed and come back in any order; the removal of an exited one is left
out of that property, because it does improve the verdict (see Also seen).
**Acceptance** puts the acceptance command
on top (EXTENDS, and an INSTANCE with the sandbox's own settings).

## Runs

| run | bounds | shows |
|---|---|---|
| library_safety | 2 files (symmetric), 2 stamps, 1 fault of any kind | types, change detection, pruning and the exactness of calm syncs under every interleaving of the two syncs; two files are needed for one to be pruned while the other is processed, and one write after installation is enough for a change to fall into each gap of a sync |
| library_live | 1 file, 1 upload, 3 stamps, 1 crash, miss or error | the same safety with an upload in it, answered if its sync was calm, and `Converges` under the fairness below; files do not influence one another's rows, so one suffices, and more writes give more chances to stay stale |
| library_upload | as above, no fault | the violation below |
| library_purge | 1 file, purge | the violation below |
| requests | 2 users, 4 streams, limits 3 and 2; 2 clients, 2 requests in 2 of 4 ticks; 2 items, 2 secrets, 2 tokens of 1 s in thirds of a second over 4 of them, each spelled in 2 ways, 1 restart; a file of at most 4 bytes in chunks of 2 | either stream limit is met first; requests at both ends of two windows; a pair of tokens of different item, user or secret sent together, before, at and after expiry, created at every phase of a second; a revoked token sent again in the other spelling; ranges inside, at and beyond the end, over a chunk boundary, of empty files |
| operations | 3 services, both engines; 2 sessions, 2 key generations; 2 data versions, 1 snapshot; 2 edits by hand; 2 files, 2 versions, 1 fault; alerts of 1 tick, 2 kept, more than 2 samples pruned, 6 ticks; 2 containers, 3 problems | every command after every other, each with any failing call or interruption; two sessions in every overlap of two commands; an import interrupted and repeated; every triple of problems, enough to reach the verdict's threshold of three blockers |
| recovery_hostloss | 2 sessions, 2 key generations, one accident | the violation below |
| acceptance_gate | 1 service, 1 problem | the violation below |
| streams | 3 streams | the violation below |
| deduplicator | 3 callers, 2 keys, 3 runs | a third run for a key whose first has failed, joiners at every step |
| transcoder | 4 jobs of 2 items, 1 permit, 2 crashes | jobs queue behind a job of the same item that crashes or is cancelled half way, and answer paths that later jobs rename over; one job is of another item, none of whose requests need be cancelled |
| thumbnails | 2 threads, a video and a photo | the violation below |

`CHECK_DEADLOCK FALSE` is set where the model may stop: bounded stamps, requests
and jobs run out, and the operations' bounds are met.

Each property has been checked on a mutated model too: the operators
commented "mutant" are plausible slips of the code, and each breaks the property
PROJECT.json names.

### Fairness

MediaLibrary: a thread that is in `sync_all` goes on (WF of `SyncStep`); the
service's restart policy boots it again (WF of `Boot`); a handler that has
finished its sync answers. The three steps of the worker's coroutine get strong
fairness: each is ready whenever the loop is free, the loop becomes free again
and again, and asyncio runs ready callbacks in FIFO order. WorkerSync's says also
that the host is not above 85% CPU for ever. Nothing is assumed of requests, of
users of the disk, nor that faults happen. Deduplicator: the loop runs ready
tasks and wakes waiters, and the shared operation ends. cloudctl's commands need
none: nothing obliges an administrator to go on, and no property of theirs says
that something happens eventually.

## Findings

1. *library_upload.* `removed_ids = db_ids - scanned_ids` (indexer.py:85) compares
   the database of now with a scan of before. A worker sync that scanned before an
   upload deletes the row the upload's own sync has just made; the upload answers
   with `item: null` (app.py:372), and the file is missing from the library until
   the next sync. `Converges` says it does come back, `StableFileKeepsRow` that
   only files which were really absent during the scan are concerned, and
   `QuietUploadAnswered` that the other sync is needed: nothing else can cause it
   while the file stays.
2. *library_purge.* `cleanup --purge-thumbnails` removes the directory itself;
   only the constructor makes it. Every later save raises, the fallback badge
   inside the `except` included, and `sync_all` aborts at the first new file:
   nothing new is indexed, nothing pruned, until a restart.
3. *streams.* The slot is released when the handler returns its response object,
   before the body is sent: the limits bound nothing that streams, although the
   manager itself is right (`SlotsCorrect`), and the handler uses it as it should
   (`EndpointUsesSlots`). More than that: since handlers hold a slot only between
   two awaits, no request is ever refused, at whatever limits but zero and however
   many bodies are being sent (`LimitsNeverBite`).
4. *thumbnails.* No generation is shared; the loop and the worker run ffmpeg onto
   one temporary file, and the one that loses replaces the picture by a badge.
   Sharing is all that is missing: as long as no two threads work on one item, a
   finished thumbnail is never replaced (`SharedThumbnailsStay`).
5. *recovery_hostloss.* docs/ARCHITECTURE.md:152 and docs/BACKUP-DR.md:45 list the
   secret vault among what is backed up; create_backup snapshots data and
   configuration only. The repository password exists nowhere else: after the loss
   of the host cloudctl generates new secrets (secrets.py:59), and no earlier
   snapshot can be opened. Short of losing a key this cannot happen
   (`RestorableUnlessLost`, `RestoresWork`).
6. *acceptance_gate.* docs/ACCEPTANCE.md:101 and docs/PRODUCTION-GAP-MATRIX.md:33
   say that a failed gate rejects. run_acceptance_lab overwrites the status derived
   from the readiness verdict with "ACCEPTED"; only an exception can fail it, and
   it exits 0 when the readiness verdict it has computed is NOT_READY, as the score and
   the layers in its own report show.

Also seen while modelling, without a run of their own.

Media service:
- A file that is still being written can be published as transcoded in two ways, and
  in these only (`OnePublisherCompletes`). With two permits (the default of
  `Transcoder`) the second job of an item truncates and goes on writing the file the
  first renames: dest_path.exists() is tested before the semaphore only. And a job
  cancelled in `communicate()` (transcoder.py:83) gives its permit back without
  killing ffmpeg, so that with one permit, too, the next job of the item publishes
  an inode that the first one's ffmpeg may still write.
- A revoked token is let in again if its expiry is spelled otherwise: revocation
  compares strings (auth.py:41), while the signature is checked over the number that
  int() makes of the expiry (auth.py:69-73). `AccessIsOwed` promises of the string
  only.
- A token dies up to a second early, since its creation truncates the time.
- A deduplicated operation that raises CancelledError pops its key and leaves its
  callers waiting: `CallersAnswered` excepts it.
- `POST /api/scan` is documented as a background sync and runs inside the handler.
- revoke_token has no caller in the service. A range `bytes=-n` of an empty file is
  answered `bytes 0--1/0` with 206.

Operations:
- install returns 0 whatever failed, though docs/CLI-REFERENCE.md:31 gives setup,
  which ends with it, an exit status for failure. `start` returns that same 0 when it
  meets a missing container (lifecycle.py:27-31), also with nothing running in the
  end. `setup --force`, or a damaged secrets file,
  draws new secrets that neither the initialised postgres nor the repository has;
  two sessions that generate the first secrets at once do not exclude each other.
- Concurrent backups share one dump file. A failed dump leaves the older one in
  the snapshot. update pulls no image and undoes nothing when a component is
  unhealthy, though README.md:67, docs/USER_GUIDE.md:111, docs/CLI-REFERENCE.md:80
  and docs/UPGRADE-MIGRATION.md:22 describe a rolling update with rollback.
- BackupManager's prune_retention is never called and nothing acts on `backup.schedule`
  (docs/BACKUP-DR.md:76 and :124); the reported RPO is a constant.
- The migration bundle has the Nextcloud files and the database, not the
  configuration and the vault docs/UPGRADE-MIGRATION.md names; import compares no
  checksum and ignores the result of psql.
- readiness finds a host ready whose containers do not exist at all: missing is
  "stopped" (container.py:223-231), which only warns (health.py:93), where an exited
  container is unhealthy and blocks (health.py:103). So to remove a container that
  has exited improves the verdict.
- get_effective_config, auto_tune_from_hardware, validate_performance_budgets and
  migrate_data have no caller, though docs/CONFIGURATION.md:179 and
  docs/PERFORMANCE.md rely on the first three.
- alerts --acknowledge and --resolve change nothing; monitor records an error count
  of 0 always; the storage limit "never exceeds" (metrics.py:199) only what samples
  older than seven days can free.
- K3s setup passes env= to _run_kubectl, which does not take it.

## Proofs

TLAPS checks, for every value of the constants, every safety property the passing
runs check. Below, by module: the theorems, and the inductive invariant each
needs, since hardly any of the properties survives a step by itself.

**MediaLibrary_proofs**
- `TypeCorrect`: types, and who owns the loop and the worker thread.
- `ChangeDetectionSound`, from TypeOK, `StampsIssued` (every stamp was given out by
  the clock, so a new write differs from all that rows and scans hold),
  `ExtractCurrent` (metadata read after the scan of a file still unchanged is that
  file's) and UnchangedMeansCurrent, which alone does not survive an `Upsert`.
- `PruningSound`, from `UnseenGone`: a file that a finished scan has not seen was
  away at some time in that sync, and so is everything on its prune list.
- `QuietSyncsExact` and `QuietUploadsAnswered`, from `QuietSoFar`: the files that
  each loop of a calm sync is done with are seen, indexed or pruned as the disk
  has them. `QuietIsPlain` shows that the history variable restricts nothing, so
  that what is proved of Spec holds of QuietSpec.
- `SharedThumbnailsStay` (Thumbnails), from: who is making a thumbnail has found
  none, and nobody else has finished one since.
- The steps of Next are first sorted into kinds by what they do to files, rows and
  syncs (`StepKinds`), and each invariant is then shown kind by kind.

**Fairness_proofs**, the three classes of fairness.py
- `SlotsNeverLost`, `SlotsCorrect`: SlotsConserved ties the slots counted to the
  callers there are; the limits then follow from the cardinality of a set with
  one more element (`AddBelow`).
- `EndpointUsesSlots`: every step of StreamEndpoint is a step of a caller of the
  manager or none of the manager's, so both theorems hold of the endpoint; and
  `LimitsNeverBite`, since a handler enters only when no slot is taken.
- `WindowsNeverOverfull`, `RefusalsAreOwed`, from `KeepsRecent` (no accepted request
  that is still recent is missing from the list) and `SpansBounded` (the property
  for spans anywhere in time). A span that ends now is bounded by the count the
  limiter takes, an earlier one does not change.
- `EntriesAreLive`, from its property and `FreshRuns` (a run not yet spawned is
  unresolved, a spawned one has a key); `DeduplicatorImplementsSingleFlight`, the
  refinement: every step maps to a SingleFlight step or a stutter.

**Access_proofs**
- `AccessSound`, `LiveTokensWork`, `RefusalsFinal`, from: a token's expiry is that of
  its truncated time of creation, which is less than a second (`Second` ticks, however
  many) before the time itself, and time never runs back.
- `RangesRight`, and `BodiesKeepLength`, from: `low` bounds every size the file has
  had since it was measured.

**Transcoder_proofs**
- `PermitsNeverLost`, for any number of permits.
- `OnePublisherCompletes`, also for any number of them, from `OwnFiles`: each job
  inside the semaphore shares its temporary file with nobody but what cancelled jobs
  have left running, as long as no other job of its item is inside too; and
  `TranscoderIsCache`, the refinement of FileCache under the same condition.
  `PublishedIsComplete` and `TranscoderImplementsCache` (one permit), and
  `DistinctItemsComplete` (no two jobs of one item), follow.

**Recovery_proofs**
- `CredentialsValid`, from `VaultInv`: while no accident has happened, every key a
  session carries between two steps is the vault's, and a session draws new secrets
  only if it has seen no vault. The property alone does not survive the step that
  uses a key loaded earlier.
- `RestoresWork`, from VaultInv and `RestoresHold`: a restore that has loaded its
  credentials holds some, nothing else fails it, and a repository with a snapshot
  has a key; by VaultInv those are the same.
- `BackupsCurrent`, from `BackupsInv`: `Counts` says, step by step of a backup or
  update, how new the data, the dump and the text it is about to write are; it is
  kept by the other sessions as long as the session is `Undisturbed`, that is, as
  nobody else has rewritten the dump or the data it saves.

**Operations_proofs**
- `ManifestsMatch` and `ImportsComplete`, from the same facts about the bundle still
  in staging, none of whose files is still to be copied, and about the files an
  import has already written.
- `AlertsRight`, from: every peak no older than `Keep` is still a sample, and
  `Window <= Keep`.
- `SavedConfigsLoad`, `ImportsKeepOld`, `MigrationsKeepSettings`, `SwitchesTakeEffect`,
  from `ConfigInv`: `CommandOwes` says, step by step, which of the file, its `.bak`
  and the command hold the old settings and which the new; and a configuration that
  is valid by itself stays valid over the defaults (`ValidLoads`).

**Deployment_proofs**
- `CleanCommandsRepair`, `ExitStatusesHonest`, `StopInOrder`, from `DeploymentInv`:
  what a command has done and what it has still to do add up to what it promises
  (`InstallOwes`, `StartOwes`, `DoctorOwes`, `StopOwes`). A service is running or
  its step is still to come; a launch follows the pod that would remove it;
  nextcloud's stop precedes its database's. A start that has fallen through owes what
  install owes. They rest on lemmas about sequences
  (`Occurs`, `Follows`, `Precedes`, of a concatenation and of a tail), and `Fits`:
  a command's steps are those of its kind.

**Readiness_proofs**
- `ReadyIsClean`, `TopIsFull`, from lemmas that each count of failed checks is zero
  exactly if nothing it counts has failed, and `WorseNeverBetter`, from their
  monotony (`WorseCounts`) in the steps of which the property speaks: there every
  container that is not running stays as it was (`WorseGrows`).

What is assumed is named in the modules: a second of at least one tick, distinct
special values, limits, lives and windows that are natural numbers (a window is not
empty), `Cron` among the sessions, the services the code requires among those
deployed. Some theorems say themselves
what else they need: finitely many files, jobs or containers where they are counted
(`ManifestsMatch`, `ImportsComplete`, `PermitsNeverLost` and the Readiness module),
one permit (`PublishedIsComplete`, `TranscoderImplementsCache`), limits that are not
zero (`LimitsNeverBite`), no item called "none" (`SharedThumbnailsStay`).

Only model-checked: `Converges` and `CallersAnswered`, which need fairness and are
beyond the prover. The violated properties are false, and refuted by TLC.

## Not modelled

- Command line, SBOM, benchmark, host detection, logging, reporting: no state that
  outlives a call, or I/O and formatting only.
- Performance profiles: a table, and functions without a caller; the live status
  readiness takes from them is in Readiness.
- K3s manifests, logs and scaling of the backends: kubectl decides.
- worker.stop: the service starts its worker once and exits after stopping it. Nor a
  service without a worker: background_processing is taken to be on, as it is by
  default (config.py:38); without it nobody repeats a sync that failed.
- Files of an unsupported extension: the library's files, uploads included, are media
  files. An upload of anything else is stored, never indexed (scanner.py:62-63), and
  answered without an item, too; `QuietUploadAnswered` is about media files.
- Web client: it shows what the service answers and keeps nothing else.
- Ansible playbooks, shell scripts, container images; the containers' own software
  appears as the environment.

## Plan

1. Deployment as the refinement of a set of services that are absent, stopped or
   running, on which a command does what its name says or is cut short.
2. Acceptance: which exit status follows from which verdict, and which does not.
3. The library view of the web client: answers out of order.
