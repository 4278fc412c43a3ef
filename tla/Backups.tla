------------------------------- MODULE Backups -------------------------------
(* What the backups contain: the live data, the database dump that every     *)
(* backup writes to the same file, the snapshots, and the commands that       *)
(* write, read or remove them, run by concurrent sessions (a backup put into  *)
(* cron and the administrator).  Contents are version numbers: a larger     *)
(* one is newer, 0 is nothing usable (no file, or a truncated or half-        *)
(* restored one).  Whether a key opens the repository is the matter of module *)
(* Credentials: here any call of restic or of the engine may fail.            *)
EXTENDS Cloudctl, Naturals, Sequences

CONSTANTS
  MaxContents,  \* bound on the versions of the live data
  MaxSnapshots  \* bound on the snapshots kept

ASSUME BackupsAssumption == MaxContents \in Nat \ {0} /\ MaxSnapshots \in Nat

VARIABLES
  live,    \* version of the data under data_path, the database included
  dump,    \* version in config_path/postgres_backup.sql
  snaps,   \* the snapshots, oldest first: [files, dump]
  task     \* session -> the command it runs, or has run

backupsVars == <<live, dump, snaps, task>>

-----------------------------------------------------------------------------
\* A command is the sequence of the steps that touch the contents: loading the
\* secrets, opening and checking the repository, whose results create_backup
\* ignores, are not among them.
BackupSteps_LateDump == <<"snapshot", "dump">>      \* mutant: swapped order
BackupSteps == <<"dump", "snapshot">>
UpdateSteps == <<"dump", "snapshot", "health">>
CleanupSteps == <<"erase">>
RestoreSteps == <<"restore">>

TaskPlans == [backup |-> BackupSteps, update |-> UpdateSteps,
              cleanup |-> CleanupSteps, restore |-> RestoreSteps]

\* alone: no other session has rewritten the dump or the data meanwhile.
NoTask == [cmd |-> "none", todo |-> <<>>, from |-> 0, text |-> 0,
           dumped |-> FALSE, made |-> 0, alone |-> TRUE, rc |-> 0]

BackupsInit ==
  /\ live = 1 /\ dump = 0 /\ snaps = <<>>
  /\ task = [s \in Sessions |-> NoTask]

AtStep(s, op) == task[s].todo # <<>> /\ Head(task[s].todo) = op
Remaining(s) == [task[s] EXCEPT !.todo = Tail(@)]
Aborted(s) == [NoTask EXCEPT !.cmd = task[s].cmd, !.rc = 1]

Saves(s) == task[s].cmd \in {"backup", "update"}
Disturbed(s) == [t \in Sessions |-> [task[t] EXCEPT !.alone = @ /\ (t = s \/ ~Saves(t))]]

BeginTask(s, cmd) ==
  /\ task[s].todo = <<>>
  /\ s = Cron => cmd = "backup"
  /\ task' = [task EXCEPT ![s] =
               [NoTask EXCEPT !.cmd = cmd, !.todo = TaskPlans[cmd],
                       !.from = IF cmd \in {"backup", "update"} THEN live ELSE 0]]
  /\ UNCHANGED <<live, dump, snaps>>

-----------------------------------------------------------------------------
(* BackupManager *)

\* pg_dumpall reads the database; a dump that fails is only left out, and the
\* file of an earlier one stays.
DumpDatabase(s) ==
  /\ AtStep(s, "dump")
  /\ \/ task' = [task EXCEPT ![s] = [task[s] EXCEPT !.todo = <<"write">> \o Tail(@),
                                                  !.text = live]]
     \/ task' = [task EXCEPT ![s] = Remaining(s)]
  /\ UNCHANGED <<live, dump, snaps>>

\* write_text truncates the file before it writes; on a full disk it raises.
WriteDump(s) ==
  /\ AtStep(s, "write")
  /\ \/ /\ dump' = task[s].text
        /\ task' = [Disturbed(s) EXCEPT
                     ![s] = [Remaining(s) EXCEPT !.text = 0, !.dumped = TRUE]]
     \/ /\ dump' = 0
        /\ task' = [Disturbed(s) EXCEPT ![s] = Aborted(s)]
  /\ UNCHANGED <<live, snaps>>

\* update ignores the failure of its safety backup.
SnapshotContents(s) ==
  /\ AtStep(s, "snapshot")
  /\ \/ /\ Len(snaps) < MaxSnapshots
        /\ snaps' = Append(snaps, [files |-> live, dump |-> dump])
        /\ task' = [task EXCEPT ![s] = [Remaining(s) EXCEPT !.made = Len(snaps) + 1]]
     \/ /\ task' = [task EXCEPT ![s] = IF task[s].cmd = "update" THEN Remaining(s) ELSE Aborted(s)]
        /\ UNCHANGED snaps
  /\ UNCHANGED <<live, dump>>

\* update stops with status 1 when a component is unhealthy, and undoes nothing;
\* the new images are never pulled.
HealthGate(s) ==
  /\ AtStep(s, "health")
  /\ \E rc \in {0, 1} : task' = [task EXCEPT ![s] = [Remaining(s) EXCEPT !.rc = rc]]
  /\ UNCHANGED <<live, dump, snaps>>

\* A restore overwrites the live data with the latest or a chosen snapshot, or,
\* when it fails, with a part of it.
RestoreContents(s) ==
  /\ AtStep(s, "restore")
  /\ \/ /\ \E i \in DOMAIN snaps : live' = snaps[i].files /\ dump' = snaps[i].dump
        /\ task' = [Disturbed(s) EXCEPT ![s] = Remaining(s)]
     \/ /\ live' \in {live, 0}
        /\ snaps = <<>> => live' = live
        /\ task' = [Disturbed(s) EXCEPT ![s] = Aborted(s)]
        /\ UNCHANGED dump
  /\ UNCHANGED snaps

\* cleanup removes "stale" dumps, the one a backup has just written included.
EraseDump(s) ==
  /\ AtStep(s, "erase")
  /\ dump' = 0
  /\ task' = [Disturbed(s) EXCEPT ![s] = Remaining(s)]
  /\ UNCHANGED <<live, snaps>>

\* The environment: users write; a session is killed, at worst inside the write
\* of the dump or a restore.
WriteData ==
  /\ live < MaxContents
  /\ live' = live + 1
  /\ UNCHANGED <<dump, snaps, task>>

TaskKilled(s) ==
  /\ task[s].todo # <<>>
  /\ dump' \in (IF AtStep(s, "write") THEN {dump, 0} ELSE {dump})
  /\ live' \in (IF AtStep(s, "restore") /\ snaps # <<>> THEN {live, 0} ELSE {live})
  /\ task' = [Disturbed(s) EXCEPT ![s] = NoTask]
  /\ UNCHANGED snaps

TaskStep(s) ==
  \/ DumpDatabase(s) \/ WriteDump(s) \/ SnapshotContents(s)
  \/ HealthGate(s) \/ RestoreContents(s) \/ EraseDump(s) \/ TaskKilled(s)

BackupsNext ==
  \/ \E s \in Sessions : TaskStep(s) \/ \E cmd \in DOMAIN TaskPlans : BeginTask(s, cmd)
  \/ WriteData

BackupsSpec == BackupsInit /\ [][BackupsNext]_backupsVars

-----------------------------------------------------------------------------
\* "Create a complete encrypted snapshot" (backup.py): a backup, or update's
\* safety backup, that reported success and whose dump worked has put into the
\* repository data and a dump at least as new as the live data when it began,
\* unless another session rewrote the dump or the data meanwhile.
BackupIsCurrent ==
  \A s \in Sessions :
    LET j == task[s] IN
    Saves(s) /\ j.todo = <<>> /\ j.rc = 0 /\ j.alone =>
      /\ j.cmd = "backup" => j.made # 0
      /\ j.made # 0 => /\ snaps[j.made].files >= j.from
                       /\ j.dumped => snaps[j.made].dump >= j.from
=============================================================================
