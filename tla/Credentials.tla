---------------------------- MODULE Credentials ----------------------------
(* The secret vault and what its credentials open: the encrypted backup     *)
(* repository and the postgres data directory.  Concurrent sessions of      *)
(* cloudctl load the secrets, or generate them, step by step.  A key stands *)
(* for a whole generation of credentials, 0 for none.  The repository is on *)
(* a disk that survives the loss of the host.  What the backups contain is  *)
(* the matter of module Backups.                                            *)
EXTENDS Cloudctl, Naturals, Sequences

CONSTANTS
  MaxKeys,      \* bound on the generations of credentials
  Loss          \* whether the host may be lost

ASSUME CredentialsAssumption == Loss \in BOOLEAN /\ MaxKeys \in Nat \ {0}

VARIABLES
  vault,   \* secrets.json: [file |-> "absent", "ok" or "damaged", key |-> its key]
  issued,  \* generations of credentials drawn so far
  lost,    \* history: why a key may have been lost
  pgkey,   \* the credentials the postgres data directory was initialised with
  repo,    \* the restic repository: its key, the pgkeys of its snapshots
  job      \* session -> the command it runs, or has run

credentialsVars == <<vault, issued, lost, pgkey, repo, job>>

-----------------------------------------------------------------------------
\* A command is the sequence of its steps.  create_backup loads the secrets
\* for itself ("env"), and init_repository, verify_repository and
\* restore_backup each load them again ("own"); setup loads, then install.
Plans ==
  [backup |-> <<"env", "own", "init", "snapshot", "own", "check">>,
   update |-> <<"env", "own", "init", "snapshot">>,
   verify |-> <<"own", "check">>,
   restore |-> <<"own", "restore">>, test |-> <<"own", "check">>,
   install |-> <<"own", "launch">>,
   setup |-> <<"own", "own", "launch">>, force |-> <<"own", "own", "launch">>,
   purge |-> <<"purge">>]

NoJob == [cmd |-> "none", todo |-> <<>>, env |-> 0, own |-> 0,
          fresh |-> 0, saw |-> 0, ok |-> TRUE, rc |-> 0]

CredentialsInit ==
  /\ vault = [file |-> "absent", key |-> 0] /\ issued = 0 /\ lost = {}
  /\ pgkey = 0
  /\ repo = [key |-> 0, snaps |-> {}]
  /\ job = [s \in Sessions |-> NoJob]

Due(s, op) == job[s].todo # <<>> /\ Head(job[s].todo) = op
Rest(s) == [job[s] EXCEPT !.todo = Tail(@)]
Used(s) == [Rest(s) EXCEPT !.own = 0]
Fail(s) == [NoJob EXCEPT !.cmd = job[s].cmd, !.ok = FALSE, !.rc = 1]

BeginCommand(s, cmd) ==
  /\ job[s].todo = <<>>
  /\ s = Cron => cmd = "backup"
  /\ job' = [job EXCEPT ![s] = [NoJob EXCEPT !.cmd = cmd, !.todo = Plans[cmd]]]
  /\ UNCHANGED <<vault, issued, lost, pgkey, repo>>

-----------------------------------------------------------------------------
(* SecretManager.load_or_generate_secrets *)
Loading(s) == Due(s, "env") \/ Due(s, "own")

\* Of setup --force, only the first load is forced.
Regenerates_InstallToo(s) ==       \* mutant: force reaches install's load as well
  vault.file # "ok" \/ job[s].cmd \in {"force", "install"}
Regenerates(s) ==
  vault.file # "ok" \/ (job[s].cmd = "force" /\ Len(job[s].todo) = 3)

Loaded(s, key) == IF Due(s, "env") THEN [Rest(s) EXCEPT !.env = key]
                                   ELSE [Rest(s) EXCEPT !.own = key]

LoadSecrets(s) ==
  /\ Loading(s) /\ ~Regenerates(s) /\ job[s].fresh = 0
  /\ job' = [job EXCEPT ![s] = Loaded(s, vault.key)]
  /\ UNCHANGED <<vault, issued, lost, pgkey, repo>>

GenerateSecrets(s) ==
  /\ Loading(s) /\ Regenerates(s) /\ job[s].fresh = 0
  /\ issued < MaxKeys
  /\ issued' = issued + 1
  /\ job' = [job EXCEPT ![s].fresh = issued + 1,
                        ![s].saw = IF vault.file = "ok" THEN vault.key ELSE 0]
  /\ lost' = IF job[s].cmd = "force" THEN lost \cup {"forced"} ELSE lost
  /\ UNCHANGED <<vault, pgkey, repo>>

\* save_secrets replaces the file in one step, whatever another session has
\* saved since this one looked.
SaveSecrets(s) ==
  /\ Loading(s) /\ job[s].fresh # 0
  /\ vault' = [file |-> "ok", key |-> job[s].fresh]
  /\ lost' = IF vault.file = "ok" /\ vault.key # job[s].saw
             THEN lost \cup {"raced"} ELSE lost
  /\ job' = [job EXCEPT ![s] =
               [Loaded(s, job[s].fresh) EXCEPT !.fresh = 0, !.saw = 0]]
  /\ UNCHANGED <<issued, pgkey, repo>>

-----------------------------------------------------------------------------
(* BackupManager.  Any call of restic may also fail by itself.               *)
Opens(key) == repo.key = key /\ key # 0

\* create_backup goes on whatever the outcome.
InitRepository(s) ==
  /\ Due(s, "init")
  /\ \/ repo' = [repo EXCEPT !.key = IF @ = 0 THEN job[s].own ELSE @]
     \/ UNCHANGED repo
  /\ job' = [job EXCEPT ![s] = Used(s)]
  /\ UNCHANGED <<vault, issued, lost, pgkey>>

\* update ignores the failure of its safety backup.
TakeSnapshot(s) ==
  /\ Due(s, "snapshot")
  /\ \/ /\ Opens(job[s].env)
        /\ repo' = [repo EXCEPT !.snaps = @ \cup {pgkey}]
        /\ job' = [job EXCEPT ![s] = [Rest(s) EXCEPT !.env = 0]]
     \/ /\ job' = [job EXCEPT ![s] = IF job[s].cmd = "update"
                                     THEN [Rest(s) EXCEPT !.env = 0] ELSE Fail(s)]
        /\ UNCHANGED repo
  /\ UNCHANGED <<vault, issued, lost, pgkey>>

\* The result of the check is the exit status of backup --verify and of
\* restore --test, not of a backup.
VerifyRepository(s) ==
  /\ Due(s, "check")
  /\ \E luck \in BOOLEAN :
       job' = [job EXCEPT ![s] = IF job[s].cmd = "backup" \/ (luck /\ Opens(job[s].own))
                                 THEN Used(s) ELSE Fail(s)]
  /\ UNCHANGED <<vault, issued, lost, pgkey, repo>>

\* A restore brings back the database files of a snapshot, credentials included.
\* ok stays TRUE when it failed though restic worked and there was a snapshot.
RestoreBackup(s) ==
  /\ Due(s, "restore")
  /\ LET readable == Opens(job[s].own) /\ repo.snaps # {} IN
     \/ /\ readable
        /\ \E k \in repo.snaps : pgkey' = IF k = 0 THEN pgkey ELSE k
        /\ job' = [job EXCEPT ![s] = Used(s)]
     \/ /\ job' = [job EXCEPT ![s] = [Fail(s) EXCEPT !.ok = repo.snaps # {} /\ ~readable]]
        /\ UNCHANGED pgkey
  /\ UNCHANGED <<vault, issued, lost, repo>>

-----------------------------------------------------------------------------
\* postgres takes its password from the environment on an empty directory only.
LaunchDatabase(s) ==
  /\ Due(s, "launch")
  /\ pgkey' = IF pgkey = 0 THEN job[s].own ELSE pgkey
  /\ job' = [job EXCEPT ![s] = Used(s)]
  /\ UNCHANGED <<vault, issued, lost, repo>>

\* uninstall --purge-data removes the data and the configuration, and leaves
\* the vault and the repository.
PurgeDatabase(s) ==
  /\ Due(s, "purge")
  /\ pgkey' = 0
  /\ job' = [job EXCEPT ![s] = Rest(s)]
  /\ UNCHANGED <<vault, issued, lost, repo>>

\* The environment: a session is killed, the secrets file is damaged, the host
\* is lost with everything but the repository.  The bound on these accidents is
\* one: lost = {}.
Killed(s) ==
  /\ job[s].todo # <<>>
  /\ job' = [job EXCEPT ![s] = NoJob]
  /\ UNCHANGED <<vault, issued, lost, pgkey, repo>>

DamageVault ==
  /\ lost = {} /\ vault.file = "ok"
  /\ vault' = [vault EXCEPT !.file = "damaged"]
  /\ lost' = lost \cup {"damaged"}
  /\ UNCHANGED <<issued, pgkey, repo, job>>

HostLoss ==
  /\ Loss /\ lost = {}
  /\ vault' = [file |-> "absent", key |-> 0]
  /\ lost' = lost \cup {"host"}
  /\ pgkey' = 0
  /\ job' = [s \in Sessions |-> NoJob]
  /\ UNCHANGED <<issued, repo>>

SessionStep(s) ==
  \/ LoadSecrets(s) \/ GenerateSecrets(s) \/ SaveSecrets(s)
  \/ InitRepository(s) \/ TakeSnapshot(s) \/ VerifyRepository(s)
  \/ RestoreBackup(s) \/ PurgeDatabase(s) \/ LaunchDatabase(s) \/ Killed(s)

CredentialsNext ==
  \/ \E s \in Sessions : SessionStep(s) \/ \E cmd \in DOMAIN Plans : BeginCommand(s, cmd)
  \/ DamageVault \/ HostLoss

CredentialsSpec == CredentialsInit /\ [][CredentialsNext]_credentialsVars

-----------------------------------------------------------------------------
Operations == {"env", "own", "init", "snapshot", "check", "restore", "launch", "purge"}
Jobs == [cmd : DOMAIN Plans \cup {"none"}, todo : Seq(Operations), env : Nat, own : Nat,
         fresh : Nat, saw : Nat, ok : BOOLEAN, rc : {0, 1}]

CredentialsTypeOK ==
  /\ vault \in [file : {"absent", "ok", "damaged"}, key : Nat]
  /\ issued \in 0..MaxKeys /\ lost \subseteq {"forced", "raced", "damaged", "host"}
  /\ pgkey \in Nat /\ repo \in [key : Nat, snaps : SUBSET Nat]
  /\ job \in [Sessions -> Jobs]

\* Losing the secrets loses the backups and the database: as long as nobody
\* forces a new generation, damages the file or lets two sessions generate the
\* first secrets at once, no interleaving of commands leaves the repository,
\* one of its snapshots or the database with credentials the vault has not.
CredentialsStayValid ==
  lost = {} => {repo.key, pgkey} \cup repo.snaps \subseteq {0, vault.key}

\* "Secrets ... Included in Restic backup" (docs/ARCHITECTURE.md): as long as
\* nothing worse than the loss of the host has happened, a restore that finds a
\* snapshot, and with which restic has no trouble, succeeds.
RestorableAfterLoss ==
  \A s \in Sessions :
    job[s].cmd = "restore" /\ job[s].todo = <<>> /\ job[s].ok
      /\ lost \subseteq {"host"} => job[s].rc = 0

\* Short of that it holds: until a key is lost, whatever commands of whatever
\* sessions ran and were killed, the credentials a restore has loaded are those
\* of the repository.
RestorableUnlessLost ==
  \A s \in Sessions :
    job[s].cmd = "restore" /\ job[s].todo = <<>> /\ job[s].ok
      /\ lost = {} => job[s].rc = 0

\* What makes it so: a restore that has loaded its credentials holds some, nothing
\* else fails it, and a repository with a snapshot has a key.
RestoreHolds(j) ==
  j.cmd = "restore" =>
    /\ j.todo \in {<<"own", "restore">>, <<"restore">>, <<>>}
    /\ j.todo = <<"restore">> => j.own # 0
    /\ j.todo # <<>> \/ j.ok => j.rc = 0

RestoresHold == /\ repo.snaps # {} => repo.key # 0
                /\ lost = {} => \A s \in Sessions : RestoreHolds(job[s])
=============================================================================
