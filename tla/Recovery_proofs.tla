--------------------------- MODULE Recovery_proofs ---------------------------
(* What it takes to get the data back, for any sessions.  Credentials: unless  *)
(* something outside cloudctl, --force or a race on the first secrets loses    *)
(* them, the credentials of the vault open all there is to open, and a restore *)
(* gets in.  Backups: a snapshot that a command reported is as new as the      *)
(* command.                                                                    *)
EXTENDS Credentials, Backups, SequenceTheorems, TLAPS

(* Until a key may have been lost, the vault is whole, holds a key once there *)
(* is one, nobody is about to replace it, and every credential in use is its. *)
Held(key) == key \in {0, vault.key}

VaultInv ==
  lost = {} =>
    /\ vault.file # "damaged"
    /\ vault.file = "absent" <=> vault.key = 0
    /\ Held(repo.key) /\ Held(pgkey) /\ \A k \in repo.snaps : Held(k)
    /\ \A s \in Sessions : Held(job[s].env) /\ Held(job[s].own) /\ job[s].saw = 0

CredentialsInv == CredentialsTypeOK /\ VaultInv

LEMMA PlansAreSteps == \A cmd \in DOMAIN Plans : Plans[cmd] \in Seq(Operations)
<1>1. /\ <<"env", "own", "init", "snapshot", "own", "check">> \in Seq(Operations)
      /\ <<"env", "own", "init", "snapshot">> \in Seq(Operations)
      /\ <<"own", "check">> \in Seq(Operations) /\ <<"own", "restore">> \in Seq(Operations)
      /\ <<"own", "launch">> \in Seq(Operations)
      /\ <<"own", "own", "launch">> \in Seq(Operations)
      /\ <<"purge">> \in Seq(Operations)
  BY DEF Operations
<1>2. DOMAIN Plans = {"backup", "update", "verify", "restore", "test", "install", "setup",
                      "force", "purge"}
  BY DEF Plans
<1>3. /\ Plans["backup"] \in Seq(Operations) /\ Plans["update"] \in Seq(Operations)
      /\ Plans["verify"] \in Seq(Operations) /\ Plans["restore"] \in Seq(Operations)
      /\ Plans["test"] \in Seq(Operations) /\ Plans["install"] \in Seq(Operations)
  BY <1>1 DEF Plans
<1>4. /\ Plans["setup"] \in Seq(Operations) /\ Plans["force"] \in Seq(Operations)
      /\ Plans["purge"] \in Seq(Operations)
  BY <1>1 DEF Plans
<1> QED BY <1>2, <1>3, <1>4

LEMMA NoJobTyped == NoJob \in Jobs
<1>1. <<>> \in Seq(Operations)
  BY EmptySeq
<1> QED BY <1>1 DEF NoJob, Jobs

LEMMA InitCredentials == CredentialsInit => CredentialsInv
<1> SUFFICES ASSUME CredentialsInit PROVE CredentialsInv
  OBVIOUS
<1>1. CredentialsTypeOK
  BY NoJobTyped, CredentialsAssumption DEF CredentialsInit, CredentialsTypeOK
<1>2. VaultInv
  BY DEF CredentialsInit, VaultInv, Held, NoJob
<1> QED BY <1>1, <1>2 DEF CredentialsInv

-----------------------------------------------------------------------------
\* The records that a step of a session leaves behind.
LEMMA RecordsTyped ==
  ASSUME CredentialsTypeOK, NEW s \in Sessions, job[s].todo # <<>>, NEW key \in Nat
  PROVE  /\ Rest(s) \in Jobs /\ Used(s) \in Jobs /\ Fail(s) \in Jobs
         /\ [Rest(s) EXCEPT !.env = key] \in Jobs
         /\ [Rest(s) EXCEPT !.own = key] \in Jobs
         /\ [Fail(s) EXCEPT !.ok = TRUE] \in Jobs
         /\ Fail(s).env = 0 /\ Fail(s).own = 0 /\ Fail(s).saw = 0
         /\ Used(s).env = job[s].env /\ Used(s).own = 0 /\ Used(s).saw = job[s].saw
         /\ Rest(s).env = job[s].env /\ Rest(s).own = job[s].own /\ Rest(s).saw = job[s].saw
<1>1. job[s] \in Jobs
  BY DEF CredentialsTypeOK
<1>2. Tail(job[s].todo) \in Seq(Operations)
  <2>1. job[s].todo \in Seq(Operations)
    BY <1>1 DEF Jobs
  <2> QED BY <2>1, HeadTailProperties
<1>3. /\ Rest(s) \in Jobs
      /\ Rest(s).env = job[s].env /\ Rest(s).own = job[s].own /\ Rest(s).saw = job[s].saw
  BY <1>1, <1>2 DEF Rest, Jobs
<1>4. /\ Used(s) \in Jobs
      /\ Used(s).env = job[s].env /\ Used(s).own = 0 /\ Used(s).saw = job[s].saw
  BY <1>3 DEF Used, Jobs
<1>5. Fail(s) \in Jobs /\ Fail(s).env = 0 /\ Fail(s).own = 0 /\ Fail(s).saw = 0
  BY <1>1, NoJobTyped DEF Fail, NoJob, Jobs
<1> QED BY <1>3, <1>4, <1>5 DEF Jobs

\* A step that changes one session's record, and holds nothing it should not.
LEMMA SessionKeeps ==
  ASSUME CredentialsInv, NEW s \in Sessions, NEW new \in Jobs,
         job' = [job EXCEPT ![s] = new], UNCHANGED <<vault, issued, lost>>,
         pgkey' \in Nat, repo' \in [key : Nat, snaps : SUBSET Nat],
         lost = {} => /\ Held(repo'.key) /\ Held(pgkey') /\ \A k \in repo'.snaps : Held(k)
                      /\ Held(new.env) /\ Held(new.own) /\ new.saw = 0
  PROVE  CredentialsInv'
<1>1. CredentialsTypeOK'
  BY DEF CredentialsInv, CredentialsTypeOK
<1>2. \A r \in Sessions : job'[r] = IF r = s THEN new ELSE job[r]
  BY DEF CredentialsInv, CredentialsTypeOK
<1>3. VaultInv'
  BY <1>2 DEF CredentialsInv, VaultInv, Held
<1> QED BY <1>1, <1>3 DEF CredentialsInv

\* What the invariant says of one session, and of the vault.
LEMMA HeldBy ==
  ASSUME CredentialsInv, NEW s \in Sessions
  PROVE  /\ job[s] \in Jobs /\ pgkey \in Nat /\ vault.key \in Nat
         /\ repo \in [key : Nat, snaps : SUBSET Nat]
         /\ lost = {} => /\ Held(repo.key) /\ Held(pgkey) /\ \A k \in repo.snaps : Held(k)
                         /\ Held(job[s].env) /\ Held(job[s].own) /\ job[s].saw = 0
                         /\ Held(0)
BY DEF CredentialsInv, CredentialsTypeOK, VaultInv, Held

-----------------------------------------------------------------------------
(* One lemma for each step of a session.                                     *)
LEMMA BeginKeeps ==
  ASSUME CredentialsInv, NEW s \in Sessions, NEW cmd \in DOMAIN Plans, BeginCommand(s, cmd)
  PROVE  CredentialsInv'
<1> DEFINE new == [NoJob EXCEPT !.cmd = cmd, !.todo = Plans[cmd]]
<1>1. new \in Jobs /\ new.env = 0 /\ new.own = 0 /\ new.saw = 0
  BY PlansAreSteps DEF NoJob, Jobs
<1>2. job' = [job EXCEPT ![s] = new] /\ UNCHANGED <<vault, issued, lost, pgkey, repo>>
  BY DEF BeginCommand
<1> HIDE DEF new
<1> QED BY <1>1, <1>2, HeldBy, SessionKeeps

LEMMA LoadKeeps ==
  ASSUME CredentialsInv, NEW s \in Sessions, LoadSecrets(s) PROVE CredentialsInv'
<1>1. job[s].todo # <<>>
  BY DEF LoadSecrets, Loading, Due
<1>2. /\ Loaded(s, vault.key) \in Jobs
      /\ Loaded(s, vault.key).env \in {job[s].env, vault.key}
      /\ Loaded(s, vault.key).own \in {job[s].own, vault.key}
      /\ Loaded(s, vault.key).saw = job[s].saw
  <2>1. Rest(s) \in Jobs /\ Rest(s).env = job[s].env /\ Rest(s).own = job[s].own
        /\ Rest(s).saw = job[s].saw
    BY <1>1, HeldBy, RecordsTyped DEF CredentialsInv
  <2> QED BY <2>1, HeldBy DEF Loaded, Jobs
<1>3. job' = [job EXCEPT ![s] = Loaded(s, vault.key)]
      /\ UNCHANGED <<vault, issued, lost, pgkey, repo>>
  BY DEF LoadSecrets
<1>4. lost = {} => Held(Loaded(s, vault.key).env) /\ Held(Loaded(s, vault.key).own)
  BY <1>2, HeldBy DEF Held
<1> QED BY <1>2, <1>3, <1>4, HeldBy, SessionKeeps

\* Secrets are generated over a vault that has some only with --force.
LEMMA GenerateKeeps ==
  ASSUME CredentialsInv, NEW s \in Sessions, GenerateSecrets(s) PROVE CredentialsInv'
<1>1. job[s] \in Jobs /\ job \in [Sessions -> Jobs] /\ issued \in 0..MaxKeys /\ vault.key \in Nat
  BY HeldBy DEF CredentialsInv, CredentialsTypeOK
<1> DEFINE new == [job[s] EXCEPT !.fresh = issued + 1,
                                 !.saw = IF vault.file = "ok" THEN vault.key ELSE 0]
<1>2. job' = [job EXCEPT ![s] = new]
  BY <1>1 DEF GenerateSecrets, Jobs
<1>3. new \in Jobs /\ new.env = job[s].env /\ new.own = job[s].own
      /\ (vault.file # "ok" => new.saw = 0)
  <2>1. issued + 1 \in Nat
    BY <1>1, CredentialsAssumption
  <2>2. (IF vault.file = "ok" THEN vault.key ELSE 0) \in Nat
    BY <1>1
  <2> QED BY <1>1, <2>1, <2>2 DEF Jobs
<1> HIDE DEF new
<1>4. \A r \in Sessions : job'[r] = IF r = s THEN new ELSE job[r]
  BY <1>1, <1>2
<1>5. CredentialsTypeOK'
  <2>1. issued' \in 0..MaxKeys
    BY <1>1, CredentialsAssumption DEF GenerateSecrets
  <2>2. lost' \subseteq {"forced", "raced", "damaged", "host"}
    BY DEF GenerateSecrets, CredentialsInv, CredentialsTypeOK
  <2>3. job' \in [Sessions -> Jobs]
    BY <1>1, <1>2, <1>3
  <2>4. UNCHANGED <<vault, pgkey, repo>>
    BY DEF GenerateSecrets
  <2> QED BY <2>1, <2>2, <2>3, <2>4 DEF CredentialsInv, CredentialsTypeOK
<1>6. lost' = {} => lost = {} /\ vault.file # "ok"
  BY DEF GenerateSecrets, Regenerates
<1>7. VaultInv'
  BY <1>3, <1>4, <1>6 DEF CredentialsInv, VaultInv, Held, GenerateSecrets
<1> QED BY <1>5, <1>7 DEF CredentialsInv

\* The first secrets are saved when nothing has been opened with any others.
LEMMA SaveKeeps ==
  ASSUME CredentialsInv, NEW s \in Sessions, SaveSecrets(s) PROVE CredentialsInv'
<1>1. job[s] \in Jobs /\ job \in [Sessions -> Jobs] /\ job[s].fresh \in Nat \ {0}
      /\ job[s].todo # <<>>
  BY HeldBy DEF CredentialsInv, CredentialsTypeOK, SaveSecrets, Loading, Due, Jobs
<1> DEFINE key == job[s].fresh
           new == [Loaded(s, key) EXCEPT !.fresh = 0, !.saw = 0]
<1>2. Rest(s) \in Jobs /\ Rest(s).env = job[s].env /\ Rest(s).own = job[s].own
  BY <1>1, RecordsTyped DEF CredentialsInv
<1>3. /\ new \in Jobs /\ new.saw = 0
      /\ new.env \in {job[s].env, key} /\ new.own \in {job[s].own, key}
  BY <1>1, <1>2 DEF Loaded, Jobs
<1>4. job' = [job EXCEPT ![s] = new] /\ vault' = [file |-> "ok", key |-> key]
      /\ UNCHANGED <<issued, pgkey, repo>>
  BY DEF SaveSecrets
<1>5. key \in Nat \ {0}
  BY <1>1
<1>6. lost' = {} => lost = {} /\ vault.key = 0
  <2> SUFFICES ASSUME lost' = {} PROVE lost = {} /\ vault.key = 0
    OBVIOUS
  <2>1. lost = {} /\ ~(vault.file = "ok" /\ vault.key # job[s].saw)
    BY DEF SaveSecrets
  <2>2. job[s].saw = 0 /\ vault.file # "damaged" /\ (vault.file = "absent" <=> vault.key = 0)
    BY <2>1 DEF CredentialsInv, VaultInv
  <2> QED BY <2>1, <2>2 DEF CredentialsInv, CredentialsTypeOK
<1> HIDE DEF new, key
<1>7. \A r \in Sessions : job'[r] = IF r = s THEN new ELSE job[r]
  BY <1>1, <1>4
<1>8. CredentialsTypeOK'
  BY <1>1, <1>3, <1>4, <1>5 DEF CredentialsInv, CredentialsTypeOK, SaveSecrets
<1>9. VaultInv'
  BY <1>3, <1>4, <1>5, <1>6, <1>7 DEF CredentialsInv, VaultInv, Held
<1> QED BY <1>8, <1>9 DEF CredentialsInv

LEMMA InitRepositoryKeeps ==
  ASSUME CredentialsInv, NEW s \in Sessions, InitRepository(s) PROVE CredentialsInv'
<1>1. job[s].todo # <<>>
  BY DEF InitRepository, Due
<1>2. repo' \in [key : Nat, snaps : SUBSET Nat] /\ repo'.key \in {repo.key, job[s].own}
      /\ repo'.snaps = repo.snaps
  BY HeldBy DEF InitRepository, Jobs
<1>3. Used(s) \in Jobs /\ Used(s).env = job[s].env /\ Used(s).own = 0 /\ Used(s).saw = job[s].saw
  BY <1>1, RecordsTyped DEF CredentialsInv
<1> QED BY <1>2, <1>3, HeldBy, SessionKeeps DEF InitRepository

LEMMA SnapshotKeeps ==
  ASSUME CredentialsInv, NEW s \in Sessions, TakeSnapshot(s) PROVE CredentialsInv'
<1> DEFINE done == [Rest(s) EXCEPT !.env = 0]
<1>1. job[s].todo # <<>>
  BY DEF TakeSnapshot, Due
<1>2. /\ Rest(s) \in Jobs /\ Rest(s).own = job[s].own /\ Rest(s).saw = job[s].saw
      /\ Fail(s) \in Jobs /\ Fail(s).env = 0 /\ Fail(s).own = 0 /\ Fail(s).saw = 0
  BY <1>1, RecordsTyped DEF CredentialsInv
<1>3. done \in Jobs /\ done.env = 0 /\ done.own = job[s].own /\ done.saw = job[s].saw
  BY <1>2 DEF Jobs
<1> HIDE DEF done
<1>4. PICK new \in {done, Fail(s)} : job' = [job EXCEPT ![s] = new]
  BY DEF TakeSnapshot, done
<1>5. repo' \in [key : Nat, snaps : SUBSET Nat] /\ repo'.key = repo.key
      /\ repo'.snaps \subseteq repo.snaps \cup {pgkey}
  BY HeldBy DEF TakeSnapshot
<1>6. UNCHANGED <<vault, issued, lost, pgkey>>
  BY DEF TakeSnapshot
<1>7. lost = {} => /\ Held(repo'.key) /\ Held(pgkey') /\ \A k \in repo'.snaps : Held(k)
                   /\ Held(new.env) /\ Held(new.own) /\ new.saw = 0
  BY <1>2, <1>3, <1>4, <1>5, <1>6, HeldBy
<1> QED BY <1>2, <1>3, <1>4, <1>5, <1>6, <1>7, HeldBy, SessionKeeps

LEMMA VerifyKeeps ==
  ASSUME CredentialsInv, NEW s \in Sessions, VerifyRepository(s) PROVE CredentialsInv'
<1>1. job[s].todo # <<>>
  BY DEF VerifyRepository, Due
<1>2. PICK new \in {Used(s), Fail(s)} : job' = [job EXCEPT ![s] = new]
  BY DEF VerifyRepository
<1>3. new \in Jobs /\ new.env \in {0, job[s].env} /\ new.own = 0 /\ new.saw \in {0, job[s].saw}
  BY <1>1, <1>2, RecordsTyped DEF CredentialsInv
<1> QED BY <1>2, <1>3, HeldBy, SessionKeeps DEF VerifyRepository

\* What is restored was in a snapshot.
LEMMA RestoreKeeps ==
  ASSUME CredentialsInv, NEW s \in Sessions, RestoreBackup(s) PROVE CredentialsInv'
<1> DEFINE failed(ok) == [Fail(s) EXCEPT !.ok = ok]
<1>1. job[s].todo # <<>>
  BY DEF RestoreBackup, Due
<1>2. Used(s) \in Jobs /\ Used(s).env = job[s].env /\ Used(s).own = 0 /\ Used(s).saw = job[s].saw
      /\ Fail(s) \in Jobs /\ Fail(s).env = 0 /\ Fail(s).own = 0 /\ Fail(s).saw = 0
  BY <1>1, RecordsTyped DEF CredentialsInv
<1>3. \A ok \in BOOLEAN : /\ failed(ok) \in Jobs /\ failed(ok).env = 0
                          /\ failed(ok).own = 0 /\ failed(ok).saw = 0
  BY <1>2 DEF Jobs
<1> HIDE DEF failed
<1>4. PICK new \in {Used(s), failed(TRUE), failed(FALSE)} : job' = [job EXCEPT ![s] = new]
  BY DEF RestoreBackup, failed
<1>5. pgkey' \in {pgkey} \cup repo.snaps /\ UNCHANGED <<vault, issued, lost, repo>>
  BY DEF RestoreBackup
<1>6. new \in Jobs /\ new.env \in {0, job[s].env} /\ new.own = 0 /\ new.saw \in {0, job[s].saw}
  BY <1>2, <1>3, <1>4
<1>7. pgkey' \in Nat
  BY <1>5, HeldBy
<1> QED BY <1>4, <1>5, <1>6, <1>7, HeldBy, SessionKeeps

LEMMA LaunchKeeps ==
  ASSUME CredentialsInv, NEW s \in Sessions, LaunchDatabase(s) PROVE CredentialsInv'
<1>1. job[s].todo # <<>>
  BY DEF LaunchDatabase, Due
<1>2. Used(s) \in Jobs /\ Used(s).env = job[s].env /\ Used(s).own = 0 /\ Used(s).saw = job[s].saw
  BY <1>1, RecordsTyped DEF CredentialsInv
<1>3. pgkey' \in Nat /\ pgkey' \in {pgkey, job[s].own}
  BY HeldBy DEF LaunchDatabase, Jobs
<1> QED BY <1>2, <1>3, HeldBy, SessionKeeps DEF LaunchDatabase

LEMMA PurgeKeeps ==
  ASSUME CredentialsInv, NEW s \in Sessions, PurgeDatabase(s) PROVE CredentialsInv'
<1>1. job[s].todo # <<>>
  BY DEF PurgeDatabase, Due
<1>2. Rest(s) \in Jobs /\ Rest(s).env = job[s].env /\ Rest(s).own = job[s].own
      /\ Rest(s).saw = job[s].saw
  BY <1>1, RecordsTyped DEF CredentialsInv
<1> QED BY <1>2, HeldBy, SessionKeeps DEF PurgeDatabase

LEMMA KilledKeeps ==
  ASSUME CredentialsInv, NEW s \in Sessions, Killed(s) PROVE CredentialsInv'
<1>1. NoJob \in Jobs /\ NoJob.env = 0 /\ NoJob.own = 0 /\ NoJob.saw = 0
  BY NoJobTyped DEF NoJob
<1> QED BY <1>1, HeldBy, SessionKeeps DEF Killed

-----------------------------------------------------------------------------
LEMMA NextCredentials ==
  CredentialsInv /\ [CredentialsNext]_credentialsVars => CredentialsInv'
<1> SUFFICES ASSUME CredentialsInv, [CredentialsNext]_credentialsVars PROVE CredentialsInv'
  OBVIOUS
<1>1. ASSUME NEW s \in Sessions, SessionStep(s) PROVE CredentialsInv'
  BY <1>1, LoadKeeps, GenerateKeeps, SaveKeeps, InitRepositoryKeeps, SnapshotKeeps,
     VerifyKeeps, RestoreKeeps, PurgeKeeps, LaunchKeeps, KilledKeeps DEF SessionStep
<1>2. ASSUME NEW s \in Sessions, NEW cmd \in DOMAIN Plans, BeginCommand(s, cmd)
      PROVE  CredentialsInv'
  BY <1>2, BeginKeeps
<1>3. CASE DamageVault
  <2>1. CredentialsTypeOK'
    BY <1>3 DEF DamageVault, CredentialsInv, CredentialsTypeOK
  <2>2. VaultInv'
    BY <1>3 DEF DamageVault, VaultInv
  <2> QED BY <2>1, <2>2 DEF CredentialsInv
<1>4. CASE HostLoss
  <2>1. CredentialsTypeOK'
    BY <1>4, NoJobTyped DEF HostLoss, CredentialsInv, CredentialsTypeOK
  <2>2. VaultInv'
    BY <1>4 DEF HostLoss, VaultInv
  <2> QED BY <2>1, <2>2 DEF CredentialsInv
<1>5. CASE UNCHANGED credentialsVars
  BY <1>5 DEF credentialsVars, CredentialsInv, CredentialsTypeOK, VaultInv, Held
<1> QED BY <1>1, <1>2, <1>3, <1>4, <1>5 DEF CredentialsNext

\* The model's types, for any sessions and any bound on the generations.
THEOREM CredentialsTyped == CredentialsSpec => []CredentialsTypeOK
<1>1. CredentialsInv => CredentialsTypeOK
  BY DEF CredentialsInv
<1> QED BY <1>1, InitCredentials, NextCredentials, PTL DEF CredentialsSpec

\* As long as no key may have been lost, the repository, its snapshots and the
\* database have the credentials of the vault, whatever the sessions do.
THEOREM CredentialsValid == CredentialsSpec => []CredentialsStayValid
<1>1. CredentialsInv => CredentialsStayValid
  BY DEF CredentialsInv, VaultInv, Held, CredentialsStayValid
<1> QED BY <1>1, InitCredentials, NextCredentials, PTL DEF CredentialsSpec

-----------------------------------------------------------------------------
(* What a restore can count on.                                              *)

LEMMA RestorePlan ==
  /\ Head(<<"own", "restore">>) = "own" /\ Tail(<<"own", "restore">>) = <<"restore">>
  /\ Head(<<"restore">>) = "restore" /\ Tail(<<"restore">>) = <<>>
  /\ <<"own", "restore">> # <<>> /\ <<"restore">> # <<>>
  /\ <<"own", "restore">> # <<"restore">>
OBVIOUS

\* The next step of a restore, until one of its credentials may be lost.
LEMMA RestoreDue ==
  ASSUME CredentialsInv, RestoresHold, lost = {}, NEW s \in Sessions, job[s].cmd = "restore"
  PROVE  /\ Loading(s) => job[s].todo = <<"own", "restore">> /\ ~Due(s, "env")
         /\ Due(s, "restore") => job[s].todo = <<"restore">> /\ job[s].own # 0
         /\ \A op \in {"init", "snapshot", "check", "launch", "purge"} : ~Due(s, op)
<1>1. job[s].todo \in {<<"own", "restore">>, <<"restore">>, <<>>}
      /\ (job[s].todo = <<"restore">> => job[s].own # 0)
  BY DEF RestoresHold, RestoreHolds
<1> QED BY <1>1, RestorePlan DEF Loading, Due

LEMMA LoadRestores ==
  ASSUME CredentialsInv, RestoresHold, lost = {}, NEW s \in Sessions, NEW key \in Nat \ {0},
         Loading(s), job[s].cmd = "restore"
  PROVE  /\ Loaded(s, key).cmd = "restore" /\ Loaded(s, key).todo = <<"restore">>
         /\ Loaded(s, key).own = key /\ Loaded(s, key).rc = 0
<1>1. job[s] \in Jobs
  BY HeldBy
<1>2. job[s].todo = <<"own", "restore">> /\ ~Due(s, "env") /\ job[s].rc = 0
  BY RestoreDue, RestorePlan DEF RestoresHold, RestoreHolds
<1>3. Loaded(s, key) = [[job[s] EXCEPT !.todo = <<"restore">>] EXCEPT !.own = key]
  BY <1>1, <1>2, RestorePlan DEF Loaded, Rest, Jobs
<1> QED BY <1>1, <1>2, <1>3 DEF Jobs

\* One step of the session itself.
LEMMA StepRestores ==
  ASSUME CredentialsInv, RestoresHold, lost' = {}, NEW s \in Sessions, SessionStep(s)
  PROVE  RestoreHolds(job'[s])
<1>1. lost = {} /\ job[s] \in Jobs /\ job \in [Sessions -> Jobs] /\ RestoreHolds(job[s])
  BY HeldBy DEF CredentialsInv, CredentialsTypeOK, RestoresHold, SessionStep, LoadSecrets,
     GenerateSecrets, SaveSecrets, InitRepository, TakeSnapshot, VerifyRepository,
     RestoreBackup, PurgeDatabase, LaunchDatabase, Killed
<1>2. CASE LoadSecrets(s)
  <2>1. job'[s] = Loaded(s, vault.key) /\ Loading(s) /\ vault.file = "ok"
    BY <1>1, <1>2 DEF LoadSecrets, Regenerates
  <2>2. vault.key \in Nat \ {0}
    BY <1>1, <2>1 DEF CredentialsInv, CredentialsTypeOK, VaultInv
  <2>3. Loaded(s, vault.key).cmd = job[s].cmd
    BY <1>1 DEF Loaded, Rest, Jobs
  <2>4. CASE job[s].cmd = "restore"
    BY <1>1, <2>1, <2>2, <2>4, LoadRestores, RestorePlan DEF RestoreHolds
  <2> QED BY <2>1, <2>3, <2>4 DEF RestoreHolds
<1>3. CASE GenerateSecrets(s)
  <2>1. /\ job'[s].cmd = job[s].cmd /\ job'[s].todo = job[s].todo /\ job'[s].own = job[s].own
        /\ job'[s].ok = job[s].ok /\ job'[s].rc = job[s].rc
    BY <1>1, <1>3 DEF GenerateSecrets, Jobs
  <2> QED BY <1>1, <2>1 DEF RestoreHolds
<1>4. CASE SaveSecrets(s)
  <2> DEFINE key == job[s].fresh
             new == [Loaded(s, key) EXCEPT !.fresh = 0, !.saw = 0]
  <2>1. job'[s] = new /\ Loading(s) /\ key \in Nat \ {0}
    BY <1>1, <1>4 DEF SaveSecrets, Jobs
  <2>2. /\ new.cmd = Loaded(s, key).cmd /\ new.todo = Loaded(s, key).todo
        /\ new.own = Loaded(s, key).own /\ new.rc = Loaded(s, key).rc
        /\ Loaded(s, key).cmd = job[s].cmd
    BY <1>1 DEF Loaded, Rest, Jobs
  <2> HIDE DEF new, key
  <2>3. CASE job[s].cmd = "restore"
    BY <1>1, <2>1, <2>2, <2>3, LoadRestores, RestorePlan DEF RestoreHolds
  <2> QED BY <2>1, <2>2, <2>3 DEF RestoreHolds
<1>5. ASSUME NEW op \in {"init", "snapshot", "check", "launch", "purge"}, Due(s, op),
             job'[s] \in {Rest(s), Used(s), [Rest(s) EXCEPT !.env = 0], Fail(s)}
      PROVE  RestoreHolds(job'[s])
  <2>1. job[s].cmd # "restore"
    BY <1>1, <1>5, RestoreDue
  <2>2. job'[s].cmd = job[s].cmd
    BY <1>1, <1>5 DEF Rest, Used, Fail, NoJob, Jobs
  <2> QED BY <2>1, <2>2 DEF RestoreHolds
<1>6. CASE InitRepository(s) \/ TakeSnapshot(s) \/ VerifyRepository(s)
             \/ PurgeDatabase(s) \/ LaunchDatabase(s)
  <2>1. InitRepository(s) => Due(s, "init") /\ job'[s] = Used(s)
    BY <1>1 DEF InitRepository
  <2>2. TakeSnapshot(s) => Due(s, "snapshot")
                             /\ job'[s] \in {[Rest(s) EXCEPT !.env = 0], Fail(s)}
    BY <1>1 DEF TakeSnapshot
  <2>3. VerifyRepository(s) => Due(s, "check") /\ job'[s] \in {Used(s), Fail(s)}
    BY <1>1 DEF VerifyRepository
  <2>4. PurgeDatabase(s) => Due(s, "purge") /\ job'[s] = Rest(s)
    BY <1>1 DEF PurgeDatabase
  <2>5. LaunchDatabase(s) => Due(s, "launch") /\ job'[s] = Used(s)
    BY <1>1 DEF LaunchDatabase
  <2> QED BY <1>5, <1>6, <2>1, <2>2, <2>3, <2>4, <2>5
<1>7. CASE RestoreBackup(s)
  <2>1. CASE job[s].cmd # "restore"
    <3>1. Used(s).cmd = job[s].cmd /\ Fail(s).cmd = job[s].cmd
      BY <1>1 DEF Used, Rest, Fail, NoJob, Jobs
    <3>2. \A ok : [Fail(s) EXCEPT !.ok = ok].cmd = Fail(s).cmd
      BY DEF Fail, NoJob
    <3>3. \E ok : job'[s] \in {Used(s), [Fail(s) EXCEPT !.ok = ok]}
      BY <1>1, <1>7 DEF RestoreBackup
    <3> QED BY <2>1, <3>1, <3>2, <3>3 DEF RestoreHolds
  <2>2. CASE job[s].cmd = "restore"
    <3>1. job[s].todo = <<"restore">> /\ job[s].own # 0 /\ job[s].rc = 0
      BY <1>1, <1>7, <2>2, RestoreDue, RestorePlan DEF RestoreBackup, RestoreHolds
    <3>2. repo.snaps # {} => Opens(job[s].own)
      BY <1>1, <3>1, HeldBy DEF Opens, RestoresHold, Held
    <3>3. Used(s).todo = <<>> /\ Used(s).rc = 0
      BY <1>1, <3>1, RestorePlan DEF Used, Rest, Jobs
    <3>4. [Fail(s) EXCEPT !.ok = FALSE].todo = <<>> /\ ~[Fail(s) EXCEPT !.ok = FALSE].ok
      BY DEF Fail, NoJob
    <3>5. job'[s] \in {Used(s), [Fail(s) EXCEPT !.ok = FALSE]}
      BY <1>1, <1>7, <3>2 DEF RestoreBackup
    <3> QED BY <3>3, <3>4, <3>5, RestorePlan DEF RestoreHolds
  <2> QED BY <2>1, <2>2
<1>8. CASE Killed(s)
  BY <1>1, <1>8 DEF Killed, NoJob, RestoreHolds
<1> QED BY <1>2, <1>3, <1>4, <1>6, <1>7, <1>8 DEF SessionStep

LEMMA BeginRestores ==
  ASSUME CredentialsInv, NEW s \in Sessions, NEW cmd \in DOMAIN Plans, BeginCommand(s, cmd)
  PROVE  RestoreHolds(job'[s])
<1>1. job'[s].cmd = cmd /\ job'[s].todo = Plans[cmd] /\ job'[s].rc = 0
  BY DEF CredentialsInv, CredentialsTypeOK, BeginCommand, NoJob
<1>2. Plans["restore"] = <<"own", "restore">>
  BY DEF Plans
<1> QED BY <1>1, <1>2, RestorePlan DEF RestoreHolds

LEMMA NextRestores ==
  CredentialsInv /\ RestoresHold /\ [CredentialsNext]_credentialsVars => RestoresHold'
<1> SUFFICES ASSUME CredentialsInv, RestoresHold, [CredentialsNext]_credentialsVars
             PROVE  RestoresHold'
  OBVIOUS
<1>1. ASSUME NEW s \in Sessions,
             SessionStep(s) \/ \E cmd \in DOMAIN Plans : BeginCommand(s, cmd)
      PROVE  RestoresHold'
  <2>1. repo'.snaps # {} => repo'.key # 0
    BY <1>1, HeldBy DEF RestoresHold, SessionStep, LoadSecrets, GenerateSecrets, SaveSecrets,
       InitRepository, TakeSnapshot, VerifyRepository, RestoreBackup, PurgeDatabase,
       LaunchDatabase, Killed, BeginCommand, Opens
  <2>2. lost' = {} => lost = {}
    BY <1>1 DEF SessionStep, LoadSecrets, GenerateSecrets, SaveSecrets,
       InitRepository, TakeSnapshot, VerifyRepository, RestoreBackup, PurgeDatabase,
       LaunchDatabase, Killed, BeginCommand
  <2>3. \A r \in Sessions \ {s} : job'[r] = job[r]
    BY <1>1 DEF CredentialsInv, CredentialsTypeOK, SessionStep, LoadSecrets, GenerateSecrets,
       SaveSecrets, InitRepository, TakeSnapshot, VerifyRepository, RestoreBackup,
       PurgeDatabase, LaunchDatabase, Killed, BeginCommand
  <2>4. lost' = {} => RestoreHolds(job'[s])
    BY <1>1, StepRestores, BeginRestores
  <2> QED BY <2>1, <2>2, <2>3, <2>4 DEF RestoresHold, RestoreHolds
<1>2. CASE DamageVault \/ HostLoss
  BY <1>2 DEF DamageVault, HostLoss, RestoresHold
<1>3. CASE UNCHANGED credentialsVars
  BY <1>3 DEF credentialsVars, RestoresHold, RestoreHolds
<1> QED BY <1>1, <1>2, <1>3 DEF CredentialsNext

\* A restore of a host that has lost nothing is never refused for its credentials:
\* only an accident, a forced renewal or a race on the first secrets can do that.
THEOREM RestoresWork == CredentialsSpec => []RestorableUnlessLost
<1>1. CredentialsInit => RestoresHold
  BY DEF CredentialsInit, RestoresHold, RestoreHolds, NoJob
<1>2. RestoresHold => RestorableUnlessLost
  BY DEF RestoresHold, RestoreHolds, RestorableUnlessLost
<1> QED
  BY <1>1, <1>2, InitCredentials, NextCredentials, NextRestores, PTL DEF CredentialsSpec

-----------------------------------------------------------------------------
(* Backups: a snapshot, once made, stays; what is due to be put into one, the  *)
(* live data and the dump, is as new as the command that makes it, as long as  *)
(* no other session has touched it.                                            *)

\* What is left of a command, by command.
Todos ==
  [none |-> {<<>>}, cleanup |-> {<<"erase">>, <<>>}, restore |-> {<<"restore">>, <<>>},
   backup |-> {<<"dump", "snapshot">>, <<"write", "snapshot">>, <<"snapshot">>, <<>>},
   update |-> {<<"dump", "snapshot", "health">>, <<"write", "snapshot", "health">>,
               <<"snapshot", "health">>, <<"health">>, <<>>}]

Texts == UNION {Todos[cmd] : cmd \in DOMAIN Todos}

Tasks == [cmd : DOMAIN Todos, todo : Texts, from : Nat, text : Nat, dumped : BOOLEAN,
          made : Nat, alone : BOOLEAN, rc : {0, 1}]

BackupsTypeOK ==
  /\ live \in Nat /\ dump \in Nat
  /\ snaps \in Seq([files : Nat, dump : Nat])
  /\ task \in [Sessions -> Tasks]

\* The snapshot is still to be made.
Unsaved(todo) == todo \notin {<<>>, <<"health">>}

\* What a session that saves the data, undisturbed, can count on.
Counts(j, data, sql, kept) ==
  /\ Unsaved(j.todo) => j.made = 0 /\ data >= j.from /\ (j.dumped => sql >= j.from)
  /\ j.todo # <<>> /\ Head(j.todo) = "write" => j.text >= j.from
  /\ j.made # 0 => /\ j.made \in 1..Len(kept)
                   /\ kept[j.made].files >= j.from
                   /\ j.dumped => kept[j.made].dump >= j.from
  /\ j.cmd = "backup" /\ j.todo = <<>> /\ j.rc = 0 => j.made # 0

Undisturbed(j) == j.cmd \in {"backup", "update"} /\ j.alone

BackupsInv ==
  /\ BackupsTypeOK
  /\ \A s \in Sessions :
       /\ task[s].todo \in Todos[task[s].cmd]
       /\ Undisturbed(task[s]) => Counts(task[s], live, dump, snaps)

-----------------------------------------------------------------------------
LEMMA WriteNext ==
  /\ <<"write">> \o <<"snapshot">> = <<"write", "snapshot">>
  /\ <<"write">> \o <<"snapshot", "health">> = <<"write", "snapshot", "health">>
<1> DEFINE one == <<"write">> \o <<"snapshot">>
           two == <<"write">> \o <<"snapshot", "health">>
           Ops == {"write", "snapshot", "health"}
<1>1. /\ <<"write">> \in Seq(Ops) /\ <<"snapshot">> \in Seq(Ops)
      /\ <<"snapshot", "health">> \in Seq(Ops) /\ <<"write", "snapshot">> \in Seq(Ops)
      /\ <<"write", "snapshot", "health">> \in Seq(Ops)
  OBVIOUS
<1>2. one \in Seq(Ops) /\ Len(one) = 2 /\ one[1] = "write" /\ one[2] = "snapshot"
  BY <1>1, ConcatProperties
<1>3. two \in Seq(Ops) /\ Len(two) = 3 /\ two[1] = "write" /\ two[2] = "snapshot"
      /\ two[3] = "health"
  BY <1>1, ConcatProperties
<1> HIDE DEF one, two, Ops
<1>4. one = <<"write", "snapshot">>
  BY <1>1, <1>2, SeqEqual
<1>5. two = <<"write", "snapshot", "health">>
  BY <1>1, <1>3, SeqEqual
<1> QED BY <1>4, <1>5 DEF one, two

\* The steps that may be left, one by one.
LEMMA Parts ==
  /\ Head(<<"dump", "snapshot">>) = "dump" /\ Tail(<<"dump", "snapshot">>) = <<"snapshot">>
  /\ Head(<<"dump", "snapshot", "health">>) = "dump"
  /\ Tail(<<"dump", "snapshot", "health">>) = <<"snapshot", "health">>
  /\ Head(<<"write", "snapshot">>) = "write" /\ Tail(<<"write", "snapshot">>) = <<"snapshot">>
  /\ Head(<<"write", "snapshot", "health">>) = "write"
  /\ Tail(<<"write", "snapshot", "health">>) = <<"snapshot", "health">>
  /\ Head(<<"snapshot">>) = "snapshot" /\ Tail(<<"snapshot">>) = <<>>
  /\ Head(<<"snapshot", "health">>) = "snapshot"
  /\ Tail(<<"snapshot", "health">>) = <<"health">>
  /\ Head(<<"health">>) = "health" /\ Tail(<<"health">>) = <<>>
  /\ Head(<<"erase">>) = "erase" /\ Tail(<<"erase">>) = <<>>
  /\ Head(<<"restore">>) = "restore" /\ Tail(<<"restore">>) = <<>>
<1>1. /\ Head(<<"dump", "snapshot">>) = "dump"
      /\ Head(<<"dump", "snapshot", "health">>) = "dump"
      /\ Head(<<"write", "snapshot">>) = "write"
      /\ Head(<<"write", "snapshot", "health">>) = "write"
      /\ Head(<<"snapshot">>) = "snapshot" /\ Head(<<"snapshot", "health">>) = "snapshot"
      /\ Head(<<"health">>) = "health" /\ Head(<<"erase">>) = "erase"
      /\ Head(<<"restore">>) = "restore"
  OBVIOUS
<1>2. /\ Tail(<<"dump", "snapshot">>) = <<"snapshot">>
      /\ Tail(<<"write", "snapshot">>) = <<"snapshot">>
  OBVIOUS
<1>3. Tail(<<"dump", "snapshot", "health">>) = <<"snapshot", "health">>
  OBVIOUS
<1>4. Tail(<<"write", "snapshot", "health">>) = <<"snapshot", "health">>
  OBVIOUS
<1>5. /\ Tail(<<"snapshot">>) = <<>> /\ Tail(<<"snapshot", "health">>) = <<"health">>
      /\ Tail(<<"health">>) = <<>> /\ Tail(<<"erase">>) = <<>> /\ Tail(<<"restore">>) = <<>>
  OBVIOUS
<1> QED BY <1>1, <1>2, <1>3, <1>4, <1>5

LEMMA UnsavedTodos ==
  /\ Unsaved(<<"dump", "snapshot">>) /\ Unsaved(<<"dump", "snapshot", "health">>)
  /\ Unsaved(<<"write", "snapshot">>) /\ Unsaved(<<"write", "snapshot", "health">>)
  /\ Unsaved(<<"snapshot">>) /\ Unsaved(<<"snapshot", "health">>)
  /\ <<"snapshot">> # <<>> /\ <<"snapshot", "health">> # <<>> /\ <<"health">> # <<>>
  /\ <<"write", "snapshot">> # <<>> /\ <<"write", "snapshot", "health">> # <<>>
BY DEF Unsaved

\* What follows a step of a command that saves the data, or of any other.
LEMMA Shapes ==
  ASSUME NEW cmd \in DOMAIN Todos, NEW todo \in Todos[cmd], todo # <<>>
  PROVE  /\ Tail(todo) \in Todos[cmd]
         /\ Head(todo) \in {"dump", "write"} =>
              /\ cmd \in {"backup", "update"} /\ Unsaved(todo) /\ Unsaved(Tail(todo))
              /\ Tail(todo) # <<>> /\ Head(Tail(todo)) # "write"
         /\ Head(todo) = "dump" =>
              /\ <<"write">> \o Tail(todo) \in Todos[cmd]
              /\ <<"write">> \o Tail(todo) # <<>>
              /\ Head(<<"write">> \o Tail(todo)) = "write"
         /\ Head(todo) = "snapshot" =>
              /\ Unsaved(todo) /\ ~Unsaved(Tail(todo))
              /\ Tail(todo) # <<>> => Head(Tail(todo)) # "write"
              /\ cmd # "backup" => cmd = "update" /\ Tail(todo) # <<>>
         /\ Head(todo) = "health" => cmd = "update" /\ Tail(todo) = <<>> /\ ~Unsaved(todo)
         /\ Head(todo) \in {"erase", "restore"} => cmd \notin {"backup", "update"}
<1>1. CASE cmd \in {"none", "cleanup", "restore"}
  <2>1. todo \in {<<"erase">>, <<"restore">>}
    BY <1>1 DEF Todos
  <2>2. Tail(todo) = <<>> /\ Head(todo) \in {"erase", "restore"}
    BY <2>1, Parts
  <2>3. <<>> \in Todos[cmd]
    BY <1>1 DEF Todos
  <2> QED BY <1>1, <2>2, <2>3
<1>2. CASE cmd = "backup"
  <2>1. Todos[cmd] = {<<"dump", "snapshot">>, <<"write", "snapshot">>, <<"snapshot">>, <<>>}
    BY <1>2 DEF Todos
  <2>2. CASE todo = <<"dump", "snapshot">>
    BY <1>2, <2>1, <2>2, Parts, UnsavedTodos, WriteNext
  <2>3. CASE todo = <<"write", "snapshot">>
    BY <1>2, <2>1, <2>3, Parts, UnsavedTodos
  <2>4. CASE todo = <<"snapshot">>
    BY <1>2, <2>1, <2>4, Parts, UnsavedTodos DEF Unsaved
  <2> QED BY <2>1, <2>2, <2>3, <2>4
<1>3. CASE cmd = "update"
  <2>1. Todos[cmd] = {<<"dump", "snapshot", "health">>, <<"write", "snapshot", "health">>,
                      <<"snapshot", "health">>, <<"health">>, <<>>}
    BY <1>3 DEF Todos
  <2>2. CASE todo = <<"dump", "snapshot", "health">>
    BY <1>3, <2>1, <2>2, Parts, UnsavedTodos, WriteNext
  <2>3. CASE todo = <<"write", "snapshot", "health">>
    BY <1>3, <2>1, <2>3, Parts, UnsavedTodos
  <2>4. CASE todo = <<"snapshot", "health">>
    BY <1>3, <2>1, <2>4, Parts, UnsavedTodos DEF Unsaved
  <2>5. CASE todo = <<"health">>
    BY <1>3, <2>1, <2>5, Parts DEF Unsaved
  <2> QED BY <2>1, <2>2, <2>3, <2>4, <2>5
<1> QED BY <1>1, <1>2, <1>3 DEF Todos

-----------------------------------------------------------------------------
LEMMA NoTaskTyped ==
  /\ NoTask \in Tasks /\ NoTask.cmd = "none" /\ NoTask.todo = <<>>
  /\ <<>> \in Todos["none"] /\ ~Undisturbed(NoTask)
<1>1. <<>> \in Todos["none"] /\ <<>> \in Texts
  BY DEF Todos, Texts
<1> QED BY <1>1 DEF NoTask, Tasks, Todos, Undisturbed

\* The records that a step of a session leaves behind.
LEMMA TasksTyped ==
  ASSUME BackupsInv, NEW s \in Sessions, task[s].todo # <<>>
  PROVE  /\ Remaining(s) \in Tasks /\ Aborted(s) \in Tasks
         /\ Remaining(s).todo = Tail(task[s].todo)
         /\ Tail(task[s].todo) \in Todos[task[s].cmd]
         /\ Remaining(s).cmd = task[s].cmd /\ Remaining(s).from = task[s].from
         /\ Remaining(s).text = task[s].text /\ Remaining(s).dumped = task[s].dumped
         /\ Remaining(s).made = task[s].made /\ Remaining(s).alone = task[s].alone
         /\ Remaining(s).rc = task[s].rc
         /\ Aborted(s).cmd = task[s].cmd /\ Aborted(s).todo = <<>>
         /\ Aborted(s).made = 0 /\ Aborted(s).rc = 1
         /\ Aborted(s).todo \in Todos[task[s].cmd]
<1>1. task[s] \in Tasks /\ task[s].todo \in Todos[task[s].cmd] /\ task[s].cmd \in DOMAIN Todos
  BY DEF BackupsInv, BackupsTypeOK, Tasks
<1>2. Tail(task[s].todo) \in Todos[task[s].cmd]
  BY <1>1, Shapes
<1>3. Tail(task[s].todo) \in Texts
  BY <1>1, <1>2 DEF Texts
<1>4. /\ Remaining(s) \in Tasks
      /\ Remaining(s).todo = Tail(task[s].todo)
      /\ Remaining(s).cmd = task[s].cmd /\ Remaining(s).from = task[s].from
      /\ Remaining(s).text = task[s].text /\ Remaining(s).dumped = task[s].dumped
      /\ Remaining(s).made = task[s].made /\ Remaining(s).alone = task[s].alone
      /\ Remaining(s).rc = task[s].rc
  BY <1>1, <1>3 DEF Remaining, Tasks
<1>5. <<>> \in Todos[task[s].cmd] /\ <<>> \in Texts
  BY <1>1 DEF Todos, Texts
<1>6. /\ Aborted(s) \in Tasks
      /\ Aborted(s).cmd = task[s].cmd /\ Aborted(s).todo = <<>>
      /\ Aborted(s).made = 0 /\ Aborted(s).rc = 1
  BY <1>1, <1>5 DEF Aborted, NoTask, Tasks
<1> QED BY <1>2, <1>4, <1>5, <1>6

Longer(kept) ==
  /\ kept \in Seq([files : Nat, dump : Nat]) /\ Len(snaps) <= Len(kept)
  /\ \A i \in 1..Len(snaps) : kept[i] = snaps[i]

\* What a session counts on stays so while the contents are only added to.
LEMMA StillCounts ==
  ASSUME BackupsTypeOK, NEW j \in Tasks, NEW data \in Nat, live <= data, NEW kept, Longer(kept),
         Counts(j, live, dump, snaps)
  PROVE  Counts(j, data, dump, kept)
<1>1. live \in Nat /\ dump \in Nat /\ j.from \in Nat /\ j.made \in Nat
      /\ Len(snaps) \in Nat /\ Len(kept) \in Nat
  BY LenProperties DEF BackupsTypeOK, Tasks, Longer
<1>2. Unsaved(j.todo) => data >= j.from
  BY <1>1 DEF Counts
<1>3. j.made # 0 => j.made \in 1..Len(kept) /\ kept[j.made] = snaps[j.made]
  BY <1>1 DEF Counts, Longer
<1> QED BY <1>2, <1>3 DEF Counts

\* A step of a session that rewrites neither the dump nor the data.
LEMMA QuietKeeps ==
  ASSUME BackupsInv, NEW s \in Sessions, NEW new \in Tasks, new.todo \in Todos[new.cmd],
         task' = [task EXCEPT ![s] = new], UNCHANGED <<live, dump>>, Longer(snaps'),
         Undisturbed(new) => Counts(new, live, dump, snaps')
  PROVE  BackupsInv'
<1>1. BackupsTypeOK'
  BY DEF BackupsInv, BackupsTypeOK, Longer
<1>2. \A r \in Sessions : task'[r] = IF r = s THEN new ELSE task[r]
  BY DEF BackupsInv, BackupsTypeOK
<1>3. ASSUME NEW r \in Sessions, r # s
      PROVE  /\ task[r].todo \in Todos[task[r].cmd]
             /\ Undisturbed(task[r]) => Counts(task[r], live, dump, snaps')
  <2>1. task[r] \in Tasks /\ live \in Nat /\ live <= live /\ BackupsTypeOK
    BY DEF BackupsInv, BackupsTypeOK
  <2> QED BY <2>1, StillCounts DEF BackupsInv
<1>4. ASSUME NEW r \in Sessions
      PROVE  /\ task'[r].todo \in Todos[task'[r].cmd]
             /\ Undisturbed(task'[r]) => Counts(task'[r], live', dump', snaps')
  BY <1>2, <1>3
<1> QED BY <1>1, <1>4 DEF BackupsInv, Undisturbed, Counts

\* One that does: no other session that saves the data is undisturbed any more.
LEMMA LoudKeeps ==
  ASSUME BackupsInv, NEW s \in Sessions, NEW new \in Tasks, new.todo \in Todos[new.cmd],
         task' = [Disturbed(s) EXCEPT ![s] = new], live' \in Nat, dump' \in Nat,
         snaps' = snaps,
         Undisturbed(new) => Counts(new, live', dump', snaps)
  PROVE  BackupsInv'
<1>1. ASSUME NEW r \in Sessions, r # s
      PROVE  /\ task'[r] \in Tasks /\ task'[r].cmd = task[r].cmd
             /\ task'[r].todo = task[r].todo /\ ~Undisturbed(task'[r])
  <2>1. task[r] \in Tasks /\ task'[r] = [task[r] EXCEPT !.alone = @ /\ (r = s \/ ~Saves(r))]
    BY <1>1 DEF BackupsInv, BackupsTypeOK, Disturbed
  <2>2. Saves(r) <=> task[r].cmd \in {"backup", "update"}
    BY DEF Saves
  <2> DEFINE undisturbed == task[r].alone /\ (r = s \/ ~Saves(r))
  <2>3. undisturbed \in BOOLEAN /\ (undisturbed => task[r].cmd \notin {"backup", "update"})
    BY <1>1, <2>1, <2>2 DEF Tasks
  <2>4. task'[r] = [task[r] EXCEPT !.alone = undisturbed]
    BY <2>1
  <2> HIDE DEF undisturbed
  <2>5. /\ task'[r] \in Tasks /\ task'[r].cmd = task[r].cmd
        /\ task'[r].todo = task[r].todo /\ task'[r].alone = undisturbed
    BY <2>1, <2>3, <2>4 DEF Tasks
  <2> QED BY <2>3, <2>5 DEF Undisturbed
<1>2. task'[s] = new
  BY DEF Disturbed
<1>3. task' \in [Sessions -> Tasks]
  <2>1. \A r \in Sessions : task'[r] \in Tasks
    BY <1>1, <1>2
  <2>2. task' = [r \in Sessions |-> task'[r]]
    BY DEF Disturbed
  <2> QED BY <2>1, <2>2
<1>4. BackupsTypeOK'
  BY <1>3 DEF BackupsInv, BackupsTypeOK
<1>5. ASSUME NEW r \in Sessions
      PROVE  /\ task'[r].todo \in Todos[task'[r].cmd]
             /\ Undisturbed(task'[r]) => Counts(task'[r], live', dump', snaps')
  BY <1>1, <1>2 DEF BackupsInv
<1> QED BY <1>4, <1>5 DEF BackupsInv, Undisturbed, Counts

-----------------------------------------------------------------------------
(* One lemma for each step of a session.                                     *)
\* What a session is in that takes its next step.
LEMMA StepOf ==
  ASSUME BackupsInv, NEW s \in Sessions, NEW op, AtStep(s, op)
  PROVE  /\ task[s] \in Tasks /\ task[s].cmd \in DOMAIN Todos
         /\ task[s].todo \in Todos[task[s].cmd] /\ task[s].todo # <<>>
         /\ Head(task[s].todo) = op
         /\ Longer(snaps) /\ live \in Nat /\ dump \in Nat
         /\ Undisturbed(task[s]) => Counts(task[s], live, dump, snaps)
BY LenProperties DEF BackupsInv, BackupsTypeOK, AtStep, Tasks, Longer

LEMMA BeginTaskKeeps ==
  ASSUME BackupsInv, NEW s \in Sessions, NEW cmd \in DOMAIN TaskPlans, BeginTask(s, cmd)
  PROVE  BackupsInv'
<1> DEFINE from == IF cmd \in {"backup", "update"} THEN live ELSE 0
           new == [NoTask EXCEPT !.cmd = cmd, !.todo = TaskPlans[cmd], !.from = from]
<1>1. task' = [task EXCEPT ![s] = new] /\ UNCHANGED <<live, dump, snaps>>
  BY DEF BeginTask
<1>2. live \in Nat /\ from \in Nat /\ (cmd \in {"backup", "update"} => from = live)
  BY DEF BackupsInv, BackupsTypeOK
<1>3. TaskPlans[cmd] \in Todos[cmd] /\ cmd \in DOMAIN Todos /\ TaskPlans[cmd] \in Texts
      /\ TaskPlans[cmd] # <<>> /\ Head(TaskPlans[cmd]) # "write"
  <2>1. /\ TaskPlans["backup"] = <<"dump", "snapshot">>
        /\ TaskPlans["update"] = <<"dump", "snapshot", "health">>
        /\ TaskPlans["cleanup"] = <<"erase">> /\ TaskPlans["restore"] = <<"restore">>
        /\ DOMAIN TaskPlans = {"backup", "update", "cleanup", "restore"}
    <3>1. /\ TaskPlans["backup"] = BackupSteps /\ TaskPlans["update"] = UpdateSteps
          /\ TaskPlans["cleanup"] = CleanupSteps /\ TaskPlans["restore"] = RestoreSteps
          /\ DOMAIN TaskPlans = {"backup", "update", "cleanup", "restore"}
      BY DEF TaskPlans
    <3> QED BY <3>1 DEF BackupSteps, UpdateSteps, CleanupSteps, RestoreSteps
  <2>2. /\ TaskPlans["backup"] \in Todos["backup"] /\ TaskPlans["update"] \in Todos["update"]
        /\ TaskPlans["cleanup"] \in Todos["cleanup"]
        /\ TaskPlans["restore"] \in Todos["restore"]
    <3>1. /\ <<"dump", "snapshot">> \in Todos["backup"]
          /\ <<"dump", "snapshot", "health">> \in Todos["update"]
      BY DEF Todos
    <3>2. <<"erase">> \in Todos["cleanup"] /\ <<"restore">> \in Todos["restore"]
      BY DEF Todos
    <3> QED BY <2>1, <3>1, <3>2
  <2>4. {"backup", "update", "cleanup", "restore"} \subseteq DOMAIN Todos
    BY DEF Todos
  <2>5. TaskPlans[cmd] \in Todos[cmd] /\ cmd \in DOMAIN Todos
    BY <2>1, <2>2, <2>4
  <2>3. TaskPlans[cmd] # <<>> /\ Head(TaskPlans[cmd]) # "write"
    BY <2>1, Parts
  <2> QED BY <2>3, <2>5 DEF Texts
<1> HIDE DEF from
<1>4. /\ new \in Tasks /\ new.cmd = cmd /\ new.todo = TaskPlans[cmd] /\ new.from = from
      /\ new.made = 0 /\ new.dumped = FALSE
  <2>1. NoTask \in Tasks /\ NoTask.made = 0 /\ NoTask.dumped = FALSE
    BY NoTaskTyped DEF NoTask
  <2> DEFINE plan == TaskPlans[cmd]
  <2>2. plan \in Texts /\ new = [NoTask EXCEPT !.cmd = cmd, !.todo = plan, !.from = from]
    BY <1>3
  <2> HIDE DEF plan, new
  <2>3. /\ new \in Tasks /\ new.cmd = cmd /\ new.todo = plan /\ new.from = from
        /\ new.made = NoTask.made /\ new.dumped = NoTask.dumped
    BY <1>2, <1>3, <2>1, <2>2 DEF Tasks
  <2> QED BY <2>1, <2>3 DEF plan
<1> HIDE DEF new
<1>5. Undisturbed(new) => Counts(new, live, dump, snaps)
  BY <1>2, <1>3, <1>4 DEF Undisturbed, Counts
<1>6. Longer(snaps')
  BY <1>1, LenProperties DEF BackupsInv, BackupsTypeOK, Longer
<1> QED BY <1>1, <1>3, <1>4, <1>5, <1>6, QuietKeeps

LEMMA DumpDatabaseKeeps ==
  ASSUME BackupsInv, NEW s \in Sessions, DumpDatabase(s) PROVE BackupsInv'
<1> DEFINE next == <<"write">> \o Tail(task[s].todo)
           dumping == [task[s] EXCEPT !.todo = next, !.text = live]
<1>1. AtStep(s, "dump") /\ UNCHANGED <<live, dump, snaps>>
  BY DEF DumpDatabase
<1>2. task' = [task EXCEPT ![s] = dumping] \/ task' = [task EXCEPT ![s] = Remaining(s)]
  BY DEF DumpDatabase
<1>3. /\ task[s] \in Tasks /\ task[s].cmd \in DOMAIN Todos
      /\ task[s].todo \in Todos[task[s].cmd] /\ task[s].todo # <<>>
      /\ Head(task[s].todo) = "dump" /\ live \in Nat /\ Longer(snaps)
      /\ Undisturbed(task[s]) => Counts(task[s], live, dump, snaps)
  BY <1>1, StepOf
<1>4. /\ next \in Todos[task[s].cmd] /\ next # <<>> /\ Head(next) = "write"
      /\ Unsaved(task[s].todo) /\ Unsaved(Tail(task[s].todo))
      /\ Tail(task[s].todo) # <<>> /\ Head(Tail(task[s].todo)) # "write"
  BY <1>3, Shapes
<1>5. next \in Texts
  BY <1>3, <1>4 DEF Texts
<1> HIDE DEF next
<1>6. /\ dumping \in Tasks /\ dumping.todo = next /\ dumping.text = live
      /\ dumping.cmd = task[s].cmd /\ dumping.from = task[s].from
      /\ dumping.dumped = task[s].dumped /\ dumping.made = task[s].made
      /\ dumping.alone = task[s].alone /\ dumping.rc = task[s].rc
  BY <1>3, <1>5 DEF Tasks
<1> HIDE DEF dumping
<1>7. Undisturbed(dumping) => Counts(dumping, live, dump, snaps)
  BY <1>3, <1>4, <1>6 DEF Undisturbed, Counts
<1>8. CASE task' = [task EXCEPT ![s] = dumping]
  BY <1>1, <1>3, <1>4, <1>6, <1>7, <1>8, QuietKeeps
<1>9. CASE task' = [task EXCEPT ![s] = Remaining(s)]
  <2>1. /\ Remaining(s) \in Tasks /\ Remaining(s).todo = Tail(task[s].todo)
        /\ Remaining(s).todo \in Todos[Remaining(s).cmd]
        /\ Remaining(s).cmd = task[s].cmd /\ Remaining(s).from = task[s].from
        /\ Remaining(s).dumped = task[s].dumped /\ Remaining(s).made = task[s].made
        /\ Remaining(s).alone = task[s].alone
    BY <1>3, TasksTyped
  <2>2. Undisturbed(Remaining(s)) => Counts(Remaining(s), live, dump, snaps)
    BY <1>3, <1>4, <2>1 DEF Undisturbed, Counts
  <2> QED BY <1>1, <1>3, <1>9, <2>1, <2>2, QuietKeeps
<1> QED BY <1>2, <1>8, <1>9

LEMMA WriteDumpKeeps ==
  ASSUME BackupsInv, NEW s \in Sessions, WriteDump(s) PROVE BackupsInv'
<1> DEFINE written == [Remaining(s) EXCEPT !.text = 0, !.dumped = TRUE]
<1>1. AtStep(s, "write") /\ UNCHANGED <<live, snaps>>
  BY DEF WriteDump
<1>2. /\ task[s] \in Tasks /\ task[s].cmd \in DOMAIN Todos
      /\ task[s].todo \in Todos[task[s].cmd] /\ task[s].todo # <<>>
      /\ Head(task[s].todo) = "write" /\ live \in Nat
      /\ Undisturbed(task[s]) => Counts(task[s], live, dump, snaps)
  BY <1>1, StepOf
<1>3. /\ Unsaved(task[s].todo) /\ Unsaved(Tail(task[s].todo))
      /\ Tail(task[s].todo) # <<>> /\ Head(Tail(task[s].todo)) # "write"
  BY <1>2, Shapes
<1>4. /\ Remaining(s) \in Tasks /\ Remaining(s).todo = Tail(task[s].todo)
      /\ Tail(task[s].todo) \in Todos[task[s].cmd]
      /\ Remaining(s).cmd = task[s].cmd /\ Remaining(s).from = task[s].from
      /\ Remaining(s).made = task[s].made /\ Remaining(s).alone = task[s].alone
      /\ Aborted(s) \in Tasks /\ Aborted(s).cmd = task[s].cmd /\ Aborted(s).todo = <<>>
      /\ Aborted(s).made = 0 /\ Aborted(s).rc = 1
      /\ Aborted(s).todo \in Todos[task[s].cmd]
  BY <1>2, TasksTyped
<1>5. /\ written \in Tasks /\ written.todo = Tail(task[s].todo)
      /\ written.cmd = task[s].cmd /\ written.from = task[s].from
      /\ written.made = task[s].made /\ written.alone = task[s].alone
  BY <1>4 DEF Tasks
<1>6. task[s].text \in Nat
  BY <1>2 DEF Tasks
<1>7. \/ dump' = task[s].text /\ task' = [Disturbed(s) EXCEPT ![s] = written]
      \/ dump' = 0 /\ task' = [Disturbed(s) EXCEPT ![s] = Aborted(s)]
  BY DEF WriteDump
<1> HIDE DEF written
<1>8. CASE dump' = task[s].text /\ task' = [Disturbed(s) EXCEPT ![s] = written]
  <2>1. Undisturbed(written) => Counts(written, live', dump', snaps)
    BY <1>1, <1>2, <1>3, <1>5, <1>8 DEF Undisturbed, Counts
  <2> QED BY <1>1, <1>2, <1>4, <1>5, <1>6, <1>8, <2>1, LoudKeeps
<1>9. CASE dump' = 0 /\ task' = [Disturbed(s) EXCEPT ![s] = Aborted(s)]
  <2>1. Counts(Aborted(s), live', dump', snaps)
    BY <1>4 DEF Counts, Unsaved
  <2> QED BY <1>1, <1>2, <1>4, <1>9, <2>1, LoudKeeps
<1> QED BY <1>7, <1>8, <1>9

LEMMA SnapshotContentsKeeps ==
  ASSUME BackupsInv, NEW s \in Sessions, SnapshotContents(s) PROVE BackupsInv'
<1> DEFINE new == [files |-> live, dump |-> dump]
           made == [Remaining(s) EXCEPT !.made = Len(snaps) + 1]
<1>1. AtStep(s, "snapshot") /\ UNCHANGED <<live, dump>>
  BY DEF SnapshotContents
<1>2. /\ task[s] \in Tasks /\ task[s].cmd \in DOMAIN Todos
      /\ task[s].todo \in Todos[task[s].cmd] /\ task[s].todo # <<>>
      /\ Head(task[s].todo) = "snapshot" /\ live \in Nat /\ dump \in Nat /\ Longer(snaps)
      /\ Undisturbed(task[s]) => Counts(task[s], live, dump, snaps)
  BY <1>1, StepOf
<1>3. /\ Unsaved(task[s].todo) /\ ~Unsaved(Tail(task[s].todo))
      /\ Tail(task[s].todo) # <<>> => Head(Tail(task[s].todo)) # "write"
      /\ task[s].cmd # "backup" => task[s].cmd = "update" /\ Tail(task[s].todo) # <<>>
  BY <1>2, Shapes
<1>4. /\ Remaining(s) \in Tasks /\ Remaining(s).todo = Tail(task[s].todo)
      /\ Tail(task[s].todo) \in Todos[task[s].cmd]
      /\ Remaining(s).cmd = task[s].cmd /\ Remaining(s).from = task[s].from
      /\ Remaining(s).dumped = task[s].dumped /\ Remaining(s).made = task[s].made
      /\ Remaining(s).alone = task[s].alone
      /\ Aborted(s) \in Tasks /\ Aborted(s).cmd = task[s].cmd /\ Aborted(s).todo = <<>>
      /\ Aborted(s).made = 0 /\ Aborted(s).rc = 1
      /\ Aborted(s).todo \in Todos[task[s].cmd]
  BY <1>2, TasksTyped
<1>5. CASE snaps' = Append(snaps, new) /\ task' = [task EXCEPT ![s] = made]
  <2>1. new \in [files : Nat, dump : Nat] /\ snaps \in Seq([files : Nat, dump : Nat])
        /\ Len(snaps) \in Nat
    BY <1>2, LenProperties DEF BackupsInv, BackupsTypeOK
  <2>2. /\ made \in Tasks /\ made.todo = Tail(task[s].todo) /\ made.cmd = task[s].cmd
        /\ made.from = task[s].from /\ made.dumped = task[s].dumped
        /\ made.made = Len(snaps) + 1 /\ made.alone = task[s].alone
    <3> DEFINE place == Len(snaps) + 1
    <3>1. place \in Nat /\ made = [Remaining(s) EXCEPT !.made = place]
      BY <2>1
    <3> HIDE DEF place, made
    <3>2. /\ made \in Tasks /\ made.todo = Tail(task[s].todo) /\ made.cmd = task[s].cmd
          /\ made.from = task[s].from /\ made.dumped = task[s].dumped
          /\ made.made = place /\ made.alone = task[s].alone
      BY <1>4, <3>1 DEF Tasks
    <3> QED BY <3>2 DEF place
  <2>3. new.files = live /\ new.dump = dump
    OBVIOUS
  <2> HIDE DEF new, made
  <2>4. /\ snaps' \in Seq([files : Nat, dump : Nat]) /\ Len(snaps') = Len(snaps) + 1
        /\ \A i \in 1..Len(snaps) : snaps'[i] = snaps[i]
        /\ snaps'[Len(snaps) + 1] = new
    BY <1>5, <2>1
  <2>5. Longer(snaps')
    BY <2>1, <2>4 DEF Longer
  <2>6. Undisturbed(made) => Counts(made, live, dump, snaps')
    <3> SUFFICES ASSUME Undisturbed(made) PROVE Counts(made, live, dump, snaps')
      OBVIOUS
    <3>1. live >= task[s].from /\ (task[s].dumped => dump >= task[s].from)
      BY <1>2, <1>3, <2>2 DEF Undisturbed, Counts
    <3>2. /\ snaps'[made.made].files = live /\ snaps'[made.made].dump = dump
          /\ made.made \in 1..Len(snaps') /\ made.made # 0
      BY <2>1, <2>2, <2>3, <2>4
    <3> QED BY <1>3, <2>2, <3>1, <3>2 DEF Counts
  <2> QED BY <1>1, <1>4, <1>5, <2>2, <2>5, <2>6, QuietKeeps
<1>6. CASE task[s].cmd = "update" /\ task' = [task EXCEPT ![s] = Remaining(s)] /\ snaps' = snaps
  <2>1. Undisturbed(Remaining(s)) => Counts(Remaining(s), live, dump, snaps)
    BY <1>2, <1>3, <1>4, <1>6 DEF Undisturbed, Counts
  <2> QED BY <1>1, <1>2, <1>4, <1>6, <2>1, QuietKeeps
<1>7. CASE task' = [task EXCEPT ![s] = Aborted(s)] /\ snaps' = snaps
  <2>1. Counts(Aborted(s), live, dump, snaps)
    BY <1>4 DEF Counts, Unsaved
  <2> QED BY <1>1, <1>2, <1>4, <1>7, <2>1, QuietKeeps
<1> QED BY <1>5, <1>6, <1>7 DEF SnapshotContents

LEMMA HealthGateKeeps ==
  ASSUME BackupsInv, NEW s \in Sessions, HealthGate(s) PROVE BackupsInv'
<1> DEFINE checked(rc) == [Remaining(s) EXCEPT !.rc = rc]
<1>1. AtStep(s, "health") /\ UNCHANGED <<live, dump, snaps>>
  BY DEF HealthGate
<1>2. /\ task[s] \in Tasks /\ task[s].cmd \in DOMAIN Todos
      /\ task[s].todo \in Todos[task[s].cmd] /\ task[s].todo # <<>>
      /\ Head(task[s].todo) = "health" /\ Longer(snaps)
      /\ Undisturbed(task[s]) => Counts(task[s], live, dump, snaps)
  BY <1>1, StepOf
<1>3. task[s].cmd = "update" /\ Tail(task[s].todo) = <<>> /\ ~Unsaved(task[s].todo)
  BY <1>2, Shapes
<1>4. PICK rc \in {0, 1} : task' = [task EXCEPT ![s] = checked(rc)]
  BY DEF HealthGate
<1>5. /\ checked(rc) \in Tasks /\ checked(rc).todo = <<>> /\ checked(rc).cmd = task[s].cmd
      /\ <<>> \in Todos[task[s].cmd]
      /\ checked(rc).from = task[s].from /\ checked(rc).dumped = task[s].dumped
      /\ checked(rc).made = task[s].made /\ checked(rc).alone = task[s].alone
  BY <1>2, <1>3, TasksTyped DEF Tasks
<1> HIDE DEF checked
<1>6. Undisturbed(checked(rc)) => Counts(checked(rc), live, dump, snaps)
  BY <1>2, <1>3, <1>5 DEF Undisturbed, Counts, Unsaved
<1> QED BY <1>1, <1>2, <1>4, <1>5, <1>6, QuietKeeps

\* Neither a restore nor a cleanup counts on anything.
LEMMA OthersKeep ==
  ASSUME BackupsInv, NEW s \in Sessions, RestoreContents(s) \/ EraseDump(s) PROVE BackupsInv'
<1>1. PICK op \in {"erase", "restore"} : AtStep(s, op)
  BY DEF RestoreContents, EraseDump
<1>2. /\ task[s].todo # <<>> /\ task[s].cmd \notin {"backup", "update"}
      /\ live \in Nat /\ dump \in Nat
  BY <1>1, StepOf, Shapes
<1>3. PICK new \in {Remaining(s), Aborted(s)} : task' = [Disturbed(s) EXCEPT ![s] = new]
  BY DEF RestoreContents, EraseDump
<1>4. new \in Tasks /\ new.todo \in Todos[new.cmd] /\ ~Undisturbed(new)
  BY <1>2, <1>3, TasksTyped DEF Undisturbed
<1>5. live' \in Nat /\ dump' \in Nat /\ snaps' = snaps
  <2>1. CASE \E i \in DOMAIN snaps : live' = snaps[i].files /\ dump' = snaps[i].dump
    <3>1. \A i \in DOMAIN snaps : snaps[i] \in [files : Nat, dump : Nat]
      BY ElementOfSeq, LenProperties DEF BackupsInv, BackupsTypeOK
    <3> QED BY <2>1, <3>1 DEF RestoreContents, EraseDump
  <2>2. CASE live' \in {live, 0} /\ dump' \in {dump, 0}
    BY <1>2, <2>2 DEF RestoreContents, EraseDump
  <2> QED BY <2>1, <2>2 DEF RestoreContents, EraseDump
<1> QED BY <1>3, <1>4, <1>5, LoudKeeps

LEMMA TaskKilledKeeps ==
  ASSUME BackupsInv, NEW s \in Sessions, TaskKilled(s) PROVE BackupsInv'
<1>1. live \in Nat /\ dump \in Nat
  BY DEF BackupsInv, BackupsTypeOK
<1>2. live' \in Nat /\ dump' \in Nat /\ snaps' = snaps
      /\ task' = [Disturbed(s) EXCEPT ![s] = NoTask]
  BY <1>1 DEF TaskKilled
<1> QED BY <1>2, NoTaskTyped, LoudKeeps

-----------------------------------------------------------------------------
LEMMA InitBackups == BackupsInit => BackupsInv
<1> SUFFICES ASSUME BackupsInit PROVE BackupsInv
  OBVIOUS
<1>1. BackupsTypeOK
  <2>1. <<>> \in Seq([files : Nat, dump : Nat])
    BY EmptySeq
  <2> QED BY <2>1, NoTaskTyped DEF BackupsInit, BackupsTypeOK
<1> QED BY <1>1, NoTaskTyped DEF BackupsInit, BackupsInv

LEMMA NextBackups == BackupsInv /\ [BackupsNext]_backupsVars => BackupsInv'
<1> SUFFICES ASSUME BackupsInv, [BackupsNext]_backupsVars PROVE BackupsInv'
  OBVIOUS
<1>1. ASSUME NEW s \in Sessions, TaskStep(s) PROVE BackupsInv'
  BY <1>1, DumpDatabaseKeeps, WriteDumpKeeps, SnapshotContentsKeeps, HealthGateKeeps,
     OthersKeep, TaskKilledKeeps DEF TaskStep
<1>2. ASSUME NEW s \in Sessions, NEW cmd \in DOMAIN TaskPlans, BeginTask(s, cmd)
      PROVE  BackupsInv'
  BY <1>2, BeginTaskKeeps
<1>3. CASE WriteData
  <2>1. live \in Nat /\ live' = live + 1 /\ UNCHANGED <<dump, snaps, task>> /\ BackupsTypeOK
    BY <1>3 DEF WriteData, BackupsInv, BackupsTypeOK
  <2>2. BackupsTypeOK'
    BY <2>1 DEF BackupsTypeOK
  <2>3. live' \in Nat /\ live <= live' /\ Longer(snaps)
    BY <2>1, LenProperties DEF BackupsTypeOK, Longer
  <2>4. ASSUME NEW s \in Sessions, Undisturbed(task[s])
        PROVE  Counts(task[s], live', dump, snaps)
    <3>1. task[s] \in Tasks /\ Counts(task[s], live, dump, snaps)
      BY <2>4 DEF BackupsInv, BackupsTypeOK
    <3> QED BY <2>1, <2>3, <3>1, StillCounts
  <2>5. ASSUME NEW s \in Sessions
        PROVE  /\ task'[s].todo \in Todos[task'[s].cmd]
               /\ Undisturbed(task'[s]) => Counts(task'[s], live', dump', snaps')
    BY <2>1, <2>4 DEF BackupsInv
  <2> QED BY <2>2, <2>5 DEF BackupsInv, Undisturbed, Counts
<1>4. CASE UNCHANGED backupsVars
  BY <1>4 DEF backupsVars, BackupsInv, BackupsTypeOK, Undisturbed, Counts
<1> QED BY <1>1, <1>2, <1>3, <1>4 DEF BackupsNext

\* A snapshot that a command reported is as new as the command, for any sessions
\* and any number of snapshots, unless another session rewrote what it saves.
THEOREM BackupsCurrent == BackupsSpec => []BackupIsCurrent
<1>1. BackupsInv => BackupIsCurrent
  BY DEF BackupsInv, BackupIsCurrent, Saves, Undisturbed, Counts
<1> QED BY <1>1, InitBackups, NextBackups, PTL DEF BackupsSpec
=============================================================================
