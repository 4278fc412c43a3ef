----------------------------- MODULE Deployment -----------------------------
(* The appliance as cloudctl drives it: the containers of one host, the     *)
(* podman pod (or docker network) they join, and the commands an            *)
(* administrator runs one at a time.  A command is the sequence of engine   *)
(* calls it makes (run.todo); each call succeeds or fails on its own, the   *)
(* command may be interrupted between two calls, and containers may die at  *)
(* any moment.  Secrets and keys are the matter of module Credentials.      *)
EXTENDS Naturals, Sequences

CONSTANT Services    \* the services deployed, a subset of the five the code names

AllServices == {"postgres", "redis", "headscale", "nextcloud", "media"}

ASSUME ServicesAssumption ==
  {"postgres", "nextcloud", "media"} \subseteq Services /\ Services \subseteq AllServices

VARIABLES
  engine,   \* "podman" or "docker"
  media,    \* media.enabled in cloud.yaml
  pod,      \* "none", or whose port mappings the pod (network) was created with
  cont,     \* service -> "absent", "exited" or "running"
  data,     \* the postgres data directory: "empty" or "initialised"
  run       \* the running (todo # <<>>) or last command

deploymentVars == <<engine, media, pod, cont, data, run>>

-----------------------------------------------------------------------------
(* A command's record.  rc is the exit status so far, ok says that no engine *)
(* call has failed, calm that no container died meanwhile.  A start that has *)
(* called execute_install is "start_install" from then on.                   *)
NoRun == [cmd |-> "none", todo |-> <<>>, rc |-> 0, ok |-> TRUE, calm |-> TRUE]

Step(op) == [op |-> op, svc |-> "-"]

\* The same step for each of the chosen services, in the order given.
Each(op, order, chosen) ==
  LET One(s) == IF s \in chosen THEN <<[op |-> op, svc |-> s]>> ELSE <<>>
  IN  One(order[1]) \o One(order[2]) \o One(order[3]) \o One(order[4]) \o One(order[5])

Reversed(order) == [i \in 1..5 |-> order[6 - i]]

SERVICES == <<"postgres", "redis", "headscale", "nextcloud", "media">>
InstallOrder == <<"postgres", "redis", "nextcloud", "media", "headscale">>
CheckOrder == <<"nextcloud", "postgres", "redis", "headscale", "media">>

Wanted == {s \in Services : s # "media" \/ media}
BackendServices == Services \ {"headscale"}

\* install: every result but that of the storage check is ignored.
InstallSteps_LateSecondPod ==       \* mutant: the pod is made after the database is up
  <<Step("storage")>> \o Each("run", InstallOrder, {"postgres"}) \o <<Step("pod")>>
    \o Each("run", InstallOrder, Wanted \ {"postgres"})
InstallSteps == <<Step("storage"), Step("pod")>> \o Each("run", InstallOrder, Wanted)

SetupSteps == <<Step("storage")>> \o InstallSteps
StartSteps == Each("start", SERVICES, Wanted)
StopSteps_Forward == Each("stop", SERVICES, Services)   \* mutant: dependencies first
StopSteps == Each("stop", Reversed(SERVICES), Services)
RestartSteps == Each("restart", SERVICES, Wanted)
UninstallSteps == Each("remove", SERVICES, Services)
PurgeSteps == UninstallSteps \o <<Step("purge")>>

\* The podman backend works on the pod, its docker fallback on the containers
\* one by one, headscale left out.
BackendStart == IF engine = "podman" THEN <<Step("pod_start")>>
                ELSE Each("launch", SERVICES, BackendServices)
BackendStop == IF engine = "podman" THEN <<Step("pod_stop")>>
               ELSE Each("stop", Reversed(SERVICES), BackendServices)
BackendRestart == IF engine = "podman" THEN <<Step("pod_restart")>>
                  ELSE Each("restart", SERVICES, BackendServices)

Commands ==
  [install |-> InstallSteps, setup |-> SetupSteps, start |-> StartSteps,
   stop |-> StopSteps, restart |-> RestartSteps, doctor |-> <<Step("diagnose")>>,
   uninstall |-> UninstallSteps, purge |-> PurgeSteps,
   backend_setup |-> <<Step("keep_pod")>>, backend_start |-> BackendStart,
   backend_stop |-> BackendStop, backend_restart |-> BackendRestart]

\* The commands whose exit status tells of a failed engine call.
Reporting_Deaf == {"start", "backend_setup", "backend_start", "backend_stop",
                   "backend_restart"}     \* mutant: restart forgets success = False
Reporting == {"start", "restart", "backend_setup", "backend_start", "backend_stop",
              "backend_restart"}

-----------------------------------------------------------------------------
DeploymentInit ==
  /\ engine \in {"podman", "docker"}
  /\ media \in BOOLEAN
  /\ pod = "none"
  /\ cont = [s \in Services |-> "absent"]
  /\ data = "empty"
  /\ run = NoRun

Begin(cmd) ==
  /\ run.todo = <<>>
  /\ run' = [NoRun EXCEPT !.cmd = cmd, !.todo = Commands[cmd]]
  /\ UNCHANGED <<engine, media, pod, cont, data>>

Now(op) == run.todo # <<>> /\ Head(run.todo).op = op
Target == Head(run.todo).svc

Done(ok) == run' = [run EXCEPT !.todo = Tail(@), !.ok = @ /\ ok,
                               !.rc = IF ok \/ run.cmd \notin Reporting THEN @ ELSE 1]

\* initialize_storage raises when the disk is too full or not writable: the
\* exception ends the command with status 1.
InitializeStorage ==
  /\ Now("storage")
  /\ \/ Done(TRUE)
     \/ run' = [run EXCEPT !.todo = <<>>, !.ok = FALSE, !.rc = 1]
  /\ UNCHANGED <<engine, media, pod, cont, data>>

\* A pod is recreated by install (force) and kept by the backend's setup; a
\* docker network is always kept.  Removing the pod removes its containers.
\* What cannot be inspected or removed is taken for missing or still there, and
\* the creation that follows is refused.
PodReady == pod # "none" /\ (engine = "docker" \/ Now("keep_pod"))

CreatePod ==
  /\ Now("pod") \/ Now("keep_pod")
  /\ LET mapping == IF Now("pod") THEN "install" ELSE "backend" IN
     \/ PodReady /\ Done(TRUE) /\ UNCHANGED <<pod, cont>>
     \/ Done(FALSE) /\ UNCHANGED <<pod, cont>>
     \/ /\ ~PodReady
        /\ cont' = IF pod = "none" THEN cont ELSE [s \in Services |-> "absent"]
        /\ \/ pod' = mapping /\ Done(TRUE)
           \/ pod' = "none" /\ Done(FALSE)
  /\ UNCHANGED <<engine, media, data>>

\* A container of the same name is removed first.  The first launch of
\* postgres initialises its data directory.
RunContainer ==
  /\ Now("run")
  /\ \/ /\ engine = "podman" => pod # "none"
        /\ cont' = [cont EXCEPT ![Target] = "running"]
        /\ data' = IF Target = "postgres" THEN "initialised" ELSE data
        /\ Done(TRUE)
     \/ /\ \E left \in {"absent", "exited", cont[Target]} :
             cont' = [cont EXCEPT ![Target] = left]
        /\ UNCHANGED data
        /\ Done(FALSE)
  /\ UNCHANGED <<engine, media, pod>>

\* start: for a container that is missing, or that could not be inspected, it
\* returns execute_install's status, which is 0 whatever calls have failed or
\* fail yet, unless the storage check raises.
StartMissing ==
  /\ Now("start")
  /\ \E inspected \in BOOLEAN :
       /\ cont[Target] = "absent" \/ ~inspected
       /\ run' = [run EXCEPT !.cmd = "start_install", !.todo = InstallSteps,
                             !.ok = @ /\ inspected, !.rc = 0]
  /\ UNCHANGED <<engine, media, pod, cont, data>>

StartContainer ==
  /\ Now("start") \/ Now("launch")
  /\ \/ /\ cont[Target] # "absent"
        /\ cont' = [cont EXCEPT ![Target] = "running"]
        /\ Done(TRUE)
     \/ /\ Now("start") => cont[Target] # "absent"
        /\ Done(FALSE)
        /\ UNCHANGED cont
  /\ UNCHANGED <<engine, media, pod, data>>

StopContainer ==
  /\ Now("stop")
  /\ \/ /\ cont[Target] # "absent"
        /\ cont' = [cont EXCEPT ![Target] = "exited"]
        /\ Done(TRUE)
     \/ Done(FALSE) /\ UNCHANGED cont
  /\ UNCHANGED <<engine, media, pod, data>>

RestartContainer ==
  /\ Now("restart")
  /\ \/ /\ cont[Target] # "absent"
        /\ cont' = [cont EXCEPT ![Target] = "running"]
        /\ Done(TRUE)
     \/ /\ \E left \in {"exited", cont[Target]} :
             /\ left # cont[Target] => cont[Target] # "absent"
             /\ cont' = [cont EXCEPT ![Target] = left]
        /\ Done(FALSE)
  /\ UNCHANGED <<engine, media, pod, data>>

RemoveContainer ==
  /\ Now("remove")
  /\ \/ cont' = [cont EXCEPT ![Target] = "absent"] /\ Done(TRUE)
     \/ cont[Target] # "absent" /\ Done(FALSE) /\ UNCHANGED cont
  /\ UNCHANGED <<engine, media, pod, data>>

PodOperation ==
  /\ Now("pod_start") \/ Now("pod_stop") \/ Now("pod_restart")
  /\ \/ /\ pod # "none"
        /\ cont' = [s \in Services |->
                      IF cont[s] = "absent" THEN "absent"
                      ELSE IF Now("pod_stop") THEN "exited" ELSE "running"]
        /\ Done(TRUE)
     \/ Done(FALSE) /\ UNCHANGED cont
  /\ UNCHANGED <<engine, media, pod, data>>

\* doctor --fix: a report of every container, then a start of each that is not
\* running.  An issue elsewhere (engine, disk) makes the status 1 too.
NotRunning == {s \in Wanted : cont[s] # "running"}

Diagnose ==
  /\ Now("diagnose")
  /\ \E status \in {0, 1} :
       /\ NotRunning # {} => status = 1
       /\ run' = [run EXCEPT !.todo = Each("launch", CheckOrder, NotRunning),
                             !.rc = status]
  /\ UNCHANGED <<engine, media, pod, cont, data>>

Purge ==
  /\ Now("purge")
  /\ data' = "empty"
  /\ Done(TRUE)
  /\ UNCHANGED <<engine, media, pod, cont>>

CommandStep ==
  \/ InitializeStorage \/ CreatePod \/ RunContainer \/ StartMissing
  \/ StartContainer \/ StopContainer \/ RestartContainer \/ RemoveContainer
  \/ PodOperation \/ Diagnose \/ Purge

\* The environment: ^C or a reboot during a command, a container that dies,
\* an edit of cloud.yaml between two commands.
Interrupt ==
  /\ run.todo # <<>>
  /\ run' = NoRun
  /\ UNCHANGED <<engine, media, pod, cont, data>>

ContainerDies(s) ==
  /\ cont[s] = "running"
  /\ cont' = [cont EXCEPT ![s] = "exited"]
  /\ run' = [run EXCEPT !.calm = FALSE]
  /\ UNCHANGED <<engine, media, pod, data>>

EditConfig ==
  /\ run.todo = <<>>
  /\ media' = ~media
  /\ run' = NoRun
  /\ UNCHANGED <<engine, pod, cont, data>>

DeploymentNext ==
  \/ \E cmd \in DOMAIN Commands : Begin(cmd)
  \/ CommandStep
  \/ Interrupt
  \/ \E s \in Services : ContainerDies(s)
  \/ EditConfig

DeploymentSpec == DeploymentInit /\ [][DeploymentNext]_deploymentVars

-----------------------------------------------------------------------------
Finished == run.cmd # "none" /\ run.todo = <<>> /\ run.calm

AllWantedRunning == \A s \in Wanted : cont[s] = "running"

\* "completely idempotent, simply re-run" (docs/SETUP.md): from whatever state
\* earlier commands, interruptions and crashes have left, an install, setup,
\* start, restart or doctor --fix none of whose engine calls failed ends with
\* every enabled service running; after an install, behind its own ports.
CleanCommandRepairs ==
  Finished /\ run.ok =>
    /\ run.cmd \in {"install", "setup", "start", "start_install", "restart", "doctor"} =>
         AllWantedRunning
    /\ run.cmd \in {"install", "setup", "start_install"} /\ engine = "podman" =>
         pod = "install"

\* Exit status 0 of restart, of doctor, and of a start that found every
\* container, is never a lie: whichever engine calls failed on the way, every
\* enabled service is running.  It says nothing of install, nor of a start that
\* fell through to it: their status 0 is a constant.
ExitStatusHonest ==
  Finished /\ run.rc = 0 /\ run.cmd \in {"start", "restart", "doctor"} => AllWantedRunning

\* "Stop in reverse dependency order": stop never takes the database away from
\* a running nextcloud, unless nextcloud could not be stopped.
StopOrder ==
  [][/\ run.cmd = "stop" /\ run.ok /\ run'.calm
     /\ cont["postgres"] = "running" /\ cont'["postgres"] # "running"
     => cont["nextcloud"] # "running"]_deploymentVars

=============================================================================
