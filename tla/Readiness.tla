------------------------------ MODULE Readiness ------------------------------
(* The verdict of cloudctl readiness, and with it the exit status of readiness *)
(* and of acceptance, over what its probes find: the containers, the problems  *)
(* of the host, which come and go one at a time, and two settings that decide  *)
(* which of them count.                                                        *)
EXTENDS Naturals, FiniteSets

CONSTANTS
  Expected,      \* the services whose containers are looked for
  MaxProblems    \* bound on the problems at one time

ASSUME ReadinessAssumption == IsFiniteSet(Expected) /\ MaxProblems \in Nat

Warnings == {"rootful", "generic_admin", "no_backup"}
Bottlenecks == {"cpu_busy", "ram_full", "disk_tight"}
Alerts == {"cpu_alert", "ram_alert", "disk_alert", "error_alert"}
Problems ==
  {"engine_down", "no_kubectl", "disk_low", "loose_vault", "no_tls", "bad_port",
   "repo_locked", "ram_exhausted"}
  \cup Warnings \cup Bottlenecks \cup Alerts

VARIABLES
  found,      \* service -> "running", "exited" or "missing", no such container
  problems,   \* those of the host now
  network,    \* network.mode: "private" or "public"
  cluster     \* orchestrator.mode is cluster (or k3s)

readinessVars == <<found, problems, network, cluster>>

-----------------------------------------------------------------------------
Has(p) == p \in problems
EngineUp == ~Has("engine_down")

\* HealthChecker.run_all_checks.  Without its engine every inspection fails,
\* and a container that cannot be inspected is "stopped".
Stopped == {s \in Expected : EngineUp => found[s] = "missing"}
Down == {s \in Expected \ Stopped : found[s] = "exited"}
Unhealthy == Cardinality(Down) + Cardinality(problems \cap {"engine_down", "disk_low"})
Degraded == Cardinality(Stopped)
HealthChecks == Cardinality(Expected) + 2

\* SecurityChecker.run_all_checks: six checks, two of which can fail.
Unencrypted == network = "public" /\ Has("no_tls")
SecurityFailures ==
  {p \in {"loose_vault", "no_tls"} : Has(p) /\ (p = "no_tls" => Unencrypted)}
SecurityWarnings_NoPorts == problems \cap Warnings   \* mutant: public mode passes
SecurityWarnings ==
  (problems \cap Warnings) \cup (IF network = "public" THEN {"public"} ELSE {})
SecurityChecks == 6

\* collect_live_metrics and check_alerts.
LiveCritical ==
  LET bottlenecks == (problems \cap Bottlenecks)
                       \cup (IF Has("ram_exhausted") THEN {"ram_full"} ELSE {})
  IN Cardinality(bottlenecks) >= 2 \/ Has("ram_exhausted")
Firing == Cardinality(problems \cap Alerts)

RemoteOK == IF network = "private" THEN ~Has("bad_port") ELSE ~Has("no_tls")
OrchestratorUp == IF cluster THEN ~Has("no_kubectl") ELSE EngineUp

-----------------------------------------------------------------------------
(* evaluate_readiness *)
Worst(failed, warned) == IF failed THEN "FAIL" ELSE IF warned THEN "WARN" ELSE "PASS"

Layers ==
  [infrastructure |-> Worst(~EngineUp, FALSE),
   orchestration |-> Worst(~OrchestratorUp, FALSE),
   application |-> Worst(Unhealthy > 0, Degraded > 0),
   security |-> Worst(SecurityFailures # {}, SecurityWarnings # {}),
   recovery |-> Worst(Has("repo_locked"), FALSE),
   observability |-> Worst(Firing > 2, LiveCritical \/ Firing > 0),
   external_remote |-> Worst(~RemoteOK, network = "public")]

Count(b) == IF b THEN 1 ELSE 0
SimplePassed ==
  Count(EngineUp) + Count(OrchestratorUp) + Count(~Has("repo_locked")) + Count(RemoteOK)

Blockers == (4 - SimplePassed) + Unhealthy + Cardinality(SecurityFailures)
TotalChecks == 4 + HealthChecks + SecurityChecks
PassedChecks ==
  SimplePassed + HealthChecks - Unhealthy - Degraded
    + SecurityChecks - Cardinality(SecurityFailures) - Cardinality(SecurityWarnings)

Fails == LET layers == Layers IN \E l \in DOMAIN layers : layers[l] = "FAIL"

Warns == LET layers == Layers IN \E l \in DOMAIN layers : layers[l] = "WARN"

Verdict_DeafToAlerts ==      \* mutant: alerts alone do not degrade
  IF ~EngineUp \/ Blockers >= 3 \/ Fails
  THEN IF ~EngineUp \/ Blockers >= 2 THEN "NOT_READY" ELSE "DEGRADED"
  ELSE IF Blockers > 0 \/ LiveCritical THEN "DEGRADED"
  ELSE IF Warns THEN "READY" ELSE "PRODUCTION_READY"
Verdict_ExactlyTwo ==        \* mutant: = 2 for >= 2
  IF ~EngineUp \/ Blockers >= 3 \/ Fails
  THEN IF ~EngineUp \/ Blockers = 2 THEN "NOT_READY" ELSE "DEGRADED"
  ELSE IF Blockers > 0 \/ Firing > 0 \/ LiveCritical THEN "DEGRADED"
  ELSE IF Warns THEN "READY" ELSE "PRODUCTION_READY"
Verdict ==
  IF ~EngineUp \/ Blockers >= 3 \/ Fails
  THEN IF ~EngineUp \/ Blockers >= 2 THEN "NOT_READY" ELSE "DEGRADED"
  ELSE IF Blockers > 0 \/ Firing > 0 \/ LiveCritical THEN "DEGRADED"
  ELSE IF Warns THEN "READY" ELSE "PRODUCTION_READY"

\* Of readiness, and of acceptance, which accepts the same verdicts.
ExitStatus == IF Verdict \in {"READY", "PRODUCTION_READY"} THEN 0 ELSE 1

-----------------------------------------------------------------------------
ReadinessInit ==
  /\ found = [s \in Expected |-> "running"] /\ problems = {}
  /\ network \in {"private", "public"} /\ cluster \in BOOLEAN

Appears(p) ==
  /\ p \notin problems /\ Cardinality(problems) < MaxProblems
  /\ problems' = problems \cup {p}
  /\ UNCHANGED <<found, network, cluster>>

IsSolved(p) ==
  /\ p \in problems
  /\ problems' = problems \ {p}
  /\ UNCHANGED <<found, network, cluster>>

\* A container exits, is removed, running or not, or is started again.
ContainerTurns(s, state) ==
  /\ found[s] # state
  /\ found' = [found EXCEPT ![s] = state]
  /\ UNCHANGED <<problems, network, cluster>>

ReadinessNext ==
  \/ \E p \in Problems : Appears(p) \/ IsSolved(p)
  \/ \E s \in Expected, state \in {"running", "exited", "missing"} : ContainerTurns(s, state)

ReadinessSpec == ReadinessInit /\ [][ReadinessNext]_readinessVars

-----------------------------------------------------------------------------
\* What may be wrong on a host that is called ready: advice, one bottleneck,
\* what the settings make irrelevant, and containers that do not exist at all.
Tolerated ==
  Warnings \cup Bottlenecks
    \cup (IF network = "private" THEN {"no_tls"} ELSE {"bad_port"})
    \cup (IF cluster THEN {} ELSE {"no_kubectl"})

\* Exit status 0 says, and is needed to say, that nothing is wrong beyond that:
\* no layer's failure, and no alert, gets lost on the way to the verdict.
ReadyMeansClean ==
  ExitStatus = 0 <=> /\ \A s \in Expected : found[s] # "exited"
                     /\ problems \subseteq Tolerated
                     /\ Cardinality(problems \cap Bottlenecks) <= 1

\* The verdict and the score, computed apart, agree at the top: PRODUCTION_READY
\* is a score of 100 % with nothing firing.
TopVerdictIsFullScore ==
  Verdict = "PRODUCTION_READY" <=>
    PassedChecks = TotalChecks /\ Firing = 0 /\ ~LiveCritical

Rank == [NOT_READY |-> 0, DEGRADED |-> 1, READY |-> 2, PRODUCTION_READY |-> 3]

\* One more problem, or one running container less, never makes the verdict better,
\* though some hide others: an engine that is down makes every exited container a
\* missing one.  To remove an exited container is not among these steps: it does
\* improve the verdict, for a container that cannot be inspected is reported as
\* stopped, which only warns, where an exited one is unhealthy and blocks.
Worse ==
  /\ problems \subseteq problems' /\ <<problems, found>>' # <<problems, found>>
  /\ \A s \in Expected : found[s] # "running" => found'[s] = found[s]
WorseIsNeverBetter == [][Worse => Rank[Verdict]' <= Rank[Verdict]]_readinessVars
=============================================================================
