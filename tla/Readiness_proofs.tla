-------------------------- MODULE Readiness_proofs --------------------------
EXTENDS Readiness, FiniteSetTheorems, TLAPS

(* Readiness: the counts of failed checks say whether there are any, and none  *)
(* of them falls when there is one problem more.                               *)

States == {"running", "exited", "missing"}

ReadinessTypeOK ==
  /\ found \in [Expected -> States]
  /\ problems \in SUBSET Problems
  /\ network \in {"private", "public"}
  /\ cluster \in BOOLEAN

LEMMA InitReady == ReadinessInit => ReadinessTypeOK
BY DEF ReadinessInit, ReadinessTypeOK, States

LEMMA NextReady == ReadinessTypeOK /\ [ReadinessNext]_readinessVars => ReadinessTypeOK'
<1> SUFFICES ASSUME ReadinessTypeOK, [ReadinessNext]_readinessVars PROVE ReadinessTypeOK'
  OBVIOUS
<1>1. ASSUME NEW p \in Problems, Appears(p) PROVE ReadinessTypeOK'
  BY <1>1 DEF Appears, ReadinessTypeOK
<1>2. ASSUME NEW p \in Problems, IsSolved(p) PROVE ReadinessTypeOK'
  BY <1>2 DEF IsSolved, ReadinessTypeOK
<1>3. ASSUME NEW s \in Expected, NEW state \in States, ContainerTurns(s, state)
      PROVE  ReadinessTypeOK'
  BY <1>3 DEF ContainerTurns, ReadinessTypeOK
<1>4. CASE UNCHANGED readinessVars
  BY <1>4 DEF readinessVars, ReadinessTypeOK
<1> QED BY <1>1, <1>2, <1>3, <1>4 DEF ReadinessNext, States

LEMMA ReadinessTyped == ReadinessSpec => []ReadinessTypeOK
BY InitReady, NextReady, PTL DEF ReadinessSpec

\* A count is zero only if there is nothing to count.
LEMMA CountOf ==
  ASSUME NEW S, IsFiniteSet(S)
  PROVE  Cardinality(S) \in Nat /\ (Cardinality(S) = 0 <=> S = {})
BY FS_CardinalityType, FS_EmptySet

LEMMA FewOf ==
  ASSUME NEW a, NEW b, NEW c, NEW d, NEW S
  PROVE  IsFiniteSet(S \cap {a, b, c, d})
<1>1. /\ IsFiniteSet({a}) /\ IsFiniteSet({b}) /\ IsFiniteSet({c}) /\ IsFiniteSet({d})
  BY FS_Singleton
<1>2. IsFiniteSet({a} \cup {b}) /\ IsFiniteSet({c} \cup {d})
  BY <1>1, FS_Union
<1>3. IsFiniteSet(({a} \cup {b}) \cup ({c} \cup {d}))
  BY <1>2, FS_Union
<1>4. S \cap {a, b, c, d} \in SUBSET (({a} \cup {b}) \cup ({c} \cup {d}))
  OBVIOUS
<1> QED BY <1>3, <1>4, FS_Subset

\* The four checks that are passed or failed as a whole.
LEMMA SimpleCount ==
  /\ SimplePassed \in 0..4
  /\ SimplePassed = 4 <=> EngineUp /\ OrchestratorUp /\ ~Has("repo_locked") /\ RemoteOK
BY DEF SimplePassed, Count

-----------------------------------------------------------------------------
\* There are finitely many problems and services, so that whatever is counted
\* among them has a number, 0 only when there is none.
LEMMA ProblemsFinite == IsFiniteSet(Problems)
<1>1. /\ IsFiniteSet(Problems \cap {"engine_down", "no_kubectl", "disk_low", "loose_vault"})
      /\ IsFiniteSet(Problems \cap {"no_tls", "bad_port", "repo_locked", "ram_exhausted"})
      /\ IsFiniteSet(Problems \cap {"rootful", "generic_admin", "no_backup", "cpu_busy"})
      /\ IsFiniteSet(Problems \cap {"ram_full", "disk_tight", "cpu_alert", "ram_alert"})
      /\ IsFiniteSet(Problems \cap {"disk_alert", "error_alert", "error_alert", "error_alert"})
  BY FewOf
<1> DEFINE host == Problems \cap {"engine_down", "no_kubectl", "disk_low", "loose_vault"}
           more == Problems \cap {"no_tls", "bad_port", "repo_locked", "ram_exhausted"}
           advice == Problems \cap {"rootful", "generic_admin", "no_backup", "cpu_busy"}
           tight == Problems \cap {"ram_full", "disk_tight", "cpu_alert", "ram_alert"}
           rest == Problems \cap {"disk_alert", "error_alert", "error_alert", "error_alert"}
<1>2. Problems = ((host \cup more) \cup (advice \cup tight)) \cup rest
  BY DEF Problems, Warnings, Bottlenecks, Alerts
<1> HIDE DEF host, more, advice, tight, rest
<1>3. IsFiniteSet(host) /\ IsFiniteSet(more) /\ IsFiniteSet(advice) /\ IsFiniteSet(tight)
      /\ IsFiniteSet(rest)
  BY <1>1 DEF host, more, advice, tight, rest
<1>4. IsFiniteSet(host \cup more) /\ IsFiniteSet(advice \cup tight)
  BY <1>3, FS_Union
<1>5. IsFiniteSet((host \cup more) \cup (advice \cup tight))
  BY <1>4, FS_Union
<1> QED BY <1>2, <1>3, <1>5, FS_Union

Bottled ==
  (problems \cap Bottlenecks) \cup (IF Has("ram_exhausted") THEN {"ram_full"} ELSE {})

LEMMA AllFinite ==
  ReadinessTypeOK =>
    /\ \A S \in SUBSET Problems : IsFiniteSet(S)
    /\ IsFiniteSet(Expected) /\ IsFiniteSet(Stopped) /\ IsFiniteSet(Down)
    /\ IsFiniteSet(SecurityFailures) /\ IsFiniteSet(SecurityWarnings) /\ IsFiniteSet(Bottled)
<1> SUFFICES ASSUME ReadinessTypeOK
             PROVE  /\ \A S \in SUBSET Problems : IsFiniteSet(S)
                    /\ IsFiniteSet(Expected) /\ IsFiniteSet(Stopped) /\ IsFiniteSet(Down)
                    /\ IsFiniteSet(SecurityFailures) /\ IsFiniteSet(SecurityWarnings)
                    /\ IsFiniteSet(Bottled)
  OBVIOUS
<1>1. \A S \in SUBSET Problems : IsFiniteSet(S)
  BY ProblemsFinite, FS_Subset
<1>2. IsFiniteSet(Expected)
  BY ReadinessAssumption
<1>3. IsFiniteSet(Stopped) /\ IsFiniteSet(Down)
  <2>1. Stopped \in SUBSET Expected /\ Down \in SUBSET Expected
    BY DEF Stopped, Down
  <2> QED BY <1>2, <2>1, FS_Subset
<1>4. IsFiniteSet(SecurityFailures) /\ IsFiniteSet(Bottled)
  <2>1. SecurityFailures \in SUBSET Problems /\ Bottled \in SUBSET Problems
    BY DEF SecurityFailures, Bottled, Problems, Bottlenecks
  <2> QED BY <1>1, <2>1
<1>5. IsFiniteSet(SecurityWarnings)
  <2>1. problems \cap Warnings \in SUBSET Problems
    BY DEF Problems
  <2>2. IsFiniteSet(IF network = "public" THEN {"public"} ELSE {})
    BY FS_Singleton, FS_EmptySet
  <2> QED BY <1>1, <2>1, <2>2, FS_Union DEF SecurityWarnings
<1> QED BY <1>1, <1>2, <1>3, <1>4, <1>5

HostFailures == problems \cap {"engine_down", "disk_low"}

LEMMA Counts ==
  ReadinessTypeOK =>
    /\ Unhealthy \in Nat /\ (Unhealthy = 0 <=> Down = {} /\ HostFailures = {})
    /\ Degraded \in Nat /\ (Degraded = 0 <=> Stopped = {})
    /\ Firing \in Nat /\ (Firing = 0 <=> problems \cap Alerts = {})
    /\ Cardinality(SecurityFailures) \in Nat
    /\ Cardinality(SecurityFailures) = 0 <=> SecurityFailures = {}
    /\ Cardinality(SecurityWarnings) \in Nat
    /\ Cardinality(SecurityWarnings) = 0 <=> SecurityWarnings = {}
    /\ Cardinality(Expected) \in Nat
<1> SUFFICES ASSUME ReadinessTypeOK
             PROVE  /\ Unhealthy \in Nat /\ (Unhealthy = 0 <=> Down = {} /\ HostFailures = {})
                    /\ Degraded \in Nat /\ (Degraded = 0 <=> Stopped = {})
                    /\ Firing \in Nat /\ (Firing = 0 <=> problems \cap Alerts = {})
                    /\ Cardinality(SecurityFailures) \in Nat
                    /\ Cardinality(SecurityFailures) = 0 <=> SecurityFailures = {}
                    /\ Cardinality(SecurityWarnings) \in Nat
                    /\ Cardinality(SecurityWarnings) = 0 <=> SecurityWarnings = {}
                    /\ Cardinality(Expected) \in Nat
  OBVIOUS
<1>1. HostFailures \in SUBSET Problems /\ problems \cap Alerts \in SUBSET Problems
  BY DEF HostFailures, Problems
<1>2. IsFiniteSet(HostFailures) /\ IsFiniteSet(problems \cap Alerts)
  BY <1>1, AllFinite
<1>3. /\ Cardinality(Down) \in Nat /\ (Cardinality(Down) = 0 <=> Down = {})
      /\ Cardinality(HostFailures) \in Nat
      /\ Cardinality(HostFailures) = 0 <=> HostFailures = {}
  BY <1>2, AllFinite, CountOf
<1>4. Unhealthy = Cardinality(Down) + Cardinality(HostFailures)
  BY DEF Unhealthy, HostFailures
<1>5. Unhealthy \in Nat /\ (Unhealthy = 0 <=> Down = {} /\ HostFailures = {})
  BY <1>3, <1>4
<1>6. Degraded \in Nat /\ (Degraded = 0 <=> Stopped = {})
  BY AllFinite, CountOf DEF Degraded
<1>7. Firing \in Nat /\ (Firing = 0 <=> problems \cap Alerts = {})
  BY <1>2, CountOf DEF Firing
<1> QED BY <1>5, <1>6, <1>7, AllFinite, CountOf

\* The score falls short by the checks that fail, and by those that warn.
LEMMA BlockersCount ==
  ReadinessTypeOK =>
    /\ Blockers \in Nat
    /\ Blockers = 0 <=> SimplePassed = 4 /\ Unhealthy = 0 /\ SecurityFailures = {}
    /\ PassedChecks = TotalChecks <=>
         Blockers = 0 /\ Degraded = 0 /\ SecurityWarnings = {}
<1> SUFFICES ASSUME ReadinessTypeOK
             PROVE  /\ Blockers \in Nat
                    /\ Blockers = 0 <=> SimplePassed = 4 /\ Unhealthy = 0 /\ SecurityFailures = {}
                    /\ PassedChecks = TotalChecks <=>
                         Blockers = 0 /\ Degraded = 0 /\ SecurityWarnings = {}
  OBVIOUS
<1> DEFINE failed == Cardinality(SecurityFailures)
           warned == Cardinality(SecurityWarnings)
           services == Cardinality(Expected)
<1>1. /\ SimplePassed \in 0..4 /\ Unhealthy \in Nat /\ Degraded \in Nat /\ failed \in Nat
      /\ warned \in Nat /\ services \in Nat
      /\ failed = 0 <=> SecurityFailures = {}
      /\ warned = 0 <=> SecurityWarnings = {}
  BY Counts, SimpleCount
<1>2. Blockers = (4 - SimplePassed) + Unhealthy + failed
  BY DEF Blockers
<1>3. TotalChecks = 4 + (services + 2) + 6
  BY DEF TotalChecks, HealthChecks, SecurityChecks
<1>4. PassedChecks = SimplePassed + (services + 2) - Unhealthy - Degraded + 6 - failed - warned
  BY DEF PassedChecks, HealthChecks, SecurityChecks
<1> HIDE DEF failed, warned, services
<1>5. Blockers \in Nat /\ (Blockers = 0 <=> SimplePassed = 4 /\ Unhealthy = 0 /\ failed = 0)
  BY <1>1, <1>2
<1>6. PassedChecks = TotalChecks <=> Blockers = 0 /\ Degraded = 0 /\ warned = 0
  BY <1>1, <1>2, <1>3, <1>4
<1> QED BY <1>1, <1>5, <1>6

-----------------------------------------------------------------------------
(* The verdict, layer by layer.                                              *)
LEMMA EachLayer ==
  /\ DOMAIN Layers = {"infrastructure", "orchestration", "application", "security",
                      "recovery", "observability", "external_remote"}
  /\ Layers["infrastructure"] = Worst(~EngineUp, FALSE)
  /\ Layers["orchestration"] = Worst(~OrchestratorUp, FALSE)
  /\ Layers["application"] = Worst(Unhealthy > 0, Degraded > 0)
  /\ Layers["security"] = Worst(SecurityFailures # {}, SecurityWarnings # {})
  /\ Layers["recovery"] = Worst(Has("repo_locked"), FALSE)
  /\ Layers["observability"] = Worst(Firing > 2, LiveCritical \/ Firing > 0)
  /\ Layers["external_remote"] = Worst(~RemoteOK, network = "public")
BY DEF Layers

LEMMA FailingLayers ==
  Fails <=> \/ ~EngineUp \/ ~OrchestratorUp \/ Unhealthy > 0 \/ SecurityFailures # {}
            \/ Has("repo_locked") \/ Firing > 2 \/ ~RemoteOK
<1>1. Fails <=> \E l \in DOMAIN Layers : Layers[l] = "FAIL"
  BY DEF Fails
<1>2. Fails <=>
        \/ Layers["infrastructure"] = "FAIL" \/ Layers["orchestration"] = "FAIL"
        \/ Layers["application"] = "FAIL" \/ Layers["security"] = "FAIL"
        \/ Layers["recovery"] = "FAIL" \/ Layers["observability"] = "FAIL"
        \/ Layers["external_remote"] = "FAIL"
  BY <1>1, EachLayer
<1>3. /\ Layers["infrastructure"] = "FAIL" <=> ~EngineUp
      /\ Layers["orchestration"] = "FAIL" <=> ~OrchestratorUp
      /\ Layers["application"] = "FAIL" <=> Unhealthy > 0
      /\ Layers["security"] = "FAIL" <=> SecurityFailures # {}
      /\ Layers["recovery"] = "FAIL" <=> Has("repo_locked")
      /\ Layers["observability"] = "FAIL" <=> Firing > 2
      /\ Layers["external_remote"] = "FAIL" <=> ~RemoteOK
  BY EachLayer DEF Worst
<1> QED BY <1>2, <1>3

LEMMA WarningLayers ==
  Warns <=> \/ ~(Unhealthy > 0) /\ Degraded > 0
            \/ SecurityFailures = {} /\ SecurityWarnings # {}
            \/ ~(Firing > 2) /\ (LiveCritical \/ Firing > 0)
            \/ RemoteOK /\ network = "public"
<1>1. Warns <=> \E l \in DOMAIN Layers : Layers[l] = "WARN"
  BY DEF Warns
<1>2. Warns <=>
        \/ Layers["infrastructure"] = "WARN" \/ Layers["orchestration"] = "WARN"
        \/ Layers["application"] = "WARN" \/ Layers["security"] = "WARN"
        \/ Layers["recovery"] = "WARN" \/ Layers["observability"] = "WARN"
        \/ Layers["external_remote"] = "WARN"
  BY <1>1, EachLayer
<1>3. /\ Layers["infrastructure"] # "WARN" /\ Layers["orchestration"] # "WARN"
      /\ Layers["recovery"] # "WARN"
      /\ Layers["application"] = "WARN" <=> ~(Unhealthy > 0) /\ Degraded > 0
      /\ Layers["security"] = "WARN" <=> SecurityFailures = {} /\ SecurityWarnings # {}
      /\ Layers["observability"] = "WARN" <=> ~(Firing > 2) /\ (LiveCritical \/ Firing > 0)
      /\ Layers["external_remote"] = "WARN" <=> RemoteOK /\ network = "public"
  BY EachLayer DEF Worst
<1> QED BY <1>2, <1>3

\* Nothing that counts against the host.
Clean ==
  /\ EngineUp /\ OrchestratorUp /\ ~Has("repo_locked") /\ RemoteOK
  /\ Unhealthy = 0 /\ SecurityFailures = {} /\ Firing = 0 /\ ~LiveCritical

LEMMA VerdictOf ==
  ReadinessTypeOK =>
    /\ Verdict \in {"NOT_READY", "DEGRADED", "READY", "PRODUCTION_READY"}
    /\ Verdict = "NOT_READY" <=> ~EngineUp \/ Blockers >= 3 \/ (Fails /\ Blockers >= 2)
    /\ Verdict \in {"READY", "PRODUCTION_READY"} <=> Clean
    /\ Verdict = "PRODUCTION_READY" <=> Clean /\ Degraded = 0 /\ SecurityWarnings = {}
<1> SUFFICES ASSUME ReadinessTypeOK
             PROVE  /\ Verdict \in {"NOT_READY", "DEGRADED", "READY", "PRODUCTION_READY"}
                    /\ Verdict = "NOT_READY" <=>
                         ~EngineUp \/ Blockers >= 3 \/ (Fails /\ Blockers >= 2)
                    /\ Verdict \in {"READY", "PRODUCTION_READY"} <=> Clean
                    /\ Verdict = "PRODUCTION_READY" <=>
                         Clean /\ Degraded = 0 /\ SecurityWarnings = {}
  OBVIOUS
<1>1. Blockers \in Nat /\ Unhealthy \in Nat /\ Degraded \in Nat /\ Firing \in Nat
  BY Counts, BlockersCount
<1>2. Verdict \in {"NOT_READY", "DEGRADED", "READY", "PRODUCTION_READY"}
  BY DEF Verdict
<1>3. Verdict = "NOT_READY" <=> ~EngineUp \/ Blockers >= 3 \/ (Fails /\ Blockers >= 2)
  BY <1>1 DEF Verdict
<1>4. Clean <=> EngineUp /\ Blockers = 0 /\ ~Fails /\ Firing = 0 /\ ~LiveCritical
  BY <1>1, BlockersCount, SimpleCount, FailingLayers DEF Clean
<1>5. Verdict \in {"READY", "PRODUCTION_READY"} <=> Clean
  BY <1>1, <1>4 DEF Verdict
<1>6. Clean => (Warns <=> Degraded > 0 \/ SecurityWarnings # {})
  <2>1. network = "public" => SecurityWarnings # {}
    BY DEF SecurityWarnings
  <2>2. Degraded > 0 <=> Degraded # 0
    BY <1>1
  <2>3. Unhealthy = 0 => ~(Unhealthy > 0)
    BY <1>1
  <2>4. Firing = 0 => ~(Firing > 2) /\ ~(Firing > 0)
    BY <1>1
  <2> QED BY <2>1, <2>2, <2>3, <2>4, WarningLayers DEF Clean
<1>7. Verdict = "PRODUCTION_READY" <=> Clean /\ ~Warns
  BY <1>1, <1>4 DEF Verdict
<1> QED BY <1>1, <1>2, <1>3, <1>5, <1>6, <1>7

LEMMA CleanMeans ==
  ReadinessTypeOK =>
    (Clean <=> /\ \A s \in Expected : found[s] # "exited"
               /\ problems \subseteq Tolerated
               /\ Cardinality(problems \cap Bottlenecks) <= 1)
<1> SUFFICES ASSUME ReadinessTypeOK
             PROVE  Clean <=> /\ \A s \in Expected : found[s] # "exited"
                              /\ problems \subseteq Tolerated
                              /\ Cardinality(problems \cap Bottlenecks) <= 1
  OBVIOUS
<1>1. Has("engine_down") => ~Clean /\ ~(problems \subseteq Tolerated)
  BY DEF Clean, EngineUp, Has, Tolerated, Warnings, Bottlenecks
<1>2. Has("ram_exhausted") => ~Clean /\ ~(problems \subseteq Tolerated)
  BY DEF Clean, LiveCritical, Has, Tolerated, Warnings, Bottlenecks
<1>3. ASSUME ~Has("engine_down"), ~Has("ram_exhausted")
      PROVE  Clean <=> /\ \A s \in Expected : found[s] # "exited"
                       /\ problems \subseteq Tolerated
                       /\ Cardinality(problems \cap Bottlenecks) <= 1
  <2>1. Down = {} <=> \A s \in Expected : found[s] # "exited"
    BY <1>3 DEF Down, Stopped, EngineUp
  <2>2. LiveCritical <=> ~(Cardinality(problems \cap Bottlenecks) <= 1)
    <3>1. problems \cap Bottlenecks \in SUBSET Problems
      BY DEF Problems
    <3>2. Cardinality(problems \cap Bottlenecks) \in Nat
      BY <3>1, AllFinite, CountOf
    <3>3. LiveCritical <=> Cardinality((problems \cap Bottlenecks) \cup {}) >= 2
      BY <1>3 DEF LiveCritical
    <3>4. (problems \cap Bottlenecks) \cup {} = problems \cap Bottlenecks
      OBVIOUS
    <3> QED BY <3>2, <3>3, <3>4
  <2>3. SecurityFailures = {} <=> ~Has("loose_vault") /\ (network = "public" => ~Has("no_tls"))
    BY DEF SecurityFailures, Unencrypted
  <2>4. Unhealthy = 0 <=> Down = {} /\ ~Has("disk_low")
    BY <1>3, Counts DEF HostFailures, Has
  <2>5. Firing = 0 <=> problems \cap Alerts = {}
    BY Counts
  <2>6. problems \subseteq Tolerated <=>
          /\ ~Has("disk_low") /\ ~Has("loose_vault") /\ ~Has("repo_locked")
          /\ problems \cap Alerts = {} /\ RemoteOK /\ OrchestratorUp
          /\ network = "public" => ~Has("no_tls")
    BY <1>3 DEF Tolerated, ReadinessTypeOK, Problems, Warnings, Bottlenecks, Alerts, Has,
                RemoteOK, OrchestratorUp, EngineUp
  <2> QED BY <1>3, <2>1, <2>2, <2>3, <2>4, <2>5, <2>6 DEF Clean, EngineUp
<1> QED BY <1>1, <1>2, <1>3

\* Exit status 0, for any services: exactly when what is wrong is tolerated.
THEOREM ReadyIsClean == ReadinessSpec => []ReadyMeansClean
<1>1. ReadinessTypeOK => ReadyMeansClean
  <2> SUFFICES ASSUME ReadinessTypeOK PROVE ReadyMeansClean
    OBVIOUS
  <2>1. ExitStatus = 0 <=> Clean
    BY VerdictOf DEF ExitStatus
  <2> QED BY <2>1, CleanMeans DEF ReadyMeansClean
<1> QED BY <1>1, ReadinessTyped, PTL

\* The best verdict and the full score come together, for any services.
THEOREM TopIsFull == ReadinessSpec => []TopVerdictIsFullScore
<1>1. ReadinessTypeOK => TopVerdictIsFullScore
  <2> SUFFICES ASSUME ReadinessTypeOK PROVE TopVerdictIsFullScore
    OBVIOUS
  <2>1. PassedChecks = TotalChecks /\ Firing = 0 /\ ~LiveCritical <=>
          Clean /\ Degraded = 0 /\ SecurityWarnings = {}
    BY BlockersCount, SimpleCount DEF Clean
  <2> QED BY <2>1, VerdictOf DEF TopVerdictIsFullScore
<1> QED BY <1>1, ReadinessTyped, PTL

-----------------------------------------------------------------------------
(* One problem more, or one running container less, with the engine up.      *)
LEMMA FewerCount ==
  ASSUME NEW S, NEW T, IsFiniteSet(T), S \subseteq T
  PROVE  Cardinality(S) <= Cardinality(T) /\ Cardinality(S) \in Nat /\ Cardinality(T) \in Nat
BY FS_Subset, FS_CardinalityType

\* What the counts are made of only grows.
LEMMA WorseGrows ==
  ASSUME ReadinessTypeOK, [ReadinessNext]_readinessVars, Worse, EngineUp'
  PROVE  /\ EngineUp /\ network' = network /\ cluster' = cluster
         /\ problems \subseteq problems' /\ Stopped \subseteq Stopped' /\ Down \subseteq Down'
<1>1. EngineUp /\ problems \subseteq problems'
  BY DEF Worse, EngineUp, Has
<1>2. ASSUME NEW p \in Problems, Appears(p)
      PROVE  network' = network /\ cluster' = cluster /\ found' = found
  BY <1>2 DEF Appears
<1>3. ASSUME NEW p \in Problems, IsSolved(p) PROVE FALSE
  BY <1>1, <1>3 DEF IsSolved
<1>4. CASE found' = found /\ network' = network /\ cluster' = cluster
  BY <1>1, <1>4 DEF Stopped, Down
<1>5. ASSUME NEW s \in Expected, NEW state \in States, ContainerTurns(s, state)
      PROVE  /\ network' = network /\ cluster' = cluster
             /\ Stopped \subseteq Stopped' /\ Down \subseteq Down'
  <2>1. \A r \in Expected : found'[r] = IF r = s THEN state ELSE found[r]
    BY <1>5 DEF ContainerTurns, ReadinessTypeOK
  <2>2. found[s] # state /\ UNCHANGED <<network, cluster>>
    BY <1>5 DEF ContainerTurns
  <2>3. found[s] = "running"
    BY <2>1, <2>2 DEF Worse
  <2> QED BY <1>1, <2>1, <2>2, <2>3 DEF Stopped, Down
<1>6. CASE UNCHANGED readinessVars
  BY <1>6 DEF readinessVars, Worse
<1> QED BY <1>1, <1>2, <1>3, <1>4, <1>5, <1>6 DEF ReadinessNext, States

\* So every count is as large, and every condition that held against the host
\* still does.
LEMMA WorseCounts ==
  ASSUME ReadinessTypeOK, ReadinessTypeOK', EngineUp, EngineUp', network' = network,
         cluster' = cluster, problems \subseteq problems', Stopped \subseteq Stopped',
         Down \subseteq Down'
  PROVE  /\ Unhealthy <= Unhealthy' /\ Degraded <= Degraded' /\ Firing <= Firing'
         /\ SecurityFailures \subseteq SecurityFailures'
         /\ SecurityWarnings \subseteq SecurityWarnings'
         /\ LiveCritical => LiveCritical'
         /\ RemoteOK' => RemoteOK
         /\ OrchestratorUp' => OrchestratorUp
         /\ Has("repo_locked") => Has("repo_locked")'
<1>1. /\ \A S \in SUBSET Problems : IsFiniteSet(S)
      /\ IsFiniteSet(Stopped') /\ IsFiniteSet(Down') /\ IsFiniteSet(Bottled')
  <2>1. (ReadinessTypeOK =>
           /\ \A S \in SUBSET Problems : IsFiniteSet(S)
           /\ IsFiniteSet(Stopped) /\ IsFiniteSet(Down) /\ IsFiniteSet(Bottled))'
    BY AllFinite, PTL
  <2> QED BY <2>1
<1>2. Degraded <= Degraded'
  BY <1>1, FewerCount DEF Degraded
<1>3. Unhealthy <= Unhealthy'
  <2>1. Cardinality(Down) <= Cardinality(Down')
        /\ Cardinality(Down) \in Nat /\ Cardinality(Down') \in Nat
    BY <1>1, FewerCount
  <2>2. HostFailures \subseteq HostFailures' /\ HostFailures' \in SUBSET Problems
    BY DEF HostFailures, Problems
  <2>3. Cardinality(HostFailures) <= Cardinality(HostFailures')
        /\ Cardinality(HostFailures) \in Nat /\ Cardinality(HostFailures') \in Nat
    BY <1>1, <2>2, FewerCount
  <2>4. /\ Unhealthy = Cardinality(Down) + Cardinality(HostFailures)
        /\ Unhealthy' = Cardinality(Down') + Cardinality(HostFailures')
    BY DEF Unhealthy, HostFailures
  <2> QED BY <2>1, <2>3, <2>4
<1>4. Firing <= Firing'
  <2>1. problems \cap Alerts \subseteq problems' \cap Alerts
        /\ problems' \cap Alerts \in SUBSET Problems
    BY DEF Problems
  <2> QED BY <1>1, <2>1, FewerCount DEF Firing
<1>5. /\ SecurityFailures \subseteq SecurityFailures'
      /\ SecurityWarnings \subseteq SecurityWarnings'
  BY DEF SecurityFailures, SecurityWarnings, Unencrypted, Has
<1>6. LiveCritical => LiveCritical'
  <2>1. Bottled \subseteq Bottled'
    BY DEF Bottled, Has
  <2>2. Cardinality(Bottled) <= Cardinality(Bottled')
        /\ Cardinality(Bottled) \in Nat /\ Cardinality(Bottled') \in Nat
    BY <1>1, <2>1, FewerCount
  <2>3. /\ LiveCritical <=> Cardinality(Bottled) >= 2 \/ Has("ram_exhausted")
        /\ LiveCritical' <=> Cardinality(Bottled') >= 2 \/ Has("ram_exhausted")'
    BY DEF LiveCritical, Bottled
  <2>4. Has("ram_exhausted") => Has("ram_exhausted")'
    BY DEF Has
  <2> QED BY <2>2, <2>3, <2>4
<1>7. /\ RemoteOK' => RemoteOK
      /\ OrchestratorUp' => OrchestratorUp
      /\ Has("repo_locked") => Has("repo_locked")'
  BY DEF RemoteOK, OrchestratorUp, Has
<1> QED BY <1>2, <1>3, <1>4, <1>5, <1>6, <1>7

\* A worse host never gets a better verdict, for any services and any number of
\* problems.
THEOREM WorseNeverBetter == ReadinessSpec => WorseIsNeverBetter
<1>1. ReadinessTypeOK /\ ReadinessTypeOK' /\ [ReadinessNext]_readinessVars
        => [Worse => Rank[Verdict]' <= Rank[Verdict]]_readinessVars
  <2> SUFFICES ASSUME ReadinessTypeOK, ReadinessTypeOK', [ReadinessNext]_readinessVars, Worse
               PROVE  Rank[Verdict]' <= Rank[Verdict]
    OBVIOUS
  <2>1. (ReadinessTypeOK =>
           /\ Verdict \in {"NOT_READY", "DEGRADED", "READY", "PRODUCTION_READY"}
           /\ Verdict = "NOT_READY" <=> ~EngineUp \/ Blockers >= 3 \/ (Fails /\ Blockers >= 2)
           /\ Verdict \in {"READY", "PRODUCTION_READY"} <=> Clean
           /\ Verdict = "PRODUCTION_READY" <=> Clean /\ Degraded = 0 /\ SecurityWarnings = {})'
    BY VerdictOf, PTL
  <2>2. /\ Verdict \in {"NOT_READY", "DEGRADED", "READY", "PRODUCTION_READY"}
        /\ Verdict = "NOT_READY" <=> ~EngineUp \/ Blockers >= 3 \/ (Fails /\ Blockers >= 2)
        /\ Verdict \in {"READY", "PRODUCTION_READY"} <=> Clean
        /\ Verdict = "PRODUCTION_READY" <=> Clean /\ Degraded = 0 /\ SecurityWarnings = {}
    BY VerdictOf
  <2>3. /\ Verdict' \in {"NOT_READY", "DEGRADED", "READY", "PRODUCTION_READY"}
        /\ ~EngineUp' => Verdict' = "NOT_READY"
        /\ Blockers' >= 3 => Verdict' = "NOT_READY"
        /\ Fails' /\ Blockers' >= 2 => Verdict' = "NOT_READY"
        /\ Verdict' \in {"READY", "PRODUCTION_READY"} <=> Clean'
        /\ Verdict' = "PRODUCTION_READY" <=> Clean' /\ Degraded' = 0 /\ SecurityWarnings' = {}
    BY <2>1
  <2>4. CASE ~EngineUp'
    <3>1. Verdict' = "NOT_READY"
      BY <2>3, <2>4
    <3> QED BY <2>2, <3>1 DEF Rank
  <2>5. CASE EngineUp'
    <3>1. /\ EngineUp /\ network' = network /\ cluster' = cluster
          /\ problems \subseteq problems' /\ Stopped \subseteq Stopped' /\ Down \subseteq Down'
      BY <2>5, WorseGrows
    <3>2. /\ Unhealthy <= Unhealthy' /\ Degraded <= Degraded' /\ Firing <= Firing'
          /\ SecurityFailures \subseteq SecurityFailures'
          /\ SecurityWarnings \subseteq SecurityWarnings'
          /\ LiveCritical => LiveCritical'
          /\ RemoteOK' => RemoteOK
          /\ OrchestratorUp' => OrchestratorUp
          /\ Has("repo_locked") => Has("repo_locked")'
      BY <2>5, <3>1, WorseCounts
    <3>3. /\ Unhealthy \in Nat /\ Degraded \in Nat /\ Firing \in Nat
          /\ Cardinality(SecurityFailures) \in Nat /\ SimplePassed \in 0..4
      BY Counts, SimpleCount
    <3>4. /\ Unhealthy' \in Nat /\ Degraded' \in Nat /\ Firing' \in Nat
          /\ Cardinality(SecurityFailures') \in Nat /\ SimplePassed' \in 0..4
          /\ IsFiniteSet(SecurityFailures')
      <4>1. (ReadinessTypeOK =>
               /\ Unhealthy \in Nat /\ Degraded \in Nat /\ Firing \in Nat
               /\ Cardinality(SecurityFailures) \in Nat /\ SimplePassed \in 0..4
               /\ IsFiniteSet(SecurityFailures))'
        BY Counts, SimpleCount, AllFinite, PTL
      <4> QED BY <4>1
    <3>5. Clean' => Clean
      BY <3>1, <3>2, <3>3, <3>4 DEF Clean
    <3>6. Clean' /\ Degraded' = 0 /\ SecurityWarnings' = {}
            => Clean /\ Degraded = 0 /\ SecurityWarnings = {}
      BY <3>2, <3>3, <3>4, <3>5
    <3>7. Blockers <= Blockers' /\ Blockers \in Nat /\ Blockers' \in Nat
      <4>1. SimplePassed' <= SimplePassed
        BY <3>1, <3>2, <2>5 DEF SimplePassed, Count
      <4>2. Cardinality(SecurityFailures) <= Cardinality(SecurityFailures')
        BY <3>2, <3>4, FewerCount
      <4>3. /\ Blockers = (4 - SimplePassed) + Unhealthy + Cardinality(SecurityFailures)
            /\ Blockers' = (4 - SimplePassed') + Unhealthy' + Cardinality(SecurityFailures')
        BY DEF Blockers
      <4> QED BY <3>2, <3>3, <3>4, <4>1, <4>2, <4>3
    <3>8. Fails => Fails'
      <4>1. (Fails <=> \/ ~EngineUp \/ ~OrchestratorUp \/ Unhealthy > 0 \/ SecurityFailures # {}
                       \/ Has("repo_locked") \/ Firing > 2 \/ ~RemoteOK)'
        BY FailingLayers, PTL
      <4> QED BY <3>1, <3>2, <3>3, <3>4, <4>1, FailingLayers
    <3>9. Verdict = "NOT_READY" => Verdict' = "NOT_READY"
      BY <2>2, <2>3, <3>1, <3>7, <3>8
    <3> QED BY <2>2, <2>3, <3>5, <3>6, <3>9 DEF Rank
  <2> QED BY <2>4, <2>5
<1> QED BY <1>1, ReadinessTyped, PTL DEF ReadinessSpec, WorseIsNeverBetter
=============================================================================
