------------------------------- MODULE Metrics -------------------------------
(* The metrics database: commands record samples in it, raise alerts from the *)
(* recent ones, prune it when it has grown too large, and start it afresh when *)
(* they cannot read it - damaged, or locked for too long by another command    *)
(* that vacuums it.                                                            *)
EXTENDS Naturals, FiniteSets

CONSTANTS
  Window,     \* how far back alerts look (0.083 h)
  Keep,       \* what a prune keeps (7 days)
  Limit,      \* the number of samples that fill 100 MB
  MaxClock    \* bound on time

ASSUME MetricsAssumption == Window \in Nat /\ Keep \in Nat /\ Window <= Keep

VARIABLES
  clock,
  samples,    \* set of [at, load]; load is "normal", "busy" or "peak"
  damaged,    \* the file is not a database
  vacuum,     \* a readiness command is rewriting the file, holding its lock
  peakAt      \* history: times of the peaks recorded since the last reset

metricsVars == <<clock, samples, damaged, vacuum, peakAt>>

MetricsInit ==
  /\ clock = Keep /\ samples = {} /\ damaged = FALSE /\ vacuum = FALSE /\ peakAt = {}

-----------------------------------------------------------------------------
\* MetricsStore(): any DatabaseError, a lock held for ten seconds included, is
\* taken for corruption and the file is removed.
Resets == damaged \/ vacuum

Opened == IF Resets THEN {} ELSE samples

\* get_historical_summary(0.083) and check_alerts.
Recent_Short(store) == {s \in store : s.at > clock - Window}    \* mutant: > for >=
Recent(store) == {s \in store : s.at >= clock - Window}

CheckAlerts(store) ==
  IF \E s \in Recent(store) : s.load = "peak" THEN "CRITICAL"
  ELSE IF Recent(store) # {} /\ \A s \in Recent(store) : s.load = "busy" THEN "WARNING"
  ELSE "none"

\* monitor, one sample at a time.
RecordSnapshot(load) ==
  /\ samples' = Opened \cup {[at |-> clock, load |-> load]}
  /\ peakAt' = (IF Resets THEN {} ELSE peakAt) \cup (IF load = "peak" THEN {clock} ELSE {})
  /\ damaged' = FALSE /\ vacuum' = FALSE
  /\ UNCHANGED clock

\* alerts only reads; --acknowledge and --resolve change nothing.
ReadAlerts ==
  /\ Resets
  /\ samples' = {} /\ peakAt' = {} /\ damaged' = FALSE /\ vacuum' = FALSE
  /\ UNCHANGED clock

\* enforce_storage_limit, called by readiness: prune, then VACUUM.
EnforceStorageLimit_Backwards ==      \* mutant: the recent ones are pruned
  /\ ~Resets /\ Cardinality(samples) > Limit
  /\ samples' = {s \in samples : s.at < clock - Keep}
  /\ vacuum' = TRUE
  /\ UNCHANGED <<clock, damaged, peakAt>>
EnforceStorageLimit ==
  /\ ~Resets /\ Cardinality(samples) > Limit
  /\ samples' = {s \in samples : s.at >= clock - Keep}
  /\ vacuum' = TRUE
  /\ UNCHANGED <<clock, damaged, peakAt>>

VacuumEnds ==
  /\ vacuum /\ vacuum' = FALSE
  /\ UNCHANGED <<clock, samples, damaged, peakAt>>

DamageDatabase ==
  /\ ~damaged /\ ~vacuum
  /\ damaged' = TRUE
  /\ UNCHANGED <<clock, samples, vacuum, peakAt>>

MetricsTick ==
  /\ clock < MaxClock
  /\ clock' = clock + 1
  /\ UNCHANGED <<samples, damaged, vacuum, peakAt>>

MetricsNext ==
  \/ \E load \in {"normal", "busy", "peak"} : RecordSnapshot(load)
  \/ ReadAlerts \/ EnforceStorageLimit \/ VacuumEnds \/ DamageDatabase \/ MetricsTick

MetricsSpec == MetricsInit /\ [][MetricsNext]_metricsVars

-----------------------------------------------------------------------------
\* "Prune records" to stay below the limit must not silence an alert: a CRITICAL
\* alert is up exactly while a peak has been recorded in the last five minutes,
\* whatever was pruned, and gone afterwards, as long as the database is not reset.
AlertsFollowPeaks ==
  CheckAlerts(samples) = "CRITICAL" <=> \E t \in peakAt : clock - t <= Window
=============================================================================
