------------------------------ MODULE Acceptance ------------------------------
(* cloudctl acceptance: the quick audit, which judges the installation; the    *)
(* lab of --full, which judges a sandbox on the same host, phase by phase, and *)
(* exports its report; and the probe of --hardware.  Meanwhile the host's      *)
(* problems come and go (Readiness).                                           *)
EXTENDS Readiness, Sequences

VARIABLES
  audit,     \* the running or last command: [op, todo, verdict, status, exit]
  reports    \* what the exported files say: "none", a status, or "torn"

acceptanceVars == <<readinessVars, audit, reports>>

Idle == [op |-> "none", todo |-> <<>>, verdict |-> "none", status |-> "none", exit |-> "none"]

AcceptanceInit == ReadinessInit /\ audit = Idle /\ reports = "none"

-----------------------------------------------------------------------------
\* Any of the phases may raise; compile and export may too.
Phases == <<"setup", "config", "security", "network", "capacity", "metrics",
            "recovery", "compile", "export">>

Ends(status) == IF status = "ACCEPTED" THEN "0" ELSE "1"

BeginFull ==
  /\ audit.todo = <<>>
  /\ audit' = [Idle EXCEPT !.op = "full", !.todo = Phases]
  /\ UNCHANGED <<readinessVars, reports>>

BeginQuick(export) ==
  /\ audit.todo = <<>>
  /\ audit' = [Idle EXCEPT !.op = "quick",
                           !.todo = IF export THEN <<"compile", "export">> ELSE <<"compile">>]
  /\ UNCHANGED <<readinessVars, reports>>

At(phase) == audit.todo # <<>> /\ Head(audit.todo) = phase

\* The command returns when nothing is left to do.
Proceed(verdict, status) ==
  audit' = [audit EXCEPT !.verdict = verdict, !.status = status, !.todo = Tail(@),
                         !.exit = IF Len(audit.todo) = 1 THEN Ends(status) ELSE "none"]

RunPhase ==
  /\ audit.todo # <<>> /\ Head(audit.todo) \notin {"compile", "export"}
  /\ Proceed("none", "none")
  /\ UNCHANGED <<readinessVars, reports>>

PhaseRaises ==
  /\ audit.todo # <<>>
  /\ audit' = [audit EXCEPT !.todo = <<>>, !.exit = "1"]
  /\ reports' = IF Head(audit.todo) = "export" THEN "torn" ELSE reports
  /\ UNCHANGED readinessVars

\* The sandbox has the default settings, its own directories and repository;
\* the engine, the vault, the load and the metrics database are the host's.
\* A repository may fail to open for a reason of the host's.
SandboxForgives == {"disk_low", "bad_port"} \cup Warnings
Sandbox(remaining) ==
  INSTANCE Readiness WITH problems <- remaining, network <- "private", cluster <- FALSE

StatusOf(verdict) ==
  IF verdict \in {"READY", "PRODUCTION_READY"} THEN "ACCEPTED" ELSE "REJECTED"

CompileQuick ==
  /\ audit.op = "quick" /\ At("compile")
  /\ Proceed(Verdict, StatusOf(Verdict))
  /\ UNCHANGED <<readinessVars, reports>>

\* The status that generate_acceptance_report derives is overwritten.
CompileFull ==
  /\ audit.op = "full" /\ At("compile")
  /\ \E also \in SUBSET {"repo_locked"} :
       Proceed(Sandbox(problems \ (SandboxForgives \cup also))!Verdict, "ACCEPTED")
  /\ UNCHANGED <<readinessVars, reports>>

ExportReports ==
  /\ At("export")
  /\ Proceed(audit.verdict, audit.status)
  /\ reports' = audit.status
  /\ UNCHANGED readinessVars

\* Without an endpoint there is nothing to probe, which is no failure.
ProbeHardware(endpoint) ==
  /\ audit.todo = <<>>
  /\ audit' = [Idle EXCEPT !.op = "hardware",
                           !.exit = IF endpoint = "unreachable" THEN "1" ELSE "0"]
  /\ UNCHANGED <<readinessVars, reports>>

AcceptanceNext ==
  \/ BeginFull \/ \E export \in BOOLEAN : BeginQuick(export)
  \/ RunPhase \/ PhaseRaises \/ CompileQuick \/ CompileFull \/ ExportReports
  \/ \E endpoint \in {"none", "reachable", "unreachable"} : ProbeHardware(endpoint)
  \/ ReadinessNext /\ UNCHANGED <<audit, reports>>

AcceptanceSpec == AcceptanceInit /\ [][AcceptanceNext]_acceptanceVars

-----------------------------------------------------------------------------
\* The release gate "fails closed with non-zero exit code on any mandatory
\* failure" (docs/PRODUCTION-GAP-MATRIX.md): whichever way the audit was made, it
\* does not succeed when the verdict it has computed, of which its report shows
\* the score and the layers, is the worst there is.
ReleaseGate ==
  audit.op \in {"quick", "full"} /\ audit.exit = "0" => audit.verdict # "NOT_READY"
=============================================================================
