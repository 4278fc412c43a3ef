----------------------------- MODULE MCOperations -----------------------------
(* The parts of the appliance that cloudctl looks after.  They share no state  *)
(* in the models, so that one run explores them side by side: focus says which *)
(* of them moves, the others rest in one initial state.                        *)
EXTENDS Deployment, Credentials, Metrics, Backups, ConfigStore, Migration, Readiness

VARIABLE focus

\* The port moved onto the other service's, the other way round, and the media
\* service switched off.
MCHandEdits == {<<"media.port", 8081>>, <<"services.nextcloud.port", 8085>>,
                <<"media.enabled", "false">>}

vars == <<deploymentVars, credentialsVars, metricsVars, backupsVars, configVars,
          migrationVars, readinessVars, focus>>

Init ==
  /\ focus \in {"deployment", "credentials", "metrics", "backups", "config",
                "migration", "readiness"}
  /\ DeploymentInit /\ (focus # "deployment" => engine = "podman" /\ media)
  /\ CredentialsInit /\ MetricsInit /\ BackupsInit /\ ConfigInit
  /\ MigrationInit /\ (focus # "migration" => target = source)
  /\ ReadinessInit /\ (focus # "readiness" => network = "private" /\ cluster)

Moves(part) == focus = part /\ UNCHANGED focus

Next ==
  \/ /\ Moves("deployment") /\ DeploymentNext
     /\ UNCHANGED <<credentialsVars, metricsVars, backupsVars, configVars,
                    migrationVars, readinessVars>>
  \/ /\ Moves("credentials") /\ CredentialsNext
     /\ UNCHANGED <<deploymentVars, metricsVars, backupsVars, configVars,
                    migrationVars, readinessVars>>
  \/ /\ Moves("metrics") /\ MetricsNext
     /\ UNCHANGED <<deploymentVars, credentialsVars, backupsVars, configVars,
                    migrationVars, readinessVars>>
  \/ /\ Moves("backups") /\ BackupsNext
     /\ UNCHANGED <<deploymentVars, credentialsVars, metricsVars, configVars,
                    migrationVars, readinessVars>>
  \/ /\ Moves("config") /\ ConfigNext
     /\ UNCHANGED <<deploymentVars, credentialsVars, metricsVars, backupsVars,
                    migrationVars, readinessVars>>
  \/ /\ Moves("migration") /\ MigrationNext
     /\ UNCHANGED <<deploymentVars, credentialsVars, metricsVars, backupsVars,
                    configVars, readinessVars>>
  \/ /\ Moves("readiness") /\ ReadinessNext
     /\ UNCHANGED <<deploymentVars, credentialsVars, metricsVars, backupsVars,
                    configVars, migrationVars>>

Spec == Init /\ [][Next]_vars
=============================================================================
