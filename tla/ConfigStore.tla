----------------------------- MODULE ConfigStore -----------------------------
(* cloud.yaml and the commands that rewrite it.  A configuration is a partial *)
(* function of dotted keys; five keys stand for the schema's: two ports that  *)
(* may collide, the media switch, the orchestrator mode (which the schema     *)
(* does not require, and which profiles and the environment also set) and the *)
(* version tag.  An administrator may edit the file by hand at any moment.    *)
EXTENDS Naturals, Sequences

CONSTANTS
  HandEdits,    \* the edits by hand: a set of <<key, value>>
  MaxEdits      \* bound on their number

Unset == <<>>
Setting(key, value) == [k \in {key} |-> value]
Required == {"services.nextcloud.port", "media.port", "media.enabled", "version"}
Defaults ==
  [key \in Required \cup {"orchestrator.mode"} |->
     CASE key = "services.nextcloud.port" -> 8081
       [] key = "media.port" -> 8085
       [] key = "media.enabled" -> "true"
       [] key = "orchestrator.mode" -> "appliance"
       [] key = "version" -> "0.1.0"]

VARIABLES
  exists,  \* cloud.yaml exists
  file,    \* its settings
  bak,     \* the settings in cloud.yaml.bak
  cmd,     \* the running or last command
  edits    \* edits made by hand so far

configVars == <<exists, file, bak, cmd, edits>>

-----------------------------------------------------------------------------
\* What override sets wins, setting by setting.
DeepMerge_Swapped(base, override) ==    \* mutant: swapped order
  [key \in DOMAIN base \cup DOMAIN override |->
     IF key \in DOMAIN base THEN base[key] ELSE override[key]]
DeepMerge(base, override) ==
  [key \in DOMAIN base \cup DOMAIN override |->
     IF key \in DOMAIN override THEN override[key] ELSE base[key]]

\* An optional port or switch is read with its default.
Get(config, key) == IF key \in DOMAIN config THEN config[key] ELSE Defaults[key]

PortsCollide(config) ==
  /\ Get(config, "media.enabled") = "true"
  /\ Get(config, "media.port") = Get(config, "services.nextcloud.port")

Valid(config) == Required \subseteq DOMAIN config /\ ~PortsCollide(config)

UserConfig == IF exists THEN file ELSE Unset
LoadedConfig == DeepMerge(Defaults, UserConfig)
Loads == Valid(LoadedConfig)

\* get_effective_config, for the key that all its layers set.
ProfileLayer(active) ==
  IF active \in {"cluster", "appliance"} THEN Setting("orchestrator.mode", active) ELSE Unset
EnvironmentLayer(variable) ==
  IF variable = "unset" THEN Unset ELSE Setting("orchestrator.mode", variable)
EffectiveConfig_EnvLast(active, variable) ==      \* mutant: the file is not the last layer
  DeepMerge(DeepMerge(DeepMerge(Defaults, ProfileLayer(active)), UserConfig),
            EnvironmentLayer(variable))
EffectiveConfig(active, variable) ==
  DeepMerge(DeepMerge(DeepMerge(Defaults, ProfileLayer(active)),
                      EnvironmentLayer(variable)), UserConfig)

-----------------------------------------------------------------------------
NoCommand == [op |-> "none", todo |-> <<>>, new |-> Unset, old |-> Unset, edited |-> FALSE]

ConfigInit ==
  /\ exists = FALSE /\ file = Unset /\ bak = Unset
  /\ cmd = NoCommand
  /\ edits = 0

Starts(op, todo, new) ==
  /\ cmd.todo = <<>>
  /\ cmd' = [NoCommand EXCEPT !.op = op, !.todo = todo, !.new = new, !.old = UserConfig]
  /\ UNCHANGED <<exists, file, bak, edits>>

\* init, and setup, write the defaults over the file with --force only.
InitConfig(force) ==
  /\ ~exists \/ force
  /\ Starts("init", <<"save">>, Defaults)

\* switch loads, and so validates, the merged configuration and saves all of it.
SwitchMode(mode) ==
  /\ Loads
  /\ Starts("switch", <<"save">>, DeepMerge(LoadedConfig, Setting("orchestrator.mode", mode)))

MigrateConfig(version) ==
  /\ exists
  /\ Starts("migrate", <<"save">>,
            DeepMerge(Defaults, DeepMerge(file, Setting("version", version))))

\* The source is validated by itself, without the defaults.
ImportSources ==
  {Unset, DeepMerge(Defaults, Setting("media.port", 9000)),
   DeepMerge(Defaults, Setting("media.port", 8081)),
   DeepMerge(Defaults, Setting("services.nextcloud.port", 8085)),
   [key \in Required \ {"media.port"} |->
      CASE key = "version" -> "0.1.0"
        [] key = "services.nextcloud.port" -> 8085
        [] key = "media.enabled" -> "false"],
   [key \in Required \ {"services.nextcloud.port"} |->
      CASE key = "version" -> "0.1.0"
        [] key = "media.port" -> 8081
        [] key = "media.enabled" -> "true"]}

ImportSteps_SaveFirst == <<"save", "backup">>      \* mutant: swapped order
ImportSteps == <<"backup", "save">>

ImportConfig(source) ==
  /\ Valid(source)
  /\ Starts("import", ImportSteps, source)

BackupExisting ==
  /\ cmd.todo # <<>> /\ Head(cmd.todo) = "backup"
  /\ bak' = IF exists THEN file ELSE bak
  /\ cmd' = [cmd EXCEPT !.todo = Tail(@)]
  /\ UNCHANGED <<exists, file, edits>>

SaveConfig_Unchecked ==      \* mutant: what is written is not validated
  /\ cmd.todo # <<>> /\ Head(cmd.todo) = "save"
  /\ exists' = TRUE /\ file' = cmd.new
  /\ cmd' = [cmd EXCEPT !.todo = Tail(@)]
  /\ UNCHANGED <<bak, edits>>

\* save_config validates again, and replaces the file in one step or raises.
SaveConfig ==
  /\ cmd.todo # <<>> /\ Head(cmd.todo) = "save"
  /\ IF Valid(cmd.new)
     THEN /\ exists' = TRUE /\ file' = cmd.new
          /\ cmd' = [cmd EXCEPT !.todo = Tail(@)]
     ELSE /\ cmd' = NoCommand
          /\ UNCHANGED <<exists, file>>
  /\ UNCHANGED <<bak, edits>>

CommandKilled ==
  /\ cmd.todo # <<>>
  /\ cmd' = [cmd EXCEPT !.op = "killed", !.todo = <<>>]
  /\ UNCHANGED <<exists, file, bak, edits>>

EditByHand(key, value) ==
  /\ edits < MaxEdits
  /\ edits' = edits + 1
  /\ exists' = TRUE
  /\ file' = DeepMerge(UserConfig, Setting(key, value))
  /\ cmd' = [cmd EXCEPT !.edited = TRUE]
  /\ UNCHANGED bak

ConfigNext ==
  \/ \E force \in BOOLEAN : InitConfig(force)
  \/ \E mode \in {"appliance", "cluster"} : SwitchMode(mode)
  \/ \E version \in {"0.2.0", "0.3.0"} : MigrateConfig(version)
  \/ \E source \in ImportSources : ImportConfig(source)
  \/ BackupExisting \/ SaveConfig \/ CommandKilled
  \/ \E edit \in HandEdits : EditByHand(edit[1], edit[2])

ConfigSpec == ConfigInit /\ [][ConfigNext]_configVars

-----------------------------------------------------------------------------
Committed(op) == cmd.op = op /\ cmd.todo = <<>> /\ ~cmd.edited

\* "Validate and import a configuration file": what cloudctl itself has written
\* loads.  import validates the source alone and load_config the source merged
\* with the defaults, whose ports could collide with those of the source.
SavedConfigLoads ==
  \A op \in {"init", "switch", "migrate", "import"} : Committed(op) => Loads

\* Wherever an import or a migration is interrupted, the settings it found are
\* in cloud.yaml or, for an import, in cloud.yaml.bak.
ImportKeepsOld ==
  cmd.op \in {"import", "killed"} /\ ~cmd.edited => cmd.old \in {UserConfig, bak}

\* A migration changes no setting but the version: neither one of the user's
\* nor the value in force of one that the user has left to the defaults.
MigrateKeepsSettings ==
  Committed("migrate") =>
    \A key \in DOMAIN Defaults \ {"version"} : LoadedConfig[key] = Get(cmd.old, key)

\* "USER-OVERRIDE (highest priority)": after a switch of the orchestrator, no
\* profile and no environment variable brings the former mode back.
SwitchTakesEffect ==
  Committed("switch") =>
    \A active \in {"auto", "dev", "cluster", "appliance"},
       variable \in {"unset", "cluster", "appliance"} :
      EffectiveConfig(active, variable)["orchestrator.mode"] = cmd.new["orchestrator.mode"]
=============================================================================
