-------------------------- MODULE Operations_proofs --------------------------
(* Three of the parts cloudctl looks after.  Migration: for any finite set of  *)
(* files, any versions and any number of faults, the manifest of a bundle      *)
(* describes what is in it, and an import that returned True has left the      *)
(* whole bundle on the target.  Metrics: for any windows and any limit,        *)
(* pruning hides no alert.  ConfigStore: whatever is edited by hand between    *)
(* the commands and wherever they are interrupted, what a command owes follows *)
(* from what it read.                                                          *)
EXTENDS Metrics, Migration, ConfigStore, FiniteSetTheorems, SequenceTheorems, TLAPS

Bundles ==
  [state : {"none", "bundle", "cut"}, data : [Files -> 0..Torn],
   sums : [Files -> 0..MaxVersion], count : Nat, db : {"none", "dump", "placeholder"}]

MigrationTypeOK ==
  /\ source \in [Files -> 0..MaxVersion]
  /\ staging \in Bundles /\ archive \in Bundles
  /\ target \in [Files -> 0..Torn]
  /\ left \in SUBSET Files

Whole(b) == {f \in Files : b.data[f] \notin {None, Torn}}

\* What ManifestMatchesArchive says of the archive, of any bundle.
Matches(b) ==
  /\ \A f \in Files : b.sums[f] # None => b.sums[f] = b.data[f]
  /\ b.count = Cardinality(Whole(b))

\* Only what is still to copy differs: a file to export is not staged yet, so
\* that it is counted once, and one already imported is as in the archive.
MigrationInv ==
  /\ MigrationTypeOK
  /\ Matches(staging) /\ Matches(archive)
  /\ phase = "export" => left \cap Stored(staging.data) = {}
  /\ phase \in {"import", "imported"} =>
       \A f \in Stored(archive.data) \ left : target[f] = archive.data[f]
  /\ phase = "imported" => left = {}

-----------------------------------------------------------------------------
\* A bundle with one more whole file, counted, and with its checksum or none.
LEMMA OneMore ==
  ASSUME MaxVersion \in Nat, IsFiniteSet(Files),
         NEW b \in Bundles, NEW c \in Bundles, Matches(b),
         NEW f \in Files, b.data[f] = None, NEW v \in 1..MaxVersion,
         c.data = [b.data EXCEPT ![f] = v], c.count = b.count + 1,
         c.sums[f] \in {None, v}, \A g \in Files \ {f} : c.sums[g] = b.sums[g]
  PROVE  Matches(c)
<1>1. b.data \in [Files -> 0..Torn] /\ b.count \in Nat
  BY DEF Bundles
<1>2. ASSUME NEW g \in Files, c.sums[g] # None PROVE c.sums[g] = c.data[g]
  <2>1. CASE g = f
    BY <1>1, <1>2, <2>1
  <2>2. CASE g # f
    BY <1>1, <1>2, <2>2 DEF Matches
  <2> QED BY <2>1, <2>2
<1>3. f \notin Whole(b) /\ Whole(c) = Whole(b) \cup {f}
  BY <1>1 DEF Whole, None, Torn
<1>4. IsFiniteSet(Whole(b))
  BY FS_Subset DEF Whole
<1>5. Cardinality(Whole(c)) = Cardinality(Whole(b)) + 1
  BY <1>3, <1>4, FS_AddElement
<1> QED BY <1>2, <1>5 DEF Matches

\* A bundle with one more file that was cut short: it is not counted.
LEMMA OneTorn ==
  ASSUME MaxVersion \in Nat,
         NEW b \in Bundles, NEW c \in Bundles, Matches(b),
         NEW f \in Files, b.data[f] = None,
         c.data = [b.data EXCEPT ![f] = Torn], c.count = b.count, c.sums = b.sums
  PROVE  Matches(c)
<1>1. b.data \in [Files -> 0..Torn]
  BY DEF Bundles
<1>2. Whole(c) = Whole(b)
  BY <1>1 DEF Whole
<1>3. ASSUME NEW g \in Files, c.sums[g] # None PROVE c.sums[g] = c.data[g]
  BY <1>1, <1>3 DEF Matches
<1> QED BY <1>2, <1>3 DEF Matches

LEMMA EmptyBundle ==
  ASSUME MaxVersion \in Nat, NEW state \in {"none", "bundle", "cut"},
         NEW db \in {"none", "dump", "placeholder"}, NEW b,
         b = [state |-> state, data |-> Nothing, sums |-> Nothing, count |-> 0, db |-> db]
  PROVE  b \in Bundles /\ Matches(b) /\ Stored(b.data) = {}
<1>1. Nothing \in [Files -> 0..Torn] /\ Nothing \in [Files -> 0..MaxVersion]
  BY DEF Nothing, None, Torn
<1>2. b \in Bundles
  BY <1>1 DEF Bundles
<1>3. Whole(b) = {} /\ Cardinality({}) = 0 /\ Stored(b.data) = {}
  BY FS_EmptySet DEF Whole, Nothing, Stored
<1> QED BY <1>2, <1>3 DEF Matches, Nothing

LEMMA InitMigration ==
  ASSUME MaxVersion \in Nat \ {0}, MigrationInit
  PROVE  MigrationInv
<1>1. Empty("none") = [state |-> "none", data |-> Nothing, sums |-> Nothing, count |-> 0,
                       db |-> "none"]
  BY DEF Empty
<1>2. Empty("none") \in Bundles /\ Matches(Empty("none"))
  BY <1>1, EmptyBundle
<1>3. MigrationTypeOK
  BY <1>2 DEF MigrationInit, MigrationTypeOK, None, Torn
<1> QED BY <1>2, <1>3 DEF MigrationInit, MigrationInv

-----------------------------------------------------------------------------
\* Exporting moves staging and what is left to copy, and nothing else.
LEMMA ExportStep ==
  ASSUME MaxVersion \in Nat, IsFiniteSet(Files), MigrationInv,
         NEW f \in Files, ExportFile(f) \/ ExportFileFails(f)
  PROVE  MigrationInv'
<1>1. /\ phase = "export" /\ f \in left /\ left' = left \ {f}
      /\ UNCHANGED <<source, archive, target, phase>>
  BY DEF ExportFile, Export, ExportFileFails
<1>2. /\ staging \in Bundles /\ Matches(staging) /\ staging.data[f] = None
      /\ source[f] \in 0..MaxVersion
  BY <1>1 DEF MigrationInv, MigrationTypeOK, Stored
<1>3. /\ staging.data \in [Files -> 0..Torn] /\ staging.sums \in [Files -> 0..MaxVersion]
      /\ staging.count \in Nat
  BY <1>2 DEF Bundles
<1>4. /\ staging' \in Bundles /\ Matches(staging')
      /\ \A g \in Files \ {f} : staging'.data[g] = staging.data[g]
  <2>1. CASE ExportFile(f)
    <3>1. /\ source[f] \in 1..MaxVersion
          /\ staging' = [staging EXCEPT !.data[f] = source[f], !.count = @ + 1, !.sums[f] = source[f]]
      BY <1>2, <2>1 DEF ExportFile, Export, None
    <3>2. /\ staging'.data = [staging.data EXCEPT ![f] = source[f]]
          /\ staging'.count = staging.count + 1
          /\ staging'.sums = [staging.sums EXCEPT ![f] = source[f]]
          /\ staging'.state = staging.state /\ staging'.db = staging.db
          /\ staging' = [state |-> staging'.state, data |-> staging'.data, sums |-> staging'.sums,
                         count |-> staging'.count, db |-> staging'.db]
      BY <1>2, <3>1 DEF Bundles
    <3>3. staging'.data \in [Files -> 0..Torn] /\ staging'.sums \in [Files -> 0..MaxVersion]
      BY <1>2, <1>3, <3>1, <3>2 DEF Torn
    <3>4. staging' \in Bundles
      BY <1>2, <3>2, <3>3 DEF Bundles
    <3>5. /\ staging'.sums[f] = source[f]
          /\ \A g \in Files \ {f} : staging'.sums[g] = staging.sums[g]
      BY <1>3, <3>2
    <3> QED BY <1>2, <1>3, <3>1, <3>2, <3>4, <3>5, OneMore
  <2>2. CASE UNCHANGED staging
    BY <1>2, <2>2
  <2>3. CASE staging' = [staging EXCEPT !.data[f] = Torn]
    <3>1. /\ staging' \in Bundles
          /\ staging'.data = [staging.data EXCEPT ![f] = Torn]
          /\ staging'.count = staging.count /\ staging'.sums = staging.sums
      BY <1>2, <2>3 DEF Bundles, Torn
    <3> QED BY <1>2, <3>1, OneTorn DEF Bundles
  <2>4. CASE /\ source[f] # None
             /\ staging' = [staging EXCEPT !.data[f] = source[f], !.count = @ + 1]
    <3>1. source[f] \in 1..MaxVersion
      BY <1>2, <2>4 DEF None
    <3>2. /\ staging'.data = [staging.data EXCEPT ![f] = source[f]]
          /\ staging'.count = staging.count + 1
          /\ staging'.sums = staging.sums
          /\ staging'.state = staging.state /\ staging'.db = staging.db
          /\ staging' = [state |-> staging'.state, data |-> staging'.data, sums |-> staging'.sums,
                         count |-> staging'.count, db |-> staging'.db]
      BY <1>2, <2>4 DEF Bundles
    <3>3. staging'.data \in [Files -> 0..Torn]
      BY <1>2, <1>3, <3>1, <3>2 DEF Torn
    <3>4. staging' \in Bundles
      BY <1>2, <1>3, <3>2, <3>3 DEF Bundles
    <3>5. staging.sums[f] = None
      BY <1>2 DEF Matches
    <3> QED BY <1>2, <1>3, <3>1, <3>2, <3>4, <3>5, OneMore
  <2> QED BY <2>1, <2>2, <2>3, <2>4 DEF ExportFileFails
<1>5. MigrationTypeOK'
  BY <1>1, <1>4 DEF MigrationInv, MigrationTypeOK
<1>6. left' \cap Stored(staging'.data) = {}
  BY <1>1, <1>4 DEF MigrationInv, Stored
<1> QED BY <1>1, <1>4, <1>5, <1>6 DEF MigrationInv

LEMMA ArchiveStep ==
  ASSUME MaxVersion \in Nat, MigrationInv, ExportBegin \/ WriteArchive
  PROVE  MigrationInv'
<1>1. CASE ExportBegin
  <2>1. PICK db \in {"dump", "placeholder"} :
          staging' = [state |-> "bundle", data |-> Nothing, sums |-> Nothing, count |-> 0,
                      db |-> db]
    BY <1>1 DEF ExportBegin, Empty
  <2>2. staging' \in Bundles /\ Matches(staging') /\ Stored(staging'.data) = {}
    BY <2>1, EmptyBundle
  <2>3. MigrationTypeOK'
    BY <1>1, <2>2 DEF ExportBegin, MigrationInv, MigrationTypeOK, Stored
  <2> QED BY <1>1, <2>2, <2>3 DEF ExportBegin, MigrationInv
<1>2. CASE WriteArchive
  <2>1. Empty("cut") = [state |-> "cut", data |-> Nothing, sums |-> Nothing, count |-> 0,
                        db |-> "none"]
    BY DEF Empty
  <2>2. Empty("cut") \in Bundles /\ Matches(Empty("cut"))
    BY <2>1, EmptyBundle
  <2>3. archive' \in Bundles /\ Matches(archive')
    BY <1>2, <2>2 DEF WriteArchive, MigrationInv, MigrationTypeOK
  <2>4. MigrationTypeOK'
    BY <1>2, <2>3 DEF WriteArchive, MigrationInv, MigrationTypeOK
  <2> QED BY <1>2, <2>3, <2>4 DEF WriteArchive, MigrationInv
<1> QED BY <1>1, <1>2

LEMMA ImportStep ==
  ASSUME MaxVersion \in Nat, MigrationInv,
         \/ ImportBegin \/ ImportDatabase \/ Interrupted
         \/ \E f \in Files : ImportFile(f)
  PROVE  MigrationInv'
<1>1. /\ archive \in Bundles /\ archive.data \in [Files -> 0..Torn]
  BY DEF MigrationInv, MigrationTypeOK, Bundles
<1>2. CASE ImportBegin
  BY <1>1, <1>2 DEF ImportBegin, MigrationInv, MigrationTypeOK, Stored
<1>3. CASE ImportDatabase
  BY <1>1, <1>3 DEF ImportDatabase, MigrationInv, MigrationTypeOK
<1>4. CASE Interrupted
  <2>1. target' \in [Files -> 0..Torn] /\ phase' = "idle" /\ left' = {}
    BY <1>4 DEF Interrupted, MigrationInv, MigrationTypeOK, Torn
  <2> QED BY <1>4, <2>1 DEF Interrupted, MigrationInv, MigrationTypeOK
<1>5. ASSUME NEW f \in Files, ImportFile(f) PROVE MigrationInv'
  BY <1>1, <1>5 DEF ImportFile, MigrationInv, MigrationTypeOK, Stored
<1> QED BY <1>2, <1>3, <1>4, <1>5

LEMMA UserStep ==
  ASSUME MaxVersion \in Nat, MigrationInv,
         NEW f \in Files, UserWrites(f) \/ UserDeletes(f)
  PROVE  MigrationInv'
<1>1. source' \in [Files -> 0..MaxVersion]
  BY DEF UserWrites, UserDeletes, MigrationInv, MigrationTypeOK, None
<1> QED BY <1>1 DEF UserWrites, UserDeletes, MigrationInv, MigrationTypeOK

LEMMA NextMigration ==
  ASSUME MaxVersion \in Nat, IsFiniteSet(Files), MigrationInv, [MigrationNext]_migrationVars
  PROVE  MigrationInv'
<1>1. CASE UNCHANGED migrationVars
  BY <1>1 DEF migrationVars, MigrationInv, MigrationTypeOK, Matches, Whole, Stored
<1> QED BY <1>1, ExportStep, ArchiveStep, ImportStep, UserStep DEF MigrationNext

-----------------------------------------------------------------------------
\* Whatever users write while it is made and whichever copies fail, the
\* manifest of a bundle is true of the bundle.
THEOREM ManifestsMatch ==
  ASSUME MaxVersion \in Nat \ {0}, IsFiniteSet(Files)
  PROVE  MigrationSpec => []ManifestMatchesArchive
<1>1. MigrationInit => MigrationInv
  BY InitMigration
<1>2. MigrationInv /\ [MigrationNext]_migrationVars => MigrationInv'
  BY NextMigration
<1>3. MigrationInv => ManifestMatchesArchive
  <2>1. Whole(archive) = {f \in Stored(archive.data) : archive.data[f] # Torn}
    BY DEF Whole, Stored
  <2> QED BY <2>1 DEF MigrationInv, Matches, ManifestMatchesArchive
<1> QED BY <1>1, <1>2, <1>3, PTL DEF MigrationSpec

\* An import that returned True has left the whole bundle on the target,
\* however many earlier ones were interrupted half way.
THEOREM ImportsComplete ==
  ASSUME MaxVersion \in Nat \ {0}, IsFiniteSet(Files)
  PROVE  MigrationSpec => []ImportIsComplete
<1>1. MigrationInit => MigrationInv
  BY InitMigration
<1>2. MigrationInv /\ [MigrationNext]_migrationVars => MigrationInv'
  BY NextMigration
<1>3. MigrationInv => ImportIsComplete
  BY DEF MigrationInv, ImportIsComplete
<1> QED BY <1>1, <1>2, <1>3, PTL DEF MigrationSpec

-----------------------------------------------------------------------------
\* The peaks recorded are samples until they are older than what a prune keeps,
\* and no other sample is a peak.
PeaksKept ==
  /\ clock \in Nat
  /\ \A s \in samples : s.at \in Nat /\ s.at <= clock
  /\ peakAt \subseteq 0..clock
  /\ \A t \in peakAt : clock - t <= Keep => \E s \in samples : s.at = t /\ s.load = "peak"
  /\ \A s \in samples : s.load = "peak" => s.at \in peakAt

LEMMA NextPeaks == PeaksKept /\ [MetricsNext]_metricsVars => PeaksKept'
<1> SUFFICES ASSUME PeaksKept, [MetricsNext]_metricsVars PROVE PeaksKept'
  OBVIOUS
<1> USE MetricsAssumption
<1>1. ASSUME NEW load \in {"normal", "busy", "peak"}, RecordSnapshot(load) PROVE PeaksKept'
  <2> DEFINE sample == [at |-> clock, load |-> load]
             older == IF Resets THEN {} ELSE peakAt
  <2>1. /\ sample.at = clock /\ sample.load = load
        /\ samples' = Opened \cup {sample} /\ clock' = clock
        /\ peakAt' = older \cup (IF load = "peak" THEN {clock} ELSE {})
    BY <1>1 DEF RecordSnapshot
  <2>2. \A s \in Opened : s \in samples /\ (s.load = "peak" => s.at \in older)
    BY DEF Opened, PeaksKept
  <2>3. \A t \in older : clock - t <= Keep => \E s \in Opened : s.at = t /\ s.load = "peak"
    BY DEF Opened, PeaksKept
  <2>4. older \subseteq 0..clock
    BY DEF PeaksKept
  <2>5. \A t \in peakAt' : clock' - t <= Keep => \E s \in samples' : s.at = t /\ s.load = "peak"
    <3> HIDE DEF sample, older
    <3> QED BY <2>1, <2>3
  <2>6. \A s \in samples' : s.load = "peak" => s.at \in peakAt'
    <3> HIDE DEF sample, older
    <3> QED BY <2>1, <2>2
  <2>7. peakAt' \subseteq 0..clock' /\ \A s \in samples' : s.at \in Nat /\ s.at <= clock'
    <3> HIDE DEF sample, older
    <3> QED BY <2>1, <2>2, <2>4 DEF PeaksKept
  <2> HIDE DEF sample, older
  <2> QED BY <2>1, <2>5, <2>6, <2>7 DEF PeaksKept
<1>2. CASE ReadAlerts
  BY <1>2 DEF ReadAlerts, PeaksKept
<1>3. CASE EnforceStorageLimit
  <2>1. /\ samples' = {s \in samples : s.at >= clock - Keep}
        /\ clock' = clock /\ peakAt' = peakAt
    BY <1>3 DEF EnforceStorageLimit
  <2> QED BY <2>1 DEF PeaksKept
<1>4. CASE VacuumEnds
  BY <1>4 DEF VacuumEnds, PeaksKept
<1>5. CASE DamageDatabase
  BY <1>5 DEF DamageDatabase, PeaksKept
<1>6. CASE MetricsTick
  <2>1. clock' = clock + 1 /\ samples' = samples /\ peakAt' = peakAt
    BY <1>6 DEF MetricsTick
  <2> QED BY <2>1 DEF PeaksKept
<1>7. CASE UNCHANGED metricsVars
  BY <1>7 DEF metricsVars, PeaksKept
<1> QED BY <1>1, <1>2, <1>3, <1>4, <1>5, <1>6, <1>7 DEF MetricsNext

\* However large the limit and whenever the database is pruned to it: a CRITICAL
\* alert is up exactly while a peak is recent, for what is pruned is older than
\* what alerts look at.
THEOREM AlertsRight == MetricsSpec => []AlertsFollowPeaks
<1>1. MetricsInit => PeaksKept
  BY MetricsAssumption DEF MetricsInit, PeaksKept
<1>2. PeaksKept /\ [MetricsNext]_metricsVars => PeaksKept'
  BY NextPeaks
<1>3. PeaksKept => AlertsFollowPeaks
  <2> SUFFICES ASSUME PeaksKept PROVE AlertsFollowPeaks
    OBVIOUS
  <2>1. CheckAlerts(samples) = "CRITICAL" <=> \E s \in Recent(samples) : s.load = "peak"
    BY DEF CheckAlerts
  <2>2. (\E s \in Recent(samples) : s.load = "peak") <=> \E t \in peakAt : clock - t <= Window
    BY MetricsAssumption DEF Recent, PeaksKept
  <2> QED BY <2>1, <2>2 DEF AlertsFollowPeaks
<1> QED BY <1>1, <1>2, <1>3, PTL DEF MetricsSpec

-----------------------------------------------------------------------------
(* ConfigStore.                                                              *)
AllKeys == Required \cup {"orchestrator.mode"}

LEMMA DefaultKeys == DOMAIN Defaults = AllKeys
BY DEF Defaults, AllKeys

LEMMA MergedConfig ==
  \A base, override :
    /\ \A key : key \in DOMAIN DeepMerge(base, override) <=>
                  key \in DOMAIN base \/ key \in DOMAIN override
    /\ \A key \in DOMAIN override : DeepMerge(base, override)[key] = override[key]
    /\ \A key \in DOMAIN base :
         key \notin DOMAIN override => DeepMerge(base, override)[key] = base[key]
BY DEF DeepMerge

LEMMA OneSetting ==
  \A key, value : /\ \A k : k \in DOMAIN Setting(key, value) <=> k = key
                  /\ Setting(key, value)[key] = value
BY DEF Setting

\* A configuration that is valid by itself stays valid over the defaults: it
\* sets all that its validity depends on.
LEMMA ValidLoads ==
  ASSUME NEW config, Valid(config)
  PROVE  Valid(DeepMerge(Defaults, config))
<1> DEFINE merged == DeepMerge(Defaults, config)
<1>1. \A key \in Required : key \in DOMAIN config /\ merged[key] = config[key]
  <2> SUFFICES ASSUME NEW key \in Required PROVE key \in DOMAIN config /\ merged[key] = config[key]
    OBVIOUS
  <2>1. key \in DOMAIN config
    BY DEF Valid
  <2>2. merged[key] = config[key]
    BY <2>1, Zenon DEF DeepMerge
  <2> QED BY <2>1, <2>2
<1>2. Required \subseteq DOMAIN merged
  BY <1>1, MergedConfig
<1> HIDE DEF merged
<1>3. \A key \in Required : Get(merged, key) = Get(config, key)
  BY <1>1, <1>2 DEF Get
<1>4. "media.enabled" \in Required /\ "media.port" \in Required
      /\ "services.nextcloud.port" \in Required
  BY DEF Required
<1> QED BY <1>2, <1>3, <1>4 DEF Valid, PortsCollide, merged

\* What a command's remaining steps say of the file and its backup.
CommandOwes ==
  \/ cmd.op = "none" /\ cmd.todo = <<>>
  \/ /\ cmd.op \in {"init", "switch", "migrate"} /\ cmd.todo = <<"save">>
     /\ cmd.edited \/ cmd.old = UserConfig
  \/ /\ cmd.op = "import" /\ cmd.todo = ImportSteps
     /\ cmd.edited \/ cmd.old = UserConfig
  \/ /\ cmd.op = "import" /\ cmd.todo = <<"save">>
     /\ cmd.edited \/ cmd.old = bak \/ (cmd.old = UserConfig /\ ~exists)
  \/ /\ cmd.op \in {"init", "switch", "migrate", "import"} /\ cmd.todo = <<>>
     /\ Valid(cmd.new)
     /\ cmd.edited \/ (exists /\ file = cmd.new)
     /\ cmd.op = "import" => cmd.edited \/ cmd.old = bak
  \/ /\ cmd.op = "killed" /\ cmd.todo = <<>>
     /\ cmd.edited \/ cmd.old = UserConfig \/ cmd.old = bak

\* What migrate and switch are about to write, or have written.
NewConfig ==
  /\ cmd.op = "migrate" =>
       \E version : cmd.new = DeepMerge(Defaults, DeepMerge(cmd.old, Setting("version", version)))
  /\ cmd.op = "switch" => "orchestrator.mode" \in DOMAIN cmd.new

CommandShape ==
  cmd = [op |-> cmd.op, todo |-> cmd.todo, new |-> cmd.new, old |-> cmd.old,
         edited |-> cmd.edited]

ConfigInv ==
  /\ CommandShape /\ cmd.edited \in BOOLEAN /\ exists \in BOOLEAN
  /\ ~exists => bak = Unset
  /\ CommandOwes /\ NewConfig

LEMMA InitConfiguration == ConfigInit => ConfigInv
<1> SUFFICES ASSUME ConfigInit PROVE ConfigInv
  OBVIOUS
<1>1. cmd = [op |-> "none", todo |-> <<>>, new |-> Unset, old |-> Unset, edited |-> FALSE]
  BY DEF ConfigInit, NoCommand
<1>2. cmd.op = "none" /\ cmd.todo = <<>> /\ cmd.edited = FALSE
  BY <1>1
<1>3. CommandShape
  BY <1>1 DEF CommandShape
<1> QED BY <1>2, <1>3 DEF ConfigInit, ConfigInv, CommandOwes, NewConfig

\* A command that begins has read the file as it is.
LEMMA StartsOwes ==
  ASSUME ConfigInv, NEW op, NEW todo, NEW new, Starts(op, todo, new),
         \/ op \in {"init", "switch", "migrate"} /\ todo = <<"save">>
         \/ op = "import" /\ todo = ImportSteps,
         op = "migrate" =>
           \E version : new = DeepMerge(Defaults, DeepMerge(UserConfig, Setting("version", version))),
         op = "switch" => "orchestrator.mode" \in DOMAIN new
  PROVE  ConfigInv'
<1>1. /\ cmd' = [op |-> op, todo |-> todo, new |-> new, old |-> UserConfig, edited |-> FALSE]
      /\ exists' = exists /\ file' = file /\ bak' = bak
  BY DEF Starts, NoCommand
<1>2. /\ cmd'.op = op /\ cmd'.todo = todo /\ cmd'.new = new /\ cmd'.old = UserConfig
      /\ cmd'.edited = FALSE
  BY <1>1
<1>3. CommandShape' /\ UserConfig' = UserConfig
  BY <1>1, <1>2 DEF CommandShape, UserConfig
<1>4. CommandOwes'
  BY <1>2, <1>3 DEF CommandOwes
<1>5. NewConfig'
  BY <1>2 DEF NewConfig
<1> QED BY <1>1, <1>2, <1>3, <1>4, <1>5 DEF ConfigInv

\* A step of a command that is done.
LEMMA StepsLeft ==
  /\ Head(<<"save">>) = "save" /\ Tail(<<"save">>) = <<>>
  /\ ImportSteps # <<>> /\ Head(ImportSteps) = "backup" /\ Tail(ImportSteps) = <<"save">>
BY DEF ImportSteps

LEMMA NextConfiguration == ConfigInv /\ [ConfigNext]_configVars => ConfigInv'
<1> SUFFICES ASSUME ConfigInv, [ConfigNext]_configVars PROVE ConfigInv'
  OBVIOUS
<1>1. ASSUME NEW force \in BOOLEAN, InitConfig(force) PROVE ConfigInv'
  BY <1>1, StartsOwes DEF InitConfig
<1>2. ASSUME NEW mode, SwitchMode(mode) PROVE ConfigInv'
  <2> DEFINE new == DeepMerge(LoadedConfig, Setting("orchestrator.mode", mode))
  <2>1. "orchestrator.mode" \in DOMAIN new
    BY MergedConfig, OneSetting
  <2>2. Starts("switch", <<"save">>, new)
    BY <1>2 DEF SwitchMode
  <2> HIDE DEF new
  <2> QED BY <2>1, <2>2, StartsOwes
<1>3. ASSUME NEW version, MigrateConfig(version) PROVE ConfigInv'
  <2> DEFINE new == DeepMerge(Defaults, DeepMerge(file, Setting("version", version)))
  <2>1. UserConfig = file
    BY <1>3 DEF MigrateConfig, UserConfig
  <2>2. Starts("migrate", <<"save">>, new)
    BY <1>3 DEF MigrateConfig
  <2>3. \E v : new = DeepMerge(Defaults, DeepMerge(UserConfig, Setting("version", v)))
    BY <2>1
  <2> HIDE DEF new
  <2> QED BY <2>2, <2>3, StartsOwes
<1>4. ASSUME NEW imported, ImportConfig(imported) PROVE ConfigInv'
  BY <1>4, StartsOwes DEF ImportConfig
<1>5. CASE BackupExisting
  <2>1. /\ cmd.todo # <<>> /\ Head(cmd.todo) = "backup"
        /\ bak' = IF exists THEN file ELSE bak
        /\ exists' = exists /\ file' = file
    BY <1>5 DEF BackupExisting
  <2>2. cmd' = [op |-> cmd.op, todo |-> Tail(cmd.todo), new |-> cmd.new, old |-> cmd.old,
                edited |-> cmd.edited]
    BY <1>5 DEF BackupExisting, ConfigInv, CommandShape
  <2>3. cmd.op = "import" /\ cmd.todo = ImportSteps /\ (cmd.edited \/ cmd.old = UserConfig)
    BY <2>1, StepsLeft DEF ConfigInv, CommandOwes
  <2>4. /\ cmd'.op = "import" /\ cmd'.todo = <<"save">> /\ cmd'.new = cmd.new
        /\ cmd'.old = cmd.old /\ cmd'.edited = cmd.edited
    BY <2>2, <2>3, StepsLeft
  <2>5. CommandShape' /\ NewConfig'
    BY <2>2, <2>4 DEF CommandShape, NewConfig
  <2>6. UserConfig' = UserConfig
    BY <2>1 DEF UserConfig
  <2>7. CommandOwes'
    BY <2>1, <2>3, <2>4, <2>6 DEF CommandOwes, UserConfig
  <2> QED BY <2>1, <2>4, <2>5, <2>7 DEF ConfigInv
<1>6. CASE SaveConfig
  <2>1. cmd.todo # <<>> /\ Head(cmd.todo) = "save" /\ bak' = bak
    BY <1>6 DEF SaveConfig
  <2>2. /\ cmd.op \in {"init", "switch", "migrate", "import"} /\ cmd.todo = <<"save">>
        /\ cmd.op = "import" => cmd.edited \/ cmd.old = bak
    <3>1. UserConfig = bak \/ exists
      BY DEF ConfigInv, UserConfig
    <3> QED BY <2>1, <3>1, StepsLeft DEF ConfigInv, CommandOwes
  <2>3. CASE Valid(cmd.new)
    <3>1. /\ exists' = TRUE /\ file' = cmd.new
          /\ cmd' = [op |-> cmd.op, todo |-> Tail(cmd.todo), new |-> cmd.new,
                     old |-> cmd.old, edited |-> cmd.edited]
      BY <1>6, <2>3 DEF SaveConfig, ConfigInv, CommandShape
    <3>2. /\ cmd'.op = cmd.op /\ cmd'.todo = <<>> /\ cmd'.new = cmd.new
          /\ cmd'.old = cmd.old /\ cmd'.edited = cmd.edited
      BY <2>2, <3>1, StepsLeft
    <3>3. CommandShape'
      BY <3>1, <3>2 DEF CommandShape
    <3>4. NewConfig'
      BY <3>2 DEF ConfigInv, NewConfig
    <3>5. Valid(cmd'.new)
      BY <2>3, <3>2
    <3>6. CommandOwes'
      BY <2>1, <2>2, <3>1, <3>2, <3>5 DEF CommandOwes
    <3> QED BY <3>1, <3>2, <3>3, <3>4, <3>6 DEF ConfigInv
  <2>4. CASE ~Valid(cmd.new)
    <3>1. cmd' = NoCommand /\ exists' = exists /\ file' = file
      BY <1>6, <2>4 DEF SaveConfig
    <3> QED BY <2>1, <3>1
        DEF ConfigInv, NoCommand, CommandShape, CommandOwes, NewConfig
  <2> QED BY <2>3, <2>4
<1>7. CASE CommandKilled
  <2>1. /\ cmd.todo # <<>> /\ exists' = exists /\ file' = file /\ bak' = bak
        /\ cmd' = [op |-> "killed", todo |-> <<>>, new |-> cmd.new, old |-> cmd.old,
                   edited |-> cmd.edited]
    BY <1>7 DEF CommandKilled, ConfigInv, CommandShape
  <2>2. /\ cmd'.op = "killed" /\ cmd'.todo = <<>> /\ cmd'.old = cmd.old
        /\ cmd'.edited = cmd.edited /\ cmd'.new = cmd.new
    BY <2>1
  <2>3. cmd.edited \/ cmd.old = UserConfig \/ cmd.old = bak
    BY <2>1 DEF ConfigInv, CommandOwes
  <2>4. UserConfig' = UserConfig
    BY <2>1 DEF UserConfig
  <2>5. CommandShape' /\ CommandOwes' /\ NewConfig'
    BY <2>1, <2>2, <2>3, <2>4 DEF CommandShape, CommandOwes, NewConfig
  <2> QED BY <2>1, <2>2, <2>5 DEF ConfigInv
<1>8. ASSUME NEW key, NEW value, EditByHand(key, value) PROVE ConfigInv'
  <2>1. /\ exists' = TRUE /\ bak' = bak
        /\ cmd' = [op |-> cmd.op, todo |-> cmd.todo, new |-> cmd.new, old |-> cmd.old,
                   edited |-> TRUE]
    BY <1>8 DEF EditByHand, ConfigInv, CommandShape
  <2>2. /\ cmd'.op = cmd.op /\ cmd'.todo = cmd.todo /\ cmd'.old = cmd.old
        /\ cmd'.edited = TRUE /\ cmd'.new = cmd.new
    BY <2>1
  <2>3. CommandShape' /\ NewConfig'
    BY <2>1, <2>2 DEF ConfigInv, CommandShape, NewConfig
  <2>4. CommandOwes'
    <3>1. Valid(cmd.new) => Valid(cmd'.new)
      BY <2>2
    <3> QED BY <2>2, <3>1 DEF ConfigInv, CommandOwes
  <2> QED BY <2>1, <2>2, <2>3, <2>4 DEF ConfigInv
<1>9. CASE UNCHANGED configVars
  <2>1. /\ cmd' = cmd /\ exists' = exists /\ file' = file /\ bak' = bak
    BY <1>9 DEF configVars
  <2> QED BY <2>1 DEF ConfigInv, CommandShape, CommandOwes, NewConfig, UserConfig
<1> QED BY <1>1, <1>2, <1>3, <1>4, <1>5, <1>6, <1>7, <1>8, <1>9 DEF ConfigNext

LEMMA ConfigInvariant == ConfigSpec => []ConfigInv
BY InitConfiguration, NextConfiguration, PTL DEF ConfigSpec

LEMMA CommittedFile ==
  ASSUME ConfigInv, NEW op \in {"init", "switch", "migrate", "import"}, Committed(op)
  PROVE  Valid(cmd.new) /\ UserConfig = cmd.new
BY StepsLeft DEF Committed, ConfigInv, CommandOwes, UserConfig

\* What a command has written, load_config accepts, whatever it read before.
THEOREM SavedConfigsLoad == ConfigSpec => []SavedConfigLoads
<1>1. ConfigInv => SavedConfigLoads
  BY CommittedFile, ValidLoads DEF SavedConfigLoads, Loads, LoadedConfig
<1> QED BY <1>1, ConfigInvariant, PTL

\* Wherever an import or a migration stops, the former settings are not lost.
THEOREM ImportsKeepOld == ConfigSpec => []ImportKeepsOld
<1>1. ConfigInv => ImportKeepsOld
  <2> SUFFICES ASSUME ConfigInv, cmd.op \in {"import", "killed"}, ~cmd.edited
               PROVE  cmd.old = UserConfig \/ cmd.old = bak
    BY DEF ImportKeepsOld
  <2> QED BY DEF ConfigInv, CommandOwes
<1> QED BY <1>1, ConfigInvariant, PTL

\* A migration keeps every setting but the version.
THEOREM MigrationsKeepSettings == ConfigSpec => []MigrateKeepsSettings
<1>1. ConfigInv => MigrateKeepsSettings
  <2> SUFFICES ASSUME ConfigInv, Committed("migrate"), NEW key \in DOMAIN Defaults \ {"version"}
               PROVE  LoadedConfig[key] = Get(cmd.old, key)
    BY DEF MigrateKeepsSettings
  <2>1. PICK version :
          cmd.new = DeepMerge(Defaults, DeepMerge(cmd.old, Setting("version", version)))
    BY DEF ConfigInv, NewConfig, Committed
  <2>2. UserConfig = cmd.new
    BY CommittedFile
  <2> DEFINE user == DeepMerge(cmd.old, Setting("version", version))
  <2>3. /\ key \in DOMAIN user <=> key \in DOMAIN cmd.old
        /\ key \in DOMAIN cmd.old => user[key] = cmd.old[key]
    BY MergedConfig, OneSetting
  <2> HIDE DEF user
  <2>4. key \in DOMAIN cmd.new /\ cmd.new[key] = Get(cmd.old, key)
    BY <2>1, <2>3, MergedConfig DEF Get, user
  <2> QED BY <2>2, <2>4, MergedConfig DEF LoadedConfig
<1> QED BY <1>1, ConfigInvariant, PTL

\* After a switch the file decides, whatever the profile and the environment say.
THEOREM SwitchesTakeEffect == ConfigSpec => []SwitchTakesEffect
<1>1. ConfigInv => SwitchTakesEffect
  <2> SUFFICES ASSUME ConfigInv, Committed("switch"), NEW active, NEW variable
               PROVE  EffectiveConfig(active, variable)["orchestrator.mode"]
                        = cmd.new["orchestrator.mode"]
    BY DEF SwitchTakesEffect
  <2>1. UserConfig = cmd.new /\ "orchestrator.mode" \in DOMAIN cmd.new
    BY CommittedFile DEF ConfigInv, NewConfig, Committed
  <2> QED BY <2>1, MergedConfig DEF EffectiveConfig
<1> QED BY <1>1, ConfigInvariant, PTL
=============================================================================
