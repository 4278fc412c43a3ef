------------------------------ MODULE Migration ------------------------------
(* A migration bundle: export copies the Nextcloud files one by one, while    *)
(* users go on writing, into a staging directory with a checksum each, dumps  *)
(* the database and archives the lot; import unpacks the archive over the     *)
(* target's files.  Contents are versions: None for no file, Torn for a file  *)
(* cut short.                                                                 *)
EXTENDS Naturals, FiniteSets

CONSTANTS
  Files,        \* the user files
  MaxVersion,   \* bound on the versions of a file
  MaxFaults     \* bound on failed writes and interruptions

None == 0
Torn == MaxVersion + 1

VARIABLES
  source,   \* file -> its version on the exporting host
  staging,  \* the staging directory: [state, data, sums, count, db]
  archive,  \* what was last archived at the output path
  target,   \* file -> its version on the importing host
  phase,    \* "idle", "export", "import" or "imported"
  left,     \* the files still to copy
  faults

migrationVars == <<source, staging, archive, target, phase, left, faults>>

Nothing == [f \in Files |-> None]
Empty(state) == [state |-> state, data |-> Nothing, sums |-> Nothing, count |-> 0, db |-> "none"]
Stored(data) == {f \in Files : data[f] # None}

MigrationInit ==
  /\ source = [f \in Files |-> 1]
  /\ staging = Empty("none") /\ archive = Empty("none")
  /\ target \in [Files -> {None, 1}]
  /\ phase = "idle" /\ left = {} /\ faults = 0

Fault == faults < MaxFaults /\ faults' = faults + 1

-----------------------------------------------------------------------------
(* MigrationManager.export_bundle *)

\* A dump that fails is replaced by a placeholder.
ExportBegin ==
  /\ phase \in {"idle", "imported"}
  /\ \E db \in {"dump", "placeholder"} : staging' = [Empty("bundle") EXCEPT !.db = db]
  /\ phase' = "export" /\ left' = Stored(source)
  /\ UNCHANGED <<source, archive, target, faults>>

Export(f, sum) ==
  /\ phase = "export" /\ f \in left
  /\ source[f] # None
  /\ staging' = [staging EXCEPT !.data[f] = source[f], !.count = @ + 1, !.sums[f] = sum]
  /\ left' = left \ {f}
  /\ UNCHANGED <<source, archive, target, phase, faults>>

\* The file is read whole, its copy written, counted and checksummed.
ExportFile_SumOfSource(f) ==      \* mutant: the source is read again for the checksum
  \E later \in source[f]..MaxVersion : Export(f, later)
ExportFile(f) == Export(f, source[f])

\* An exception is logged and the file passed over: vanished, unreadable, cut
\* short by a full disk, or counted but without its checksum.
ExportFileFails(f) ==
  /\ phase = "export" /\ f \in left
  /\ \/ source[f] = None /\ UNCHANGED <<staging, faults>>
     \/ Fault /\ UNCHANGED staging
     \/ Fault /\ source[f] # None /\ staging' = [staging EXCEPT !.data[f] = Torn]
     \/ /\ Fault /\ source[f] # None
        /\ staging' = [staging EXCEPT !.data[f] = source[f], !.count = @ + 1]
  /\ left' = left \ {f}
  /\ UNCHANGED <<source, archive, target, phase>>

\* The manifest is added and the archive written over an older one; at worst
\* it stays cut short.
WriteArchive ==
  /\ phase = "export" /\ left = {}
  /\ \/ archive' = staging /\ UNCHANGED faults
     \/ archive' = Empty("cut") /\ Fault
  /\ phase' = "idle"
  /\ UNCHANGED <<source, staging, target, left>>

-----------------------------------------------------------------------------
(* MigrationManager.import_bundle *)

\* A missing or broken archive raises before anything is written.
ImportBegin ==
  /\ phase \in {"idle", "imported"}
  /\ archive.state = "bundle"
  /\ phase' = "import" /\ left' = Stored(archive.data)
  /\ UNCHANGED <<source, staging, archive, target, faults>>

\* No checksum is compared.
ImportFile_NewOnly(f) ==          \* mutant: an existing file is not overwritten
  /\ phase = "import" /\ f \in left
  /\ target' = IF target[f] = None THEN [target EXCEPT ![f] = archive.data[f]] ELSE target
  /\ left' = left \ {f}
  /\ UNCHANGED <<source, staging, archive, phase, faults>>
ImportFile(f) ==
  /\ phase = "import" /\ f \in left
  /\ target' = [target EXCEPT ![f] = archive.data[f]]
  /\ left' = left \ {f}
  /\ UNCHANGED <<source, staging, archive, phase, faults>>

\* The result of psql is ignored: import_bundle returns True either way.
ImportDatabase ==
  /\ phase = "import" /\ left = {}
  /\ phase' = "imported"
  /\ UNCHANGED <<source, staging, archive, target, left, faults>>

\* A full disk, ^C or a reboot: at worst a file of the target is cut short.
Interrupted ==
  /\ phase \in {"export", "import"}
  /\ Fault
  /\ \/ UNCHANGED target
     \/ phase = "import" /\ \E f \in left : target' = [target EXCEPT ![f] = Torn]
  /\ phase' = "idle" /\ left' = {}
  /\ UNCHANGED <<source, staging, archive>>

\* Users write and delete on the source.
UserWrites(f) ==
  /\ source[f] < MaxVersion
  /\ source' = [source EXCEPT ![f] = @ + 1]
  /\ UNCHANGED <<staging, archive, target, phase, left, faults>>

UserDeletes(f) ==
  /\ source[f] \notin {None, MaxVersion}
  /\ source' = [source EXCEPT ![f] = None]
  /\ UNCHANGED <<staging, archive, target, phase, left, faults>>

MigrationNext ==
  \/ ExportBegin \/ WriteArchive \/ ImportBegin \/ ImportDatabase \/ Interrupted
  \/ \E f \in Files : \/ ExportFile(f) \/ ExportFileFails(f) \/ ImportFile(f)
                      \/ UserWrites(f) \/ UserDeletes(f)

MigrationSpec == MigrationInit /\ [][MigrationNext]_migrationVars

-----------------------------------------------------------------------------
\* Whatever users write during the export and whichever copies fail, a checksum
\* of the manifest is that of the file in the archive, no file cut short has
\* one, and files_count is the number of whole files.
ManifestMatchesArchive ==
  /\ \A f \in Files : archive.sums[f] # None => archive.sums[f] = archive.data[f]
  /\ archive.count = Cardinality({f \in Stored(archive.data) : archive.data[f] # Torn})

\* An import that returned True, after any number of interrupted ones, has left
\* every file of the bundle on the target as it is in the bundle.
ImportIsComplete ==
  phase = "imported" => \A f \in Stored(archive.data) : target[f] = archive.data[f]
=============================================================================
