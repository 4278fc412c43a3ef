SPECIFICATION Spec
CONSTANTS
  Services = {"postgres", "nextcloud", "media"}
  Sessions = {cron, admin}
  Cron = cron
  MaxKeys = 2
  Loss = TRUE
  Window = 1
  Keep = 2
  Limit = 2
  MaxClock = 6
  MaxVersion = 2
  MaxContents = 2
  MaxSnapshots = 1
  MaxEdits = 2
  HandEdits <- MCHandEdits
  Files = {f, g}
  MaxFaults = 1
  Expected = {nextcloud, postgres}
  MaxProblems = 3
INVARIANTS
  CleanCommandRepairs
  ExitStatusHonest
  CredentialsStayValid
  RestorableUnlessLost
  AlertsFollowPeaks
  BackupIsCurrent
  SavedConfigLoads
  ImportKeepsOld
  MigrateKeepsSettings
  SwitchTakesEffect
  ManifestMatchesArchive
  ImportIsComplete
  ReadyMeansClean
  TopVerdictIsFullScore
PROPERTIES
  StopOrder
  WorseIsNeverBetter
CHECK_DEADLOCK FALSE
