\* Two files: every interleaving of both syncs, the disk's users and a fault.
CONSTANTS
  Files = {f1, f2}
  Uploads = {}
  MaxStamp = 2
  FaultKinds = {"crash", "miss", "error", "purge"}
  MaxFaults = 1
SPECIFICATION QuietSpec
INVARIANTS
  TypeOK
  UnchangedMeansCurrent
  QuietSyncIsExact
PROPERTY
  StableFileKeepsRow
SYMMETRY FileSymmetry
CHECK_DEADLOCK FALSE
