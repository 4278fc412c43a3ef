\* One file, more writes, an upload, and every fault but the purge; no symmetry
\* under liveness.
CONSTANTS
  Files = {f1}
  Uploads = {u1}
  MaxStamp = 3
  FaultKinds = {"crash", "miss", "error"}
  MaxFaults = 1
SPECIFICATION QuietFairSpec
INVARIANT
  UnchangedMeansCurrent
PROPERTIES
  StableFileKeepsRow
  QuietUploadAnswered
  Converges
CHECK_DEADLOCK FALSE
