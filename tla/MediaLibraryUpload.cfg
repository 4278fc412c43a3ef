\* The answer of an upload, with nothing failing and nobody else on the disk.
CONSTANTS
  Files = {f1}
  Uploads = {u1}
  MaxStamp = 2
  FaultKinds = {}
  MaxFaults = 0
SPECIFICATION Spec
INVARIANT
  UploadAnsweredWithItem
CHECK_DEADLOCK FALSE
