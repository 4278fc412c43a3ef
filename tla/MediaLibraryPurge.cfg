\* cleanup --purge-thumbnails once, while the service runs; nothing else fails.
CONSTANTS
  Files = {f1}
  Uploads = {}
  MaxStamp = 2
  FaultKinds = {"purge"}
  MaxFaults = 1
SPECIFICATION FairSpec
PROPERTY
  Converges
CHECK_DEADLOCK FALSE
