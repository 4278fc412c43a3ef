\* One more request than one user may stream.
CONSTANTS
  Users = {alice}
  Streams = {s1, s2, s3}
  MaxGlobal = 3
  MaxPerUser = 2
SPECIFICATION Spec
INVARIANT
  StreamsWithinLimits
CHECK_DEADLOCK FALSE
