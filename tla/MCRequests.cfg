\* Four streams of two users: enough to meet either limit first; two clients over
\* two full windows; a file of four bytes read in chunks of two; tokens that live
\* one second of three ticks, over four ticks, with a restart that may bring
\* another secret.
SPECIFICATION Spec
CONSTANTS
  Users = {alice, bob}
  Streams = {s1, s2, s3, s4}
  MaxGlobal = 3
  MaxPerUser = 2
  Clients = {c1, c2}
  MaxRequests = 2
  Window = 2
  MaxTime = 3
  MaxSize = 4
  Chunk = 2
  Items = {a, b}
  Secrets = {k1, k2}
  Second = 3
  Ttl = 1
  MaxTick = 4
  MaxTokens = 2
INVARIANTS
  SlotsConserved
  LimitsHold
  NoWindowOverfull
  RefusedOnlyWhenFull
  AccessIsOwed
  LiveTokenWorks
  RangeIsWhatWasAsked
  BodyKeepsItsLength
PROPERTIES
  RefusalIsFinal
CHECK_DEADLOCK FALSE
