SPECIFICATION FairDedupSpec
CONSTANTS
  Callers = {c1, c2, c3}
  Keys = {k1, k2}
  Runs = {r1, r2, r3}
INVARIANT EntryIsLiveRun
PROPERTIES IsSingleFlight CallersAnswered
CHECK_DEADLOCK FALSE
