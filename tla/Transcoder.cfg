SPECIFICATION TransSpec
CONSTANTS
  i1 = i1
  i2 = i2
  j1 = j1
  j2 = j2
  j3 = j3
  j4 = j4
  Items = {i1, i2}
  Jobs = {j1, j2, j3, j4}
  JobItem <- MCJobItem
  MaxConcurrency = 1
  MaxCrashes = 2
INVARIANTS PermitsConserved DestIsComplete
PROPERTY IsFileCache
CHECK_DEADLOCK FALSE
