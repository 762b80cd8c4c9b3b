\* Two runs of one workflow id while their subjects are erased.
SPECIFICATION FairSpec
CONSTANTS
  home = home
  s1 = s1
  s2 = s2
  Subjects = {s1, s2}
  WorkflowIds = {w1}
  Procs = {home, remote}
  CacheKeys = {k1}
  Callers = {c1}
  CallerProc <- MCCallerProc
  Attributions <- MCAttributions
  Requests <- MCRequests
  Limit = 1
  MaxRuns = 2
  MaxActivities = 1
  MaxUnindexed = 1
  MaxFaults = 1
INVARIANTS
  ShredReachesExactly
  CleanReceipt
  IndexExact
PROPERTIES
  NoCollateral
  Converges
CHECK_DEADLOCK FALSE
