\* The limiter of one policy key.
SPECIFICATION FairSpec
CONSTANTS
  Calls = {c1, c2, c3, c4}
  MaxConcurrent = 2
  MinInterval = 2
  Late = 1
  LastCall = 1
INVARIANTS
  PermitsConserved
  NoIdlePermit
  SpacedStarts
PROPERTIES
  FirstComeFirstServed
  EveryCallSettles
CHECK_DEADLOCK FALSE
