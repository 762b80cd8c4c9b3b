\* Both kinds of cancellation, paths that do not resolve, and a gate that
\* cancels on its timeout.
SPECIFICATION Spec
CONSTANTS
  ScoreItems = 2
  TriageItems = 2
  Steps <- MCSteps
  Gates = {"signoff"}
  Decisions <- MCDecisions
  AfterStep <- MCAfterStep
  UserDecisions <- MCUserDecisions
  FailOnInvalid = {}
  OnTimeout <- MCOnTimeout
  TimeoutRoute <- MCTimeoutRoute
  Cancellation = TRUE
  Branches <- MCBranches
  Body <- MCBody
  Kind <- MCKind
  BranchesOf <- MCBranchesOf
  Over <- MCOver
  Size <- MCSize
  Concurrency <- MCConcurrency
  Gated = {"left", "inner", "settle", "notify"}
  Compensated = {"reserve", "score", "enrich", "charge"}
  Fragile = {"reserve", "triage"}
  SessionCache = {"score"}
  CollectLimited = {"score", "triage", "inner"}
  NativeCancel = TRUE
  MaxReviews = 1
INVARIANTS
  CompensatesSoundly
  AtomicsCompensated
PROPERTIES
  NoWorkDuringUnwind
