\* A native cancel starts the unwind while map items are in flight.
SPECIFICATION Spec
CONSTANTS
  ScoreItems = 3
  TriageItems = 2
  Steps <- MCSteps
  Gates = {}
  Decisions <- MCDecisions
  AfterStep <- MCAfterStep
  UserDecisions <- MCUserDecisions
  FailOnInvalid = {}
  OnTimeout <- MCOnTimeout
  TimeoutRoute <- MCTimeoutRoute
  Cancellation = TRUE
  Branches <- MCBranches
  Body <- MCBody
  Kind <- MCKind
  BranchesOf <- MCBranchesOf
  Over <- MCOver
  Size <- MCSize
  Concurrency <- MCConcurrency
  Gated = {"left", "inner", "settle", "notify"}
  Compensated = {"reserve", "score", "enrich", "charge"}
  Fragile = {}
  SessionCache = {"score"}
  CollectLimited = {"score", "triage", "inner"}
  NativeCancel = TRUE
  MaxReviews = 0
INVARIANTS
  NothingInFlightOnUnwind
