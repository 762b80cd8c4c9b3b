\* Three gates: one routing, one failing and one waiting for ever.
SPECIFICATION FairSpec
CONSTANTS
  Steps <- MCSteps
  Gates = {"intake", "compliance", "signoff"}
  Decisions <- MCDecisions
  AfterStep <- MCAfterStep
  UserDecisions <- MCUserDecisions
  FailOnInvalid = {"compliance"}
  OnTimeout <- MCOnTimeout
  TimeoutRoute <- MCTimeoutRoute
  Cancellation = TRUE
  Branches = {}
  Body <- MCBody
  Kind <- MCKind
  BranchesOf <- MCBranchesOf
  Over <- MCOver
  Size <- MCSize
  Concurrency <- MCConcurrency
  Gated = {"audit"}
  Compensated = {"book", "screen", "escalate"}
  Fragile = {}
  SessionCache = {}
  CollectLimited = {}
  NativeCancel = FALSE
  MaxReviews = 2
INVARIANTS
  OneGateWaits
PROPERTIES
  AcceptedDecisionRoutes
  TerminalStatusHonest
  Termination
  CancelEndsRun
