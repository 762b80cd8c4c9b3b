\* Two versions of an activity share a cache while the trace writer drains.
SPECIFICATION FairSpec
CONSTANTS
  old = old
  new = new
  Activities = {old, new}
  Outputs <- MCOutputs
  SchemaHash <- MCSchemaHash
  Parses <- MCParses
  Checked <- MCChecked
  Finalized <- MCFinalized
  Session <- MCSession
  ValidationRetries <- MCValidationRetries
  TransientRetries = 1
  Retried = {"rate_limit"}
  Slots = 1
  MaxAttempts <- MCMaxAttempts
  Cancellable = {new}
  MaxOutages = 1
INVARIANTS
  ReturnedAccepted
  CachedAccepted
  TracesConserved
  DrainCovers
PROPERTIES
  NoWorkAfterCancel
  EveryActivitySettles
CHECK_DEADLOCK FALSE
