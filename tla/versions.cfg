\* An edited graph under an old label, and a new version.
SPECIFICATION Spec
CONSTANTS
  Graphs = {"old", "edited", "next"}
  Workflow <- MCWorkflow
  Label <- MCLabel
  None = None
  WorkflowIds = {a, b, c}
  Callers = {"worker", p1, p2, "parent"}
  Graph <- MCGraph
  Kind <- MCKind
  Current = "edited"
  ScanLimit = 2
  MaxCalls = 2
  MaxUnindexed = 1
  MaxRuns = 3
INVARIANTS
  LabelFrozen
PROPERTIES
  SoundDrain
  MigrationReplaces
SYMMETRY MCSymmetry
