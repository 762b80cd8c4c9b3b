CONSTANTS
  Main = "main"
  Input = "input"
  None = "none"
  Array = "array"
  MaxNesting = 3
  Ids <- MCIds
  Branches <- MCBranches
  Refs <- MCRefs
  Plans <- MCPlans
SPECIFICATION Spec
INVARIANTS
  PathsResolve
  RefsMatch
  ResultsTyped
