CONSTANTS
  p1 = p1
  p2 = p2
  m1 = m1
  m2 = m2
  parent = parent
  child = child
  cloud = cloud
  onprem = onprem
  eu = eu
  us = us
  None = None
  Unset = Unset
  Providers = {p1, p2}
  Models = {m1, m2}
  Lists = {hosts}
  Values <- MCValues
  Addresses = {cloud, onprem}
  Regions = {eu, us}
  Scalars = {invalid_user_decision}
  Controls = {"moderation", "review"}
  Allowances = {overrides}
  Ceilings = {max_steps}
  Top = 4
  Categories = {toxic}
  Workflows = {parent, child}
  Steps <- MCSteps
  Checkouts = {"good", "model", "loose", "moved"}
  Project <- MCProject
  Ids <- MCIds
  Layer <- TieredLayer
  Selections <- MCSelections
  Bound <- MCBound
  Applied <- MCApplied
  Valid = {"good", "model", "loose", "moved"}
  Root = parent
  Images = {pinned, tag}
  Pinned = {pinned}
  Start = "good"
  RequireMerged = TRUE
  MaxPlans = 1
SPECIFICATION Spec
INVARIANTS
  EveryLayerHolds
