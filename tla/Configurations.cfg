SPECIFICATION Spec
CONSTANTS
  mag = mag
  Mag = Mag
  gauge = gauge
  p1 = p1
  p2 = p2
  r1 = r1
  w1 = w1
  w2 = w2
  Calls = {c1, c2}
  Names = {mag, Mag, gauge}
  Lower <- MCLower
  PVs = {p1, p2, r1}
  NoPv = NoPv
  Quantities <- MCQuantities
  Explicit = Explicit
  Workspaces = {w1, w2}
  Source = "knowledge_hub"
  Inventories <- MCInventories
  Ids = {1, 2, 3, 4, 5, 6}
  Root = 1
  NoNode = NoNode
  Trees <- MCTrees
  Asks <- MCAsks
  MaxChanges = 1
SYMMETRY Symmetry
INVARIANTS
  TypeOK
  PlanIsExact
  QuietCreateIsShown
  PathsAreFollowed
CHECK_DEADLOCK FALSE
