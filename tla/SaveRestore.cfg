SPECIFICATION Spec
CONSTANTS
  morning = morning
  Morning = Morning
  path = path
  quads = quads
  Calls = {c1, c2}
  PVs = {p1, p2}
  ReadOnly = {p2}
  Compares = {p1, p2}
  Values = {v1}
  NoValue = NoValue
  Configs = {quads, dipoles}
  Paths = {path}
  NoConfig = NoConfig
  Names = {morning, Morning}
  Lower <- MCLower
  WallClock <- MCWallClock
  Restores <- SomeRestores
  Takes <- SomeTakes
  MaxNodes = 2
  MaxEdits = 1
SYMMETRY Symmetry
INVARIANTS
  RestoresShownOrNew
  QuietRestoreIsShown
  TakenIsStored

  
