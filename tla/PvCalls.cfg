SPECIFICATION Spec
CONSTANTS
  Calls = {c1, c2, c3}
  Asks <- SomeAsks
  Overrides <- NoOverrides
  Machine = Machine
  MaxLog = 1
SYMMETRY CallSymmetry
INVARIANTS
  AcceptedIsDone
  TwiceOnlyByFallback
  OrderIsKept
CHECK_DEADLOCK FALSE
