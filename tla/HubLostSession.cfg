SPECIFICATION Spec
CONSTANTS
  Calls = {c1, c2, c3}
  MaxSessions = 2
  Echoes = TRUE
  NoSession = NoSession
  NoCall = NoCall
SYMMETRY Symmetry
INVARIANT
  SettledClientHasSession
CHECK_DEADLOCK FALSE
