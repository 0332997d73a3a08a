SPECIFICATION FairSpec
CONSTANTS
  Calls = {c1, c2, c3}
  MaxSessions = 2
  Echoes = TRUE
  NoSession = NoSession
  NoCall = NoCall
INVARIANTS
  OneHandshake
  HandshakeFirst
  RunOnce
PROPERTIES
  EveryCallEnds
CHECK_DEADLOCK FALSE
