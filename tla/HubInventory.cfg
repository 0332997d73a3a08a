CONSTANTS
  w1 = w1
  w2 = w2
  u1 = u1
  u2 = u2
  u3 = u3
  u4 = u4
  NoWorkspace = NoWorkspace
  Workspaces <- MCWorkspaces
  Configured <- MCConfigured
  Uids <- MCUids
  Wanted <- MCWanted
  BareWanted = TRUE
  Beginnings <- MCBeginnings
  PageSize = 1
  MaxPages = 3
  MaxChanges = 2
  MaxOdd = 1
SPECIFICATION ListingSpec
INVARIANTS
  MissesAtMostTheDeleted
  NothingInvented
PROPERTY CallsEnd
CHECK_DEADLOCK FALSE
