SPECIFICATION Spec
CONSTANTS
  alice = alice
  bob = bob
  aliceToken = aliceToken
  setPv = setPv
  restore = restore
  noSuchTool = noSuchTool
  Placeholder = Placeholder
  NoToken = NoToken
  NoUser = NoUser
  NoId = NoId
  People = {alice, bob}
  Tokens = {aliceToken}
  TokenOwner <- MCTokenOwner
  Senders <- MCSenders
  Calls = {setPv, restore, noSuchTool}
  WriteCalls = {setPv, restore}
  AlwaysConfirm = {restore}
  UnknownCalls = {noSuchTool}
  Ids = {i1, i2}
  Tasks = {t1, t2}
  TTL = 2
  MaxTime = 2
  MaxLife = 1
SYMMETRY Symmetry
INVARIANTS
  Authorised
  OnceOnly
  GatedHandlersAreConfirmed
  SamePerson
PROPERTIES
  TriedIsSpent
  ConfirmedCallRuns
  ImplementsPermits
