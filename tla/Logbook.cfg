SPECIFICATION FairSpec
CONSTANTS
  old = old
  new = new
  ops = ops
  shift = shift
  typo = typo
  anna = anna
  bert = bert
  elsewhere = elsewhere
  Calls = {c1, c2}
  People = {anna, bert}
  NoToken = NoToken
  Account = Account
  Logbooks = {ops, shift}
  MayWrite <- SomeRights
  Values = {old, new, ops, shift, typo, NoTags}
  NoTags = NoTags
  Ids = {1, 2}
  NoId = NoId
  Facilities = {here, elsewhere}
  Here = here
  NoEntry = NoEntry
  Entries <- SomeEntries
  Asks <- SomeAsks
  NoAsk = NoAsk
  NoRequest = NoRequest
  NoReply = NoReply
  MaxEdits = 1
INVARIANTS
  RepliesAreTrue
PROPERTIES
  OnlyGivenFieldsChange
  WritersMayWrite
  EveryCallEnds
CHECK_DEADLOCK FALSE
