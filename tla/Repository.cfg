SPECIFICATION GitSpec
CONSTANTS
  q1 = q1
  d1 = d1
  s1 = s1
  s2 = s2
  m1 = m1
  pre = pre
  NoValue = NoValue
  NoText = NoText
  All = "ALL"
  Has <- SomeHas
  Readers = {c1, c2, c3}
  Questions <- SomeQuestions
  Repos = {"beamline", "chart", "gitea", "mirror"}
  DefaultRepos <- SomeDefaults
  Host <- SomeHosts
  GitLabHost = "baltig"
  HeadRef = "HEAD"
  Main = "main"
  DefaultRef = "devel"
  Contents <- SomeContents
  Unparsable = Unparsable
  Issues <- SomeIssues
  TTL = 1
  MaxFetch = 1
  MaxTime = 2
SYMMETRY CallSymmetry
INVARIANTS
  DeployedIsShown
  NeverBack
  InventoryCountsRight
PROPERTIES
  SearchKeepsTheRest
CHECK_DEADLOCK FALSE
