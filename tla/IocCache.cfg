SPECIFICATION FairSpec
CONSTANTS
  default = default
  beamline = beamline
  Tasks = {t1, t2}
  Namespaces = {default, beamline}
  DefaultName = default
  DefaultNamespace = default
  NoNamespace = NoNamespace
  NoTask = NoTask
  TTL = 1
  MaxSize = 1
  MaxTime = 2
  MaxVersion = 1
INVARIANTS
  StaleOnlyByOverlap
PROPERTIES
  NoNeedlessFetch
  OnlyHungRequestsHold
