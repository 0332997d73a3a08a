SPECIFICATION CacheSpec
CONSTANTS
  default = default
  beamline = beamline
  Tasks = {t1, t2}
  Namespaces = {default, beamline}
  DefaultName = default
  DefaultNamespace = beamline
  NoNamespace = NoNamespace
  NoTask = NoTask
  TTL = 1
  MaxSize = 2
  MaxTime = 2
  MaxVersion = 1
INVARIANT
  RightNamespace
