SPECIFICATION FairSpec
CONSTANTS
  quad = quad
  current = current
  status = status
  setpoint = setpoint
  ops = ops
  vac = vac
  ioc1 = ioc1
  ioc2 = ioc2
  pod1 = pod1
  app1 = app1
  Calls = {c1, c2}
  Name = quad
  NoValue = NoValue
  Registrations <- SomeRegistrations
  Sections = {"live_pvs", "pod_logs", "documentation"}
  Settings <- SomeSettings
  NoCall = NoCall
  TTL = 1
  MaxTime = 1
  MaxChanges = 1
PROPERTIES
  DeviceIsRegistered
  DevicesExpire
  SectionsAreIndependent
  EveryCallEnds
