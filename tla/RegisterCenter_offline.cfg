\* A ping marshalled before Offline reaches the registry after it.
CONSTANTS
  m = m
  k = k
  h1 = h1
  h2 = h2
  a1 = a1
  a2 = a2
  NoInfo = NoInfo
  Main = m
  Checker = k
  Handlers <- MCHandlers1
  Callers <- MCCallers
  Addrs <- MCAddrs1
  Infos <- MCInfos
  RelySemver <- MCRelySemver
  RegInit <- MCRegInit
  DefaultWeight = 1
  MaxWeight = 1
  MaxCalls = 0
  MaxChanges = 2
  MaxFailures = 1
SPECIFICATION Spec
PROPERTIES
  OfflineIsFinal
