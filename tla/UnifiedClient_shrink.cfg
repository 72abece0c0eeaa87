\* One caller; checks the specification's postcondition of updateAddr.
CONSTANTS
  c1 = c1
  c2 = c2
  a1 = a1
  a2 = a2
  NoInfo = NoInfo
  Callers <- MCCallers1
  Addrs <- MCAddrs1
  Infos <- MCInfos
  RelySemver <- MCRelySemver
  DefaultWeight = 2
  MaxWeight = 2
  MaxCalls = 3
SPECIFICATION Spec
INVARIANT VirtualNodesMatchLatestInfo
