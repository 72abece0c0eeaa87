\* Two callers racing on one address with a fixed weight; what gRPC is left holding.
CONSTANTS
  c1 = c1
  c2 = c2
  a1 = a1
  a2 = a2
  NoInfo = NoInfo
  Callers <- MCCallers2
  Addrs <- MCAddrs1
  Infos <- MCInfosFixedWeight
  RelySemver <- MCRelySemver
  DefaultWeight = 2
  MaxWeight = 2
  MaxCalls = 2
SPECIFICATION Spec
INVARIANT
  PushedMatchesNodes
