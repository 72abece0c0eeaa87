\* One caller, one weight per address: updateAddr calls one after the
\* other agree with the view, push the resolver's list, and refine an
\* atomic update of the view and the routed addresses.
CONSTANTS
  c1 = c1
  c2 = c2
  a1 = a1
  a2 = a2
  NoInfo = NoInfo
  Callers <- MCCallers1
  Addrs <- MCAddrs
  Infos <- MCInfosOneWeight
  RelySemver <- MCRelySemver
  DefaultWeight = 2
  MaxWeight = 2
  MaxCalls = 4
SPECIFICATION Spec
INVARIANTS
  ResolverAgreesWithView
  PushedMatchesNodes
  RInv
PROPERTY AbsSpec
