\* Two callers, two addresses, weights growing and shrinking; also the
\* proof's inductive invariant.
CONSTANTS
  c1 = c1
  c2 = c2
  a1 = a1
  a2 = a2
  NoInfo = NoInfo
  Callers <- MCCallers2
  Addrs <- MCAddrs
  Infos <- MCInfos
  RelySemver <- MCRelySemver
  DefaultWeight = 2
  MaxWeight = 2
  MaxCalls = 4
SYMMETRY Symmetry
SPECIFICATION Spec
INVARIANTS
  AcceptedAddrsCovered
  IInv
