\* Consistent-hash and specify_addr picks against the ready SubConns.
CONSTANTS
  a1 = a1  a2 = a2  a3 = a3  q1 = q1  q2 = q2  q3 = q3
  NoConn = NoConn  NoParam = NoParam
  Addrs <- MCAddrs  Others <- MCOthers  Queries <- MCQueries  Hash <- MCHash
  MaxWeight = 2  RingSize = 8
SPECIFICATION Spec
PROPERTIES PickHashNearest SpecifyAddrRoutesToAddr
