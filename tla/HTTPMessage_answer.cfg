\* The download route's requests against backends that come and go.
CONSTANTS
  a1 = a1  a2 = a2  r1 = r1  r2 = r2
  NoConn = NoConn  NoParam = NoParam
  Addrs <- MCAddrs  Reqs <- MCReqs  Hash <- MCHash
  Queries = {}  Others = {}  MaxWeight = 1  RingSize = 4  Timeout = 1000
SPECIFICATION Spec
INVARIANT ResponseReflectsCall
PROPERTIES RequestAnswered
