------------------------------- MODULE Picker -------------------------------
(***************************************************************************)
(* The picker of ServiceBalancer.go and the consistent-hash ring it uses.  *)
(*                                                                         *)
(* gRPC hands tdPickerBuilder.Build the set of READY SubConns whenever     *)
(* that set changes and swaps the new picker in atomically; Pick runs      *)
(* under the picker's mutex on that immutable snapshot.  Every virtual     *)
(* node key <<a, i>> is its own resolver address, so it has its own        *)
(* SubConn; a SubConn is identified here by its key, and NoConn is the nil *)
(* SubConn.                                                                *)
(*                                                                         *)
(* The ring (package GateWayCommon/ConsistentHash) is not part of this     *)
(* repository: Ring and GetN are modelled from its specification.          *)
(***************************************************************************)
EXTENDS Integers, Sequences, FiniteSets

CONSTANTS
  Addrs,      \* the backend addresses
  MaxWeight,  \* the largest number of virtual nodes of one address
  RingSize,   \* the size of the ring's hash space
  Queries,    \* the hash_key values requests carry
  Hash,       \* the ring's hash of keys and of hash_key values
  Others,     \* addresses a specify_addr request may name that no backend has
  NoConn,     \* the nil SubConn
  NoParam     \* a request without pick_param

Keys == {<<a, i>> : a \in Addrs, i \in 0 .. MaxWeight - 1}

ASSUME PickerAssumption ==
  /\ MaxWeight \in Nat \ {0} /\ RingSize \in Nat \ {0}
  /\ Hash \in [Keys \cup Queries -> 0 .. RingSize - 1]
  /\ \A k1, k2 \in Keys : Hash[k1] = Hash[k2] => k1 = k2
  /\ Addrs \cap Others = {}
  /\ NoConn \notin Keys /\ NoParam \notin Queries \cup Addrs \cup Others

\* The pick_type values of Options.go; "none" is a request without one.
PickTypes == {"consistent_hash", "rand_weight", "specify_addr", "none"}

\* The errors Pick may return; "ok" is a nil error.
Errors == {"ok", "ErrNoSubConnAvailable", "ErrNotFoundPickType",
           "ErrNotFoundPickParam", "ErrNotFoundConn"}

VARIABLES
  ready,   \* the keys whose SubConn gRPC reports READY
  picker,  \* the picker gRPC currently uses
  last     \* the last pick: its request and its result

vars == <<ready, picker, last>>

\* The base error picker returned when no SubConn is ready.
ErrPicker == [err |-> "ErrNoSubConnAvailable"]

\* A consistent_hash request's hash_key is one of Queries (the ring hashes
\* any string; Hash is given on the ones the model uses).
Requests ==
  {r \in [type: PickTypes, param: Queries \cup Addrs \cup Others \cup {NoParam}] :
     r.type = "consistent_hash" => r.param \in Queries \cup {NoParam}}

TypeOK ==
  /\ ready \subseteq Keys
  /\ picker = ErrPicker \/ picker.ring \subseteq Keys
  /\ last \in [req: Requests, sc: Keys \cup {NoConn}, err: Errors]

(***************************************************************************)
(* The consistent-hash ring, from its specification: the keys sorted by    *)
(* their hash; GetN returns the first n keys found scanning forward from   *)
(* the hash of the query, wrapping around.                                 *)
(***************************************************************************)
Sorted(ring) ==
  CHOOSE s \in [1 .. Cardinality(ring) -> ring] :
    \A i, j \in 1 .. Cardinality(ring) : i < j => Hash[s[i]] < Hash[s[j]]

\* Mutant: the search skips a key sitting exactly at position h.
SearchStrict(s, h) ==
  LET after == {i \in 1 .. Len(s) : Hash[s[i]] > h}
  IN IF after = {} THEN 1
     ELSE CHOOSE i \in after : \A j \in after : i <= j

\* The index of the first key at or after position h (the binary search of
\* the ring), or 1 when the scan wraps around.
Search(s, h) ==
  LET after == {i \in 1 .. Len(s) : Hash[s[i]] >= h}
  IN IF after = {} THEN 1
     ELSE CHOOSE i \in after : \A j \in after : i <= j

GetN(ring, q, n) ==
  LET s == Sorted(ring)
      i == Search(s, Hash[q])
      m == IF n < Len(s) THEN n ELSE Len(s)
  IN [j \in 1 .. m |-> s[((i - 1 + j - 1) % Len(s)) + 1]]

(***************************************************************************)
(* tdPickerBuilder.Build: an error picker when nothing is ready; else one  *)
(* map entry and one ring key per ready SubConn.  addr2conn keeps, for an  *)
(* address with several virtual nodes, the SubConn the map range visits    *)
(* last, and Go's map order is unspecified: any of them.                   *)
(***************************************************************************)
\* Mutant: addr2conn filled without matching the SubConn's address.
BuildAnyAddr(rs) ==
  IF rs = {} THEN {ErrPicker}
  ELSE LET as == {k[1] : k \in rs}
       IN {[k2conn |-> rs, addr2conn |-> f, ring |-> rs] : f \in [as -> rs]}

Build(rs) ==
  IF rs = {} THEN {ErrPicker}
  ELSE LET as == {k[1] : k \in rs}
       IN {[k2conn |-> rs, addr2conn |-> f, ring |-> rs] :
             f \in {g \in [as -> rs] : \A a \in as : g[a][1] = a}}

\* k2conn[key]: the key's own SubConn, or nil for a key Build did not store.
Conn(p, k) == IF k \in p.k2conn THEN k ELSE NoConn

(***************************************************************************)
(* tdPicker.Pick and the three strategies it dispatches to.  The filter    *)
(* (filterNode) accepts every node, so PickConsistentHash returns the      *)
(* first of the GetN(hash_key, 3) keys and PickRandWeight any SubConn.     *)
(* The set of possible [sc, err] results.                                  *)
(***************************************************************************)
PickConsistentHash(p, r) ==
  IF r.param = NoParam THEN {[sc |-> NoConn, err |-> "ErrNotFoundPickParam"]}
  ELSE LET keys == GetN(p.ring, r.param, 3)
       IN IF keys = <<>> THEN {[sc |-> NoConn, err |-> "ErrNotFoundConn"]}
          ELSE {[sc |-> Conn(p, keys[1]), err |-> "ok"]}

PickRandWeight(p, r) ==
  IF p.k2conn = {} THEN {[sc |-> NoConn, err |-> "ErrNotFoundConn"]}
  ELSE {[sc |-> Conn(p, k), err |-> "ok"] : k \in p.k2conn}

PickSpecifyAddr(p, r) ==
  IF r.param = NoParam THEN {[sc |-> NoConn, err |-> "ErrNotFoundPickParam"]}
  ELSE IF r.param \in DOMAIN p.addr2conn
       THEN {[sc |-> p.addr2conn[r.param], err |-> "ok"]}
       ELSE {[sc |-> NoConn, err |-> "ok"]}

Pick(p, r) ==
  IF p = ErrPicker THEN {[sc |-> NoConn, err |-> p.err]}
  ELSE IF p.k2conn = {} THEN {[sc |-> NoConn, err |-> "ErrNotFoundConn"]}
  ELSE CASE r.type = "consistent_hash" -> PickConsistentHash(p, r)
         [] r.type = "rand_weight" -> PickRandWeight(p, r)
         [] r.type = "specify_addr" -> PickSpecifyAddr(p, r)
         [] OTHER -> {[sc |-> NoConn, err |-> "ErrNotFoundPickType"]}

Init ==
  /\ ready = {}
  /\ picker = ErrPicker
  /\ last = [req |-> [type |-> "none", param |-> NoParam], sc |-> NoConn,
             err |-> "ErrNoSubConnAvailable"]

\* A SubConn becomes READY (ConnUp) or leaves READY (ConnDown); the base
\* balancer regenerates the picker from the new ready set.
ConnUp(k) ==
  /\ k \notin ready
  /\ ready' = ready \cup {k}
  /\ picker' \in Build(ready')
  /\ UNCHANGED last

ConnDown(k) ==
  /\ k \in ready
  /\ ready' = ready \ {k}
  /\ picker' \in Build(ready')
  /\ UNCHANGED last

\* One RPC picks with the current picker; its filter carries type and param.
PickReq(r) ==
  /\ \E res \in Pick(picker, r) : last' = [req |-> r, sc |-> res.sc, err |-> res.err]
  /\ UNCHANGED <<ready, picker>>

Next ==
  \/ \E k \in Keys : ConnUp(k) \/ ConnDown(k)
  \/ \E r \in Requests : PickReq(r)

Spec == Init /\ [][Next]_vars

(***************************************************************************)
(* Properties                                                              *)
(***************************************************************************)
\* The clockwise distance on the ring from position h to key k.
Dist(h, k) == (Hash[k] - h) % RingSize

\* The reference: the ready key met first scanning the ring from hash(q).
Nearest(rs, q) == CHOOSE k \in rs : \A j \in rs : Dist(Hash[q], k) <= Dist(Hash[q], j)

\* A successful consistent_hash pick routes to the SubConn of the READY
\* virtual node first at or after hash(hash_key) on the ring: Build puts
\* exactly the ready keys on the ring and in k2conn, GetN finds the scan's
\* start and wraps, and PickConsistentHash takes the first key it returns.
PickHashNearest ==
  [][ /\ last' # last /\ last'.req.type = "consistent_hash" /\ last'.err = "ok"
      => last'.sc = Nearest(ready, last'.req.param) ]_last

\* A successful specify_addr pick naming an address that has a READY SubConn
\* returns a SubConn of that address (addr2conn is keyed by vn.Rn.Addr).
SpecifyAddrRoutesToAddr ==
  [][ /\ last' # last /\ last'.req.type = "specify_addr" /\ last'.err = "ok"
      /\ \E k \in ready : k[1] = last'.req.param
      => last'.sc \in ready /\ last'.sc[1] = last'.req.param ]_last

\* A pick that returns no error returns a READY SubConn: gRPC's picker
\* contract, which treats a nil SubConn with a nil error as a broken pick.
PickedConnIsReady ==
  [][ last' # last /\ last'.err = "ok" => last'.sc \in ready ]_last
=============================================================================
