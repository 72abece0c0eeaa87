---------------------------- MODULE UnifiedClient ----------------------------
(***************************************************************************)
(* One dependency's UnifiedClient together with its serviceResolver        *)
(* (src/Common/RegisterCenter/UnifiedClient.go, ServiceResolver.go).       *)
(*                                                                         *)
(* updateAddr is called concurrently by the goroutines that deliver        *)
(* ServiceInfo updates: the gRPC handlers of Notify, the Check cron job    *)
(* and Online.  It writes si_map/rn_map under the client's rwlock, RELEASES *)
(* it, and then drives the resolver through sync.Map operations that are  *)
(* each atomic on their own: setAddr, a loop of addNodes (Load then Store), *)
(* or delAddr (Load, a loop of Delete, Delete of the address), and finally *)
(* update(), which ranges over the nodes and hands the list to the gRPC    *)
(* ClientConn.  Every one of those operations is a step of its own, so the *)
(* model explores every interleaving of callers between them.              *)
(*                                                                         *)
(* A virtual-node key "addr:idx" is the pair <<addr, idx>>: addresses end  *)
(* with a port, idx has no ':', so the string is an injective encoding.    *)
(* rn_map is written in the same critical section as si_map and with a     *)
(* projection of the same ServiceInfo, and is never read: si_map stands    *)
(* for both.                                                               *)
(***************************************************************************)
EXTENDS Integers, FiniteSets, VersionGate

CONSTANTS
  Callers,        \* goroutines that may call updateAddr
  Addrs,          \* peer addresses ip:port of this dependency
  Infos,          \* ServiceInfo values the registry may deliver
  RelySemver,     \* the dependency's minimum version, as configured
  DefaultWeight,  \* weight used when ServiceWeight <= 0 (32 in the code)
  MaxWeight,      \* largest weight any ServiceInfo yields
  MaxCalls,       \* bound on the number of updateAddr calls
  NoInfo          \* si_map has no entry / a caller holds no argument

Statuses == {"Online", "Offline"}

InfoAssumption ==
  /\ Infos \subseteq [addr : Addrs, status : Statuses,
                      semver : Version(Nat), weight : Int]
  /\ NoInfo \notin Infos
ASSUME InfoAssumption

WeightAssumption ==
  /\ MaxWeight \in Nat \ {0}
  /\ DefaultWeight \in 1..MaxWeight
  /\ \A si \in Infos : si.weight <= MaxWeight
ASSUME WeightAssumption

BoundAssumption == MaxCalls \in Nat
ASSUME BoundAssumption

\* unifiedClient.Init returns an error and the process does not start when
\* the configured version is empty or invalid.
RelyAssumption == RelySemver \in Version(Nat) /\ ValidRely(RelySemver)
ASSUME RelyAssumption

\* client.relySemver holds the normalised configured version.
relySemver == Normalize(RelySemver)

\* A virtual-node key addr:idx.
Keys == Addrs \X (0..MaxWeight - 1)

\* The keys addr:0 .. addr:count-1.
KeysOf(a, count) == {<<a, i>> : i \in 0..count - 1}

PCs == {"idle", "set", "add_load", "add_store",
        "del_load", "del_node", "del_addr", "snap", "push"}

VARIABLES
  si_map,   \* addr -> ServiceInfo last written by updateAddr (and rn_map)
  addrs,    \* serviceResolver.addrs: addr -> virtual-node count, 0 = absent
  nodes,    \* serviceResolver.nodes: the keys present
  pushed,   \* the address list last given to cc.UpdateState
  pc,       \* where each caller is inside updateAddr
  cur,      \* the caller's serviceInfo argument
  idx,      \* the caller's loop index (addNodes loop or delAddr loop)
  cnt,      \* the count delAddr loaded
  snap,     \* the list getAddress built, not yet pushed
  calls     \* updateAddr calls started so far

vars == <<si_map, addrs, nodes, pushed, pc, cur, idx, cnt, snap, calls>>

TypeOK ==
  /\ si_map \in [Addrs -> Infos \cup {NoInfo}]
  /\ addrs \in [Addrs -> 0..MaxWeight]
  /\ nodes \subseteq Keys
  /\ pushed \subseteq Keys
  /\ pc \in [Callers -> PCs]
  /\ cur \in [Callers -> Infos \cup {NoInfo}]
  /\ idx \in [Callers -> 0..MaxWeight]
  /\ cnt \in [Callers -> 0..MaxWeight]
  /\ snap \in [Callers -> SUBSET Keys]
  /\ calls \in 0..MaxCalls

\* weight := ServiceWeight; if weight <= 0 { weight = 32 }
Weight(si) == IF si.weight <= 0 THEN DefaultWeight ELSE si.weight

\* The branch of updateAddr that keeps the address.
Admit(si) == si.status = "Online" /\ checkVersion(si.semver, relySemver)

Init ==
  /\ si_map = [a \in Addrs |-> NoInfo]
  /\ addrs = [a \in Addrs |-> 0]
  /\ nodes = {}
  /\ pushed = {}
  /\ pc = [t \in Callers |-> "idle"]
  /\ cur = [t \in Callers |-> NoInfo]
  /\ idx = [t \in Callers |-> 0]
  /\ cnt = [t \in Callers |-> 0]
  /\ snap = [t \in Callers |-> {}]
  /\ calls = 0

Goto(t, from, to) == pc[t] = from /\ pc' = [pc EXCEPT ![t] = to]

(***************************************************************************)
(* updateAddr up to the resolver: build rn, write rn_map and si_map under  *)
(* the lock, compute the weight and take the branch.  The resolver is     *)
(* assumed built (gRPC calls Build during Dial, before any update), so    *)
(* the nil-resolver early return is not taken.                            *)
(***************************************************************************)
UpdateAddrStart(t, si) ==
  /\ Goto(t, "idle", IF Admit(si) THEN "set" ELSE "del_load")
  /\ si_map' = [si_map EXCEPT ![si.addr] = si]
  /\ cur' = [cur EXCEPT ![t] = si]
  /\ UNCHANGED <<addrs, nodes, pushed, idx, cnt, snap>>

\* A call of updateAddr with an argument from Infos, within the bound.
UpdateAddrBegin(t, si) ==
  /\ calls < MaxCalls
  /\ UpdateAddrStart(t, si)
  /\ calls' = calls + 1

\* Bug variant of SetAddr: the addNodes loop starts at 1.
SetAddrFromOne(t) ==
  /\ Goto(t, "set", "add_load")
  /\ addrs' = [addrs EXCEPT ![cur[t].addr] = Weight(cur[t])]
  /\ idx' = [idx EXCEPT ![t] = 1]
  /\ UNCHANGED <<si_map, nodes, pushed, cur, cnt, snap, calls>>

\* serviceResolver.setAddr(addr, weight); the addNodes loop starts at 0.
SetAddr(t) ==
  /\ Goto(t, "set", "add_load")
  /\ addrs' = [addrs EXCEPT ![cur[t].addr] = Weight(cur[t])]
  /\ idx' = [idx EXCEPT ![t] = 0]
  /\ UNCHANGED <<si_map, nodes, pushed, cur, cnt, snap, calls>>

\* Next iteration of the addNodes loop, or on to update().
NextAdd(t) ==
  /\ idx' = [idx EXCEPT ![t] = @ + 1]
  /\ pc' = [pc EXCEPT ![t] = IF idx[t] + 1 < Weight(cur[t])
                                THEN "add_load" ELSE "snap"]

\* addNodes: Load(addr) finds the address and idx < count.
AddNodesLoad(t) ==
  LET a == cur[t].addr IN
  /\ Goto(t, "add_load", "add_store")
  /\ addrs[a] # 0
  /\ idx[t] < addrs[a]
  /\ UNCHANGED <<si_map, addrs, nodes, pushed, cur, idx, cnt, snap, calls>>

\* addNodes returns early: the address is gone or idx >= its count.
AddNodesSkip(t) ==
  LET a == cur[t].addr IN
  /\ pc[t] = "add_load"
  /\ addrs[a] = 0 \/ idx[t] >= addrs[a]
  /\ NextAdd(t)
  /\ UNCHANGED <<si_map, addrs, nodes, pushed, cur, cnt, snap, calls>>

\* addNodes: nodes.Store(addr:idx, ...), whatever happened since the Load.
AddNodesStore(t) ==
  /\ pc[t] = "add_store"
  /\ nodes' = nodes \cup {<<cur[t].addr, idx[t]>>}
  /\ NextAdd(t)
  /\ UNCHANGED <<si_map, addrs, pushed, cur, cnt, snap, calls>>

\* delAddr: Load(addr) finds the count.
DelAddrLoad(t) ==
  LET a == cur[t].addr IN
  /\ Goto(t, "del_load", "del_node")
  /\ addrs[a] # 0
  /\ cnt' = [cnt EXCEPT ![t] = addrs[a]]
  /\ idx' = [idx EXCEPT ![t] = 0]
  /\ UNCHANGED <<si_map, addrs, nodes, pushed, cur, snap, calls>>

\* delAddr returns early: the address is unknown.
DelAddrMissing(t) ==
  /\ Goto(t, "del_load", "snap")
  /\ addrs[cur[t].addr] = 0
  /\ UNCHANGED <<si_map, addrs, nodes, pushed, cur, idx, cnt, snap, calls>>

\* delAddr: nodes.Delete(addr:idx) for idx < the count it loaded.
DelAddrNode(t) ==
  /\ Goto(t, "del_node", IF idx[t] + 1 < cnt[t] THEN "del_node" ELSE "del_addr")
  /\ nodes' = nodes \ {<<cur[t].addr, idx[t]>>}
  /\ idx' = [idx EXCEPT ![t] = @ + 1]
  /\ UNCHANGED <<si_map, addrs, pushed, cur, cnt, snap, calls>>

\* Bug variant of DelAddrEntry: updateAddr returns after delAddr without
\* calling update().
DelAddrEntryNoUpdate(t) ==
  /\ Goto(t, "del_addr", "idle")
  /\ addrs' = [addrs EXCEPT ![cur[t].addr] = 0]
  /\ cur' = [cur EXCEPT ![t] = NoInfo]
  /\ UNCHANGED <<si_map, nodes, pushed, idx, cnt, snap, calls>>

\* delAddr: addrs.Delete(addr).
DelAddrEntry(t) ==
  /\ Goto(t, "del_addr", "snap")
  /\ addrs' = [addrs EXCEPT ![cur[t].addr] = 0]
  /\ UNCHANGED <<si_map, nodes, pushed, cur, idx, cnt, snap, calls>>

\* update(): getAddress ranges over the nodes.
UpdateSnapshot(t) ==
  /\ Goto(t, "snap", "push")
  /\ snap' = [snap EXCEPT ![t] = nodes]
  /\ UNCHANGED <<si_map, addrs, nodes, pushed, cur, idx, cnt, calls>>

\* update(): cc.UpdateState with that list; updateAddr returns.
UpdateState(t) ==
  /\ Goto(t, "push", "idle")
  /\ pushed' = snap[t]
  /\ cur' = [cur EXCEPT ![t] = NoInfo]
  /\ snap' = [snap EXCEPT ![t] = {}]
  /\ UNCHANGED <<si_map, addrs, nodes, idx, cnt, calls>>

Quiescent == \A t \in Callers : pc[t] = "idle"

\* The bound on calls is reached and every call has returned.
Terminated == Quiescent /\ calls = MaxCalls /\ UNCHANGED vars

\* The steps of a caller already inside updateAddr.
Work(t) ==
  \/ SetAddr(t) \/ AddNodesLoad(t) \/ AddNodesSkip(t) \/ AddNodesStore(t)
  \/ DelAddrLoad(t) \/ DelAddrMissing(t) \/ DelAddrNode(t) \/ DelAddrEntry(t)
  \/ UpdateSnapshot(t) \/ UpdateState(t)

Step(t) == (\E si \in Infos : UpdateAddrBegin(t, si)) \/ Work(t)

Next == (\E t \in Callers : Step(t)) \/ Terminated

\* Goroutines are scheduled fairly: a caller inside updateAddr returns.
Fairness == \A t \in Callers : WF_vars(Step(t) /\ pc[t] # "idle")

Spec == Init /\ [][Next]_vars /\ Fairness

(***************************************************************************)
(* Properties.  They are stated on quiescent states, where no updateAddr   *)
(* call is in progress: in between, the resolver is legitimately half      *)
(* updated.                                                                *)
(***************************************************************************)

\* The decision the specification asks for: keep an address iff its latest
\* ServiceInfo is Online and passes the version gate.
Admitted(a) ==
  /\ si_map[a] # NoInfo
  /\ si_map[a].status = "Online"
  /\ AcceptNode(si_map[a].semver, RelySemver)

\* The virtual nodes of address a present in the resolver.
NodesOf(a) == {k \in nodes : k[1] = a}

\* Every address the resolver keeps has ALL of its count's virtual nodes,
\* whichever callers of updateAddr interleaved (setAddr, the addNodes loop
\* and delAddr of other callers racing on the same address).
AcceptedAddrsCovered ==
  Quiescent => \A a \in Addrs : KeysOf(a, addrs[a]) \subseteq nodes

\* The resolver's address records agree with the ServiceInfo the client
\* keeps for Check: an address is kept, with its weight, iff its latest
\* ServiceInfo is admitted (updateAddr's lock covers si_map only).
ResolverAgreesWithView ==
  Quiescent =>
    \A a \in Addrs :
      addrs[a] = IF Admitted(a) THEN Weight(si_map[a]) ELSE 0

\* Once every updateAddr has returned, gRPC holds the resolver's current
\* node list (each call ends with update()).
PushedMatchesNodes == Quiescent => pushed = nodes

(***************************************************************************)
(* Refinement.  Seen from outside, a call of updateAddr is one step of     *)
(* ServiceView: the view is si_map, and the routed addresses are those of  *)
(* the node list gRPC last received once every call has returned; while a *)
(* call is in progress they are the admitted addresses of si_map, the      *)
(* state the call is bringing gRPC to.                                     *)
(***************************************************************************)
Routed ==
  IF Quiescent THEN {k[1] : k \in pushed}
  ELSE {a \in Addrs : si_map[a] # NoInfo /\ Admit(si_map[a])}

Abs == INSTANCE ServiceView WITH view <- si_map, routed <- Routed

\* updateAddr implements an atomic update of the view and of the routed
\* addresses: setAddr/addNodes or delAddr and update() bring gRPC's node
\* list to exactly the admitted addresses of si_map before the call returns.
AbsSpec == Abs!Spec

\* Specification, testable properties: after updateAddr an admitted address
\* has exactly its weight's virtual nodes, a rejected one none.
VirtualNodesMatchLatestInfo ==
  Quiescent =>
    \A a \in Addrs :
      NodesOf(a) = IF Admitted(a) THEN KeysOf(a, Weight(si_map[a])) ELSE {}

(***************************************************************************)
(* An inductive strengthening of AcceptedAddrsCovered.  A kept address's   *)
(* key may be missing only while a caller is still responsible for it:     *)
(* either a delAddr of that address in its loop, which will remove the     *)
(* address record too, or an addNodes loop for that address whose weight   *)
(* is the recorded count and which has not yet reached the key.            *)
(***************************************************************************)
CallerInv ==
  \A t \in Callers :
    /\ pc[t] # "idle" => cur[t] \in Infos
    /\ pc[t] \in {"add_load", "add_store"} => idx[t] < Weight(cur[t])
    /\ pc[t] = "del_node" => idx[t] < cnt[t]

Responsible(t, a, i) ==
  /\ pc[t] # "idle"
  /\ cur[t].addr = a
  /\ \/ pc[t] \in {"del_node", "del_addr"}
     \/ /\ pc[t] \in {"add_load", "add_store"}
        /\ Weight(cur[t]) = addrs[a]
        /\ idx[t] <= i

CoverInv ==
  \A a \in Addrs, i \in 0..MaxWeight - 1 :
    (i < addrs[a] /\ <<a, i>> \notin nodes) =>
      \E t \in Callers : Responsible(t, a, i)

\* The inductive invariant: every kept address is covered up to the callers
\* still working on it.
IInv == TypeOK /\ CallerInv /\ CoverInv

(***************************************************************************)
(* Serial use of updateAddr.  With one caller (Online applying its reply  *)
(* before the crontab and the gRPC server start) each call runs to its     *)
(* end before the next: the resolver's record of every address the caller *)
(* is not working on is what si_map asks for, and each call hands gRPC    *)
(* the node list it leaves.                                                *)
(***************************************************************************)
\* The count the resolver should record for address a, from si_map.
Target(a) ==
  IF si_map[a] # NoInfo /\ Admit(si_map[a]) THEN Weight(si_map[a]) ELSE 0

\* Some caller is inside updateAddr for address a.
Busy(a) == \E t \in Callers : pc[t] # "idle" /\ cur[t].addr = a

SerialInv ==
  /\ \A a \in Addrs : si_map[a] # NoInfo => si_map[a].addr = a
  /\ \A a \in Addrs : ~Busy(a) => addrs[a] = Target(a)
  /\ \A t \in Callers : pc[t] # "idle" =>
       LET a == cur[t].addr IN
       /\ si_map[a] = cur[t]
       /\ pc[t] \in {"set", "add_load", "add_store"} => Admit(cur[t])
       /\ pc[t] \in {"del_load", "del_node", "del_addr"} => ~Admit(cur[t])
       /\ pc[t] \in {"add_load", "add_store"} => addrs[a] = Weight(cur[t])
       /\ pc[t] \in {"snap", "push"} => addrs[a] = Target(a)
  /\ Quiescent => pushed = nodes
  /\ \A t \in Callers : pc[t] = "push" => snap[t] = nodes

\* Every address keeps one weight in all the ServiceInfos it announces.
FixedWeights ==
  \A s1, s2 \in Infos : s1.addr = s2.addr => Weight(s1) = Weight(s2)

\* With fixed weights, where the loop of the caller t working on an address
\* stands: the keys of the address before, inside and after the addNodes
\* loop and the delAddr loop.
NodesLoop(t) ==
  LET a == cur[t].addr IN
  /\ pc[t] \in {"set", "del_load", "snap", "push"} =>
       NodesOf(a) = KeysOf(a, addrs[a])
  /\ pc[t] = "set" => addrs[a] \in {0, Weight(cur[t])}
  /\ pc[t] \in {"add_load", "add_store"} =>
       KeysOf(a, idx[t]) \subseteq NodesOf(a) /\
       NodesOf(a) \subseteq KeysOf(a, Weight(cur[t]))
  /\ pc[t] = "del_node" =>
       cnt[t] = addrs[a] /\ NodesOf(a) = {<<a, i>> : i \in idx[t]..cnt[t] - 1}
  /\ pc[t] = "del_addr" => NodesOf(a) = {}

\* With fixed weights, the resolver's keys of an address are exactly its
\* count's, except in the loop of the call working on it.
NodesInv ==
  /\ \A a \in Addrs : ~Busy(a) => NodesOf(a) = KeysOf(a, addrs[a])
  /\ \A t \in Callers : pc[t] # "idle" => NodesLoop(t)

\* The inductive invariant of the refinement proof (one caller, fixed
\* weights).
RInv == TypeOK /\ CallerInv /\ SerialInv /\ NodesInv

=============================================================================
