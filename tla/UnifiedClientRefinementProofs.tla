------------------- MODULE UnifiedClientRefinementProofs --------------------
(***************************************************************************)
(* UnifiedClient with one caller of updateAddr implements ServiceView:     *)
(* every call is, seen from outside, one atomic Update of the view and of  *)
(* the routed addresses.  The proof needs that every address announces    *)
(* one weight (FixedWeights): with two weights for one address, the        *)
(* addNodes loop of the second call leaves the keys beyond the new count   *)
(* of the first, and run uc_serial's AbsSpec would fail (see README).       *)
(*                                                                         *)
(* The inductive invariant is RInv: SerialInv, and NodesInv, which says    *)
(* where each loop of setAddr/addNodes and delAddr stands.                 *)
(***************************************************************************)
EXTENDS UnifiedClientSerialProofs

\* One more turn of the addNodes loop adds key addr:n to addr:0..addr:n-1.
LEMMA KeysGrow ==
  ASSUME NEW a, NEW n \in Nat
  PROVE  KeysOf(a, n + 1) = KeysOf(a, n) \cup {<<a, n>>}
  BY DEF KeysOf

\* One more turn of the delAddr loop removes key addr:m from addr:m..addr:n.
LEMMA KeysShrink ==
  ASSUME NEW a, NEW m \in Int, NEW n \in Int
  PROVE  {<<a, i>> : i \in m..n} \ {<<a, m>>} = {<<a, i>> : i \in m + 1..n}
  BY DEF KeysOf

\* An address has keys iff its count is not 0.
LEMMA KeysEmpty ==
  ASSUME NEW a, NEW n \in Nat
  PROVE  KeysOf(a, n) = {} <=> n = 0
<1>1. CASE n = 0
  BY <1>1 DEF KeysOf
<1>2. CASE n # 0
  <2>1. <<a, 0>> \in KeysOf(a, n)
    BY <1>2 DEF KeysOf
  <2>2. QED
    BY <1>2, <2>1
<1>3. QED
  BY <1>1, <1>2

-----------------------------------------------------------------------------
(* NodesInv is preserved by every step of the one caller c.  A step        *)
(* changes nodes and addrs only at its own address a0, so the other        *)
(* addresses keep their keys and counts (Other); at a0 the loops are       *)
(* followed turn by turn.                                                  *)

\* No step changes the keys or the count of an address other than the
\* caller's own.
Other(a0) ==
  \A a \in Addrs \ {a0} : NodesOf(a)' = NodesOf(a) /\ addrs'[a] = addrs[a]

\* While the caller stays inside updateAddr for a0, Other(a0) keeps the
\* first conjunct of NodesInv.
LEMMA OtherIdle ==
  ASSUME NEW c, Callers = {c}, NodesInv,
         pc[c] # "idle", pc'[c] # "idle", cur' = cur, Other(cur[c].addr)
  PROVE  \A a \in Addrs : ~Busy(a)' => NodesOf(a)' = KeysOf(a, addrs'[a])
  BY DEF NodesInv, Busy, Other

LEMMA NodesStep ==
  ASSUME NEW c, Callers = {c}, FixedWeights, Typed, SerialInv, NodesInv,
         [Next]_vars
  PROVE  NodesInv'
<1> USE WeightAssumption DEF Typed, TypeOK, CallerInv, PCs, WeightAssumption
<1> DEFINE a0 == cur[c].addr
           W == Weight(cur[c])
<1>1. ASSUME NEW si \in Infos, UpdateAddrBegin(c, si) PROVE NodesInv'
  <2> DEFINE a == si.addr
  <2>1. /\ pc[c] = "idle" /\ pc'[c] \in {"set", "del_load"} /\ cur'[c] = si
        /\ a \in Addrs /\ nodes' = nodes /\ addrs' = addrs
    BY <1>1, InfoAddr DEF UpdateAddrBegin, UpdateAddrStart, Goto
  <2>2. \A b \in Addrs : ~Busy(b) /\ NodesOf(b) = KeysOf(b, addrs[b])
    BY <2>1 DEF Busy, NodesInv
  <2>3. \A b \in Addrs : NodesOf(b)' = NodesOf(b)
    BY <2>1 DEF NodesOf
  <2>4. \A b \in Addrs : ~Busy(b)' => NodesOf(b)' = KeysOf(b, addrs'[b])
    BY <2>1, <2>2, <2>3
  <2>5. addrs[a] \in {0, Weight(si)}
    <3>1. addrs[a] = Target(a)
      BY <2>1, <2>2 DEF SerialInv
    <3>2. si_map[a] # NoInfo => si_map[a] \in Infos /\ si_map[a].addr = a
      BY <2>1 DEF SerialInv
    <3>3. si_map[a] # NoInfo => Weight(si_map[a]) = Weight(si)
      BY <3>2 DEF FixedWeights
    <3>4. QED
      BY <3>1, <3>3 DEF Target
  <2>6. NodesLoop(c)'
    BY <2>1, <2>2, <2>3, <2>5 DEF NodesLoop
  <2>7. QED
    BY <2>4, <2>6 DEF NodesInv
<1>2. ASSUME SetAddr(c) PROVE NodesInv'
  <2>1. /\ pc[c] = "set" /\ pc'[c] # "idle" /\ cur' = cur
        /\ cur[c] \in Infos /\ a0 \in Addrs /\ W \in 1..MaxWeight
    BY <1>2, InfoAddr, WeightRange DEF SetAddr, Goto
  <2>2. NodesLoop(c)
    BY <2>1 DEF NodesInv
  <2>3. Other(a0)
    BY <1>2, <2>1 DEF SetAddr, Goto, Other, NodesOf
  <2>4. NodesLoop(c)'
    <3>1. NodesOf(a0) = KeysOf(a0, addrs[a0]) /\ addrs[a0] \in {0, W}
      BY <2>1, <2>2 DEF NodesLoop
    <3>2. KeysOf(a0, addrs[a0]) \subseteq KeysOf(a0, W)
      BY <2>1, <3>1 DEF KeysOf
    <3>3. QED
      BY <1>2, <2>1, <3>1, <3>2 DEF SetAddr, Goto, NodesLoop, NodesOf, KeysOf
  <2>5. QED
    BY <2>1, <2>3, <2>4, OtherIdle DEF NodesInv
<1>3. ASSUME AddNodesLoad(c) PROVE NodesInv'
  <2>1. /\ pc[c] = "add_load" /\ pc'[c] # "idle" /\ cur' = cur
        /\ cur[c] \in Infos /\ a0 \in Addrs /\ W \in 1..MaxWeight
    BY <1>3, InfoAddr, WeightRange DEF AddNodesLoad, Goto
  <2>2. NodesLoop(c)
    BY <2>1 DEF NodesInv
  <2>3. Other(a0)
    BY <1>3, <2>1 DEF AddNodesLoad, Goto, Other, NodesOf
  <2>4. NodesLoop(c)'
    BY <1>3, <2>1, <2>2 DEF AddNodesLoad, Goto, NodesLoop, NodesOf
  <2>5. QED
    BY <2>1, <2>3, <2>4, OtherIdle DEF NodesInv
<1>4. ASSUME AddNodesSkip(c) PROVE NodesInv'
  <2>1. /\ pc[c] = "add_load" /\ cur[c] \in Infos /\ a0 \in Addrs
        /\ W \in 1..MaxWeight /\ idx[c] < W
    <3>1. pc[c] = "add_load" /\ c \in Callers
      BY <1>4 DEF AddNodesSkip
    <3>2. cur[c] \in Infos /\ idx[c] < W
      BY <3>1
    <3>3. QED
      BY <3>1, <3>2, InfoAddr, WeightRange
  <2>2. addrs[a0] = W
    BY <2>1 DEF SerialInv
  <2>3. FALSE
    BY <1>4, <2>1, <2>2 DEF AddNodesSkip
  <2>4. QED
    BY <2>3
<1>5. ASSUME AddNodesStore(c) PROVE NodesInv'
  <2>1. /\ pc[c] = "add_store" /\ pc'[c] # "idle" /\ cur' = cur
        /\ cur[c] \in Infos /\ a0 \in Addrs /\ W \in 1..MaxWeight
    BY <1>5, InfoAddr, WeightRange DEF AddNodesStore, NextAdd
  <2>2. NodesLoop(c)
    BY <2>1 DEF NodesInv
  <2>3. Other(a0)
    BY <1>5, <2>1 DEF AddNodesStore, NextAdd, Other, NodesOf
  <2>4. NodesLoop(c)'
    <3>1. /\ KeysOf(a0, idx[c]) \subseteq NodesOf(a0)
          /\ NodesOf(a0) \subseteq KeysOf(a0, W)
          /\ idx[c] \in 0..W - 1 /\ addrs[a0] = W
      BY <2>1, <2>2 DEF NodesLoop, SerialInv
    <3>2. NodesOf(a0)' = NodesOf(a0) \cup {<<a0, idx[c]>>}
      BY <1>5 DEF AddNodesStore, NodesOf
    <3>3. KeysOf(a0, idx[c] + 1) \subseteq NodesOf(a0)'
      BY <3>1, <3>2, KeysGrow
    <3>4. NodesOf(a0)' \subseteq KeysOf(a0, W)
      BY <3>1, <3>2 DEF KeysOf
    <3>5. /\ idx'[c] = idx[c] + 1 /\ addrs' = addrs
          /\ pc'[c] = IF idx[c] + 1 < W THEN "add_load" ELSE "snap"
      BY <1>5, <2>1 DEF AddNodesStore, NextAdd
    <3>6. CASE idx[c] + 1 < W
      BY <2>1, <3>3, <3>4, <3>5, <3>6 DEF NodesLoop
    <3>7. CASE ~(idx[c] + 1 < W)
      <4>1. idx[c] + 1 = W
        BY <2>1, <3>1, <3>7
      <4>2. NodesOf(a0)' = KeysOf(a0, addrs'[a0])
        BY <3>1, <3>3, <3>4, <3>5, <4>1
      <4>3. QED
        BY <2>1, <3>5, <3>7, <4>2 DEF NodesLoop
    <3>8. QED
      BY <3>6, <3>7
  <2>5. QED
    BY <2>1, <2>3, <2>4, OtherIdle DEF NodesInv
<1>6. ASSUME DelAddrLoad(c) PROVE NodesInv'
  <2>1. /\ pc[c] = "del_load" /\ pc'[c] # "idle" /\ cur' = cur
        /\ cur[c] \in Infos /\ a0 \in Addrs /\ W \in 1..MaxWeight
    BY <1>6, InfoAddr, WeightRange DEF DelAddrLoad, Goto
  <2>2. NodesLoop(c)
    BY <2>1 DEF NodesInv
  <2>3. Other(a0)
    BY <1>6, <2>1 DEF DelAddrLoad, Goto, Other, NodesOf
  <2>4. NodesLoop(c)'
    <3>1. NodesOf(a0) = KeysOf(a0, addrs[a0])
      BY <2>1, <2>2 DEF NodesLoop
    <3>2. QED
      BY <1>6, <2>1, <3>1 DEF DelAddrLoad, Goto, NodesLoop, NodesOf, KeysOf
  <2>5. QED
    BY <2>1, <2>3, <2>4, OtherIdle DEF NodesInv
<1>7. ASSUME DelAddrMissing(c) PROVE NodesInv'
  <2>1. /\ pc[c] = "del_load" /\ pc'[c] # "idle" /\ cur' = cur
        /\ cur[c] \in Infos /\ a0 \in Addrs /\ W \in 1..MaxWeight
    BY <1>7, InfoAddr, WeightRange DEF DelAddrMissing, Goto
  <2>2. NodesLoop(c)
    BY <2>1 DEF NodesInv
  <2>3. Other(a0)
    BY <1>7, <2>1 DEF DelAddrMissing, Goto, Other, NodesOf
  <2>4. NodesLoop(c)'
    BY <1>7, <2>1, <2>2 DEF DelAddrMissing, Goto, NodesLoop, NodesOf
  <2>5. QED
    BY <2>1, <2>3, <2>4, OtherIdle DEF NodesInv
<1>8. ASSUME DelAddrNode(c) PROVE NodesInv'
  <2>1. /\ pc[c] = "del_node" /\ pc'[c] # "idle" /\ cur' = cur
        /\ cur[c] \in Infos /\ a0 \in Addrs /\ W \in 1..MaxWeight
    BY <1>8, InfoAddr, WeightRange DEF DelAddrNode, Goto
  <2>2. NodesLoop(c)
    BY <2>1 DEF NodesInv
  <2>3. Other(a0)
    BY <1>8, <2>1 DEF DelAddrNode, Goto, Other, NodesOf
  <2>4. NodesLoop(c)'
    <3>1. /\ cnt[c] = addrs[a0]
          /\ NodesOf(a0) = {<<a0, i>> : i \in idx[c]..cnt[c] - 1}
          /\ idx[c] \in Nat /\ cnt[c] \in Nat
      BY <2>1, <2>2 DEF NodesLoop
    <3>2. NodesOf(a0)' = {<<a0, i>> : i \in idx[c] + 1..cnt[c] - 1}
      <4>1. NodesOf(a0)' = NodesOf(a0) \ {<<a0, idx[c]>>}
        BY <1>8 DEF DelAddrNode, NodesOf
      <4>2. QED
        BY <3>1, <4>1, KeysShrink
    <3>3. /\ idx'[c] = idx[c] + 1 /\ cnt' = cnt /\ addrs' = addrs
          /\ pc'[c] = IF idx[c] + 1 < cnt[c] THEN "del_node" ELSE "del_addr"
      BY <1>8, <2>1 DEF DelAddrNode, Goto
    <3>4. CASE idx[c] + 1 < cnt[c]
      BY <2>1, <3>1, <3>2, <3>3, <3>4 DEF NodesLoop
    <3>5. CASE ~(idx[c] + 1 < cnt[c])
      <4>1. NodesOf(a0)' = {}
        BY <3>1, <3>2, <3>5
      <4>2. QED
        BY <2>1, <3>3, <3>5, <4>1 DEF NodesLoop
    <3>6. QED
      BY <3>4, <3>5
  <2>5. QED
    BY <2>1, <2>3, <2>4, OtherIdle DEF NodesInv
<1>9. ASSUME DelAddrEntry(c) PROVE NodesInv'
  <2>1. /\ pc[c] = "del_addr" /\ pc'[c] # "idle" /\ cur' = cur
        /\ cur[c] \in Infos /\ a0 \in Addrs /\ W \in 1..MaxWeight
    BY <1>9, InfoAddr, WeightRange DEF DelAddrEntry, Goto
  <2>2. NodesLoop(c)
    BY <2>1 DEF NodesInv
  <2>3. Other(a0)
    BY <1>9, <2>1 DEF DelAddrEntry, Goto, Other, NodesOf
  <2>4. NodesLoop(c)'
    <3>1. NodesOf(a0) = {}
      BY <2>1, <2>2 DEF NodesLoop
    <3>2. QED
      BY <1>9, <2>1, <3>1 DEF DelAddrEntry, Goto, NodesLoop, NodesOf, KeysOf
  <2>5. QED
    BY <2>1, <2>3, <2>4, OtherIdle DEF NodesInv
<1>10. ASSUME UpdateSnapshot(c) PROVE NodesInv'
  <2>1. /\ pc[c] = "snap" /\ pc'[c] # "idle" /\ cur' = cur
        /\ cur[c] \in Infos /\ a0 \in Addrs /\ W \in 1..MaxWeight
    BY <1>10, InfoAddr, WeightRange DEF UpdateSnapshot, Goto
  <2>2. NodesLoop(c)
    BY <2>1 DEF NodesInv
  <2>3. Other(a0)
    BY <1>10, <2>1 DEF UpdateSnapshot, Goto, Other, NodesOf
  <2>4. NodesLoop(c)'
    BY <1>10, <2>1, <2>2 DEF UpdateSnapshot, Goto, NodesLoop, NodesOf
  <2>5. QED
    BY <2>1, <2>3, <2>4, OtherIdle DEF NodesInv
<1>11. ASSUME UpdateState(c) PROVE NodesInv'
  <2>1. /\ pc[c] = "push" /\ pc'[c] = "idle" /\ a0 \in Addrs
        /\ nodes' = nodes /\ addrs' = addrs
    BY <1>11, InfoAddr DEF UpdateState, Goto
  <2>2. NodesOf(a0) = KeysOf(a0, addrs[a0])
    BY <2>1 DEF NodesInv, NodesLoop
  <2>3. \A b \in Addrs \ {a0} : NodesOf(b) = KeysOf(b, addrs[b])
    BY <2>1 DEF NodesInv, Busy
  <2>4. \A b \in Addrs : NodesOf(b)' = KeysOf(b, addrs'[b])
    BY <2>1, <2>2, <2>3 DEF NodesOf
  <2>5. QED
    BY <2>1, <2>4 DEF NodesInv
<1>12. CASE UNCHANGED vars
  BY <1>12 DEF vars, NodesInv, NodesLoop, Busy, NodesOf
<1>13. QED
  BY <1>1, <1>2, <1>3, <1>4, <1>5, <1>6, <1>7, <1>8, <1>9, <1>10, <1>11,
     <1>12 DEF Next, Step, Work, Terminated


\* Initially no address has keys or a count.
LEMMA InitNodes == Init => NodesInv
  BY DEF Init, NodesInv, NodesOf, KeysOf

\* With one caller and fixed weights, RInv holds in every reachable state.
THEOREM RInvariant ==
  ASSUME NEW c, Callers = {c}, FixedWeights
  PROVE  Spec => []RInv
<1>1. Init => RInv
  BY InitSerial, InitNodes DEF RInv, Typed
<1>2. RInv /\ [Next]_vars => RInv'
  BY SerialStep, NodesStep, TypedStep DEF RInv, Typed
<1>3. QED
  BY <1>1, <1>2, PTL DEF Spec

-----------------------------------------------------------------------------
(* The refinement mapping.  Once every call has returned, the addresses of *)
(* the node list gRPC holds are the admitted addresses of si_map: pushed   *)
(* is the node list, an address has keys iff its count is not 0, and its   *)
(* count is not 0 iff si_map admits it (Weight is at least 1).             *)

\* At a quiescent state the routed addresses are the view's admitted ones.
RoutedAtRest == Quiescent => Routed = Abs!Routable(si_map)

LEMMA RoutedQuiescent ==
  ASSUME NEW c, Callers = {c}, RInv
  PROVE  RoutedAtRest
<1> SUFFICES ASSUME Quiescent PROVE Routed = Abs!Routable(si_map)
  BY DEF RoutedAtRest
<1> USE DEF RInv, TypeOK, Quiescent
<1>1. pushed = nodes /\ \A a \in Addrs : ~Busy(a)
  BY DEF SerialInv, Busy
<1>2. \A a \in Addrs : NodesOf(a) = KeysOf(a, Target(a))
  BY <1>1 DEF SerialInv, NodesInv
<1>3. \A a \in Addrs : Target(a) # 0 <=> si_map[a] # NoInfo /\ Admit(si_map[a])
  <2> SUFFICES ASSUME NEW a \in Addrs, si_map[a] # NoInfo
               PROVE  Weight(si_map[a]) # 0
    BY DEF Target
  <2>1. si_map[a] \in Infos
    OBVIOUS
  <2>2. QED
    BY <2>1, WeightRange
<1>4. \A a \in Addrs : (\E k \in nodes : k[1] = a) <=> Target(a) # 0
  <2> SUFFICES ASSUME NEW a \in Addrs
               PROVE  NodesOf(a) # {} <=> Target(a) # 0
    BY DEF NodesOf
  <2>1. Target(a) \in Nat
    BY WeightRange DEF Target
  <2>2. NodesOf(a) = KeysOf(a, Target(a))
    BY <1>2
  <2>3. KeysOf(a, Target(a)) # {} <=> Target(a) # 0
    BY <2>1, KeysEmpty
  <2>4. QED
    BY <2>2, <2>3
<1>5. \A k \in nodes : k[1] \in Addrs
  BY DEF Keys
<1>6. QED
  BY <1>1, <1>3, <1>4, <1>5 DEF Routed, Abs!Routable

\* A step of the caller that neither starts nor ends a call leaves si_map
\* and the routed addresses alone.
LEMMA InnerStutter ==
  ASSUME NEW c, Callers = {c}, pc[c] # "idle", pc'[c] # "idle",
         si_map' = si_map
  PROVE  UNCHANGED <<si_map, Routed>>
  BY DEF Routed, Quiescent

\* Every step of UnifiedClient is an Update of ServiceView or leaves the
\* view and the routed addresses unchanged: UpdateAddrBegin is the Update,
\* the loops and the snapshot are inside it, and UpdateState hands gRPC
\* the list the Update promised.
LEMMA RefineStep ==
  ASSUME NEW c, Callers = {c}, RInv, RoutedAtRest', [Next]_vars
  PROVE  [Abs!Next]_<<si_map, Routed>>
<1> USE DEF RInv, TypeOK
<1>1. ASSUME NEW si \in Infos, UpdateAddrBegin(c, si) PROVE Abs!Next
  <2>1. pc[c] = "idle" /\ pc'[c] # "idle"
    BY <1>1 DEF UpdateAddrBegin, UpdateAddrStart, Goto
  <2>2. si_map' = [si_map EXCEPT ![si.addr] = si]
    BY <1>1 DEF UpdateAddrBegin, UpdateAddrStart
  <2>3. Routed' = Abs!Routable(si_map')
    BY <2>1 DEF Routed, Quiescent, Abs!Routable
  <2>4. QED
    BY <2>2, <2>3 DEF Abs!Next, Abs!Update
<1>2. ASSUME Work(c), pc'[c] # "idle" PROVE UNCHANGED <<si_map, Routed>>
  <2>1. pc[c] # "idle" /\ si_map' = si_map
    BY <1>2 DEF Work, SetAddr, AddNodesLoad, AddNodesSkip, AddNodesStore,
                DelAddrLoad, DelAddrMissing, DelAddrNode, DelAddrEntry,
                UpdateSnapshot, UpdateState, Goto
  <2>2. QED
    BY <1>2, <2>1, InnerStutter
<1>3. ASSUME UpdateState(c) PROVE UNCHANGED <<si_map, Routed>>
  <2>1. pc[c] = "push" /\ Quiescent' /\ si_map' = si_map
    BY <1>3 DEF UpdateState, Goto, Quiescent
  <2>2. Routed = Abs!Routable(si_map)
    BY <2>1 DEF Routed, Quiescent, Abs!Routable
  <2>3. Routed' = Abs!Routable(si_map')
    BY <2>1 DEF RoutedAtRest
  <2>4. QED
    BY <2>1, <2>2, <2>3
<1>4. ASSUME Work(c) PROVE [Abs!Next]_<<si_map, Routed>>
  <2>1. CASE pc'[c] # "idle"
    BY <1>2, <1>4, <2>1
  <2>2. CASE pc'[c] = "idle"
    <3>1. UpdateState(c)
      BY <1>4, <2>2 DEF Work, SetAddr, AddNodesLoad, AddNodesSkip,
                  AddNodesStore, NextAdd, DelAddrLoad, DelAddrMissing,
                  DelAddrNode, DelAddrEntry, UpdateSnapshot, Goto
    <3>2. QED
      BY <1>3, <3>1
  <2>3. QED
    BY <2>1, <2>2
<1>5. CASE UNCHANGED vars \/ Terminated
  BY <1>5 DEF vars, Terminated, Routed, Quiescent
<1>6. QED
  BY <1>1, <1>4, <1>5 DEF Next, Step

\* With one caller of updateAddr and fixed weights, UnifiedClient implements
\* ServiceView under the mapping view <- si_map, routed <- Routed (run
\* uc_serial checks the same property on a small instance).
THEOREM Refinement ==
  ASSUME NEW c, Callers = {c}, FixedWeights
  PROVE  Spec => AbsSpec
<1>1. Init => Abs!Init
  BY DEF Init, Abs!Init, Routed, Quiescent
<1>2. RInv => RoutedAtRest
  BY RoutedQuiescent
<1>3. RInv /\ RoutedAtRest' /\ [Next]_vars => [Abs!Next]_<<si_map, Routed>>
  BY RefineStep
<1>4. QED
  BY <1>1, <1>2, <1>3, RInvariant, PTL DEF Spec, AbsSpec, Abs!Spec, Abs!vars

=============================================================================
