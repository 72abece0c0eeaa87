--------------------- MODULE UnifiedClientSerialProofs ----------------------
(***************************************************************************)
(* Proofs about UnifiedClient when updateAddr has one caller, for every    *)
(* set of addresses, ServiceInfo values and weights.                       *)
(*                                                                         *)
(*  - checkVersion against the normalised relySemver decides exactly what *)
(*    the specification's AcceptNode decides;                              *)
(*  - SerialInv is inductive: an address no call is working on has the     *)
(*    count si_map asks for, and gRPC holds the node list once the call    *)
(*    returns.  Hence ResolverAgreesWithView and PushedMatchesNodes.       *)
(* With two callers both properties fail (runs uc_race_view and           *)
(* uc_race_push), so the hypothesis Callers = {c} is needed.               *)
(***************************************************************************)
EXTENDS UnifiedClientProofs

\* semver.Compare returns -1, 0 or 1.
LEMMA CompareRange ==
  ASSUME NEW x, NEW y
  PROVE  Compare(x, y) \in {-1, 0, 1}
  BY DEF Compare

\* checkVersion(v, relySemver), the code's gate, agrees with the
\* specification's AcceptNode(v, RelySemver) on every version string.
LEMMA GateAgrees ==
  ASSUME NEW v \in Version(Nat)
  PROVE  checkVersion(v, relySemver) <=> AcceptNode(v, RelySemver)
  <1>1. Normalize(RelySemver).kind = "num"
    BY RelyAssumption DEF RelyAssumption, ValidRely, IsValid, Normalize, Version
  <1>2. Compare(Normalize(v), relySemver) \in {-1, 0, 1}
    BY CompareRange
  <1>3. QED
    BY <1>1, <1>2
    DEF checkVersion, AcceptNode, relySemver, IsValid, Major, Normalize, Version

-----------------------------------------------------------------------------
(* SerialInv is preserved by every step of the one caller c.               *)

LEMMA SerialStep ==
  ASSUME NEW c, Callers = {c}, Typed, SerialInv, [Next]_vars
  PROVE  SerialInv'
<1> USE WeightAssumption DEF Typed, TypeOK, CallerInv, PCs, WeightAssumption
<1> DEFINE a0 == cur[c].addr
<1>0. Typed'
  BY TypedStep
<1>1. ASSUME NEW si \in Infos, UpdateAddrBegin(c, si) PROVE SerialInv'
  <2>1. \A a \in Addrs : addrs[a] = Target(a)
    BY <1>1 DEF SerialInv, Busy, UpdateAddrBegin, UpdateAddrStart, Goto
  <2>2. si.addr \in Addrs /\ cur'[c] = si /\ pc'[c] # "idle"
    BY <1>1, InfoAddr DEF UpdateAddrBegin, UpdateAddrStart, Goto
  <2>3. \A a \in Addrs : a # si.addr => Target(a)' = Target(a)
    BY <1>1 DEF UpdateAddrBegin, UpdateAddrStart, Target
  <2>4. QED
    BY <1>1, <2>1, <2>2, <2>3, InfoAddr
    DEF SerialInv, Busy, UpdateAddrBegin, UpdateAddrStart, Goto, Quiescent, Target
<1>2. ASSUME SetAddr(c) PROVE SerialInv'
  <2>1. pc[c] # "idle" /\ pc'[c] # "idle" /\ cur[c] \in Infos /\ a0 \in Addrs
        /\ cur' = cur /\ si_map' = si_map
    BY <1>2, InfoAddr DEF SetAddr, Goto
  <2>2. \A a \in Addrs : (Busy(a)' <=> a = a0) /\ (Busy(a) <=> a = a0)
    BY <2>1 DEF Busy
  <2>3. \A a \in Addrs \ {a0} : addrs'[a] = addrs[a] /\ Target(a)' = Target(a)
    BY <1>2, <2>1 DEF SetAddr, Goto, Target
  <2>4. ~Quiescent'
    BY <2>1 DEF Quiescent
  <2>5. QED
    BY <1>2, <2>1, <2>2, <2>3, <2>4 DEF SerialInv, SetAddr, Goto, Target
<1>3. ASSUME AddNodesLoad(c) PROVE SerialInv'
  BY <1>3 DEF SerialInv, Busy, AddNodesLoad, Goto, Quiescent, Target
<1>4. ASSUME AddNodesSkip(c) PROVE SerialInv'
  <2>1. pc[c] # "idle" /\ pc'[c] # "idle" /\ cur[c] \in Infos /\ a0 \in Addrs
        /\ cur' = cur /\ si_map' = si_map
    BY <1>4, InfoAddr DEF AddNodesSkip, NextAdd
  <2>2. \A a \in Addrs : (Busy(a)' <=> a = a0) /\ (Busy(a) <=> a = a0)
    BY <2>1 DEF Busy
  <2>3. \A a \in Addrs \ {a0} : addrs'[a] = addrs[a] /\ Target(a)' = Target(a)
    BY <1>4, <2>1 DEF AddNodesSkip, NextAdd, Target
  <2>4. ~Quiescent'
    BY <2>1 DEF Quiescent
  <2>5. QED
    BY <1>4, <2>1, <2>2, <2>3, <2>4 DEF SerialInv, AddNodesSkip, NextAdd, Target
<1>5. ASSUME AddNodesStore(c) PROVE SerialInv'
  <2>1. pc[c] # "idle" /\ pc'[c] # "idle" /\ cur[c] \in Infos /\ a0 \in Addrs
        /\ cur' = cur /\ si_map' = si_map
    BY <1>5, InfoAddr DEF AddNodesStore, NextAdd
  <2>2. \A a \in Addrs : (Busy(a)' <=> a = a0) /\ (Busy(a) <=> a = a0)
    BY <2>1 DEF Busy
  <2>3. \A a \in Addrs \ {a0} : addrs'[a] = addrs[a] /\ Target(a)' = Target(a)
    BY <1>5, <2>1 DEF AddNodesStore, NextAdd, Target
  <2>4. ~Quiescent'
    BY <2>1 DEF Quiescent
  <2>5. addrs'[a0] = Target(a0)'
    <3>0. pc[c] = "add_store" /\ c \in Callers
      BY <1>5 DEF AddNodesStore
    <3>1. si_map[a0] = cur[c] /\ Admit(cur[c]) /\ addrs[a0] = Weight(cur[c])
      BY <3>0 DEF SerialInv
    <3>2. si_map[a0] # NoInfo
      BY <3>1, <2>1, InfoAssumption DEF InfoAssumption
    <3>3. QED
      BY <1>5, <2>1, <3>1, <3>2 DEF AddNodesStore, Target
  <2>6. QED
    BY <1>5, <2>1, <2>2, <2>3, <2>4, <2>5 DEF SerialInv, AddNodesStore, NextAdd
<1>6. ASSUME DelAddrLoad(c) PROVE SerialInv'
  BY <1>6 DEF SerialInv, Busy, DelAddrLoad, Goto, Quiescent, Target
<1>7. ASSUME DelAddrMissing(c) PROVE SerialInv'
  BY <1>7 DEF SerialInv, Busy, DelAddrMissing, Goto, Quiescent, Target
<1>8. ASSUME DelAddrNode(c) PROVE SerialInv'
  BY <1>8 DEF SerialInv, Busy, DelAddrNode, Goto, Quiescent, Target
<1>9. ASSUME DelAddrEntry(c) PROVE SerialInv'
  <2>1. pc[c] # "idle" /\ pc'[c] # "idle" /\ cur[c] \in Infos /\ a0 \in Addrs
        /\ cur' = cur /\ si_map' = si_map
    BY <1>9, InfoAddr DEF DelAddrEntry, Goto
  <2>2. \A a \in Addrs : (Busy(a)' <=> a = a0) /\ (Busy(a) <=> a = a0)
    BY <2>1 DEF Busy
  <2>3. \A a \in Addrs \ {a0} : addrs'[a] = addrs[a] /\ Target(a)' = Target(a)
    BY <1>9, <2>1 DEF DelAddrEntry, Goto, Target
  <2>4. ~Quiescent'
    BY <2>1 DEF Quiescent
  <2>5. QED
    BY <1>9, <2>1, <2>2, <2>3, <2>4 DEF SerialInv, DelAddrEntry, Goto, Target
<1>10. ASSUME UpdateSnapshot(c) PROVE SerialInv'
  BY <1>10 DEF SerialInv, Busy, UpdateSnapshot, Goto, Quiescent, Target
<1>11. ASSUME UpdateState(c) PROVE SerialInv'
  BY <1>11 DEF SerialInv, Busy, UpdateState, Goto, Quiescent, Target
<1>12. CASE UNCHANGED vars
  BY <1>12 DEF vars, SerialInv, Busy, Quiescent, Target
<1>13. QED
  BY <1>1, <1>2, <1>3, <1>4, <1>5, <1>6, <1>7, <1>8, <1>9, <1>10, <1>11,
     <1>12 DEF Next, Step, Work, Terminated

\* Before the first call no address has a count and nothing is busy.
LEMMA InitSerial ==
  ASSUME NEW c, Callers = {c}
  PROVE  Init => Typed /\ SerialInv
<1> SUFFICES ASSUME Init PROVE Typed /\ SerialInv
  OBVIOUS
<1>1. Typed
  BY InitIInv DEF IInv, Typed
<1>2. \A a \in Addrs : Target(a) = 0 /\ ~Busy(a)
  BY DEF Init, Target, Busy
<1>3. QED
  BY <1>1, <1>2 DEF Init, SerialInv, Quiescent

\* With one caller, SerialInv holds in every reachable state: an address no
\* updateAddr call is working on has the count setAddr/delAddr derive from
\* its latest ServiceInfo, and update() has pushed the node list once the
\* call returned.
THEOREM SerialInvariant ==
  ASSUME NEW c, Callers = {c}
  PROVE  Spec => [](Typed /\ SerialInv)
<1>1. Init => Typed /\ SerialInv
  BY InitSerial
<1>2. Typed /\ SerialInv /\ [Next]_vars => (Typed /\ SerialInv)'
  BY SerialStep, TypedStep
<1>3. QED
  BY <1>1, <1>2, PTL DEF Spec

\* With one caller, once updateAddr has returned the resolver keeps exactly
\* the addresses whose latest ServiceInfo is Online and passes checkVersion
\* (equivalently the specification's AcceptNode), each with its weight.
THEOREM ViewAgreement ==
  ASSUME NEW c, Callers = {c}
  PROVE  Spec => []ResolverAgreesWithView
<1>1. Typed /\ SerialInv => ResolverAgreesWithView
  <2> SUFFICES ASSUME Typed, SerialInv, Quiescent, NEW a \in Addrs
               PROVE  addrs[a] = IF Admitted(a) THEN Weight(si_map[a]) ELSE 0
    BY DEF ResolverAgreesWithView
  <2>1. addrs[a] = Target(a)
    BY DEF SerialInv, Busy, Quiescent
  <2>2. CASE si_map[a] = NoInfo
    BY <2>1, <2>2 DEF Target, Admitted
  <2>3. CASE si_map[a] # NoInfo
    <3>1. si_map[a] \in Infos
      BY <2>3 DEF Typed, TypeOK
    <3>2. si_map[a].semver \in Version(Nat)
      BY <3>1, InfoAssumption DEF InfoAssumption
    <3>3. Admit(si_map[a]) <=> Admitted(a)
      BY <2>3, <3>2, GateAgrees DEF Admit, Admitted
    <3>4. QED
      BY <2>1, <2>3, <3>3 DEF Target
  <2>4. QED
    BY <2>2, <2>3
<1>2. QED
  BY <1>1, SerialInvariant, PTL

\* With one caller, gRPC holds the resolver's node list whenever no
\* updateAddr call is in progress: the call's final update() is never
\* overtaken by another call's changes.
THEOREM PushedCurrent ==
  ASSUME NEW c, Callers = {c}
  PROVE  Spec => []PushedMatchesNodes
<1>1. SerialInv => PushedMatchesNodes
  BY DEF SerialInv, PushedMatchesNodes
<1>2. QED
  BY <1>1, SerialInvariant, PTL

=============================================================================
