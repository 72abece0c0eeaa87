------------------------- MODULE UnifiedClientProofs -------------------------
(***************************************************************************)
(* Proofs about UnifiedClient for every number of callers, addresses,      *)
(* ServiceInfo values and weights.                                         *)
(*                                                                         *)
(* Typed == TypeOK /\ CallerInv is inductive on its own.  CoverInv is      *)
(* inductive relative to Typed, and at a quiescent state it is exactly     *)
(* AcceptedAddrsCovered, since no caller can then be responsible.          *)
(***************************************************************************)
EXTENDS UnifiedClient, TLAPS

Typed == TypeOK /\ CallerInv

\* Every ServiceInfo yields a weight in 1..MaxWeight.
LEMMA WeightRange ==
  ASSUME NEW si \in Infos
  PROVE  Weight(si) \in 1..MaxWeight
  BY InfoAssumption, WeightAssumption
  DEF Weight, Version, InfoAssumption, WeightAssumption

\* A ServiceInfo's address is one of Addrs.
LEMMA InfoAddr ==
  ASSUME NEW si \in Infos
  PROVE  si.addr \in Addrs
  BY InfoAssumption DEF InfoAssumption

-----------------------------------------------------------------------------
(* The caller that steps is t; every other caller keeps its locals.        *)

\* Typing is preserved by every step.
LEMMA TypedStep == Typed /\ [Next]_vars => Typed'
<1> SUFFICES ASSUME Typed, [Next]_vars PROVE Typed'
  OBVIOUS
<1> USE WeightAssumption, BoundAssumption
    DEF Typed, TypeOK, CallerInv, PCs, Keys, WeightAssumption, BoundAssumption
<1>1. ASSUME NEW t \in Callers, NEW si \in Infos, UpdateAddrBegin(t, si)
      PROVE  Typed'
  BY <1>1, InfoAddr DEF UpdateAddrBegin, UpdateAddrStart, Goto
<1>2. ASSUME NEW t \in Callers, SetAddr(t) PROVE Typed'
  <2>1. cur[t] \in Infos
    BY <1>2 DEF SetAddr, Goto
  <2>2. cur[t].addr \in Addrs /\ Weight(cur[t]) \in 1..MaxWeight
    BY <2>1, InfoAddr, WeightRange
  <2>3. TypeOK'
    BY <1>2, <2>2 DEF SetAddr, Goto
  <2>4. CallerInv'
    BY <1>2, <2>2 DEF SetAddr, Goto
  <2>5. QED
    BY <2>3, <2>4
<1>3. ASSUME NEW t \in Callers, AddNodesLoad(t) PROVE Typed'
  BY <1>3 DEF AddNodesLoad, Goto
<1>4. ASSUME NEW t \in Callers, AddNodesSkip(t) PROVE Typed'
  BY <1>4, WeightRange DEF AddNodesSkip, NextAdd
<1>5. ASSUME NEW t \in Callers, AddNodesStore(t) PROVE Typed'
  BY <1>5, InfoAddr, WeightRange DEF AddNodesStore, NextAdd
<1>6. ASSUME NEW t \in Callers, DelAddrLoad(t) PROVE Typed'
  BY <1>6, InfoAddr DEF DelAddrLoad, Goto
<1>7. ASSUME NEW t \in Callers, DelAddrMissing(t) PROVE Typed'
  BY <1>7 DEF DelAddrMissing, Goto
<1>8. ASSUME NEW t \in Callers, DelAddrNode(t) PROVE Typed'
  BY <1>8, InfoAddr DEF DelAddrNode, Goto
<1>9. ASSUME NEW t \in Callers, DelAddrEntry(t) PROVE Typed'
  BY <1>9, InfoAddr DEF DelAddrEntry, Goto
<1>10. ASSUME NEW t \in Callers, UpdateSnapshot(t) PROVE Typed'
  BY <1>10 DEF UpdateSnapshot, Goto
<1>11. ASSUME NEW t \in Callers, UpdateState(t) PROVE Typed'
  BY <1>11 DEF UpdateState, Goto
<1>12. CASE UNCHANGED vars
  BY <1>12 DEF vars
<1>13. QED
  BY <1>1, <1>2, <1>3, <1>4, <1>5, <1>6, <1>7, <1>8, <1>9, <1>10, <1>11,
     <1>12 DEF Next, Step, Work, Terminated

-----------------------------------------------------------------------------
(* CoverInv.  Fix a kept key <<a, i>> missing after the step.  If it was   *)
(* missing before, the caller responsible for it before stays so, except   *)
(* in the cases where that caller is the one that steps, which are argued  *)
(* one by one.  A key goes missing only by DelAddrNode, whose caller then  *)
(* becomes responsible; an address gets a new count only by SetAddr, whose *)
(* caller is then responsible for all of its keys.                         *)

LEMMA CoverStep == Typed /\ CoverInv /\ [Next]_vars => CoverInv'
<1> SUFFICES ASSUME Typed, CoverInv, [Next]_vars,
                    NEW a \in Addrs, NEW i \in 0..MaxWeight - 1,
                    i < addrs'[a], <<a, i>> \notin nodes'
             PROVE  \E u \in Callers : Responsible(u, a, i)'
  BY DEF CoverInv
<1> USE WeightAssumption DEF Typed, TypeOK, CallerInv, PCs, Keys, WeightAssumption
<1>1. ASSUME NEW t \in Callers, NEW si \in Infos, UpdateAddrBegin(t, si)
      PROVE  \E u \in Callers : Responsible(u, a, i)'
  <2>1. PICK u \in Callers : Responsible(u, a, i)
    BY <1>1 DEF CoverInv, UpdateAddrBegin, UpdateAddrStart
  <2>2. u # t
    BY <1>1, <2>1 DEF UpdateAddrBegin, UpdateAddrStart, Goto, Responsible
  <2>3. QED
    BY <1>1, <2>1, <2>2 DEF UpdateAddrBegin, UpdateAddrStart, Goto, Responsible
<1>2. ASSUME NEW t \in Callers, SetAddr(t)
      PROVE  \E u \in Callers : Responsible(u, a, i)'
  <2>1. cur[t] \in Infos
    BY <1>2 DEF SetAddr, Goto
  <2>2. CASE cur[t].addr = a
    <3>1. Responsible(t, a, i)'
      BY <1>2, <2>1, <2>2 DEF SetAddr, Goto, Responsible
    <3>2. QED
      BY <3>1
  <2>3. CASE cur[t].addr # a
    <3>1. PICK u \in Callers : Responsible(u, a, i)
      BY <1>2, <2>3 DEF CoverInv, SetAddr
    <3>2. u # t
      BY <1>2, <3>1 DEF SetAddr, Goto, Responsible
    <3>3. QED
      BY <1>2, <2>3, <3>1, <3>2 DEF SetAddr, Goto, Responsible
  <2>4. QED
    BY <2>2, <2>3
<1>3. ASSUME NEW t \in Callers, AddNodesLoad(t)
      PROVE  \E u \in Callers : Responsible(u, a, i)'
  <2>1. PICK u \in Callers : Responsible(u, a, i)
    BY <1>3 DEF CoverInv, AddNodesLoad
  <2>2. QED
    BY <1>3, <2>1 DEF AddNodesLoad, Goto, Responsible
<1>4. ASSUME NEW t \in Callers, AddNodesSkip(t)
      PROVE  \E u \in Callers : Responsible(u, a, i)'
  <2>1. PICK u \in Callers : Responsible(u, a, i)
    BY <1>4 DEF CoverInv, AddNodesSkip, NextAdd
  <2>2. u # t
    \* t skips only if idx[t] >= addrs[a], yet a responsible t has idx[t] <= i < addrs[a].
    BY <1>4, <2>1 DEF AddNodesSkip, NextAdd, Responsible
  <2>3. QED
    BY <1>4, <2>1, <2>2 DEF AddNodesSkip, NextAdd, Responsible
<1>5. ASSUME NEW t \in Callers, AddNodesStore(t)
      PROVE  \E u \in Callers : Responsible(u, a, i)'
  <2>1. PICK u \in Callers : Responsible(u, a, i)
    BY <1>5 DEF CoverInv, AddNodesStore, NextAdd
  <2>2. CASE u = t
    \* The key t just stored is not <<a, i>>, so idx[t] < i < Weight(cur[t]).
    <3>1. cur[t] \in Infos /\ Weight(cur[t]) \in 1..MaxWeight
      BY <1>5, WeightRange DEF AddNodesStore
    <3>2. cur[t].addr = a /\ idx[t] <= i
      BY <1>5, <2>1, <2>2 DEF AddNodesStore, Responsible
    <3>3. <<a, idx[t]>> \in nodes'
      BY <1>5, <3>2 DEF AddNodesStore
    <3>4. idx[t] # i
      BY <3>2, <3>3, Zenon
    <3>5. idx[t] < i
      BY <3>2, <3>4
    <3>6. Responsible(t, a, i)'
      BY <1>5, <2>1, <2>2, <3>1, <3>2, <3>5 DEF AddNodesStore, NextAdd, Responsible
    <3>7. QED
      BY <3>6
  <2>3. CASE u # t
    BY <1>5, <2>1, <2>3 DEF AddNodesStore, NextAdd, Responsible
  <2>4. QED
    BY <2>2, <2>3
<1>6. ASSUME NEW t \in Callers, DelAddrLoad(t)
      PROVE  \E u \in Callers : Responsible(u, a, i)'
  <2>1. PICK u \in Callers : Responsible(u, a, i)
    BY <1>6 DEF CoverInv, DelAddrLoad
  <2>2. u # t
    BY <1>6, <2>1 DEF DelAddrLoad, Goto, Responsible
  <2>3. QED
    BY <1>6, <2>1, <2>2 DEF DelAddrLoad, Goto, Responsible
<1>7. ASSUME NEW t \in Callers, DelAddrMissing(t)
      PROVE  \E u \in Callers : Responsible(u, a, i)'
  <2>1. PICK u \in Callers : Responsible(u, a, i)
    BY <1>7 DEF CoverInv, DelAddrMissing
  <2>2. u # t
    BY <1>7, <2>1 DEF DelAddrMissing, Goto, Responsible
  <2>3. QED
    BY <1>7, <2>1, <2>2 DEF DelAddrMissing, Goto, Responsible
<1>8. ASSUME NEW t \in Callers, DelAddrNode(t)
      PROVE  \E u \in Callers : Responsible(u, a, i)'
  <2>1. cur[t] \in Infos
    BY <1>8 DEF DelAddrNode, Goto
  <2>2. CASE <<a, i>> = <<cur[t].addr, idx[t]>>
    \* t deleted the key and is still inside delAddr.
    BY <1>8, <2>1, <2>2 DEF DelAddrNode, Goto, Responsible
  <2>3. CASE <<a, i>> # <<cur[t].addr, idx[t]>>
    <3>1. PICK u \in Callers : Responsible(u, a, i)
      BY <1>8, <2>3 DEF CoverInv, DelAddrNode
    <3>2. QED
      BY <1>8, <2>1, <3>1 DEF DelAddrNode, Goto, Responsible
  <2>4. QED
    BY <2>2, <2>3
<1>9. ASSUME NEW t \in Callers, DelAddrEntry(t)
      PROVE  \E u \in Callers : Responsible(u, a, i)'
  <2>1. cur[t] \in Infos /\ cur[t].addr \in Addrs
    BY <1>9, InfoAddr DEF DelAddrEntry, Goto
  <2>2. cur[t].addr # a
    \* the record of cur[t].addr is now gone, so i < addrs'[a] rules it out.
    BY <1>9, <2>1 DEF DelAddrEntry, Goto
  <2>3. PICK u \in Callers : Responsible(u, a, i)
    BY <1>9, <2>2 DEF CoverInv, DelAddrEntry
  <2>4. u # t
    BY <2>2, <2>3 DEF Responsible
  <2>5. QED
    BY <1>9, <2>2, <2>3, <2>4 DEF DelAddrEntry, Goto, Responsible
<1>10. ASSUME NEW t \in Callers, UpdateSnapshot(t)
      PROVE  \E u \in Callers : Responsible(u, a, i)'
  <2>1. PICK u \in Callers : Responsible(u, a, i)
    BY <1>10 DEF CoverInv, UpdateSnapshot
  <2>2. u # t
    BY <1>10, <2>1 DEF UpdateSnapshot, Goto, Responsible
  <2>3. QED
    BY <1>10, <2>1, <2>2 DEF UpdateSnapshot, Goto, Responsible
<1>11. ASSUME NEW t \in Callers, UpdateState(t)
      PROVE  \E u \in Callers : Responsible(u, a, i)'
  <2>1. PICK u \in Callers : Responsible(u, a, i)
    BY <1>11 DEF CoverInv, UpdateState
  <2>2. u # t
    BY <1>11, <2>1 DEF UpdateState, Goto, Responsible
  <2>3. QED
    BY <1>11, <2>1, <2>2 DEF UpdateState, Goto, Responsible
<1>12. CASE UNCHANGED vars \/ Terminated
  <2>1. PICK u \in Callers : Responsible(u, a, i)
    BY <1>12 DEF CoverInv, vars, Terminated
  <2>2. QED
    BY <1>12, <2>1 DEF vars, Terminated, Responsible
<1>13. QED
  BY <1>1, <1>2, <1>3, <1>4, <1>5, <1>6, <1>7, <1>8, <1>9, <1>10, <1>11,
     <1>12 DEF Next, Step, Work

-----------------------------------------------------------------------------

LEMMA InitIInv == Init => IInv
  BY WeightAssumption, BoundAssumption
  DEF Init, IInv, TypeOK, CallerInv, CoverInv, Keys, PCs,
      WeightAssumption, BoundAssumption

\* IInv holds in every reachable state, for any number of callers.
THEOREM IInvariant == Spec => []IInv
<1>1. Init => IInv
  BY InitIInv
<1>2. IInv /\ [Next]_vars => IInv'
  BY TypedStep, CoverStep DEF IInv, Typed
<1>3. QED
  BY <1>1, <1>2, PTL DEF Spec

\* updateAddr keeps the types of the client's and the resolver's state.
THEOREM TypeCorrect == Spec => []TypeOK
<1>1. IInv => TypeOK
  BY DEF IInv
<1>2. QED
  BY <1>1, IInvariant, PTL

\* When no updateAddr call is in progress, every address the resolver keeps
\* has all of its count's virtual nodes, however the calls interleaved.
THEOREM AddrsCovered == Spec => []AcceptedAddrsCovered
<1>1. IInv => AcceptedAddrsCovered
  <2> SUFFICES ASSUME IInv, Quiescent, NEW a \in Addrs,
                      NEW k \in KeysOf(a, addrs[a])
               PROVE  k \in nodes
    BY DEF AcceptedAddrsCovered
  <2>1. PICK i \in 0..addrs[a] - 1 : k = <<a, i>>
    BY DEF KeysOf
  <2>2. i \in 0..MaxWeight - 1 /\ i < addrs[a]
    BY <2>1, WeightAssumption DEF IInv, TypeOK, WeightAssumption
  <2>3. \A u \in Callers : ~Responsible(u, a, i)
    BY DEF Quiescent, Responsible
  <2>4. QED
    BY <2>1, <2>2, <2>3 DEF IInv, CoverInv
<1>2. QED
  BY <1>1, IInvariant, PTL

=============================================================================
