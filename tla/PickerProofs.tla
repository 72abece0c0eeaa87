------------------------------ MODULE PickerProofs ------------------------------
(***************************************************************************)
(* Proofs about the picker, for every set of addresses, virtual-node keys, *)
(* hash function and request.  gRPC regenerates the picker from the READY  *)
(* set on every change of that set, so the picker in use is always one     *)
(* that Build could have produced from the current READY set (BuiltFrom).  *)
(* From it, a specify_addr pick that succeeds for an address with a READY  *)
(* SubConn returns a READY SubConn of that address.                        *)
(*                                                                         *)
(* PickHashNearest is only model-checked: it rests on Sorted, a CHOOSE of  *)
(* the ring sorted by hash, whose existence for every finite ring needs an *)
(* induction over the ring's size.                                         *)
(***************************************************************************)
EXTENDS Picker, TLAPS

\* The READY SubConns are virtual-node keys, and the picker in use is one
\* Build makes from them.
BuiltFrom == ready \subseteq Keys /\ picker \in Build(ready)

LEMMA InitBuilt == Init => BuiltFrom
  BY DEF Init, BuiltFrom, Build

LEMMA BuiltStep == BuiltFrom /\ [Next]_vars => BuiltFrom'
  BY DEF BuiltFrom, Next, ConnUp, ConnDown, PickReq, vars

\* The picker in use is always built from the current READY set.
LEMMA PickerBuilt == Spec => []BuiltFrom
  BY InitBuilt, BuiltStep, PTL DEF Spec

-----------------------------------------------------------------------------
(* A specify_addr pick on a picker built from a ready set rs that holds a  *)
(* key of the requested address: the picker is not the error picker, its   *)
(* k2conn is not empty, and addr2conn maps the address to a key of rs of   *)
(* that address.                                                           *)

LEMMA SpecifyPick ==
  ASSUME NEW rs \in SUBSET Keys, NEW p \in Build(rs), NEW r \in Requests,
         r.type = "specify_addr", NEW k \in rs, k[1] = r.param,
         NEW res \in Pick(p, r), res.err = "ok"
  PROVE  res.sc \in rs /\ res.sc[1] = r.param
<1>1. rs # {}
  OBVIOUS
<1>2. PICK f \in [{j[1] : j \in rs} -> rs] :
        /\ \A a \in {j[1] : j \in rs} : f[a][1] = a
        /\ p = [k2conn |-> rs, addr2conn |-> f, ring |-> rs]
  BY <1>1 DEF Build
<1>3. p # ErrPicker /\ p.k2conn # {}
  BY <1>1, <1>2 DEF ErrPicker
<1>4. r.param # NoParam /\ r.param \in DOMAIN p.addr2conn
  BY <1>2, PickerAssumption DEF Keys
<1>5. res = [sc |-> f[r.param], err |-> "ok"]
  BY <1>2, <1>3, <1>4 DEF Pick, PickSpecifyAddr
<1>6. QED
  BY <1>2, <1>4, <1>5

\* specify_addr routes to the address asked for: a pick that returns no
\* error, for an address with a READY SubConn, returns a READY SubConn of
\* that address (PickSpecifyAddr reads addr2conn, filled by Build from the
\* READY SubConns keyed by their address).
THEOREM SpecifyAddrCorrect == Spec => SpecifyAddrRoutesToAddr
<1>1. BuiltFrom /\ [Next]_vars =>
        [ /\ last' # last /\ last'.req.type = "specify_addr" /\ last'.err = "ok"
          /\ \E k \in ready : k[1] = last'.req.param
          => last'.sc \in ready /\ last'.sc[1] = last'.req.param ]_last
  <2> SUFFICES ASSUME BuiltFrom, [Next]_vars,
                      last' # last, last'.req.type = "specify_addr",
                      last'.err = "ok", NEW k \in ready, k[1] = last'.req.param
               PROVE  last'.sc \in ready /\ last'.sc[1] = last'.req.param
    OBVIOUS
  <2>1. PICK r \in Requests : PickReq(r)
    BY DEF Next, ConnUp, ConnDown, vars
  <2>2. PICK res \in Pick(picker, r) :
          last' = [req |-> r, sc |-> res.sc, err |-> res.err]
    BY <2>1 DEF PickReq
  <2>3. ready' = ready /\ r.type = "specify_addr" /\ res.err = "ok"
        /\ k[1] = r.param
    BY <2>1, <2>2 DEF PickReq
  <2>4. res.sc \in ready /\ res.sc[1] = r.param
    BY <2>1, <2>3, SpecifyPick DEF BuiltFrom
  <2>5. QED
    BY <2>2, <2>4
<1>2. QED
  BY <1>1, PickerBuilt, PTL DEF Spec, SpecifyAddrRoutesToAddr
=============================================================================
