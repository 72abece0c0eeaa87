---------------------------- MODULE ServiceView ----------------------------
(***************************************************************************)
(* What a unifiedClient promises its users, as one atomic step per         *)
(* ServiceInfo: the client's view records the info, and the addresses gRPC *)
(* may route to become exactly the admitted addresses of the view.  The    *)
(* detailed UnifiedClient module implements this with one caller.          *)
(***************************************************************************)
CONSTANTS
  Addrs,     \* the dependency's peer addresses
  Infos,     \* the ServiceInfo values the registry may deliver
  NoInfo,    \* no info received yet for an address
  Admit(_)   \* the admission rule of updateAddr (status and version)

VARIABLES
  view,      \* the latest ServiceInfo of each address
  routed     \* the addresses gRPC may route requests to

vars == <<view, routed>>

\* The admitted addresses of a view.
Routable(v) == {a \in Addrs : v[a] # NoInfo /\ Admit(v[a])}

Init ==
  /\ view = [a \in Addrs |-> NoInfo]
  /\ routed = {}

\* updateAddr(si), seen from outside: record si, route to what is admitted.
Update(si) ==
  /\ view' = [view EXCEPT ![si.addr] = si]
  /\ routed' = Routable(view')

Next == \E si \in Infos : Update(si)

Spec == Init /\ [][Next]_vars
=============================================================================
