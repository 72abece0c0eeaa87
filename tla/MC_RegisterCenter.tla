-------------------------- MODULE MC_RegisterCenter --------------------------
(***************************************************************************)
(* Small instances of RegisterCenter for TLC.  One dependency declared at  *)
(* 1.2.0; its nodes announce v1.2.0 with weight 1, Online or Offline.      *)
(***************************************************************************)
EXTENDS RegisterCenter, TLC

CONSTANTS m, k, h1, h2, a1, a2

Good == [kind |-> "num", lead |-> FALSE, major |-> 1, minor |-> 2,
         patch |-> 0, pre |-> FALSE]

Info(a, st) == [addr |-> a, status |-> st, semver |-> Good, weight |-> 1]

MCRelySemver == Good

MCAddrs1 == {a1}
MCAddrs2 == {a1, a2}

MCInfos == UNION {{Info(a, "Online"), Info(a, "Offline")} : a \in Addrs}

\* Every node is Online when the gateway starts.
MCRegInit == [a \in Addrs |-> Info(a, "Online")]

MCHandlers0 == {}
MCHandlers1 == {h1}
MCHandlers2 == {h1, h2}

MCCallers == {m, k} \cup Handlers

=============================================================================
