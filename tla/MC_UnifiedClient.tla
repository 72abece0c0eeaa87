--------------------------- MODULE MC_UnifiedClient ---------------------------
(***************************************************************************)
(* Small instances of UnifiedClient for TLC.                               *)
(*                                                                         *)
(* The dependency is declared at "1.2.0" (normalised to v1.2.0).  Peers    *)
(* announce v1.2.0 (admitted), v0.9.0 (major mismatch) or v2.0.0 (newer    *)
(* major, also rejected).  DefaultWeight stands for the code's 32: 2 keeps *)
(* the default larger than an explicit weight of 1, so that an update can  *)
(* both grow and shrink an address's weight.                               *)
(***************************************************************************)
EXTENDS UnifiedClient, TLC

CONSTANTS c1, c2, a1, a2

Ver(lead, major, minor) ==
  [kind |-> "num", lead |-> lead, major |-> major, minor |-> minor,
   patch |-> 0, pre |-> FALSE]

MCRelySemver == Ver(FALSE, 1, 2)

Good == Ver(FALSE, 1, 2)
Older == Ver(TRUE, 0, 9)
NextMajor == Ver(TRUE, 2, 0)

Info(a, st, v, w) == [addr |-> a, status |-> st, semver |-> v, weight |-> w]

\* Per address: online with the default weight, online with weight 1,
\* offline, and online with a rejected version.
MCInfos ==
  UNION {{Info(a, "Online", Good, 0), Info(a, "Online", Good, 1),
          Info(a, "Offline", Good, 1), Info(a, "Online", Older, 1)} : a \in Addrs}

\* As MCInfos, the rejected version being a newer major.
MCInfosMajor ==
  UNION {{Info(a, "Online", Good, 0), Info(a, "Online", Good, 1),
          Info(a, "Offline", Good, 1), Info(a, "Online", NextMajor, 1)} : a \in Addrs}

\* One weight only: the races below owe nothing to weight changes.
MCInfosFixedWeight ==
  UNION {{Info(a, "Online", Good, 1), Info(a, "Offline", Good, 1)} : a \in Addrs}

\* One weight per address, and each of the admission branches: online,
\* offline and a rejected version.  a1 announces weight 0, so updateAddr
\* gives it DefaultWeight virtual nodes and its loops turn more than once.
OneWeight(a) == IF a = a1 THEN 0 ELSE 1

MCInfosOneWeight ==
  UNION {{Info(a, "Online", Good, OneWeight(a)), Info(a, "Offline", Good, OneWeight(a)),
          Info(a, "Online", NextMajor, OneWeight(a))} : a \in Addrs}

MCCallers1 == {c1}
MCCallers2 == {c1, c2}
MCAddrs == {a1, a2}
MCAddrs1 == {a1}

Symmetry == Permutations({c1, c2})

=============================================================================
