------------------------------ MODULE MC_Picker ------------------------------
EXTENDS Picker

CONSTANTS a1, a2, a3, q1, q2, q3

\* Two backends with two virtual nodes each; a3 is an address no backend has.
MCAddrs == {a1, a2}
MCOthers == {a3}
MCQueries == {q1, q2, q3}

\* Positions on a ring of 8: q2 hashes onto the key <<a1, 1>>, q3 past
\* every key, so that the scan both starts on a key and wraps around.
MCHash ==
  [x \in {<<a1, 0>>, <<a1, 1>>, <<a2, 0>>, <<a2, 1>>, q1, q2, q3} |->
     CASE x = <<a1, 0>> -> 1 [] x = <<a1, 1>> -> 4 [] x = <<a2, 0>> -> 6
       [] x = <<a2, 1>> -> 2 [] x = q1 -> 0 [] x = q2 -> 4 [] x = q3 -> 7]
=============================================================================
