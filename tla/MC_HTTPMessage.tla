---------------------------- MODULE MC_HTTPMessage ----------------------------
EXTENDS HTTPMessage

CONSTANTS a1, a2, r1, r2

\* Two backends of one virtual node each, so that one can be ready while
\* the other is down; two requests.
MCAddrs == {a1, a2}
MCReqs == {r1, r2}
MCHash == [k \in {<<a1, 0>>, <<a2, 0>>} |-> IF k[1] = a1 THEN 1 ELSE 3]
=============================================================================
