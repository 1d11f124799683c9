--------------------------- MODULE MCGossipRouting ---------------------------
(* Small federations for TLC. *)
EXTENDS GossipRouting

CONSTANTS r1, r2, r3

Chain == {<<r2, r1>>, <<r2, r3>>}
Pair == {<<r1, r2>>}

\* A dial comes from the relay that is not linked yet, or restores the first link.
LateDials == \A l \in open' \ open : l[1] = r3 \/ l \in Pair
=============================================================================
