---------------------------- MODULE MCCollections ----------------------------
EXTENDS Collections

CONSTANTS k1, k2, k3, v1, v2

MCKeys == {k1, k2, k3}

\* Keys that share a chain in a table of one and of three buckets, and one that does not.
MCHash == [k \in MCKeys |-> CASE k = k1 -> 0 [] k = k2 -> 3 [] k = k3 -> 1]

MCOthers == {<<<<k1, v1>>>>, <<<<k2, v2>>, <<k3, v1>>, <<k1, v2>>>>}

=============================================================================
