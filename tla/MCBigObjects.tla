---------------------------- MODULE MCBigObjects ----------------------------
(* Small instances of BigObjects: RS with k = 2 and g_m = 1, or with one of *)
(* each, and one datanode per block.                                        *)
EXTENDS BigObjectsInv

CONSTANTS c1, c2, k1, k2, v1, v2, a1, a2, n1, n2, n3

OwnKeysOf    == [c \in Clients |-> IF c = c1 THEN {k1} ELSE {k2}]
AllKeysOf    == [c \in Clients |-> Keys]

BlockSet == 1..3
TwoBlocks == 1..2
OnePlacement  == {<<n1, n2, n3>>}
PairPlacement == {<<n1, n2>>}
=============================================================================
