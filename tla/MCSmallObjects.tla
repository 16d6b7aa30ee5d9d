--------------------------- MODULE MCSmallObjects ---------------------------
(* Small instances of SmallObjects: two buffers of two units, one value that *)
(* fills half a buffer and one that fills a whole one.                       *)
EXTENDS SmallObjectsInv

CONSTANTS c1, c2, k1, k2, v1, v2, a1, a2, n1, n2

OwnKeysOf == [c \in Clients |-> IF c = c1 THEN {k1} ELSE {k2}]
AllKeysOf == [c \in Clients |-> Keys]
UnitAndFull == [v \in Vals |-> IF v = v1 THEN 1 ELSE 2]

OneLayout == {[i \in Buffers |-> IF i = 0 THEN n1 ELSE n2]}
=============================================================================
