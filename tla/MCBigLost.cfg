CONSTANTS
  c1 = c1  c2 = c2  k1 = k1  k2 = k2  v1 = v1  v2 = v2
  a1 = a1  a2 = a2  n1 = n1  n2 = n2  n3 = n3
  Absent = Absent
  Clients = {c1}
  Keys = {k1}
  KeysOf <- AllKeysOf
  Vals = {v1}
  AZs = {a1}
  Nodes = {n1, n2, n3}
  Shards <- BlockSet
  K = 2
  Placements <- OnePlacement
  MaxStripes = 1
  MaxSets = 1
  MaxGets = 1
  Crashable = {n1}
  GetUnset = FALSE
  SerialAlloc = TRUE
SPECIFICATION Spec
INVARIANTS ReadBack
