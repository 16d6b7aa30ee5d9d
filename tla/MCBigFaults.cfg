CONSTANTS
  c1 = c1  c2 = c2  k1 = k1  k2 = k2  v1 = v1  v2 = v2
  a1 = a1  a2 = a2  n1 = n1  n2 = n2  n3 = n3
  Absent = Absent
  Clients = {c1, c2}
  Keys = {k1, k2}
  KeysOf <- OwnKeysOf
  Vals = {v1}
  AZs = {a1}
  Nodes = {n1, n2}
  Shards <- TwoBlocks
  K = 1
  Placements <- PairPlacement
  MaxStripes = 1
  MaxSets = 3
  MaxGets = 2
  Crashable = {n1}
  GetUnset = TRUE
  SerialAlloc = TRUE
SPECIFICATION Spec
INVARIANTS TypeOK CommittedIsStored CommitIsOwn
CHECK_DEADLOCK FALSE
