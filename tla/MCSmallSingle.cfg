CONSTANTS
  c1 = c1  c2 = c2  k1 = k1  k2 = k2  v1 = v1  v2 = v2
  a1 = a1  a2 = a2  n1 = n1  n2 = n2
  Absent = Absent
  Clients = {c1}
  Keys = {k1, k2}
  KeysOf <- AllKeysOf
  Vals = {v1, v2}
  Size <- UnitAndFull
  AZs = {a1, a2}
  Nodes = {n1, n2}
  K = 2
  ShardSize = 2
  Placements <- OneLayout
  MaxSets = 4
  MaxGets = 2
  SemInit = 0
  ShortReads = FALSE
  SerialUpload = TRUE
SPECIFICATION FairSpec
INVARIANTS TypeOK NoByteLost SlotsFit BookkeepingAgrees BufferedIsCurrent ReadsOrFails
PROPERTIES SetReturns OnlyEarlyGetsStop KeepsPromise
