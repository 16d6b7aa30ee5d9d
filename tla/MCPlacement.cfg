CONSTANTS
  Deployments <- Spread
SPECIFICATION FairSpec
INVARIANTS TypeOK DistinctNodes AzTolerant SmallGroupsTolerant RepairIsLocal
PROPERTIES Returns
