CONSTANTS
  Deployments <- Cut
SPECIFICATION FairSpec
INVARIANTS BestTolerant
