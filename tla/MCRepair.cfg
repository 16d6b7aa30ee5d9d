CONSTANTS
  Sites <- Deployments
  MaxRepairs = 2
  SerialRepair = TRUE
SPECIFICATION SpecTransfer
INVARIANTS TypeOK OwnNodes StaysTolerant RecordedIsHeld
PROPERTIES WritesWhole Restored ImplementsRepair RequestReturns
CHECK_DEADLOCK FALSE
