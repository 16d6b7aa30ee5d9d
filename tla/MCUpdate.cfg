CONSTANTS
  Sites <- Deployments
  MaxUpdates = 2
  Excess = 1
  OutOfRange <- BothOutcomes
SPECIFICATION Spec
INVARIANTS TypeOK SplitExact SlicesMatchAzs ParitiesNamed LeavesTables
PROPERTIES UpdateReturns
CHECK_DEADLOCK FALSE
