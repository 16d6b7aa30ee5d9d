CONSTANTS
  Sites <- RowsSite
  MaxRepairs = 1
  SerialRepair = TRUE
SPECIFICATION SpecTransfer
PROPERTIES RepairsRecoverable
CHECK_DEADLOCK FALSE
