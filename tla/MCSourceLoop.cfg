CONSTANTS
  Requests = 2
  MaxLog = 3
  MaxFailures = 2
  MaxBrokerFailures = 1
  MaxCrashes = 2
SPECIFICATION LoopSpec
\* A stopped loop has nothing left to do.
CHECK_DEADLOCK FALSE
INVARIANT HolesAreAccounted
PROPERTY CompletenessIsBacked
PROPERTY CancelStops
