SPECIFICATION Spec
CONSTANTS
  Calls <- MCCalls
  ChanCap = 1
  MaxRecords = 3
  MaxConns = 2
  MaxFiles = 2
  None = None
CHECK_DEADLOCK FALSE
INVARIANTS
  OncePerRecord
  NothingIsLost
PROPERTIES
  ReportedArrives
