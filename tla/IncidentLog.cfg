SPECIFICATION FairSpec
CONSTANTS
  Recorder <- MCRecorder
  QueueCap = 2
  Verdicts = {"Allowed", "Alerted"}
  MaxCalls = 2
  None = None
CHECK_DEADLOCK FALSE
INVARIANTS
  LogInOrder
PROPERTIES
  RecordReturns
  QueueDrains
