SPECIFICATION AnsweredSpec
CONSTANTS
  Recorder <- MCRecorder
  QueueCap = 1
  Verdicts = {"Allowed", "Alerted"}
  MaxCalls = 1
  None = None
  MaxEvents = 2
  RawCap = 1
  SlowCap = 1
  TuiCap = 1
CHECK_DEADLOCK FALSE
INVARIANTS
  OneIncidentPerEvent
PROPERTIES
  Delivers
  EventsArrive
  ReloadsAreTaken
