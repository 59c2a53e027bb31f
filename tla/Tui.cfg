SPECIFICATION Spec
CONSTANTS
  Pid <- MCPid
  Cap = 2
  Sessions <- MCSessions
  None = None
CHECK_DEADLOCK FALSE
INVARIANTS
  DecisionFollowsDisplay
  PopupKeepsRow
  TreeShowsAll
  UnsavedIsMarked
PROPERTIES
  KeysAreHandled
