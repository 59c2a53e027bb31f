SPECIFICATION Spec
CONSTANTS
  Node = {n1, n2}
  Pid = {p1, p2}
  FirstPid = p1
  Binary = {b1}
  Text = {a, b}
  Dim = {d1, d2}
  Times <- MCTimes
  Events <- MCEvents
  Configs <- MCConfigs
  WindowNs = 1
  MaxPerPid = 2
  MaxEvents = 4
  MaxReloads = 1
  None = None
SYMMETRY MCSymmetry
CHECK_DEADLOCK FALSE
INVARIANTS
  ContextIsPast
  SettledCollectionFits
PROPERTIES
  RepeatsAreNormal
