SPECIFICATION FairSpec
CONSTANTS
  Binary = {"nginx", "bash"}
  Namespace = {}
  Label = {}
  Pattern = {"nginx", "bash"}
  Covers <- MCCovers
  CommKey <- MCCommKey
  Uid = {0, 1000}
  Port = {4444}
  Path = {"/etc/shadow"}
  Prefix = {}
  Under <- MCUnder
  None = None
  Process = {}
  FirstComm <- MCFirstComm
  UidOf <- MCUidOf
  Dirs <- MCDirsFiles
  Builtin <- MCBuiltin
  MaxEntries = 1
  RingCap = 1
INVARIANTS
  KeysComeFromRules
  SettledMapsAreComplete
PROPERTIES
  ChangesReachFastPath
  ChangesReachKernel
