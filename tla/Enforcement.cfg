SPECIFICATION Spec
CONSTANTS
  Binary = {"nginx", "bash"}
  Namespace = {}
  Label = {}
  Pattern = {"nginx", "bash"}
  Covers <- MCCovers
  CommKey <- MCCommKey
  Uid = {0, 1000}
  Port = {4444}
  Path = {"/etc/shadow"}
  Prefix = {}
  Under <- MCUnder
  None = None
  Process = {"p1"}
  FirstComm <- MCFirstComm
  UidOf <- MCUidOf
  Dirs <- MCDirs
  Builtin <- MCBuiltin
  MaxEntries = 2
  RingCap = 1
INVARIANTS
  ReloadKeepsKernelInStep
  KillsAreAudited
PROPERTIES
  BlockingIsJustified
