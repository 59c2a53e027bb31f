SPECIFICATION PathSpec
CONSTANTS
  Binary = {"nginx", "bash"}
  Namespace = {"kube-system"}
  Label = {"env=prod"}
  Pattern = {"nginx", "*sh", "kube-*"}
  Covers <- MCCovers
  CommKey <- MCCommKey
  Uid = {0, 1000}
  Port = {80, 4444}
  Path = {"/etc/shadow", "/bin/bash"}
  Prefix = {"/etc/shadow", "/bin/"}
  Under <- MCUnder
  None = None
  FastPaths <- MCFastPaths
  Scopes <- MCScopes
  Syscalls <- MCSyscalls
  Reports <- MCReports
INVARIANTS
  KernelBlocksOnlyBlocked
  KernelBlocksEveryBlockedExec
