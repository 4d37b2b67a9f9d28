CONSTANTS
  Paths = {"empty", "short", "dir/a", "other/a", "locked"}
  Basename <- MCBasename
  Content <- MCContent
  Unreadable = {"locked"}
  MaxArgs = 3
  MaxFiles = 3
  HostFails = FALSE
  Uninit = 99
SPECIFICATION Spec
INVARIANTS EveryFileHeld
CHECK_DEADLOCK FALSE
