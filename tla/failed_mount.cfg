SPECIFICATION Spec
CONSTANTS
  Trees <- MCTrees
  Lists <- MCLists
  Faults = {"mount"}
  MaxSymlinks = 32
CHECK_DEADLOCK FALSE
INVARIANTS FailedMountCleans
