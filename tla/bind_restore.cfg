SPECIFICATION Spec
CONSTANTS
  Trees <- MCTrees
  Lists <- MCLists
  Faults = {}
  MaxSymlinks = 32
CHECK_DEADLOCK FALSE
INVARIANTS SavedIsRestored
