SPECIFICATION Spec
CONSTANTS
  Trees <- MCTrees
  Lists <- MCLists
  Faults = {"mount","unmount","unmount_root","write","source"}
  MaxSymlinks = 32
CHECK_DEADLOCK FALSE
INVARIANTS TypeOK ResolveAgrees InsideRoot MadeIsRecorded OriginalKept DeleteRestores StuckForAReason SecondPassCleans
