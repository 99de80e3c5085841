SPECIFICATION Spec
CONSTANTS
  Proc = {p1,p2,p3}
  NoProc = NoProc
  Cmds = {"create","start","exec","exec_detached","kill","delete","delete_force"}
  Faults = {"config","mount","jail","pre_start","validate","crash"}
  ReadonlyRoots = {}
  Overlap = {}
CHECK_DEADLOCK FALSE
SYMMETRY Symmetry
PROPERTIES ImplementsLifecycle
INVARIANTS JailedIsMounted StartedOnce TornHasWriter NoTornLoad StartBeforeRun LoadedIsCurrent
