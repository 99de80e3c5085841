SPECIFICATION Spec
CONSTANTS
  Proc = {p1,p2,p3}
  NoProc = NoProc
  Cmds = {"create","start","exec","exec_detached","kill","state","list","delete","delete_force"}
  Faults = {"config","mount","jail","pre_start","validate","hook","fork"}
  ReadonlyRoots = {p1,p2,p3}
  Overlap = {"exec","exec_detached"}
CHECK_DEADLOCK FALSE
SYMMETRY Symmetry
INVARIANTS JailedIsMounted DeleteComplete CreatedWaits FailedCreateGone StartedOnce
