SPECIFICATION Spec
CONSTANTS
  Proc = {p1,p2,p3,p4}
  NoProc = NoProc
  Cmds = {"create","start","exec","exec_detached","kill","state","list","delete","delete_force"}
  Faults = {}
  ReadonlyRoots = {p1,p2,p3,p4}
  Overlap = {}
CHECK_DEADLOCK FALSE
SYMMETRY Symmetry
INVARIANTS TypeOK LoadedIsCurrent StartedOnce HookOrder NoLostStart Settled DeleteComplete PoststopOnce RemovesUnmounted ExecStatusCanCome
PROPERTIES StatusForward
