SPECIFICATION Spec
CONSTANTS
  Proc = {p1,p2,p3}
  NoProc = NoProc
  Cmds = {"create","start","exec","exec_detached","kill","state","list","delete","delete_force"}
  Faults = {"unmount","unmount_root"}
  ReadonlyRoots = {p1,p2,p3}
  Overlap = {"create","start","exec","exec_detached","kill","state","list","delete","delete_force"}
CHECK_DEADLOCK FALSE
SYMMETRY Symmetry
INVARIANTS LockHeld StoppedIsGone CreatedWaits 
