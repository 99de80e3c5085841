SPECIFICATION FairSpec
CONSTANTS
  Proc = {p1,p2,p3}
  NoProc = NoProc
  Cmds = {"create","start","exec_detached","kill","state","delete"}
  Faults = {}
  ReadonlyRoots = {}
  Overlap = {}
CHECK_DEADLOCK FALSE
PROPERTIES AllReturn StartDelivers
