SPECIFICATION Spec
CONSTANTS
  Proc = {p1,p2,p3,p4}
  NoProc = NoProc
  Cmds = {"create","delete"}
  Faults = {}
  ReadonlyRoots = {}
  Overlap = {}
CHECK_DEADLOCK FALSE
SYMMETRY Symmetry
INVARIANTS HooksNotRepeated
