SPECIFICATION Spec
CONSTANTS
  Proc = {p1,p2}
  NoProc = NoProc
  Cmds = {"create","start"}
  Faults = {}
  ReadonlyRoots = {}
  Overlap = {"create","start"}
CHECK_DEADLOCK FALSE
SYMMETRY Symmetry
INVARIANTS NoLostStart
