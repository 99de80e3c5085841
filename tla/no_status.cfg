SPECIFICATION Spec
CONSTANTS
  Proc = {p1}
  NoProc = NoProc
  Cmds = {"create"}
  Faults = {"pre_start"}
  ReadonlyRoots = {}
  Overlap = {}
CHECK_DEADLOCK FALSE
SYMMETRY Symmetry
INVARIANTS StatusCanCome
