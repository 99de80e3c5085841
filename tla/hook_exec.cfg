SPECIFICATION Spec
CONSTANTS
  Proc = {p1}
  NoProc = NoProc
  Cmds = {"create"}
  Faults = {"hook"}
  ReadonlyRoots = {}
  Overlap = {}
CHECK_DEADLOCK FALSE
SYMMETRY Symmetry
INVARIANTS FailedChildStops
