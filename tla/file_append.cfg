SPECIFICATION Spec
CONSTANTS
  p1 = p1
  p2 = p2
  NoProc = NoProc
  Procs = {p1, p2}
  Faults = {"kill", "sync", "full"}
  MaxAppends = 4
INVARIANTS
  TypeOK
  AckedIsReadable
  IndexIsExact
SYMMETRY Processes
CHECK_DEADLOCK FALSE
