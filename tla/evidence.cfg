SPECIFICATION Spec
CONSTANTS
  p1 = p1
  p2 = p2
  Procs = {p1, p2}
  MaxKeys = 3
  MaxOps = 3
  MaxEvents = 4
  Keep = 1
INVARIANTS
  TypeOK
  SignedIsTrusted
  JournalVerifies
  WitnessTellsLoss
  BoundIsKept
SYMMETRY Processes
CHECK_DEADLOCK FALSE
