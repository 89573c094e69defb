SPECIFICATION Spec
CONSTANTS
  t1 = t1
  t2 = t2
  u1 = u1
  pt = pt
  pu = pu
  Threads = {t1, t2, u1}
  Procs = {pt, pu}
  ProcOf <- ThreeThreads
  act1 = act1
  act2 = act2
  Actions = {act1, act2}
  NoRequest = NoRequest
  NoThread = NoThread
  NoSpend = NoSpend
  Spends = {1, 2}
  Limit = 2
  Window = 2
  File = File
  Corrupt = Corrupt
  MaxClock = 2
  MaxBoots = 1
  MaxCalls = 3
INVARIANTS
  TypeOK
  BudgetHolds
  RateHolds
SYMMETRY Threads12
CHECK_DEADLOCK FALSE
