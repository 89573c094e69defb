SPECIFICATION Spec
CONSTANTS
  a1 = a1
  a2 = a2
  pa = pa
  pb = pb
  k1 = k1
  k2 = k2
  NoKey = NoKey
  Keys = {k1}
  Callers = {pa, pb}
  Procs = {pa, pb}
  ProcOf <- OneThreadPerProcess
  Calls <- KeyedCalls
  FileBacked = TRUE
  CompletedMax = 1
  MaxEvents = 5
PROPERTIES
  ResolvedCompletedBlocks
