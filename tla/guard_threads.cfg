SPECIFICATION Spec
CONSTANTS
  a1 = a1
  a2 = a2
  pa = pa
  pb = pb
  k1 = k1
  k2 = k2
  NoKey = NoKey
  Keys = {k1, k2}
  Callers = {a1, a2}
  Procs = {pa}
  ProcOf <- TwoThreads
  Calls <- ThreadCalls
  FileBacked = TRUE
  CompletedMax = 1
  MaxEvents = 4
INVARIANTS
  TypeOK
  CompletedIsRecorded
  EvidenceIsTrue
  OneRunPerRelease
  DuplicatesAreJustified
SYMMETRY ThreadsAndKeys
