SPECIFICATION Spec
CONSTANTS
  w1 = w1
  w2 = w2
  a1 = a1
  a2 = a2
  Writers = {w1}
  Archivers = {a1, a2}
  Keeps = {0, 2}
  MaxEvents = 4
  MaxClaims = 3
INVARIANTS
  TypeOK
  QuiescedRotationIsSafe
  LinksComeFirst
SYMMETRY Processes
CHECK_DEADLOCK FALSE
