SPECIFICATION Spec
CONSTANTS
  c1 = c1
  c2 = c2
  f3 = f3
  k1 = k1
  NoKey = NoKey
  Keys = {k1}
  Processes <- TwoAndOne
  Callers = {c1, c2}
  OneHost = FALSE
INVARIANTS
  TypeOK
  OneReservationPerProcess
  ChainHoldsWithoutGap
SYMMETRY Alike
CHECK_DEADLOCK FALSE
CONSTRAINT OneGap
