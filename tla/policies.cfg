SPECIFICATION Spec
CONSTANTS
  t1 = t1
  t2 = t2
  Threads = {t1, t2}
  pay = pay
  mail = mail
  Actions = {pay, mail}
  low = low
  high = high
  Risks = {low, high}
  Policies <- Compositions
  RuleFiles <- Files
  Listed = {pay}
  ListedRisks = {high}
  Gated = {high}
  Approvers = {"operator"}
  Nobody = Nobody
  Malformed = Malformed
  Limit = 1
  MaxAge = 1
  MaxCalls = 2
  MaxClock = 3
INVARIANTS
  TypeOK
  FailsClosed
  GatesHold
  BudgetCoversAllowed
SYMMETRY Interchangeable
CHECK_DEADLOCK FALSE
