SPECIFICATION Spec
CONSTANTS
  t1 = t1
  Turn = {t1, t2}
  Call = {a1, a2}
  Carded = {a1}
  Caller <- FirstTurn
  MaxFaults = 1
  MaxRestarts = 1
INVARIANTS
  TypeOK
  AnswerIsDurable
  ToldTheTruth
  ApprovableHasWaiter
PROPERTIES
  CancelHitsOwnRun
CHECK_DEADLOCK FALSE
