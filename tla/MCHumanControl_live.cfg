SPECIFICATION FairSpec
CONSTANTS
  t1 = t1
  Turn = {t1}
  Call = {a1, a2}
  Carded = {a1}
  Caller <- FirstTurn
  MaxFaults = 1
  MaxRestarts = 1
PROPERTIES
  EveryCallReturns
  StopFinishes
CHECK_DEADLOCK FALSE
