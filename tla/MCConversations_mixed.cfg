SPECIFICATION FairSpec
CONSTANTS
  c1 = c1
  c2 = c2
  m2 = m2
  Nobody = Nobody
  Conv = {c1}
  Message = {m1, m2}
  ConvOf <- OneConv
  Live = TRUE
  Stepwise = FALSE
  MaxRuns = 1
  MaxPending = 2
  MaxPerConv = 2
  MaxAttempts = 2
  AskKind = {"card"}
  MaxAsks = 2
  MaxFaults = 0
PROPERTIES
  AnswerReachesItsAsk
CHECK_DEADLOCK FALSE
