SPECIFICATION Spec
CONSTANTS
  c1 = c1
  c2 = c2
  m2 = m2
  Nobody = Nobody
  Conv = {c1}
  Message = {m1, m2}
  ConvOf <- OneConv
  Live = TRUE
  Stepwise = TRUE
  MaxRuns = 2
  MaxPending = 2
  MaxPerConv = 2
  MaxAttempts = 1
  AskKind = {"card", "text", "actions"}
  MaxAsks = 2
  MaxFaults = 1
INVARIANTS
  OneTurnPerConversation
  OneOpenAsk
  NobodyStranded
PROPERTIES
  VerdictsStand
CHECK_DEADLOCK FALSE
