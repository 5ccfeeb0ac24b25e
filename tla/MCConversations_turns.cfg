SPECIFICATION Spec
CONSTANTS
  c1 = c1
  c2 = c2
  m2 = m2
  Nobody = Nobody
  Conv = {c1, c2}
  Message = {m1, m2, m3}
  ConvOf <- TwoConvs
  Live = FALSE
  Stepwise = FALSE
  MaxRuns = 1
  MaxPending = 2
  MaxPerConv = 2
  MaxAttempts = 2
  AskKind = {"text", "actions"}
  MaxAsks = 1
  MaxFaults = 2
INVARIANTS
  TypeOK
  SlotsExact
  ReservationsExact

  
CHECK_DEADLOCK FALSE
