SPECIFICATION Spec
CONSTANTS
  c1 = c1
  c2 = c2
  n1 = n1
  n2 = n2
  Nothing = Nothing
  Stream = {s1}
  Note = {}
  Artifact = {a1}
  Run = {x1}
  Conv = {c1}
  ConvOf <- OneConv
  MaxAttempts = 2
  BatchSize = 2
  MaxRows = 2
  MaxFaults = 2
  MaxRequeues = 1
INVARIANTS
  TypeOK
  DeliveredOnce
  FinalIsLast
  ArtifactRetained
  SpoolAccounted
  DuplicatesCostFaults
  LeaseHasDispatcher
PROPERTIES
  VerdictsAreFinal
  
CHECK_DEADLOCK FALSE
