SPECIFICATION Spec
CONSTANTS
  Id = {1, 2}
  Conv = {c1, c2}
  Owner = {o1, o2}
  NoOwner = NoOwner
  Lease = 1
  Lifetime = 1
  Retention = 1
  MaxNow = 3
  MaxRows = 2
  MaxAttempts = 2
SYMMETRY Symmetry
INVARIANTS
  StoresAgree
CHECK_DEADLOCK FALSE
