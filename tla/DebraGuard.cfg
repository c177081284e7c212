SPECIFICATION Spec
CONSTANTS
  o1 = o1
  NUM_PROCESSES = 2
  MIN_OPS_BEFORE_READ = 2
  Objects = {o1}
  InTransaction = FALSE
  MaxEpoch = 14
INVARIANTS
  GuardProtects
  ScanInBounds
  Accounted
  HasBag
