SPECIFICATION Spec
CONSTANTS
  o1 = o1
  NUM_PROCESSES = 2
  MIN_OPS_BEFORE_READ = 1
  Objects = {o1}
  InTransaction = TRUE
  MaxEpoch = 14
INVARIANTS
  SetsProtected
