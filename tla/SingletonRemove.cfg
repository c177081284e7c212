SPECIFICATION FairSpec
CONSTANTS
  t1 = t1  t2 = t2
  n1 = n1  n2 = n2  n3 = n3  n4 = n4
  v1 = v1
  head = head
  Null = Null
  NoVal = NoVal
  Threads = {t1, t2}
  Nodes = {n1, n2, n3, n4}
  Keys = {2, 3, 4, 5}
  Vals = {v1}
  InitKey <- InitFour
  Tasks <- TasksRemove
  Modes <- ModesSingleton
  OpsPerTx = 2
INVARIANTS
  LockOwnership
  NoLostNode
  RetiredUnlinked
PROPERTIES
  NodeStable
  Termination
