SPECIFICATION TXSpec
CONSTANTS
  t1 = t1  t2 = t2
  n1 = n1  n2 = n2  n3 = n3  n4 = n4
  v1 = v1  v2 = v2
  head = head
  Null = Null
  NoVal = NoVal
  Threads = {t1, t2}
  Nodes = {n1, n2, n3}
  Keys = {1, 2, 3}
  Vals = {v1}
  InitKey <- InitTwo
  Tasks <- TasksLost
  OpsPerTx = 2
SYMMETRY FreshNodes
INVARIANTS
  NoLostNode
