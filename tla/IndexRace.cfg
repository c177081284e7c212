SPECIFICATION Spec
CONSTANTS
  t1 = t1  t2 = t2
  n1 = n1  n2 = n2  n3 = n3
  head = head
  Null = Null
  Threads = {t1, t2}
  Nodes = {n1, n2, n3}
  Key <- Keys1
  MaxLevel = 3
  MaxHeads = 6
  Starts <- StartsRace
  Calls <- CallsRace
INVARIANTS
  LevelsSorted
  HeadsLinked
  Assertions
  Purged
PROPERTIES
  Promise
