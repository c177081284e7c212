SPECIFICATION FairSpec
CONSTANTS
  t1 = t1  t2 = t2
  q1 = q1  q2 = q2
  a = a  b = b  c = c  d = d
  Threads = {t1, t2}
  Queues = {q1, q2}
  Vals = {a, b, c, d}
  Null = Null
  Empty = Empty
  Contents <- ContentsRace
  Tasks <- TasksRace
INVARIANTS
  FifoSerializable
  Linked
  NoFailedAssert
PROPERTIES
  Termination
