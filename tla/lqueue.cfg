CONSTANTS
  Queues = {q1}
  Nodes = {n1, n2, n3}
  Elements = {a, b}
  NULL = NULL
  Threads = {t1, t2}
  NoThread = NoThread
  MaxOps = 3
SPECIFICATION LSpec
INVARIANTS FirstInFirstOut Snapshot NoDangling
PROPERTIES EveryCallReturns
