CONSTANTS
  Queues = {q1, q2}
  Nodes = {n1, n2, n3, n4}
  Elements = {a, b}
  NULL = NULL
  Cars = {c1, c2, c3}
  Plates = {p1, p2}
SYMMETRY QueueSymmetry
SPECIFICATION MCSpec
INVARIANTS WellFormed NoLeak
PROPERTIES ImplementsFifo ListActsAsStack
