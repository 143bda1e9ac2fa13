SPECIFICATION Spec
CONSTANTS
  p1 = p1
  p2 = p2
  p3 = p3
  t1 = t1
  t2 = t2
  t3 = t3
  Processes = {p1, p2}
  Threads = {p1, p2}
  ProcessOf <- OneEach
  Keepers = {}
  Faults = {"crash", "ctor", "hook", "mapping", "mutex"}
  MaxCount = 7
  MaxStarts = 3
  MaxHandles = 2
  NoThread = NoThread
SYMMETRY Symmetry
INVARIANTS
  MutualExclusion
  CountCoversUsers
PROPERTY AloneWithObject
