SPECIFICATION KeptSpec
CONSTANTS
  p1 = p1
  p2 = p2
  p3 = p3
  t1 = t1
  t2 = t2
  t3 = t3
  Processes = {p1, p2}
  Threads = {t1, t2, t3}
  ProcessOf <- TwoAndOne
  Keepers = {p1}
  Faults = {"mutex"}
  MaxCount = 7
  MaxStarts = 2
  MaxHandles = 3
  NoThread = NoThread
INVARIANTS
  MutualExclusion
  CountCoversUsers
PROPERTY AloneWithObject
CHECK_DEADLOCK FALSE
