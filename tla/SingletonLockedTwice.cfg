SPECIFICATION Spec
CONSTANTS
  p1 = p1
  p2 = p2
  p3 = p3
  t1 = t1
  t2 = t2
  t3 = t3
  Processes = {p1}
  Threads = {p1}
  ProcessOf <- OneEach
  Keepers = {}
  Faults = {}
  MaxCount = 7
  MaxStarts = 1
  MaxHandles = 2
  NoThread = NoThread
INVARIANT LockedTwice
