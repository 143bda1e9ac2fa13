SPECIFICATION KeptSpec
CONSTANTS
  p1 = p1
  p2 = p2
  p3 = p3
  t1 = t1
  t2 = t2
  t3 = t3
  Processes = {p1, p2, p3}
  Threads = {p1, p2, p3}
  ProcessOf <- OneEach
  Keepers = {p1}
  Faults = {"mutex"}
  MaxCount = 3
  MaxStarts = 2
  MaxHandles = 2
  NoThread = NoThread
PROPERTY EveryCallReturns
