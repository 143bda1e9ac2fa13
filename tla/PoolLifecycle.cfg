SPECIFICATION FairSpec
CONSTANTS
  ThreadsCount = 2
  Clients = {c1, c2}
  Tasks = {t1, t2}
  Throwing = {t1}
  NoTask = NoTask
PROPERTIES
  ImplementsLifecycle
  StopReturns
  EveryTaskPerformed
