SPECIFICATION ChoiceSpec
CONSTANTS
  ThreadsCount = 2
  Clients = {c1, c2}
  Tasks = {t1, t2, t3}
  Throwing = {t1, t2, t3}
  NoTask = NoTask
SYMMETRY Symmetry
INVARIANTS
  TypeOK
  TaskInOnePlace
  NothingLost
  PriorityOrder
  StartedOrQuiet
  ChosenWasShort
PROPERTIES
  NoOvertaking
