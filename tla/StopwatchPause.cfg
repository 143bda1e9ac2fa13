SPECIFICATION FairSpec
CONSTANTS
  Names = {all}
  MaxTime = 2
  Absent = Absent
  NoName = NoName
CHECK_DEADLOCK FALSE
PROPERTY PauseCompletes
