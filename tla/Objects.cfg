SPECIFICATION ObjectsSpec
CONSTANTS
  Names = {s1, s2}
  MaxTime = 7
  Absent = Absent
  NoName = NoName
  None = None
  g1 = g1
  g2 = g2
  GuidVariables <- TwoGuids
  Uuids = {u1, u2}
  Strings = {r1, r2, r3}
  Bitmaps = {b1, b2, b3}
  Combinations <- CtrlAndX
  MaxAccelerators = 2
  Width = 4
  Sizes = {1, 2, 3}
  FirstSize = 2
  MaxChanges = 3
  Adapters <- UpToTwo
  Addresses = {{}, {0, 2}, {1, 2, 3}, {0, 1, 2, 3}}
INVARIANTS
  PartsTypeOK
  ElapsedIsRunTime
  CachedStringIsCurrent
  StringsOwnedOnce
  NothingHeld
  BitmapsAccounted
  BlockFits
  BroadcastIsHighest
PROPERTIES
  OncePerPress
  StateFollowsKeys
  ConstructorReturns
CHECK_DEADLOCK FALSE
