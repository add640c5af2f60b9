SPECIFICATION PositionSpec
CONSTANTS
  MaxMarks = 2
  MaxMounts = 1
  MaxReplaces = 0
  MaxOther = 0
  MaxClock = 1
  MaxAir = 2
INVARIANT CrashGuardHolds
CHECK_DEADLOCK FALSE
