SPECIFICATION LiveSpec
CONSTANTS
  s1 = s1
  s2 = s2
  k1 = k1
  Sessions = {s1, s2}
  Cards = {k1}
  Settings <- EitherSetting
  MaxRecycles = 1
INVARIANTS TypeOK   
PROPERTIES SweepSparesLive DeadIsFreed
CHECK_DEADLOCK FALSE
