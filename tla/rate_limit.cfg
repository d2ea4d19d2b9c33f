SPECIFICATION FairSpec
CONSTANTS
  Address = {c1}
  Limits <- MCLimits
  Intervals <- MCIntervals
  BlockTimes <- MCBlockTimes
  Second = 2
  Faulty = TRUE
INVARIANTS
  TypeOK
  AtMostTwoWindows
PROPERTIES
  LimitEnds
