SPECIFICATION FairSpec
CONSTANTS
  Timers = {t1, t2}
  Delays = {0, 1, 2, 7, 8, 13}
  Bits0 = 1
  Bits = 2
  Sets = 2
  Horizon = 31
  Careful = FALSE
INVARIANT RunsOnTime
