SPECIFICATION DoubleFreeSpec
CONSTANTS
  Threads = {t1, t2}
  BlockCount = 3
  None = none
INVARIANT MutexReleased
