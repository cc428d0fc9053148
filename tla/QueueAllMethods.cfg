SPECIFICATION FairSpec
CONSTANTS
  Threads = {t1, t2, t3}
  Free = Free
  MaxCalls = 2
  MaxSpurious = 1
  MaxThrows = 1
INVARIANTS
  TypeOK
  MutualExclusion
  Fifo
  NoLostWakeup
PROPERTIES
  SleeperServed
  ImplementsFifo
CHECK_DEADLOCK FALSE
