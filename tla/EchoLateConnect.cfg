SPECIFICATION Spec
CONSTANTS
  Conns = {c1}
  SndCap = 1
  RcvCap = 1
  QueueLimit = 2
  MaxMsgs = 3
INVARIANTS
  SleepCoversConnect
CHECK_DEADLOCK FALSE
