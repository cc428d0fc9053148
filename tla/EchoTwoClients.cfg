SPECIFICATION Spec
CONSTANTS
  Conns = {c1, c2}
  SndCap = 1
  RcvCap = 1
  QueueLimit = 0
  MaxMsgs = 2
SYMMETRY ClientSymmetry
CONSTRAINTS
  OneLossAtATime
  LossBeforeSecond
INVARIANTS
  EchoesInOrder
  StopsOnlyAfterFailure
CHECK_DEADLOCK FALSE
