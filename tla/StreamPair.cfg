SPECIFICATION Spec
CONSTANTS
  Conns = {c1}
  SndCap = 3
  RcvCap = 2
  RecvMax = 2
  MsgLen = 2
  BufLimit = 2
  MaxMsgs = 3
INVARIANTS
  TypeOK
  KeptUnlessClash
  LengthBounded
  StaysInBlock
  FramesAreMessages
CONSTRAINTS
  RightSoFar
CHECK_DEADLOCK FALSE
