SPECIFICATION Spec
CONSTANTS
  Conns = {c1, c2}
  SndCap = 1
  RcvCap = 1
  QueueLimit = 0
  MaxMsgs = 1
CONSTRAINT OneLossAtATime
PROPERTIES
  NoReplyAbandoned
CHECK_DEADLOCK FALSE
