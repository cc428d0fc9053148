SPECIFICATION FairSpec
CONSTANTS
  Conns = {c1}
  SndCap = 1
  RcvCap = 1
  QueueLimit = 1
  MaxMsgs = 6
ACTION_CONSTRAINT EarlyOrLateLoss
PROPERTIES
  EchoedUnlessLost
  LossStopsServer
  LossStopsClient
CHECK_DEADLOCK FALSE
