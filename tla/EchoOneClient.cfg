SPECIFICATION Spec
CONSTANTS
  Conns = {c1}
  SndCap = 1
  RcvCap = 1
  QueueLimit = 2
  MaxMsgs = 7
INVARIANTS
  TypeOK
  SendPathConserves
  BacklogBounded
  EchoPathConserves
PROPERTIES
  StalledForGood
  ImplementsEcho
CHECK_DEADLOCK FALSE
