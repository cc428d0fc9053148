SPECIFICATION FairSpec
CONSTANTS
  Conns = {c1}
  SndCap = 2
  RcvCap = 3
  RecvMax = 2
  MaxBytes = 5
INVARIANTS
  TypeOK
  OwesTheRest
  RepliesHaveNoGap
  OutlivesItsClients
PROPERTIES
  QuickNetworkEchoes
CHECK_DEADLOCK FALSE
