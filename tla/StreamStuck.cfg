SPECIFICATION FairSpec
CONSTANTS
  Conns = {c1}
  SndCap = 2
  RcvCap = 2
  RecvMax = 2
  MaxBytes = 4
PROPERTIES
  ShortStringsComeBack
CHECK_DEADLOCK FALSE
