SPECIFICATION Spec
CONSTANTS
  Conns = {c1}
  SndCap = 2
  RcvCap = 2
  RecvMax = 2
  MaxBytes = 3
PROPERTIES
  ReturnsActualSize
CHECK_DEADLOCK FALSE
