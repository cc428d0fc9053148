SPECIFICATION Spec
CONSTANTS
  ClockDigits = 2
  Sizes = {1, 2, 3, 12, 47}
  Clocks = {10, 12, 15}
  IntBits = 4
  WordBits = 6
  Window = 2
  RefreshAfter = 3
  MaxMade = 4
  MaxFlight = 2
INVARIANTS
  TypeOK
  MessageCarriesItsClock
  PaddingTellsItsPlace
  AveragesRight
CHECK_DEADLOCK FALSE
