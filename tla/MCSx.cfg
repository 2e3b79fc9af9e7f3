CONSTANTS
  Base = 256
  W = 8
  DecDigits = 2
  StackMin = 1
  AgUnit = 4
  MaxFail = 3
  SxTexts <- MCTexts
SPECIFICATION Spec
INVARIANTS
  TypeOK
  ReadsTheText
  OpenListsNest
  NothingDangles
  RoundTrip
CHECK_DEADLOCK FALSE
