CONSTANTS
  Base = 256
  W = 8
  DecDigits = 2
  Texts <- MCTexts
  Operands <- MCOperands
  Shifts <- MCShifts
  MaxBits = 29
  MaxGiven = 1
  MaxCalls = 2
SPECIFICATION Spec
INVARIANTS
  TypeOK
  ReadsRight
  InBounds
  ResultsExact
  TextRoundTrips
CHECK_DEADLOCK FALSE
