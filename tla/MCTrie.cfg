\* Six words, four of which share beginnings; the nodes for all of them do not fit, and a
\* new bank is needed after every second node.
CONSTANTS
  Words <- MCWords
  Data = {d1, d2}
  StrMax = 2
  BankSize = 2
  MaxNodes = 5
  NoData = NoData

SPECIFICATION Spec
SYMMETRY Symmetry

INVARIANTS
  TypeOK
  FindsWhatIsIn
  IteratesInOrder
  NodesAccounted
  NoDeadEnds
