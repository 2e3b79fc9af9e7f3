\* Directories inside a directory (MaxDepth), a second bank of directories and of
\* files, and memory that may fail after every second node of the trie.
CONSTANTS
  Slash <- MCSlash
  Names <- MCNames
  Words <- MCWords
  Data <- MCData
  MaxDepth = 1
  StrMax = 2
  BankSize = 2
  MaxNodes = 8
  DirBank = 2
  FileBank = 2
  MaxDirs = 4
  MaxFiles = 3
  NoData = NoData

SPECIFICATION PSpec

INVARIANTS
  PTypeOK
  FindsWhatIsIn
  TopsStay
