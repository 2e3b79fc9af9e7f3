\* An object that is propagated and one that is not, a header and a string, which
\* the string sweep always gets to; the roots vector has room for a duplicate entry.
CONSTANTS
  Objs = {o1, o2}
  Leaf = {o2}
  Hdrs = {h1}
  Strs = {s1}
  StrLimit = 1
  MaxRefs = 1
  Budgets = {2, 3}
  Visits <- SmrecVisits
  MaxRoots = 2
SPECIFICATION FairSpec
PROPERTIES
  GarbageFreed
  FullCollectExactStrings
  ImplementsHeap
\* The program stops when the assertion in gc_collect fails.
CHECK_DEADLOCK FALSE
