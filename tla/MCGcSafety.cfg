\* Two objects, a header and two strings, of which the string sweep may get to
\* one only; each object holds one reference.
CONSTANTS
  Objs = {o1, o2}
  Leaf = {}
  Hdrs = {h1}
  Strs = {s1, s2}
  StrLimit = 1
  MaxRefs = 1
  Budgets = {2, 3}
  Visits <- SmrecVisits
  MaxRoots = 1
SPECIFICATION MCSpec
SYMMETRY Symmetry
INVARIANTS
  TypeOK
  NoDangling
  AccessibleNotDead
  SweptIsWhite
  TriColour
PROPERTIES
  FullCollectExact
  CycleComplete
\* The program stops when the assertion in gc_collect fails.
CHECK_DEADLOCK FALSE
