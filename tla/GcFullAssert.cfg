\* Six objects of the kind that the collector's tests use, none of which refers to
\* another, and the budget of the code.
CONSTANTS
  Objs = {o1, o2, o3, o4, o5, o6}
  Leaf = {}
  Hdrs = {}
  Strs = {}
  StrLimit = 100
  MaxRefs = 0
  Budgets = {20}
  Visits <- TestobjVisits
  MaxRoots = 6
SPECIFICATION MCSpec
SYMMETRY Symmetry
INVARIANTS
  FullCollectAssert
