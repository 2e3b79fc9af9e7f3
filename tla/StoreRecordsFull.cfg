\* Three records with a reference each, one entry in the roots vector.
CONSTANTS
  Objs = {r1, r2, r3}
  Leaf = {}
  Hdrs = {}
  Strs = {}
  Nil = nil
  StrLimit = 0
  MaxRefs = 1
  Budgets = {2, 3}
  Visits <- SmrecVisits
  MaxRoots = 1
SPECIFICATION FullSpec
INVARIANTS
  UpdatesSurvive
  PointerIsRid
  NoDangling
