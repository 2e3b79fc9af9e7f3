\* Two records, and a client that collects incrementally.
CONSTANTS
  Objs = {r1, r2}
  Leaf = {}
  Hdrs = {}
  Strs = {}
  Nil = nil
  StrLimit = 0
  MaxRefs = 1
  Budgets = {20}
  Visits <- SmrecVisits
  MaxRoots = 11
SPECIFICATION IncrSpec
INVARIANTS
  BarrierAssert
