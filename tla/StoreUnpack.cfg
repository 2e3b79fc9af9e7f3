\* One page more than the cache takes.
CONSTANTS
  c = c
  d = d
  m = m
  q = q
  r = r
  Classes <- MCClasses
  Records <- MCRecords
  Nil = nil
  PageOf <- MCPageOf
  ClassOf <- MCClassOf
  Meta <- MCMeta
  FieldRefs <- MCFieldRefs
  LivePages = 2
  MaxDepth = 15
SPECIFICATION Spec
INVARIANTS
  PinsHold
  IdsTrue
  RecursionEnds
PROPERTIES
  SavedInTime
\* The program stops at a fault.
CHECK_DEADLOCK FALSE
