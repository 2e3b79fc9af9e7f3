\* A page takes one large slot and grows for the second; slots of an odd size
\* among them, a cache smaller than the file.
CONSTANTS
  Sizes = {5, 4080}
  Chunk = 4096
  SlotsMax = 3
  LivePages = 1
  MaxPages = 2
  MaxPins = 1
SPECIFICATION Spec
INVARIANTS
  TypeOK
  SlotsDisjoint
  MapsTrue
  OnlyLastPageHasSlots

  
