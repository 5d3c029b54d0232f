SPECIFICATION Spec
CONSTANTS
  t1 = t1
  t2 = t2
  t3 = t3
  t4 = t4
  t5 = t5
  Tiles <- FiveTiles
  Costs <- MCCosts
SYMMETRY TileSymmetry
INVARIANTS
  TypeOK
  PlacesMatch
  HeapOrdered
PROPERTIES
  IsPriorityQueue
