CONSTANTS
  s1 = s1
  s2 = s2
  g = g
  a = a
  b = b
  c = c
  e1 = e1
  e2 = e2
  Root = root
  StartPoints <- Starts
  EndPoints <- Ends
  InternalPoints <- Internals
  InitialOrder <- PlacedOrder
  Fixed <- Gates
SPECIFICATION Spec
INVARIANTS RingCloses BoundariesRight
PROPERTIES KeepsTheOrder
