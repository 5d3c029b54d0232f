CONSTANTS
  b1 = b1
  b2 = b2
  s1 = s1
  s2 = s2
  t = t
  x = x
  y = y
  w = w
  z = z
  e1 = e1
  e2 = e2
  Root = root
  Repeaters <- MCRepeaters
  StartPoints <- GateStarts
  EndPoints <- GateEnds
  InternalPoints <- GateInternals
  InitialOrder <- GateOrder
  Fixed <- GateFixed
  NetSource <- GateNets
  CellArcs <- GateArcs
  TimingSense <- GateSense
  CellDelay <- GateDelay
  RepeaterDelay <- BufferDelay
  ShortWire <- Short
  LongWire <- Long
  StartTimes <- Starts
  EndTimes <- Ends
  DBL_MAX = 100
SPECIFICATION SSpec
SYMMETRY Alike
INVARIANTS DriversComeFirst RestoringUndoesBuffering TimesAreWorst CriticalPathsAreWorst
