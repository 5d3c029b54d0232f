CONSTANTS
  po = po
  Gates <- ThreeGates
  Starts <- OneStart
  Ends <- OneEnd
  Netlists <- MCNetlists
SPECIFICATION Spec
INVARIANTS ArrivalsInOrder AllPointsPlaced OnlyUndrivenStopped
PROPERTIES Finishes
CHECK_DEADLOCK FALSE
