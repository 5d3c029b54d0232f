SPECIFICATION Spec
CONSTANTS
  Position <- MCPosition
  Netlist <- MCNetlist
  CellCount <- MCCellCount
  Cost <- MCCost
  Abacus <- MCAbacus
  improvementTreshold = 6
  earlyExit = TRUE
  nTolerantIterations = 2
  nConvergedIterations = 3
  nOuterIterations = 4
INVARIANTS
  TypeOK
  BestPlacementHasBestMetrics
  CounterPointsAtBest
  NothingBetterIsForgotten
  VerdictLeavesBestPlacement
CHECK_DEADLOCK FALSE
