SPECIFICATION MSpec
CONSTANTS
  Position <- MCPosition
  Netlist <- MCNetlist
  CellCount <- MCCellCount
  Cost <- MCCost
  Abacus <- MCAbacus
  nMacroIterations = 3
  CanDoTiming = TRUE
  useNetWeights = TRUE
INVARIANTS
  SatisfiedTimingIsKept
CHECK_DEADLOCK FALSE
