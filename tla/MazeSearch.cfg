SPECIFICATION Spec
CONSTANTS
  XTiles = 3
  YTiles = 2
  Prices <- MCPrices
  Starts <- MCStarts
  Targets <- MCTargets
INVARIANTS
  ParentsLeadHome
  FindsCheapestRoute
CHECK_DEADLOCK FALSE
