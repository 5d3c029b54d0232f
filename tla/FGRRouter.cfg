SPECIFICATION Spec
CONSTANTS
  XTiles = 3
  YTiles = 2
  Capacity = 1
  Nets <- MCNets
  Pins <- MCPins
  MaxRipIter = 3
  MaxGreedyIter = 2
INVARIANTS
  RoutedSubNetsHaveRoutes
  NetsConnected
  GreedyStaysLegal
PROPERTIES
  Finishes
  LegalIsKept
  StuckForGood
CHECK_DEADLOCK FALSE
