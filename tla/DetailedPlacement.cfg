SPECIFICATION Spec
CONSTANTS
    c1 = c1
    c2 = c2
    c3 = c3
    c4 = c4
    c5 = c5
    NumRows = 3
    NumCols = 5
    Cells <- MCCells
    CellOrder <- MCCellOrder
    CellSitesNum <- MCSitesNum
    Null = Null
    Nets <- MCNets
    NetCells <- MCNetCells
    NetPads <- MCNetPads
    OptimalRegionHalfWidth = 1
    OptimalRegionHalfHeight = 1
    SearchZoneSize = 3
    NRowsToSearch = 2
    HorizontalGroupSize = 2
    MaxDeviationInRows = 2
    GlobalPlacements <- MCGlobalPlacements
    StopNum = 1
    StopDen = 1000
INVARIANT ShiftStaysInZone
INVARIANT PlacementLegal
INVARIANT CachedLengthsExact
INVARIANT BestRowIsNearest
PROPERTY OnlyShorterLegalPlacements
PROPERTY Termination
