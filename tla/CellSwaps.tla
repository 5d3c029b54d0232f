------------------------------ MODULE CellSwaps ------------------------------
(***************************************************************************)
(* One pass of GlobalSwap.cpp or of VerticalSearch.cpp over the placeable  *)
(* cells.  A pass takes the cells one by one.  It tries to move the cell   *)
(* into each of some rows, within a zone of columns: onto the longest free *)
(* stretch if the cell fits there, otherwise onto the first free site by   *)
(* shifting the cells behind it to the right.  When no row takes the cell  *)
(* it tries to exchange it with each cell of the zone in those rows.  A    *)
(* trial puts cells "fast", changing the coordinates of the design only;   *)
(* it is kept, and then written to the grid, when the wires get shorter,   *)
(* and rolled back otherwise.                                              *)
(*                                                                         *)
(* An action is one trial (one shifted cell, where cells are shifted).     *)
(***************************************************************************)
EXTENDS WireLength

CONSTANTS
    OptimalRegionHalfWidth, OptimalRegionHalfHeight,    \* of GlobalSwapper
    SearchZoneSize, NRowsToSearch                       \* of VerticalSwapper

ASSUME SwapsAssumption ==
    /\ OptimalRegionHalfWidth \in Nat
    /\ OptimalRegionHalfHeight \in Nat
    /\ SearchZoneSize \in Nat \ {0}
    /\ NRowsToSearch \in Nat \ {0}

VARIABLES
    pass,       \* "GS", "VS", or another stage of the flow
    op,         \* what is next within the pass
    cur,        \* the number of cells of CellOrder the pass is through with
    trusted,    \* the pass was given a placement that passed for legal
    rows, i,    \* the rows to try and the one to try next
    zone,       \* [left, width], the columns to look at
    site, last, \* the site and the last cell looked at in the row
    next,       \* the cell to shift next
    freeSite,   \* the site it goes to
    group       \* the cells shifted so far

trialVars == <<rows, i, zone, site, last, next, freeSite, group>>
swapVars  == <<gridVars, pos, netHPWL, pass, op, cur, trusted, trialVars>>

Cell     == CellOrder[cur + 1]
Width(c) == CellSitesNum[c]

NoTrial == /\ rows = <<>> /\ i = 1 /\ zone = [left |-> 0, width |-> 0]
           /\ site = 0 /\ last = Null /\ next = Null /\ freeSite = 0 /\ group = <<>>

TrialOver == /\ rows' = <<>> /\ i' = 1 /\ zone' = [left |-> 0, width |-> 0]
             /\ site' = 0 /\ last' = Null /\ next' = Null /\ freeSite' = 0 /\ group' = <<>>

-----------------------------------------------------------------------------
(***************************************************************************)
(* Where to look.  The loops over a zone stop at its first site that is    *)
(* not in the row: a zone that begins left of the row has no sites.        *)
(***************************************************************************)
ZoneSites == {k \in Columns : 0 <= zone.left /\ zone.left <= k /\ k < zone.left + zone.width}

OptimalRegionWidth  == 2 * OptimalRegionHalfWidth + 1
OptimalRegionHeight == 2 * OptimalRegionHalfHeight + 1

ShiftCoordinateToLowerBorder(coordinate, distanceToBorder, maxCoordinate) ==
    IF coordinate - distanceToBorder <= 0 THEN 0
    ELSE IF coordinate + distanceToBorder >= maxCoordinate
         THEN maxCoordinate - 1 - 2 * distanceToBorder
         ELSE coordinate - distanceToBorder

IsAlreadyInOptimalRegion(c, originRow, originCol) ==
    /\ originCol <= cellSiteIdx[c] /\ cellSiteIdx[c] <= originCol + OptimalRegionWidth
    /\ originRow <= cellRow[c]     /\ cellRow[c] <= originRow + OptimalRegionHeight

\* GetNextRowIdx steps away from the optimal row to either side in turn
RowAt(originRow, n) ==
    originRow + OptimalRegionHalfHeight + (IF n % 2 = 1 THEN (n + 1) \div 2 ELSE -(n \div 2))

DoesRowBelongToOptimalRegion(originRow, r) ==
    /\ originRow <= r /\ r < originRow + OptimalRegionHeight
    /\ r \in Rows

RegionRows(originRow) ==
    LET Goes(n) == \A m \in 0 .. n - 1 : DoesRowBelongToOptimalRegion(originRow, RowAt(originRow, m))
    IN  [n \in {m \in 1 .. OptimalRegionHeight : Goes(m)} |-> RowAt(originRow, n - 1)]

\* VerticalSwapper steps from the row of the cell towards, and past, the optimal one
RowsTowards(r, optimalRow) ==
    LET step == IF optimalRow < r THEN -1 ELSE 1
    IN  [n \in {m \in 1 .. NRowsToSearch : r + step * m \in Rows} |-> r + step * n]

Skip == /\ cur' = cur + 1
        /\ UNCHANGED <<gridVars, pos, netHPWL, op, pass, trusted, trialVars>>

Look(rs, z) ==
    /\ op' = "move" /\ rows' = rs /\ zone' = z
    /\ UNCHANGED <<gridVars, pos, netHPWL, pass, cur, trusted, i, site, last, next, freeSite, group>>

GlobalProcessCell ==
    /\ pass = "GS" /\ op = "cell" /\ cur < Len(CellOrder)
    /\ \E row \in Rows \cap {OptimalRowIdx(Cell)}, column \in Columns \cap {OptimalColumnIdx(Cell)} :
          LET originRow == ShiftCoordinateToLowerBorder(row, OptimalRegionHalfHeight, NumRows)
              originCol == ShiftCoordinateToLowerBorder(column, OptimalRegionHalfWidth, NumCols)
          IN  IF \/ Width(Cell) > OptimalRegionWidth
                 \/ IsAlreadyInOptimalRegion(Cell, originRow, originCol)
              THEN Skip
              ELSE Look(RegionRows(originRow), [left |-> originCol, width |-> OptimalRegionWidth])

VerticalProcessCell ==
    /\ pass = "VS" /\ op = "cell" /\ cur < Len(CellOrder)
    /\ LET c == Cell
       IN  IF cellRow[c] = OptimalRowIdx(c)
           THEN Skip
           ELSE Look(RowsTowards(cellRow[c], OptimalRowIdx(c)),
                     [left  |-> cellSiteIdx[c] - ((SearchZoneSize - 1) \div 2) * Width(c),
                      width |-> SearchZoneSize * Width(c)])

-----------------------------------------------------------------------------
(***************************************************************************)
(* Judging a trial.  CheckCriteria is that of HPWLChecker.                 *)
(***************************************************************************)
(* A slip: a trial that makes no difference is kept as well. *)
DoesNotLengthen(p, g) == CalculateHPWLDiff(p, InGroup(g)) <= 0
Shortens(p, g) == CalculateHPWLDiff(p, InGroup(g)) < 0

(* A slip: the lengths are refreshed for the cell that was moved first only. *)
AcceptForOne(g) ==
    /\ PutCells(g)
    /\ pos' = PutFast(pos, g)
    /\ UpdateCachedValues(PutFast(pos, g), NetsOf({g[1].cell}))
    /\ op' = "cell" /\ cur' = cur + 1
    /\ TrialOver
    /\ UNCHANGED <<pass, trusted>>

Accept(g) ==
    /\ PutCells(g)
    /\ pos' = PutFast(pos, g)
    /\ UpdateCachedValues(PutFast(pos, g), NetsOf(InGroup(g)))
    /\ op' = "cell" /\ cur' = cur + 1
    /\ TrialOver
    /\ UNCHANGED <<pass, trusted>>

Reject(g) == /\ pos' = PutBack(pos, g)
             /\ UNCHANGED <<gridVars, netHPWL, pass, cur, trusted>>

-----------------------------------------------------------------------------
(***************************************************************************)
(* Moving the cell into a row.                                             *)
(***************************************************************************)
Trying(what) == op = what /\ i \in DOMAIN rows
Row          == rows[i]

IsFree(r, k)      == sites[r][k] = Null
FreeSites(r)      == {k \in ZoneSites : IsFree(r, k)}
FreeRun(r, n, k)  == \A j \in k .. k + n - 1 : j \in FreeSites(r)
HasRoom(r, n)     == \E k \in ZoneSites : FreeRun(r, n, k)

\* AnalyzeFreeSpace returns the leftmost of the longest free stretches
IsMaxFreeSpace(r, n, k) ==
    /\ FreeRun(r, n, k)
    /\ ~ HasRoom(r, n + 1)
    /\ \A j \in ZoneSites : j < k => ~ FreeRun(r, n, j)

NextRow == i' = i + 1 /\ UNCHANGED <<op, rows, zone, site, last, next, freeSite, group>>

TooFull ==
    /\ Trying("move")
    /\ Cardinality(FreeSites(Row)) < Width(Cell)
    /\ NextRow
    /\ UNCHANGED <<gridVars, pos, netHPWL, pass, cur, trusted>>

TryToMoveWithoutShifting ==
    /\ Trying("move")
    /\ \E n \in Width(Cell) .. NumCols, k \in ZoneSites :
          /\ IsMaxFreeSpace(Row, n, k)
          /\ LET g == <<[cell |-> Cell, row |-> Row, column |-> k]>>
             IN  IF Shortens(PutFast(pos, g), g)
                 THEN Accept(g)
                 ELSE Reject(g) /\ NextRow

(* A slip: a free site less than the cell is wide is taken for enough. *)
TryToMoveWithTooMuchShifting ==
    /\ Trying("move")
    /\ Cardinality(FreeSites(Row)) >= Width(Cell) - 1
    /\ ~ HasRoom(Row, Width(Cell))
    /\ \E k \in FreeSites(Row) :
          /\ \A j \in FreeSites(Row) : k <= j
          /\ site' = k /\ freeSite' = k
    /\ op' = "shift" /\ next' = Cell
    /\ UNCHANGED <<gridVars, pos, netHPWL, pass, cur, trusted, rows, i, zone, last, group>>

TryToMoveWithShifting ==
    /\ Trying("move")
    /\ Cardinality(FreeSites(Row)) >= Width(Cell)
    /\ ~ HasRoom(Row, Width(Cell))
    /\ \E k \in FreeSites(Row) :
          /\ \A j \in FreeSites(Row) : k <= j
          /\ site' = k /\ freeSite' = k
    /\ op' = "shift" /\ next' = Cell
    /\ UNCHANGED <<gridVars, pos, netHPWL, pass, cur, trusted, rows, i, zone, last, group>>

\* The first site from k on that holds a cell other than c
IsNextCellAt(r, c, k, j) ==
    LET Other(m) == sites[r][m] \notin {Null, c}
    IN  /\ j \in ZoneSites /\ k <= j /\ Other(j)
        /\ \A m \in ZoneSites : k <= m /\ m < j => ~ Other(m)

NoNextCell(r, c, k) ==
    \A j \in ZoneSites : k <= j => sites[r][j] \in {Null, c}

\* One round of ReleaseSpaceForCell: next goes to freeSite, and the cell
\* behind it follows unless there is room before it
ShiftOneMore ==
    /\ Trying("shift")
    /\ LET g == <<[cell |-> next, row |-> Row, column |-> freeSite]>>
       IN  /\ pos' = PutFast(pos, g)
           /\ group' = group \o g
    /\ freeSite' = freeSite + Width(next)
    /\ \/ /\ NoNextCell(Row, last, site)
          /\ op' = "judge" /\ UNCHANGED <<site, last, next>>
       \/ \E j \in ZoneSites :
            /\ IsNextCellAt(Row, last, site, j)
            /\ IF freeSite' <= cellSiteIdx[sites[Row][j]]
               THEN op' = "judge" /\ UNCHANGED <<site, last, next>>
               ELSE /\ site' = j /\ last' = sites[Row][j] /\ next' = sites[Row][j]
                    /\ UNCHANGED op
    /\ UNCHANGED <<gridVars, netHPWL, pass, cur, trusted, rows, i, zone>>

JudgeShift ==
    /\ Trying("judge")
    /\ IF Shortens(pos, group)
       THEN Accept(group)
       ELSE /\ Reject(group)
            /\ op' = "move" /\ i' = i + 1
            /\ site' = 0 /\ last' = Null /\ next' = Null /\ freeSite' = 0 /\ group' = <<>>
            /\ UNCHANGED <<rows, zone>>

-----------------------------------------------------------------------------
(***************************************************************************)
(* Exchanging the cell with another one.                                   *)
(***************************************************************************)
RowsExhausted ==
    /\ op = "move" /\ i \notin DOMAIN rows
    /\ op' = "exchange" /\ i' = 1 /\ site' = zone.left
    /\ UNCHANGED <<gridVars, pos, netHPWL, pass, cur, trusted, rows, zone, last, next, freeSite, group>>

\* The number of free sites of a row just before k and not before lo
FreeBefore(r, k, lo) ==
    {n \in 0 .. NumCols :
        LET Free(j) == lo <= j /\ j \in Columns /\ IsFree(r, j)
        IN  (\A j \in k - n .. k - 1 : Free(j)) /\ ~ Free(k - n - 1)}

\* The number of free sites of a row from k on and before hi
FreeFrom(r, k, hi) ==
    {n \in 0 .. NumCols :
        LET Free(j) == j < hi /\ j \in Columns /\ IsFree(r, j)
        IN  (\A j \in k .. k + n - 1 : Free(j)) /\ ~ Free(k + n)}

\* VerticalSwapper does not look for space around the other cell outside the zone
ZoneBegin == IF pass = "VS" THEN zone.left ELSE 0
ZoneEnd   == IF pass = "VS" THEN zone.left + zone.width ELSE NumCols

(* A slip: the space to the left is counted on, but not used. *)
SamePlace(k, v, free, w) == k

\* The site for a cell of width w in the place of one of width v at column k
\* that has free sites to its right: to the left of k if there are too few
SiteInPlaceOf(k, v, free, w) ==
    LET needed == w - (v + free)
    IN  IF needed > 0 THEN (IF k > needed THEN k - needed ELSE 0) ELSE k

\* The places of the cell and of another one once they are exchanged, with rc
\* free sites to the right of the cell and rt to the right of the other one
Exchange(c, rc, t, rt) ==
    <<[cell   |-> t,
       row    |-> cellRow[c],
       column |-> SiteInPlaceOf(cellSiteIdx[c], Width(c), rc, Width(t))],
      [cell   |-> c,
       row    |-> Row,
       column |-> SiteInPlaceOf(cellSiteIdx[t], Width(t), rt, Width(c))]>>

Fits(c, lc, rc, t, lt, rt) ==
    /\ lt + Width(t) + rt >= Width(c)
    /\ lc + Width(c) + rc >= Width(t)

AfterTrial(j, t) ==
    /\ site' = IF pass = "GS" THEN j + Width(t) ELSE j + 1
    /\ last' = t
    /\ UNCHANGED <<op, rows, i, zone, next, freeSite, group>>

TryToExchangeWithCell ==
    /\ Trying("exchange")
    /\ \E j \in ZoneSites :
          /\ IsNextCellAt(Row, last, site, j)
          /\ LET c == Cell
                 t == sites[Row][j]
             IN  \E lc \in FreeBefore(cellRow[c], cellSiteIdx[c], 0),
                    rc \in FreeFrom(cellRow[c], cellSiteIdx[c] + Width(c), NumCols),
                    lt \in FreeBefore(Row, cellSiteIdx[t], ZoneBegin),
                    rt \in FreeFrom(Row, cellSiteIdx[t] + Width(t), ZoneEnd) :
                    \/ /\ ~ Fits(c, lc, rc, t, lt, rt)
                       /\ AfterTrial(j, t)
                       /\ UNCHANGED <<gridVars, pos, netHPWL, pass, cur, trusted>>
                    \/ /\ Fits(c, lc, rc, t, lt, rt)
                       /\ LET g == Exchange(c, rc, t, rt)
                          IN  IF Shortens(PutFast(pos, g), g)
                              THEN Accept(g)
                              ELSE Reject(g) /\ AfterTrial(j, t)

NobodyLeftInRow ==
    /\ Trying("exchange")
    /\ NoNextCell(Row, last, site)
    /\ i' = i + 1 /\ site' = zone.left /\ last' = Null
    /\ UNCHANGED <<gridVars, pos, netHPWL, op, pass, cur, trusted, rows, zone, next, freeSite, group>>

CellStays ==
    /\ op = "exchange" /\ i \notin DOMAIN rows
    /\ op' = "cell" /\ cur' = cur + 1
    /\ TrialOver
    /\ UNCHANGED <<gridVars, pos, netHPWL, pass, trusted>>

-----------------------------------------------------------------------------
SwapStep ==
    \/ GlobalProcessCell \/ VerticalProcessCell
    \/ TooFull \/ TryToMoveWithoutShifting
    \/ TryToMoveWithShifting \/ ShiftOneMore \/ JudgeShift
    \/ RowsExhausted \/ TryToExchangeWithCell \/ NobodyLeftInRow \/ CellStays

(***************************************************************************)
(* A pass of its own, over a legal placement and exact lengths.            *)
(***************************************************************************)
GridType ==
    /\ cellRow \in [Cells -> Rows]
    /\ cellSiteIdx \in [Cells -> Columns]
    /\ sites \in [Rows -> [Columns -> Cells \cup {Null}]]
    /\ pos \in [Cells -> [x : Int, y : Int]]

SwapInit ==
    /\ GridType /\ Legal
    /\ netHPWL = [n \in Nets |-> CalcNetHPWL(pos, n)]
    /\ pass \in {"GS", "VS"} /\ op = "cell" /\ cur = 0 /\ trusted = TRUE
    /\ NoTrial

SwapSpec == SwapInit /\ [][SwapStep]_swapVars

-----------------------------------------------------------------------------
(***************************************************************************)
(* ASSERT(freeSiteIdx <= forbiddenSiteIdx) of ReleaseSpaceForCell: where   *)
(* the free sites of the zone add up to the width of the cell, shifting    *)
(* makes room for it without pushing any cell out of the zone.             *)
(***************************************************************************)
ShiftStaysInZone ==
    trusted /\ op \in {"shift", "judge"} =>
        freeSite <= zone.left + zone.width

(***************************************************************************)
(* Whatever is moved, shifted or exchanged, no two cells come to overlap,  *)
(* none leaves the grid, and between trials the coordinates of the design  *)
(* are those of the grid: GlobalSwap.cpp and VerticalSearch.cpp need no    *)
(* legalization after them.                                                *)
(***************************************************************************)
PlacementLegal ==
    trusted /\ op \notin {"shift", "judge"} => Legal

(***************************************************************************)
(* Between trials the cached lengths, against which CalculateHPWLDiff      *)
(* judges the next one, are those of the nets.                             *)
(***************************************************************************)
CachedLengthsExact ==
    trusted /\ op \notin {"shift", "judge", "legalize", "measure"} =>
        netHPWL = [n \in Nets |-> CalcNetHPWL(pos, n)]

=============================================================================
