------------------------- MODULE AbacusLegalization --------------------------
(***************************************************************************)
(* Abacus legalization (AbacusLegalization.cpp): the cells, in the order   *)
(* of their x coordinates, each go to the row where they land nearest to   *)
(* where global placement left them.  A row keeps clusters of abutting     *)
(* cells; a cell that would overlap the last cluster is merged into it,    *)
(* and the merged cluster moves to the weighted mean of where its cells    *)
(* want to be.  Nothing is written to the grid before every cell has a     *)
(* row, and nothing at all when one has none.                              *)
(***************************************************************************)
EXTENDS PlacementGrid, SequencesExt

CONSTANT MaxDeviationInRows

ASSUME DeviationAssumption == MaxDeviationInRows \in Nat

VARIABLES
    queue,      \* the cells still to place
    clusters    \* [Rows -> Seq([cells, width, weight, q, x])]

abacusVars == <<queue, clusters>>

NoLegalization == queue = <<>> /\ clusters = [r \in Rows |-> <<>>]

ClusterAt(cells, width, weight, q) ==
    LET column == FindColumn(q, weight)
    IN  [cells |-> cells, width |-> width, weight |-> weight, q |-> q,
         x |-> IF column + width > NumCols - 1 THEN NumCols - width ELSE column]

\* All weight multipliers are 1: Abacus.useWeights is off by default
MakeNewCluster(c) ==
    LET width  == CellSitesNum[c]
        weight == ColumnX(width) * ColumnX(width)
    IN  ClusterAt(<<c>>, width, weight, pos[c].x * weight)

MergeClusters(first, second) ==
    ClusterAt(first.cells \o second.cells,
              first.width + second.width,
              first.weight + second.weight,
              first.q + second.q - ColumnX(first.width) * second.weight)

\* The clusters of a row with a cell more, whose cluster is merged with the
\* last ones of the row until the one before those stays clear of it
WithCell(r, c) ==
    LET row == clusters[r]
        Merged[n \in 0 .. Len(row)] ==
            IF n = 0 THEN MakeNewCluster(c)
            ELSE MergeClusters(row[Len(row) + 1 - n], Merged[n - 1])
        IsClear(n) ==
            n < Len(row) => row[Len(row) - n].x + row[Len(row) - n].width <= Merged[n].x
        merges == Min({n \in 0 .. Len(row) : IsClear(n)})
    IN  SubSeq(row, 1, Len(row) - merges) \o <<Merged[merges]>>

RowWidth(r) ==
    SumUpTo([n \in DOMAIN clusters[r] |-> clusters[r][n].width])[Len(clusters[r])]
HasSpace(r, c) == RowWidth(r) + CellSitesNum[c] <= NumCols

Apart(a, b) == IF a < b THEN b - a ELSE a - b

RowDistance(r, c) == Apart(pos[c].y, RowY(r))

\* How far c would move if it were placed into row r
Distance(r, c) ==
    LET cluster == Last(WithCell(r, c))
        newX    == ColumnX(cluster.x + cluster.width - CellSitesNum[c])
    IN  Apart(pos[c].x, newX) + RowDistance(r, c)

-----------------------------------------------------------------------------
(***************************************************************************)
(* The search for a row, from the nearest one outwards to either side.     *)
(* A row makes sense only if it is nearer than the best place so far; when *)
(* neither the row below nor the one above makes sense the search is over. *)
(***************************************************************************)
NoRow == [row |-> -1, distance |-> 0]

IsNearer(d, best) == best = NoRow \/ d < best.distance
MakesSense(r, c, best) == r \in Rows /\ IsNearer(RowDistance(r, c), best)

ConsiderRow(r, c, best) ==
    IF MakesSense(r, c, best) /\ HasSpace(r, c) /\ IsNearer(Distance(r, c), best)
    THEN [row |-> r, distance |-> Distance(r, c)]
    ELSE best

(* A slip: the search is over when it makes no sense to go on to one side. *)
BestRowOnOneSide(c) ==
    LET nearest == FindRow(pos[c].y, 1)
        Search[d \in 0 .. MaxDeviationInRows] ==
            IF d = 0 THEN [best |-> ConsiderRow(nearest, c, NoRow), over |-> FALSE]
            ELSE LET before == Search[d - 1]
                     below  == ConsiderRow(nearest - d, c, before.best)
                 IN  IF before.over THEN before
                     ELSE [best |-> ConsiderRow(nearest + d, c, below),
                           over |-> \/ ~ MakesSense(nearest - d, c, before.best)
                                    \/ ~ MakesSense(nearest + d, c, below)]
    IN  Search[MaxDeviationInRows].best

BestRow(c) ==
    LET nearest == FindRow(pos[c].y, 1)
        \* the search as far as d rows away
        Search[d \in 0 .. MaxDeviationInRows] ==
            IF d = 0 THEN [best |-> ConsiderRow(nearest, c, NoRow), over |-> FALSE]
            ELSE LET before == Search[d - 1]
                     below  == ConsiderRow(nearest - d, c, before.best)
                 IN  IF before.over THEN before
                     ELSE [best |-> ConsiderRow(nearest + d, c, below),
                           over |-> /\ ~ MakesSense(nearest - d, c, before.best)
                                    /\ ~ MakesSense(nearest + d, c, below)]
    IN  Search[MaxDeviationInRows].best

\* The places of all cells of the clusters, row by row from left to right
ClusterPlaces ==
    LET Places(r, cluster) ==
            [j \in DOMAIN cluster.cells |->
                [cell |-> cluster.cells[j], row |-> r,
                 column |-> cluster.x + WidthUpTo(cluster.cells)[j - 1]]]
    IN  FlattenSeq([r \in 1 .. NumRows |->
            FlattenSeq([n \in DOMAIN clusters[r - 1] |-> Places(r - 1, clusters[r - 1][n])])])

\* The placeable cells in the order of their x coordinates
InOrderOfX(cells) ==
    /\ {cells[n] : n \in DOMAIN cells} = Placeable
    /\ \A m, n \in DOMAIN cells : cells[m] = cells[n] => m = n
    /\ \A n \in 1 .. Len(cells) - 1 : pos[cells[n]].x <= pos[cells[n + 1]].x

StartLegalization ==
    /\ \E cells \in [DOMAIN CellOrder -> Placeable] : InOrderOfX(cells) /\ queue' = cells
    /\ clusters' = [r \in Rows |-> <<>>]

PlaceCellIntoRow ==
    /\ queue # <<>>
    /\ BestRow(Head(queue)) # NoRow
    /\ LET r == BestRow(Head(queue)).row
       IN  clusters' = [clusters EXCEPT ![r] = WithCell(r, Head(queue))]
    /\ queue' = Tail(queue)

UnableToLegalize == queue # <<>> /\ BestRow(Head(queue)) = NoRow

-----------------------------------------------------------------------------
(***************************************************************************)
(* Rows the search never looks at, because its best place is already       *)
(* nearer than they are, would not have been better: the cell goes to the  *)
(* nearest place of all rows within the deviation that have space for it.  *)
(***************************************************************************)
BestRowIsNearest ==
    queue # <<>> =>
        LET c    == Head(queue)
            Near == {r \in Rows : /\ HasSpace(r, c)
                                  /\ Apart(r, FindRow(pos[c].y, 1)) <= MaxDeviationInRows}
        IN  \E best \in {BestRow(c)} :
                IF Near = {} THEN best = NoRow
                ELSE /\ best.row \in Near
                     /\ \A r \in Near : best.distance <= Distance(r, c)

=============================================================================
