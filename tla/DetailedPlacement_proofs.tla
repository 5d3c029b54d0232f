---------------------- MODULE DetailedPlacement_proofs ----------------------
(***************************************************************************)
(* Proofs about detailed placement, for a grid of any size, with any cells *)
(* and any nets: the passes of global swaps, of vertical search and of     *)
(* horizontal search each keep a legal placement legal, Abacus puts every  *)
(* cell at the nearest place a row has for it, and what it writes to the   *)
(* grid is legal; so the placement stays legal from then on, and changes   *)
(* only to one with shorter wires.                                         *)
(***************************************************************************)
EXTENDS DetailedPlacement, FiniteSetTheorems, WellFoundedInduction, TLAPS
USE DEF ColumnX, RowY, Site, Covers, InGroup

(* A finite set of integers that is not empty has a last member: of the    *)
(* sets of members behind one of them, the smallest is the empty set.      *)
LEMMA LastOfIsMember ==
  ASSUME NEW S, IsFiniteSet(S), S \subseteq Int, S # {}
  PROVE  LastOf(S) \in S
<1>. DEFINE Behind(a) == {b \in S : a < b}
            T == {Behind(a) : a \in S}
            R == StrictSubsetOrdering(S)
<1>1. T \subseteq FiniteSubsetsOf(S)
  <2>1. ASSUME NEW a \in S PROVE Behind(a) \in SUBSET S /\ IsFiniteSet(Behind(a))
    <3>1. Behind(a) \in SUBSET S  OBVIOUS
    <3>. QED BY <3>1, FS_Subset
  <2>. QED BY <2>1 DEF FiniteSubsetsOf
<1>2. IsWellFoundedOn(R, FiniteSubsetsOf(S))
  BY FS_StrictSubsetOrderingWellFounded
<1>3. T # {}
  BY Zenon
<1>4. PICK U \in T : \A V \in T : ~ (<<V, U>> \in R)
  <2>. HIDE DEF T, R
  <2>. QED BY <1>1, <1>2, <1>3, WFMin
<1>5. PICK a \in S : U = Behind(a)
  BY <1>4
<1>6. ASSUME NEW b \in S, a < b PROVE FALSE
  <2>1. a \in Int /\ b \in Int
    BY <1>6
  <2>2. ASSUME NEW c \in Behind(b) PROVE c \in Behind(a)
    <3>1. c \in Int /\ c \in S /\ b < c
      OBVIOUS
    <3>. QED BY <1>6, <2>1, <3>1
  <2>3. b \in Behind(a) /\ b \notin Behind(b)
    BY <1>6, <2>1
  <2>4. <<Behind(b), Behind(a)>> \in R
    BY <2>2, <2>3, Zenon DEF StrictSubsetOrdering
  <2>. QED BY <1>4, <1>5, <2>4, Zenon
<1>7. \A b \in S : b <= a
  <2>1. \A b \in S : ~ (a < b)
    BY <1>6
  <2>2. a \in Int /\ \A b \in S : b \in Int
    OBVIOUS
  <2>. QED BY <2>1, <2>2
<1>. QED BY <1>7, Zenon DEF LastOf

-----------------------------------------------------------------------------
Places == [cell : Cells, row : Rows, column : Columns]

(* The places of a group that PutCells can put its cells at and leave a    *)
(* legal grid: within the grid, one for a cell, on sites that are free or  *)
(* taken by cells of the group, and apart from each other.                 *)
Disjoint(p, q) == \/ p.column + Width(p.cell) <= q.column
               \/ q.column + Width(q.cell) <= p.column

PlaceIsOpen(g, p) ==
  /\ p.cell \in Placeable
  /\ p.column + Width(p.cell) <= NumCols
  /\ \A k \in Columns : Covers(p.column, p.cell, k) =>
        sites[p.row][k] \in InGroup(g) \cup {Null}

CanBePut(g) ==
  /\ g \in Seq(Places)
  /\ \A n \in DOMAIN g : PlaceIsOpen(g, g[n])
  /\ \A n, m \in DOMAIN g : g[n].cell = g[m].cell => g[n] = g[m]
  /\ \A n, m \in DOMAIN g : g[n].cell # g[m].cell /\ g[n].row = g[m].row =>
        Disjoint(g[n], g[m])

LEMMA ConstantTypes ==
  /\ NumRows \in Nat \ {0} /\ NumCols \in Nat \ {0}
  /\ \A c \in Cells : Width(c) \in Nat \ {0}
  /\ \A k \in Columns : k \in Nat
  /\ \A r \in Rows : r \in Nat
  /\ \A k \in Int : k \in Columns <=> 0 <= k /\ k < NumCols
  /\ Placeable \subseteq Cells /\ Null \notin Cells
<1>1. NumRows \in Nat \ {0} /\ NumCols \in Nat \ {0} /\ Null \notin Cells
  BY GridAssumption
<1>2. Placeable \subseteq Cells
  BY GridAssumption DEF Placeable
<1>3. \A c \in Cells : Width(c) \in Nat \ {0}
  BY GridAssumption DEF Width
<1>. QED BY <1>1, <1>2, <1>3 DEF Rows, Columns

(* The members of a group that a condition picks, if there are any, have a *)
(* last one.                                                               *)
LEMMA LastOfGroup ==
  ASSUME NEW T, NEW g \in Seq(T), NEW S, S \subseteq DOMAIN g, S # {}
  PROVE  LastOf(S) \in S
<1>1. DOMAIN g = 1 .. Len(g) /\ Len(g) \in Nat
  OBVIOUS
<1>2. IsFiniteSet(DOMAIN g)
  BY <1>1, FS_Interval
<1>3. IsFiniteSet(S) /\ S \subseteq Int
  BY <1>1, <1>2, FS_Subset
<1>. QED BY <1>3, LastOfIsMember

LEMMA PlaceInGroup ==
  ASSUME NEW g, CanBePut(g), NEW n \in DOMAIN g
  PROVE  PlaceOf(g, g[n].cell) = g[n]
<1>. DEFINE S == {m \in DOMAIN g : g[m].cell = g[n].cell}
<1>1. LastOf(S) \in S
  BY LastOfGroup DEF CanBePut
<1>. QED BY <1>1 DEF PlaceOf, CanBePut

(* PutCells writes the places of such a group and leaves a legal grid.     *)
LEMMA PutCellsWritesPlaces ==
  ASSUME NEW g, CanBePut(g), PutCells(g), cellRow \in [Cells -> Rows],
         \A c \in Cells \ InGroup(g) : cellSiteIdx[c] \in Columns
  PROVE  /\ cellRow' \in [Cells -> Rows] /\ cellSiteIdx' \in [Cells -> Columns]
         /\ \A n \in DOMAIN g : /\ cellRow'[g[n].cell] = g[n].row
                                /\ cellSiteIdx'[g[n].cell] = g[n].column
         /\ \A c \in Cells \ InGroup(g) : /\ cellRow'[c] = cellRow[c]
                                          /\ cellSiteIdx'[c] = cellSiteIdx[c]
<1>1. \A n \in DOMAIN g : g[n] \in Places
  BY DEF CanBePut
<1>2. \A n \in DOMAIN g : PlaceOf(g, g[n].cell) = g[n]
  BY PlaceInGroup
<1>3. \A c \in InGroup(g) : \E n \in DOMAIN g : c = g[n].cell
  OBVIOUS
<1>4. \A c \in InGroup(g) : PlaceOf(g, c) \in Places
  BY <1>1, <1>2, <1>3
<1>5. /\ cellRow' = [c \in Cells |-> IF c \in InGroup(g) THEN PlaceOf(g, c).row ELSE cellRow[c]]
      /\ cellSiteIdx' = [c \in Cells |-> IF c \in InGroup(g) THEN PlaceOf(g, c).column
                                                             ELSE cellSiteIdx[c]]
  BY Zenon DEF PutCells
<1>6. cellRow' \in [Cells -> Rows] /\ cellSiteIdx' \in [Cells -> Columns]
  <2>1. \A c \in Cells : cellRow[c] \in Rows /\ (c \notin InGroup(g) => cellSiteIdx[c] \in Columns)
    OBVIOUS
  <2>2. \A c \in InGroup(g) : PlaceOf(g, c).row \in Rows /\ PlaceOf(g, c).column \in Columns
    BY <1>4 DEF Places
  <2>. QED BY <1>5, <2>1, <2>2
<1>7. ASSUME NEW n \in DOMAIN g
      PROVE  cellRow'[g[n].cell] = g[n].row /\ cellSiteIdx'[g[n].cell] = g[n].column
  <2>1. g[n].cell \in Cells /\ g[n].cell \in InGroup(g)
    BY <1>1 DEF Places
  <2>. QED BY <1>2, <1>5, <2>1
<1>. QED BY <1>5, <1>6, <1>7

LEMMA PutCellsWrites ==
  ASSUME NEW g, CanBePut(g), GridType, PutCells(g)
  PROVE  /\ cellRow' \in [Cells -> Rows] /\ cellSiteIdx' \in [Cells -> Columns]
         /\ \A n \in DOMAIN g : /\ cellRow'[g[n].cell] = g[n].row
                                /\ cellSiteIdx'[g[n].cell] = g[n].column
         /\ \A c \in Cells \ InGroup(g) : /\ cellRow'[c] = cellRow[c]
                                          /\ cellSiteIdx'[c] = cellSiteIdx[c]
BY PutCellsWritesPlaces DEF GridType

LEMMA PutCellsSites ==
  ASSUME NEW g, CanBePut(g), PutCells(g), NEW r \in Rows, NEW k \in Columns
  PROVE  /\ \A n \in DOMAIN g : g[n].row = r /\ Covers(g[n].column, g[n].cell, k) =>
               sites'[r][k] = g[n].cell
         /\ \/ \E n \in DOMAIN g : g[n].row = r /\ Covers(g[n].column, g[n].cell, k)
            \/ /\ sites[r][k] \in InGroup(g)
               /\ cellRow[sites[r][k]] = r
               /\ Covers(cellSiteIdx[sites[r][k]], sites[r][k], k)
               /\ sites'[r][k] = Null
            \/ /\ ~ (/\ sites[r][k] \in InGroup(g)
                     /\ cellRow[sites[r][k]] = r
                     /\ Covers(cellSiteIdx[sites[r][k]], sites[r][k], k))
               /\ sites'[r][k] = sites[r][k]
<1>. DEFINE On == {n \in DOMAIN g : g[n].row = r /\ Covers(g[n].column, g[n].cell, k)}
            Old == /\ sites[r][k] \in InGroup(g)
                   /\ cellRow[sites[r][k]] = r
                   /\ Covers(cellSiteIdx[sites[r][k]], sites[r][k], k)
            Stays(c) == PlaceOf(g, c).row = r /\ Covers(PlaceOf(g, c).column, c, k)
<1>1. sites'[r][k] = IF On # {} THEN IF Stays(g[LastOf(On)].cell) THEN g[LastOf(On)].cell ELSE Null
                     ELSE IF Old THEN Null ELSE sites[r][k]
  BY Zenon DEF PutCells
<1>2. ASSUME NEW n \in On PROVE sites'[r][k] = g[n].cell
  <2>1. LastOf(On) \in On
    BY LastOfGroup, Zenon DEF CanBePut
  <2>2. PICK m \in On : m = LastOf(On)
    BY <2>1, Zenon
  <2>7. Stays(g[m].cell)
    BY PlaceInGroup
  <2>3. g[m] \in Places /\ g[n] \in Places
    BY DEF CanBePut
  <2>4. /\ g[m].column \in Int /\ g[n].column \in Int /\ k \in Int
        /\ Width(g[m].cell) \in Int /\ Width(g[n].cell) \in Int
    BY <2>3, ConstantTypes DEF Places
  <2>5. ~ Disjoint(g[n], g[m])
    BY <2>4 DEF Disjoint, Width
  <2>6. g[n].cell = g[m].cell
    BY <2>5 DEF CanBePut
  <2>. QED BY <1>1, <2>2, <2>6, <2>7, Zenon
<1>. QED BY <1>1, <1>2, Zenon

LegalGrid == InsideGrid /\ SitesDescribeCells

LEMMA PutCellsLegal ==
  ASSUME NEW g, CanBePut(g), GridType, PutCells(g), LegalGrid
  PROVE  LegalGrid' /\ sites' \in [Rows -> [Columns -> Cells \cup {Null}]]
<1>. DEFINE Covering(n, r, k) == g[n].row = r /\ Covers(g[n].column, g[n].cell, k)
<1>1. \A n \in DOMAIN g : g[n] \in Places /\ g[n].cell \in Placeable /\ PlaceIsOpen(g, g[n])
  BY DEF CanBePut, PlaceIsOpen
<1>2. \A c \in InGroup(g) : \E n \in DOMAIN g : c = g[n].cell
  OBVIOUS
<1>3. InsideGrid'
  <2>1. ASSUME NEW c \in Placeable PROVE cellSiteIdx'[c] + CellSitesNum[c] <= NumCols
    <3>1. CASE c \in InGroup(g)
      <4>1. PICK n \in DOMAIN g : c = g[n].cell
        BY <1>2, <3>1
      <4>2. cellSiteIdx'[c] = g[n].column
        BY <4>1, PutCellsWrites
      <4>. QED BY <1>1, <4>1, <4>2 DEF PlaceIsOpen, Width
    <3>2. CASE c \notin InGroup(g)
      <4>1. cellSiteIdx'[c] = cellSiteIdx[c]
        BY <3>2, ConstantTypes, PutCellsWrites
      <4>. QED BY <4>1 DEF LegalGrid, InsideGrid
    <3>. QED BY <3>1, <3>2
  <2>. QED BY <2>1 DEF InsideGrid
<1>4. ASSUME NEW r \in Rows, NEW k \in Columns, NEW c \in Cells
      PROVE  sites'[r][k] = c <=> /\ c \in Placeable
                                  /\ cellRow'[c] = r
                                  /\ Covers(cellSiteIdx'[c], c, k)
  <2>. DEFINE Was == c \in Placeable /\ cellRow[c] = r /\ Covers(cellSiteIdx[c], c, k)
              Is  == c \in Placeable /\ cellRow'[c] = r /\ Covers(cellSiteIdx'[c], c, k)
  <2>1. sites[r][k] = c <=> Was
    BY DEF LegalGrid, SitesDescribeCells
  <2>2. ASSUME c \in InGroup(g) PROVE Is <=> \E n \in DOMAIN g : c = g[n].cell /\ Covering(n, r, k)
    <3>1. PICK n \in DOMAIN g : c = g[n].cell
      BY <1>2, <2>2
    <3>2. cellRow'[c] = g[n].row /\ cellSiteIdx'[c] = g[n].column
      BY <3>1, PutCellsWrites
    <3>3. \A m \in DOMAIN g : c = g[m].cell => g[m] = g[n]
      BY <3>1, Zenon DEF CanBePut
    <3>4. c \in Placeable
      BY <1>1, <3>1
    <3>5. Is <=> Covering(n, r, k)
      BY <3>1, <3>2, <3>4
    <3>. QED BY <3>1, <3>3, <3>5
  <2>3. ASSUME c \notin InGroup(g) PROVE Is <=> Was
    BY <2>3, PutCellsWrites
  <2>4. CASE \E n \in DOMAIN g : Covering(n, r, k)
    <3>1. PICK n \in DOMAIN g : Covering(n, r, k)
      BY <2>4
    <3>2. sites'[r][k] = g[n].cell
      BY <3>1, PutCellsSites
    <3>3. CASE c \in InGroup(g)
      <4>1. Is => sites'[r][k] = c
        BY <2>2, <3>3, PutCellsSites
      <4>2. sites'[r][k] = c => Is
        BY <2>2, <3>1, <3>2, <3>3, Zenon
      <4>. QED BY <4>1, <4>2
    <3>4. CASE c \notin InGroup(g)
      <4>1. sites[r][k] \in InGroup(g) \cup {Null}
        BY <1>1, <3>1 DEF PlaceIsOpen
      <4>2. sites[r][k] # c
        BY <3>4, <4>1, ConstantTypes
      <4>3. g[n].cell # c
        BY <3>4
      <4>. QED BY <2>1, <2>3, <3>2, <3>4, <4>2, <4>3
    <3>. QED BY <3>3, <3>4
  <2>5. CASE ~ \E n \in DOMAIN g : Covering(n, r, k)
    <3>. DEFINE Old == /\ sites[r][k] \in InGroup(g)
                       /\ cellRow[sites[r][k]] = r
                       /\ Covers(cellSiteIdx[sites[r][k]], sites[r][k], k)
    <3>1. \/ Old /\ sites'[r][k] = Null
          \/ ~ Old /\ sites'[r][k] = sites[r][k]
      BY <2>5, PutCellsSites
    <3>2. c \in InGroup(g) => ~ Is
      BY <2>2, <2>5
    <3>3. c # Null
      BY ConstantTypes
    <3>4. CASE Old /\ sites'[r][k] = Null
      <4>1. sites[r][k] = c => c \in InGroup(g)
        BY <3>4
      <4>. QED BY <2>1, <2>3, <3>2, <3>3, <3>4, <4>1
    <3>5. CASE ~ Old /\ sites'[r][k] = sites[r][k]
      <4>1. Was => c \notin InGroup(g)
        BY <2>1, <3>5
      <4>. QED BY <2>1, <2>3, <3>2, <3>5, <4>1
    <3>. QED BY <3>1, <3>4, <3>5
  <2>. QED BY <2>4, <2>5
<1>5. sites' \in [Rows -> [Columns -> Cells \cup {Null}]]
  <2>. DEFINE Holder(r, k) == sites'[r][k]
  <2>1. ASSUME NEW r \in Rows, NEW k \in Columns PROVE sites'[r][k] \in Cells \cup {Null}
    <3>1. sites[r][k] \in Cells \cup {Null}
      BY DEF GridType
    <3>2. \A n \in DOMAIN g : g[n].cell \in Cells
      BY <1>1, ConstantTypes
    <3>. QED BY <3>1, <3>2, PutCellsSites
  <2>2. PICK h : sites' = [r \in Rows |-> [k \in Columns |-> h[r][k]]]
    <3>1. sites' = [r \in Rows |-> [k \in Columns |-> sites'[r][k]]]
      BY Zenon DEF PutCells
    <3>. QED BY <3>1
  <2>. QED BY <2>1, <2>2
<1>. QED BY <1>3, <1>4, <1>5 DEF LegalGrid, SitesDescribeCells

-----------------------------------------------------------------------------
(***************************************************************************)
(* The coordinates of the design may differ from the grid for the cells of *)
(* the trial under way only.                                               *)
(***************************************************************************)
AsOnGrid(cells) == \A c \in Placeable \ cells : pos[c] = Site(cellRow[c], cellSiteIdx[c])

LEMMA SiteType ==
  ASSUME NEW r \in Rows, NEW k \in Columns
  PROVE  Site(r, k) \in [x : Int, y : Int]
BY ConstantTypes

(* A trial that is kept leaves a legal placement. *)
LEMMA KeptTrialLegal ==
  ASSUME NEW g, CanBePut(g), GridType, LegalGrid, AsOnGrid(InGroup(g)),
         PutCells(g), pos' = PutFast(pos, g)
  PROVE  GridType' /\ Legal'
<1>1. \A n \in DOMAIN g : PlaceOf(g, g[n].cell) = g[n] /\ g[n] \in Places
  BY PlaceInGroup DEF CanBePut
<1>2. \A c \in InGroup(g) : \E n \in DOMAIN g : c = g[n].cell
  OBVIOUS
<1>3. pos' = [c \in Cells |-> IF c \in InGroup(g)
                              THEN Site(PlaceOf(g, c).row, PlaceOf(g, c).column) ELSE pos[c]]
  BY DEF PutFast
<1>4. pos' \in [Cells -> [x : Int, y : Int]]
  <2>1. \A c \in InGroup(g) : PlaceOf(g, c).row \in Rows /\ PlaceOf(g, c).column \in Columns
    BY <1>1, <1>2 DEF Places
  <2>2. ASSUME NEW c \in Cells PROVE pos'[c] \in [x : Int, y : Int]
    <3>1. CASE c \in InGroup(g)
      <4>1. Site(PlaceOf(g, c).row, PlaceOf(g, c).column) \in [x : Int, y : Int]
        BY <2>1, <3>1, SiteType
      <4>. QED BY <1>3, <3>1, <4>1
    <3>2. CASE c \notin InGroup(g)
      BY <1>3, <3>2 DEF GridType
    <3>. QED BY <3>1, <3>2
  <2>. QED BY <1>3, <2>2
<1>5. GridType'
  BY <1>4, PutCellsWrites, PutCellsLegal, Zenon DEF GridType
<1>6. ASSUME NEW c \in Placeable PROVE pos'[c] = Site(cellRow'[c], cellSiteIdx'[c])
  <2>1. c \in Cells
    BY ConstantTypes
  <2>2. CASE c \in InGroup(g)
    <3>1. PICK n \in DOMAIN g : c = g[n].cell
      BY <1>2, <2>2
    <3>2. cellRow'[c] = g[n].row /\ cellSiteIdx'[c] = g[n].column
      BY <3>1, PutCellsWrites
    <3>. QED BY <1>1, <1>3, <2>1, <2>2, <3>1, <3>2
  <2>3. CASE c \notin InGroup(g)
    <3>1. cellRow'[c] = cellRow[c] /\ cellSiteIdx'[c] = cellSiteIdx[c]
      BY <2>1, <2>3, PutCellsWrites
    <3>. QED BY <1>3, <2>1, <2>3, <3>1, Zenon DEF AsOnGrid
  <2>. QED BY <2>2, <2>3
<1>7. CheckGridConsistency'
  BY <1>6, Zenon DEF CheckGridConsistency
<1>. QED BY <1>5, <1>7, PutCellsLegal DEF Legal, LegalGrid

(* A trial that is rolled back leaves the cells where the grid has them. *)
LEMMA RolledBackAsOnGrid ==
  ASSUME NEW g, GridType, AsOnGrid(InGroup(g)), UNCHANGED gridVars, pos' = PutBack(pos, g)
  PROVE  GridType' /\ AsOnGrid({})'
<1>1. pos' = [c \in Cells |-> IF c \in InGroup(g) THEN Site(cellRow[c], cellSiteIdx[c]) ELSE pos[c]]
  BY DEF PutBack
<1>2. ASSUME NEW c \in Cells PROVE Site(cellRow[c], cellSiteIdx[c]) \in [x : Int, y : Int]
  BY SiteType DEF GridType
<1>3. GridType'
  BY <1>1, <1>2 DEF GridType, gridVars
<1>4. ASSUME NEW c \in Placeable PROVE pos'[c] = Site(cellRow[c], cellSiteIdx[c])
  BY <1>1, ConstantTypes DEF AsOnGrid
<1>. QED BY <1>3, <1>4 DEF AsOnGrid, gridVars

-----------------------------------------------------------------------------
(***************************************************************************)
(* Counting the free sites of the zone.                                    *)
(***************************************************************************)
ZoneType == zone \in [left : Int, width : Int]

\* The first column behind the zone, or behind the row if the zone is cut off
ZoneLimit == IF zone.left + zone.width < NumCols THEN zone.left + zone.width ELSE NumCols

FreeUpTo(r, x) == {k \in FreeSites(r) : k < x}
NumFree(r, x)  == Cardinality(FreeUpTo(r, x))

LEMMA ZoneBounds ==
  ASSUME ZoneType
  PROVE  /\ ZoneLimit \in Int /\ ZoneLimit <= NumCols
         /\ ZoneLimit <= zone.left + zone.width
         /\ ZoneSites \subseteq Columns
         /\ \A k \in Int : k \in ZoneSites <=> 0 <= zone.left /\ zone.left <= k /\ k < ZoneLimit
         /\ \A r : FreeSites(r) \subseteq ZoneSites
<1>1. zone.left \in Int /\ zone.width \in Int
  BY DEF ZoneType
<1>2. ZoneSites \subseteq Columns /\ \A r : FreeSites(r) \subseteq ZoneSites
  BY DEF ZoneSites, FreeSites
<1>3. \A k \in Int : k \in ZoneSites <=> 0 <= zone.left /\ zone.left <= k /\ k < ZoneLimit
  BY <1>1, ConstantTypes DEF ZoneSites, ZoneLimit
<1>4. /\ ZoneLimit \in Int /\ ZoneLimit <= NumCols
      /\ ZoneLimit <= zone.left + zone.width
  BY <1>1, ConstantTypes DEF ZoneLimit
<1>. QED BY <1>2, <1>3, <1>4

LEMMA FreeFinite ==
  ASSUME NEW r, NEW x
  PROVE  /\ FreeSites(r) \subseteq Int /\ IsFiniteSet(FreeSites(r))
         /\ IsFiniteSet(FreeUpTo(r, x)) /\ NumFree(r, x) \in Nat
         /\ NumFree(r, x) <= Cardinality(FreeSites(r)) /\ Cardinality(FreeSites(r)) \in Nat
<1>1. IsFiniteSet(Columns)
  BY FS_Interval, ConstantTypes DEF Columns
<1>2. FreeSites(r) \subseteq Columns /\ FreeUpTo(r, x) \subseteq FreeSites(r)
  BY DEF FreeSites, FreeUpTo, ZoneSites
<1>3. IsFiniteSet(FreeSites(r))
  BY <1>1, <1>2, FS_Subset
<1>4. IsFiniteSet(FreeUpTo(r, x)) /\ Cardinality(FreeUpTo(r, x)) <= Cardinality(FreeSites(r))
  BY <1>2, <1>3, FS_Subset
<1>5. Cardinality(FreeUpTo(r, x)) \in Nat /\ Cardinality(FreeSites(r)) \in Nat
  BY <1>3, <1>4, FS_CardinalityType
<1>6. \A k \in FreeSites(r) : k \in Int
  <2>1. \A k \in Columns : k \in Int
    BY DEF Columns
  <2>. QED BY <1>2, <2>1
<1>. QED BY <1>3, <1>4, <1>5, <1>6 DEF NumFree

LEMMA FreeAreIntegers ==
  ASSUME NEW r
  PROVE  \A k \in FreeSites(r) : k \in Int
BY FreeFinite

(* Sites that are taken count for nothing, and free ones for one each. *)
LEMMA CountOverTaken ==
  ASSUME NEW r, NEW x \in Int, NEW y \in Int, x <= y,
         \A k \in FreeSites(r) : k < x \/ y <= k
  PROVE  NumFree(r, y) = NumFree(r, x)
<1>1. \A k \in FreeSites(r) : k \in Int
  BY FreeAreIntegers
<1>2. \A k \in FreeSites(r) : k < y <=> k < x
  BY <1>1
<1>3. FreeUpTo(r, y) = FreeUpTo(r, x)
  BY <1>2 DEF FreeUpTo
<1>. QED BY <1>3 DEF NumFree

LEMMA CountOverFree ==
  ASSUME NEW r, NEW x \in Int, NEW y \in Int, x <= y,
         \A k \in Int : x <= k /\ k < y => k \in FreeSites(r)
  PROVE  NumFree(r, y) = NumFree(r, x) + (y - x)
<1>1. \A k \in FreeSites(r) : k \in Int
  BY FreeAreIntegers
<1>2. FreeUpTo(r, y) = FreeUpTo(r, x) \cup (x .. y - 1)
  BY <1>1 DEF FreeUpTo
<1>3. FreeUpTo(r, x) \cap (x .. y - 1) = {}
  BY <1>1 DEF FreeUpTo
<1>4. IsFiniteSet(x .. y - 1) /\ Cardinality(x .. y - 1) = y - x
  <2>1. y - 1 \in Int
    OBVIOUS
  <2>2. /\ IsFiniteSet(x .. y - 1)
        /\ Cardinality(x .. y - 1) = IF x > y - 1 THEN 0 ELSE (y - 1) - x + 1
    BY <2>1, FS_Interval
  <2>. QED BY <2>2
<1>5. IsFiniteSet(FreeUpTo(r, x)) /\ NumFree(r, x) \in Nat
  BY FreeFinite
<1>6. Cardinality(FreeUpTo(r, y)) = Cardinality(FreeUpTo(r, x)) + (y - x) - Cardinality({})
  BY <1>2, <1>3, <1>4, <1>5, FS_Union
<1>. QED BY <1>5, <1>6, FS_EmptySet DEF NumFree

(* As many free sites are left as the zone has behind a site, at most. *)
LEMMA CountBehind ==
  ASSUME ZoneType, NEW r, NEW x \in Int, x <= ZoneLimit
  PROVE  Cardinality(FreeSites(r)) <= NumFree(r, x) + (ZoneLimit - x)
<1>. DEFINE Rest == {k \in FreeSites(r) : x <= k}
<1>0. /\ IsFiniteSet(FreeUpTo(r, x)) /\ NumFree(r, x) \in Nat
      /\ \A k \in FreeSites(r) : k \in Int
      /\ ZoneLimit \in Int
  BY FreeFinite, FreeAreIntegers, ZoneBounds
<1>1. FreeSites(r) = FreeUpTo(r, x) \cup Rest
  BY <1>0 DEF FreeUpTo
<1>2. Rest \subseteq x .. ZoneLimit - 1
  <2>1. \A k \in FreeSites(r) : k < ZoneLimit
    BY <1>0, ZoneBounds
  <2>. QED BY <1>0, <2>1
<1>3. IsFiniteSet(x .. ZoneLimit - 1) /\ Cardinality(x .. ZoneLimit - 1) = ZoneLimit - x
  <2>1. ZoneLimit - 1 \in Int
    BY <1>0
  <2>2. /\ IsFiniteSet(x .. ZoneLimit - 1)
        /\ Cardinality(x .. ZoneLimit - 1) =
              IF x > ZoneLimit - 1 THEN 0 ELSE (ZoneLimit - 1) - x + 1
    BY <2>1, FS_Interval
  <2>. QED BY <1>0, <2>2
<1>4. IsFiniteSet(Rest) /\ Cardinality(Rest) <= ZoneLimit - x
  <2>. HIDE DEF Rest
  <2>. QED BY <1>2, <1>3, FS_Subset, Zenon
<1>5. FreeUpTo(r, x) \cap Rest = {}
  BY <1>0 DEF FreeUpTo
<1>6. Cardinality(FreeSites(r)) = Cardinality(FreeUpTo(r, x)) + Cardinality(Rest) - Cardinality({})
  BY <1>0, <1>1, <1>4, <1>5, FS_Union
<1>7. Cardinality(Rest) \in Nat
  BY <1>4, FS_CardinalityType
<1>8. Cardinality(FreeSites(r)) = NumFree(r, x) + Cardinality(Rest)
  BY <1>0, <1>6, <1>7, FS_EmptySet DEF NumFree
<1>. QED BY <1>0, <1>4, <1>7, <1>8

LEMMA SomeFreeBehind ==
  ASSUME NEW r, NEW x \in Int, NumFree(r, x) < Cardinality(FreeSites(r))
  PROVE  \E k \in FreeSites(r) : x <= k
<1>1. \A k \in FreeSites(r) : k \in Int
  BY FreeAreIntegers
<1>2. SUFFICES ASSUME \A k \in FreeSites(r) : ~ (x <= k) PROVE FALSE
  OBVIOUS
<1>3. FreeUpTo(r, x) = FreeSites(r)
  BY <1>1, <1>2 DEF FreeUpTo
<1>4. Cardinality(FreeSites(r)) \in Nat
  BY FreeFinite
<1>. QED BY <1>3, <1>4 DEF NumFree

-----------------------------------------------------------------------------
(***************************************************************************)
(* The invariant.  The grid is legal in every state, for only the places   *)
(* of a whole trial are ever put, and the cached lengths are those of the  *)
(* coordinates on the grid.  That shifting makes room needs more: while    *)
(* cells are shifted, freeSite is behind the site of the next cell by the  *)
(* width of the cell to be moved less the free sites passed on the way,    *)
(* and the zone has free sites for all of that width.                      *)
(***************************************************************************)
SwapType ==
  /\ GridType /\ ZoneType
  /\ op \in {"cell", "move", "shift", "judge", "exchange"}
  /\ cur \in 0 .. Len(CellOrder)
  /\ op # "cell" => cur < Len(CellOrder)

NothingShifted ==
  op \notin {"shift", "judge"} => group = <<>> /\ (op # "exchange" => last = Null)

\* The cell is not in the zone of a row it is to be moved to, or only with
\* its right part
CellComesFromOutside ==
  op # "cell" => \A n \in DOMAIN rows :
      /\ rows[n] \in Rows
      /\ cellRow[Cell] = rows[n] => \/ cellSiteIdx[Cell] < zone.left
                                    \/ cellSiteIdx[Cell] >= zone.left + zone.width

Shifting == op \in {"shift", "judge"}

FirstFree == IF group = <<>> THEN freeSite ELSE group[1].column

FirstFreeIsFirst ==
  /\ FirstFree \in FreeSites(Row)
  /\ \A k \in FreeSites(Row) : FirstFree <= k

ShiftedInOrder ==
  /\ group \in Seq(Places)
  /\ \A n \in DOMAIN group : /\ group[n].row = Row
                             /\ group[n].cell \in Placeable
                             /\ FirstFree <= group[n].column
                             /\ group[n].column + Width(group[n].cell) <= freeSite
                             /\ \/ group[n].cell = Cell
                                \/ cellRow[group[n].cell] = Row
  /\ \A n, m \in DOMAIN group : n # m => /\ group[n].cell # group[m].cell
                                         /\ Disjoint(group[n], group[m])

OnlyShiftedUpTo(k) ==
  \A n \in Columns : FirstFree <= n /\ n < k => sites[Row][n] \in InGroup(group) \cup {Null}

NextInPlace ==
  \/ group = <<>> /\ next = Cell /\ last = Null /\ site = freeSite
  \/ /\ group # <<>> /\ next = last
     /\ site \in ZoneSites /\ FirstFree <= site /\ site < freeSite
     /\ next = sites[Row][site] /\ next \in Cells /\ cellSiteIdx[next] = site
     /\ freeSite = site + Width(Cell) - NumFree(Row, site)
     /\ \A n \in DOMAIN group : group[n].cell # Cell => cellSiteIdx[group[n].cell] < site

ShiftInv ==
  Shifting =>
    /\ i \in DOMAIN rows
    /\ Width(Cell) <= Cardinality(FreeSites(Row))
    /\ FirstFreeIsFirst /\ ShiftedInOrder
    /\ freeSite \in Int /\ freeSite <= ZoneLimit
    /\ op = "shift" => NextInPlace /\ OnlyShiftedUpTo(site)
    /\ op = "judge" => OnlyShiftedUpTo(freeSite)

\* The coordinates the cells have on the grid, whatever is tried just now
GridCoordinates ==
  [c \in Cells |-> IF c \in Placeable THEN Site(cellRow[c], cellSiteIdx[c]) ELSE pos[c]]

CacheInv == netHPWL = [n \in Nets |-> CalcNetHPWL(GridCoordinates, n)]

IInv ==
  /\ SwapType /\ LegalGrid /\ NothingShifted /\ CellComesFromOutside
  /\ AsOnGrid(InGroup(group)) /\ ShiftInv /\ CacheInv

LEMMA NoGroup == InGroup(<<>>) = {}
OBVIOUS

LEMMA CellIsPlaceable ==
  ASSUME SwapType, op # "cell"
  PROVE  Cell \in Placeable /\ Cell \in Cells
<1>1. CellOrder \in Seq(Cells) /\ cur + 1 \in DOMAIN CellOrder
  BY GridAssumption DEF SwapType
<1>. QED BY <1>1 DEF Cell, Placeable

LEMMA BetweenTrials ==
  ASSUME GridType, AsOnGrid({})
  PROVE  GridCoordinates = pos
BY Zenon DEF GridType, AsOnGrid, GridCoordinates

(* A net whose cells do not move keeps its length. *)
LEMMA SameLength ==
  ASSUME NEW n \in Nets, NEW p, NEW q, \A c \in NetCells[n] : p[c] = q[c]
  PROVE  CalcNetHPWL(p, n) = CalcNetHPWL(q, n)
<1>1. PinsOf(p, n) = PinsOf(q, n)
  BY DEF PinsOf, Pin
<1>. QED BY <1>1 DEF CalcNetHPWL

LEMMA UnmovedCache ==
  ASSUME CacheInv, UNCHANGED <<gridVars, netHPWL>>,
         \A c \in Cells \ Placeable : pos'[c] = pos[c]
  PROVE  CacheInv'
<1>1. GridCoordinates' = GridCoordinates
  BY DEF GridCoordinates, gridVars
<1>. QED BY <1>1 DEF CacheInv, CalcNetHPWL, PinsOf, Pin

LEMMA InitInv == SwapInit => IInv
<1>. SUFFICES ASSUME SwapInit PROVE IInv
  OBVIOUS
<1>1. Len(CellOrder) \in Nat
  BY GridAssumption
<1>2. SwapType
  BY <1>1 DEF SwapInit, NoTrial, SwapType, ZoneType
<1>3. LegalGrid /\ AsOnGrid(InGroup(group))
  BY DEF SwapInit, Legal, LegalGrid, CheckGridConsistency, AsOnGrid
<1>4. NothingShifted /\ CellComesFromOutside /\ ShiftInv
  BY DEF SwapInit, NoTrial, NothingShifted, CellComesFromOutside, ShiftInv, Shifting
<1>5. GridCoordinates = pos
  BY BetweenTrials DEF SwapInit, Legal, CheckGridConsistency, AsOnGrid
<1>6. CacheInv
  BY <1>5 DEF SwapInit, CacheInv
<1>. QED BY <1>2, <1>3, <1>4, <1>6 DEF IInv

(* A step to the next cell. *)
LEMMA NextCellInv ==
  ASSUME IInv, cur < Len(CellOrder), cur' = cur + 1, op' = "cell",
         GridType', LegalGrid', AsOnGrid({})', CacheInv',
         ZoneType', last' = Null, group' = <<>>
  PROVE  IInv'
<1>1. Len(CellOrder) \in Nat
  BY GridAssumption
<1>2. SwapType'
  BY <1>1 DEF IInv, SwapType
<1>3. AsOnGrid(InGroup(group))'
  BY NoGroup, Zenon DEF AsOnGrid
<1>4. NothingShifted' /\ CellComesFromOutside' /\ ShiftInv'
  BY DEF NothingShifted, CellComesFromOutside, ShiftInv, Shifting
<1>. QED BY <1>2, <1>3, <1>4 DEF IInv

(* A step within the search for one cell that leaves the grid alone and    *)
(* the coordinates as they are there.                                      *)
LEMMA QuietInv ==
  ASSUME IInv, op # "cell", op' \in {"move", "exchange"},
         UNCHANGED <<gridVars, cur, rows, zone>>,
         GridType', AsOnGrid({})', CacheInv',
         group' = <<>>, op' = "move" => last' = Null
  PROVE  IInv'
<1>1. SwapType'
  BY DEF IInv, SwapType, ZoneType
<1>2. LegalGrid'
  BY DEF IInv, LegalGrid, InsideGrid, SitesDescribeCells, gridVars
<1>3. AsOnGrid(InGroup(group))'
  BY NoGroup, Zenon DEF AsOnGrid
<1>4. NothingShifted' /\ ShiftInv'
  BY DEF NothingShifted, ShiftInv, Shifting
<1>5. CellComesFromOutside'
  BY DEF IInv, CellComesFromOutside, Cell, gridVars
<1>. QED BY <1>1, <1>2, <1>3, <1>4, <1>5 DEF IInv

LEMMA UnmovedAsOnGrid ==
  ASSUME IInv, group = <<>>, UNCHANGED <<gridVars, pos, netHPWL>>
  PROVE  GridType' /\ LegalGrid' /\ AsOnGrid({})' /\ CacheInv'
<1>1. AsOnGrid({})
  BY NoGroup, Zenon DEF IInv
<1>2. GridType' /\ LegalGrid' /\ AsOnGrid({})'
  BY <1>1 DEF IInv, SwapType, GridType, gridVars, LegalGrid, InsideGrid,
              SitesDescribeCells, AsOnGrid
<1>3. CacheInv'
  BY UnmovedCache DEF IInv
<1>. QED BY <1>2, <1>3

(* Lengths refreshed for the nets of the cells a kept trial has moved.     *)
LEMMA KeptTrialCache ==
  ASSUME CacheInv, NEW g, AsOnGrid(InGroup(g)), pos' = PutFast(pos, g),
         UpdateCachedValues(PutFast(pos, g), NetsOf(InGroup(g))),
         GridType', AsOnGrid({})'
  PROVE  CacheInv'
<1>. DEFINE Refreshed == NetsOf(InGroup(g))
<1>1. netHPWL' = [n \in Nets |-> IF n \in Refreshed THEN CalcNetHPWL(pos', n) ELSE netHPWL[n]]
  BY DEF UpdateCachedValues
<1>2. GridCoordinates' = pos'
  BY Zenon DEF GridType, AsOnGrid, GridCoordinates
<1>3. ASSUME NEW n \in Nets, n \notin Refreshed
      PROVE  CalcNetHPWL(pos', n) = netHPWL[n]
  <2>1. ASSUME NEW c \in NetCells[n] PROVE pos'[c] = GridCoordinates[c]
    <3>1. c \in Cells /\ c \notin InGroup(g)
      BY <1>3, NetsAssumption, ConstantTypes DEF NetsOf
    <3>2. pos'[c] = pos[c]
      BY <3>1 DEF PutFast
    <3>3. pos[c] = GridCoordinates[c]
      BY <3>1 DEF GridCoordinates, AsOnGrid
    <3>. QED BY <3>2, <3>3
  <2>2. CalcNetHPWL(pos', n) = CalcNetHPWL(GridCoordinates, n)
    BY <2>1, SameLength
  <2>. QED BY <2>2 DEF CacheInv
<1>4. netHPWL' = [n \in Nets |-> CalcNetHPWL(pos', n)]
  <2>. HIDE DEF Refreshed
  <2>. QED BY <1>1, <1>3
<1>. QED BY <1>2, <1>4 DEF CacheInv, CalcNetHPWL, PinsOf, Pin

LEMMA AcceptInv ==
  ASSUME IInv, op # "cell", NEW g, CanBePut(g), AsOnGrid(InGroup(g)), Accept(g)
  PROVE  IInv'
<1>1. PutCells(g) /\ pos' = PutFast(pos, g) /\ op' = "cell" /\ cur' = cur + 1 /\ TrialOver
  BY DEF Accept
<1>2. GridType /\ LegalGrid /\ cur < Len(CellOrder)
  BY DEF IInv, SwapType
<1>3. GridType' /\ Legal'
  BY <1>1, <1>2, KeptTrialLegal
<1>4. LegalGrid' /\ AsOnGrid({})'
  BY <1>3 DEF Legal, LegalGrid, CheckGridConsistency, AsOnGrid
<1>5. ZoneType' /\ last' = Null /\ group' = <<>>
  BY <1>1 DEF TrialOver, ZoneType
<1>6. CacheInv'
  BY <1>1, <1>3, <1>4, KeptTrialCache DEF Accept, IInv
<1>. QED BY <1>1, <1>2, <1>3, <1>4, <1>5, <1>6, NextCellInv

LEMMA RejectInv ==
  ASSUME IInv, op # "cell", NEW g, AsOnGrid(InGroup(g)), InGroup(g) \subseteq Placeable, Reject(g),
         op' \in {"move", "exchange"}, UNCHANGED <<rows, zone>>,
         group' = <<>>, op' = "move" => last' = Null
  PROVE  IInv'
<1>1. GridType /\ UNCHANGED gridVars /\ pos' = PutBack(pos, g) /\ cur' = cur
  BY DEF IInv, SwapType, Reject
<1>2. GridType' /\ AsOnGrid({})'
  BY <1>1, RolledBackAsOnGrid
<1>3. \A c \in Cells \ Placeable : pos'[c] = pos[c]
  BY <1>1 DEF PutBack
<1>4. CacheInv'
  BY <1>1, <1>3, UnmovedCache DEF IInv, Reject
<1>. QED BY <1>1, <1>2, <1>4, QuietInv

-----------------------------------------------------------------------------
(* One lemma for each action.                                              *)
LEMMA LookInv ==
  ASSUME IInv, op = "cell", cur < Len(CellOrder), NEW rs, NEW z, Look(rs, z),
         z \in [left : Int, width : Int],
         \A n \in DOMAIN rs :
            /\ rs[n] \in Rows
            /\ cellRow[Cell] = rs[n] => \/ cellSiteIdx[Cell] < z.left
                                        \/ cellSiteIdx[Cell] >= z.left + z.width
  PROVE  IInv'
<1>1. op' = "move" /\ rows' = rs /\ zone' = z
      /\ UNCHANGED <<gridVars, pos, netHPWL, cur, last, group>>
  BY DEF Look
<1>2. group = <<>> /\ last = Null
  BY DEF IInv, NothingShifted
<1>3. GridType' /\ LegalGrid' /\ AsOnGrid({})' /\ CacheInv'
  BY <1>1, <1>2, UnmovedAsOnGrid
<1>4. SwapType'
  BY <1>1, <1>3 DEF IInv, SwapType, ZoneType
<1>5. NothingShifted' /\ ShiftInv'
  BY <1>1, <1>2 DEF NothingShifted, ShiftInv, Shifting
<1>6. CellComesFromOutside'
  BY <1>1 DEF CellComesFromOutside, Cell, gridVars
<1>7. AsOnGrid(InGroup(group))'
  BY <1>1, <1>2, <1>3, NoGroup, Zenon DEF AsOnGrid
<1>. QED BY <1>3, <1>4, <1>5, <1>6, <1>7 DEF IInv

LEMMA SkipInv ==
  ASSUME IInv, op = "cell", cur < Len(CellOrder), Skip
  PROVE  IInv'
<1>1. group = <<>> /\ last = Null
  BY DEF IInv, NothingShifted
<1>2. cur' = cur + 1 /\ UNCHANGED <<gridVars, pos, netHPWL, op, zone, last, group>>
  BY DEF Skip, trialVars
<1>3. GridType' /\ LegalGrid' /\ AsOnGrid({})' /\ CacheInv'
  BY <1>1, <1>2, UnmovedAsOnGrid
<1>4. ZoneType'
  BY <1>2 DEF IInv, SwapType, ZoneType
<1>. QED BY <1>1, <1>2, <1>3, <1>4, NextCellInv

(* A cell that begins in the optimal region, or just behind it, is passed  *)
(* over, so that one that is looked at does not begin there.               *)
LEMMA GlobalProcessCellInv == IInv /\ GlobalProcessCell => IInv'
<1>. SUFFICES ASSUME IInv, GlobalProcessCell PROVE IInv'
  OBVIOUS
<1>1. op = "cell" /\ cur < Len(CellOrder)
  BY DEF GlobalProcessCell
<1>2. PICK row \in Rows, column \in Columns :
        LET originRow == ShiftCoordinateToLowerBorder(row, OptimalRegionHalfHeight, NumRows)
            originCol == ShiftCoordinateToLowerBorder(column, OptimalRegionHalfWidth, NumCols)
        IN  \/ Skip
            \/ /\ ~ IsAlreadyInOptimalRegion(Cell, originRow, originCol)
               /\ Look(RegionRows(originRow), [left |-> originCol, width |-> OptimalRegionWidth])
  BY DEF GlobalProcessCell
<1>. DEFINE originRow == ShiftCoordinateToLowerBorder(row, OptimalRegionHalfHeight, NumRows)
            originCol == ShiftCoordinateToLowerBorder(column, OptimalRegionHalfWidth, NumCols)
            z == [left |-> originCol, width |-> OptimalRegionWidth]
<1>3. /\ OptimalRegionHalfWidth \in Nat /\ OptimalRegionHalfHeight \in Nat
      /\ NumRows \in Nat /\ NumCols \in Nat /\ row \in Int /\ column \in Int
  BY SwapsAssumption, ConstantTypes
<1>4. originRow \in Int /\ originCol \in Int
  BY <1>3 DEF ShiftCoordinateToLowerBorder
<1>5. OptimalRegionWidth \in Nat /\ OptimalRegionHeight \in Nat
  BY <1>3 DEF OptimalRegionWidth, OptimalRegionHeight
<1>6. CASE Skip
  BY <1>1, <1>6, SkipInv
<1>7. CASE /\ ~ IsAlreadyInOptimalRegion(Cell, originRow, originCol)
           /\ Look(RegionRows(originRow), z)
  <2>. HIDE DEF originRow, originCol
  <2>1. ASSUME NEW n \in DOMAIN RegionRows(originRow)
        PROVE  DoesRowBelongToOptimalRegion(originRow, RegionRows(originRow)[n])
    <3>. DEFINE Goes(q) == \A m \in 0 .. q - 1 :
                              DoesRowBelongToOptimalRegion(originRow, RowAt(originRow, m))
    <3>1. /\ n \in 1 .. OptimalRegionHeight /\ Goes(n)
          /\ RegionRows(originRow)[n] = RowAt(originRow, n - 1)
      BY DEF RegionRows
    <3>2. n - 1 \in 0 .. n - 1
      BY <1>5, <3>1
    <3>. QED BY <3>1, <3>2
  <2>2. ASSUME NEW n \in DOMAIN RegionRows(originRow)
        PROVE  /\ RegionRows(originRow)[n] \in Rows
               /\ cellRow[Cell] = RegionRows(originRow)[n] =>
                    \/ cellSiteIdx[Cell] < z.left
                    \/ cellSiteIdx[Cell] >= z.left + z.width
    <3>. DEFINE r == RegionRows(originRow)[n]
    <3>1. r \in Rows /\ r \in Int /\ originRow <= r /\ r < originRow + OptimalRegionHeight
      BY <2>1, ConstantTypes DEF DoesRowBelongToOptimalRegion
    <3>2. CellOrder \in Seq(Cells) /\ cur + 1 \in DOMAIN CellOrder
      BY <1>1, GridAssumption DEF IInv, SwapType
    <3>3. cellSiteIdx[Cell] \in Int
      BY <3>2, ConstantTypes DEF Cell, IInv, SwapType, GridType
    <3>4. cellRow[Cell] = r => ~ (/\ originCol <= cellSiteIdx[Cell]
                                  /\ cellSiteIdx[Cell] <= originCol + OptimalRegionWidth)
      BY <1>4, <1>5, <1>7, <3>1 DEF IsAlreadyInOptimalRegion
    <3>. HIDE DEF r
    <3>5. cellRow[Cell] = r => \/ cellSiteIdx[Cell] < originCol
                               \/ cellSiteIdx[Cell] >= originCol + OptimalRegionWidth
      BY <1>4, <1>5, <3>3, <3>4
    <3>. QED BY <3>1, <3>5 DEF r
  <2>3. z \in [left : Int, width : Int]
    BY <1>4, <1>5
  <2>. HIDE DEF z
  <2>. QED BY <1>1, <1>7, <2>2, <2>3, LookInv
<1>. QED BY <1>2, <1>6, <1>7

(* Vertical search never looks at the row of the cell itself. *)
LEMMA VerticalProcessCellInv == IInv /\ VerticalProcessCell => IInv'
<1>. SUFFICES ASSUME IInv, VerticalProcessCell PROVE IInv'
  OBVIOUS
<1>1. op = "cell" /\ cur < Len(CellOrder)
  BY DEF VerticalProcessCell
<1>. DEFINE rs == RowsTowards(cellRow[Cell], OptimalRowIdx(Cell))
            z  == [left  |-> cellSiteIdx[Cell] - ((SearchZoneSize - 1) \div 2) * Width(Cell),
                   width |-> SearchZoneSize * Width(Cell)]
<1>2. Skip \/ Look(rs, z)
  BY DEF VerticalProcessCell
<1>3. CASE Look(rs, z)
  <2>1. CellOrder \in Seq(Cells) /\ cur + 1 \in DOMAIN CellOrder
    BY <1>1, GridAssumption DEF IInv, SwapType
  <2>2. Cell \in Cells
    BY <2>1 DEF Cell
  <2>3. cellSiteIdx[Cell] \in Int /\ cellRow[Cell] \in Int
    BY <2>2, ConstantTypes DEF IInv, SwapType, GridType
  <2>4. Width(Cell) \in Int /\ SearchZoneSize \in Int /\ (SearchZoneSize - 1) \div 2 \in Int
    BY <2>2, ConstantTypes, SwapsAssumption
  <2>5. /\ ((SearchZoneSize - 1) \div 2) * Width(Cell) \in Int
        /\ SearchZoneSize * Width(Cell) \in Int
    BY <2>4
  <2>6. z \in [left : Int, width : Int]
    BY <2>3, <2>5
  <2>7. ASSUME NEW n \in DOMAIN rs PROVE rs[n] \in Rows /\ rs[n] # cellRow[Cell]
    <3>. DEFINE step == IF OptimalRowIdx(Cell) < cellRow[Cell] THEN -1 ELSE 1
    <3>1. /\ n \in 1 .. NRowsToSearch /\ cellRow[Cell] + step * n \in Rows
          /\ rs[n] = cellRow[Cell] + step * n
      BY DEF RowsTowards
    <3>2. n \in Int /\ n >= 1
      BY <3>1, SwapsAssumption
    <3>3. step * n # 0 /\ step * n \in Int
      BY <3>2
    <3>. HIDE DEF step
    <3>. QED BY <2>3, <3>1, <3>3
  <2>. HIDE DEF rs, z
  <2>. QED BY <1>1, <1>3, <2>6, <2>7, LookInv
<1>. QED BY <1>1, <1>2, <1>3, SkipInv

LEMMA TryingRow ==
  ASSUME IInv, op # "cell", i \in DOMAIN rows
  PROVE  /\ Row \in Rows
         /\ cellRow[Cell] = Row => \/ cellSiteIdx[Cell] < zone.left
                                   \/ cellSiteIdx[Cell] >= zone.left + zone.width
BY DEF IInv, CellComesFromOutside, Row

LEMMA TooFullInv == IInv /\ TooFull => IInv'
<1>. SUFFICES ASSUME IInv, TooFull PROVE IInv'
  OBVIOUS
<1>1. op = "move" /\ UNCHANGED <<gridVars, pos, netHPWL, cur, op, rows, zone, last, group>>
  BY DEF TooFull, Trying, NextRow
<1>2. group = <<>> /\ last = Null
  BY <1>1 DEF IInv, NothingShifted
<1>. QED BY <1>1, <1>2, UnmovedAsOnGrid, QuietInv

LEMMA TryToMoveWithoutShiftingInv == IInv /\ TryToMoveWithoutShifting => IInv'
<1>. SUFFICES ASSUME IInv, TryToMoveWithoutShifting PROVE IInv'
  OBVIOUS
<1>1. op = "move" /\ i \in DOMAIN rows
  BY DEF TryToMoveWithoutShifting, Trying
<1>2. PICK n \in Width(Cell) .. NumCols, k \in ZoneSites :
        /\ IsMaxFreeSpace(Row, n, k)
        /\ LET g == <<[cell |-> Cell, row |-> Row, column |-> k]>>
           IN  IF Shortens(PutFast(pos, g), g) THEN Accept(g) ELSE Reject(g) /\ NextRow
  BY DEF TryToMoveWithoutShifting
<1>. DEFINE p == [cell |-> Cell, row |-> Row, column |-> k]
            g == <<p>>
<1>3. group = <<>> /\ last = Null /\ SwapType
  BY <1>1 DEF IInv, NothingShifted
<1>4. Cell \in Placeable /\ Cell \in Cells /\ Width(Cell) \in Nat \ {0}
  BY <1>1, <1>3, CellIsPlaceable, ConstantTypes
<1>5. Row \in Rows /\ k \in Columns /\ k \in Int /\ NumCols \in Int
  BY <1>1, <1>3, TryingRow, ZoneBounds, ConstantTypes DEF SwapType
<1>6. \A j \in Int : k <= j /\ j < k + Width(Cell) => j \in Columns /\ sites[Row][j] = Null
  <2>1. ASSUME NEW j \in Int, k <= j, j < k + Width(Cell) PROVE j \in FreeSites(Row)
    <3>1. n \in Int /\ Width(Cell) <= n
      BY <1>4, <1>5
    <3>2. j \in k .. k + n - 1
      BY <1>4, <1>5, <2>1, <3>1
    <3>. QED BY <1>2, <3>2 DEF IsMaxFreeSpace, FreeRun
  <2>. QED BY <2>1 DEF FreeSites, ZoneSites, IsFree
<1>7. k + Width(Cell) <= NumCols
  <2>1. k + Width(Cell) - 1 \in Columns
    BY <1>4, <1>5, <1>6
  <2>. QED BY <1>4, <1>5, <2>1, ConstantTypes
<1>8. p \in Places /\ g \in Seq(Places)
  BY <1>4, <1>5 DEF Places
<1>9. DOMAIN g = {1} /\ g[1] = p
  OBVIOUS
<1>10. PlaceIsOpen(g, p)
  <2>1. ASSUME NEW j \in Columns, Covers(k, Cell, j) PROVE sites[Row][j] = Null
    BY <1>6, <2>1, ConstantTypes DEF Width
  <2>. QED BY <1>4, <1>7, <2>1 DEF PlaceIsOpen
<1>. HIDE DEF g, p
<1>11. CanBePut(g)
  BY <1>8, <1>9, <1>10 DEF CanBePut
<1>12. AsOnGrid(InGroup(g))
  BY <1>3, NoGroup DEF IInv, AsOnGrid
<1>13. CASE Accept(g)
  BY <1>1, <1>11, <1>12, <1>13, AcceptInv
<1>14. CASE Reject(g) /\ NextRow
  <2>1. InGroup(g) \subseteq Placeable
    BY <1>4, <1>9 DEF p
  <2>. QED BY <1>1, <1>3, <1>12, <1>14, <2>1, RejectInv DEF NextRow
<1>. QED BY <1>2, <1>13, <1>14 DEF g, p

LEMMA TryToMoveWithShiftingInv == IInv /\ TryToMoveWithShifting => IInv'
<1>. SUFFICES ASSUME IInv, TryToMoveWithShifting PROVE IInv'
  OBVIOUS
<1>1. op = "move" /\ i \in DOMAIN rows /\ Width(Cell) <= Cardinality(FreeSites(Row))
  <2>1. Width(Cell) \in Int /\ Cardinality(FreeSites(Row)) \in Int
    <3>1. op = "move" /\ SwapType
      BY DEF TryToMoveWithShifting, Trying, IInv
    <3>. QED BY <3>1, CellIsPlaceable, ConstantTypes, FreeFinite
  <2>. QED BY <2>1 DEF TryToMoveWithShifting, Trying
<1>2. PICK k \in FreeSites(Row) : (\A j \in FreeSites(Row) : k <= j) /\ site' = k /\ freeSite' = k
  BY DEF TryToMoveWithShifting
<1>3. /\ op' = "shift" /\ next' = Cell
      /\ UNCHANGED <<gridVars, pos, netHPWL, cur, rows, i, zone, last, group>>
  BY DEF TryToMoveWithShifting
<1>4. group = <<>> /\ last = Null
  BY <1>1 DEF IInv, NothingShifted
<1>5. GridType' /\ LegalGrid' /\ AsOnGrid({})' /\ CacheInv'
  BY <1>3, <1>4, UnmovedAsOnGrid
<1>6. SwapType'
  BY <1>1, <1>3, <1>5 DEF IInv, SwapType, ZoneType
<1>7. CellComesFromOutside'
  BY <1>1, <1>3 DEF IInv, CellComesFromOutside, Cell, gridVars
<1>8. AsOnGrid(InGroup(group))'
  BY <1>3, <1>4, <1>5, NoGroup, Zenon DEF AsOnGrid
<1>9. NothingShifted'
  BY <1>3 DEF NothingShifted
<1>10. /\ Row' = Row /\ Cell' = Cell /\ FreeSites(Row)' = FreeSites(Row)
       /\ ZoneLimit' = ZoneLimit
  BY <1>3 DEF Row, Cell, FreeSites, ZoneSites, IsFree, gridVars, ZoneLimit
<1>11. FirstFree' = k /\ FirstFreeIsFirst'
  BY <1>2, <1>3, <1>4, <1>10 DEF FirstFree, FirstFreeIsFirst
<1>12. ShiftedInOrder'
  BY <1>3, <1>4 DEF ShiftedInOrder
<1>13. k \in Int /\ k <= ZoneLimit
  BY ZoneBounds, FreeAreIntegers DEF IInv, SwapType
<1>14. NextInPlace'
  BY <1>2, <1>3, <1>4, <1>10 DEF NextInPlace
<1>15. OnlyShiftedUpTo(site)'
  <2>1. \A n \in Columns : ~ (k <= n /\ n < k)
    BY <1>13, ConstantTypes
  <2>. QED BY <1>2, <1>11, <2>1 DEF OnlyShiftedUpTo
<1>16. Width(Cell)' <= Cardinality(FreeSites(Row))'
  BY <1>1, <1>10 DEF Width
<1>17. ShiftInv'
  BY <1>1, <1>2, <1>3, <1>10, <1>11, <1>12, <1>13, <1>14, <1>15, <1>16 DEF ShiftInv, Shifting
<1>. QED BY <1>5, <1>6, <1>7, <1>8, <1>9, <1>17 DEF IInv

LEMMA JudgeShiftInv == IInv /\ JudgeShift => IInv'
<1>. SUFFICES ASSUME IInv, JudgeShift PROVE IInv'
  OBVIOUS
<1>1. op = "judge" /\ i \in DOMAIN rows
  BY DEF JudgeShift, Trying
<1>2. /\ ShiftedInOrder /\ freeSite \in Int /\ freeSite <= ZoneLimit
      /\ FirstFreeIsFirst /\ OnlyShiftedUpTo(freeSite)
  BY <1>1 DEF IInv, ShiftInv, Shifting
<1>3. Row \in Rows /\ ZoneLimit \in Int /\ ZoneLimit <= NumCols /\ NumCols \in Int
  BY <1>1, TryingRow, ZoneBounds, ConstantTypes DEF IInv, SwapType
<1>4. FirstFree \in Int
  BY <1>2, FreeAreIntegers DEF FirstFreeIsFirst
<1>5. ASSUME NEW n \in DOMAIN group PROVE PlaceIsOpen(group, group[n])
  <2>1. /\ group[n].row = Row /\ group[n].cell \in Placeable /\ group[n] \in Places
        /\ FirstFree <= group[n].column
        /\ group[n].column + Width(group[n].cell) <= freeSite
    BY <1>2 DEF ShiftedInOrder
  <2>2. group[n].column \in Int /\ Width(group[n].cell) \in Int
    BY <2>1, ConstantTypes DEF Places
  <2>3. group[n].column + Width(group[n].cell) <= NumCols
    BY <1>2, <1>3, <2>1, <2>2
  <2>4. ASSUME NEW k \in Columns, Covers(group[n].column, group[n].cell, k)
        PROVE  sites[group[n].row][k] \in InGroup(group) \cup {Null}
    <3>1. k \in Int
      BY ConstantTypes
    <3>2. FirstFree <= k /\ k < freeSite
      BY <1>2, <1>4, <2>1, <2>2, <2>4, <3>1 DEF Width
    <3>. QED BY <1>2, <2>1, <3>2 DEF OnlyShiftedUpTo
  <2>. QED BY <2>1, <2>3, <2>4 DEF PlaceIsOpen
<1>6. CanBePut(group)
  <2>1. group \in Seq(Places)
    BY <1>2 DEF ShiftedInOrder
  <2>2. \A n, m \in DOMAIN group : n # m => /\ group[n].cell # group[m].cell
                                            /\ Disjoint(group[n], group[m])
    BY <1>2 DEF ShiftedInOrder
  <2>. QED BY <1>5, <2>1, <2>2 DEF CanBePut
<1>7. AsOnGrid(InGroup(group))
  BY DEF IInv
<1>8. CASE Accept(group)
  BY <1>1, <1>6, <1>7, <1>8, AcceptInv
<1>9. CASE Reject(group) /\ op' = "move" /\ last' = Null /\ group' = <<>> /\ UNCHANGED <<rows, zone>>
  <2>1. InGroup(group) \subseteq Placeable
    BY <1>2 DEF ShiftedInOrder
  <2>. QED BY <1>1, <1>7, <1>9, <2>1, RejectInv
<1>. QED BY <1>8, <1>9 DEF JudgeShift

(***************************************************************************)
(* The site behind the next cell, or the first free site if the next cell  *)
(* is the one to be moved: from here on nothing has been shifted.          *)
(***************************************************************************)
Behind == IF group = <<>> THEN site ELSE site + Width(next)

(* What is known of a shift under way. *)
LEMMA ShiftUnderWay ==
  ASSUME IInv, op = "shift"
  PROVE  /\ Row \in Rows /\ Cell \in Cells /\ Cell \in Placeable /\ next \in Cells
         /\ Width(Cell) \in Nat \ {0} /\ Width(next) \in Nat \ {0}
         /\ FirstFree \in Int /\ FirstFree \in FreeSites(Row) /\ FirstFree \in ZoneSites
         /\ freeSite \in Int /\ freeSite <= ZoneLimit
         /\ site \in Int /\ site \in ZoneSites /\ FirstFree <= site /\ site < ZoneLimit
         /\ ZoneLimit \in Int /\ ZoneLimit <= NumCols /\ NumCols \in Int
         /\ ZoneType
         /\ NumFree(Row, site) \in Nat /\ NumFree(Row, Behind) \in Nat
         /\ Cardinality(FreeSites(Row)) \in Nat
<1>1. /\ i \in DOMAIN rows /\ FirstFreeIsFirst /\ NextInPlace
      /\ freeSite \in Int /\ freeSite <= ZoneLimit
  BY DEF IInv, ShiftInv, Shifting
<1>2. SwapType /\ ZoneType
  BY DEF IInv, SwapType
<1>3. Row \in Rows /\ Cell \in Cells /\ Cell \in Placeable
  BY <1>1, <1>2, TryingRow, CellIsPlaceable
<1>4. FirstFree \in FreeSites(Row) /\ FirstFree \in Int /\ FirstFree \in ZoneSites
  BY <1>1, <1>2, FreeAreIntegers, ZoneBounds DEF FirstFreeIsFirst
<1>5. group = <<>> => FirstFree = freeSite /\ site = freeSite /\ next = Cell
  BY <1>1 DEF FirstFree, NextInPlace
<1>6. group # <<>> => site \in ZoneSites /\ next \in Cells /\ FirstFree <= site
  BY <1>1 DEF NextInPlace
<1>7. site \in ZoneSites /\ next \in Cells /\ FirstFree <= site
  BY <1>3, <1>4, <1>5, <1>6
<1>8. site \in Columns
  BY <1>2, <1>7, ZoneBounds
<1>9. site \in Int
  BY <1>8, ConstantTypes
<1>10. site < ZoneLimit
  BY <1>2, <1>7, <1>9, ZoneBounds
<1>11. ZoneLimit \in Int /\ ZoneLimit <= NumCols
  BY <1>2, ZoneBounds
<1>12. NumCols \in Int /\ Width(Cell) \in Nat \ {0} /\ Width(next) \in Nat \ {0}
  BY <1>3, <1>7, ConstantTypes
<1>13. /\ NumFree(Row, site) \in Nat /\ NumFree(Row, Behind) \in Nat
       /\ Cardinality(FreeSites(Row)) \in Nat
  BY FreeFinite
<1>. QED BY <1>1, <1>2, <1>3, <1>4, <1>7, <1>9, <1>10, <1>11, <1>12, <1>13

(* The next cell, other than the first, lies in the row where it is taken  *)
(* for to be, and within the zone, for free sites are left behind it.      *)
LEMMA NextWithinZone ==
  ASSUME IInv, op = "shift"
  PROVE  /\ Behind \in Int /\ site <= Behind /\ Behind <= ZoneLimit
         /\ NumFree(Row, Behind) = NumFree(Row, site)
         /\ group # <<>> => /\ next \in Placeable /\ cellRow[next] = Row
                            /\ \A k \in Columns : sites[Row][k] = next <=> site <= k /\ k < Behind
<1>. USE ShiftUnderWay
<1>1. CASE group = <<>>
  BY <1>1 DEF Behind
<1>2. CASE group # <<>>
  <2>1. /\ next = sites[Row][site] /\ cellSiteIdx[next] = site /\ site < freeSite
        /\ freeSite = site + Width(Cell) - NumFree(Row, site)
    BY <1>2 DEF IInv, ShiftInv, Shifting, NextInPlace
  <2>2. Width(Cell) <= Cardinality(FreeSites(Row))
    BY DEF IInv, ShiftInv, Shifting
  <2>3. Behind = site + Width(next) /\ Behind \in Int /\ site <= Behind
    BY <1>2 DEF Behind
  <2>4. site \in Columns
    BY ZoneBounds
  <2>5. next \in Placeable /\ cellRow[next] = Row
    BY <2>1, <2>4 DEF IInv, LegalGrid, SitesDescribeCells
  <2>6. \A k \in Columns : sites[Row][k] = next <=> site <= k /\ k < Behind
    BY <2>1, <2>3, <2>5 DEF IInv, LegalGrid, SitesDescribeCells, Width
  <2>7. NumFree(Row, site) < Cardinality(FreeSites(Row))
    BY <2>1, <2>2
  <2>8. PICK f \in FreeSites(Row) : site <= f
    BY <2>7, SomeFreeBehind
  <2>9. f \in Int /\ f \in Columns /\ f < ZoneLimit /\ sites[Row][f] = Null
    BY <2>8, FreeAreIntegers, ZoneBounds DEF FreeSites, IsFree
  <2>10. sites[Row][f] # next
    BY <2>9, ConstantTypes
  <2>11. Behind <= f
    BY <2>3, <2>6, <2>8, <2>9, <2>10
  <2>12. \A k \in FreeSites(Row) : k < site \/ Behind <= k
    <3>1. \A k \in FreeSites(Row) : k \in Int /\ k \in Columns /\ sites[Row][k] = Null
      BY FreeAreIntegers, ZoneBounds DEF FreeSites, IsFree
    <3>. QED BY <2>3, <2>6, <3>1, ConstantTypes
  <2>13. NumFree(Row, Behind) = NumFree(Row, site)
    BY <2>3, <2>12, CountOverTaken
  <2>. QED BY <2>3, <2>5, <2>6, <2>9, <2>11, <2>13
<1>. QED BY <1>1, <1>2

(* Once the next cell is shifted the free site is where it should be, and  *)
(* not behind the zone.                                                    *)
LEMMA ShiftedFreeSite ==
  ASSUME IInv, op = "shift"
  PROVE  /\ freeSite + Width(next) = Behind + Width(Cell) - NumFree(Row, Behind)
         /\ freeSite + Width(next) <= ZoneLimit
<1>. USE ShiftUnderWay
<1>1. Behind \in Int /\ Behind <= ZoneLimit /\ NumFree(Row, Behind) = NumFree(Row, site)
  BY NextWithinZone
<1>2. /\ NextInPlace /\ FirstFreeIsFirst /\ Width(Cell) <= Cardinality(FreeSites(Row))
  BY DEF IInv, ShiftInv, Shifting
<1>3. freeSite + Width(next) = Behind + Width(Cell) - NumFree(Row, Behind)
  <2>1. CASE group = <<>>
    <3>1. next = Cell /\ site = freeSite /\ Behind = site /\ FirstFree = site
      BY <1>2, <2>1 DEF NextInPlace, Behind, FirstFree
    <3>2. \A k \in FreeSites(Row) : ~ (k < site)
      BY <1>2, <3>1, FreeAreIntegers DEF FirstFreeIsFirst
    <3>3. FreeUpTo(Row, site) = {}
      BY <3>2 DEF FreeUpTo
    <3>4. NumFree(Row, site) = 0
      BY <3>3, FS_EmptySet DEF NumFree
    <3>. QED BY <3>1, <3>4
  <2>2. CASE group # <<>>
    <3>1. /\ freeSite = site + Width(Cell) - NumFree(Row, site)
          /\ Behind = site + Width(next)
      BY <1>2, <2>2 DEF NextInPlace, Behind
    <3>. QED BY <1>1, <3>1
  <2>. QED BY <2>1, <2>2
<1>4. Cardinality(FreeSites(Row)) <= NumFree(Row, Behind) + (ZoneLimit - Behind)
  BY <1>1, CountBehind
<1>5. Width(Cell) <= NumFree(Row, Behind) + (ZoneLimit - Behind)
  BY <1>1, <1>2, <1>4
<1>. QED BY <1>1, <1>3, <1>5

(* No cell is shifted twice, the one to be moved least of all. *)
LEMMA NextIsNew ==
  ASSUME IInv, op = "shift"
  PROVE  next \notin InGroup(group)
<1>1. NextInPlace /\ ShiftedInOrder /\ i \in DOMAIN rows
  BY DEF IInv, ShiftInv, Shifting
<1>2. CASE group = <<>>
  BY <1>2, NoGroup
<1>3. CASE group # <<>>
  <2>1. /\ cellSiteIdx[next] = site /\ site \in ZoneSites
        /\ \A n \in DOMAIN group : group[n].cell # Cell => cellSiteIdx[group[n].cell] < site
    BY <1>1, <1>3 DEF NextInPlace
  <2>2. cellRow[next] = Row
    BY <1>3, NextWithinZone
  <2>3. site \in Int
    BY ShiftUnderWay
  <2>4. next # Cell
    <3>1. cellRow[Cell] = Row => \/ cellSiteIdx[Cell] < zone.left
                                 \/ cellSiteIdx[Cell] >= zone.left + zone.width
      BY <1>1, TryingRow
    <3>2. zone.left <= site /\ site < zone.left + zone.width
      BY <2>1 DEF ZoneSites
    <3>3. zone.left \in Int /\ zone.width \in Int
      BY ShiftUnderWay DEF ZoneType
    <3>. QED BY <2>1, <2>2, <2>3, <3>1, <3>2, <3>3
  <2>5. ASSUME NEW n \in DOMAIN group PROVE group[n].cell # next
    BY <2>1, <2>3, <2>4
  <2>. QED BY <2>5
<1>. QED BY <1>2, <1>3

LEMMA ShiftGroup ==
  ASSUME IInv, op = "shift",
         group' = group \o <<[cell |-> next, row |-> Row, column |-> freeSite]>>,
         freeSite' = freeSite + Width(next), UNCHANGED <<gridVars, cur, rows, i>>
  PROVE  /\ group' # <<>> /\ FirstFree' = FirstFree
         /\ InGroup(group)' = InGroup(group) \cup {next}
         /\ ShiftedInOrder'
<1>. DEFINE p == [cell |-> next, row |-> Row, column |-> freeSite]
<1>1. /\ ShiftedInOrder /\ NextInPlace /\ FirstFreeIsFirst
      /\ freeSite \in Int /\ freeSite <= ZoneLimit
  BY DEF IInv, ShiftInv, Shifting
<1>2. /\ group \in Seq(Places)
      /\ \A n \in DOMAIN group : group[n] \in Places
  BY <1>1 DEF ShiftedInOrder
<1>3. FirstFree <= freeSite /\ freeSite < NumCols /\ freeSite + Width(next) <= ZoneLimit
  <2>1. freeSite + Width(next) <= ZoneLimit
    BY ShiftedFreeSite
  <2>2. FirstFree <= freeSite
    <3>1. group = <<>> => FirstFree = freeSite
      BY DEF FirstFree
    <3>2. group # <<>> => FirstFree <= site /\ site < freeSite
      BY <1>1 DEF NextInPlace
    <3>. QED BY <3>1, <3>2, ShiftUnderWay
  <2>. QED BY <2>1, <2>2, ShiftUnderWay
<1>4. 0 <= FirstFree
  <2>1. FirstFree \in Columns
    BY ShiftUnderWay, ZoneBounds
  <2>. QED BY <2>1, ConstantTypes
<1>5. freeSite \in Columns
  BY <1>1, <1>3, <1>4, ShiftUnderWay, ConstantTypes
<1>6. p \in Places
  BY <1>5, ShiftUnderWay DEF Places
<1>7. next \in Placeable /\ (next = Cell \/ cellRow[next] = Row)
  <2>1. group = <<>> => next = Cell
    BY <1>1 DEF NextInPlace
  <2>. QED BY <2>1, NextWithinZone, ShiftUnderWay, Zenon
<1>. HIDE DEF p
<1>8. group' = group \o <<p>>
  BY DEF p
<1>9. /\ group' \in Seq(Places)
      /\ DOMAIN group' = 1 .. Len(group) + 1 /\ Len(group) \in Nat
      /\ DOMAIN group = 1 .. Len(group)
      /\ \A n \in 1 .. Len(group) : group'[n] = group[n]
      /\ group'[Len(group) + 1] = p
      /\ group' # <<>>
  BY <1>2, <1>6, <1>8
<1>10. FirstFree' = FirstFree
  <2>1. FirstFree' = group'[1].column
    BY <1>9 DEF FirstFree
  <2>2. CASE group = <<>>
    BY <1>9, <2>1, <2>2 DEF FirstFree, p
  <2>3. CASE group # <<>>
    <3>1. 1 \in 1 .. Len(group)
      BY <1>2, <1>9, <2>3
    <3>. QED BY <1>9, <2>1, <2>3, <3>1 DEF FirstFree
  <2>. QED BY <2>2, <2>3
<1>11. InGroup(group)' = InGroup(group) \cup {next}
  <2>1. p.cell = next
    BY DEF p
  <2>2. \A n \in DOMAIN group' : n \in DOMAIN group \/ n = Len(group) + 1
    BY <1>9
  <2>3. \A n \in DOMAIN group : n \in DOMAIN group'
    BY <1>9
  <2>4. Len(group) + 1 \in DOMAIN group'
    BY <1>9
  <2>. QED BY <1>9, <2>1, <2>2, <2>3, <2>4, Zenon
<1>12. Row' = Row /\ Cell' = Cell /\ cellRow' = cellRow
  BY DEF Row, Cell, gridVars
<1>13. /\ p.row = Row /\ p.cell = next /\ p.column = freeSite
       /\ freeSite <= freeSite' /\ freeSite' \in Int
  BY <1>1, ShiftUnderWay DEF p
<1>14. ASSUME NEW n \in DOMAIN group'
       PROVE  /\ group'[n].row = Row /\ group'[n].cell \in Placeable
              /\ FirstFree <= group'[n].column
              /\ group'[n].column + Width(group'[n].cell) <= freeSite'
              /\ group'[n].cell = Cell \/ cellRow[group'[n].cell] = Row
  <2>1. CASE n = Len(group) + 1
    BY <1>3, <1>7, <1>9, <1>13, <2>1, ShiftUnderWay
  <2>2. CASE n \in 1 .. Len(group)
    <3>1. /\ group[n].row = Row /\ group[n].cell \in Placeable
          /\ FirstFree <= group[n].column
          /\ group[n].column + Width(group[n].cell) <= freeSite
          /\ group[n].cell = Cell \/ cellRow[group[n].cell] = Row
      BY <1>1, <1>9, <2>2 DEF ShiftedInOrder
    <3>2. group[n].column \in Int /\ Width(group[n].cell) \in Int
      BY <1>2, <1>9, <2>2, <3>1, ConstantTypes DEF Places
    <3>. QED BY <1>1, <1>9, <1>13, <2>2, <3>1, <3>2
  <2>. QED BY <1>9, <2>1, <2>2
<1>15. ASSUME NEW n \in DOMAIN group', NEW m \in DOMAIN group', n # m
       PROVE  group'[n].cell # group'[m].cell /\ Disjoint(group'[n], group'[m])
  <2>1. ASSUME NEW q \in 1 .. Len(group)
        PROVE  group[q].cell # next /\ Disjoint(group[q], p) /\ Disjoint(p, group[q])
    <3>1. group[q].cell # next
      BY <1>9, NextIsNew
    <3>2. group[q].column + Width(group[q].cell) <= freeSite
      BY <1>1, <1>9 DEF ShiftedInOrder
    <3>. QED BY <1>13, <3>1, <3>2 DEF Disjoint
  <2>2. CASE n \in 1 .. Len(group) /\ m \in 1 .. Len(group)
    BY <1>1, <1>9, <1>15, <2>2 DEF ShiftedInOrder
  <2>3. CASE n = Len(group) + 1 /\ m \in 1 .. Len(group)
    BY <1>9, <1>13, <2>1, <2>3
  <2>4. CASE n \in 1 .. Len(group) /\ m = Len(group) + 1
    BY <1>9, <1>13, <2>1, <2>4
  <2>. QED BY <1>9, <1>15, <2>2, <2>3, <2>4
<1>16. ShiftedInOrder'
  BY <1>9, <1>10, <1>12, <1>14, <1>15, Zenon DEF ShiftedInOrder, Width, Disjoint
<1>. QED BY <1>9, <1>10, <1>11, <1>16, Zenon

(* The next other cell of the zone begins where it is met, and all sites   *)
(* between the last cell and that one are free.                            *)
LEMMA OtherCellBegins ==
  ASSUME IInv, op = "shift", NEW j \in ZoneSites, IsNextCellAt(Row, last, site, j)
  PROVE  /\ j \in Int /\ Behind <= j /\ sites[Row][j] \in Cells
         /\ sites[Row][j] # next
         /\ cellSiteIdx[sites[Row][j]] = j
         /\ \A k \in Columns : Behind <= k /\ k < j => sites[Row][k] = Null
<1>. DEFINE d == sites[Row][j]
<1>. USE ShiftUnderWay
<1>1. /\ j \in Int /\ j \in Columns /\ site <= j /\ d \notin {Null, last}
      /\ \A k \in ZoneSites : site <= k /\ k < j => sites[Row][k] \in {Null, last}
  BY ZoneBounds, ConstantTypes DEF IsNextCellAt
<1>2. d \in Cells
  BY <1>1 DEF IInv, SwapType, GridType
<1>3. /\ d \in Placeable /\ cellRow[d] = Row
      /\ cellSiteIdx[d] \in Int /\ cellSiteIdx[d] \in Columns /\ cellSiteIdx[d] <= j
      /\ \A k \in Columns : sites[Row][k] = d <=> cellSiteIdx[d] <= k /\ k < cellSiteIdx[d] + CellSitesNum[d]
      /\ j < cellSiteIdx[d] + CellSitesNum[d] /\ CellSitesNum[d] \in Int
  <2>. SitesDescribeCells /\ Row \in Rows
    BY DEF IInv, LegalGrid
  <2>1. d \in Placeable /\ cellRow[d] = Row /\ Covers(cellSiteIdx[d], d, j)
    BY <1>1, <1>2 DEF SitesDescribeCells
  <2>2. cellSiteIdx[d] \in Columns
    BY <1>2 DEF IInv, SwapType, GridType
  <2>3. \A k \in Columns : sites[Row][k] = d <=> Covers(cellSiteIdx[d], d, k)
    BY <1>2, <2>1 DEF SitesDescribeCells
  <2>. QED BY <1>2, <2>1, <2>2, <2>3, ConstantTypes DEF Width
<1>4. /\ Behind \in Int /\ site <= Behind /\ Behind <= ZoneLimit
      /\ group # <<>> =>
           \A k \in Columns : sites[Row][k] = next <=> site <= k /\ k < Behind
  BY NextWithinZone
<1>5. /\ group = <<>> => last = Null /\ site = Behind /\ next = Cell /\ site = FirstFree
      /\ group # <<>> => last = next
  BY DEF IInv, ShiftInv, Shifting, NextInPlace, Behind, FirstFree
<1>6. Behind <= j
  <2>1. CASE group = <<>>
    BY <1>1, <1>5, <2>1
  <2>2. CASE group # <<>>
    BY <1>1, <1>4, <1>5, <2>2
  <2>. QED BY <2>1, <2>2
<1>7. ASSUME NEW k \in Columns, Behind <= k, k < j PROVE sites[Row][k] = Null
  <2>1. k \in Int /\ site <= k
    BY <1>4, <1>7, ConstantTypes
  <2>2. k \in ZoneSites
    <3>1. zone.left \in Int /\ zone.width \in Int
      BY DEF ZoneType
    <3>. QED BY <1>1, <1>7, <2>1, <3>1 DEF ZoneSites
  <2>3. sites[Row][k] \in {Null, last}
    BY <1>1, <1>7, <2>1, <2>2
  <2>4. group # <<>> => sites[Row][k] # next
    BY <1>4, <1>7, <2>1
  <2>. QED BY <1>5, <2>3, <2>4
<1>8. cellSiteIdx[d] = j
  <2>1. SUFFICES ASSUME cellSiteIdx[d] < j PROVE FALSE
    BY <1>1, <1>3
  <2>2. CASE Behind <= cellSiteIdx[d]
    <3>1. sites[Row][cellSiteIdx[d]] = Null
      BY <1>3, <1>7, <2>1, <2>2
    <3>2. sites[Row][cellSiteIdx[d]] = d
      BY <1>1, <1>3
    <3>. QED BY <1>1, <3>1, <3>2
  <2>3. CASE cellSiteIdx[d] < Behind /\ group = <<>>
    <3>1. site \in Columns /\ sites[Row][site] = Null
      BY <1>5, <2>3 DEF FreeSites, IsFree, ZoneSites
    <3>2. sites[Row][site] = d
      BY <1>1, <1>3, <1>5, <2>3, <3>1
    <3>. QED BY <1>1, <3>1, <3>2
  <2>4. CASE cellSiteIdx[d] < Behind /\ group # <<>>
    <3>1. Behind - 1 \in Int /\ site <= Behind - 1
      BY <1>4, <2>4 DEF Behind
    <3>2. site \in Columns
      BY ZoneBounds
    <3>3. Behind - 1 \in Columns
      BY <1>1, <1>4, <1>6, <3>1, <3>2, ConstantTypes
    <3>4. sites[Row][Behind - 1] = next
      BY <1>4, <2>4, <3>1, <3>3
    <3>5. sites[Row][Behind - 1] = d
      <4>1. cellSiteIdx[d] <= Behind - 1 /\ Behind - 1 < cellSiteIdx[d] + CellSitesNum[d]
        <5>1. /\ cellSiteIdx[d] \in Int /\ CellSitesNum[d] \in Int
              /\ j < cellSiteIdx[d] + CellSitesNum[d]
          BY <1>3
        <5>2. j \in Int /\ Behind \in Int /\ Behind <= j /\ cellSiteIdx[d] < Behind
          BY <1>1, <1>4, <1>6, <2>4
        <5>. HIDE DEF d
        <5>. QED BY <5>1, <5>2
      <4>2. \A k \in Columns : sites[Row][k] = d <=> cellSiteIdx[d] <= k /\ k < cellSiteIdx[d] + CellSitesNum[d]
        BY <1>3
      <4>. HIDE DEF d
      <4>. QED BY <3>3, <4>1, <4>2
    <3>. QED BY <1>1, <1>5, <2>4, <3>4, <3>5, Zenon
  <2>. QED BY <1>3, <1>4, <2>2, <2>3, <2>4
<1>9. d # next
  <2>1. CASE group # <<>>
    BY <1>1, <1>5, <2>1, Zenon
  <2>2. CASE group = <<>>
    <3>1. \E n \in DOMAIN rows : Row = rows[n]
      BY DEF Row, IInv, ShiftInv, Shifting
    <3>2. cellRow[Cell] = Row => \/ cellSiteIdx[Cell] < zone.left
                                 \/ cellSiteIdx[Cell] >= zone.left + zone.width
      BY <3>1 DEF IInv, CellComesFromOutside
    <3>3. zone.left <= j /\ j < zone.left + zone.width
      BY DEF ZoneSites
    <3>4. zone.left \in Int /\ zone.width \in Int
      BY DEF ZoneType
    <3>. QED BY <1>1, <1>3, <1>5, <1>8, <2>2, <3>2, <3>3, <3>4
  <2>. QED BY <2>1, <2>2
<1>. QED BY <1>1, <1>2, <1>6, <1>7, <1>8, <1>9

LEMMA ShiftOneMoreInv == IInv /\ ShiftOneMore => IInv'
<1>. SUFFICES ASSUME IInv, ShiftOneMore PROVE IInv'
  OBVIOUS
<1>1. op = "shift" /\ i \in DOMAIN rows
  BY DEF ShiftOneMore, Trying
<1>. DEFINE p == [cell |-> next, row |-> Row, column |-> freeSite]
<1>2. /\ group' = group \o <<p>> /\ freeSite' = freeSite + Width(next)
      /\ pos' = PutFast(pos, <<p>>)
      /\ UNCHANGED <<gridVars, netHPWL, cur, rows, i, zone>>
  BY DEF ShiftOneMore
<1>3. \/ op' = "judge" /\ NoNextCell(Row, last, site)
      \/ \E j \in ZoneSites :
            /\ IsNextCellAt(Row, last, site, j)
            /\ \/ op' = "judge" /\ freeSite' <= cellSiteIdx[sites[Row][j]]
               \/ /\ op' = "shift" /\ ~ (freeSite' <= cellSiteIdx[sites[Row][j]])
                  /\ site' = j /\ last' = sites[Row][j] /\ next' = sites[Row][j]
  BY <1>1 DEF ShiftOneMore
<1>4. op' \in {"shift", "judge"}
  BY <1>3
<1>5. /\ Row \in Rows /\ next \in Cells /\ Width(Cell) \in Nat \ {0}
      /\ FirstFree \in Int /\ site \in Int /\ FirstFree <= site /\ FirstFree \in ZoneSites
      /\ freeSite \in Int /\ Width(next) \in Nat \ {0} /\ ZoneLimit \in Int /\ ZoneType
      /\ NumFree(Row, Behind) \in Nat /\ FirstFree \in FreeSites(Row)
  BY <1>1, ShiftUnderWay
<1>6. Behind \in Int /\ site <= Behind /\ Behind <= ZoneLimit
  BY <1>1, NextWithinZone
<1>7. /\ group' # <<>> /\ FirstFree' = FirstFree
      /\ InGroup(group)' = InGroup(group) \cup {next}
      /\ ShiftedInOrder'
  BY <1>1, <1>2, ShiftGroup, Zenon
<1>8. freeSite' = Behind + Width(Cell) - NumFree(Row, Behind) /\ freeSite' <= ZoneLimit
      /\ freeSite' \in Int
  BY <1>1, <1>2, <1>5, ShiftedFreeSite
<1>9. /\ Row' = Row /\ Cell' = Cell /\ FreeSites(Row)' = FreeSites(Row)
      /\ ZoneLimit' = ZoneLimit /\ ZoneSites' = ZoneSites
      /\ sites' = sites /\ cellRow' = cellRow /\ cellSiteIdx' = cellSiteIdx
  BY <1>2 DEF Row, Cell, FreeSites, ZoneSites, IsFree, gridVars, ZoneLimit
<1>10. GridType' /\ AsOnGrid(InGroup(group))' /\ CacheInv'
  <2>. DEFINE g == <<p>>
  <2>1. DOMAIN g = {1} /\ g[1] = p /\ p.cell = next /\ p.row = Row /\ p.column = freeSite
    OBVIOUS
  <2>. HIDE DEF g
  <2>2. InGroup(g) = {next}
    BY <2>1
  <2>3. LastOf({n \in DOMAIN g : g[n].cell = next}) = 1
    <3>1. {n \in DOMAIN g : g[n].cell = next} = {1}
      BY <2>1
    <3>2. LastOf({1}) \in {1}
      BY FS_Singleton, LastOfIsMember
    <3>. QED BY <3>1, <3>2
  <2>4. PlaceOf(g, next) = p
    BY <2>1, <2>3 DEF PlaceOf
  <2>5. pos' = [c \in Cells |-> IF c \in {next} THEN Site(Row, freeSite) ELSE pos[c]]
    <3>1. pos' = [c \in Cells |-> IF c \in InGroup(g)
                                  THEN Site(PlaceOf(g, c).row, PlaceOf(g, c).column) ELSE pos[c]]
      BY <1>2 DEF PutFast, g
    <3>. QED BY <2>1, <2>2, <2>4, <3>1
  <2>6. Site(Row, freeSite) \in [x : Int, y : Int]
    BY <1>5, ConstantTypes
  <2>7. GridType'
    BY <1>9, <2>5, <2>6 DEF IInv, SwapType, GridType
  <2>8. ASSUME NEW c \in Placeable \ (InGroup(group) \cup {next})
        PROVE  pos'[c] = Site(cellRow[c], cellSiteIdx[c])
    <3>1. AsOnGrid(InGroup(group)) /\ c \in Cells
      BY ConstantTypes DEF IInv
    <3>. QED BY <2>5, <2>8, <3>1 DEF AsOnGrid
  <2>9. AsOnGrid(InGroup(group))'
    BY <1>7, <1>9, <2>8, Zenon DEF AsOnGrid
  <2>10. next \in Placeable
    <3>1. group = <<>> => next = Cell /\ Cell \in Placeable
      BY <1>1, ShiftUnderWay DEF IInv, ShiftInv, Shifting, NextInPlace
    <3>. QED BY <1>1, <3>1, NextWithinZone
  <2>11. CacheInv'
    BY <1>2, <2>5, <2>10, UnmovedCache DEF IInv
  <2>. QED BY <2>7, <2>9, <2>11
<1>11. SwapType'
  BY <1>1, <1>2, <1>4, <1>10 DEF IInv, SwapType, ZoneType
<1>12. LegalGrid'
  BY <1>9 DEF IInv, LegalGrid, InsideGrid, SitesDescribeCells
<1>13. CellComesFromOutside' /\ NothingShifted'
  BY <1>1, <1>2, <1>4, <1>9 DEF IInv, CellComesFromOutside, NothingShifted
<1>14. Width(Cell)' <= Cardinality(FreeSites(Row))' /\ FirstFreeIsFirst'
  BY <1>1, <1>7, <1>9 DEF IInv, ShiftInv, Shifting, FirstFreeIsFirst, Width
<1>15. \A k \in Columns : FirstFree <= k /\ k < Behind =>
          sites[Row][k] \in InGroup(group)' \cup {Null}
  <2>1. ASSUME NEW k \in Columns, FirstFree <= k, k < Behind
        PROVE  sites[Row][k] \in InGroup(group)' \cup {Null}
    <3>1. k \in Int
      BY ConstantTypes
    <3>2. CASE k < site
      BY <1>1, <1>7, <2>1, <3>2, Zenon DEF IInv, ShiftInv, Shifting, OnlyShiftedUpTo
    <3>3. CASE site <= k
      <4>1. group # <<>>
        BY <1>5, <1>6, <2>1, <3>1, <3>3 DEF Behind
      <4>2. sites[Row][k] = next
        BY <1>1, <2>1, <3>1, <3>3, <4>1, NextWithinZone
      <4>. QED BY <1>7, <4>2, Zenon
    <3>. QED BY <1>5, <3>1, <3>2, <3>3
  <2>. QED BY <2>1
<1>16. CASE op' = "judge" /\ NoNextCell(Row, last, site)
  <2>1. last \in {Null, next}
    BY <1>1 DEF IInv, ShiftInv, Shifting, NextInPlace
  <2>2. ASSUME NEW k \in Columns, FirstFree <= k, k < freeSite'
        PROVE  sites[Row][k] \in InGroup(group)' \cup {Null}
    <3>1. k \in Int
      BY ConstantTypes
    <3>2. CASE k < Behind
      BY <1>15, <2>2, <3>2
    <3>3. CASE Behind <= k
      <4>1. k \in ZoneSites
        <5>1. 0 <= zone.left /\ zone.left <= FirstFree /\ zone.left \in Int
          BY <1>5 DEF ZoneSites, ZoneType
        <5>. QED BY <1>5, <1>8, <2>2, <3>1, <5>1, ZoneBounds
      <4>2. site <= k
        BY <1>5, <1>6, <3>1, <3>3
      <4>. QED BY <1>7, <1>16, <2>1, <4>1, <4>2 DEF NoNextCell
    <3>. QED BY <1>6, <3>1, <3>2, <3>3
  <2>3. OnlyShiftedUpTo(freeSite)'
    BY <1>7, <1>9, <2>2 DEF OnlyShiftedUpTo
  <2>4. ShiftInv'
    BY <1>1, <1>2, <1>7, <1>8, <1>9, <1>14, <1>16, <2>3 DEF ShiftInv, Shifting
  <2>. QED BY <1>10, <1>11, <1>12, <1>13, <2>4 DEF IInv
<1>17. ASSUME NEW j \in ZoneSites, IsNextCellAt(Row, last, site, j),
              op' = "judge", freeSite' <= cellSiteIdx[sites[Row][j]]
       PROVE  IInv'
  <2>1. /\ cellSiteIdx[sites[Row][j]] = j /\ j \in Int
        /\ \A k \in Columns : Behind <= k /\ k < j => sites[Row][k] = Null
    BY <1>1, <1>17, OtherCellBegins
  <2>2. ASSUME NEW k \in Columns, FirstFree <= k, k < freeSite'
        PROVE  sites[Row][k] \in InGroup(group)' \cup {Null}
    <3>1. k \in Int /\ k < j
      BY <1>8, <1>17, <2>1, <2>2, ConstantTypes
    <3>. QED BY <1>6, <1>15, <2>1, <2>2, <3>1
  <2>3. OnlyShiftedUpTo(freeSite)'
    BY <1>7, <1>9, <2>2 DEF OnlyShiftedUpTo
  <2>4. ShiftInv'
    BY <1>1, <1>2, <1>7, <1>8, <1>9, <1>14, <1>17, <2>3 DEF ShiftInv, Shifting
  <2>. QED BY <1>10, <1>11, <1>12, <1>13, <2>4 DEF IInv
<1>18. ASSUME NEW j \in ZoneSites, IsNextCellAt(Row, last, site, j),
              op' = "shift", ~ (freeSite' <= cellSiteIdx[sites[Row][j]]),
              site' = j, last' = sites[Row][j], next' = sites[Row][j]
       PROVE  IInv'
  <2>1. /\ cellSiteIdx[sites[Row][j]] = j /\ j \in Int /\ Behind <= j
        /\ sites[Row][j] \in Cells
        /\ \A k \in Columns : Behind <= k /\ k < j => sites[Row][k] = Null
    BY <1>1, <1>18, OtherCellBegins
  <2>2. j < freeSite'
    BY <1>8, <1>18, <2>1
  <2>3. FirstFree <= j
    BY <1>5, <1>6, <2>1
  <2>4. NumFree(Row, j) = NumFree(Row, Behind) + (j - Behind)
    <3>1. ASSUME NEW k \in Int, Behind <= k, k < j PROVE k \in FreeSites(Row)
      <4>1. zone.left <= FirstFree /\ zone.left \in Int /\ zone.width \in Int
        BY <1>5 DEF ZoneSites, ZoneType
      <4>2. j < NumCols /\ j < zone.left + zone.width /\ 0 <= zone.left
        BY <2>1, ConstantTypes DEF ZoneSites
      <4>3. k \in Columns /\ k \in ZoneSites
        BY <1>5, <1>6, <3>1, <2>1, <4>1, <4>2, ConstantTypes DEF ZoneSites
      <4>. QED BY <2>1, <3>1, <4>3 DEF FreeSites, IsFree
    <3>. QED BY <1>6, <2>1, <3>1, CountOverFree
  <2>5. freeSite' = j + Width(Cell) - NumFree(Row, j)
    BY <1>5, <1>6, <1>8, <2>1, <2>4
  <2>6. ASSUME NEW n \in DOMAIN group', group'[n].cell # Cell
        PROVE  cellSiteIdx[group'[n].cell] < j
    <3>1. group'[n].cell \in InGroup(group) \cup {next}
      BY <1>7, <2>6, Zenon
    <3>2. CASE group'[n].cell = next
      <4>1. group # <<>>
        BY <1>1, <2>6, <3>2 DEF IInv, ShiftInv, Shifting, NextInPlace
      <4>2. cellSiteIdx[next] = site /\ Behind = site + Width(next)
        BY <1>1, <4>1 DEF IInv, ShiftInv, Shifting, NextInPlace, Behind
      <4>. QED BY <1>5, <2>1, <3>2, <4>2
    <3>3. CASE group'[n].cell \in InGroup(group)
      <4>1. PICK m \in DOMAIN group : group[m].cell = group'[n].cell
        BY <3>3
      <4>2. group # <<>>
        BY <4>1
      <4>3. cellSiteIdx[group[m].cell] < site
        BY <1>1, <2>6, <4>1, <4>2 DEF IInv, ShiftInv, Shifting, NextInPlace
      <4>4. group[m].cell \in Cells
        BY <1>1, <4>1, ConstantTypes DEF IInv, ShiftInv, Shifting, ShiftedInOrder
      <4>5. cellSiteIdx[group[m].cell] \in Int
        BY <4>4, ConstantTypes DEF IInv, SwapType, GridType
      <4>. QED BY <1>5, <1>6, <2>1, <4>1, <4>3, <4>5
    <3>. QED BY <3>1, <3>2, <3>3
  <2>7. NumFree(Row, site)' = NumFree(Row, j)
    BY <1>9, <1>18 DEF NumFree, FreeUpTo
  <2>8. NextInPlace'
    BY <1>7, <1>9, <1>18, <2>1, <2>2, <2>3, <2>5, <2>6, <2>7 DEF NextInPlace, Width
  <2>9. OnlyShiftedUpTo(site)'
    <3>1. ASSUME NEW k \in Columns, FirstFree <= k, k < j
          PROVE  sites[Row][k] \in InGroup(group)' \cup {Null}
      <4>1. k \in Int
        BY ConstantTypes
      <4>. QED BY <1>6, <1>15, <2>1, <3>1, <4>1
    <3>. QED BY <1>7, <1>9, <1>18, <3>1 DEF OnlyShiftedUpTo
  <2>10. ShiftInv'
    BY <1>1, <1>2, <1>7, <1>8, <1>9, <1>14, <1>18, <2>8, <2>9 DEF ShiftInv, Shifting
  <2>. QED BY <1>10, <1>11, <1>12, <1>13, <2>10 DEF IInv
<1>. QED BY <1>3, <1>16, <1>17, <1>18

-----------------------------------------------------------------------------
(***************************************************************************)
(* The exchange of two cells.  Each goes into the stretch that the other   *)
(* one and the free sites around it make up; the stretches of two cells of *)
(* a row may share free sites, but then the cells do not both need them.   *)
(***************************************************************************)
Stretch(c, a, b) ==
  /\ c \in Placeable /\ a \in Nat /\ b \in Nat
  /\ 0 <= cellSiteIdx[c] - a /\ cellSiteIdx[c] + Width(c) + b <= NumCols
  /\ \A k \in Columns : cellSiteIdx[c] - a <= k /\ k < cellSiteIdx[c] + Width(c) + b =>
        sites[cellRow[c]][k] \in {c, Null}

LEMMA FreeBeforeIsFree ==
  ASSUME NEW r \in Rows, NEW k \in Columns, NEW lo, NEW n \in FreeBefore(r, k, lo)
  PROVE  /\ n \in Nat /\ 0 <= k - n
         /\ \A j \in Columns : k - n <= j /\ j < k => sites[r][j] = Null
<1>1. /\ n \in 0 .. NumCols /\ n \in Nat
      /\ \A j \in k - n .. k - 1 : j \in Columns /\ sites[r][j] = Null
  BY ConstantTypes DEF FreeBefore, IsFree
<1>2. k \in Int /\ 0 <= k /\ \A j \in Columns : j \in Int
  BY ConstantTypes
<1>3. 0 <= k - n
  <2>1. CASE n = 0
    BY <1>2, <2>1
  <2>2. CASE n # 0
    <3>1. k - n \in k - n .. k - 1
      BY <1>1, <1>2, <2>2
    <3>. QED BY <1>1, <3>1, ConstantTypes
  <2>. QED BY <2>1, <2>2
<1>. QED BY <1>1, <1>2, <1>3

LEMMA FreeFromIsFree ==
  ASSUME NEW r \in Rows, NEW k \in Int, 0 <= k, k <= NumCols, NEW hi, NEW n \in FreeFrom(r, k, hi)
  PROVE  /\ n \in Nat /\ k + n <= NumCols
         /\ \A j \in Columns : k <= j /\ j < k + n => sites[r][j] = Null
<1>1. /\ n \in 0 .. NumCols /\ n \in Nat /\ NumCols \in Int
      /\ \A j \in k .. k + n - 1 : j \in Columns /\ sites[r][j] = Null
  BY ConstantTypes DEF FreeFrom, IsFree
<1>2. \A j \in Columns : j \in Int
  BY ConstantTypes
<1>3. k + n <= NumCols
  <2>1. CASE n = 0
    BY <1>1, <2>1
  <2>2. CASE n # 0
    <3>1. k + n - 1 \in k .. k + n - 1
      BY <1>1, <2>2
    <3>2. k + n - 1 < NumCols
      BY <1>1, <3>1, ConstantTypes
    <3>. QED BY <1>1, <3>2
  <2>. QED BY <2>1, <2>2
<1>. QED BY <1>1, <1>2, <1>3

(* The stretch of a cell. *)
LEMMA StretchOfCell ==
  ASSUME GridType, LegalGrid, NEW c \in Placeable, NEW lo, NEW hi,
         NEW a \in FreeBefore(cellRow[c], cellSiteIdx[c], lo),
         NEW b \in FreeFrom(cellRow[c], cellSiteIdx[c] + Width(c), hi)
  PROVE  Stretch(c, a, b)
<1>1. /\ c \in Cells /\ Width(c) \in Nat /\ NumCols \in Int
      /\ cellRow[c] \in Rows /\ cellSiteIdx[c] \in Columns /\ cellSiteIdx[c] \in Nat
  BY ConstantTypes DEF GridType
<1>2. cellSiteIdx[c] + Width(c) <= NumCols
  BY DEF LegalGrid, InsideGrid, Width
<1>3. /\ a \in Nat /\ 0 <= cellSiteIdx[c] - a
      /\ \A j \in Columns : cellSiteIdx[c] - a <= j /\ j < cellSiteIdx[c] =>
            sites[cellRow[c]][j] = Null
  BY <1>1, FreeBeforeIsFree
<1>4. cellSiteIdx[c] + Width(c) \in Int /\ 0 <= cellSiteIdx[c] + Width(c)
  BY <1>1
<1>5. /\ b \in Nat /\ cellSiteIdx[c] + Width(c) + b <= NumCols
      /\ \A j \in Columns :
            cellSiteIdx[c] + Width(c) <= j /\ j < cellSiteIdx[c] + Width(c) + b =>
               sites[cellRow[c]][j] = Null
  BY <1>1, <1>2, <1>4, FreeFromIsFree
<1>6. ASSUME NEW k \in Columns,
             cellSiteIdx[c] - a <= k, k < cellSiteIdx[c] + Width(c) + b
      PROVE  sites[cellRow[c]][k] \in {c, Null}
  <2>1. k \in Int
    BY ConstantTypes
  <2>2. cellSiteIdx[c] <= k /\ k < cellSiteIdx[c] + Width(c) => sites[cellRow[c]][k] = c
    BY <1>1 DEF LegalGrid, SitesDescribeCells, Width
  <2>. QED BY <1>1, <1>3, <1>5, <1>6, <2>1, <2>2
<1>. QED BY <1>1, <1>3, <1>5, <1>6 DEF Stretch

(* A cell that is not wider than a stretch is given sites of it. *)
LEMMA SiteInStretch ==
  ASSUME NEW k \in Nat, NEW v \in Nat, NEW a \in Nat, NEW b \in Nat, NEW w \in Nat,
         0 <= k - a, w <= a + v + b
  PROVE  /\ SiteInPlaceOf(k, v, b, w) = IF w > v + b THEN k + v + b - w ELSE k
         /\ SiteInPlaceOf(k, v, b, w) \in Nat
         /\ k - a <= SiteInPlaceOf(k, v, b, w)
         /\ SiteInPlaceOf(k, v, b, w) + w <= k + v + b
<1>. DEFINE needed == w - (v + b)
<1>1. needed \in Int /\ needed <= a /\ needed <= k /\ (needed > 0 <=> w > v + b)
  OBVIOUS
<1>2. SiteInPlaceOf(k, v, b, w) = IF needed > 0 THEN (IF k > needed THEN k - needed ELSE 0) ELSE k
  BY DEF SiteInPlaceOf
<1>3. SiteInPlaceOf(k, v, b, w) = IF w > v + b THEN k + v + b - w ELSE k
  BY <1>1, <1>2
<1>. QED BY <1>3

(* Two cells of a row do not lie in each other's stretch. *)
LEMMA StretchesApart ==
  ASSUME GridType, LegalGrid, NEW c, NEW t, c # t, cellRow[c] = cellRow[t],
         NEW a \in Nat, NEW b \in Nat, Stretch(c, a, b), t \in Placeable
  PROVE  \/ cellSiteIdx[t] + Width(t) <= cellSiteIdx[c] - a
         \/ cellSiteIdx[c] + Width(c) + b <= cellSiteIdx[t]
<1>. DEFINE lo == cellSiteIdx[c] - a
            hi == cellSiteIdx[c] + Width(c) + b
            at == cellSiteIdx[t]
            wt == Width(t)
<1>1. /\ c \in Cells /\ t \in Cells /\ at \in Columns /\ at \in Nat /\ wt \in Nat \ {0}
      /\ cellSiteIdx[c] \in Nat /\ Width(c) \in Nat \ {0} /\ cellRow[c] \in Rows
      /\ NumCols \in Int
  BY ConstantTypes DEF GridType, Stretch
<1>2. at + wt <= NumCols
  BY DEF LegalGrid, InsideGrid, Width
<1>3. \A k \in Columns : lo <= k /\ k < hi => sites[cellRow[c]][k] \in {c, Null}
  BY DEF Stretch
<1>4. \A k \in Columns : at <= k /\ k < at + wt => sites[cellRow[c]][k] = t
  BY <1>1 DEF LegalGrid, SitesDescribeCells, Width
<1>5. t \notin {c, Null}
  BY <1>1, ConstantTypes
<1>6. \A k \in Columns : ~ (lo <= k /\ k < hi /\ at <= k /\ k < at + wt)
  BY <1>3, <1>4, <1>5
<1>7. lo \in Int /\ hi \in Int /\ lo < hi /\ 0 <= lo
  BY <1>1 DEF Stretch
<1>8. SUFFICES ASSUME lo < at + wt, at < hi PROVE FALSE
  BY <1>1, <1>7
<1>9. CASE lo <= at
  BY <1>1, <1>6, <1>8, <1>9
<1>10. CASE at < lo
  <2>1. lo \in Columns
    BY <1>1, <1>2, <1>7, <1>8, ConstantTypes
  <2>. QED BY <1>1, <1>6, <1>7, <1>8, <1>10, <2>1
<1>. QED BY <1>1, <1>7, <1>9, <1>10

LEMMA ExchangeCanBePut ==
  ASSUME GridType, LegalGrid, NEW c, NEW t, Row \in Rows, cellRow[t] = Row,
         NEW lc, NEW rc, NEW lt, NEW rt,
         Stretch(c, lc, rc), Stretch(t, lt, rt), Fits(c, lc, rc, t, lt, rt)
  PROVE  CanBePut(Exchange(c, rc, t, rt))
<1>. DEFINE kt == SiteInPlaceOf(cellSiteIdx[c], Width(c), rc, Width(t))
            kc == SiteInPlaceOf(cellSiteIdx[t], Width(t), rt, Width(c))
            pt == [cell |-> t, row |-> cellRow[c], column |-> kt]
            pc == [cell |-> c, row |-> Row, column |-> kc]
            g  == <<pt, pc>>
<1>1. /\ lc \in Nat /\ rc \in Nat /\ lt \in Nat /\ rt \in Nat
      /\ c \in Placeable /\ t \in Placeable
      /\ 0 <= cellSiteIdx[c] - lc /\ cellSiteIdx[c] + Width(c) + rc <= NumCols
      /\ 0 <= cellSiteIdx[t] - lt /\ cellSiteIdx[t] + Width(t) + rt <= NumCols
  BY DEF Stretch
<1>2. /\ c \in Cells /\ t \in Cells /\ Width(c) \in Nat \ {0} /\ Width(t) \in Nat \ {0}
      /\ cellRow[c] \in Rows /\ cellSiteIdx[c] \in Nat /\ cellSiteIdx[t] \in Nat /\ NumCols \in Nat
  BY <1>1, ConstantTypes DEF GridType
<1>3. Width(t) <= lc + Width(c) + rc /\ Width(c) <= lt + Width(t) + rt
  BY <1>1, <1>2 DEF Fits
<1>4. /\ kt = IF Width(t) > Width(c) + rc THEN cellSiteIdx[c] + Width(c) + rc - Width(t)
                                          ELSE cellSiteIdx[c]
      /\ kt \in Nat /\ cellSiteIdx[c] - lc <= kt
      /\ kt + Width(t) <= cellSiteIdx[c] + Width(c) + rc
  <2>1. cellSiteIdx[c] \in Nat /\ Width(c) \in Nat /\ Width(t) \in Nat
    BY <1>2
  <2>2. /\ lc \in Nat /\ rc \in Nat /\ 0 <= cellSiteIdx[c] - lc
        /\ Width(t) <= lc + Width(c) + rc
    BY <1>1, <1>3
  <2>. QED BY <2>1, <2>2, SiteInStretch
<1>5. /\ kc = IF Width(c) > Width(t) + rt THEN cellSiteIdx[t] + Width(t) + rt - Width(c)
                                          ELSE cellSiteIdx[t]
      /\ kc \in Nat /\ cellSiteIdx[t] - lt <= kc
      /\ kc + Width(c) <= cellSiteIdx[t] + Width(t) + rt
  <2>1. cellSiteIdx[t] \in Nat /\ Width(t) \in Nat /\ Width(c) \in Nat
    BY <1>2
  <2>2. /\ lt \in Nat /\ rt \in Nat /\ 0 <= cellSiteIdx[t] - lt
        /\ Width(c) <= lt + Width(t) + rt
    BY <1>1, <1>3
  <2>. QED BY <2>1, <2>2, SiteInStretch
<1>. HIDE DEF kt, kc
<1>6. kt \in Columns /\ kc \in Columns /\ kt + Width(t) <= NumCols /\ kc + Width(c) <= NumCols
  BY <1>1, <1>2, <1>4, <1>5, ConstantTypes
<1>7. g \in Seq(Places) /\ DOMAIN g = {1, 2} /\ g[1] = pt /\ g[2] = pc
  BY <1>2, <1>6 DEF Places
<1>8. /\ pt.cell = t /\ pt.row = cellRow[c] /\ pt.column = kt
      /\ pc.cell = c /\ pc.row = Row /\ pc.column = kc
  OBVIOUS
<1>. HIDE DEF g, pt, pc
<1>9. InGroup(g) = {t, c}
  BY <1>7, <1>8
<1>10. PlaceIsOpen(g, pt)
  <2>1. ASSUME NEW k \in Columns, Covers(kt, t, k) PROVE sites[cellRow[c]][k] \in {c, Null}
    <3>1. k \in Int
      BY ConstantTypes
    <3>. QED BY <1>1, <1>2, <1>4, <2>1, <3>1 DEF Stretch, Width
  <2>. QED BY <1>1, <1>6, <1>8, <1>9, <2>1 DEF PlaceIsOpen
<1>11. PlaceIsOpen(g, pc)
  <2>1. ASSUME NEW k \in Columns, Covers(kc, c, k) PROVE sites[Row][k] \in {t, Null}
    <3>1. k \in Int
      BY ConstantTypes
    <3>. QED BY <1>1, <1>2, <1>5, <2>1, <3>1 DEF Stretch, Width
  <2>. QED BY <1>1, <1>6, <1>8, <1>9, <2>1 DEF PlaceIsOpen
<1>12. c = t => pt = pc
  <2>1. SUFFICES ASSUME c = t PROVE kt = kc /\ cellRow[c] = Row
    BY <1>8 DEF pt, pc
  <2>. QED BY <1>2, <1>1, <1>4, <1>5, <2>1
<1>13. ASSUME c # t, cellRow[c] = Row PROVE Disjoint(pt, pc) /\ Disjoint(pc, pt)
  <2>1. \/ cellSiteIdx[t] + Width(t) <= cellSiteIdx[c] - lc
        \/ cellSiteIdx[c] + Width(c) + rc <= cellSiteIdx[t]
    BY <1>1, <1>13, StretchesApart
  <2>2. \/ cellSiteIdx[c] + Width(c) <= cellSiteIdx[t] - lt
        \/ cellSiteIdx[t] + Width(t) + rt <= cellSiteIdx[c]
    BY <1>1, <1>13, StretchesApart
  <2>3. kt + Width(t) <= kc \/ kc + Width(c) <= kt
    BY <1>1, <1>2, <1>4, <1>5, <2>1, <2>2
  <2>. QED BY <1>8, <2>3 DEF Disjoint
<1>14. CanBePut(g)
  BY <1>7, <1>8, <1>10, <1>11, <1>12, <1>13 DEF CanBePut
<1>. QED BY <1>14 DEF Exchange, g, pt, pc, kt, kc

LEMMA TryToExchangeWithCellInv == IInv /\ TryToExchangeWithCell => IInv'
<1>. SUFFICES ASSUME IInv, TryToExchangeWithCell PROVE IInv'
  OBVIOUS
<1>1. op = "exchange" /\ i \in DOMAIN rows
  BY DEF TryToExchangeWithCell, Trying
<1>2. /\ group = <<>> /\ SwapType /\ GridType /\ ZoneType /\ LegalGrid /\ SitesDescribeCells
      /\ Row \in Rows /\ Cell \in Placeable
  BY <1>1, TryingRow, CellIsPlaceable DEF IInv, NothingShifted, SwapType, LegalGrid
<1>3. PICK j \in ZoneSites :
        /\ IsNextCellAt(Row, last, site, j)
        /\ \E lc \in FreeBefore(cellRow[Cell], cellSiteIdx[Cell], 0),
              rc \in FreeFrom(cellRow[Cell], cellSiteIdx[Cell] + Width(Cell), NumCols),
              lt \in FreeBefore(Row, cellSiteIdx[sites[Row][j]], ZoneBegin),
              rt \in FreeFrom(Row, cellSiteIdx[sites[Row][j]] + Width(sites[Row][j]), ZoneEnd) :
              \/ /\ AfterTrial(j, sites[Row][j])
                 /\ UNCHANGED <<gridVars, pos, netHPWL, pass, cur, trusted>>
              \/ /\ Fits(Cell, lc, rc, sites[Row][j], lt, rt)
                 /\ LET g == Exchange(Cell, rc, sites[Row][j], rt)
                    IN  Accept(g) \/ (Reject(g) /\ AfterTrial(j, sites[Row][j]))
  <2>. HIDE DEF IInv
  <2>. QED BY DEF TryToExchangeWithCell
<1>. DEFINE c == Cell
            t == sites[Row][j]
<1>4. j \in Columns /\ t # Null
  BY <1>2, <1>3, ZoneBounds DEF IsNextCellAt
<1>5. t \in Cells
  BY <1>2, <1>4 DEF GridType
<1>6. t \in Placeable /\ cellRow[t] = Row
  BY <1>2, <1>4, <1>5 DEF SitesDescribeCells
<1>7. ASSUME AfterTrial(j, t)
      PROVE  op' = "exchange" /\ UNCHANGED <<rows, zone, group>> /\ group' = <<>>
  BY <1>1, <1>2, <1>7 DEF AfterTrial
<1>. HIDE DEF t, c
<1>8. PICK lc \in FreeBefore(cellRow[c], cellSiteIdx[c], 0),
           rc \in FreeFrom(cellRow[c], cellSiteIdx[c] + Width(c), NumCols),
           lt \in FreeBefore(cellRow[t], cellSiteIdx[t], ZoneBegin),
           rt \in FreeFrom(cellRow[t], cellSiteIdx[t] + Width(t), ZoneEnd) :
        \/ /\ AfterTrial(j, t)
           /\ UNCHANGED <<gridVars, pos, netHPWL, pass, cur, trusted>>
        \/ /\ Fits(c, lc, rc, t, lt, rt)
           /\ LET g == Exchange(c, rc, t, rt)
              IN  Accept(g) \/ (Reject(g) /\ AfterTrial(j, t))
  BY <1>3, <1>6 DEF c, t
<1>9. Stretch(c, lc, rc) /\ Stretch(t, lt, rt)
  BY <1>2, <1>6, StretchOfCell, Zenon DEF c
<1>10. CASE AfterTrial(j, t) /\ UNCHANGED <<gridVars, pos, netHPWL, pass, cur, trusted>>
  BY <1>1, <1>2, <1>7, <1>10, UnmovedAsOnGrid, QuietInv
<1>11. CASE /\ Fits(c, lc, rc, t, lt, rt)
            /\ LET g == Exchange(c, rc, t, rt)
               IN  Accept(g) \/ (Reject(g) /\ AfterTrial(j, t))
  <2>. DEFINE g == Exchange(c, rc, t, rt)
  <2>1. CanBePut(g)
    BY <1>2, <1>6, <1>9, <1>11, ExchangeCanBePut
  <2>2. AsOnGrid(InGroup(g))
    BY <1>2, NoGroup DEF IInv, AsOnGrid
  <2>3. Accept(g) \/ (Reject(g) /\ AfterTrial(j, t))
    BY <1>11
  <2>. HIDE DEF g
  <2>4. CASE Accept(g)
    BY <1>1, <2>1, <2>2, <2>4, AcceptInv
  <2>5. CASE Reject(g) /\ AfterTrial(j, t)
    <3>1. InGroup(g) \subseteq Placeable
      BY <2>1 DEF CanBePut, PlaceIsOpen
    <3>. QED BY <1>1, <1>7, <2>2, <2>5, <3>1, RejectInv
  <2>. QED BY <2>3, <2>4, <2>5
<1>. QED BY <1>8, <1>10, <1>11

LEMMA RowStepInv == IInv /\ (RowsExhausted \/ NobodyLeftInRow) => IInv'
<1>. SUFFICES ASSUME IInv, RowsExhausted \/ NobodyLeftInRow PROVE IInv'
  OBVIOUS
<1>1. /\ op \in {"move", "exchange"} /\ op' = "exchange"
      /\ UNCHANGED <<gridVars, pos, netHPWL, cur, rows, zone, group>>
  BY DEF RowsExhausted, NobodyLeftInRow, Trying
<1>2. group = <<>>
  BY <1>1 DEF IInv, NothingShifted
<1>. QED BY <1>1, <1>2, UnmovedAsOnGrid, QuietInv

LEMMA CellStaysInv == IInv /\ CellStays => IInv'
<1>. SUFFICES ASSUME IInv, CellStays PROVE IInv'
  OBVIOUS
<1>1. op = "exchange" /\ op' = "cell" /\ cur' = cur + 1 /\ TrialOver
      /\ UNCHANGED <<gridVars, pos, netHPWL>>
  BY DEF CellStays
<1>2. group = <<>> /\ cur < Len(CellOrder)
  BY <1>1 DEF IInv, NothingShifted, SwapType
<1>3. ZoneType' /\ last' = Null /\ group' = <<>>
  BY <1>1 DEF TrialOver, ZoneType
<1>. QED BY <1>1, <1>2, <1>3, UnmovedAsOnGrid, NextCellInv

LEMMA StepInv == IInv /\ [SwapStep]_swapVars => IInv'
<1>. SUFFICES ASSUME IInv, [SwapStep]_swapVars PROVE IInv'
  OBVIOUS
<1>1. CASE SwapStep
  BY <1>1, GlobalProcessCellInv, VerticalProcessCellInv, TooFullInv,
     TryToMoveWithoutShiftingInv, TryToMoveWithShiftingInv, ShiftOneMoreInv,
     JudgeShiftInv, RowStepInv, TryToExchangeWithCellInv, CellStaysInv DEF SwapStep
<1>2. CASE UNCHANGED swapVars
  BY <1>2 DEF swapVars, gridVars, trialVars, IInv, SwapType, GridType, ZoneType, LegalGrid,
     InsideGrid, SitesDescribeCells, NothingShifted, CellComesFromOutside, Cell, AsOnGrid,
     ShiftInv, Shifting, FirstFreeIsFirst, FirstFree, Row, FreeSites, ZoneSites, IsFree,
     ShiftedInOrder, OnlyShiftedUpTo, NextInPlace, NumFree, FreeUpTo, ZoneLimit, Width,
     CacheInv, GridCoordinates, CalcNetHPWL, PinsOf, Pin
<1>. QED BY <1>1, <1>2

(***************************************************************************)
(* Whatever a pass of global swaps or of vertical search moves, shifts or  *)
(* exchanges, the invariant holds: for every grid, all cells, all nets and *)
(* every legal placement the pass begins with.                             *)
(***************************************************************************)
THEOREM SwapInvariant == SwapSpec => []IInv
<1>. QED BY InitInv, StepInv, PTL DEF SwapSpec

(***************************************************************************)
(* GlobalSwap.cpp and VerticalSearch.cpp keep a legal placement legal:     *)
(* between trials no two cells overlap, none leaves the grid and the       *)
(* coordinates are those of the grid.                                      *)
(***************************************************************************)
THEOREM SwapsStayLegal == SwapSpec => []PlacementLegal
<1>1. IInv => PlacementLegal
  BY NoGroup DEF IInv, PlacementLegal, Legal, LegalGrid, NothingShifted, AsOnGrid,
     CheckGridConsistency
<1>. QED BY <1>1, SwapInvariant, PTL

(***************************************************************************)
(* ReleaseSpaceForCell never needs a site behind the zone: the assertion   *)
(* freeSiteIdx <= forbiddenSiteIdx cannot fail on a legal placement.       *)
(***************************************************************************)
THEOREM ShiftingStaysInZone == SwapSpec => []ShiftStaysInZone
<1>1. IInv => ShiftStaysInZone
  <2>. SUFFICES ASSUME IInv, op \in {"shift", "judge"}
                PROVE  freeSite <= zone.left + zone.width
    BY DEF ShiftStaysInZone
  <2>1. freeSite \in Int /\ freeSite <= ZoneLimit
    BY DEF IInv, ShiftInv, Shifting
  <2>2. zone.left \in Int /\ zone.width \in Int /\ ZoneLimit <= zone.left + zone.width
        /\ ZoneLimit \in Int
    BY ZoneBounds DEF IInv, SwapType, ZoneType
  <2>. QED BY <2>1, <2>2
<1>. QED BY <1>1, SwapInvariant, PTL

(***************************************************************************)
(* The length a trial is judged against is that of the wires: what is kept *)
(* refreshes every net it lengthens or shortens, and what is rolled back   *)
(* leaves the lengths as they were.                                        *)
(***************************************************************************)
THEOREM SwapsKeepLengthsExact == SwapSpec => []CachedLengthsExact
<1>1. IInv => CachedLengthsExact
  <2>. SUFFICES ASSUME IInv, op \notin {"shift", "judge"}
                PROVE  netHPWL = [n \in Nets |-> CalcNetHPWL(pos, n)]
    BY DEF CachedLengthsExact
  <2>1. GridCoordinates = pos
    BY NoGroup, BetweenTrials, Zenon DEF IInv, SwapType, NothingShifted
  <2>. QED BY <2>1 DEF IInv, CacheInv
<1>. QED BY <1>1, SwapInvariant, PTL

(***************************************************************************)
(* Numbers, and functions defined by recursion over them.                  *)
(***************************************************************************)
LEMMA LeastNumber ==
  ASSUME NEW K, K \subseteq Nat, K # {}
  PROVE  \E k \in K : \A j \in K : k <= j
<1> DEFINE R == StrictSubsetOrdering(Nat)
           F == {0..k : k \in K}
<1>1. IsWellFoundedOn(R, FiniteSubsetsOf(Nat)) BY FS_StrictSubsetOrderingWellFounded
<1>2. F \subseteq FiniteSubsetsOf(Nat)
  <2>. SUFFICES ASSUME NEW k \in K PROVE 0..k \in FiniteSubsetsOf(Nat) OBVIOUS
  <2>1. IsFiniteSet(0..k) BY FS_Interval
  <2>. QED BY <2>1 DEF FiniteSubsetsOf
<1>3. F # {} BY Zenon
<1>. HIDE DEF R, F
<1>4. PICK x \in F : \A y \in F : <<y, x>> \notin R BY <1>1, <1>2, <1>3, WFMin
<1>. USE DEF R, F
<1>5. PICK k \in K : x = 0..k BY <1>4 DEF F
<1>6. ASSUME NEW j \in K PROVE k <= j
  <2>. SUFFICES ASSUME j < k PROVE FALSE OBVIOUS
  <2>1. 0..j \subseteq 0..k /\ 0..j # 0..k OBVIOUS
  <2>2. 0..j \in F OBVIOUS
  <2>3. 0..j \in SUBSET Nat /\ 0..k \in SUBSET Nat OBVIOUS
  <2>4. <<0..j, 0..k>> \in R BY <2>1, <2>3 DEF StrictSubsetOrdering
  <2>. QED BY <1>4, <1>5, <2>2, <2>4, Zenon
<1>. QED BY <1>6

(* A set of numbers with 0 and the successors of its members below n has all
   numbers up to n. *)
LEMMA Climb ==
  ASSUME NEW n \in Nat, NEW K, 0 \in K, \A k \in 0..n : k \in K /\ k + 1 \in 0..n => k + 1 \in K
  PROVE  0..n \subseteq K
<1> DEFINE M == {k \in 0..n : k \notin K}
<1> SUFFICES ASSUME M # {} PROVE FALSE OBVIOUS
<1>1. M \subseteq Nat OBVIOUS
<1>2. PICK k \in M : \A j \in M : k <= j BY <1>1, LeastNumber, Zenon
<1>3. k \in 0..n /\ k # 0 /\ k - 1 \in 0..n /\ (k - 1) + 1 = k BY <1>2
<1>4. k - 1 \in K BY <1>2, <1>3
<1>. QED BY <1>2, <1>3, <1>4

(* f gives x, F[1][x], F[2][F[1][x]] and so on up to L. *)
Iterates(f, L, x, F, S) ==
  f \in [0..L -> S] /\ f[0] = x /\ \A n \in 1..L : f[n] = F[n][f[n - 1]]

LEMMA RecursionExists ==
  ASSUME NEW L \in Nat, NEW S, NEW x \in S, NEW F, F \in [1..L -> [S -> S]]
  PROVE  \E f : Iterates(f, L, x, F, S)
<1> DEFINE Runs(k) == {p \in [0..k -> S] : p[0] = x /\ \A n \in 1..k : p[n] = F[n][p[n - 1]]}
           K == {k \in 0..L : Runs(k) # {}}
<1>1. 0 \in K
  <2>1. [n \in 0..0 |-> x] \in Runs(0) OBVIOUS
  <2>. QED BY <2>1
<1>2. ASSUME NEW k \in 0..L, k \in K, k + 1 \in 0..L PROVE k + 1 \in K
  <2>1. PICK p \in Runs(k) : TRUE BY <1>2
  <2> DEFINE q == [n \in 0..(k + 1) |-> IF n = k + 1 THEN F[k + 1][p[k]] ELSE p[n]]
  <2>2. p \in [0..k -> S] /\ p[0] = x /\ \A n \in 1..k : p[n] = F[n][p[n - 1]] BY <2>1
  <2>3. \A n \in 0..(k + 1) : n = k + 1 \/ n \in 0..k OBVIOUS
  <2>4. F[k + 1] \in [S -> S] /\ p[k] \in S BY <1>2, <2>2
  <2>5. q \in [0..(k + 1) -> S] BY <2>2, <2>3, <2>4
  <2>6. \A n \in 0..k : q[n] = p[n] OBVIOUS
  <2>7. ASSUME NEW n \in 1..(k + 1) PROVE q[n] = F[n][q[n - 1]]
    <3>1. CASE n = k + 1
      <4>1. q[n] = F[k + 1][p[k]] /\ q[k] = p[k] /\ n - 1 = k BY <3>1
      <4>. QED BY <3>1, <4>1
    <3>2. CASE n \in 1..k
      <4>1. n - 1 \in 0..k /\ n \in 0..k BY <3>2
      <4>. QED BY <2>2, <2>6, <3>2, <4>1
    <3>. QED BY <3>1, <3>2
  <2>8. q[0] = x BY <2>2, <2>6
  <2>9. q \in Runs(k + 1) BY <2>5, <2>7, <2>8
  <2> HIDE DEF Runs
  <2>. QED BY <1>2, <2>9
<1> HIDE DEF K, Runs
<1>3. 0..L \subseteq K BY <1>1, <1>2, Climb, Zenon
<1>4. L \in K BY <1>3
<1>. QED BY <1>4 DEF K, Runs, Iterates

LEMMA SumSteps ==
  ASSUME NEW w \in Seq(Nat)
  PROVE  /\ SumUpTo(w) \in [0..Len(w) -> Nat]
         /\ SumUpTo(w)[0] = 0
         /\ \A n \in 1..Len(w) : SumUpTo(w)[n] = SumUpTo(w)[n - 1] + w[n]
<1> DEFINE L == Len(w)
           F == [n \in 1..L |-> [s \in Nat |-> s + w[n]]]
<1>1. L \in Nat /\ \A n \in 1..L : w[n] \in Nat OBVIOUS
<1>2. F \in [1..L -> [Nat -> Nat]] BY <1>1
<1> HIDE DEF L
<1>3. PICK f : Iterates(f, L, 0, F, Nat)
  <2> HIDE DEF F
  <2>. QED BY <1>1, <1>2, RecursionExists, Zenon
<1>0. f \in [0..L -> Nat] /\ f[0] = 0 /\ \A n \in 1..L : f[n] = F[n][f[n - 1]]
  BY <1>3 DEF Iterates
<1>4. \A n \in 1..L : n - 1 \in 0..L /\ f[n - 1] \in Nat /\ f[n] = f[n - 1] + w[n]
  <2> TAKE n \in 1..L
  <2>1. n - 1 \in 0..L BY <1>1
  <2>2. f[n - 1] \in Nat BY <1>0, <2>1
  <2>3. f[n] = F[n][f[n - 1]] BY <1>0
  <2>. QED BY <2>1, <2>2, <2>3, Zenon
<1>5. f = [n \in 0..L |-> IF n = 0 THEN 0 ELSE f[n - 1] + w[n]]
  <2>1. \A n \in 0..L : n = 0 \/ n \in 1..L BY <1>1
  <2>. QED BY <1>0, <1>4, <2>1
<1> DEFINE h == CHOOSE g : g = [n \in 0..L |-> IF n = 0 THEN 0 ELSE g[n - 1] + w[n]]
<1>6. h = [n \in 0..L |-> IF n = 0 THEN 0 ELSE h[n - 1] + w[n]] BY <1>5, Zenon
<1>7. SumUpTo(w) = h BY DEF SumUpTo, L
<1> HIDE DEF h
<1>8. h[0] = 0 /\ \A n \in 1..L : h[n] = h[n - 1] + w[n]
  <2>1. \A n \in 1..L : n \in 0..L /\ n # 0 BY <1>1
  <2>2. 0 \in 0..L BY <1>1
  <2>. QED BY <1>6, <2>1, <2>2, Zenon
<1>9. \A n \in 0..L : h[n] = f[n]
  <2> DEFINE K == {n \in 0..L : h[n] = f[n]}
  <2>1. 0 \in K BY <1>1, <1>0, <1>8
  <2>2. ASSUME NEW k \in 0..L, k \in K, k + 1 \in 0..L PROVE k + 1 \in K
    <3>1. k + 1 \in 1..L /\ (k + 1) - 1 = k BY <2>2
    <3>. QED BY <1>4, <1>8, <2>2, <3>1
  <2> HIDE DEF K
  <2>3. 0..L \subseteq K BY <1>1, <2>1, <2>2, Climb, Zenon
  <2>. QED BY <2>3 DEF K
<1>10. h \in [0..L -> Nat]
  <2>1. \A n \in 0..L : h[n] \in Nat BY <1>0, <1>9
  <2>. QED BY <1>6, <2>1
<1>. QED BY <1>7, <1>8, <1>10 DEF L


-----------------------------------------------------------------------------
(***************************************************************************)
(* The clusters of Abacus.  A new cell is merged with some clusters at the *)
(* end of its row, and ends at the end of the row.                         *)
(***************************************************************************)
ClusterType == [cells : Seq(Placeable), width : Nat \ {0}, weight : Nat \ {0}, q : Int, x : Int]

PosType == pos \in [Cells -> [x : Int, y : Int]]

LEMMA WithinGrid ==
  ASSUME NEW k \in Int, NEW n \in Nat \ {0}
  PROVE  Within(k, n) \in 0 .. n - 1
BY DEF Within

LEMMA NearestType ==
  ASSUME NEW a \in Int, NEW b \in Nat \ {0}
  PROVE  Nearest(a, b) \in Int
BY DEF Nearest

LEMMA ClusterAtIs ==
  ASSUME NEW cells \in Seq(Placeable), NEW width \in Nat \ {0}, NEW weight \in Nat \ {0}, NEW q \in Int
  PROVE  /\ ClusterAt(cells, width, weight, q) \in ClusterType
         /\ ClusterAt(cells, width, weight, q).cells = cells
         /\ ClusterAt(cells, width, weight, q).width = width
         /\ ClusterAt(cells, width, weight, q).weight = weight
         /\ ClusterAt(cells, width, weight, q).q = q
         /\ ClusterAt(cells, width, weight, q).x + width <= NumCols
         /\ width <= NumCols => 0 <= ClusterAt(cells, width, weight, q).x
<1>1. NumCols \in Nat \ {0} BY ConstantTypes
<1>2. FindColumn(q, weight) \in 0 .. NumCols - 1
  BY <1>1, WithinGrid, NearestType, Zenon DEF FindColumn
<1> DEFINE column == FindColumn(q, weight)
           x == IF column + width > NumCols - 1 THEN NumCols - width ELSE column
<1>3. ClusterAt(cells, width, weight, q) =
        [cells |-> cells, width |-> width, weight |-> weight, q |-> q, x |-> x]
  BY DEF ClusterAt
<1> HIDE DEF column
<1>4. column \in 0 .. NumCols - 1 BY <1>2 DEF column
<1>5. x \in Int /\ x + width <= NumCols /\ (width <= NumCols => 0 <= x) BY <1>1, <1>4
<1> HIDE DEF x
<1>. QED BY <1>3, <1>5 DEF ClusterType

LEMMA NewClusterIs ==
  ASSUME PosType, NEW c \in Placeable
  PROVE  /\ MakeNewCluster(c) \in ClusterType
         /\ MakeNewCluster(c).cells = <<c>>
         /\ MakeNewCluster(c).width = CellSitesNum[c]
         /\ MakeNewCluster(c).x + MakeNewCluster(c).width <= NumCols
         /\ 0 <= MakeNewCluster(c).x
<1>1. c \in Cells /\ CellSitesNum[c] \in Nat \ {0} /\ CellSitesNum[c] <= NumCols
  BY GridAssumption, ConstantTypes DEF Width
<1> DEFINE width == CellSitesNum[c]
           weight == ColumnX(width) * ColumnX(width)
<1>2. weight \in Nat \ {0}
  <2>1. PICK n \in Nat \ {0} : n = CellSitesNum[c] BY <1>1
  <2>2. (2 * n) * (2 * n) \in Nat \ {0} OBVIOUS
  <2>. QED BY <2>1, <2>2
<1>3. pos[c].x \in Int BY <1>1 DEF PosType
<1>4. MakeNewCluster(c) = ClusterAt(<<c>>, width, weight, pos[c].x * weight) BY DEF MakeNewCluster
<1> HIDE DEF weight
<1>5. pos[c].x * weight \in Int /\ <<c>> \in Seq(Placeable) BY <1>2, <1>3
<1>7. PICK q \in Int : q = pos[c].x * weight BY <1>5
<1>8. MakeNewCluster(c) = ClusterAt(<<c>>, width, weight, q) BY <1>4, <1>7
<1> HIDE DEF width
<1>9. width \in Nat \ {0} BY <1>1 DEF width
<1> DEFINE cells == <<c>>
<1> HIDE DEF cells
<1>10. cells \in Seq(Placeable) BY <1>5 DEF cells
<1>11. /\ ClusterAt(cells, width, weight, q) \in ClusterType
       /\ ClusterAt(cells, width, weight, q).cells = cells
       /\ ClusterAt(cells, width, weight, q).width = width
       /\ ClusterAt(cells, width, weight, q).x + width <= NumCols
       /\ width <= NumCols => 0 <= ClusterAt(cells, width, weight, q).x
  BY <1>2, <1>9, <1>10, ClusterAtIs
<1>12. MakeNewCluster(c) = ClusterAt(cells, width, weight, q) BY <1>8 DEF cells
<1>6. /\ MakeNewCluster(c) \in ClusterType
      /\ MakeNewCluster(c).cells = <<c>>
      /\ MakeNewCluster(c).width = width
      /\ MakeNewCluster(c).x + width <= NumCols
      /\ width <= NumCols => 0 <= MakeNewCluster(c).x
  BY <1>11, <1>12 DEF cells
<1>. QED BY <1>1, <1>6 DEF width

LEMMA MergedClusterIs ==
  ASSUME NEW a \in ClusterType, NEW b \in ClusterType
  PROVE  /\ MergeClusters(a, b) \in ClusterType
         /\ MergeClusters(a, b).cells = a.cells \o b.cells
         /\ MergeClusters(a, b).width = a.width + b.width
         /\ MergeClusters(a, b).x + MergeClusters(a, b).width <= NumCols
         /\ a.width + b.width <= NumCols => 0 <= MergeClusters(a, b).x
<1>1. /\ a.cells \in Seq(Placeable) /\ b.cells \in Seq(Placeable)
      /\ a.width \in Nat \ {0} /\ b.width \in Nat \ {0}
      /\ a.weight \in Nat \ {0} /\ b.weight \in Nat \ {0}
      /\ a.q \in Int /\ b.q \in Int
  BY DEF ClusterType
<1> DEFINE cells  == a.cells \o b.cells
           width  == a.width + b.width
           weight == a.weight + b.weight
           q      == a.q + b.q - ColumnX(a.width) * b.weight
<1>2. /\ cells \in Seq(Placeable) /\ width \in Nat \ {0} /\ weight \in Nat \ {0} /\ q \in Int
  <2>1. cells \in Seq(Placeable) BY <1>1
  <2>2. ColumnX(a.width) * b.weight \in Int
    <3>1. PICK m \in Int, n \in Int : m = ColumnX(a.width) /\ n = b.weight BY <1>1
    <3>. QED BY <3>1
  <2>3. width \in Nat \ {0} /\ weight \in Nat \ {0} BY <1>1
  <2>4. q \in Int
    <3>1. PICK m \in Int : m = ColumnX(a.width) * b.weight BY <2>2
    <3>. QED BY <1>1, <3>1
  <2> HIDE DEF cells, width, weight, q
  <2>. QED BY <2>1, <2>3, <2>4
<1>3. MergeClusters(a, b) = ClusterAt(cells, width, weight, q) BY DEF MergeClusters
<1> HIDE DEF cells, width, weight, q
<1>4. /\ MergeClusters(a, b) \in ClusterType
      /\ MergeClusters(a, b).cells = cells
      /\ MergeClusters(a, b).width = width
      /\ MergeClusters(a, b).x + width <= NumCols
      /\ width <= NumCols => 0 <= MergeClusters(a, b).x
  BY <1>2, <1>3, ClusterAtIs
<1>. QED BY <1>4 DEF cells, width

\* merged[n] is the new cluster of c merged with the last n clusters of row
MergesWith(row, c, merged) ==
  /\ merged \in [0 .. Len(row) -> ClusterType]
  /\ merged[0] = MakeNewCluster(c)
  /\ \A n \in 1 .. Len(row) : merged[n] = MergeClusters(row[Len(row) + 1 - n], merged[n - 1])

\* ... and the n-th of them is clear of the rest of the row
ClearAfter(row, merged, n) ==
  n < Len(row) => row[Len(row) - n].x + row[Len(row) - n].width <= merged[n].x

LEMMA WithCellIs ==
  ASSUME PosType, NEW r, clusters[r] \in Seq(ClusterType), NEW c \in Placeable
  PROVE  \E merged : \E n \in 0 .. Len(clusters[r]) :
           /\ MergesWith(clusters[r], c, merged)
           /\ ClearAfter(clusters[r], merged, n)
           /\ WithCell(r, c) = SubSeq(clusters[r], 1, Len(clusters[r]) - n) \o <<merged[n]>>
<1> DEFINE row == clusters[r]
           L == Len(row)
           F == [n \in 1..L |-> [m \in ClusterType |-> MergeClusters(row[L + 1 - n], m)]]
<1>1. L \in Nat /\ row \in Seq(ClusterType) OBVIOUS
<1> HIDE DEF row
<1>2. \A n \in 1..L : L + 1 - n \in 1..L /\ row[L + 1 - n] \in ClusterType BY <1>1
<1> HIDE DEF L
<1>3. F \in [1..L -> [ClusterType -> ClusterType]]
  <2>1. \A n \in 1..L : \A m \in ClusterType : MergeClusters(row[L + 1 - n], m) \in ClusterType
    BY <1>2, MergedClusterIs, Zenon
  <2>. QED BY <2>1
<1> DEFINE new == MakeNewCluster(c)
<1>4. new \in ClusterType BY NewClusterIs
<1> HIDE DEF new
<1>5. PICK f : Iterates(f, L, new, F, ClusterType)
  <2> HIDE DEF F
  <2>. QED BY <1>1, <1>3, <1>4, RecursionExists, Zenon
<1>6. f \in [0..L -> ClusterType] /\ f[0] = new /\ \A n \in 1..L : f[n] = F[n][f[n - 1]]
  BY <1>5 DEF Iterates
<1>7. \A n \in 1..L : n - 1 \in 0..L /\ f[n] = MergeClusters(row[L + 1 - n], f[n - 1])
  <2> TAKE n \in 1..L
  <2>1. n - 1 \in 0..L BY <1>1
  <2>2. f[n - 1] \in ClusterType BY <1>6, <2>1
  <2>3. f[n] = F[n][f[n - 1]] BY <1>6
  <2>. QED BY <2>1, <2>2, <2>3
<1>8. f = [n \in 0..L |-> IF n = 0 THEN new ELSE MergeClusters(row[L + 1 - n], f[n - 1])]
  <2>1. \A n \in 0..L : n = 0 \/ n \in 1..L BY <1>1
  <2>. QED BY <1>6, <1>7, <2>1
<1> DEFINE h == CHOOSE g : g = [n \in 0..L |-> IF n = 0 THEN new ELSE MergeClusters(row[L + 1 - n], g[n - 1])]
<1>9. h = [n \in 0..L |-> IF n = 0 THEN new ELSE MergeClusters(row[L + 1 - n], h[n - 1])] BY <1>8, Zenon
<1> HIDE DEF h, F
<1>10. h[0] = new /\ \A n \in 1..L : h[n] = MergeClusters(row[L + 1 - n], h[n - 1])
  <2>1. \A n \in 1..L : n \in 0..L /\ n # 0 BY <1>1
  <2>2. 0 \in 0..L BY <1>1
  <2>. QED BY <1>9, <2>1, <2>2, Zenon
<1>11. \A n \in 0..L : h[n] = f[n]
  <2> DEFINE K == {n \in 0..L : h[n] = f[n]}
  <2>1. 0 \in K BY <1>1, <1>6, <1>10
  <2>2. ASSUME NEW k \in 0..L, k \in K, k + 1 \in 0..L PROVE k + 1 \in K
    <3>1. k + 1 \in 1..L /\ (k + 1) - 1 = k BY <2>2
    <3>. QED BY <1>7, <1>10, <2>2, <3>1
  <2> HIDE DEF K
  <2>3. 0..L \subseteq K BY <1>1, <2>1, <2>2, Climb, Zenon
  <2>. QED BY <2>3 DEF K
<1>12. h \in [0..L -> ClusterType]
  <2>1. \A n \in 0..L : h[n] \in ClusterType BY <1>6, <1>11
  <2>. QED BY <1>9, <2>1
<1>13. MergesWith(row, c, h) BY <1>10, <1>12 DEF MergesWith, L, new
<1> DEFINE Clear(n) == n < L => row[L - n].x + row[L - n].width <= h[n].x
           N == {n \in 0..L : Clear(n)}
<1>14. Min(N) \in N
  <2>1. L \in N BY <1>1
  <2>2. N \subseteq Nat BY <1>1
  <2> HIDE DEF N
  <2>3. \E n \in N : \A m \in N : n <= m BY <2>1, <2>2, LeastNumber, Zenon
  <2>. QED BY <2>3 DEF Min
<1>15. WithCell(r, c) = SubSeq(row, 1, L - Min(N)) \o <<h[Min(N)]>>
  BY DEF WithCell, row, L, new, h
<1> HIDE DEF N
<1>16. PICK n \in N : n = Min(N) BY <1>14
<1>17. n \in 0..L /\ ClearAfter(row, h, n) BY DEF N, ClearAfter, L
<1>18. WithCell(r, c) = SubSeq(row, 1, L - n) \o <<h[n]>> BY <1>15, <1>16
<1>19. row = clusters[r] /\ L = Len(clusters[r]) BY DEF row, L
<1> HIDE DEF Clear, N
<1>20. /\ n \in 0 .. Len(clusters[r])
       /\ MergesWith(clusters[r], c, h) /\ ClearAfter(clusters[r], h, n)
       /\ WithCell(r, c) = SubSeq(clusters[r], 1, Len(clusters[r]) - n) \o <<h[n]>>
  BY <1>13, <1>17, <1>18, <1>19
<1>. QED BY <1>20, Zenon

LEMMA WithCellType ==
  ASSUME PosType, NEW r, clusters[r] \in Seq(ClusterType), NEW c \in Placeable
  PROVE  /\ WithCell(r, c) \in Seq(ClusterType)
         /\ Last(WithCell(r, c)) \in ClusterType
<1>1. PICK merged : \E n \in 0 .. Len(clusters[r]) :
           /\ MergesWith(clusters[r], c, merged)
           /\ WithCell(r, c) = SubSeq(clusters[r], 1, Len(clusters[r]) - n) \o <<merged[n]>>
  BY WithCellIs, Zenon
<1>2. PICK n \in 0 .. Len(clusters[r]) :
           /\ MergesWith(clusters[r], c, merged)
           /\ WithCell(r, c) = SubSeq(clusters[r], 1, Len(clusters[r]) - n) \o <<merged[n]>>
  BY <1>1, Zenon
<1> DEFINE front == SubSeq(clusters[r], 1, Len(clusters[r]) - n)
<1>3. merged[n] \in ClusterType BY <1>2, Zenon DEF MergesWith
<1>4. front \in Seq(ClusterType)
  <2>1. Len(clusters[r]) - n \in Int /\ Len(clusters[r]) - n <= Len(clusters[r]) OBVIOUS
  <2>. QED BY <2>1
<1> HIDE DEF front
<1>5. /\ front \o <<merged[n]>> \in Seq(ClusterType)
      /\ Len(front \o <<merged[n]>>) = Len(front) + 1
      /\ (front \o <<merged[n]>>)[Len(front) + 1] = merged[n]
  BY <1>3, <1>4
<1>6. WithCell(r, c) = front \o <<merged[n]>> BY <1>2 DEF front
<1>. QED BY <1>3, <1>5, <1>6 DEF Last

-----------------------------------------------------------------------------
(***************************************************************************)
(* The search for a row.  A cell never lands nearer than the row is, and   *)
(* rows further out are never nearer.                                      *)
(***************************************************************************)
LEMMA DistanceOverRow ==
  ASSUME PosType, NEW r \in Rows, clusters[r] \in Seq(ClusterType), NEW c \in Placeable
  PROVE  /\ RowDistance(r, c) \in Nat /\ Distance(r, c) \in Int
         /\ RowDistance(r, c) <= Distance(r, c)
<1>1. c \in Cells /\ pos[c].x \in Int /\ pos[c].y \in Int /\ CellSitesNum[c] \in Int /\ r \in Int
  BY ConstantTypes DEF PosType, Width
<1>2. PICK a \in ClusterType : a = Last(WithCell(r, c)) BY WithCellType
<1>3. a.x \in Int /\ a.width \in Int BY DEF ClusterType
<1>4. \A m, n \in Int : Apart(m, n) \in Nat BY DEF Apart
<1>5. RowDistance(r, c) \in Nat
  <2>1. RowY(r) \in Int BY <1>1
  <2> HIDE DEF RowY
  <2>. QED BY <1>1, <1>4, <2>1, Zenon DEF RowDistance
<1> DEFINE newX == ColumnX(a.x + a.width - CellSitesNum[c])
<1>6. newX \in Int BY <1>1, <1>3
<1>7. Distance(r, c) = Apart(pos[c].x, newX) + RowDistance(r, c) BY <1>2 DEF Distance
<1> HIDE DEF newX
<1>8. Apart(pos[c].x, newX) \in Nat BY <1>1, <1>4, <1>6, Zenon
<1>. QED BY <1>5, <1>7, <1>8

LEMMA NearestRow ==
  ASSUME NEW y \in Int
  PROVE  /\ FindRow(y, 1) \in Rows
         /\ FindRow(y, 1) < NumRows - 1 => y < RowY(FindRow(y, 1) + 1)
         /\ FindRow(y, 1) > 0 => RowY(FindRow(y, 1)) <= y
<1>1. NumRows \in Nat \ {0} BY ConstantTypes
<1>2. Nearest(y, 1) = y \div 2
  BY DEF Nearest
<1>3. PICK k \in Int : k = y \div 2 /\ 2 * k <= y /\ y < 2 * k + 2 OBVIOUS
<1>4. FindRow(y, 1) = IF k < 0 THEN 0 ELSE IF k > NumRows - 1 THEN NumRows - 1 ELSE k
  BY <1>2, <1>3 DEF FindRow, Within
<1>. QED BY <1>1, <1>3, <1>4 DEF Rows

LEMMA FurtherRows ==
  ASSUME PosType, NEW c \in Placeable, NEW r \in Rows, NEW s \in Rows,
         LET nearest == FindRow(pos[c].y, 1)
         IN  (nearest < r /\ r <= s) \/ (s <= r /\ r < nearest)
  PROVE  RowDistance(r, c) <= RowDistance(s, c)
<1>1. pos[c].y \in Int BY ConstantTypes DEF PosType
<1>2. PICK y \in Int : y = pos[c].y BY <1>1
<1>3. PICK n \in Rows : n = FindRow(y, 1) BY NearestRow
<1>4. (n < NumRows - 1 => y < RowY(n + 1)) /\ (n > 0 => RowY(n) <= y) BY <1>3, NearestRow
<1>5. NumRows \in Nat /\ n \in 0 .. NumRows - 1 /\ r \in 0 .. NumRows - 1 /\ s \in 0 .. NumRows - 1
  BY ConstantTypes DEF Rows
<1>6. (n < r /\ r <= s) \/ (s <= r /\ r < n) BY <1>2, <1>3
<1>7. RowDistance(r, c) = Apart(y, 2 * r) /\ RowDistance(s, c) = Apart(y, 2 * s)
  BY <1>2 DEF RowDistance
<1>8. Apart(y, 2 * r) <= Apart(y, 2 * s) BY <1>4, <1>5, <1>6 DEF Apart
<1>. QED BY <1>7, <1>8

-----------------------------------------------------------------------------
\* The best place is one of a row with space, or there is none
IsPlace(b, c) == b = NoRow \/ \E r \in Rows : HasSpace(r, c) /\ b = [row |-> r, distance |-> Distance(r, c)]

\* The best place is no further than d
IsWithin(b, d) == b # NoRow /\ b.distance <= d

LEMMA PlaceIs ==
  ASSUME PosType, NEW c \in Placeable, \A r \in Rows : clusters[r] \in Seq(ClusterType),
         NEW b, IsPlace(b, c)
  PROVE  \/ b = NoRow
         \/ b # NoRow /\ b.distance \in Int /\ b.row \in Rows /\ HasSpace(b.row, c)
            /\ b.distance = Distance(b.row, c)
<1>1. CASE b # NoRow
  <2>1. PICK r \in Rows : HasSpace(r, c) /\ b = [row |-> r, distance |-> Distance(r, c)]
    BY <1>1 DEF IsPlace
  <2>2. Distance(r, c) \in Int BY DistanceOverRow
  <2>. QED BY <1>1, <2>1, <2>2
<1>. QED BY <1>1

LEMMA ConsideredIs ==
  ASSUME PosType, NEW c \in Placeable, \A r \in Rows : clusters[r] \in Seq(ClusterType),
         NEW b, IsPlace(b, c), NEW r
  PROVE  /\ IsPlace(ConsiderRow(r, c, b), c)
         /\ \A d \in Int : IsWithin(b, d) => IsWithin(ConsiderRow(r, c, b), d)
         /\ r \in Rows /\ HasSpace(r, c) => IsWithin(ConsiderRow(r, c, b), Distance(r, c))
<1> DEFINE a == ConsiderRow(r, c, b)
<1>1. CASE a = b /\ ~ (r \in Rows /\ HasSpace(r, c))
  BY <1>1
<1>2. CASE a = b /\ r \in Rows /\ HasSpace(r, c)
  <2>1. /\ RowDistance(r, c) \in Nat /\ Distance(r, c) \in Int
        /\ RowDistance(r, c) <= Distance(r, c)
    BY <1>2, DistanceOverRow
  <2>2. b # NoRow
    <3> SUFFICES ASSUME b = NoRow PROVE FALSE OBVIOUS
    <3>1. a = [row |-> r, distance |-> Distance(r, c)]
      BY <1>2 DEF ConsiderRow, MakesSense, IsNearer
    <3>2. r # -1 BY <1>2, ConstantTypes
    <3>. QED BY <1>2, <3>1, <3>2 DEF NoRow
  <2>3. b.distance \in Int BY <2>2, PlaceIs
  <2>4. b.distance <= Distance(r, c)
    <3>1. CASE ~ IsNearer(RowDistance(r, c), b) BY <2>1, <2>2, <2>3, <3>1 DEF IsNearer
    <3>2. CASE ~ IsNearer(Distance(r, c), b) BY <2>1, <2>2, <2>3, <3>2 DEF IsNearer
    <3>3. CASE IsNearer(RowDistance(r, c), b) /\ IsNearer(Distance(r, c), b)
      <4>1. b = [row |-> r, distance |-> Distance(r, c)]
        BY <1>2, <3>3 DEF ConsiderRow, MakesSense
      <4>. QED BY <2>1, <4>1
    <3>. QED BY <3>1, <3>2, <3>3
  <2>. QED BY <1>2, <2>2, <2>4 DEF IsWithin
<1>3. CASE a # b
  <2>1. /\ r \in Rows /\ HasSpace(r, c) /\ IsNearer(Distance(r, c), b)
        /\ a = [row |-> r, distance |-> Distance(r, c)]
    BY <1>3 DEF ConsiderRow, MakesSense
  <2>2. Distance(r, c) \in Int BY <2>1, DistanceOverRow
  <2>3. a # NoRow
    <3>1. r # -1 BY <2>1, ConstantTypes
    <3>. QED BY <2>1, <3>1 DEF NoRow
  <2>4. IsPlace(a, c) BY <2>1 DEF IsPlace
  <2>5. ASSUME NEW d \in Int, IsWithin(b, d) PROVE IsWithin(a, d)
    <3>1. b # NoRow /\ b.distance \in Int /\ b.distance <= d BY <2>5, PlaceIs DEF IsWithin
    <3>2. a.distance < b.distance BY <2>1, <3>1 DEF IsNearer
    <3>3. a.distance \in Int BY <2>1, <2>2
    <3>. QED BY <2>3, <3>1, <3>2, <3>3 DEF IsWithin
  <2>6. IsWithin(a, Distance(r, c)) BY <2>1, <2>2, <2>3 DEF IsWithin
  <2>. QED BY <2>4, <2>5, <2>6
<1>. QED BY <1>1, <1>2, <1>3

(* One more row to either side.  If it makes no sense to look at them it   *)
(* makes none to go on.                                                    *)
LEMMA BothSides ==
  ASSUME PosType, NEW c \in Placeable, \A r \in Rows : clusters[r] \in Seq(ClusterType),
         NEW b, IsPlace(b, c), NEW d \in Nat \ {0}
  PROVE  LET nearest == FindRow(pos[c].y, 1)
             below   == ConsiderRow(nearest - d, c, b)
             best    == ConsiderRow(nearest + d, c, below)
         IN  /\ IsPlace(best, c)
             /\ best = b \/ best.row \in {nearest - d, nearest + d}
             /\ \A x \in Int : IsWithin(b, x) => IsWithin(best, x)
             /\ \A r \in Rows : HasSpace(r, c) /\ r \in {nearest - d, nearest + d} =>
                  IsWithin(best, Distance(r, c))
             /\ ~ MakesSense(nearest - d, c, b) /\ ~ MakesSense(nearest + d, c, below) =>
                  \A r \in Rows : r <= nearest - d \/ nearest + d <= r =>
                    IsWithin(best, Distance(r, c))
<1>1. PICK nearest \in Rows : nearest = FindRow(pos[c].y, 1)
  BY NearestRow, ConstantTypes DEF PosType
<1>2. nearest \in Int /\ NumRows \in Int /\ \A r \in Rows : r \in Int
  BY ConstantTypes DEF Rows
<1>3. \A k \in Int : k \in Rows <=> 0 <= k /\ k < NumRows BY <1>2 DEF Rows
<1> DEFINE below == ConsiderRow(nearest - d, c, b)
           best  == ConsiderRow(nearest + d, c, below)
<1>4. /\ IsPlace(below, c)
      /\ \A x \in Int : IsWithin(b, x) => IsWithin(below, x)
      /\ nearest - d \in Rows /\ HasSpace(nearest - d, c) =>
           IsWithin(below, Distance(nearest - d, c))
  BY ConsideredIs
<1>5. /\ IsPlace(best, c)
      /\ \A x \in Int : IsWithin(below, x) => IsWithin(best, x)
      /\ nearest + d \in Rows /\ HasSpace(nearest + d, c) =>
           IsWithin(best, Distance(nearest + d, c))
  <2> HIDE DEF below
  <2>. QED BY <1>4, ConsideredIs
<1>6. \A x \in Int : IsWithin(b, x) => IsWithin(best, x) BY <1>4, <1>5
<1>7. \A r \in Rows : /\ RowDistance(r, c) \in Int /\ Distance(r, c) \in Int
                      /\ RowDistance(r, c) <= Distance(r, c)
  BY DistanceOverRow
<1>8. ASSUME NEW r \in Rows, HasSpace(r, c), r \in {nearest - d, nearest + d}
      PROVE  IsWithin(best, Distance(r, c))
  BY <1>4, <1>5, <1>7, <1>8, Zenon
<1>9. ASSUME NEW a, IsPlace(a, c), NEW r \in Rows, ~ MakesSense(r, c, a)
      PROVE  IsWithin(a, RowDistance(r, c))
  <2>1. a # NoRow /\ ~ (RowDistance(r, c) < a.distance) BY <1>9 DEF MakesSense, IsNearer
  <2>2. a.distance \in Int BY <1>9, <2>1, PlaceIs
  <2>. QED BY <1>7, <2>1, <2>2 DEF IsWithin
<1>10. ASSUME NEW r \in Rows, NEW s \in Rows, IsWithin(best, RowDistance(r, c)),
              (nearest < r /\ r <= s) \/ (s <= r /\ r < nearest)
       PROVE  IsWithin(best, Distance(s, c))
  <2>1. RowDistance(r, c) <= RowDistance(s, c) BY <1>1, <1>10, FurtherRows
  <2>2. best # NoRow /\ best.distance <= RowDistance(r, c) BY <1>10 DEF IsWithin
  <2>3. best.distance \in Int BY <1>5, <2>2, PlaceIs
  <2> HIDE DEF best
  <2>. QED BY <1>7, <2>1, <2>2, <2>3 DEF IsWithin
<1>11. ASSUME ~ MakesSense(nearest - d, c, b), ~ MakesSense(nearest + d, c, below),
              NEW r \in Rows, r <= nearest - d \/ nearest + d <= r
       PROVE  IsWithin(best, Distance(r, c))
  <2>1. CASE r <= nearest - d
    <3>1. nearest - d \in Rows BY <1>2, <1>3, <2>1
    <3>2. IsWithin(best, RowDistance(nearest - d, c)) BY <1>6, <1>7, <1>9, <1>11, <3>1
    <3>3. nearest - d < nearest BY <1>2
    <3>. QED BY <1>10, <2>1, <3>1, <3>2, <3>3
  <2>2. CASE nearest + d <= r
    <3>1. nearest + d \in Rows BY <1>2, <1>3, <2>2
    <3>2. IsWithin(best, RowDistance(nearest + d, c))
      <4> HIDE DEF below
      <4>. QED BY <1>4, <1>5, <1>7, <1>9, <1>11, <3>1
    <3>3. nearest < nearest + d BY <1>2
    <3>. QED BY <1>10, <2>2, <3>1, <3>2, <3>3
  <2>. QED BY <1>11, <2>1, <2>2
<1>12. best = b \/ best.row \in {nearest - d, nearest + d} BY DEF ConsiderRow
<1> HIDE DEF best
<1>. QED BY <1>1, <1>5, <1>6, <1>8, <1>11, <1>12 DEF best

(* What the search has found as far as d rows away: the best place there   *)
(* is so far, and of all rows further out too once it is over.             *)
FoundBy(s, c, nearest, d) ==
  /\ IsPlace(s.best, c) /\ s.over \in BOOLEAN
  /\ s.best = NoRow \/ (nearest - d <= s.best.row /\ s.best.row <= nearest + d)
  /\ \A r \in Rows : HasSpace(r, c) /\ nearest - d <= r /\ r <= nearest + d =>
       IsWithin(s.best, Distance(r, c))
  /\ s.over => \A r \in Rows : r <= nearest - d \/ nearest + d <= r =>
       IsWithin(s.best, Distance(r, c))

LEMMA BestRowFound ==
  ASSUME PosType, NEW c \in Placeable, \A r \in Rows : clusters[r] \in Seq(ClusterType)
  PROVE  \E s : /\ s.best = BestRow(c)
                /\ FoundBy(s, c, FindRow(pos[c].y, 1), MaxDeviationInRows)
<1>1. PICK nearest \in Rows : nearest = FindRow(pos[c].y, 1)
  BY NearestRow, ConstantTypes DEF PosType
<1>2. /\ nearest \in Int /\ NumRows \in Int /\ (\A r \in Rows : r \in Int)
      /\ MaxDeviationInRows \in Nat
  BY ConstantTypes, DeviationAssumption DEF Rows
<1> DEFINE L == MaxDeviationInRows
           S == [best : {b \in {NoRow} \cup [row : Rows, distance : Int] : IsPlace(b, c)}, over : BOOLEAN]
           Step(d, s) ==
             LET below == ConsiderRow(nearest - d, c, s.best)
             IN  IF s.over THEN s
                 ELSE [best |-> ConsiderRow(nearest + d, c, below),
                       over |-> /\ ~ MakesSense(nearest - d, c, s.best)
                                /\ ~ MakesSense(nearest + d, c, below)]
           first == [best |-> ConsiderRow(nearest, c, NoRow), over |-> FALSE]
           F == [d \in 1..L |-> [s \in S |-> Step(d, s)]]
<1>3. \A b : IsPlace(b, c) => b \in {NoRow} \cup [row : Rows, distance : Int]
  BY DistanceOverRow DEF IsPlace
<1>4. /\ IsPlace(ConsiderRow(nearest, c, NoRow), c)
      /\ ConsiderRow(nearest, c, NoRow) = NoRow \/ ConsiderRow(nearest, c, NoRow).row = nearest
      /\ HasSpace(nearest, c) => IsWithin(ConsiderRow(nearest, c, NoRow), Distance(nearest, c))
  <2>1. IsPlace(NoRow, c) BY DEF IsPlace
  <2>2. ConsiderRow(nearest, c, NoRow) = NoRow \/ ConsiderRow(nearest, c, NoRow).row = nearest
    BY DEF ConsiderRow
  <2>. QED BY <2>1, <2>2, ConsideredIs
<1>5. first \in S BY <1>3, <1>4
<1>6. ASSUME NEW d \in 1..L, NEW s \in S PROVE Step(d, s) \in S
  <2>1. IsPlace(s.best, c) OBVIOUS
  <2>2. d \in Nat \ {0} BY <1>2
  <2>3. IsPlace(ConsiderRow(nearest + d, c, ConsiderRow(nearest - d, c, s.best)), c)
    BY <2>1, ConsideredIs
  <2>. QED BY <1>3, <2>3
<1> HIDE DEF Step, first, S
<1>7. F \in [1..L -> [S -> S]] BY <1>6
<1>8. PICK f : Iterates(f, L, first, F, S)
  <2> HIDE DEF F
  <2>. QED BY <1>2, <1>5, <1>7, RecursionExists
<1>9. f \in [0..L -> S] /\ f[0] = first /\ \A d \in 1..L : f[d] = F[d][f[d - 1]]
  BY <1>8 DEF Iterates
<1>10. \A d \in 1..L : d - 1 \in 0..L /\ f[d] = Step(d, f[d - 1])
  <2> TAKE d \in 1..L
  <2>1. d - 1 \in 0..L BY <1>2
  <2>2. f[d - 1] \in S BY <1>9, <2>1
  <2>3. f[d] = F[d][f[d - 1]] BY <1>9
  <2>. QED BY <2>1, <2>2, <2>3
<1>11. f = [d \in 0..L |-> IF d = 0 THEN first ELSE Step(d, f[d - 1])]
  <2>1. \A d \in 0..L : d = 0 \/ d \in 1..L BY <1>2
  <2>. QED BY <1>9, <1>10, <2>1
<1> DEFINE h == CHOOSE g : g = [d \in 0..L |-> IF d = 0 THEN first ELSE Step(d, g[d - 1])]
<1>12. h = [d \in 0..L |-> IF d = 0 THEN first ELSE Step(d, h[d - 1])] BY <1>11, Zenon
<1>13. BestRow(c) = h[L].best BY <1>1 DEF BestRow, h, Step, first
<1> HIDE DEF h, F
<1>14. h[0] = first /\ \A d \in 1..L : h[d] = Step(d, h[d - 1])
  <2>1. \A d \in 1..L : d \in 0..L /\ d # 0 BY <1>2
  <2>2. 0 \in 0..L BY <1>2
  <2>. QED BY <1>12, <2>1, <2>2, Zenon
<1> DEFINE K == {d \in 0..L : FoundBy(h[d], c, nearest, d)}
<1>15. 0 \in K
  <2>1. \A r \in Rows : nearest - 0 <= r /\ r <= nearest + 0 => r = nearest BY <1>2
  <2>2. FoundBy(first, c, nearest, 0) BY <1>2, <1>4, <2>1 DEF FoundBy, first
  <2>. QED BY <1>2, <1>14, <2>2
<1>16. ASSUME NEW k \in 0..L, k \in K, k + 1 \in 0..L PROVE k + 1 \in K
  <2> DEFINE d == k + 1
  <2>1. d \in 1..L /\ d - 1 = k /\ d \in Nat \ {0} BY <1>2, <1>16
  <2>2. PICK s : s = h[k] OBVIOUS
  <2>3. FoundBy(s, c, nearest, k) BY <1>16, <2>2
  <2>4. h[d] = Step(d, s) BY <1>14, <2>1, <2>2
  <2>5. FoundBy(Step(d, s), c, nearest, d)
    <3>1. CASE s.over
      <4>1. Step(d, s) = s BY <3>1 DEF Step
      <4>2. ASSUME NEW r \in Rows, HasSpace(r, c), nearest - d <= r, r <= nearest + d
            PROVE  IsWithin(s.best, Distance(r, c))
        <5>1. (nearest - k <= r /\ r <= nearest + k) \/ r <= nearest - k \/ nearest + k <= r
          BY <1>2
        <5>. QED BY <2>3, <3>1, <4>2, <5>1 DEF FoundBy
      <4>3. ASSUME NEW r \in Rows, r <= nearest - d \/ nearest + d <= r
            PROVE  IsWithin(s.best, Distance(r, c))
        <5>1. r <= nearest - k \/ nearest + k <= r BY <1>2, <4>3
        <5>. QED BY <2>3, <3>1, <5>1 DEF FoundBy
      <4>4. s.best = NoRow \/ (nearest - d <= s.best.row /\ s.best.row <= nearest + d)
        <5>1. s.best = NoRow \/ s.best.row \in Int BY <1>2, <2>3, PlaceIs, Zenon DEF FoundBy
        <5>. QED BY <1>2, <2>3, <5>1 DEF FoundBy
      <4>. QED BY <2>3, <4>1, <4>2, <4>3, <4>4 DEF FoundBy
    <3>2. CASE ~ s.over
      <4> DEFINE below == ConsiderRow(nearest - d, c, s.best)
                 best  == ConsiderRow(nearest + d, c, below)
                 over  == ~ MakesSense(nearest - d, c, s.best) /\ ~ MakesSense(nearest + d, c, below)
      <4>1. Step(d, s) = [best |-> best, over |-> over] BY <3>2, Zenon DEF Step
      <4>2. IsPlace(s.best, c) BY <2>3 DEF FoundBy
      <4> HIDE DEF d
      <4>3. /\ IsPlace(best, c)
            /\ best = s.best \/ best.row \in {nearest - d, nearest + d}
            /\ \A x \in Int : IsWithin(s.best, x) => IsWithin(best, x)
            /\ \A r \in Rows : HasSpace(r, c) /\ r \in {nearest - d, nearest + d} =>
                 IsWithin(best, Distance(r, c))
            /\ over => \A r \in Rows : r <= nearest - d \/ nearest + d <= r =>
                   IsWithin(best, Distance(r, c))
        BY <1>1, <2>1, <4>2, BothSides
      <4> HIDE DEF best, over
      <4>4. over \in BOOLEAN BY DEF over
      <4>5. ASSUME NEW r \in Rows, HasSpace(r, c), nearest - d <= r, r <= nearest + d
            PROVE  IsWithin(best, Distance(r, c))
        <5>1. r \in {nearest - d, nearest + d} \/ (nearest - k <= r /\ r <= nearest + k)
          BY <1>2, <2>1, <4>5
        <5>2. Distance(r, c) \in Int BY DistanceOverRow
        <5>. QED BY <2>3, <4>3, <4>5, <5>1, <5>2 DEF FoundBy
      <4>6. Step(d, s).best = best /\ Step(d, s).over = over BY <4>1
      <4>7. best = NoRow \/ (nearest - d <= best.row /\ best.row <= nearest + d)
        <5>1. best = NoRow \/ best.row \in Int BY <1>2, <4>3, PlaceIs, Zenon
        <5>. QED BY <1>2, <2>1, <2>3, <4>3, <5>1 DEF FoundBy
      <4>. QED BY <2>3, <4>3, <4>4, <4>5, <4>6, <4>7 DEF FoundBy
    <3>. QED BY <3>1, <3>2
  <2>. QED BY <1>16, <2>4, <2>5
<1> HIDE DEF K
<1>17. 0..L \subseteq K BY <1>2, <1>15, <1>16, Climb, Zenon
<1>18. FoundBy(h[L], c, nearest, L) BY <1>2, <1>17 DEF K
<1>19. PICK s : s = h[L] OBVIOUS
<1>20. s.best = BestRow(c) /\ FoundBy(s, c, nearest, L) BY <1>13, <1>18, <1>19
<1>. QED BY <1>1, <1>20

(* The row found is one of those near enough that have space, and of these *)
(* the one where the cell lands nearest.                                   *)
LEMMA NearestOfAll ==
  ASSUME PosType, NEW c \in Placeable, \A r \in Rows : clusters[r] \in Seq(ClusterType)
  PROVE  LET Near == {r \in Rows : /\ HasSpace(r, c)
                                   /\ Apart(r, FindRow(pos[c].y, 1)) <= MaxDeviationInRows}
             best == BestRow(c)
         IN  /\ best = NoRow \/ best.row \in Near
             /\ Near # {} => best # NoRow
             /\ \A r \in Near : best.distance <= Distance(r, c)
<1>1. PICK s : s.best = BestRow(c) /\ FoundBy(s, c, FindRow(pos[c].y, 1), MaxDeviationInRows)
  BY BestRowFound
<1>2. PICK nearest \in Rows : nearest = FindRow(pos[c].y, 1)
  BY NearestRow, ConstantTypes DEF PosType
<1>3. /\ nearest \in Int /\ (\A r \in Rows : r \in Int) /\ MaxDeviationInRows \in Nat
  BY ConstantTypes, DeviationAssumption DEF Rows
<1>4. ASSUME NEW r \in Rows, HasSpace(r, c), Apart(r, nearest) <= MaxDeviationInRows
      PROVE  IsWithin(BestRow(c), Distance(r, c))
  <2>1. nearest - MaxDeviationInRows <= r /\ r <= nearest + MaxDeviationInRows
    BY <1>3, <1>4 DEF Apart
  <2>. QED BY <1>1, <1>2, <1>4, <2>1 DEF FoundBy
<1>5. BestRow(c) = NoRow \/ (BestRow(c).row \in Rows /\ HasSpace(BestRow(c).row, c))
  BY <1>1, PlaceIs DEF FoundBy
<1>6. BestRow(c) = NoRow \/ Apart(BestRow(c).row, nearest) <= MaxDeviationInRows
  <2>1. \/ BestRow(c) = NoRow
        \/ /\ nearest - MaxDeviationInRows <= BestRow(c).row
           /\ BestRow(c).row <= nearest + MaxDeviationInRows
    BY <1>1, <1>2 DEF FoundBy
  <2> SUFFICES ASSUME BestRow(c) # NoRow PROVE Apart(BestRow(c).row, nearest) <= MaxDeviationInRows
    OBVIOUS
  <2>2. PICK r \in Int : r = BestRow(c).row BY <1>3, <1>5, Zenon
  <2>3. Apart(r, nearest) <= MaxDeviationInRows BY <1>3, <2>1, <2>2 DEF Apart
  <2>. QED BY <2>2, <2>3
<1>. QED BY <1>2, <1>4, <1>5, <1>6 DEF IsWithin

LEMMA BestRowNearest ==
  ASSUME PosType, queue \in Seq(Placeable), \A r \in Rows : clusters[r] \in Seq(ClusterType)
  PROVE  BestRowIsNearest
<1> SUFFICES ASSUME queue # <<>>
             PROVE  LET c    == Head(queue)
                        Near == {r \in Rows : /\ HasSpace(r, c)
                                              /\ Apart(r, FindRow(pos[c].y, 1)) <= MaxDeviationInRows}
                    IN  \E best \in {BestRow(c)} :
                          IF Near = {} THEN best = NoRow
                          ELSE /\ best.row \in Near
                               /\ \A r \in Near : best.distance <= Distance(r, c)
  BY DEF BestRowIsNearest
<1>1. PICK c \in Placeable : c = Head(queue) OBVIOUS
<1> DEFINE Near == {r \in Rows : /\ HasSpace(r, c)
                                 /\ Apart(r, FindRow(pos[c].y, 1)) <= MaxDeviationInRows}
<1>2. /\ BestRow(c) = NoRow \/ BestRow(c).row \in Near
      /\ Near # {} => BestRow(c) # NoRow
      /\ \A r \in Near : BestRow(c).distance <= Distance(r, c)
  BY NearestOfAll
<1>3. IF Near = {} THEN BestRow(c) = NoRow
      ELSE /\ BestRow(c).row \in Near
           /\ \A r \in Near : BestRow(c).distance <= Distance(r, c)
  <2> HIDE DEF Near
  <2>. QED BY <1>2
<1> HIDE DEF Near
<1>. QED BY <1>1, <1>3 DEF Near

-----------------------------------------------------------------------------
(***************************************************************************)
(* The grid when nothing is known to be legal: a site that names a cell    *)
(* names one the grid has put there, though a cell may have lost sites to  *)
(* others, and may stick out of its row.                                   *)
(***************************************************************************)
LooseGrid ==
  /\ cellRow \in [Cells -> Rows]
  /\ cellSiteIdx \in [Cells -> Int]
  /\ \A c \in Cells \ Placeable : cellSiteIdx[c] \in Columns
  /\ sites \in [Rows -> [Columns -> Cells \cup {Null}]]
  /\ PosType

Honest ==
  \A r \in Rows, k \in Columns : sites[r][k] # Null =>
      /\ sites[r][k] \in Placeable
      /\ cellRow[sites[r][k]] = r
      /\ Covers(cellSiteIdx[sites[r][k]], sites[r][k], k)

LoosePlaces == [cell : Placeable, row : Rows, column : Int]

LEMMA LoosePlace ==
  ASSUME NEW g \in Seq(LoosePlaces), NEW c \in InGroup(g)
  PROVE  PlaceOf(g, c) \in LoosePlaces /\ PlaceOf(g, c).cell = c /\ c \in Placeable /\ c \in Cells
<1> DEFINE S == {n \in DOMAIN g : g[n].cell = c}
<1>1. S \subseteq DOMAIN g /\ S # {} OBVIOUS
<1>2. LastOf(S) \in S BY <1>1, LastOfGroup
<1>3. PlaceOf(g, c) = g[LastOf(S)] BY DEF PlaceOf
<1> HIDE DEF S
<1>4. PICK n : n = LastOf(S) OBVIOUS
<1>5. n \in DOMAIN g /\ g[n].cell = c BY <1>2, <1>4 DEF S
<1>6. g[n] \in LoosePlaces BY <1>5
<1>. QED BY <1>3, <1>4, <1>5, <1>6, ConstantTypes DEF LoosePlaces

LEMMA PutCellsLoose ==
  ASSUME NEW g \in Seq(LoosePlaces), LooseGrid, Honest, PutCells(g)
  PROVE  /\ cellRow' \in [Cells -> Rows]
         /\ cellSiteIdx' \in [Cells -> Int]
         /\ \A c \in Cells \ Placeable : cellSiteIdx'[c] \in Columns
         /\ sites' \in [Rows -> [Columns -> Cells \cup {Null}]]
         /\ Honest'
<1> DEFINE PutAt(r, k) == {n \in DOMAIN g : /\ g[n].row = r
                                            /\ Covers(g[n].column, g[n].cell, k)}
           Stays(c, r, k) == PlaceOf(g, c).row = r /\ Covers(PlaceOf(g, c).column, c, k)
           Old(r, k) == /\ sites[r][k] \in InGroup(g)
                        /\ cellRow[sites[r][k]] = r
                        /\ Covers(cellSiteIdx[sites[r][k]], sites[r][k], k)
           To(r, k) == g[LastOf(PutAt(r, k))].cell
<1>1. \A c \in InGroup(g) : /\ PlaceOf(g, c) \in LoosePlaces
                            /\ c \in Placeable /\ c \in Cells
                            /\ PlaceOf(g, c).row \in Rows /\ PlaceOf(g, c).column \in Int
  BY LoosePlace, Zenon DEF LoosePlaces
<1>2. \A r \in Rows, k \in Columns : PutAt(r, k) # {} => To(r, k) \in InGroup(g)
  <2> SUFFICES ASSUME NEW r \in Rows, NEW k \in Columns, PutAt(r, k) # {}
               PROVE  To(r, k) \in InGroup(g)
    BY Zenon
  <2>1. PutAt(r, k) \subseteq DOMAIN g OBVIOUS
  <2> HIDE DEF PutAt
  <2>2. LastOf(PutAt(r, k)) \in DOMAIN g BY <2>1, LastOfGroup
  <2>. QED BY <2>2
<1>3. /\ cellRow' = [c \in Cells |-> IF c \in InGroup(g) THEN PlaceOf(g, c).row ELSE cellRow[c]]
      /\ cellSiteIdx' = [c \in Cells |-> IF c \in InGroup(g) THEN PlaceOf(g, c).column
                                         ELSE cellSiteIdx[c]]
      /\ sites' = [r \in Rows |-> [k \in Columns |->
                      IF PutAt(r, k) # {}
                      THEN IF Stays(To(r, k), r, k) THEN To(r, k) ELSE Null
                      ELSE IF Old(r, k) THEN Null ELSE sites[r][k]]]
  BY Zenon DEF PutCells
<1> HIDE DEF PutAt, To
<1>4. cellRow' \in [Cells -> Rows] /\ cellSiteIdx' \in [Cells -> Int]
  <2> HIDE DEF InGroup
  <2>. QED BY <1>1, <1>3 DEF LooseGrid
<1>7. \A c \in Cells \ Placeable : cellSiteIdx'[c] \in Columns
  <2> HIDE DEF InGroup
  <2>. QED BY <1>1, <1>3 DEF LooseGrid
<1>5. sites' \in [Rows -> [Columns -> Cells \cup {Null}]]
  <2> HIDE DEF InGroup, Stays, Old
  <2>. QED BY <1>1, <1>2, <1>3 DEF LooseGrid
<1>6. ASSUME NEW r \in Rows, NEW k \in Columns, sites'[r][k] # Null
      PROVE  /\ sites'[r][k] \in Placeable
             /\ cellRow'[sites'[r][k]] = r
             /\ Covers(cellSiteIdx'[sites'[r][k]], sites'[r][k], k)
  <2>1. CASE PutAt(r, k) # {}
    <3>1. sites'[r][k] = To(r, k) /\ Stays(To(r, k), r, k) BY <1>3, <1>6, <2>1
    <3>2. PICK c \in InGroup(g) : c = To(r, k) BY <1>2, <2>1
    <3>3. c \in Cells /\ c \in Placeable BY <1>1
    <3>4. cellRow'[c] = PlaceOf(g, c).row /\ cellSiteIdx'[c] = PlaceOf(g, c).column
      BY <1>3, <3>3
    <3>. QED BY <3>1, <3>2, <3>3, <3>4
  <2>2. CASE PutAt(r, k) = {}
    <3>1. ~ Old(r, k) /\ sites'[r][k] = sites[r][k]
      <4> HIDE DEF Old
      <4>. QED BY <1>3, <1>6, <2>2
    <3>2. /\ sites[r][k] \in Placeable /\ cellRow[sites[r][k]] = r
          /\ Covers(cellSiteIdx[sites[r][k]], sites[r][k], k)
      BY <1>6, <3>1 DEF Honest
    <3>3. PICK c \in Cells : c = sites[r][k] BY <3>2, ConstantTypes
    <3>4. c \notin InGroup(g) BY <3>1, <3>2, <3>3
    <3>5. cellRow'[c] = cellRow[c] /\ cellSiteIdx'[c] = cellSiteIdx[c] BY <1>3, <3>4
    <3>. QED BY <3>1, <3>2, <3>3, <3>5
  <2>. QED BY <2>1, <2>2
<1>. QED BY <1>4, <1>5, <1>6, <1>7 DEF Honest

LEMMA LooseSite ==
  ASSUME NEW r \in Rows, NEW k \in Int
  PROVE  Site(r, k) \in [x : Int, y : Int]
BY ConstantTypes

LEMMA PutFastType ==
  ASSUME NEW p \in [Cells -> [x : Int, y : Int]], NEW g \in Seq(LoosePlaces)
  PROVE  PutFast(p, g) \in [Cells -> [x : Int, y : Int]]
<1>1. \A c \in InGroup(g) : Site(PlaceOf(g, c).row, PlaceOf(g, c).column) \in [x : Int, y : Int]
  <2> TAKE c \in InGroup(g)
  <2>1. PlaceOf(g, c).row \in Rows /\ PlaceOf(g, c).column \in Int
    BY LoosePlace, Zenon DEF LoosePlaces
  <2>. QED BY <2>1, LooseSite
<1> HIDE DEF InGroup, Site
<1>. QED BY <1>1 DEF PutFast

LEMMA PutBackType ==
  ASSUME LooseGrid, NEW g
  PROVE  PutBack(pos, g) \in [Cells -> [x : Int, y : Int]]
<1>1. \A c \in Cells : Site(cellRow[c], cellSiteIdx[c]) \in [x : Int, y : Int]
  BY LooseSite DEF LooseGrid
<1> HIDE DEF InGroup, Site
<1>. QED BY <1>1 DEF PutBack, LooseGrid, PosType

-----------------------------------------------------------------------------
(***************************************************************************)
(* What holds in every state of the flow, whatever the placement is like.  *)
(***************************************************************************)
TrialOps == {"move", "shift", "judge", "exchange"}

FlowControl ==
  /\ op \in TrialOps \cup {"cell", "row", "legalize", "measure", "done"}
  /\ cur \in Nat
  /\ op = "cell" => cur <= Len(CellOrder)
  /\ op = "row" => cur <= NumRows
  /\ op \in TrialOps => cur < Len(CellOrder) /\ \A n \in DOMAIN rows : rows[n] \in Rows
  /\ op \notin TrialOps => NoTrial
  /\ op = "shift" => next \in Placeable
  /\ group \in Seq(LoosePlaces) /\ freeSite \in Int

FlowGrid == LooseGrid /\ Honest /\ FlowControl

AbacusType ==
  /\ clusters \in [Rows -> Seq(ClusterType)] /\ queue \in Seq(Placeable)
  /\ Direction \in {"LEFTTORIGHT", "RIGHTTOLEFT"} /\ nextColumnIdx \in -1 .. NumCols

LEMMA GridStays ==
  ASSUME LooseGrid, Honest, UNCHANGED gridVars, pos' \in [Cells -> [x : Int, y : Int]]
  PROVE  LooseGrid' /\ Honest'
<1>1. UNCHANGED <<cellRow, cellSiteIdx, sites>> BY DEF gridVars
<1>. QED BY <1>1 DEF LooseGrid, Honest, PosType

LEMMA CellOfTrial ==
  ASSUME FlowControl, cur < Len(CellOrder)
  PROVE  Cell \in Placeable /\ Cell \in Cells /\ Width(Cell) \in Nat \ {0}
<1>1. cur + 1 \in DOMAIN CellOrder BY GridAssumption DEF FlowControl
<1>2. Cell \in Placeable BY <1>1 DEF Placeable, Cell
<1>. QED BY <1>2, ConstantTypes

LEMMA AcceptFlow ==
  ASSUME FlowGrid, cur < Len(CellOrder), NEW g \in Seq(LoosePlaces), Accept(g)
  PROVE  FlowGrid'
<1>1. LooseGrid' /\ Honest'
  <2>1. PutCells(g) /\ pos' = PutFast(pos, g) BY DEF Accept
  <2>2. pos' \in [Cells -> [x : Int, y : Int]]
    BY <2>1, PutFastType, Zenon DEF FlowGrid, LooseGrid, PosType
  <2>. QED BY <2>1, <2>2, PutCellsLoose, Zenon DEF FlowGrid, LooseGrid, PosType
<1>2. op' = "cell" /\ cur' = cur + 1 /\ NoTrial' BY DEF Accept, TrialOver, NoTrial
<1>3. cur' \in Nat /\ cur' <= Len(CellOrder) BY <1>2, GridAssumption DEF FlowGrid, FlowControl
<1>. QED BY <1>1, <1>2, <1>3 DEF FlowGrid, FlowControl, NoTrial, TrialOps

\* A trial goes on, with the grid as it was
LEMMA OnTrial ==
  ASSUME FlowGrid, cur < Len(CellOrder), op' \in TrialOps,
         UNCHANGED <<gridVars, cur>>, pos' \in [Cells -> [x : Int, y : Int]],
         \A n \in DOMAIN rows' : rows'[n] \in Rows,
         op' = "shift" => next' \in Placeable,
         group' \in Seq(LoosePlaces), freeSite' \in Int
  PROVE  FlowGrid'
<1>1. LooseGrid' /\ Honest' BY GridStays DEF FlowGrid
<1>. QED BY <1>1 DEF FlowGrid, FlowControl, TrialOps

LEMMA SkipFlow ==
  ASSUME FlowGrid, op = "cell", cur < Len(CellOrder), Skip
  PROVE  FlowGrid'
<1>1. LooseGrid' /\ Honest' BY GridStays DEF FlowGrid, Skip, LooseGrid, PosType
<1>2. op' = "cell" /\ cur' = cur + 1 /\ UNCHANGED trialVars BY DEF Skip
<1>3. NoTrial' BY <1>2 DEF trialVars, NoTrial, FlowGrid, FlowControl, TrialOps
<1>4. cur' \in Nat /\ cur' <= Len(CellOrder) BY <1>2, GridAssumption DEF FlowGrid, FlowControl
<1>. QED BY <1>1, <1>2, <1>3, <1>4 DEF FlowGrid, FlowControl, NoTrial, TrialOps

LEMMA LookFlow ==
  ASSUME FlowGrid, cur < Len(CellOrder), NEW rs, NEW z, Look(rs, z),
         \A n \in DOMAIN rs : rs[n] \in Rows
  PROVE  FlowGrid'
<1>1. /\ op' = "move" /\ UNCHANGED <<gridVars, pos, cur, freeSite, group>> /\ rows' = rs
  BY DEF Look
<1>. QED BY <1>1, OnTrial DEF FlowGrid, FlowControl, LooseGrid, PosType, TrialOps

LEMMA GlobalProcessCellFlow == FlowGrid /\ GlobalProcessCell => FlowGrid'
<1> SUFFICES ASSUME FlowGrid, GlobalProcessCell PROVE FlowGrid'
  OBVIOUS
<1>1. op = "cell" /\ cur < Len(CellOrder) BY DEF GlobalProcessCell
<1>2. \E row \in Rows : \E column :
        LET originRow == ShiftCoordinateToLowerBorder(row, OptimalRegionHalfHeight, NumRows)
            originCol == ShiftCoordinateToLowerBorder(column, OptimalRegionHalfWidth, NumCols)
        IN  Skip \/ Look(RegionRows(originRow), [left |-> originCol, width |-> OptimalRegionWidth])
  BY DEF GlobalProcessCell
<1>3. Skip \/ \E row \in Rows : \E z :
         Look(RegionRows(ShiftCoordinateToLowerBorder(row, OptimalRegionHalfHeight, NumRows)), z)
  BY <1>2
<1>4. CASE Skip BY <1>1, <1>4, SkipFlow
<1>5. ASSUME NEW row \in Rows, NEW z,
             Look(RegionRows(ShiftCoordinateToLowerBorder(row, OptimalRegionHalfHeight, NumRows)), z)
      PROVE  FlowGrid'
  <2>1. PICK originRow : originRow =
          ShiftCoordinateToLowerBorder(row, OptimalRegionHalfHeight, NumRows)
    OBVIOUS
  <2>2. ASSUME NEW n \in DOMAIN RegionRows(originRow) PROVE RegionRows(originRow)[n] \in Rows
    <3>1. /\ n \in 1 .. OptimalRegionHeight
          /\ \A m \in 0 .. n - 1 : DoesRowBelongToOptimalRegion(originRow, RowAt(originRow, m))
          /\ RegionRows(originRow)[n] = RowAt(originRow, n - 1)
      BY <2>2 DEF RegionRows
    <3>2. n - 1 \in 0 .. n - 1 BY <3>1, SwapsAssumption DEF OptimalRegionHeight
    <3>. QED BY <3>1, <3>2 DEF DoesRowBelongToOptimalRegion
  <2>. QED BY <1>1, <1>5, <2>1, <2>2, LookFlow
<1>. QED BY <1>3, <1>4, <1>5

LEMMA VerticalProcessCellFlow == FlowGrid /\ VerticalProcessCell => FlowGrid'
<1> SUFFICES ASSUME FlowGrid, VerticalProcessCell PROVE FlowGrid'
  OBVIOUS
<1>1. op = "cell" /\ cur < Len(CellOrder) BY DEF VerticalProcessCell
<1>2. Skip \/ \E z : Look(RowsTowards(cellRow[Cell], OptimalRowIdx(Cell)), z)
  BY DEF VerticalProcessCell
<1>3. ASSUME NEW z, Look(RowsTowards(cellRow[Cell], OptimalRowIdx(Cell)), z)
      PROVE  FlowGrid'
  <2>1. \A n \in DOMAIN RowsTowards(cellRow[Cell], OptimalRowIdx(Cell)) :
           RowsTowards(cellRow[Cell], OptimalRowIdx(Cell))[n] \in Rows
    BY DEF RowsTowards
  <2>. QED BY <1>1, <1>3, <2>1, LookFlow
<1>. QED BY <1>1, <1>2, <1>3, SkipFlow

LEMMA RejectFlow ==
  ASSUME FlowGrid, op \in TrialOps, NEW g, Reject(g), op' \in {"move", "exchange"},
         UNCHANGED rows, UNCHANGED <<freeSite, group>> \/ (freeSite' = 0 /\ group' = <<>>)
  PROVE  FlowGrid'
<1>1. UNCHANGED <<gridVars, cur>> /\ pos' = PutBack(pos, g) BY DEF Reject
<1>2. pos' \in [Cells -> [x : Int, y : Int]] BY <1>1, PutBackType DEF FlowGrid
<1>3. op' \in TrialOps /\ op' # "shift" BY DEF TrialOps
<1>4. cur < Len(CellOrder) /\ \A n \in DOMAIN rows' : rows'[n] \in Rows
  BY DEF FlowGrid, FlowControl
<1>5. group' \in Seq(LoosePlaces) /\ freeSite' \in Int
  <2>1. group \in Seq(LoosePlaces) /\ freeSite \in Int BY DEF FlowGrid, FlowControl
  <2>2. CASE UNCHANGED <<freeSite, group>> BY <2>1, <2>2
  <2>3. CASE freeSite' = 0 /\ group' = <<>> BY <2>3
  <2>. QED BY <2>2, <2>3
<1>. QED BY <1>1, <1>2, <1>3, <1>4, <1>5, OnTrial

LEMMA QuietFlow ==
  ASSUME FlowGrid, op \in TrialOps, UNCHANGED <<gridVars, pos, cur, rows, freeSite, group>>,
         op' \in {"move", "exchange"}
  PROVE  FlowGrid'
BY OnTrial DEF FlowGrid, FlowControl, TrialOps, LooseGrid, PosType

LEMMA TooFullFlow == FlowGrid /\ TooFull => FlowGrid'
BY QuietFlow DEF TooFull, Trying, NextRow, TrialOps

LEMMA MoveFlow == FlowGrid /\ TryToMoveWithoutShifting => FlowGrid'
<1> SUFFICES ASSUME FlowGrid, TryToMoveWithoutShifting PROVE FlowGrid'
  OBVIOUS
<1>1. op = "move" /\ i \in DOMAIN rows BY DEF TryToMoveWithoutShifting, Trying
<1>2. Row \in Rows /\ cur < Len(CellOrder) BY <1>1 DEF FlowGrid, FlowControl, TrialOps, Row
<1>3. Cell \in Placeable BY <1>2, CellOfTrial DEF FlowGrid
<1>4. PICK k \in ZoneSites :
        LET g == <<[cell |-> Cell, row |-> Row, column |-> k]>>
        IN  IF Shortens(PutFast(pos, g), g) THEN Accept(g) ELSE Reject(g) /\ NextRow
  BY DEF TryToMoveWithoutShifting
<1> DEFINE p == [cell |-> Cell, row |-> Row, column |-> k]
<1>5. Accept(<<p>>) \/ (Reject(<<p>>) /\ NextRow) BY <1>4
<1>6. p \in LoosePlaces BY <1>2, <1>3, ConstantTypes DEF LoosePlaces, ZoneSites
<1> HIDE DEF p
<1>7. <<p>> \in Seq(LoosePlaces) BY <1>6
<1>8. CASE Accept(<<p>>) BY <1>2, <1>7, <1>8, AcceptFlow, Zenon
<1>9. CASE Reject(<<p>>) /\ NextRow BY <1>1, <1>9, RejectFlow DEF NextRow, TrialOps
<1>. QED BY <1>5, <1>8, <1>9

LEMMA ShiftFlow == FlowGrid /\ TryToMoveWithShifting => FlowGrid'
<1> SUFFICES ASSUME FlowGrid, TryToMoveWithShifting PROVE FlowGrid'
  OBVIOUS
<1>1. op = "move" /\ i \in DOMAIN rows BY DEF TryToMoveWithShifting, Trying
<1>2. cur < Len(CellOrder) BY <1>1 DEF FlowGrid, FlowControl, TrialOps
<1>3. Cell \in Placeable BY <1>2, CellOfTrial DEF FlowGrid
<1>4. \E k \in FreeSites(Row) : freeSite' = k BY DEF TryToMoveWithShifting
<1>5. freeSite' \in Int BY <1>4, ConstantTypes DEF FreeSites, ZoneSites
<1>6. op' = "shift" /\ next' = Cell /\ UNCHANGED <<gridVars, pos, cur, rows, group>>
  BY DEF TryToMoveWithShifting
<1>. QED BY <1>1, <1>2, <1>3, <1>5, <1>6, OnTrial
     DEF FlowGrid, FlowControl, TrialOps, LooseGrid, PosType

LEMMA ShiftOneMoreFlow == FlowGrid /\ ShiftOneMore => FlowGrid'
<1> SUFFICES ASSUME FlowGrid, ShiftOneMore PROVE FlowGrid'
  OBVIOUS
<1>1. op = "shift" /\ i \in DOMAIN rows BY DEF ShiftOneMore, Trying
<1>2. /\ Row \in Rows /\ cur < Len(CellOrder) /\ next \in Placeable /\ freeSite \in Int
      /\ group \in Seq(LoosePlaces)
  BY <1>1 DEF FlowGrid, FlowControl, TrialOps, Row
<1> DEFINE p == [cell |-> next, row |-> Row, column |-> freeSite]
<1>3. pos' = PutFast(pos, <<p>>) /\ group' = group \o <<p>> BY DEF ShiftOneMore
<1>4. p \in LoosePlaces BY <1>2 DEF LoosePlaces
<1> HIDE DEF p
<1>5. pos' \in [Cells -> [x : Int, y : Int]]
  <2>1. <<p>> \in Seq(LoosePlaces) BY <1>4
  <2>. QED BY <1>3, <2>1, PutFastType, Zenon DEF FlowGrid, LooseGrid, PosType
<1>6. group' \in Seq(LoosePlaces) BY <1>2, <1>3, <1>4
<1>7. freeSite' \in Int
  <2>1. freeSite' = freeSite + Width(next) BY DEF ShiftOneMore
  <2>2. Width(next) \in Int BY <1>2, ConstantTypes
  <2>. QED BY <1>2, <2>1, <2>2
<1>8. \/ op' = "judge"
      \/ \E j \in ZoneSites : /\ sites[Row][j] # Null /\ next' = sites[Row][j]
                              /\ UNCHANGED op
  <2>1. \/ op' = "judge"
        \/ \E j \in ZoneSites : /\ IsNextCellAt(Row, last, site, j) /\ next' = sites[Row][j]
                                /\ UNCHANGED op
    BY DEF ShiftOneMore
  <2>. QED BY <2>1 DEF IsNextCellAt
<1>9. op' \in TrialOps /\ (op' = "shift" => next' \in Placeable)
  <2>1. CASE op' = "judge" BY <2>1 DEF TrialOps
  <2>2. ASSUME NEW j \in ZoneSites, sites[Row][j] # Null, next' = sites[Row][j], UNCHANGED op
        PROVE  op' \in TrialOps /\ next' \in Placeable
    BY <1>1, <1>2, <2>2 DEF ZoneSites, FlowGrid, Honest, TrialOps
  <2>. QED BY <1>8, <2>1, <2>2
<1>10. UNCHANGED <<gridVars, cur, rows>> BY DEF ShiftOneMore
<1>11. \A n \in DOMAIN rows : rows[n] \in Rows BY <1>1 DEF FlowGrid, FlowControl, TrialOps
<1>. QED BY <1>2, <1>5, <1>6, <1>7, <1>9, <1>10, <1>11, OnTrial

LEMMA JudgeFlow == FlowGrid /\ JudgeShift => FlowGrid'
<1> SUFFICES ASSUME FlowGrid, JudgeShift PROVE FlowGrid'
  OBVIOUS
<1>1. op = "judge" BY DEF JudgeShift, Trying
<1>2. cur < Len(CellOrder) /\ group \in Seq(LoosePlaces)
  BY <1>1 DEF FlowGrid, FlowControl, TrialOps
<1>3. \/ Accept(group)
      \/ Reject(group) /\ op' = "move" /\ freeSite' = 0 /\ group' = <<>> /\ UNCHANGED rows
  BY DEF JudgeShift
<1>. QED BY <1>1, <1>2, <1>3, AcceptFlow, RejectFlow DEF TrialOps

LEMMA SiteInPlaceType ==
  ASSUME NEW k \in Int, NEW v \in Int, NEW free \in Int, NEW w \in Int
  PROVE  SiteInPlaceOf(k, v, free, w) \in Int
BY DEF SiteInPlaceOf

LEMMA ExchangeFlow == FlowGrid /\ TryToExchangeWithCell => FlowGrid'
<1> SUFFICES ASSUME FlowGrid, TryToExchangeWithCell PROVE FlowGrid'
  OBVIOUS
<1>1. op = "exchange" /\ i \in DOMAIN rows BY DEF TryToExchangeWithCell, Trying
<1>2. Row \in Rows /\ cur < Len(CellOrder) BY <1>1 DEF FlowGrid, FlowControl, TrialOps, Row
<1>3. Cell \in Placeable /\ Cell \in Cells BY <1>2, CellOfTrial DEF FlowGrid
<1>4. PICK j \in ZoneSites :
        /\ sites[Row][j] # Null
        /\ \E rc \in 0 .. NumCols : \E rt \in 0 .. NumCols :
             \/ /\ AfterTrial(j, sites[Row][j])
                /\ UNCHANGED <<gridVars, pos, netHPWL, pass, cur, trusted>>
             \/ Accept(Exchange(Cell, rc, sites[Row][j], rt))
             \/ Reject(Exchange(Cell, rc, sites[Row][j], rt)) /\ AfterTrial(j, sites[Row][j])
  <2>1. PICK j \in ZoneSites :
          /\ IsNextCellAt(Row, last, site, j)
          /\ \E lc \in FreeBefore(cellRow[Cell], cellSiteIdx[Cell], 0),
                rc \in FreeFrom(cellRow[Cell], cellSiteIdx[Cell] + Width(Cell), NumCols),
                lt \in FreeBefore(Row, cellSiteIdx[sites[Row][j]], ZoneBegin),
                rt \in FreeFrom(Row, cellSiteIdx[sites[Row][j]] + Width(sites[Row][j]), ZoneEnd) :
               \/ /\ AfterTrial(j, sites[Row][j])
                  /\ UNCHANGED <<gridVars, pos, netHPWL, pass, cur, trusted>>
               \/ LET g == Exchange(Cell, rc, sites[Row][j], rt)
                  IN  IF Shortens(PutFast(pos, g), g) THEN Accept(g)
                      ELSE Reject(g) /\ AfterTrial(j, sites[Row][j])
    BY DEF TryToExchangeWithCell
  <2>2. \A r, k, hi : FreeFrom(r, k, hi) \subseteq 0 .. NumCols BY DEF FreeFrom
  <2>3. sites[Row][j] # Null BY <2>1 DEF IsNextCellAt
  <2>. QED BY <2>1, <2>2, <2>3
<1>5. PICK t \in Placeable : t = sites[Row][j]
  BY <1>2, <1>4 DEF ZoneSites, FlowGrid, Honest
<1>6. PICK rc \in 0 .. NumCols : \E rt \in 0 .. NumCols :
        \/ AfterTrial(j, t) /\ UNCHANGED <<gridVars, pos, netHPWL, pass, cur, trusted>>
        \/ Accept(Exchange(Cell, rc, t, rt))
        \/ Reject(Exchange(Cell, rc, t, rt)) /\ AfterTrial(j, t)
  BY <1>4, <1>5
<1>7. PICK rt \in 0 .. NumCols :
        \/ AfterTrial(j, t) /\ UNCHANGED <<gridVars, pos, netHPWL, pass, cur, trusted>>
        \/ Accept(Exchange(Cell, rc, t, rt))
        \/ Reject(Exchange(Cell, rc, t, rt)) /\ AfterTrial(j, t)
  BY <1>6
<1>8. Exchange(Cell, rc, t, rt) \in Seq(LoosePlaces)
  <2> DEFINE kt == SiteInPlaceOf(cellSiteIdx[Cell], Width(Cell), rc, Width(t))
             kc == SiteInPlaceOf(cellSiteIdx[t], Width(t), rt, Width(Cell))
             pt == [cell |-> t, row |-> cellRow[Cell], column |-> kt]
             pc == [cell |-> Cell, row |-> Row, column |-> kc]
  <2>1. Exchange(Cell, rc, t, rt) = <<pt, pc>> BY DEF Exchange
  <2>2. /\ cellSiteIdx[Cell] \in Int /\ Width(Cell) \in Int /\ rc \in Int /\ Width(t) \in Int
        /\ cellSiteIdx[t] \in Int /\ rt \in Int /\ cellRow[Cell] \in Rows
    BY <1>3, <1>5, ConstantTypes DEF FlowGrid, LooseGrid
  <2>3. kt \in Int /\ kc \in Int BY <2>2, SiteInPlaceType, Zenon
  <2> HIDE DEF kt, kc
  <2>4. pt \in LoosePlaces /\ pc \in LoosePlaces BY <1>2, <1>3, <1>5, <2>2, <2>3 DEF LoosePlaces
  <2> HIDE DEF pt, pc
  <2>. QED BY <2>1, <2>4
<1>9. AfterTrial(j, t) => op' = "exchange" /\ UNCHANGED <<rows, freeSite, group>>
  BY <1>1 DEF AfterTrial
<1>10. CASE AfterTrial(j, t) /\ UNCHANGED <<gridVars, pos, netHPWL, pass, cur, trusted>>
  BY <1>1, <1>9, <1>10, QuietFlow DEF TrialOps
<1>11. CASE Accept(Exchange(Cell, rc, t, rt)) BY <1>2, <1>8, <1>11, AcceptFlow
<1>12. CASE Reject(Exchange(Cell, rc, t, rt)) /\ AfterTrial(j, t)
  BY <1>1, <1>9, <1>12, RejectFlow DEF TrialOps
<1>. QED BY <1>7, <1>10, <1>11, <1>12

LEMMA RowStepFlow == FlowGrid /\ (RowsExhausted \/ NobodyLeftInRow) => FlowGrid'
BY QuietFlow DEF RowsExhausted, NobodyLeftInRow, Trying, TrialOps

LEMMA CellStaysFlow == FlowGrid /\ CellStays => FlowGrid'
<1> SUFFICES ASSUME FlowGrid, CellStays PROVE FlowGrid'
  OBVIOUS
<1>1. LooseGrid' /\ Honest' BY GridStays DEF FlowGrid, CellStays, LooseGrid, PosType
<1>2. op = "exchange" /\ op' = "cell" /\ cur' = cur + 1 /\ NoTrial'
  BY DEF CellStays, TrialOver, NoTrial
<1>3. cur' \in Nat /\ cur' <= Len(CellOrder)
  BY <1>2, GridAssumption DEF FlowGrid, FlowControl, TrialOps
<1>. QED BY <1>1, <1>2, <1>3 DEF FlowGrid, FlowControl, NoTrial, TrialOps

LEMMA SwapStepFlow == FlowGrid /\ SwapStep => FlowGrid'
BY GlobalProcessCellFlow, VerticalProcessCellFlow, TooFullFlow, MoveFlow, ShiftFlow,
   ShiftOneMoreFlow, JudgeFlow, RowStepFlow, ExchangeFlow, CellStaysFlow DEF SwapStep

-----------------------------------------------------------------------------
(***************************************************************************)
(* Horizontal search: where a group begins and ends, and the cells in it.  *)
(***************************************************************************)
LEMMA FirstOfIs ==
  ASSUME NEW S, S \subseteq 0 .. NumCols - 1
  PROVE  /\ FirstOf(S) \in S \cup {NumCols} /\ FirstOf(S) \in 0 .. NumCols
         /\ \A d \in S : FirstOf(S) <= d
<1> DEFINE T == S \cup {NumCols}
<1>1. NumCols \in Nat BY ConstantTypes
<1>2. T \subseteq Nat /\ T # {} BY <1>1
<1>3. FirstOf(S) = CHOOSE d \in T : \A e \in T : d <= e BY DEF FirstOf, Min
<1> HIDE DEF T
<1>4. \E d \in T : \A e \in T : d <= e BY <1>2, LeastNumber, Zenon
<1>5. FirstOf(S) \in T /\ \A e \in T : FirstOf(S) <= e BY <1>3, <1>4
<1>6. NumCols \in T /\ \A d \in S : d \in T /\ d \in Nat /\ d < NumCols BY <1>1 DEF T
<1>7. PICK d : d = FirstOf(S) OBVIOUS
<1>8. d \in T /\ \A e \in T : d <= e BY <1>5, <1>7
<1>9. d \in Nat /\ d <= NumCols BY <1>2, <1>6, <1>8
<1>10. d \in S \cup {NumCols} BY <1>8 DEF T
<1>. QED BY <1>1, <1>6, <1>7, <1>8, <1>9, <1>10

LEMMA GroupBeginType ==
  ASSUME nextColumnIdx \in -1 .. NumCols
  PROVE  GroupBegin \in 0 .. NumCols
<1>1. NumCols \in Nat \ {0} BY ConstantTypes
<1>2. CASE nextColumnIdx = -1 BY <1>1, <1>2 DEF GroupBegin
<1>3. CASE nextColumnIdx # -1
  <2> DEFINE first == FirstOf({d \in nextColumnIdx .. NumCols - 1 : At(d) # Null})
             behind == {d \in first .. NumCols - 1 : At(d) # At(first)}
  <2>1. nextColumnIdx \in 0 .. NumCols BY <1>1, <1>3
  <2>2. first \in 0 .. NumCols BY <1>1, <2>1, FirstOfIs
  <2>3. GroupBegin = FirstOf(behind) BY <1>3 DEF GroupBegin
  <2> HIDE DEF first
  <2>4. behind \subseteq 0 .. NumCols - 1 BY <1>1, <2>2
  <2> HIDE DEF behind
  <2>. QED BY <2>3, <2>4, FirstOfIs, Zenon
<1>. QED BY <1>2, <1>3

LEMMA AtCell ==
  ASSUME LooseGrid, Honest, RowIdx \in Rows, NEW d \in Columns, At(d) # Null
  PROVE  At(d) \in Placeable /\ cellRow[At(d)] = RowIdx
<1>1. ColumnAt(d) \in Columns BY GridAssumption DEF ColumnAt, Columns
<1>. QED BY <1>1 DEF At, Honest

\* The members of a group of cells that horizontal search considers
LEMMA GroupIs ==
  ASSUME LooseGrid, Honest, RowIdx \in Rows, nextColumnIdx \in -1 .. NumCols,
         NEW starts \in NextGroup
  PROVE  /\ HorizontalGroupSize \in Nat \ {0, 1}
         /\ DOMAIN starts = 1 .. HorizontalGroupSize
         /\ \A n \in 1 .. HorizontalGroupSize :
               /\ starts[n] \in GroupBegin .. NumCols - 1 /\ starts[n] \in Columns
               /\ At(starts[n]) \in Placeable
               /\ cellRow[At(starts[n])] = RowIdx
         /\ GroupEnd(starts) \in 0 .. NumCols
<1>1. HorizontalGroupSize \in Nat \ {0, 1} BY GroupSizeAssumption
<1>2. starts \in [1 .. HorizontalGroupSize -> CellStarts] BY DEF NextGroup
<1>3. NumCols \in Nat \ {0} /\ GroupBegin \in 0 .. NumCols BY ConstantTypes, GroupBeginType
<1>4. \A d \in CellStarts : d \in GroupBegin .. NumCols - 1 /\ d \in Columns /\ At(d) # Null
  BY <1>3 DEF CellStarts, Columns
<1>5. \A n \in 1 .. HorizontalGroupSize :
         /\ starts[n] \in GroupBegin .. NumCols - 1 /\ starts[n] \in Columns
         /\ At(starts[n]) \in Placeable
         /\ cellRow[At(starts[n])] = RowIdx
  BY <1>2, <1>4, AtCell
<1>6. GroupEnd(starts) \in 0 .. NumCols
  <2> DEFINE final  == starts[HorizontalGroupSize]
             border == FirstOf({d \in final .. NumCols - 1 : At(d) # At(final)})
             behind == {d \in border .. NumCols - 1 : At(d) # Null}
  <2>1. GroupEnd(starts) = FirstOf(behind) BY DEF GroupEnd
  <2>2. final \in 0 .. NumCols - 1 BY <1>1, <1>5 DEF Columns
  <2> HIDE DEF final
  <2>3. border \in 0 .. NumCols BY <1>3, <2>2, FirstOfIs
  <2> HIDE DEF border
  <2>4. behind \subseteq 0 .. NumCols - 1 BY <1>3, <2>3
  <2> HIDE DEF behind
  <2>. QED BY <2>1, <2>4, FirstOfIs, Zenon
<1>. QED BY <1>1, <1>2, <1>5, <1>6

LEMMA WidthSteps ==
  ASSUME NEW cells \in Seq(Cells)
  PROVE  /\ \A n \in 0 .. Len(cells) : WidthUpTo(cells)[n] \in Nat
         /\ WidthUpTo(cells)[0] = 0
         /\ \A n \in 1 .. Len(cells) :
               WidthUpTo(cells)[n] = WidthUpTo(cells)[n - 1] + CellSitesNum[cells[n]]
<1> DEFINE w == [n \in DOMAIN cells |-> CellSitesNum[cells[n]]]
<1>1. \A n \in DOMAIN cells : CellSitesNum[cells[n]] \in Nat
  BY ConstantTypes DEF Width
<1>2. w \in Seq(Nat) /\ Len(w) = Len(cells) BY <1>1
<1>3. \A n \in 1 .. Len(cells) : w[n] = CellSitesNum[cells[n]] OBVIOUS
<1>4. WidthUpTo(cells) = SumUpTo(w) BY DEF WidthUpTo
<1> HIDE DEF w
<1>. QED BY <1>2, <1>3, <1>4, SumSteps

\* A group in another order
ReorderedBy(f, order, cells, L) ==
  /\ f \in [1 .. L -> 1 .. L]
  /\ \A n \in 1 .. L : order[n] = cells[f[n]]
  /\ \A m, n \in 1 .. L : f[m] = f[n] => m = n
  /\ \A m \in 1 .. L : \E n \in 1 .. L : f[n] = m

LEMMA PermutationIs ==
  ASSUME NEW L \in Nat, NEW cells \in [1 .. L -> Placeable], NEW order \in Permutation(cells)
  PROVE  /\ order \in [1 .. L -> Placeable] /\ order \in Seq(Cells) /\ Len(order) = L
         /\ \E f : ReorderedBy(f, order, cells, L)
<1>1. PICK f \in Bijection(DOMAIN cells, DOMAIN cells) :
        order = [n \in DOMAIN cells |-> cells[f[n]]]
  BY DEF Permutation
<1>2. /\ f \in [1 .. L -> 1 .. L]
      /\ \A m, n \in 1 .. L : f[m] = f[n] => m = n
      /\ \A m \in 1 .. L : \E n \in 1 .. L : f[n] = m
  <2>1. DOMAIN cells = 1 .. L OBVIOUS
  <2>. QED BY <1>1, <2>1 DEF Bijection, Injection, Surjection, IsInjective
<1>3. order \in [1 .. L -> Placeable] BY <1>1, <1>2
<1>4. order \in Seq(Cells) /\ Len(order) = L BY <1>3, ConstantTypes
<1>5. ReorderedBy(f, order, cells, L) BY <1>1, <1>2 DEF ReorderedBy
<1>. QED BY <1>3, <1>4, <1>5

Implements(g, L, left, cells, F) ==
  /\ g = [n \in 1 .. L |-> [cell   |-> cells[n],
                            row    |-> cellRow[cells[n]],
                            column |-> left + WidthUpTo(cells)[n - 1] + F[n]]]
  /\ F \in [1 .. L -> Int]

LEMMA ImplementLoose ==
  ASSUME LooseGrid, NEW left \in Int, NEW L \in Nat, NEW cells \in [1 .. L -> Placeable],
         NEW F, NEW g, Implements(g, L, left, cells, F)
  PROVE  g \in Seq(LoosePlaces)
<1>1. cells \in Seq(Cells) /\ Len(cells) = L BY ConstantTypes
<1>2. ASSUME NEW n \in 1 .. L PROVE g[n] \in LoosePlaces
  <2>1. n - 1 \in 0 .. Len(cells) BY <1>1
  <2>2. WidthUpTo(cells)[n - 1] \in Nat BY <1>1, <2>1, WidthSteps
  <2>3. left + WidthUpTo(cells)[n - 1] + F[n] \in Int
    <3>1. PICK b \in Int : b = WidthUpTo(cells)[n - 1] BY <2>2
    <3>2. PICK d \in Int : d = F[n] BY DEF Implements
    <3>. QED BY <3>1, <3>2
  <2>4. cells[n] \in Placeable /\ cellRow[cells[n]] \in Rows
    BY ConstantTypes DEF LooseGrid
  <2>5. g[n] = [cell |-> cells[n], row |-> cellRow[cells[n]],
                column |-> left + WidthUpTo(cells)[n - 1] + F[n]]
    BY DEF Implements
  <2>. QED BY <2>3, <2>4, <2>5 DEF LoosePlaces
<1>3. g \in [1 .. L -> LoosePlaces] BY <1>2 DEF Implements
<1>. QED BY <1>3

\* The free sites that a trial leaves before each cell of the group
LeavesFree(starts, cells, F) ==
  \/ \A n \in 1 .. HorizontalGroupSize : F[n] = 0
  \/ \A n \in 1 .. HorizontalGroupSize :
        F[n] = ((n - 1) * NumEmpty(starts)) \div (HorizontalGroupSize - 1)
  \/ \A n \in 1 .. HorizontalGroupSize : F[n] = NumSites(starts) - TotalWidth(cells)

LEMMA TrialIs ==
  ASSUME LooseGrid, Honest, RowIdx \in Rows, nextColumnIdx \in -1 .. NumCols,
         NEW starts \in NextGroup, NEW trial \in Trials(starts)
  PROVE  /\ HorizontalGroupSize \in Nat \ {0, 1}
         /\ ConsideredGroupOfCells(starts) \in [1 .. HorizontalGroupSize -> Placeable]
         /\ LeftSiteIdx(starts) \in Int /\ NumEmpty(starts) \in Nat
         /\ \E cells \in Permutation(ConsideredGroupOfCells(starts)) : \E F :
               /\ Implements(trial, HorizontalGroupSize, LeftSiteIdx(starts), cells, F)
               /\ LeavesFree(starts, cells, F)
<1> DEFINE L == HorizontalGroupSize
           considered == ConsideredGroupOfCells(starts)
<1>1. /\ L \in Nat \ {0, 1} /\ DOMAIN starts = 1 .. L
      /\ \A n \in 1 .. L : At(starts[n]) \in Placeable
      /\ GroupEnd(starts) \in 0 .. NumCols
  BY GroupIs
<1>2. considered \in [1 .. L -> Placeable] BY <1>1 DEF ConsideredGroupOfCells
<1>3. NumCols \in Nat \ {0} /\ GroupBegin \in 0 .. NumCols BY ConstantTypes, GroupBeginType
<1>4. LeftSiteIdx(starts) \in Int BY <1>1, <1>3 DEF LeftSiteIdx, ColumnAt
<1>5. NumSites(starts) \in Int BY <1>1, <1>3 DEF NumSites
<1>6. NumEmpty(starts) \in Nat
  <2>1. IsFiniteSet(GroupBegin .. GroupEnd(starts) - 1) BY <1>1, <1>3, FS_Interval
  <2>2. IsFiniteSet({d \in GroupBegin .. GroupEnd(starts) - 1 : At(d) = Null})
    BY <2>1, FS_Subset, Zenon
  <2>. QED BY <2>2, FS_CardinalityType DEF NumEmpty
<1>7. PICK cells \in Permutation(considered) :
         trial \in {OnTheLeft(starts, cells), Equidistant(starts, cells), OnTheRight(starts, cells)}
  BY DEF Trials
<1> HIDE DEF considered
<1>8. cells \in [1 .. L -> Placeable] /\ cells \in Seq(Cells) /\ Len(cells) = L
  <2> HIDE DEF L
  <2>. QED BY <1>1, <1>2, PermutationIs
<1>9. TotalWidth(cells) \in Nat
  <2>1. L \in 0 .. Len(cells) BY <1>1, <1>8
  <2>. QED BY <1>8, <2>1, WidthSteps DEF TotalWidth
<1>10. DOMAIN cells = 1 .. L BY <1>8
<1> DEFINE Is == \E F : /\ Implements(trial, L, LeftSiteIdx(starts), cells, F)
                        /\ LeavesFree(starts, cells, F)
<1> HIDE DEF L
<1>11. ASSUME trial = OnTheLeft(starts, cells) PROVE Is
  <2> DEFINE F == [n \in 1 .. L |-> 0]
  <2>1. trial = [n \in 1 .. L |->
           [cell |-> cells[n], row |-> cellRow[cells[n]],
            column |-> LeftSiteIdx(starts) + WidthUpTo(cells)[n - 1] + F[n]]]
    BY <1>10, <1>11 DEF OnTheLeft, Implement
  <2>2. \A n \in 1 .. L : F[n] \in Int OBVIOUS
  <2>3. F \in [1 .. L -> Int] BY <2>2
  <2>4. LeavesFree(starts, cells, F) BY DEF LeavesFree, L
  <2> HIDE DEF F
  <2>. QED BY <2>1, <2>3, <2>4, Zenon DEF Implements
<1>12. ASSUME trial = Equidistant(starts, cells) PROVE Is
  <2> DEFINE F == [n \in 1 .. L |->
                     ((n - 1) * NumEmpty(starts)) \div (HorizontalGroupSize - 1)]
  <2>1. trial = [n \in 1 .. L |->
           [cell |-> cells[n], row |-> cellRow[cells[n]],
            column |-> LeftSiteIdx(starts) + WidthUpTo(cells)[n - 1] + F[n]]]
    BY <1>10, <1>12 DEF Equidistant, Implement
  <2>2. \A n \in 1 .. L : F[n] \in Int
    <3> TAKE n \in 1 .. L
    <3>1. PICK a \in Int : a = (n - 1) * NumEmpty(starts) BY <1>1, <1>6
    <3>2. PICK b \in Nat \ {0} : b = HorizontalGroupSize - 1 BY <1>1 DEF L
    <3>3. a \div b \in Int OBVIOUS
    <3>. QED BY <3>1, <3>2, <3>3
  <2>3. F \in [1 .. L -> Int] BY <2>2
  <2>4. LeavesFree(starts, cells, F) BY DEF LeavesFree, L
  <2> HIDE DEF F
  <2>. QED BY <2>1, <2>3, <2>4, Zenon DEF Implements
<1>13. ASSUME trial = OnTheRight(starts, cells) PROVE Is
  <2> DEFINE F == [n \in 1 .. L |-> NumSites(starts) - TotalWidth(cells)]
  <2>1. trial = [n \in 1 .. L |->
           [cell |-> cells[n], row |-> cellRow[cells[n]],
            column |-> LeftSiteIdx(starts) + WidthUpTo(cells)[n - 1] + F[n]]]
    BY <1>10, <1>13 DEF OnTheRight, Implement
  <2>2. \A n \in 1 .. L : F[n] \in Int BY <1>5, <1>9
  <2>3. F \in [1 .. L -> Int] BY <2>2
  <2>4. LeavesFree(starts, cells, F) BY DEF LeavesFree, L
  <2> HIDE DEF F
  <2>. QED BY <2>1, <2>3, <2>4, Zenon DEF Implements
<1>14. Is BY <1>7, <1>11, <1>12, <1>13
<1> HIDE DEF Is
<1>. QED BY <1>1, <1>2, <1>4, <1>6, <1>14 DEF Is, L, considered

LEMMA TrialLoose ==
  ASSUME LooseGrid, Honest, RowIdx \in Rows, nextColumnIdx \in -1 .. NumCols,
         NEW starts \in NextGroup, NEW trial \in Trials(starts)
  PROVE  trial \in Seq(LoosePlaces)
<1>1. PICK H \in Nat : H = HorizontalGroupSize BY GroupSizeAssumption
<1>2. PICK considered \in [1 .. H -> Placeable] : considered = ConsideredGroupOfCells(starts)
  BY <1>1, TrialIs
<1>3. PICK left \in Int : left = LeftSiteIdx(starts) BY TrialIs
<1>4. PICK cells \in Permutation(considered) : \E F : Implements(trial, H, left, cells, F)
  BY <1>1, <1>2, <1>3, TrialIs
<1>5. cells \in [1 .. H -> Placeable] BY PermutationIs
<1>. QED BY <1>4, <1>5, ImplementLoose

LEMMA InitialLoose ==
  ASSUME LooseGrid, Honest, RowIdx \in Rows, nextColumnIdx \in -1 .. NumCols,
         NEW starts \in NextGroup
  PROVE  InitialPositions(ConsideredGroupOfCells(starts)) \in Seq(LoosePlaces)
<1> DEFINE L == HorizontalGroupSize
           cells == ConsideredGroupOfCells(starts)
           g == InitialPositions(cells)
<1>1. cells \in [1 .. L -> Placeable] /\ L \in Nat
  BY GroupIs DEF ConsideredGroupOfCells
<1>2. g = [n \in DOMAIN cells |->
             [cell |-> cells[n], row |-> cellRow[cells[n]], column |-> cellSiteIdx[cells[n]]]]
  BY DEF InitialPositions
<1> HIDE DEF cells, L
<1>3. \A n \in 1 .. L : cells[n] \in Placeable /\ cellRow[cells[n]] \in Rows
                        /\ cellSiteIdx[cells[n]] \in Int
  BY <1>1, ConstantTypes DEF LooseGrid
<1> HIDE DEF g
<1>4. \A n \in 1 .. L : g[n] \in LoosePlaces BY <1>1, <1>2, <1>3, Zenon DEF LoosePlaces
<1>5. g \in [1 .. L -> LoosePlaces] BY <1>1, <1>2, <1>4
<1>6. g \in Seq(LoosePlaces) BY <1>1, <1>5
<1>. QED BY <1>6 DEF g, cells

-----------------------------------------------------------------------------
(***************************************************************************)
(* A sequence of sequences, one behind the other.                          *)
(***************************************************************************)
Flattens(h, ss, T) ==
  /\ h \in [1 .. Len(ss) -> Seq(T)]
  /\ h[1] = ss[1]
  /\ \A n \in 2 .. Len(ss) : h[n] = h[n - 1] \o ss[n]

LEMMA FlattenIs ==
  ASSUME NEW T, NEW ss \in Seq(Seq(T)), ss # <<>>
  PROVE  \E h : Flattens(h, ss, T) /\ FlattenSeq(ss) = h[Len(ss)]
<1> DEFINE L == Len(ss)
           F == [n \in 1 .. L - 1 |-> [s \in Seq(T) |-> s \o ss[n + 1]]]
<1>1. L \in Nat \ {0} /\ L - 1 \in Nat /\ ss[1] \in Seq(T) OBVIOUS
<1>2. \A n \in 1 .. L - 1 : n + 1 \in 1 .. L /\ ss[n + 1] \in Seq(T) OBVIOUS
<1>3. F \in [1 .. L - 1 -> [Seq(T) -> Seq(T)]]
  <2>1. \A n \in 1 .. L - 1 : \A s \in Seq(T) : s \o ss[n + 1] \in Seq(T)
    BY <1>2
  <2>. QED BY <2>1
<1> HIDE DEF L
<1>4. PICK f : Iterates(f, L - 1, ss[1], F, Seq(T))
  <2> HIDE DEF F
  <2>. QED BY <1>1, <1>3, RecursionExists, Zenon
<1>5. /\ f \in [0 .. L - 1 -> Seq(T)] /\ f[0] = ss[1]
      /\ \A n \in 1 .. L - 1 : f[n] = F[n][f[n - 1]]
  BY <1>4, Zenon DEF Iterates
<1>6. \A n \in 1 .. L - 1 : n - 1 \in 0 .. L - 1 /\ f[n] = f[n - 1] \o ss[n + 1]
  <2> TAKE n \in 1 .. L - 1
  <2>1. n - 1 \in 0 .. L - 1 BY <1>1
  <2>2. f[n - 1] \in Seq(T) BY <1>5, <2>1, Zenon
  <2>3. f[n] = F[n][f[n - 1]] BY <1>5, Zenon
  <2>. QED BY <2>1, <2>2, <2>3, Zenon
<1> DEFINE g == [n \in 1 .. L |-> f[n - 1]]
<1>7. \A n \in 1 .. L : n - 1 \in 0 .. L - 1 BY <1>1
<1>8. g \in [1 .. L -> Seq(T)] BY <1>5, <1>7
<1>9. \A n \in 1 .. L : n # 1 => g[n] = g[n - 1] \o ss[n]
  <2> SUFFICES ASSUME NEW n \in 1 .. L, n # 1 PROVE g[n] = g[n - 1] \o ss[n]
    BY Zenon
  <2>1. n - 1 \in 1 .. L - 1 /\ n - 1 \in 1 .. L /\ (n - 1) + 1 = n BY <1>1
  <2>2. g[n] = f[n - 1] /\ g[n - 1] = f[(n - 1) - 1] BY <2>1
  <2>. QED BY <1>6, <2>1, <2>2, Zenon
<1>10. g[1] = ss[1] BY <1>1, <1>5
<1>11. g = [n \in 1 .. L |-> IF n = 1 THEN ss[n] ELSE g[n - 1] \o ss[n]]
  <2>1. g = [n \in 1 .. L |-> g[n]] OBVIOUS
  <2> HIDE DEF g
  <2>. QED BY <1>9, <1>10, <2>1, Zenon
<1> DEFINE h == CHOOSE e : e = [n \in 1 .. L |-> IF n = 1 THEN ss[n] ELSE e[n - 1] \o ss[n]]
<1>12. h = [n \in 1 .. L |-> IF n = 1 THEN ss[n] ELSE h[n - 1] \o ss[n]]
  <2> HIDE DEF g
  <2>. QED BY <1>11, Zenon
<1>13. FlattenSeq(ss) = h[L] BY <1>1 DEF FlattenSeq, L
<1> HIDE DEF h, g
<1>14. h[1] = ss[1] /\ \A n \in 1 .. L : n # 1 => h[n] = h[n - 1] \o ss[n]
  <2>1. \A n \in 1 .. L : h[n] = IF n = 1 THEN ss[n] ELSE h[n - 1] \o ss[n] BY <1>12, Zenon
  <2>2. 1 \in 1 .. L BY <1>1
  <2>. QED BY <2>1, <2>2, Zenon
<1>15. \A n \in 1 .. L : h[n] = g[n]
  <2> DEFINE K == {n \in 0 .. L : n = 0 \/ h[n] = g[n]}
  <2>1. 0 \in K BY <1>1
  <2>2. ASSUME NEW k \in 0 .. L, k \in K, k + 1 \in 0 .. L PROVE k + 1 \in K
    <3>1. CASE k = 0 BY <1>10, <1>14, <2>2, <3>1
    <3>2. CASE k # 0
      <4>1. k + 1 \in 1 .. L /\ k + 1 # 1 /\ (k + 1) - 1 = k /\ h[k] = g[k] BY <2>2, <3>2
      <4>2. h[k + 1] = h[k] \o ss[k + 1] /\ g[k + 1] = g[k] \o ss[k + 1]
        BY <1>9, <1>14, <4>1, Zenon
      <4>. QED BY <2>2, <4>1, <4>2, Zenon
    <3>. QED BY <3>1, <3>2
  <2> HIDE DEF K
  <2>3. 0 .. L \subseteq K BY <1>1, <2>1, <2>2, Climb, Zenon
  <2>. QED BY <1>1, <2>3 DEF K
<1>16. h \in [1 .. L -> Seq(T)]
  <2>1. \A n \in 1 .. L : h[n] \in Seq(T) BY <1>8, <1>15, Zenon
  <2>. QED BY <1>12, <2>1
<1>17. \A n \in 2 .. L : n \in 1 .. L /\ n # 1 BY <1>1
<1>18. Flattens(h, ss, T) BY <1>14, <1>16, <1>17, Zenon DEF Flattens, L
<1>. QED BY <1>13, <1>18 DEF L

LEMMA FlattenType ==
  ASSUME NEW T, NEW ss \in Seq(Seq(T))
  PROVE  FlattenSeq(ss) \in Seq(T)
<1>1. CASE ss = <<>>
  <2>1. FlattenSeq(ss) = <<>> BY <1>1 DEF FlattenSeq
  <2>. QED BY <2>1
<1>2. CASE ss # <<>>
  <2>1. PICK h : Flattens(h, ss, T) /\ FlattenSeq(ss) = h[Len(ss)] BY <1>2, FlattenIs
  <2>2. Len(ss) \in 1 .. Len(ss) BY <1>2
  <2>. QED BY <2>1, <2>2, Zenon DEF Flattens
<1>. QED BY <1>1, <1>2

\* The places of the cells of one cluster
PlacesOf(r, cluster) ==
  [j \in DOMAIN cluster.cells |->
      [cell |-> cluster.cells[j], row |-> r,
       column |-> cluster.x + WidthUpTo(cluster.cells)[j - 1]]]

LEMMA PlacesOfLoose ==
  ASSUME NEW r \in Rows, NEW cluster \in ClusterType
  PROVE  PlacesOf(r, cluster) \in Seq(LoosePlaces)
<1>1. PICK cells \in Seq(Placeable) : cells = cluster.cells BY DEF ClusterType
<1>2. PICK x \in Int : x = cluster.x BY DEF ClusterType
<1>3. cells \in Seq(Cells)
  <2>1. cells \in [1 .. Len(cells) -> Placeable] /\ Len(cells) \in Nat OBVIOUS
  <2>2. cells \in [1 .. Len(cells) -> Cells] BY <2>1, ConstantTypes
  <2>. QED BY <2>1, <2>2
<1>4. ASSUME NEW j \in 1 .. Len(cells)
      PROVE  [cell |-> cells[j], row |-> r, column |-> x + WidthUpTo(cells)[j - 1]] \in LoosePlaces
  <2>1. j - 1 \in 0 .. Len(cells) OBVIOUS
  <2>2. PICK w \in Nat : w = WidthUpTo(cells)[j - 1] BY <1>3, <2>1, WidthSteps
  <2>3. x + WidthUpTo(cells)[j - 1] \in Int BY <2>2
  <2>4. cells[j] \in Placeable OBVIOUS
  <2>. QED BY <2>3, <2>4 DEF LoosePlaces
<1>5. PlacesOf(r, cluster) = [j \in 1 .. Len(cells) |->
        [cell |-> cells[j], row |-> r, column |-> x + WidthUpTo(cells)[j - 1]]]
  BY <1>1, <1>2 DEF PlacesOf
<1>6. PlacesOf(r, cluster) \in [1 .. Len(cells) -> LoosePlaces] BY <1>4, <1>5
<1>7. Len(cells) \in Nat OBVIOUS
<1>. QED BY <1>6, <1>7

RowPlaces(r) == FlattenSeq([n \in DOMAIN clusters[r] |-> PlacesOf(r, clusters[r][n])])

LEMMA ClusterPlacesIs ==
  ASSUME clusters \in [Rows -> Seq(ClusterType)]
  PROVE  /\ ClusterPlaces = FlattenSeq([r \in 1 .. NumRows |-> RowPlaces(r - 1)])
         /\ \A r \in Rows :
               /\ [n \in DOMAIN clusters[r] |-> PlacesOf(r, clusters[r][n])] \in Seq(Seq(LoosePlaces))
               /\ RowPlaces(r) \in Seq(LoosePlaces)
         /\ [r \in 1 .. NumRows |-> RowPlaces(r - 1)] \in Seq(Seq(LoosePlaces))
<1>1. ClusterPlaces = FlattenSeq([r \in 1 .. NumRows |-> RowPlaces(r - 1)])
  BY DEF ClusterPlaces, RowPlaces, PlacesOf
<1>2. ASSUME NEW r \in Rows
      PROVE  /\ [n \in DOMAIN clusters[r] |-> PlacesOf(r, clusters[r][n])] \in Seq(Seq(LoosePlaces))
             /\ RowPlaces(r) \in Seq(LoosePlaces)
  <2> DEFINE ss == [n \in DOMAIN clusters[r] |-> PlacesOf(r, clusters[r][n])]
  <2>1. clusters[r] \in Seq(ClusterType) OBVIOUS
  <2>2. \A n \in 1 .. Len(clusters[r]) : clusters[r][n] \in ClusterType BY <2>1
  <2>3. \A n \in 1 .. Len(clusters[r]) : PlacesOf(r, clusters[r][n]) \in Seq(LoosePlaces)
    BY <2>2, PlacesOfLoose
  <2>4. DOMAIN clusters[r] = 1 .. Len(clusters[r]) /\ Len(clusters[r]) \in Nat BY <2>1
  <2>5. ss \in [1 .. Len(clusters[r]) -> Seq(LoosePlaces)] BY <2>3, <2>4
  <2>6. ss \in Seq(Seq(LoosePlaces))
    <3> HIDE DEF ss
    <3>. QED BY <2>4, <2>5
  <2>7. RowPlaces(r) = FlattenSeq(ss) BY DEF RowPlaces
  <2>8. FlattenSeq(ss) \in Seq(LoosePlaces)
    <3> HIDE DEF ss
    <3>. QED BY <2>6, FlattenType
  <2>. QED BY <2>6, <2>7, <2>8
<1>3. [r \in 1 .. NumRows |-> RowPlaces(r - 1)] \in Seq(Seq(LoosePlaces))
  <2>1. NumRows \in Nat /\ \A r \in 1 .. NumRows : r - 1 \in Rows BY ConstantTypes DEF Rows
  <2>2. [r \in 1 .. NumRows |-> RowPlaces(r - 1)] \in [1 .. NumRows -> Seq(LoosePlaces)]
    BY <1>2, <2>1, Zenon
  <2>. QED BY <2>1, <2>2
<1>. QED BY <1>1, <1>2, <1>3

LEMMA ClusterPlacesLoose ==
  ASSUME clusters \in [Rows -> Seq(ClusterType)]
  PROVE  ClusterPlaces \in Seq(LoosePlaces)
BY ClusterPlacesIs, FlattenType

-----------------------------------------------------------------------------
(***************************************************************************)
(* Every action of the flow keeps these types.                             *)
(***************************************************************************)
FlowType == FlowGrid /\ AbacusType

LEMMA InitFlow == Init => FlowType
<1> SUFFICES ASSUME Init PROVE FlowType
  OBVIOUS
<1>1. /\ cellRow = [c \in Cells |-> 0] /\ cellSiteIdx = [c \in Cells |-> 0]
      /\ sites = [r \in Rows |-> [k \in Columns |-> Null]]
      /\ pos \in GlobalPlacements
      /\ op = "cell" /\ cur = Len(CellOrder)
      /\ NoTrial /\ NoLegalization
      /\ Direction \in {"LEFTTORIGHT", "RIGHTTOLEFT"} /\ nextColumnIdx = -1
  BY DEF Init
<1>2. 0 \in Rows /\ 0 \in Columns /\ NumCols \in Nat BY ConstantTypes DEF Rows
<1>3. LooseGrid BY <1>1, <1>2, StartAssumption DEF LooseGrid, PosType
<1>4. Honest BY <1>1 DEF Honest
<1>5. Len(CellOrder) \in Nat BY GridAssumption
<1>6. FlowControl
  <2>1. group = <<>> /\ freeSite = 0 BY <1>1 DEF NoTrial
  <2>2. group \in Seq(LoosePlaces) /\ freeSite \in Int BY <2>1
  <2>. QED BY <1>1, <1>5, <2>2 DEF FlowControl, TrialOps
<1>7. AbacusType
  <2>1. queue = <<>> /\ clusters = [r \in Rows |-> <<>>] BY <1>1 DEF NoLegalization
  <2>2. queue \in Seq(Placeable) BY <2>1
  <2>3. clusters \in [Rows -> Seq(ClusterType)] BY <2>1
  <2>. QED BY <1>1, <1>2, <2>2, <2>3 DEF AbacusType
<1>. QED BY <1>3, <1>4, <1>6, <1>7 DEF FlowType, FlowGrid

\* Actions that do not put any cell
LEMMA ControlOnly ==
  ASSUME FlowType, UNCHANGED <<gridVars, pos>>, UNCHANGED trialVars, op \notin TrialOps,
         op' \in {"cell", "row", "legalize", "measure", "done"},
         cur' \in Nat, op' = "cell" => cur' <= Len(CellOrder), op' = "row" => cur' <= NumRows,
         AbacusType'
  PROVE  FlowType'
<1>1. LooseGrid' /\ Honest' BY GridStays DEF FlowType, FlowGrid, LooseGrid, PosType
<1>2. NoTrial BY DEF FlowType, FlowGrid, FlowControl
<1>3. NoTrial' BY <1>2 DEF NoTrial, trialVars
<1>4. group' \in Seq(LoosePlaces) /\ freeSite' \in Int
  <2>1. group' = <<>> /\ freeSite' = 0 BY <1>3 DEF NoTrial
  <2>. QED BY <2>1
<1>. QED BY <1>1, <1>3, <1>4 DEF FlowType, FlowGrid, FlowControl, TrialOps

LEMMA LegalityControlFlow == FlowType /\ LegalityControl => FlowType'
<1> SUFFICES ASSUME FlowType, LegalityControl PROVE FlowType'
  OBVIOUS
<1>1. /\ op \notin TrialOps /\ cur \in Nat
      /\ UNCHANGED <<gridVars, pos, cur, trialVars, horizontalVars>>
      /\ \/ op' = "measure" /\ UNCHANGED abacusVars
         \/ op' = "legalize" /\ StartLegalization
  BY DEF LegalityControl, PassOver, TrialOps, FlowType, FlowGrid, FlowControl
<1>2. CASE UNCHANGED abacusVars
  <2>1. AbacusType' BY <1>1, <1>2 DEF AbacusType, FlowType, abacusVars, horizontalVars
  <2>. QED BY <1>1, <2>1, ControlOnly DEF FlowType, FlowGrid
<1>3. CASE op' = "legalize" /\ StartLegalization
  <2>1. PICK cells \in [DOMAIN CellOrder -> Placeable] : queue' = cells
    BY <1>3 DEF StartLegalization
  <2>2. clusters' = [r \in Rows |-> <<>>] BY <1>3 DEF StartLegalization
  <2>3. queue' \in Seq(Placeable)
    <3>1. PICK L \in Nat : DOMAIN CellOrder = 1 .. L BY GridAssumption
    <3>. QED BY <2>1, <3>1
  <2>4. clusters' \in [Rows -> Seq(ClusterType)] BY <2>2
  <2>5. AbacusType' BY <1>1, <2>3, <2>4 DEF AbacusType, FlowType, horizontalVars
  <2>. QED BY <1>1, <1>3, <2>5, ControlOnly
<1>. QED BY <1>1, <1>2, <1>3

LEMMA LegalizeCellFlow == FlowType /\ LegalizeCell => FlowType'
<1> SUFFICES ASSUME FlowType, LegalizeCell PROVE FlowType'
  OBVIOUS
<1>1. op = "legalize" /\ PlaceCellIntoRow /\ UNCHANGED <<swapVars, horizontalVars>>
  BY DEF LegalizeCell, Legalizing
<1>2. queue # <<>> /\ queue' = Tail(queue) BY <1>1 DEF PlaceCellIntoRow
<1>3. \E r : clusters' = [clusters EXCEPT ![r] = WithCell(r, Head(queue))]
  BY <1>1, Zenon DEF PlaceCellIntoRow
<1>4. /\ queue \in Seq(Placeable) /\ clusters \in [Rows -> Seq(ClusterType)] /\ PosType
  BY DEF FlowType, AbacusType, FlowGrid, LooseGrid
<1>5. Head(queue) \in Placeable /\ queue' \in Seq(Placeable) BY <1>2, <1>4
<1>6. \A r \in Rows : WithCell(r, Head(queue)) \in Seq(ClusterType)
  <2> TAKE r \in Rows
  <2>1. clusters[r] \in Seq(ClusterType) BY <1>4
  <2>. QED BY <1>4, <1>5, <2>1, WithCellType
<1>7. clusters' \in [Rows -> Seq(ClusterType)] BY <1>3, <1>4, <1>6, Zenon
<1>8. AbacusType' BY <1>1, <1>5, <1>7 DEF AbacusType, FlowType, horizontalVars
<1>9. UNCHANGED <<gridVars, pos, trialVars, op, cur>> BY <1>1 DEF swapVars
<1>. QED BY <1>1, <1>8, <1>9, ControlOnly DEF FlowType, FlowGrid, FlowControl, TrialOps

LEMMA UpdateFlow == FlowType /\ UpdateCellsCoordinates => FlowType'
<1> SUFFICES ASSUME FlowType, UpdateCellsCoordinates PROVE FlowType'
  OBVIOUS
<1>1. /\ op = "legalize" /\ op' = "measure"
      /\ PutCells(ClusterPlaces) /\ pos' = PutFast(pos, ClusterPlaces)
      /\ clusters' = [r \in Rows |-> <<>>]
      /\ UNCHANGED <<queue, cur, trialVars, horizontalVars>>
  BY DEF UpdateCellsCoordinates, Legalizing
<1>2. ClusterPlaces \in Seq(LoosePlaces) BY ClusterPlacesLoose DEF FlowType, AbacusType
<1>3. pos' \in [Cells -> [x : Int, y : Int]]
  BY <1>1, <1>2, PutFastType DEF FlowType, FlowGrid, LooseGrid, PosType
<1>4. LooseGrid' /\ Honest'
  BY <1>1, <1>2, <1>3, PutCellsLoose, Zenon DEF FlowType, FlowGrid, LooseGrid, PosType
<1>5. clusters' \in [Rows -> Seq(ClusterType)] BY <1>1
<1>6. AbacusType' BY <1>1, <1>5 DEF AbacusType, FlowType, horizontalVars
<1>7. NoTrial /\ UNCHANGED trialVars BY <1>1 DEF FlowType, FlowGrid, FlowControl, TrialOps
<1>8. NoTrial' BY <1>7 DEF NoTrial, trialVars
<1>9. group' \in Seq(LoosePlaces) /\ freeSite' \in Int
  <2>1. group' = <<>> /\ freeSite' = 0 BY <1>8 DEF NoTrial
  <2>. QED BY <2>1
<1>. QED BY <1>1, <1>4, <1>6, <1>8, <1>9 DEF FlowType, FlowGrid, FlowControl, TrialOps

LEMMA LegalizationFailsFlow == FlowType /\ LegalizationFails => FlowType'
<1> SUFFICES ASSUME FlowType, LegalizationFails PROVE FlowType'
  OBVIOUS
<1>1. /\ op = "legalize" /\ op' = "measure"
      /\ clusters' = [r \in Rows |-> <<>>] /\ queue' = <<>>
      /\ UNCHANGED <<gridVars, pos, cur, trialVars, horizontalVars>>
  BY DEF LegalizationFails, Legalizing
<1>2. clusters' \in [Rows -> Seq(ClusterType)] /\ queue' \in Seq(Placeable)
  <2>1. clusters' \in [Rows -> Seq(ClusterType)] BY <1>1
  <2>2. queue' \in Seq(Placeable) BY <1>1
  <2>. QED BY <2>1, <2>2
<1>3. AbacusType' BY <1>1, <1>2 DEF AbacusType, FlowType, horizontalVars
<1>. QED BY <1>1, <1>3, ControlOnly DEF FlowType, FlowGrid, FlowControl, TrialOps

LEMMA MeasureFlow ==
  FlowType /\ (StartIterations \/ NextStage \/ NextIteration \/ Finish) => FlowType'
<1> SUFFICES ASSUME FlowType, StartIterations \/ NextStage \/ NextIteration \/ Finish
             PROVE  FlowType'
  OBVIOUS
<1>1. /\ op = "measure" /\ UNCHANGED <<gridVars, pos, trialVars, abacusVars>>
      /\ \/ Enter("GS") \/ Enter("VS") \/ Enter("HS")
         \/ op' = "done" /\ UNCHANGED <<cur, horizontalVars>>
  BY DEF StartIterations, NextStage, NextIteration, Finish, Calculate
<1>2. /\ NumCols \in Nat \ {0} /\ NumRows \in Nat \ {0} /\ Len(CellOrder) \in Nat
  BY GridAssumption
<1>3. ASSUME NEW stage, Enter(stage)
      PROVE  FlowType'
  <2>1. /\ cur' = 0 /\ op' \in {"cell", "row"} /\ nextColumnIdx' = -1
        /\ Direction' \in {Direction, "LEFTTORIGHT", "RIGHTTOLEFT"}
    BY <1>3 DEF Enter
  <2>2. AbacusType' BY <1>1, <1>2, <2>1 DEF AbacusType, FlowType, abacusVars
  <2>3. cur' \in Nat /\ cur' <= Len(CellOrder) /\ cur' <= NumRows BY <1>2, <2>1
  <2>. QED BY <1>1, <2>1, <2>2, <2>3, ControlOnly DEF TrialOps
<1>4. CASE op' = "done" /\ UNCHANGED <<cur, horizontalVars>>
  <2>1. AbacusType' BY <1>1, <1>4 DEF AbacusType, FlowType, abacusVars, horizontalVars
  <2>. QED BY <1>1, <1>4, <2>1, ControlOnly DEF FlowType, FlowGrid, FlowControl, TrialOps
<1>. QED BY <1>1, <1>3, <1>4

LEMMA ProcessGroupFlow == FlowType /\ ProcessGroup /\ UNCHANGED abacusVars => FlowType'
<1> SUFFICES ASSUME FlowType, ProcessGroup, UNCHANGED abacusVars PROVE FlowType'
  OBVIOUS
<1>1. /\ op = "row" /\ cur < NumRows /\ UNCHANGED <<op, cur, trialVars, Direction>>
      /\ nextColumnIdx' = GroupBegin
  BY DEF ProcessGroup
<1>2. /\ LooseGrid /\ Honest /\ nextColumnIdx \in -1 .. NumCols /\ cur \in Nat
      /\ pos \in [Cells -> [x : Int, y : Int]]
  BY DEF FlowType, FlowGrid, FlowControl, AbacusType, LooseGrid, PosType
<1>3. RowIdx \in Rows BY <1>1, <1>2, ConstantTypes DEF RowIdx, Rows
<1>4. \E starts \in NextGroup : \E g :
         /\ g \in Trials(starts) \cup {InitialPositions(ConsideredGroupOfCells(starts))}
         /\ PutCells(g) /\ pos' = PutFast(pos, g)
  BY Zenon DEF ProcessGroup
<1>5. PICK g \in Seq(LoosePlaces) : PutCells(g) /\ pos' = PutFast(pos, g)
  BY <1>2, <1>3, <1>4, TrialLoose, InitialLoose
<1>6. pos' \in [Cells -> [x : Int, y : Int]] BY <1>2, <1>5, PutFastType, Zenon
<1>7. LooseGrid' /\ Honest' BY <1>2, <1>5, <1>6, PutCellsLoose, Zenon DEF LooseGrid, PosType
<1>8. nextColumnIdx' \in -1 .. NumCols
  <2>1. GroupBegin \in 0 .. NumCols BY <1>2, GroupBeginType
  <2>. QED BY <1>1, <2>1
<1>9. AbacusType' BY <1>1, <1>8 DEF AbacusType, FlowType, abacusVars
<1>10. NoTrial BY <1>1 DEF FlowType, FlowGrid, FlowControl, TrialOps
<1>11. NoTrial' BY <1>1, <1>10 DEF NoTrial, trialVars
<1>12. group' \in Seq(LoosePlaces) /\ freeSite' \in Int
  <2>1. group' = <<>> /\ freeSite' = 0 BY <1>11 DEF NoTrial
  <2>. QED BY <2>1
<1>13. cur' \in Nat /\ cur' <= NumRows BY <1>1, <1>2, ConstantTypes
<1>. QED BY <1>1, <1>7, <1>9, <1>11, <1>12, <1>13 DEF FlowType, FlowGrid, FlowControl, TrialOps

LEMMA NextRowFlow == FlowType /\ NextRowOfCells /\ UNCHANGED abacusVars => FlowType'
<1> SUFFICES ASSUME FlowType, NextRowOfCells, UNCHANGED abacusVars PROVE FlowType'
  OBVIOUS
<1>1. /\ op = "row" /\ cur < NumRows /\ cur' = cur + 1 /\ nextColumnIdx' = -1
      /\ UNCHANGED <<gridVars, pos, op, trialVars, Direction>>
  BY DEF NextRowOfCells
<1>2. NumCols \in Nat /\ NumRows \in Nat /\ cur \in Nat
  BY ConstantTypes DEF FlowType, FlowGrid, FlowControl
<1>3. AbacusType' BY <1>1, <1>2 DEF AbacusType, FlowType, abacusVars
<1>4. cur' \in Nat /\ cur' <= NumRows BY <1>1, <1>2
<1>. QED BY <1>1, <1>3, <1>4, ControlOnly DEF TrialOps

LEMMA StepFlow == FlowType /\ [Next]_vars => FlowType'
<1> SUFFICES ASSUME FlowType, [Next]_vars PROVE FlowType'
  OBVIOUS
<1>1. CASE SwapStep /\ UNCHANGED <<horizontalVars, abacusVars, wl, wlBeforeIteration>>
  <2>1. AbacusType' BY <1>1 DEF FlowType, AbacusType, horizontalVars, abacusVars
  <2>. QED BY <1>1, <2>1, SwapStepFlow DEF FlowType
<1>2. CASE HorizontalStep /\ UNCHANGED <<abacusVars, wl, wlBeforeIteration>>
  BY <1>2, ProcessGroupFlow, NextRowFlow DEF HorizontalStep
<1>3. CASE UNCHANGED vars
  <2>1. UNCHANGED <<gridVars, pos, op, cur, trialVars, horizontalVars, abacusVars>>
    BY <1>3 DEF vars, swapVars
  <2>2. AbacusType' BY <2>1 DEF FlowType, AbacusType, horizontalVars, abacusVars
  <2>3. LooseGrid' /\ Honest'
    BY <2>1, GridStays DEF FlowType, FlowGrid, LooseGrid, PosType
  <2>4. FlowControl' BY <2>1 DEF FlowType, FlowGrid, FlowControl, NoTrial, trialVars
  <2>. QED BY <2>2, <2>3, <2>4 DEF FlowType, FlowGrid
<1>. QED BY <1>1, <1>2, <1>3, LegalityControlFlow, LegalizeCellFlow, UpdateFlow,
     LegalizationFailsFlow, MeasureFlow DEF Next, Done

THEOREM FlowTypeCorrect == Spec => []FlowType
BY InitFlow, StepFlow, PTL DEF Spec

(***************************************************************************)
(* Rows that the search of Abacus never looks at would not have been       *)
(* better: each cell goes to the nearest place that any row within the     *)
(* deviation has for it.                                                   *)
(***************************************************************************)
THEOREM BestRowAlwaysNearest == Spec => []BestRowIsNearest
<1>1. FlowType => BestRowIsNearest
  BY BestRowNearest DEF FlowType, FlowGrid, LooseGrid, AbacusType
<1>. QED BY <1>1, FlowTypeCorrect, PTL

-----------------------------------------------------------------------------
(***************************************************************************)
(* Horizontal search over a legal placement: the cells of a group, and     *)
(* free sites, are all there is between where the group begins and ends.   *)
(***************************************************************************)
\* The row in work, on a grid that is legal
LegalRow ==
  /\ GridType /\ LegalGrid /\ RowIdx \in Rows
  /\ nextColumnIdx \in -1 .. NumCols

\* Where a cell begins, counted along the direction of the search
Lo(c) == IF Direction = "LEFTTORIGHT" THEN cellSiteIdx[c]
         ELSE NumCols - cellSiteIdx[c] - Width(c)

LEMMA LegalIsHonest ==
  ASSUME GridType, LegalGrid
  PROVE  LooseGrid /\ Honest
<1>1. \A k \in Columns : k \in Int BY ConstantTypes
<1>2. \A c \in Cells : cellSiteIdx[c] \in Int BY <1>1 DEF GridType
<1>3. LooseGrid BY <1>2 DEF GridType, LooseGrid, PosType
<1>4. ASSUME NEW r \in Rows, NEW k \in Columns, sites[r][k] # Null
      PROVE  /\ sites[r][k] \in Placeable
             /\ cellRow[sites[r][k]] = r
             /\ Covers(cellSiteIdx[sites[r][k]], sites[r][k], k)
  <2>1. PICK c \in Cells : c = sites[r][k] BY <1>4 DEF GridType
  <2>. QED BY <2>1 DEF LegalGrid, SitesDescribeCells
<1>. QED BY <1>3, <1>4 DEF Honest

LEMMA InOneStretch ==
  ASSUME LegalRow, NEW c \in Placeable, cellRow[c] = RowIdx
  PROVE  /\ Lo(c) \in Nat /\ Width(c) \in Nat \ {0} /\ Lo(c) + Width(c) <= NumCols
         /\ \A d \in Columns : At(d) = c <=> Lo(c) <= d /\ d < Lo(c) + Width(c)
<1>1. c \in Cells /\ Width(c) \in Nat \ {0} /\ NumCols \in Nat BY ConstantTypes
<1>2. cellSiteIdx[c] \in Nat /\ cellSiteIdx[c] + Width(c) <= NumCols
  BY <1>1, ConstantTypes DEF LegalRow, GridType, LegalGrid, InsideGrid, Width
<1>3. Lo(c) \in Nat /\ Lo(c) + Width(c) <= NumCols BY <1>1, <1>2 DEF Lo
<1>4. ASSUME NEW d \in Columns
      PROVE  At(d) = c <=> Lo(c) <= d /\ d < Lo(c) + Width(c)
  <2>1. d \in Nat /\ d < NumCols /\ ColumnAt(d) \in Columns
    BY <1>1, ConstantTypes DEF ColumnAt, Columns
  <2>2. At(d) = c <=> cellSiteIdx[c] <= ColumnAt(d) /\ ColumnAt(d) < cellSiteIdx[c] + Width(c)
    <3>1. PICK k \in Columns : k = ColumnAt(d) BY <2>1, Zenon
    <3>2. sites[RowIdx][k] = c <=> /\ c \in Placeable /\ cellRow[c] = RowIdx
                                   /\ Covers(cellSiteIdx[c], c, k)
      BY <1>1 DEF LegalRow, LegalGrid, SitesDescribeCells
    <3>3. At(d) = sites[RowIdx][k] BY <3>1 DEF At
    <3>. QED BY <3>1, <3>2, <3>3 DEF Width
  <2>. QED BY <1>1, <1>2, <2>1, <2>2 DEF Lo, ColumnAt
<1>. QED BY <1>1, <1>3, <1>4

LEMMA CellAtSite ==
  ASSUME LegalRow, NEW d \in Columns, At(d) # Null
  PROVE  /\ At(d) \in Placeable /\ cellRow[At(d)] = RowIdx
         /\ Lo(At(d)) \in Nat /\ Width(At(d)) \in Nat \ {0}
         /\ Lo(At(d)) + Width(At(d)) <= NumCols
         /\ \A e \in Columns : At(e) = At(d) <=> Lo(At(d)) <= e /\ e < Lo(At(d)) + Width(At(d))
<1>1. LooseGrid /\ Honest BY LegalIsHonest DEF LegalRow
<1>2. PICK c \in Placeable : c = At(d) /\ cellRow[c] = RowIdx BY <1>1, AtCell DEF LegalRow
<1>. QED BY <1>2, InOneStretch

\* No cell at the sites of the group or behind it begins before the group
LEMMA BehindBegin ==
  ASSUME LegalRow, NEW d \in Columns, GroupBegin <= d, At(d) # Null
  PROVE  GroupBegin <= Lo(At(d))
<1>1. NumCols \in Nat \ {0} /\ GroupBegin \in 0 .. NumCols /\ nextColumnIdx \in -1 .. NumCols
  BY ConstantTypes, GroupBeginType DEF LegalRow
<1>2. /\ Lo(At(d)) \in Nat /\ Width(At(d)) \in Nat
      /\ \A e \in Columns : At(e) = At(d) <=> Lo(At(d)) <= e /\ e < Lo(At(d)) + Width(At(d))
  BY CellAtSite
<1>3. CASE nextColumnIdx = -1 BY <1>2, <1>3 DEF GroupBegin
<1>4. CASE nextColumnIdx # -1
  <2> DEFINE first == FirstOf({e \in nextColumnIdx .. NumCols - 1 : At(e) # Null})
             S == {e \in first .. NumCols - 1 : At(e) # At(first)}
  <2>1. GroupBegin = FirstOf(S) BY <1>4 DEF GroupBegin
  <2>2. first \in 0 .. NumCols
    <3>1. nextColumnIdx \in 0 .. NumCols BY <1>1, <1>4
    <3>. QED BY <1>1, <3>1, FirstOfIs
  <2>3. \A e \in Int : first <= e /\ e < NumCols /\ At(e) # At(first) => e \in S
    BY <2>2, <1>1
  <2>4. \A e \in S : first <= e /\ At(e) # At(first) BY <2>2, <1>1
  <2>5. S \subseteq 0 .. NumCols - 1
    <3> HIDE DEF first
    <3>. QED BY <1>1, <2>2
  <2> HIDE DEF first, S
  <2>6. /\ GroupBegin \in S \cup {NumCols} /\ \A e \in S : GroupBegin <= e
    BY <2>1, <2>5, FirstOfIs, Zenon
  <2>7. d \in Nat /\ d < NumCols BY <1>1, ConstantTypes
  <2>8. GroupBegin \in S BY <1>1, <2>6, <2>7
  <2>9. first <= GroupBegin /\ At(GroupBegin) # At(first) BY <2>4, <2>8
  <2>10. \A e \in Int : first <= e /\ e < GroupBegin => At(e) = At(first)
    BY <1>1, <2>2, <2>3, <2>6
  <2>11. first # GroupBegin BY <2>9
  <2>12. GroupBegin - 1 \in Int /\ first <= GroupBegin - 1 /\ GroupBegin - 1 < GroupBegin
    BY <1>1, <2>2, <2>9, <2>11
  <2>13. At(GroupBegin - 1) = At(first) BY <2>10, <2>12
  <2>14. GroupBegin - 1 \in Columns /\ GroupBegin \in Columns
    BY <1>1, <2>2, <2>7, <2>12, ConstantTypes
  <2> SUFFICES ASSUME Lo(At(d)) < GroupBegin PROVE FALSE
    BY <1>1, <1>2
  <2>15. d < Lo(At(d)) + Width(At(d)) BY <1>2
  <2>16. At(GroupBegin - 1) = At(d)
    <3>1. Lo(At(d)) <= GroupBegin - 1 /\ GroupBegin - 1 < Lo(At(d)) + Width(At(d))
      BY <1>1, <1>2, <2>7, <2>15
    <3>. QED BY <1>2, <2>14, <3>1
  <2>17. At(GroupBegin) = At(d)
    <3>1. Lo(At(d)) <= GroupBegin /\ GroupBegin < Lo(At(d)) + Width(At(d))
      BY <1>1, <1>2, <2>7, <2>15
    <3>. QED BY <1>2, <2>14, <3>1
  <2>. QED BY <2>9, <2>13, <2>16, <2>17
<1>. QED BY <1>3, <1>4

\* The starts are the sites where the cells begin
LEMMA StartIsFirst ==
  ASSUME LegalRow, NEW d \in CellStarts
  PROVE  d \in Columns /\ GroupBegin <= d /\ At(d) # Null /\ d = Lo(At(d))
<1>1. NumCols \in Nat \ {0} /\ GroupBegin \in 0 .. NumCols
  BY ConstantTypes, GroupBeginType DEF LegalRow
<1>2. /\ d \in GroupBegin .. NumCols - 1 /\ At(d) # Null
      /\ \A e \in GroupBegin .. d - 1 :
            At(e) = At(d) => \E m \in e + 1 .. d - 1 : At(m) \notin {Null, At(d)}
  BY DEF CellStarts
<1>3. d \in Columns /\ GroupBegin <= d BY <1>1, <1>2, ConstantTypes
<1> DEFINE lo == Lo(At(d))
<1>4. /\ lo \in Nat /\ Width(At(d)) \in Nat
      /\ \A e \in Columns : At(e) = At(d) <=> lo <= e /\ e < lo + Width(At(d))
  BY <1>2, <1>3, CellAtSite
<1>5. GroupBegin <= lo BY <1>2, <1>3, BehindBegin
<1> HIDE DEF lo
<1>6. lo <= d /\ d < lo + Width(At(d)) BY <1>3, <1>4
<1>7. ASSUME lo < d PROVE FALSE
  <2>1. lo \in GroupBegin .. d - 1 /\ lo \in Columns
    BY <1>1, <1>2, <1>4, <1>5, <1>7, ConstantTypes
  <2>2. At(lo) = At(d) BY <1>1, <1>2, <1>4, <1>6, <1>7, <2>1
  <2>3. PICK m \in lo + 1 .. d - 1 : At(m) # At(d) BY <1>2, <2>1, <2>2
  <2>4. m \in Columns /\ lo <= m /\ m < lo + Width(At(d))
    BY <1>1, <1>2, <1>4, <1>6, ConstantTypes
  <2>. QED BY <1>4, <2>3, <2>4
<1>8. d = lo BY <1>1, <1>2, <1>4, <1>6, <1>7
<1>. QED BY <1>2, <1>3, <1>8 DEF lo

LEMMA FirstIsStart ==
  ASSUME LegalRow, NEW d \in Columns, GroupBegin <= d, At(d) # Null
  PROVE  Lo(At(d)) \in CellStarts /\ At(Lo(At(d))) = At(d)
<1>1. NumCols \in Nat \ {0} /\ GroupBegin \in 0 .. NumCols /\ d \in Nat /\ d < NumCols
  BY ConstantTypes, GroupBeginType DEF LegalRow
<1> DEFINE lo == Lo(At(d))
<1>2. /\ lo \in Nat /\ Width(At(d)) \in Nat \ {0}
      /\ \A e \in Columns : At(e) = At(d) <=> lo <= e /\ e < lo + Width(At(d))
  BY CellAtSite
<1>3. GroupBegin <= lo BY BehindBegin
<1> HIDE DEF lo
<1>4. lo <= d BY <1>2
<1>5. lo \in Columns /\ lo \in GroupBegin .. NumCols - 1
  BY <1>1, <1>2, <1>3, <1>4, ConstantTypes
<1>6. At(lo) = At(d) BY <1>2, <1>5
<1>7. ASSUME NEW e \in GroupBegin .. lo - 1 PROVE At(e) # At(lo)
  <2>1. e \in Columns /\ ~ (lo <= e) BY <1>1, <1>2, <1>4, ConstantTypes
  <2>. QED BY <1>2, <1>6, <2>1
<1>8. lo \in CellStarts BY <1>5, <1>6, <1>7 DEF CellStarts
<1>. QED BY <1>6, <1>8 DEF lo

LEMMA GroupFilled ==
  ASSUME LegalRow, NEW starts \in NextGroup
  PROVE  /\ GroupEnd(starts) \in 0 .. NumCols /\ GroupBegin \in 0 .. NumCols
         /\ GroupBegin < GroupEnd(starts)
         /\ \A d \in GroupBegin .. GroupEnd(starts) - 1 :
               At(d) # Null => \E n \in 1 .. HorizontalGroupSize : At(d) = At(starts[n])
         /\ \A n \in 1 .. HorizontalGroupSize :
               /\ At(starts[n]) \in Placeable /\ cellRow[At(starts[n])] = RowIdx
               /\ starts[n] = Lo(At(starts[n]))
               /\ GroupBegin <= starts[n]
               /\ starts[n] + Width(At(starts[n])) <= GroupEnd(starts)
         /\ \A m, n \in 1 .. HorizontalGroupSize : At(starts[m]) = At(starts[n]) => m = n
<1> DEFINE H == HorizontalGroupSize
           E == GroupEnd(starts)
<1>1. /\ H \in Nat \ {0, 1} /\ DOMAIN starts = 1 .. H
      /\ GroupEnd(starts) \in 0 .. NumCols
  <2>1. LooseGrid /\ Honest BY LegalIsHonest DEF LegalRow
  <2>. QED BY <2>1, GroupIs DEF LegalRow
<1>2. NumCols \in Nat \ {0} /\ GroupBegin \in 0 .. NumCols
  BY ConstantTypes, GroupBeginType DEF LegalRow
<1>3. /\ \A n \in 1 .. H : starts[n] \in CellStarts
      /\ \A m, n \in 1 .. H : m < n => starts[m] < starts[n]
      /\ \A d \in CellStarts : d <= starts[H] => \E n \in 1 .. H : d = starts[n]
  BY <1>1 DEF NextGroup
<1>4. \A n \in 1 .. H : /\ starts[n] \in Columns /\ GroupBegin <= starts[n]
                        /\ At(starts[n]) # Null /\ starts[n] = Lo(At(starts[n]))
  BY <1>3, StartIsFirst
<1> DEFINE final == starts[H]
           last_ == At(final)
           S == {d \in final .. NumCols - 1 : At(d) # At(final)}
           border == FirstOf(S)
           N == {d \in border .. NumCols - 1 : At(d) # Null}
<1>5. /\ final \in Columns /\ final \in Nat /\ final < NumCols /\ At(final) # Null
      /\ final = Lo(At(final)) /\ GroupBegin <= final /\ \A n \in 1 .. H : starts[n] <= final
  <2>1. H \in 1 .. H BY <1>1
  <2>2. \A n \in 1 .. H : starts[n] \in Nat BY <1>4, ConstantTypes
  <2>3. final \in Columns /\ At(final) # Null /\ final = Lo(At(final)) /\ GroupBegin <= final
    BY <1>4, <2>1
  <2>4. \A n \in 1 .. H : n = H \/ n < H BY <1>1
  <2>. QED BY <1>2, <1>3, <2>1, <2>2, <2>3, <2>4, ConstantTypes
<1>6. GroupEnd(starts) = FirstOf(N) BY DEF GroupEnd
<1> HIDE DEF final
<1>7. /\ At(final) \in Placeable /\ Width(At(final)) \in Nat \ {0}
      /\ final + Width(At(final)) <= NumCols
      /\ \A e \in Columns : At(e) = At(final) <=> final <= e /\ e < final + Width(At(final))
  BY <1>5, CellAtSite
<1>8. S \subseteq 0 .. NumCols - 1 BY <1>2, <1>5
<1>9. border = final + Width(At(final))
  <2>1. border \in S \cup {NumCols} /\ \A d \in S : border <= d BY <1>8, FirstOfIs
  <2> DEFINE hi == final + Width(At(final))
  <2>2. hi \in Nat /\ hi <= NumCols /\ final < hi BY <1>5, <1>7
  <2>3. hi < NumCols => hi \in S
    <3> SUFFICES ASSUME hi < NumCols PROVE hi \in S OBVIOUS
    <3>1. hi \in Columns BY <2>2, <1>2, ConstantTypes
    <3>2. At(hi) # At(final) BY <1>7, <2>2, <3>1
    <3>. QED BY <1>2, <1>5, <2>2, <3>2
  <2>4. \A d \in S : d \in Nat /\ hi <= d /\ d < NumCols
    <3> SUFFICES ASSUME NEW d \in S PROVE d \in Nat /\ hi <= d /\ d < NumCols
      OBVIOUS
    <3>1. d \in Nat /\ d < NumCols /\ final <= d /\ At(d) # At(final) BY <1>2, <1>5
    <3>2. d \in Columns BY <1>2, <3>1, ConstantTypes
    <3> HIDE DEF S, hi
    <3>3. ~ (final <= d /\ d < hi) BY <1>7, <3>1, <3>2 DEF hi
    <3>. QED BY <2>2, <3>1, <3>3
  <2> HIDE DEF S, border, hi
  <2>5. border = hi BY <1>2, <2>1, <2>2, <2>3, <2>4
  <2>. QED BY <2>5 DEF hi
<1> DEFINE hi == final + Width(At(final))
<1>10. hi \in Nat /\ hi <= NumCols /\ final < hi BY <1>5, <1>7
<1>11. N = {d \in hi .. NumCols - 1 : At(d) # Null} BY <1>9
<1> HIDE DEF N, border, S
<1>12. /\ E \in N \cup {NumCols} /\ E \in 0 .. NumCols /\ \A d \in N : E <= d
  <2>1. N \subseteq 0 .. NumCols - 1 BY <1>2, <1>10, <1>11
  <2>2. /\ FirstOf(N) \in N \cup {NumCols} /\ FirstOf(N) \in 0 .. NumCols
        /\ \A d \in N : FirstOf(N) <= d
    <3> HIDE DEF E, hi
    <3>. QED BY <2>1, FirstOfIs, Zenon
  <2>3. E = FirstOf(N) BY <1>6 DEF E
  <2> HIDE DEF E
  <2>. QED BY <2>2, <2>3
<1> HIDE DEF E
<1>13. hi <= E
  <2>1. \A d \in N : hi <= d BY <1>10, <1>2, <1>11
  <2>. QED BY <1>10, <1>12, <2>1
<1>14. \A d \in Int : hi <= d /\ d < E => At(d) = Null
  <2> SUFFICES ASSUME NEW d \in Int, hi <= d, d < E, At(d) # Null PROVE FALSE
    OBVIOUS
  <2>1. d \in N BY <1>2, <1>10, <1>11, <1>12
  <2>. QED BY <1>12, <2>1
<1>15. ASSUME NEW d \in GroupBegin .. E - 1, At(d) # Null
       PROVE  \E n \in 1 .. H : At(d) = At(starts[n])
  <2>1. d \in Int /\ d \in Columns /\ GroupBegin <= d /\ d < E
    BY <1>2, <1>12, ConstantTypes
  <2>2. d < hi BY <1>10, <1>14, <1>15, <2>1
  <2>3. H \in 1 .. H BY <1>1
  <2>4. CASE final <= d
    <3>1. At(d) = At(final) BY <1>7, <2>1, <2>2, <2>4 DEF hi
    <3>. QED BY <2>3, <3>1 DEF final
  <2>5. CASE d < final
    <3>1. Lo(At(d)) \in CellStarts /\ At(Lo(At(d))) = At(d) BY <1>15, <2>1, FirstIsStart
    <3>2. Lo(At(d)) \in Nat /\ Lo(At(d)) <= d BY <1>15, <2>1, CellAtSite
    <3>3. Lo(At(d)) <= starts[H] BY <1>5, <2>1, <2>5, <3>2 DEF final
    <3>4. PICK n \in 1 .. H : Lo(At(d)) = starts[n] BY <1>3, <3>1, <3>3
    <3>. QED BY <3>1, <3>4
  <2>. QED BY <1>5, <2>1, <2>4, <2>5
<1>16. ASSUME NEW n \in 1 .. H
       PROVE  /\ At(starts[n]) \in Placeable /\ cellRow[At(starts[n])] = RowIdx
              /\ starts[n] = Lo(At(starts[n]))
              /\ GroupBegin <= starts[n]
              /\ starts[n] + Width(At(starts[n])) <= E
  <2> DEFINE c == At(starts[n])
  <2>1. starts[n] \in Columns /\ c # Null /\ starts[n] = Lo(c) /\ GroupBegin <= starts[n]
    BY <1>4
  <2>2. /\ c \in Placeable /\ cellRow[c] = RowIdx
        /\ Lo(c) \in Nat /\ Width(c) \in Nat \ {0} /\ Lo(c) + Width(c) <= NumCols
        /\ \A e \in Columns : At(e) = c <=> Lo(c) <= e /\ e < Lo(c) + Width(c)
    BY <2>1, CellAtSite
  <2>3. Lo(c) <= final BY <1>5, <2>1
  <2>4. Lo(c) + Width(c) <= hi
    <3> HIDE DEF c, hi
    <3> SUFFICES ASSUME hi < Lo(c) + Width(c) PROVE FALSE BY <1>10, <2>2
    <3>1. At(final) = c
      <4>1. final < Lo(c) + Width(c) BY <1>5, <1>10, <2>2
      <4>. QED BY <1>5, <2>2, <2>3, <4>1
    <3>2. hi < NumCols BY <1>2, <1>10, <2>2
    <3>3. hi \in Columns BY <1>2, <1>10, <3>2, ConstantTypes
    <3>4. At(hi) = c BY <1>5, <1>10, <2>2, <2>3, <3>3
    <3>. QED BY <1>7, <1>10, <3>1, <3>3, <3>4 DEF hi
  <2>5. starts[n] + Width(c) <= E
    <3> HIDE DEF c, hi
    <3>. QED BY <1>10, <1>12, <1>13, <2>1, <2>2, <2>4
  <2>. QED BY <2>1, <2>2, <2>5
<1>17. ASSUME NEW m \in 1 .. H, NEW n \in 1 .. H, At(starts[m]) = At(starts[n])
       PROVE  m = n
  <2>1. starts[m] = starts[n] BY <1>16, <1>17
  <2>2. \A k \in 1 .. H : starts[k] \in Nat BY <1>4, ConstantTypes
  <2>3. m \in Nat /\ n \in Nat BY <1>1
  <2>. QED BY <1>3, <2>1, <2>2, <2>3
<1>18. GroupBegin < E BY <1>2, <1>5, <1>10, <1>12, <1>13
<1>. QED BY <1>2, <1>12, <1>15, <1>16, <1>17, <1>18 DEF E

\* The sites of a group, by their columns
LEMMA GroupColumns ==
  ASSUME LegalRow, NEW starts \in NextGroup
  PROVE  /\ LeftSiteIdx(starts) \in Nat /\ NumSites(starts) \in Nat
         /\ LeftSiteIdx(starts) + NumSites(starts) <= NumCols
         /\ \A k \in Columns :
               /\ LeftSiteIdx(starts) <= k /\ k < LeftSiteIdx(starts) + NumSites(starts)
               /\ sites[RowIdx][k] # Null
               => \E n \in 1 .. HorizontalGroupSize : sites[RowIdx][k] = At(starts[n])
<1> DEFINE B == GroupBegin
           E == GroupEnd(starts)
           L == LeftSiteIdx(starts)
<1>1. /\ E \in 0 .. NumCols /\ B \in 0 .. NumCols /\ B < E
      /\ \A d \in B .. E - 1 :
            At(d) # Null => \E n \in 1 .. HorizontalGroupSize : At(d) = At(starts[n])
  BY GroupFilled
<1>2. NumCols \in Nat BY ConstantTypes
<1>3. L = IF Direction = "LEFTTORIGHT" THEN B ELSE ColumnAt(E - 1) BY DEF LeftSiteIdx
<1>4. NumSites(starts) = E - B BY DEF NumSites
<1> HIDE DEF B, E, L
<1>5. L = IF Direction = "LEFTTORIGHT" THEN B ELSE NumCols - E
  BY <1>1, <1>2, <1>3 DEF ColumnAt
<1>6. L \in Nat /\ E - B \in Nat /\ L + (E - B) <= NumCols BY <1>1, <1>2, <1>5
<1>7. ASSUME NEW k \in Columns, L <= k, k < L + (E - B), sites[RowIdx][k] # Null
      PROVE  \E n \in 1 .. HorizontalGroupSize : sites[RowIdx][k] = At(starts[n])
  <2>1. PICK d : d = IF Direction = "LEFTTORIGHT" THEN k ELSE NumCols - 1 - k OBVIOUS
  <2>2. k \in Nat /\ k < NumCols BY <1>2, ConstantTypes
  <2>3. d \in B .. E - 1 /\ ColumnAt(d) = k
    BY <1>1, <1>2, <1>5, <1>7, <2>1, <2>2 DEF ColumnAt
  <2>4. At(d) = sites[RowIdx][k] BY <2>3 DEF At
  <2>. QED BY <1>1, <1>7, <2>3, <2>4
<1>. QED BY <1>4, <1>6, <1>7 DEF L

\* The cells of a group and the free sites it has do not need more sites than
\* there are, in whatever order the cells are
LEMMA GroupWidth ==
  ASSUME LegalRow, NEW starts \in NextGroup, NEW L \in Nat, NEW cells \in [1 .. L -> Placeable],
         \A m, n \in 1 .. L : cells[m] = cells[n] => m = n,
         \A m \in 1 .. L : \E n \in 1 .. HorizontalGroupSize : cells[m] = At(starts[n])
  PROVE  WidthUpTo(cells)[L] + NumEmpty(starts) <= NumSites(starts)
<1> DEFINE B == GroupBegin
           E == GroupEnd(starts)
           P(n) == {d \in B .. E - 1 : \E m \in 1 .. n : At(d) = cells[m]}
           Free == {d \in B .. E - 1 : At(d) = Null}
           W == WidthUpTo(cells)
<1>1. /\ E \in 0 .. NumCols /\ B \in 0 .. NumCols /\ B < E
      /\ \A n \in 1 .. HorizontalGroupSize :
               /\ At(starts[n]) \in Placeable /\ cellRow[At(starts[n])] = RowIdx
               /\ starts[n] = Lo(At(starts[n]))
               /\ B <= starts[n]
               /\ starts[n] + Width(At(starts[n])) <= E
  BY GroupFilled
<1>2. NumCols \in Nat BY ConstantTypes
<1>3. NumEmpty(starts) = Cardinality(Free) /\ NumSites(starts) = E - B BY DEF NumEmpty, NumSites
<1>4. /\ \A n \in 0 .. L : W[n] \in Nat
      /\ W[0] = 0
      /\ \A n \in 1 .. L : W[n] = W[n - 1] + Width(cells[n])
  <2>1. cells \in [1 .. L -> Cells] BY ConstantTypes
  <2>2. cells \in Seq(Cells) /\ Len(cells) = L BY <2>1
  <2>. QED BY <2>2, WidthSteps, Zenon DEF Width
<1> HIDE DEF B, E, W
<1>5. IsFiniteSet(B .. E - 1) /\ Cardinality(B .. E - 1) = E - B
  <2>1. E - 1 \in Int /\ B \in Int BY <1>1, <1>2
  <2>. QED BY <1>1, <1>2, <2>1, FS_Interval
<1>6. \A n : IsFiniteSet(P(n)) /\ Cardinality(P(n)) \in Nat
  <2> TAKE n
  <2>1. P(n) \in SUBSET (B .. E - 1) OBVIOUS
  <2> HIDE DEF P
  <2>. QED BY <1>5, <2>1, FS_Subset, FS_CardinalityType, Zenon
<1>7. IsFiniteSet(Free) /\ Cardinality(Free) \in Nat
  <2>1. Free \in SUBSET (B .. E - 1) OBVIOUS
  <2> HIDE DEF Free
  <2>. QED BY <1>5, <2>1, FS_Subset, FS_CardinalityType, Zenon
<1> DEFINE K == {n \in 0 .. L : Cardinality(P(n)) = W[n]}
<1>8. 0 \in K
  <2>1. P(0) = {} OBVIOUS
  <2>2. Cardinality(P(0)) = 0
    <3> HIDE DEF P
    <3>. QED BY <2>1, FS_EmptySet, Zenon
  <2> HIDE DEF P
  <2>3. 0 \in 0 .. L OBVIOUS
  <2>. QED BY <1>4, <2>2, <2>3
<1>9. ASSUME NEW k \in 0 .. L, k \in K, k + 1 \in 0 .. L PROVE k + 1 \in K
  <2>1. k + 1 \in 1 .. L /\ (k + 1) - 1 = k /\ k \in Nat BY <1>9
  <2>2. PICK c \in Placeable : c = cells[k + 1] BY <2>1
  <2>3. PICK n \in 1 .. HorizontalGroupSize : c = At(starts[n]) BY <2>1, <2>2
  <2>4. /\ cellRow[c] = RowIdx /\ B <= Lo(c) /\ Lo(c) + Width(c) <= E
    BY <1>1, <2>3
  <2>5. /\ Lo(c) \in Nat /\ Width(c) \in Nat \ {0} /\ Lo(c) + Width(c) <= NumCols
        /\ \A d \in Columns : At(d) = c <=> Lo(c) <= d /\ d < Lo(c) + Width(c)
    BY <2>4, InOneStretch
  <2> DEFINE Q == Lo(c) .. Lo(c) + Width(c) - 1
  <2>6. IsFiniteSet(Q) /\ Cardinality(Q) = Width(c)
    <3>1. PICK lo \in Nat, w \in Nat \ {0} : lo = Lo(c) /\ w = Width(c) BY <2>5
    <3>2. PICK hi \in Int : hi = lo + w - 1 OBVIOUS
    <3>3. /\ IsFiniteSet(lo .. hi)
          /\ Cardinality(lo .. hi) = IF lo > hi THEN 0 ELSE hi - lo + 1
      BY FS_Interval
    <3>4. (IF lo > hi THEN 0 ELSE hi - lo + 1) = w BY <3>2
    <3>5. Q = lo .. hi BY <3>1, <3>2
    <3>. QED BY <3>1, <3>3, <3>4, <3>5
  <2>7. \A d \in B .. E - 1 : At(d) = c <=> d \in Q
    <3> TAKE d \in B .. E - 1
    <3>1. d \in Columns /\ d \in Int BY <1>1, <1>2, ConstantTypes
    <3>. QED BY <2>5, <3>1
  <2>8. Q \subseteq B .. E - 1 BY <1>1, <1>2, <2>4, <2>5
  <2> HIDE DEF Q
  <2>9. P(k + 1) = P(k) \cup Q
    <3>1. \A m : m \in 1 .. k + 1 <=> m \in 1 .. k \/ m = k + 1 BY <2>1
    <3>2. ASSUME NEW d \in B .. E - 1 PROVE d \in P(k + 1) <=> d \in P(k) \/ d \in Q
      BY <2>2, <2>7, <3>1, <3>2
    <3>3. P(k + 1) \subseteq B .. E - 1 /\ P(k) \subseteq B .. E - 1 OBVIOUS
    <3> HIDE DEF P
    <3>. QED BY <2>8, <3>2, <3>3, Zenon
  <2>10. P(k) \cap Q = {}
    <3> SUFFICES ASSUME NEW d \in P(k), d \in Q PROVE FALSE OBVIOUS
    <3>1. At(d) = c BY <2>7
    <3>2. PICK m \in 1 .. k : At(d) = cells[m] OBVIOUS
    <3>3. m \in 1 .. L /\ m # k + 1 BY <2>1
    <3>. QED BY <2>1, <2>2, <3>1, <3>2, <3>3, Zenon
  <2>11. Cardinality(P(k + 1)) = Cardinality(P(k)) + Width(c)
    <3> HIDE DEF P
    <3>1. Cardinality(P(k) \cup Q) = Cardinality(P(k)) + Cardinality(Q) - Cardinality(P(k) \cap Q)
      BY <1>6, <2>6, FS_Union
    <3>2. Cardinality(P(k) \cap Q) = 0 BY <2>10, FS_EmptySet, Zenon
    <3>3. PICK a \in Nat : a = Cardinality(P(k)) BY <1>6
    <3>4. PICK w \in Nat : w = Width(c) BY <2>5
    <3>5. Cardinality(P(k) \cup Q) = a + w BY <2>6, <3>1, <3>2, <3>3, <3>4
    <3>. QED BY <2>9, <3>3, <3>4, <3>5, Zenon
  <2>12. Cardinality(P(k)) = W[k] BY <1>9
  <2> HIDE DEF P
  <2>. QED BY <1>4, <1>9, <2>1, <2>2, <2>11, <2>12
<1> HIDE DEF K
<1>10. L \in K
  <2>1. 0 .. L \subseteq K BY <1>8, <1>9, Climb, Zenon
  <2>2. L \in 0 .. L OBVIOUS
  <2>. QED BY <2>1, <2>2
<1>11. Cardinality(P(L)) = W[L] BY <1>10 DEF K
<1>12. P(L) \cap Free = {}
  <2> SUFFICES ASSUME NEW d \in P(L), d \in Free PROVE FALSE OBVIOUS
  <2>1. PICK m \in 1 .. L : Null = cells[m] OBVIOUS
  <2>. QED BY <2>1, ConstantTypes
<1>13. P(L) \cup Free \in SUBSET (B .. E - 1) OBVIOUS
<1> HIDE DEF P, Free
<1>14. Cardinality(P(L) \cup Free) = W[L] + Cardinality(Free)
  <2>1. Cardinality(P(L) \cup Free) = Cardinality(P(L)) + Cardinality(Free) - Cardinality(P(L) \cap Free)
    BY <1>6, <1>7, FS_Union
  <2>2. Cardinality(P(L) \cap Free) = 0 BY <1>12, FS_EmptySet, Zenon
  <2>3. L \in 0 .. L OBVIOUS
  <2>. QED BY <1>4, <1>7, <1>11, <2>1, <2>2, <2>3
<1>15. Cardinality(P(L) \cup Free) <= E - B
  <2>1. PICK U : U = P(L) \cup Free BY Zenon
  <2>2. PICK V : V = B .. E - 1 OBVIOUS
  <2>3. IsFiniteSet(V) /\ Cardinality(V) = E - B /\ U \in SUBSET V BY <1>5, <1>13, <2>1, <2>2
  <2>4. Cardinality(U) <= Cardinality(V) BY <2>3, FS_Subset
  <2>. QED BY <2>1, <2>3, <2>4
<1>. QED BY <1>3, <1>14, <1>15 DEF W

\* The more cells, the wider they are together
LEMMA WidthMonotone ==
  ASSUME NEW cells \in Seq(Cells), NEW m \in 0 .. Len(cells), NEW n \in 0 .. Len(cells), m <= n
  PROVE  WidthUpTo(cells)[m] <= WidthUpTo(cells)[n]
<1> DEFINE L == Len(cells)
           W == WidthUpTo(cells)
           K == {k \in 0 .. L : m <= k => W[m] <= W[k]}
<1>1. L \in Nat OBVIOUS
<1>2. /\ \A k \in 0 .. L : W[k] \in Nat
      /\ \A k \in 1 .. L : W[k] = W[k - 1] + CellSitesNum[cells[k]]
  BY WidthSteps
<1>3. \A k \in 1 .. L : CellSitesNum[cells[k]] \in Nat BY ConstantTypes DEF Width
<1> HIDE DEF L, W
<1>4. m \in 0 .. L /\ n \in 0 .. L BY DEF L
<1>5. 0 \in K
  <2>1. 0 \in 0 .. L /\ (m <= 0 => m = 0) BY <1>1, <1>4
  <2>. QED BY <1>2, <2>1
<1>6. ASSUME NEW k \in 0 .. L, k \in K, k + 1 \in 0 .. L PROVE k + 1 \in K
  <2>1. k + 1 \in 1 .. L /\ (k + 1) - 1 = k BY <1>6
  <2>2. PICK a \in Nat, b \in Nat : a = W[k] /\ b = CellSitesNum[cells[k + 1]]
    BY <1>2, <1>3, <2>1, Zenon
  <2>3. W[k + 1] = a + b BY <1>2, <2>1, <2>2, Zenon
  <2>4. PICK c \in Nat : c = W[m] BY <1>2, <1>4
  <2>5. m <= k + 1 => m <= k \/ m = k + 1 BY <1>4, <2>1
  <2>. QED BY <1>6, <2>2, <2>3, <2>4, <2>5
<1> HIDE DEF K
<1>7. 0 .. L \subseteq K BY <1>1, <1>5, <1>6, Climb, Zenon
<1>8. n \in K BY <1>4, <1>7
<1>. QED BY <1>8 DEF K, W

\* A group implemented in some order, with free sites before its cells that
\* only become more, can be put
LEMMA ImplementCanBePut ==
  ASSUME LegalRow, NEW starts \in NextGroup,
         NEW cells \in Permutation(ConsideredGroupOfCells(starts)), NEW F, NEW g,
         Implements(g, HorizontalGroupSize, LeftSiteIdx(starts), cells, F),
         \A n \in 1 .. HorizontalGroupSize : F[n] \in Nat,
         \A m, n \in 1 .. HorizontalGroupSize : m <= n => F[m] <= F[n],
         WidthUpTo(cells)[HorizontalGroupSize] + F[HorizontalGroupSize] <= NumSites(starts)
  PROVE  CanBePut(g)
<1> DEFINE H == HorizontalGroupSize
           left == LeftSiteIdx(starts)
           W == WidthUpTo(cells)
           considered == ConsideredGroupOfCells(starts)
<1>1. H \in Nat \ {0, 1} /\ DOMAIN starts = 1 .. H /\ considered \in [1 .. H -> Placeable]
  <2>1. LooseGrid /\ Honest BY LegalIsHonest DEF LegalRow
  <2>2. /\ H \in Nat \ {0, 1} /\ DOMAIN starts = 1 .. H
        /\ \A n \in 1 .. H : At(starts[n]) \in Placeable
    BY <2>1, GroupIs DEF LegalRow
  <2>. QED BY <2>2 DEF ConsideredGroupOfCells
<1>2. \A n \in 1 .. H : considered[n] = At(starts[n]) BY <1>1 DEF ConsideredGroupOfCells
<1> HIDE DEF considered, H, W
<1>3. /\ cells \in [1 .. H -> Placeable] /\ cells \in Seq(Cells) /\ Len(cells) = H
      /\ \E f : ReorderedBy(f, cells, considered, H)
  <2>1. PICK L \in Nat : L = H BY <1>1
  <2>2. PICK order \in [1 .. L -> Placeable] : order = considered BY <1>1, <2>1
  <2>3. cells \in Permutation(order) BY <2>2 DEF considered
  <2>4. /\ cells \in [1 .. L -> Placeable] /\ cells \in Seq(Cells) /\ Len(cells) = L
        /\ \E f : ReorderedBy(f, cells, order, L)
    BY <2>3, PermutationIs
  <2>. QED BY <2>1, <2>2, <2>4
<1>4. PICK f \in [1 .. H -> 1 .. H] :
            /\ \A n \in 1 .. H : cells[n] = considered[f[n]]
            /\ \A m, n \in 1 .. H : f[m] = f[n] => m = n
            /\ \A m \in 1 .. H : \E n \in 1 .. H : f[n] = m
  BY <1>3, Zenon DEF ReorderedBy
<1>5. /\ left \in Nat /\ NumSites(starts) \in Nat /\ left + NumSites(starts) <= NumCols
      /\ \A k \in Columns :
            /\ left <= k /\ k < left + NumSites(starts) /\ sites[RowIdx][k] # Null
            => \E n \in 1 .. H : sites[RowIdx][k] = At(starts[n])
  BY GroupColumns DEF H
<1>6. /\ \A m \in 1 .. H : cellRow[At(starts[m])] = RowIdx
      /\ \A m, n \in 1 .. H : At(starts[m]) = At(starts[n]) => m = n
  BY GroupFilled DEF H
<1>19. \A n \in 1 .. H : f[n] \in 1 .. H /\ cells[n] = At(starts[f[n]])
  <2> TAKE n \in 1 .. H
  <2>1. f[n] \in 1 .. H OBVIOUS
  <2>. QED BY <1>2, <1>4, <2>1, Zenon
<1>7. \A n \in 1 .. H : cells[n] \in Placeable /\ cells[n] \in Cells /\ cellRow[cells[n]] = RowIdx
  <2> TAKE n \in 1 .. H
  <2>1. cells[n] \in Placeable BY <1>3
  <2>. QED BY <1>6, <1>19, <2>1, ConstantTypes
<1>8. \A m, n \in 1 .. H : cells[m] = cells[n] => m = n
  <2> SUFFICES ASSUME NEW m \in 1 .. H, NEW n \in 1 .. H, cells[m] = cells[n] PROVE m = n
    OBVIOUS
  <2>1. PICK a \in 1 .. H, b \in 1 .. H : a = f[m] /\ b = f[n] BY <1>4, Zenon
  <2>2. At(starts[a]) = At(starts[b]) BY <1>19, <2>1
  <2>. QED BY <1>4, <1>6, <2>1, <2>2, Zenon
<1> HIDE DEF left
<1>9. /\ g = [n \in 1 .. H |-> [cell |-> cells[n], row |-> cellRow[cells[n]],
                                column |-> left + W[n - 1] + F[n]]]
  BY DEF Implements, H, left, W
<1>10. /\ \A n \in 1 .. H : F[n] \in Nat
       /\ \A m, n \in 1 .. H : m <= n => F[m] <= F[n]
       /\ W[H] + F[H] <= NumSites(starts)
  BY DEF H, W
<1>11. /\ \A n \in 0 .. H : W[n] \in Nat
       /\ \A n \in 1 .. H : W[n] = W[n - 1] + Width(cells[n])
       /\ \A m, n \in 0 .. H : m <= n => W[m] <= W[n]
  BY <1>3, WidthSteps, WidthMonotone, Zenon DEF W, Width
<1>12. NumCols \in Nat BY ConstantTypes
\* Where a cell begins and ends
<1>13. ASSUME NEW n \in 1 .. H
       PROVE  /\ g[n].cell = cells[n] /\ g[n].row = RowIdx
              /\ g[n].column \in Nat /\ left <= g[n].column
              /\ g[n].column = left + W[n - 1] + F[n]
              /\ g[n].column + Width(cells[n]) = left + W[n] + F[n]
              /\ g[n].column + Width(cells[n]) <= left + NumSites(starts)
  <2>1. g[n].cell = cells[n] /\ g[n].row = RowIdx /\ g[n].column = left + W[n - 1] + F[n]
    BY <1>7, <1>9
  <2>2. n - 1 \in 0 .. H /\ n \in 0 .. H /\ H \in 0 .. H /\ H \in 1 .. H /\ n <= H BY <1>1
  <2>3. PICK a \in Nat, b \in Nat, w \in Nat, e \in Nat, h \in Nat, fh \in Nat :
           /\ a = W[n - 1] /\ b = F[n] /\ w = Width(cells[n]) /\ e = W[n]
           /\ h = W[H] /\ fh = F[H]
    BY <1>7, <1>10, <1>11, <2>2, ConstantTypes, Zenon
  <2>4. e = a + w /\ e <= h /\ b <= fh /\ h + fh <= NumSites(starts)
    BY <1>10, <1>11, <2>2, <2>3
  <2>5. PICK s \in Nat : s = NumSites(starts) BY <1>5
  <2>6. g[n].column = left + a + b BY <2>1, <2>3
  <2>7. left + a + b + w = left + e + b
    <3>1. PICK l \in Nat : l = left BY <1>5
    <3>2. e = a + w BY <2>4
    <3>. QED BY <3>1, <3>2
  <2>8. left + e + b <= left + s BY <1>5, <2>4, <2>5
  <2>9. left + a + b \in Nat /\ left <= left + a + b BY <1>5
  <2>. QED BY <2>1, <2>3, <2>5, <2>6, <2>7, <2>8, <2>9
<1>14. ASSUME NEW n \in 1 .. H
       PROVE  g[n] \in Places /\ PlaceIsOpen(g, g[n])
  <2>1. PICK k \in Nat : k = g[n].column BY <1>13
  <2>2. PICK w \in Nat \ {0} : w = Width(cells[n]) BY <1>7, ConstantTypes
  <2>3. left <= k /\ k + w <= left + NumSites(starts) BY <1>13, <2>1, <2>2
  <2>4. k + w <= NumCols BY <1>5, <1>12, <2>3
  <2>5. k \in Columns BY <1>12, <2>4, ConstantTypes
  <2>6. g[n] = [cell |-> cells[n], row |-> RowIdx, column |-> k]
    BY <1>7, <1>9, <1>13, <2>1
  <2>7. g[n] \in Places BY <1>7, <2>5, <2>6 DEF Places, LegalRow
  <2>8. ASSUME NEW j \in Columns, Covers(k, cells[n], j)
        PROVE  sites[RowIdx][j] \in InGroup(g) \cup {Null}
    <3>1. left <= j /\ j < left + NumSites(starts)
      BY <1>5, <2>2, <2>3, <2>8, ConstantTypes DEF Width
    <3>2. CASE sites[RowIdx][j] # Null
      <4>1. PICK m \in 1 .. H : sites[RowIdx][j] = At(starts[m]) BY <1>5, <3>1, <3>2
      <4>2. PICK l \in 1 .. H : f[l] = m BY <1>4
      <4>3. sites[RowIdx][j] = cells[l] BY <1>2, <1>4, <4>1, <4>2, Zenon
      <4>. QED BY <1>9, <1>13, <4>3
    <3>. QED BY <3>2
  <2>. QED BY <1>7, <2>2, <2>4, <2>6, <2>7, <2>8 DEF PlaceIsOpen
<1>15. ASSUME NEW m \in 1 .. H, NEW n \in 1 .. H, m < n PROVE Disjoint(g[m], g[n])
  <2>1. m \in 0 .. H /\ n - 1 \in 0 .. H /\ m <= n - 1 /\ m <= n BY <1>1, <1>15
  <2>2. PICK wm \in Nat, wn \in Nat, fm \in Nat, fn \in Nat :
          wm = W[m] /\ wn = W[n - 1] /\ fm = F[m] /\ fn = F[n]
    BY <1>10, <1>11, <2>1, Zenon
  <2>3. wm <= wn /\ fm <= fn BY <1>10, <1>11, <2>1, <2>2
  <2>4. g[m].column + Width(g[m].cell) <= g[n].column
    <3>1. g[m].column + Width(g[m].cell) = left + wm + fm BY <1>13, <2>2
    <3>2. g[n].column = left + wn + fn BY <1>13, <2>2
    <3>. QED BY <1>5, <2>3, <3>1, <3>2
  <2>. QED BY <2>4 DEF Disjoint
<1>16. g \in Seq(Places) /\ DOMAIN g = 1 .. H
  <2>1. g \in [1 .. H -> Places] BY <1>9, <1>14, Zenon
  <2>. QED BY <1>1, <2>1
<1>17. \A m, n \in 1 .. H : g[m].cell = g[n].cell => m = n BY <1>8, <1>13
<1>18. ASSUME NEW m \in 1 .. H, NEW n \in 1 .. H, m # n PROVE Disjoint(g[m], g[n])
  <2>1. m < n \/ n < m BY <1>18
  <2>. QED BY <1>15, <2>1 DEF Disjoint
<1>. QED BY <1>14, <1>16, <1>17, <1>18 DEF CanBePut

LEMMA DivMonotone ==
  ASSUME NEW a \in Int, NEW b \in Int, NEW d \in Nat \ {0}, a <= b
  PROVE  a \div d \in Int /\ b \div d \in Int /\ a \div d <= b \div d
OBVIOUS

LEMMA DivExact ==
  ASSUME NEW a \in Int, NEW d \in Nat \ {0}
  PROVE  (d * a) \div d = a /\ 0 \div d = 0
OBVIOUS

LEMMA TrialCanBePut ==
  ASSUME LegalRow, NEW starts \in NextGroup, NEW trial \in Trials(starts)
  PROVE  CanBePut(trial)
<1> DEFINE H == HorizontalGroupSize
           considered == ConsideredGroupOfCells(starts)
<1>1. LooseGrid /\ Honest BY LegalIsHonest DEF LegalRow
<1>2. /\ H \in Nat \ {0, 1} /\ considered \in [1 .. H -> Placeable]
      /\ NumEmpty(starts) \in Nat
      /\ \E cells \in Permutation(considered) : \E F :
            /\ Implements(trial, H, LeftSiteIdx(starts), cells, F)
            /\ LeavesFree(starts, cells, F)
  BY <1>1, TrialIs DEF LegalRow
<1>3. PICK cells \in Permutation(considered), F \in [1 .. H -> Int] :
        /\ Implements(trial, H, LeftSiteIdx(starts), cells, F)
        /\ LeavesFree(starts, cells, F)
  BY <1>2, Zenon DEF Implements
<1>4. \A n \in 1 .. H : considered[n] = At(starts[n])
  BY <1>2 DEF ConsideredGroupOfCells
<1>5. \A m, n \in 1 .. H : At(starts[m]) = At(starts[n]) => m = n BY GroupFilled DEF H
<1>6. PICK h \in Nat \ {0, 1} : h = H BY <1>2
<1>7. PICK order \in [1 .. h -> Placeable] : order = considered BY <1>2, <1>6
<1>8. /\ cells \in [1 .. h -> Placeable] /\ cells \in Seq(Cells) /\ Len(cells) = h
      /\ \E f : ReorderedBy(f, cells, order, h)
  <2>1. cells \in Permutation(order) BY <1>3, <1>7
  <2>. QED BY <2>1, PermutationIs
<1>9. PICK f \in [1 .. h -> 1 .. h] :
            /\ \A n \in 1 .. h : cells[n] = order[f[n]]
            /\ \A m, n \in 1 .. h : f[m] = f[n] => m = n
  BY <1>8, Zenon DEF ReorderedBy
<1>10. \A n \in 1 .. h : f[n] \in 1 .. h /\ cells[n] = At(starts[f[n]])
  BY <1>4, <1>6, <1>7, <1>9
<1>11. \A m, n \in 1 .. h : cells[m] = cells[n] => m = n
  <2> SUFFICES ASSUME NEW m \in 1 .. h, NEW n \in 1 .. h, cells[m] = cells[n] PROVE m = n
    OBVIOUS
  <2>1. PICK a \in 1 .. h, b \in 1 .. h : a = f[m] /\ b = f[n] BY <1>9
  <2>2. At(starts[a]) = At(starts[b]) BY <1>10, <2>1, Zenon
  <2>3. a = b BY <1>5, <1>6, <2>2
  <2>. QED BY <1>9, <2>1, <2>3, Zenon
<1>12. \A m \in 1 .. h : \E n \in 1 .. H : cells[m] = At(starts[n]) BY <1>6, <1>10, Zenon
<1>13. WidthUpTo(cells)[h] + NumEmpty(starts) <= NumSites(starts)
  BY <1>8, <1>11, <1>12, GroupWidth, Zenon
<1>14. NumSites(starts) \in Nat BY GroupColumns
<1>15. WidthUpTo(cells)[h] \in Nat
  <2>1. h \in 0 .. Len(cells) BY <1>8
  <2>. QED BY <1>8, <2>1, WidthSteps
<1>16. TotalWidth(cells) = WidthUpTo(cells)[h] BY <1>8 DEF TotalWidth
<1>17. PICK w \in Nat, e \in Nat, s \in Nat :
         w = WidthUpTo(cells)[h] /\ e = NumEmpty(starts) /\ s = NumSites(starts)
  BY <1>2, <1>14, <1>15, Zenon
<1>18. w + e <= s BY <1>13, <1>17
<1> DEFINE Fit == /\ \A n \in 1 .. h : F[n] \in Nat
                  /\ \A m, n \in 1 .. h : m <= n => F[m] <= F[n]
                  /\ w + F[h] <= s
<1>19. ASSUME \A n \in 1 .. h : F[n] = 0 PROVE Fit
  <2>1. F[h] = 0 /\ w + 0 <= s
    <3>1. h \in 1 .. h OBVIOUS
    <3>. QED BY <1>18, <1>19, <3>1
  <2>2. \A n \in 1 .. h : F[n] \in Nat BY <1>19
  <2>3. \A m, n \in 1 .. h : m <= n => F[m] <= F[n]
    <3> TAKE m, n \in 1 .. h
    <3>1. F[m] = 0 /\ F[n] = 0 BY <1>19
    <3>. QED BY <3>1
  <2>. QED BY <2>1, <2>2, <2>3
<1>20. ASSUME \A n \in 1 .. h : F[n] = ((n - 1) * e) \div (h - 1) PROVE Fit
  <2>1. PICK d \in Nat \ {0} : d = h - 1 OBVIOUS
  <2>2. ASSUME NEW m \in 1 .. h, NEW n \in 1 .. h, m <= n
        PROVE  F[m] \in Int /\ F[n] \in Int /\ F[m] <= F[n]
    <3>1. PICK a \in Nat, b \in Nat : a = m - 1 /\ b = m - 1 + (n - m) BY <2>2
    <3>2. a * e \in Int /\ b * e \in Int /\ a * e <= b * e
      <4>1. PICK x \in Nat : b = a + x BY <2>2, <3>1
      <4>2. b * e = a * e + x * e BY <4>1
      <4>3. a * e \in Nat /\ x * e \in Nat OBVIOUS
      <4>. QED BY <4>2, <4>3
    <3>3. PICK p \in Int, q \in Int : p = a * e /\ q = b * e BY <3>2
    <3>4. p \div d \in Int /\ q \div d \in Int /\ p \div d <= q \div d
      BY <3>2, <3>3, DivMonotone, Zenon
    <3>5. a = m - 1 /\ b = n - 1 BY <3>1
    <3>6. F[m] = p \div d /\ F[n] = q \div d BY <1>20, <2>1, <3>3, <3>5, Zenon
    <3>. QED BY <3>4, <3>6
  <2>3. F[1] = 0
    <3>1. F[1] = ((1 - 1) * e) \div d BY <1>20, <2>1
    <3>2. (1 - 1) * e = 0 OBVIOUS
    <3>. QED BY <3>1, <3>2, DivExact
  <2>4. F[h] = e
    <3>1. h \in 1 .. h OBVIOUS
    <3>2. F[h] = (d * e) \div d BY <1>20, <2>1, <3>1, Zenon
    <3>. QED BY <3>2, DivExact
  <2>5. \A n \in 1 .. h : F[n] \in Nat
    <3> TAKE n \in 1 .. h
    <3>1. 1 \in 1 .. h /\ 1 <= n OBVIOUS
    <3>2. F[n] \in Int /\ F[1] <= F[n] BY <2>2, <3>1
    <3>. QED BY <2>3, <3>2
  <2>. QED BY <1>18, <2>2, <2>4, <2>5
<1>21. ASSUME \A n \in 1 .. h : F[n] = s - w PROVE Fit
  <2>1. s - w \in Nat /\ w + (s - w) <= s BY <1>18
  <2>2. h \in 1 .. h OBVIOUS
  <2>3. F[h] = s - w BY <1>21, <2>2
  <2>4. \A n \in 1 .. h : F[n] \in Nat BY <1>21, <2>1, Zenon
  <2>5. \A m, n \in 1 .. h : m <= n => F[m] <= F[n]
    <3> TAKE m, n \in 1 .. h
    <3>1. F[m] = s - w /\ F[n] = s - w BY <1>21
    <3>. QED BY <3>1
  <2>. QED BY <2>1, <2>3, <2>4, <2>5
<1>22. Fit BY <1>3, <1>6, <1>16, <1>17, <1>19, <1>20, <1>21 DEF LeavesFree
<1>. QED BY <1>3, <1>6, <1>17, <1>22, ImplementCanBePut, Zenon

LEMMA CellsApart ==
  ASSUME GridType, LegalGrid, NEW c \in Placeable, NEW t \in Placeable, c # t,
         cellRow[c] = cellRow[t]
  PROVE  \/ cellSiteIdx[t] + Width(t) <= cellSiteIdx[c]
         \/ cellSiteIdx[c] + Width(c) <= cellSiteIdx[t]
<1>1. /\ c \in Cells /\ t \in Cells /\ cellSiteIdx[c] \in Nat /\ cellSiteIdx[t] \in Nat
      /\ Width(c) \in Nat \ {0} /\ Width(t) \in Nat \ {0} /\ cellRow[c] \in Rows
      /\ NumCols \in Nat
      /\ cellSiteIdx[c] \in Columns /\ cellSiteIdx[t] \in Columns
  BY ConstantTypes DEF GridType
<1>2. \A k \in Columns : /\ sites[cellRow[c]][k] = c <=> Covers(cellSiteIdx[c], c, k)
                         /\ sites[cellRow[c]][k] = t <=> Covers(cellSiteIdx[t], t, k)
  BY <1>1 DEF LegalGrid, SitesDescribeCells
<1>3. ~ (Covers(cellSiteIdx[t], t, cellSiteIdx[c]) /\ Covers(cellSiteIdx[c], c, cellSiteIdx[c]))
  BY <1>1, <1>2
<1>4. ~ (Covers(cellSiteIdx[c], c, cellSiteIdx[t]) /\ Covers(cellSiteIdx[t], t, cellSiteIdx[t]))
  BY <1>1, <1>2
<1>. QED BY <1>1, <1>3, <1>4 DEF Width

LEMMA InitialCanBePut ==
  ASSUME LegalRow, NEW starts \in NextGroup
  PROVE  CanBePut(InitialPositions(ConsideredGroupOfCells(starts)))
<1> DEFINE cells == ConsideredGroupOfCells(starts)
<1>1. LooseGrid /\ Honest BY LegalIsHonest DEF LegalRow
<1>2. PICK h \in Nat : h = HorizontalGroupSize BY GroupSizeAssumption
<1>3. PICK g : g = InitialPositions(cells) OBVIOUS
<1>4. cells \in [1 .. h -> Placeable] /\ \A n \in 1 .. h : cells[n] = At(starts[n])
  <2>1. DOMAIN starts = 1 .. h /\ \A n \in 1 .. h : At(starts[n]) \in Placeable
    BY <1>1, <1>2, GroupIs DEF LegalRow
  <2>. QED BY <2>1 DEF ConsideredGroupOfCells
<1>5. \A m, n \in 1 .. h : cells[m] = cells[n] => m = n BY <1>2, <1>4, GroupFilled
<1> HIDE DEF cells
<1>6. g = [n \in 1 .. h |-> [cell |-> cells[n], row |-> cellRow[cells[n]],
                             column |-> cellSiteIdx[cells[n]]]]
  BY <1>3, <1>4 DEF InitialPositions
<1>7. GridType /\ LegalGrid BY DEF LegalRow
<1>8. ASSUME NEW n \in 1 .. h
      PROVE  g[n] \in Places /\ PlaceIsOpen(g, g[n])
  <2>1. PICK c \in Placeable : c = cells[n] BY <1>4
  <2>2. c \in Cells BY ConstantTypes
  <2>3. g[n] = [cell |-> c, row |-> cellRow[c], column |-> cellSiteIdx[c]] BY <1>6, <2>1
  <2>4. g[n] \in Places BY <1>7, <2>2, <2>3 DEF Places, GridType
  <2>5. cellSiteIdx[c] + Width(c) <= NumCols BY <1>7 DEF LegalGrid, InsideGrid, Width
  <2>6. \A k \in Columns : Covers(cellSiteIdx[c], c, k) => sites[cellRow[c]][k] = c
    <3>1. cellRow[c] \in Rows BY <1>7, <2>2 DEF GridType
    <3>. QED BY <1>7, <2>2, <3>1 DEF LegalGrid, SitesDescribeCells
  <2>7. c \in InGroup(g) BY <1>6, <2>3, Zenon
  <2>. QED BY <2>3, <2>4, <2>5, <2>6, <2>7 DEF PlaceIsOpen
<1>9. g \in Seq(Places) /\ DOMAIN g = 1 .. h
  <2>1. g \in [1 .. h -> Places] BY <1>6, <1>8, Zenon
  <2>. QED BY <2>1
<1>10. \A m, n \in 1 .. h : g[m].cell = g[n].cell => m = n BY <1>5, <1>6
<1>11. ASSUME NEW m \in 1 .. h, NEW n \in 1 .. h, g[m].cell # g[n].cell, g[m].row = g[n].row
       PROVE  Disjoint(g[m], g[n])
  <2>1. PICK c \in Placeable : c = cells[m] BY <1>4
  <2>2. PICK e \in Placeable : e = cells[n] BY <1>4
  <2>3. /\ g[m] = [cell |-> c, row |-> cellRow[c], column |-> cellSiteIdx[c]]
        /\ g[n] = [cell |-> e, row |-> cellRow[e], column |-> cellSiteIdx[e]]
    BY <1>6, <2>1, <2>2
  <2>4. c # e /\ cellRow[c] = cellRow[e] BY <1>11, <2>3
  <2>. QED BY <1>7, <2>3, <2>4, CellsApart DEF Disjoint
<1>12. CanBePut(g) BY <1>8, <1>9, <1>10, <1>11 DEF CanBePut
<1>. QED BY <1>3, <1>12 DEF cells

\* Between trials of any pass over a legal placement
AtRest == GridType /\ LegalGrid /\ AsOnGrid({}) /\ CacheInv

LEMMA RestIsLegal ==
  ASSUME AtRest
  PROVE  Legal /\ netHPWL = [n \in Nets |-> CalcNetHPWL(pos, n)]
<1>1. Legal BY DEF AtRest, LegalGrid, Legal, AsOnGrid, CheckGridConsistency
<1>2. GridCoordinates = pos BY BetweenTrials DEF AtRest
<1>. QED BY <1>1, <1>2 DEF AtRest, CacheInv

LEMMA ProcessGroupLegal ==
  ASSUME AtRest, RowIdx \in Rows, nextColumnIdx \in -1 .. NumCols, ProcessGroup
  PROVE  AtRest'
<1>1. LegalRow BY DEF LegalRow, AtRest
<1>2. PICK starts \in NextGroup :
         \/ \E trial \in Trials(starts) :
               /\ PutCells(trial) /\ pos' = PutFast(pos, trial)
               /\ UpdateCachedValues(PutFast(pos, trial), NetsOf(InGroup(trial)))
         \/ /\ PutCells(InitialPositions(ConsideredGroupOfCells(starts)))
            /\ pos' = PutFast(pos, InitialPositions(ConsideredGroupOfCells(starts)))
            /\ UNCHANGED netHPWL
  BY Zenon DEF ProcessGroup
<1>3. ASSUME NEW g, CanBePut(g), PutCells(g), pos' = PutFast(pos, g)
      PROVE  GridType' /\ LegalGrid' /\ AsOnGrid({})' /\ AsOnGrid(InGroup(g))
  <2>1. GridType /\ LegalGrid /\ AsOnGrid(InGroup(g)) BY DEF AtRest, AsOnGrid
  <2>2. GridType' /\ Legal' BY <1>3, <2>1, KeptTrialLegal
  <2>. QED BY <2>1, <2>2 DEF Legal, LegalGrid, CheckGridConsistency, AsOnGrid
<1>4. ASSUME NEW trial \in Trials(starts), PutCells(trial), pos' = PutFast(pos, trial),
             UpdateCachedValues(PutFast(pos, trial), NetsOf(InGroup(trial)))
      PROVE  AtRest'
  <2>1. CanBePut(trial) BY <1>1, TrialCanBePut
  <2>2. GridType' /\ LegalGrid' /\ AsOnGrid({})' /\ AsOnGrid(InGroup(trial)) BY <1>3, <1>4, <2>1
  <2>3. CacheInv' BY <1>4, <2>2, KeptTrialCache DEF AtRest
  <2>. QED BY <2>2, <2>3 DEF AtRest
<1>5. ASSUME NEW g, g = InitialPositions(ConsideredGroupOfCells(starts)),
             PutCells(g), pos' = PutFast(pos, g), UNCHANGED netHPWL
      PROVE  AtRest'
  <2>1. CanBePut(g) BY <1>1, <1>5, InitialCanBePut
  <2>2. GridType' /\ LegalGrid' /\ AsOnGrid({})' BY <1>3, <1>5, <2>1, Zenon
  <2>3. pos' = pos
    <3>1. pos' = [c \in Cells |-> IF c \in InGroup(g)
                                  THEN Site(PlaceOf(g, c).row, PlaceOf(g, c).column) ELSE pos[c]]
      BY <1>5 DEF PutFast
    <3>2. ASSUME NEW c \in InGroup(g)
          PROVE  Site(PlaceOf(g, c).row, PlaceOf(g, c).column) = pos[c]
      <4>1. PICK n \in DOMAIN g : c = g[n].cell OBVIOUS
      <4>2. PlaceOf(g, c) = g[n] BY <2>1, <4>1, PlaceInGroup
      <4>3. g[n].row = cellRow[c] /\ g[n].column = cellSiteIdx[c]
        BY <1>5, <4>1 DEF InitialPositions
      <4>4. c \in Placeable BY <2>1, <4>1 DEF CanBePut, PlaceIsOpen
      <4>. QED BY <4>2, <4>3, <4>4 DEF AtRest, AsOnGrid
    <3>3. pos \in [Cells -> [x : Int, y : Int]] BY DEF AtRest, GridType
    <3> HIDE DEF InGroup, Site
    <3>. QED BY <3>1, <3>2, <3>3
  <2>4. GridCoordinates' = GridCoordinates
    <3>1. GridCoordinates = pos BY BetweenTrials DEF AtRest
    <3>2. GridCoordinates' = pos' BY <2>2, Zenon DEF GridType, AsOnGrid, GridCoordinates
    <3>. QED BY <2>3, <3>1, <3>2
  <2>5. CacheInv' BY <1>5, <2>4 DEF AtRest, CacheInv, CalcNetHPWL, PinsOf, Pin
  <2>. QED BY <2>2, <2>5 DEF AtRest
<1>. QED BY <1>2, <1>4, <1>5, Zenon

-----------------------------------------------------------------------------
(***************************************************************************)
(* The rows of Abacus.  The clusters of a row do not overlap, each is as   *)
(* wide as its cells are together, and all of them fit into the row.       *)
(***************************************************************************)
CellsOf(cluster) == {cluster.cells[j] : j \in DOMAIN cluster.cells}
RowCells(row)    == UNION {CellsOf(row[n]) : n \in DOMAIN row}
RowSum(row)      == SumUpTo([n \in DOMAIN row |-> row[n].width])

Abutting(cluster) ==
  /\ \A m, n \in DOMAIN cluster.cells : cluster.cells[m] = cluster.cells[n] => m = n
  /\ cluster.width = WidthUpTo(cluster.cells)[Len(cluster.cells)]

ClusterOk(cluster) ==
  Abutting(cluster) /\ 0 <= cluster.x /\ cluster.x + cluster.width <= NumCols

RowOk(row) ==
  /\ \A n \in DOMAIN row : ClusterOk(row[n])
  /\ \A m, n \in DOMAIN row : m < n => /\ row[m].x + row[m].width <= row[n].x
                                       /\ CellsOf(row[m]) \cap CellsOf(row[n]) = {}

LEMMA RowSumIs ==
  ASSUME NEW row \in Seq(ClusterType)
  PROVE  /\ \A n \in 0 .. Len(row) : RowSum(row)[n] \in Nat
         /\ RowSum(row)[0] = 0
         /\ \A n \in 1 .. Len(row) : RowSum(row)[n] = RowSum(row)[n - 1] + row[n].width
<1> DEFINE w == [n \in DOMAIN row |-> row[n].width]
<1>1. \A n \in 1 .. Len(row) : row[n].width \in Nat
  <2> TAKE n \in 1 .. Len(row)
  <2>1. row[n] \in ClusterType OBVIOUS
  <2>. QED BY <2>1, Zenon DEF ClusterType
<1>2. DOMAIN row = 1 .. Len(row) /\ Len(row) \in Nat OBVIOUS
<1>3. w \in [1 .. Len(row) -> Nat] /\ \A n \in 1 .. Len(row) : w[n] = row[n].width BY <1>1, <1>2
<1>4. RowSum(row) = SumUpTo(w) BY DEF RowSum
<1> HIDE DEF w
<1>5. w \in Seq(Nat) /\ Len(w) = Len(row) BY <1>2, <1>3
<1>. QED BY <1>3, <1>4, <1>5, SumSteps

\* Rows that begin alike
LEMMA SamePrefix ==
  ASSUME NEW a \in Seq(ClusterType), NEW b \in Seq(ClusterType), NEW k \in Nat,
         k <= Len(a), k <= Len(b), \A n \in 1 .. k : a[n] = b[n]
  PROVE  RowSum(a)[k] = RowSum(b)[k]
<1> DEFINE K == {n \in 0 .. k : RowSum(a)[n] = RowSum(b)[n]}
<1>1. 0 \in K BY RowSumIs
<1>2. ASSUME NEW n \in 0 .. k, n \in K, n + 1 \in 0 .. k PROVE n + 1 \in K
  <2>1. /\ n + 1 \in 1 .. Len(a) /\ n + 1 \in 1 .. Len(b) /\ n + 1 \in 1 .. k
        /\ (n + 1) - 1 = n
    BY <1>2
  <2>2. RowSum(a)[n + 1] = RowSum(a)[n] + a[n + 1].width BY <2>1, RowSumIs
  <2>3. RowSum(b)[n + 1] = RowSum(b)[n] + b[n + 1].width BY <2>1, RowSumIs
  <2>. QED BY <1>2, <2>1, <2>2, <2>3
<1> HIDE DEF K
<1>3. 0 .. k \subseteq K BY <1>1, <1>2, Climb, Zenon
<1>. QED BY <1>3 DEF K

LEMMA WidthOfJoined ==
  ASSUME NEW a \in Seq(Cells), NEW b \in Seq(Cells)
  PROVE  WidthUpTo(a \o b)[Len(a) + Len(b)] = WidthUpTo(a)[Len(a)] + WidthUpTo(b)[Len(b)]
<1> DEFINE ab == a \o b
           M == Len(a)
           N == Len(b)
<1>1. /\ ab \in Seq(Cells) /\ Len(ab) = M + N /\ M \in Nat /\ N \in Nat
      /\ \A n \in 1 .. M : ab[n] = a[n] /\ \A m \in 1 .. N : ab[M + m] = b[m]
  OBVIOUS
<1>2. \A n \in 1 .. M : ab[n] = a[n] OBVIOUS
<1>3. \A n \in 1 .. N : ab[M + n] = b[n] OBVIOUS
<1>4. /\ \A n \in 0 .. M : WidthUpTo(a)[n] \in Nat
      /\ WidthUpTo(a)[0] = 0
      /\ \A n \in 1 .. M : WidthUpTo(a)[n] = WidthUpTo(a)[n - 1] + CellSitesNum[a[n]]
  BY WidthSteps
<1>5. /\ \A n \in 0 .. N : WidthUpTo(b)[n] \in Nat
      /\ WidthUpTo(b)[0] = 0
      /\ \A n \in 1 .. N : WidthUpTo(b)[n] = WidthUpTo(b)[n - 1] + CellSitesNum[b[n]]
  BY WidthSteps
<1> HIDE DEF ab, M, N
<1>6. /\ \A n \in 0 .. M + N : WidthUpTo(ab)[n] \in Nat
      /\ WidthUpTo(ab)[0] = 0
      /\ \A n \in 1 .. M + N : WidthUpTo(ab)[n] = WidthUpTo(ab)[n - 1] + CellSitesNum[ab[n]]
  BY <1>1, WidthSteps
<1> DEFINE A == {n \in 0 .. M : WidthUpTo(ab)[n] = WidthUpTo(a)[n]}
<1>7. 0 \in A BY <1>1, <1>4, <1>6
<1>8. ASSUME NEW k \in 0 .. M, k \in A, k + 1 \in 0 .. M PROVE k + 1 \in A
  <2>1. k + 1 \in 1 .. M /\ k + 1 \in 1 .. M + N /\ (k + 1) - 1 = k BY <1>1, <1>8
  <2>2. /\ WidthUpTo(ab)[k + 1] = WidthUpTo(ab)[k] + CellSitesNum[ab[k + 1]]
        /\ WidthUpTo(a)[k + 1] = WidthUpTo(a)[k] + CellSitesNum[a[k + 1]]
    BY <1>4, <1>6, <2>1
  <2>. QED BY <1>2, <1>8, <2>1, <2>2
<1> HIDE DEF A
<1>9. 0 .. M \subseteq A BY <1>1, <1>7, <1>8, Climb, Zenon
<1>10. M \in 0 .. M BY <1>1
<1>11. WidthUpTo(ab)[M] = WidthUpTo(a)[M] BY <1>9, <1>10 DEF A
<1> DEFINE B == {n \in 0 .. N : WidthUpTo(ab)[M + n] = WidthUpTo(a)[M] + WidthUpTo(b)[n]}
<1>12. 0 \in B
  <2>1. M + 0 = M /\ 0 \in 0 .. N BY <1>1
  <2>2. WidthUpTo(a)[M] \in Nat BY <1>4, <1>10
  <2>. QED BY <1>5, <1>11, <2>1, <2>2
<1>13. ASSUME NEW k \in 0 .. N, k \in B, k + 1 \in 0 .. N PROVE k + 1 \in B
  <2>1. /\ k + 1 \in 1 .. N /\ M + (k + 1) \in 1 .. M + N /\ (k + 1) - 1 = k
        /\ (M + (k + 1)) - 1 = M + k
    BY <1>1, <1>13
  <2>2. WidthUpTo(ab)[M + (k + 1)] = WidthUpTo(ab)[M + k] + CellSitesNum[ab[M + (k + 1)]]
    BY <1>6, <2>1
  <2>3. WidthUpTo(b)[k + 1] = WidthUpTo(b)[k] + CellSitesNum[b[k + 1]] BY <1>5, <2>1
  <2>4. ab[M + (k + 1)] = b[k + 1] BY <1>3, <2>1
  <2>5. b[k + 1] \in Cells /\ CellSitesNum[b[k + 1]] \in Nat
    <3>1. b[k + 1] \in Cells BY <2>1 DEF N
    <3>. QED BY <3>1, GridAssumption
  <2>6. WidthUpTo(a)[M] \in Nat /\ WidthUpTo(b)[k] \in Nat BY <1>4, <1>5, <1>10
  <2>7. PICK x \in Nat, y \in Nat, z \in Nat :
           x = WidthUpTo(a)[M] /\ y = WidthUpTo(b)[k] /\ z = CellSitesNum[b[k + 1]]
    BY <2>5, <2>6, Zenon
  <2>. QED BY <1>13, <2>2, <2>3, <2>4, <2>7
<1> HIDE DEF B
<1>14. 0 .. N \subseteq B BY <1>1, <1>12, <1>13, Climb, Zenon
<1>15. N \in 0 .. N BY <1>1
<1>16. WidthUpTo(ab)[M + N] = WidthUpTo(a)[M] + WidthUpTo(b)[N] BY <1>14, <1>15 DEF B
<1>. QED BY <1>16 DEF ab, M, N

LEMMA ClusterFields ==
  ASSUME NEW a \in ClusterType
  PROVE  /\ a.cells \in Seq(Placeable) /\ a.cells \in Seq(Cells)
         /\ a.width \in Nat \ {0} /\ a.x \in Int
         /\ CellsOf(a) \subseteq Placeable
<1>1. PICK cells \in Seq(Placeable) : cells = a.cells BY DEF ClusterType
<1>2. cells \in Seq(Cells)
  <2>1. cells \in [1 .. Len(cells) -> Placeable] /\ Len(cells) \in Nat OBVIOUS
  <2>2. cells \in [1 .. Len(cells) -> Cells] BY <2>1, ConstantTypes
  <2>. QED BY <2>1, <2>2
<1>3. \A j \in DOMAIN cells : cells[j] \in Placeable OBVIOUS
<1>. QED BY <1>1, <1>2, <1>3 DEF ClusterType, CellsOf

LEMMA NewClusterAbuts ==
  ASSUME PosType, NEW c \in Placeable
  PROVE  Abutting(MakeNewCluster(c)) /\ CellsOf(MakeNewCluster(c)) = {c}
<1>1. MakeNewCluster(c).cells = <<c>> /\ MakeNewCluster(c).width = CellSitesNum[c]
  BY NewClusterIs
<1> DEFINE s == <<c>>
<1>2. s \in Seq(Cells) /\ Len(s) = 1 /\ DOMAIN s = {1} /\ s[1] = c
  <2>1. c \in Cells BY ConstantTypes
  <2>. QED BY <2>1
<1> HIDE DEF s
<1>3. WidthUpTo(s)[1] = CellSitesNum[c]
  <2>1. WidthUpTo(s)[1] = WidthUpTo(s)[1 - 1] + CellSitesNum[s[1]]
        /\ WidthUpTo(s)[0] = 0
    BY <1>2, WidthSteps
  <2>2. CellSitesNum[c] \in Nat
    <3>1. c \in Cells BY ConstantTypes
    <3>. QED BY <3>1, GridAssumption
  <2>. QED BY <1>2, <2>1, <2>2
<1>4. MakeNewCluster(c).cells = s BY <1>1 DEF s
<1>. QED BY <1>1, <1>2, <1>3, <1>4 DEF Abutting, CellsOf

LEMMA MergedAbuts ==
  ASSUME NEW a \in ClusterType, NEW b \in ClusterType, Abutting(a), Abutting(b),
         CellsOf(a) \cap CellsOf(b) = {}
  PROVE  /\ Abutting(MergeClusters(a, b))
         /\ CellsOf(MergeClusters(a, b)) = CellsOf(a) \cup CellsOf(b)
<1> DEFINE m == MergeClusters(a, b)
<1>1. m.cells = a.cells \o b.cells /\ m.width = a.width + b.width BY MergedClusterIs, Zenon
<1>2. PICK s \in Seq(Cells), t \in Seq(Cells) : s = a.cells /\ t = b.cells BY ClusterFields
<1>3. m.cells = s \o t BY <1>1, <1>2
<1> DEFINE st == s \o t
           M == Len(s)
           N == Len(t)
<1>4. /\ st \in Seq(Cells) /\ Len(st) = M + N /\ M \in Nat /\ N \in Nat
      /\ DOMAIN st = 1 .. M + N /\ DOMAIN s = 1 .. M /\ DOMAIN t = 1 .. N
  OBVIOUS
<1>5. \A n \in 1 .. M : st[n] = s[n] OBVIOUS
<1>6. \A n \in M + 1 .. M + N : st[n] = t[n - M] OBVIOUS
<1> HIDE DEF m, st, M, N
<1>7. CellsOf(a) = {s[j] : j \in 1 .. M} /\ CellsOf(b) = {t[j] : j \in 1 .. N}
  BY <1>2, <1>4 DEF CellsOf
<1>8. \A n \in 1 .. M + N : n \in 1 .. M \/ (n \in M + 1 .. M + N /\ n - M \in 1 .. N) BY <1>4
<1>9. CellsOf(m) = {st[n] : n \in 1 .. M + N} BY <1>3, <1>4 DEF CellsOf, st
<1>10. CellsOf(m) = CellsOf(a) \cup CellsOf(b)
  <2>1. ASSUME NEW n \in 1 .. M + N PROVE st[n] \in CellsOf(a) \cup CellsOf(b)
    BY <1>5, <1>6, <1>7, <1>8
  <2>2. ASSUME NEW n \in 1 .. M PROVE s[n] \in CellsOf(m)
    <3>1. n \in 1 .. M + N BY <1>4
    <3>. QED BY <1>5, <1>9, <3>1
  <2>3. ASSUME NEW n \in 1 .. N PROVE t[n] \in CellsOf(m)
    <3>1. M + n \in 1 .. M + N /\ M + n \in M + 1 .. M + N /\ (M + n) - M = n BY <1>4
    <3>2. st[M + n] = t[n] BY <1>6, <3>1
    <3>. QED BY <1>9, <3>1, <3>2
  <2>4. CellsOf(m) \subseteq CellsOf(a) \cup CellsOf(b) BY <1>9, <2>1
  <2>5. CellsOf(a) \subseteq CellsOf(m) BY <1>7, <2>2
  <2>6. CellsOf(b) \subseteq CellsOf(m) BY <1>7, <2>3
  <2>. QED BY <2>4, <2>5, <2>6
<1>11. ASSUME NEW k \in 1 .. M + N, NEW n \in 1 .. M + N, st[k] = st[n]
       PROVE  k = n
  <2>1. \A u, v \in 1 .. M : s[u] = s[v] => u = v BY <1>2, <1>4, Zenon DEF Abutting
  <2>2. \A u, v \in 1 .. N : t[u] = t[v] => u = v BY <1>2, <1>4, Zenon DEF Abutting
  <2>3. \A u \in 1 .. M, v \in 1 .. N : s[u] # t[v] BY <1>7, Zenon
  <2>4. CASE k \in 1 .. M /\ n \in 1 .. M BY <1>5, <1>11, <2>1, <2>4
  <2>5. CASE k \in 1 .. M /\ n \notin 1 .. M BY <1>5, <1>6, <1>8, <1>11, <2>3, <2>5
  <2>6. CASE k \notin 1 .. M /\ n \in 1 .. M BY <1>5, <1>6, <1>8, <1>11, <2>3, <2>6
  <2>7. CASE k \notin 1 .. M /\ n \notin 1 .. M
    <3>1. k - M \in 1 .. N /\ n - M \in 1 .. N /\ st[k] = t[k - M] /\ st[n] = t[n - M]
      BY <1>6, <1>8, <2>7
    <3>2. k - M = n - M BY <1>11, <2>2, <3>1, Zenon
    <3>. QED BY <1>4, <3>2
  <2>. QED BY <2>4, <2>5, <2>6, <2>7
<1>12. m.width = WidthUpTo(m.cells)[Len(m.cells)]
  <2>1. a.width = WidthUpTo(s)[M] /\ b.width = WidthUpTo(t)[N] BY <1>2 DEF Abutting, M, N
  <2>2. WidthUpTo(st)[M + N] = WidthUpTo(s)[M] + WidthUpTo(t)[N] BY WidthOfJoined DEF st, M, N
  <2>3. m.width = a.width + b.width BY <1>1 DEF m
  <2>. QED BY <1>3, <1>4, <2>1, <2>2, <2>3 DEF st
<1>13. Abutting(m) BY <1>3, <1>4, <1>11, <1>12, Zenon DEF Abutting, st
<1>. QED BY <1>10, <1>13 DEF m

\* What merging a cell's cluster with the last n clusters of a row comes to
MergedOk(row, c, merged, n) ==
  /\ Abutting(merged[n])
  /\ CellsOf(merged[n]) = {c} \cup UNION {CellsOf(row[m]) : m \in Len(row) - n + 1 .. Len(row)}
  /\ merged[n].width + RowSum(row)[Len(row) - n] = RowSum(row)[Len(row)] + CellSitesNum[c]
  /\ 0 <= merged[n].x /\ merged[n].x + merged[n].width <= NumCols

LEMMA MergedIs ==
  ASSUME PosType, NEW row \in Seq(ClusterType), RowOk(row), NEW c \in Placeable,
         c \notin RowCells(row), RowSum(row)[Len(row)] + CellSitesNum[c] <= NumCols,
         NEW merged, MergesWith(row, c, merged), NEW n \in 0 .. Len(row)
  PROVE  MergedOk(row, c, merged, n)
<1> DEFINE L == Len(row)
           Sum == RowSum(row)
           K == {k \in 0 .. L : MergedOk(row, c, merged, k)}
<1>1. L \in Nat /\ \A k \in 1 .. L : row[k] \in ClusterType OBVIOUS
<1>2. /\ merged \in [0 .. L -> ClusterType] /\ merged[0] = MakeNewCluster(c)
      /\ \A k \in 1 .. L : merged[k] = MergeClusters(row[L + 1 - k], merged[k - 1])
  BY DEF MergesWith
<1>3. /\ \A k \in 0 .. L : Sum[k] \in Nat
      /\ \A k \in 1 .. L : Sum[k] = Sum[k - 1] + row[k].width
  BY RowSumIs
<1>0. DOMAIN row = 1 .. L OBVIOUS
<1>4. CellSitesNum[c] \in Nat /\ NumCols \in Nat
  <2>1. c \in Cells BY ConstantTypes
  <2>. QED BY <2>1, GridAssumption
<1>5. Sum[L] + CellSitesNum[c] <= NumCols OBVIOUS
<1> HIDE DEF L, Sum
<1>6. MergedOk(row, c, merged, 0)
  <2>1. L - 0 = L /\ L - 0 + 1 .. L = {} BY <1>1
  <2>2. Abutting(merged[0]) /\ CellsOf(merged[0]) = {c} BY <1>2, NewClusterAbuts
  <2>3. merged[0].width = CellSitesNum[c] /\ 0 <= merged[0].x
        /\ merged[0].x + merged[0].width <= NumCols
    BY <1>2, NewClusterIs
  <2>4. Sum[L] \in Nat BY <1>1, <1>3
  <2>5. merged[0].width + Sum[L - 0] = Sum[L] + CellSitesNum[c]
    BY <1>4, <2>1, <2>3, <2>4
  <2>6. CellsOf(merged[0]) = {c} \cup UNION {CellsOf(row[m]) : m \in L - 0 + 1 .. L}
    BY <2>1, <2>2
  <2>. QED BY <2>2, <2>3, <2>5, <2>6 DEF MergedOk, L, Sum
<1>7. ASSUME NEW k \in 0 .. L, MergedOk(row, c, merged, k), k + 1 \in 0 .. L
      PROVE  MergedOk(row, c, merged, k + 1)
  <2>1. /\ k + 1 \in 1 .. L /\ L + 1 - (k + 1) = L - k /\ (k + 1) - 1 = k
        /\ L - k \in 1 .. L /\ L - k \in 0 .. L /\ L - (k + 1) \in 0 .. L
        /\ (L - k) - 1 = L - (k + 1) /\ L - (k + 1) + 1 = L - k
        /\ L \in 0 .. L
    BY <1>1, <1>7
  <2>2. PICK a \in ClusterType : a = row[L - k] BY <1>1, <2>1
  <2>3. PICK b \in ClusterType : b = merged[k] BY <1>2, <1>7, Zenon
  <2>4. merged[k + 1] = MergeClusters(a, b) BY <1>2, <2>1, <2>2, <2>3, Zenon
  <2>5. /\ Abutting(b) /\ CellsOf(b) = {c} \cup UNION {CellsOf(row[m]) : m \in L - k + 1 .. L}
        /\ b.width + Sum[L - k] = Sum[L] + CellSitesNum[c]
    BY <1>7, <2>3 DEF MergedOk, L, Sum
  <2>6. Abutting(a) BY <1>0, <2>1, <2>2 DEF RowOk, ClusterOk
  <2>7. CellsOf(a) \cap CellsOf(b) = {}
    <3>1. c \notin CellsOf(a) BY <1>0, <2>1, <2>2 DEF RowCells
    <3>2. ASSUME NEW m \in L - k + 1 .. L PROVE CellsOf(a) \cap CellsOf(row[m]) = {}
      <4>1. m \in 1 .. L /\ L - k < m BY <1>1, <1>7
      <4>. QED BY <1>0, <2>1, <2>2, <4>1, Zenon DEF RowOk
    <3>. QED BY <2>5, <3>1, <3>2
  <2>8. /\ Abutting(merged[k + 1])
        /\ CellsOf(merged[k + 1]) = CellsOf(a) \cup CellsOf(b)
    <3>1. /\ Abutting(MergeClusters(a, b))
          /\ CellsOf(MergeClusters(a, b)) = CellsOf(a) \cup CellsOf(b)
      BY <2>5, <2>6, <2>7, MergedAbuts
    <3>. QED BY <2>4, <3>1
  <2>9. CellsOf(merged[k + 1]) =
          {c} \cup UNION {CellsOf(row[m]) : m \in L - (k + 1) + 1 .. L}
    <3>1. L - (k + 1) + 1 .. L = {L - k} \cup (L - k + 1 .. L) BY <1>1, <1>7
    <3>2. UNION {CellsOf(row[m]) : m \in L - (k + 1) + 1 .. L} =
            CellsOf(row[L - k]) \cup UNION {CellsOf(row[m]) : m \in L - k + 1 .. L}
      BY <3>1
    <3>. QED BY <2>2, <2>5, <2>8, <3>2, Zenon
  <2>10. /\ merged[k + 1].width = a.width + b.width
         /\ merged[k + 1].x + merged[k + 1].width <= NumCols
         /\ a.width + b.width <= NumCols => 0 <= merged[k + 1].x
    BY <2>4, MergedClusterIs, Zenon
  <2>11. Sum[L - k] = Sum[L - (k + 1)] + a.width BY <1>3, <2>1, <2>2
  <2>12. PICK x \in Nat, y \in Nat, s \in Nat, t \in Nat, w \in Nat :
           x = a.width /\ y = b.width /\ s = Sum[L - (k + 1)] /\ t = Sum[L] /\ w = CellSitesNum[c]
    <3>1. a.width \in Nat /\ b.width \in Nat BY ClusterFields
    <3>. QED BY <1>3, <1>4, <2>1, <3>1, Zenon
  <2>13. y + (s + x) = t + w /\ t + w <= NumCols BY <1>5, <2>5, <2>11, <2>12
  <2>14. merged[k + 1].width + Sum[L - (k + 1)] = Sum[L] + CellSitesNum[c]
    BY <2>10, <2>12, <2>13
  <2>15. x + y <= NumCols BY <1>4, <2>13
  <2>. QED BY <2>8, <2>9, <2>10, <2>12, <2>14, <2>15, Zenon DEF MergedOk, L, Sum
<1>8. 0 \in K BY <1>1, <1>6
<1>9. \A k \in 0 .. L : k \in K /\ k + 1 \in 0 .. L => k + 1 \in K BY <1>7
<1> HIDE DEF K
<1>10. 0 .. L \subseteq K BY <1>1, <1>8, <1>9, Climb, Zenon
<1>11. n \in K BY <1>10 DEF L
<1>. QED BY <1>11 DEF K

\* The first K elements of s and e behind them
Extended(s, K, e) == SubSeq(s, 1, K) \o <<e>>

LEMMA ExtendedIs ==
  ASSUME NEW T, NEW s \in Seq(T), NEW e \in T, NEW K \in Nat, K <= Len(s)
  PROVE  /\ Extended(s, K, e) \in Seq(T) /\ Len(Extended(s, K, e)) = K + 1
         /\ Extended(s, K, e)[K + 1] = e
         /\ \A k \in 1 .. K : Extended(s, K, e)[k] = s[k]
<1> DEFINE front == SubSeq(s, 1, K)
<1>1. front \in Seq(T) /\ Len(front) = K
  OBVIOUS
<1>2. \A k \in 1 .. K : front[k] = s[k]
  OBVIOUS
<1> HIDE DEF front
<1> DEFINE new == front \o <<e>>
<1>3. /\ new \in Seq(T) /\ Len(new) = K + 1
      /\ new[K + 1] = e
  BY <1>1
<1>4. \A k \in 1 .. K : new[k] = front[k] BY <1>1
<1> HIDE DEF new
<1>5. \A k \in 1 .. K : new[k] = s[k] BY <1>2, <1>4
<1>6. new = Extended(s, K, e) BY DEF new, front, Extended
<1>. QED BY <1>3, <1>5, <1>6

\* The row once its last n clusters are merged with a cell's
LEMMA MergedRowOk ==
  ASSUME PosType, NEW row \in Seq(ClusterType), RowOk(row), NEW c \in Placeable,
         c \notin RowCells(row), RowSum(row)[Len(row)] + CellSitesNum[c] <= NumCols,
         NEW merged, MergesWith(row, c, merged), NEW n \in 0 .. Len(row),
         ClearAfter(row, merged, n),
         NEW new, new = Extended(row, Len(row) - n, merged[n])
  PROVE  /\ new \in Seq(ClusterType) /\ RowOk(new)
         /\ RowSum(new)[Len(new)] <= NumCols
         /\ RowCells(new) = RowCells(row) \cup {c}
<1> DEFINE L == Len(row)
           K == Len(row) - n
<1>1. /\ L \in Nat /\ K \in Nat /\ K <= L /\ n = L - K
      /\ \A k \in 1 .. L : row[k] \in ClusterType
      /\ DOMAIN row = 1 .. L
  OBVIOUS
<1>0. L \in Nat /\ K \in Nat /\ K <= L BY <1>1
<1>2. MergedOk(row, c, merged, n) BY MergedIs
<1>3. PICK cluster \in ClusterType : cluster = merged[n] BY Zenon DEF MergesWith
<1>4. /\ new \in Seq(ClusterType) /\ Len(new) = K + 1 /\ DOMAIN new = 1 .. K + 1
      /\ new[K + 1] = cluster
      /\ \A k \in 1 .. K : new[k] = row[k]
  <2>1. new = Extended(row, K, cluster) BY <1>3
  <2>2. PICK k \in Nat : k = K /\ k <= Len(row) BY <1>0
  <2> HIDE DEF K, L
  <2>3. new = Extended(row, k, cluster) BY <2>1, <2>2
  <2>4. /\ new \in Seq(ClusterType) /\ Len(new) = k + 1 /\ new[k + 1] = cluster
        /\ \A m \in 1 .. k : new[m] = row[m]
    BY <2>2, <2>3, ExtendedIs
  <2>5. DOMAIN new = 1 .. Len(new) BY <2>4
  <2>. QED BY <2>2, <2>4, <2>5
<1>5. /\ \A k \in 0 .. L : RowSum(row)[k] \in Nat
      /\ \A k \in 0 .. K + 1 : RowSum(new)[k] \in Nat
      /\ \A k \in 1 .. K + 1 : RowSum(new)[k] = RowSum(new)[k - 1] + new[k].width
  BY <1>4, RowSumIs, Zenon
<1>6. ClearAfter(row, merged, n) OBVIOUS
<1> HIDE DEF L, K
<1>7. RowSum(new)[K] = RowSum(row)[K]
  <2>1. K <= Len(new) /\ K <= Len(row) BY <1>1, <1>4 DEF L
  <2>. QED BY <1>1, <1>4, <2>1, SamePrefix, Zenon
<1>8. RowSum(new)[Len(new)] <= NumCols
  <2>1. K \in 0 .. L /\ K + 1 \in 1 .. K + 1 /\ (K + 1) - 1 = K BY <1>1
  <2>2. RowSum(new)[K + 1] = RowSum(new)[K] + cluster.width BY <1>4, <1>5, <2>1
  <2>3. cluster.width + RowSum(row)[K] = RowSum(row)[L] + CellSitesNum[c]
    <3>1. K = Len(row) - n BY DEF K
    <3>. QED BY <1>2, <1>3, <3>1 DEF MergedOk, L
  <2>4. RowSum(row)[K] \in Nat /\ cluster.width \in Nat BY <1>5, <2>1, ClusterFields
  <2>5. RowSum(row)[L] + CellSitesNum[c] <= NumCols BY DEF L
  <2>. QED BY <1>4, <1>7, <2>2, <2>3, <2>4, <2>5
<1>9. ClusterOk(cluster) BY <1>2, <1>3 DEF MergedOk, ClusterOk
<1>10. CellsOf(cluster) = {c} \cup UNION {CellsOf(row[m]) : m \in K + 1 .. L}
  <2>1. Len(row) - n + 1 = K + 1 BY DEF K
  <2>. QED BY <1>2, <1>3, <2>1 DEF MergedOk, L
<1>11. \A k \in 1 .. K : k \in 1 .. L BY <1>1
<1>12. ASSUME NEW k \in 1 .. K + 1 PROVE ClusterOk(new[k])
  <2>1. CASE k = K + 1 BY <1>4, <1>9, <2>1
  <2>2. CASE k # K + 1
    <3>1. k \in 1 .. K BY <1>1, <2>2
    <3>. QED BY <1>1, <1>4, <1>11, <3>1, Zenon DEF RowOk
  <2>. QED BY <2>1, <2>2
<1>13. ASSUME NEW k \in 1 .. K + 1, NEW m \in 1 .. K + 1, k < m
       PROVE  /\ new[k].x + new[k].width <= new[m].x
              /\ CellsOf(new[k]) \cap CellsOf(new[m]) = {}
  <2>1. k \in 1 .. K /\ k \in 1 .. L /\ new[k] = row[k] BY <1>1, <1>4, <1>13
  <2>2. CASE m # K + 1
    <3>1. m \in 1 .. K /\ m \in 1 .. L BY <1>1, <2>2
    <3>2. new[m] = row[m] BY <1>4, <3>1
    <3>. QED BY <1>1, <1>13, <2>1, <3>1, <3>2, Zenon DEF RowOk
  <2>3. CASE m = K + 1
    <3>1. new[m] = cluster BY <1>4, <2>3
    <3>2. new[k].x + new[k].width <= cluster.x
      <4>1. K \in 1 .. L BY <1>1, <2>1
      <4>2. L - n = K BY DEF L, K
      <4>3. n < L BY <1>1, <4>1
      <4>4. row[K].x + row[K].width <= cluster.x
        BY <1>3, <1>6, <4>2, <4>3 DEF ClearAfter, L
      <4>5. CASE k = K BY <2>1, <4>4, <4>5
      <4>6. CASE k # K
        <5>1. k < K BY <1>1, <2>1, <4>6
        <5>2. row[k].x + row[k].width <= row[K].x BY <1>1, <2>1, <4>1, <5>1 DEF RowOk
        <5>3. row[k] \in ClusterType /\ row[K] \in ClusterType BY <1>1, <2>1, <4>1
        <5>4. /\ row[k].x \in Int /\ row[k].width \in Nat
              /\ row[K].x \in Int /\ row[K].width \in Nat /\ cluster.x \in Int
          BY <5>3, ClusterFields, Zenon
        <5>5. PICK x \in Int, w \in Nat, y \in Int, v \in Nat, z \in Int :
                 /\ x = row[k].x /\ w = row[k].width /\ y = row[K].x /\ v = row[K].width
                 /\ z = cluster.x
          BY <5>4, Zenon
        <5>6. x + w <= y /\ y + v <= z BY <4>4, <5>2, <5>5
        <5>7. x + w <= z BY <5>6
        <5>. QED BY <2>1, <5>5, <5>7, Zenon
      <4>. QED BY <4>5, <4>6
    <3>3. CellsOf(row[k]) \cap CellsOf(cluster) = {}
      <4>1. c \notin CellsOf(row[k]) BY <1>1, <2>1 DEF RowCells
      <4>2. ASSUME NEW j \in K + 1 .. L PROVE CellsOf(row[k]) \cap CellsOf(row[j]) = {}
        <5>1. j \in 1 .. L /\ k < j
          <6>1. k \in 1 .. K BY <2>1
          <6>. QED BY <1>0, <4>2, <6>1
        <5>. QED BY <1>1, <2>1, <5>1 DEF RowOk
      <4>. QED BY <1>10, <4>1, <4>2
    <3>. QED BY <2>1, <3>1, <3>2, <3>3
  <2>. QED BY <2>2, <2>3
<1>14. RowOk(new) BY <1>4, <1>12, <1>13, Zenon DEF RowOk
<1>15. RowCells(new) = RowCells(row) \cup {c}
  <2>1. RowCells(row) = UNION {CellsOf(row[k]) : k \in 1 .. L} BY <1>1 DEF RowCells
  <2>2. RowCells(new) = UNION {CellsOf(new[k]) : k \in 1 .. K + 1} BY <1>4, Zenon DEF RowCells
  <2>3. \A k \in 1 .. K + 1 : k \in 1 .. K \/ k = K + 1 BY <1>1
  <2>4. K + 1 \in 1 .. K + 1 BY <1>1
  <2>5. ASSUME NEW e \in RowCells(new) PROVE e \in RowCells(row) \cup {c}
    <3>1. PICK k \in 1 .. K + 1 : e \in CellsOf(new[k]) BY <2>2
    <3>2. CASE k \in 1 .. K BY <1>4, <1>11, <2>1, <3>1, <3>2
    <3>3. CASE k = K + 1
      <4>1. \A m \in K + 1 .. L : m \in 1 .. L BY <1>1
      <4>. QED BY <1>4, <1>10, <2>1, <3>1, <3>3, <4>1
    <3>. QED BY <2>3, <3>2, <3>3
  <2>6. c \in RowCells(new)
    <3>1. c \in CellsOf(new[K + 1]) BY <1>4, <1>10
    <3>. QED BY <2>2, <2>4, <3>1
  <2>7. ASSUME NEW e \in RowCells(row) PROVE e \in RowCells(new)
    <3>1. PICK k \in 1 .. L : e \in CellsOf(row[k]) BY <2>1
    <3>2. CASE k \in 1 .. K
      <4>1. k \in 1 .. K + 1 /\ new[k] = row[k] BY <1>1, <1>4, <3>2
      <4>. QED BY <2>2, <3>1, <4>1
    <3>3. CASE k \notin 1 .. K
      <4>1. k \in K + 1 .. L BY <1>1, <3>3
      <4>2. e \in CellsOf(new[K + 1]) BY <1>4, <1>10, <3>1, <4>1
      <4>. QED BY <2>2, <2>4, <4>2
    <3>. QED BY <3>2, <3>3
  <2>. QED BY <2>5, <2>6, <2>7
<1>. QED BY <1>4, <1>8, <1>14, <1>15

-----------------------------------------------------------------------------
(***************************************************************************)
(* While Abacus is at work every placeable cell is in just one row or in   *)
(* the queue.                                                              *)
(***************************************************************************)
QueueCells == {queue[n] : n \in DOMAIN queue}

AbacusOk ==
  /\ \A r \in Rows : RowOk(clusters[r]) /\ RowSum(clusters[r])[Len(clusters[r])] <= NumCols
  /\ \A r, s \in Rows : r # s => RowCells(clusters[r]) \cap RowCells(clusters[s]) = {}
  /\ \A m, n \in DOMAIN queue : queue[m] = queue[n] => m = n
  /\ \A r \in Rows : RowCells(clusters[r]) \cap QueueCells = {}
  /\ Placeable \subseteq QueueCells \cup UNION {RowCells(clusters[r]) : r \in Rows}

LEMMA StartAbacus ==
  ASSUME StartLegalization
  PROVE  AbacusOk'
<1>1. PICK cells \in [DOMAIN CellOrder -> Placeable] : InOrderOfX(cells) /\ queue' = cells
  BY DEF StartLegalization
<1>2. clusters' = [r \in Rows |-> <<>>] BY DEF StartLegalization
<1>3. RowOk(<<>>) /\ RowCells(<<>>) = {} BY DEF RowOk, RowCells
<1>4. RowSum(<<>>)[Len(<<>>)] <= NumCols
  <2> DEFINE e == <<>>
  <2>1. e \in Seq(ClusterType) /\ Len(e) = 0 OBVIOUS
  <2> HIDE DEF e
  <2>2. RowSum(e)[0] = 0 BY <2>1, RowSumIs, Zenon
  <2>3. NumCols \in Nat BY GridAssumption
  <2>4. RowSum(e)[Len(e)] <= NumCols BY <2>1, <2>2, <2>3
  <2>. QED BY <2>4 DEF e
<1>5. \A r \in Rows : clusters'[r] = <<>> BY <1>2
<1>6. QueueCells' = Placeable BY <1>1 DEF QueueCells, InOrderOfX
<1>7. \A m, n \in DOMAIN queue' : queue'[m] = queue'[n] => m = n BY <1>1 DEF InOrderOfX
<1>8. \A r \in Rows : /\ RowOk(clusters'[r]) /\ RowCells(clusters'[r]) = {}
                      /\ RowSum(clusters'[r])[Len(clusters'[r])] <= NumCols
  BY <1>3, <1>4, <1>5
<1> HIDE DEF StartLegalization
<1>. QED BY <1>6, <1>7, <1>8, Zenon DEF AbacusOk

LEMMA PlaceCellAbacus ==
  ASSUME PosType, AbacusType, AbacusOk, PlaceCellIntoRow
  PROVE  AbacusOk'
<1> DEFINE c == Head(queue)
           r == BestRow(c).row
<1>1. /\ queue \in Seq(Placeable) /\ queue # <<>> /\ queue' = Tail(queue)
      /\ clusters \in [Rows -> Seq(ClusterType)]
      /\ clusters' = [clusters EXCEPT ![r] = WithCell(r, c)]
      /\ BestRow(c) # NoRow
  BY DEF AbacusType, PlaceCellIntoRow
<1>2. c \in Placeable BY <1>1
<1>3. r \in Rows /\ HasSpace(r, c)
  <2>1. \A s \in Rows : clusters[s] \in Seq(ClusterType) BY <1>1
  <2>. QED BY <1>1, <1>2, <2>1, NearestOfAll
<1> HIDE DEF c, r
<1>4. /\ QueueCells' \subseteq QueueCells /\ c \in QueueCells /\ c \notin QueueCells'
      /\ QueueCells \subseteq QueueCells' \cup {c}
      /\ \A m, n \in DOMAIN queue' : queue'[m] = queue'[n] => m = n
  <2>1. PICK q \in Seq(Placeable) : q = queue BY <1>1
  <2>2. /\ DOMAIN q = 1 .. Len(q) /\ Len(q) \in Nat \ {0} /\ c = q[1]
        /\ DOMAIN Tail(q) = 1 .. Len(q) - 1
        /\ \A n \in 1 .. Len(q) - 1 : Tail(q)[n] = q[n + 1] /\ n + 1 \in 1 .. Len(q)
    BY <1>1, <2>1 DEF c
  <2>3. \A m, n \in DOMAIN q : q[m] = q[n] => m = n BY <2>1 DEF AbacusOk
  <2>4. QueueCells = {q[n] : n \in 1 .. Len(q)} BY <2>1, <2>2 DEF QueueCells
  <2>5. QueueCells' = {Tail(q)[n] : n \in 1 .. Len(q) - 1} BY <1>1, <2>1, <2>2, Zenon DEF QueueCells
  <2>6. \A n \in 1 .. Len(q) : n = 1 \/ (n - 1 \in 1 .. Len(q) - 1 /\ (n - 1) + 1 = n) BY <2>2
  <2>7. 1 \in 1 .. Len(q) /\ \A n \in 1 .. Len(q) - 1 : n + 1 # 1 BY <2>2
  <2>8. \A n \in 1 .. Len(q) - 1 : Tail(q)[n] # c BY <2>2, <2>3, <2>7
  <2>9. ASSUME NEW n \in 1 .. Len(q), n # 1 PROVE q[n] \in QueueCells'
    <3>1. n - 1 \in 1 .. Len(q) - 1 /\ (n - 1) + 1 = n BY <2>6, <2>9
    <3>2. Tail(q)[n - 1] = q[n] BY <2>2, <3>1
    <3>. QED BY <2>5, <3>1, <3>2
  <2>10. ASSUME NEW m \in 1 .. Len(q) - 1, NEW n \in 1 .. Len(q) - 1, Tail(q)[m] = Tail(q)[n]
         PROVE  m = n
    <3>1. m + 1 = n + 1 BY <2>2, <2>3, <2>10
    <3>. QED BY <3>1
  <2>11. \A m, n \in DOMAIN queue' : queue'[m] = queue'[n] => m = n
    BY <1>1, <2>1, <2>2, <2>10, Zenon
  <2>12. QueueCells' \subseteq QueueCells BY <2>2, <2>4, <2>5
  <2>13. c \in QueueCells BY <2>2, <2>4, <2>7
  <2>14. c \notin QueueCells' BY <2>5, <2>8
  <2>15. QueueCells \subseteq QueueCells' \cup {c} BY <2>2, <2>4, <2>9
  <2>. QED BY <2>11, <2>12, <2>13, <2>14, <2>15
<1>5. PICK row \in Seq(ClusterType) : row = clusters[r] BY <1>1, <1>3
<1>6. /\ RowOk(row) /\ c \notin RowCells(row)
      /\ RowSum(row)[Len(row)] + CellSitesNum[c] <= NumCols
  <2>1. RowSum(row)[Len(row)] + CellSitesNum[c] <= NumCols
    BY <1>3, <1>5 DEF HasSpace, RowWidth, RowSum
  <2>. QED BY <1>3, <1>4, <1>5, <2>1 DEF AbacusOk
<1>7. PICK new : new = WithCell(r, c) OBVIOUS
<1>8. /\ new \in Seq(ClusterType) /\ RowOk(new) /\ RowSum(new)[Len(new)] <= NumCols
      /\ RowCells(new) = RowCells(row) \cup {c}
  <2>1. PICK merged : \E n \in 0 .. Len(row) :
           /\ MergesWith(row, c, merged) /\ ClearAfter(row, merged, n)
           /\ WithCell(r, c) = SubSeq(row, 1, Len(row) - n) \o <<merged[n]>>
    BY <1>2, <1>5, WithCellIs, Zenon
  <2>2. PICK n \in 0 .. Len(row) :
           /\ MergesWith(row, c, merged) /\ ClearAfter(row, merged, n)
           /\ WithCell(r, c) = SubSeq(row, 1, Len(row) - n) \o <<merged[n]>>
    BY <2>1, Zenon
  <2>3. new = Extended(row, Len(row) - n, merged[n]) BY <1>7, <2>2 DEF Extended
  <2>4. MergesWith(row, c, merged) /\ ClearAfter(row, merged, n) BY <2>2
  <2>5. PICK e \in Placeable : e = c BY <1>2
  <2>6. /\ RowOk(row) /\ e \notin RowCells(row)
        /\ RowSum(row)[Len(row)] + CellSitesNum[e] <= NumCols
        /\ MergesWith(row, e, merged)
    BY <1>6, <2>4, <2>5
  <2>7. ClearAfter(row, merged, n) BY <2>4
  <2>8. /\ new \in Seq(ClusterType) /\ RowOk(new) /\ RowSum(new)[Len(new)] <= NumCols
        /\ RowCells(new) = RowCells(row) \cup {e}
    BY <2>3, <2>6, <2>7, MergedRowOk
  <2>. QED BY <2>5, <2>8
<1>9. clusters'[r] = new /\ \A s \in Rows \ {r} : clusters'[s] = clusters[s]
  BY <1>1, <1>3, <1>7
<1>10. \A s \in Rows : /\ RowOk(clusters'[s])
                       /\ RowSum(clusters'[s])[Len(clusters'[s])] <= NumCols
  BY <1>8, <1>9 DEF AbacusOk
<1>11. \A s \in Rows : RowCells(clusters'[s]) =
                          IF s = r THEN RowCells(clusters[r]) \cup {c} ELSE RowCells(clusters[s])
  BY <1>5, <1>8, <1>9, Zenon
<1>12. \A s \in Rows : c \notin RowCells(clusters[s]) BY <1>4 DEF AbacusOk
<1>13. ASSUME NEW s \in Rows, NEW t \in Rows, s # t
       PROVE  RowCells(clusters'[s]) \cap RowCells(clusters'[t]) = {}
  <2>1. RowCells(clusters[s]) \cap RowCells(clusters[t]) = {} BY <1>13, Zenon DEF AbacusOk
  <2>. QED BY <1>11, <1>12, <1>13, <2>1
<1>14. \A s \in Rows : RowCells(clusters'[s]) \cap QueueCells' = {}
  BY <1>4, <1>11 DEF AbacusOk
<1>15. Placeable \subseteq QueueCells' \cup UNION {RowCells(clusters'[s]) : s \in Rows}
  <2> SUFFICES ASSUME NEW e \in Placeable, e \notin QueueCells'
               PROVE  \E s \in Rows : e \in RowCells(clusters'[s])
    OBVIOUS
  <2>1. CASE e = c BY <1>3, <1>11, <2>1
  <2>2. CASE e # c
    <3>1. e \notin QueueCells BY <1>4, <2>2
    <3>2. PICK s \in Rows : e \in RowCells(clusters[s]) BY <3>1 DEF AbacusOk
    <3>. QED BY <1>11, <3>2
  <2>. QED BY <2>1, <2>2
<1>. QED BY <1>4, <1>10, <1>13, <1>14, <1>15, Zenon DEF AbacusOk

-----------------------------------------------------------------------------
(***************************************************************************)
(* The places Abacus puts the cells at.                                    *)
(***************************************************************************)
Members(s) == {s[n] : n \in DOMAIN s}

LEMMA MembersOfJoined ==
  ASSUME NEW T, NEW a \in Seq(T), NEW b \in Seq(T)
  PROVE  Members(a \o b) = Members(a) \cup Members(b)
<1> DEFINE ab == a \o b
           M == Len(a)
           N == Len(b)
<1>1. /\ DOMAIN ab = 1 .. M + N /\ DOMAIN a = 1 .. M /\ DOMAIN b = 1 .. N
      /\ M \in Nat /\ N \in Nat
  OBVIOUS
<1>2. \A n \in 1 .. M : ab[n] = a[n] OBVIOUS
<1>3. \A n \in M + 1 .. M + N : ab[n] = b[n - M] OBVIOUS
<1> HIDE DEF ab, M, N
<1>4. ASSUME NEW n \in 1 .. M + N PROVE ab[n] \in Members(a) \cup Members(b)
  <2>1. CASE n \in 1 .. M BY <1>1, <1>2, <2>1 DEF Members
  <2>2. CASE n \notin 1 .. M
    <3>1. n \in M + 1 .. M + N /\ n - M \in 1 .. N BY <1>1, <1>4, <2>2
    <3>. QED BY <1>1, <1>3, <3>1, Zenon DEF Members
  <2>. QED BY <2>1, <2>2
<1>5. ASSUME NEW n \in 1 .. M PROVE a[n] \in Members(ab)
  <2>1. n \in 1 .. M + N BY <1>1
  <2>. QED BY <1>1, <1>2, <2>1 DEF Members
<1>6. ASSUME NEW n \in 1 .. N PROVE b[n] \in Members(ab)
  <2>1. n + M \in M + 1 .. M + N /\ n + M \in 1 .. M + N /\ (n + M) - M = n BY <1>1
  <2>2. ab[n + M] = b[n] BY <1>3, <2>1
  <2>. QED BY <1>1, <2>1, <2>2 DEF Members
<1>7. Members(ab) \subseteq Members(a) \cup Members(b) BY <1>1, <1>4 DEF Members
<1>8. Members(a) \subseteq Members(ab) BY <1>1, <1>5 DEF Members
<1>9. Members(b) \subseteq Members(ab) BY <1>1, <1>6 DEF Members
<1>10. Members(ab) = Members(a) \cup Members(b) BY <1>7, <1>8, <1>9
<1>. QED BY <1>10 DEF ab

LEMMA MembersFlattened ==
  ASSUME NEW T, NEW ss \in Seq(Seq(T))
  PROVE  Members(FlattenSeq(ss)) = UNION {Members(ss[n]) : n \in 1 .. Len(ss)}
<1>1. CASE ss = <<>>
  <2>1. FlattenSeq(ss) = <<>> BY <1>1 DEF FlattenSeq
  <2>2. Members(<<>>) = {} BY DEF Members
  <2>3. 1 .. Len(ss) = {} BY <1>1
  <2>. QED BY <2>1, <2>2, <2>3
<1>2. CASE ss # <<>>
  <2>1. PICK h : Flattens(h, ss, T) /\ FlattenSeq(ss) = h[Len(ss)] BY <1>2, FlattenIs
  <2> DEFINE L == Len(ss)
             Upto(n) == UNION {Members(ss[m]) : m \in 1 .. n}
             K == {n \in 0 .. L : n = 0 \/ Members(h[n]) = Upto(n)}
  <2>2. L \in Nat \ {0} /\ \A n \in 1 .. L : ss[n] \in Seq(T) BY <1>2
  <2>3. /\ h \in [1 .. L -> Seq(T)] /\ h[1] = ss[1]
        /\ \A n \in 2 .. L : h[n] = h[n - 1] \o ss[n]
    BY <2>1, Zenon DEF Flattens
  <2> HIDE DEF L
  <2>4. 0 \in K BY <2>2
  <2>5. ASSUME NEW k \in 0 .. L, k \in K, k + 1 \in 0 .. L PROVE k + 1 \in K
    <3>1. CASE k = 0
      <4>1. 1 .. 1 = {1} OBVIOUS
      <4>2. Upto(1) = Members(ss[1]) BY <4>1
      <4>. QED BY <2>3, <2>5, <3>1, <4>2
    <3>2. CASE k # 0
      <4>1. k + 1 \in 2 .. L /\ k + 1 \in 1 .. L /\ k \in 1 .. L /\ (k + 1) - 1 = k
        BY <2>5, <3>2
      <4>2. h[k + 1] = h[k] \o ss[k + 1] /\ h[k] \in Seq(T) /\ ss[k + 1] \in Seq(T)
        BY <2>2, <2>3, <4>1, Zenon
      <4>3. Members(h[k + 1]) = Members(h[k]) \cup Members(ss[k + 1])
        BY <4>2, MembersOfJoined
      <4>4. Members(h[k]) = Upto(k) BY <2>5, <3>2
      <4>5. 1 .. k + 1 = (1 .. k) \cup {k + 1} BY <2>5
      <4>6. Upto(k + 1) = Upto(k) \cup Members(ss[k + 1]) BY <4>5, Zenon
      <4> HIDE DEF Upto
      <4>. QED BY <2>5, <4>3, <4>4, <4>6, Zenon
    <3>. QED BY <3>1, <3>2
  <2> HIDE DEF K, Upto
  <2>6. 0 .. L \subseteq K BY <2>2, <2>4, <2>5, Climb, Zenon
  <2>7. L \in K /\ L # 0 BY <2>2, <2>6
  <2>8. Members(h[L]) = Upto(L) BY <2>7 DEF K
  <2>. QED BY <2>1, <2>8 DEF Upto, L
<1>. QED BY <1>1, <1>2

\* The column of the j-th cell of a cluster
ColumnOf(cluster, j) == cluster.x + WidthUpTo(cluster.cells)[j - 1]

\* p is the place of the j-th cell of the m-th cluster of row r
PlacedAt(p, r, m, j) ==
  /\ r \in Rows /\ m \in 1 .. Len(clusters[r]) /\ j \in 1 .. Len(clusters[r][m].cells)
  /\ p = [cell |-> clusters[r][m].cells[j], row |-> r, column |-> ColumnOf(clusters[r][m], j)]

LEMMA ClusterPlacesAre ==
  ASSUME clusters \in [Rows -> Seq(ClusterType)], NEW p
  PROVE  p \in Members(ClusterPlaces) <=> \E r, m, j : PlacedAt(p, r, m, j)
<1>1. /\ ClusterPlaces = FlattenSeq([r \in 1 .. NumRows |-> RowPlaces(r - 1)])
      /\ \A r \in Rows :
            /\ [n \in DOMAIN clusters[r] |-> PlacesOf(r, clusters[r][n])] \in Seq(Seq(LoosePlaces))
            /\ RowPlaces(r) \in Seq(LoosePlaces)
      /\ [r \in 1 .. NumRows |-> RowPlaces(r - 1)] \in Seq(Seq(LoosePlaces))
  BY ClusterPlacesIs
<1>2. \A r \in Rows : /\ DOMAIN clusters[r] = 1 .. Len(clusters[r]) /\ Len(clusters[r]) \in Nat
                      /\ \A m \in 1 .. Len(clusters[r]) : clusters[r][m] \in ClusterType
  <2> TAKE r \in Rows
  <2>1. PICK row \in Seq(ClusterType) : row = clusters[r] OBVIOUS
  <2>. QED BY <2>1
<1>3. /\ NumRows \in Nat /\ \A r \in 1 .. NumRows : r - 1 \in Rows
      /\ \A r \in Rows : r + 1 \in 1 .. NumRows /\ (r + 1) - 1 = r
  BY ConstantTypes DEF Rows
<1>4. Members(ClusterPlaces) = UNION {Members(RowPlaces(r)) : r \in Rows}
  <2> DEFINE ss == [r \in 1 .. NumRows |-> RowPlaces(r - 1)]
  <2>1. Len(ss) = NumRows
    <3>1. ss \in Seq(Seq(LoosePlaces)) BY <1>1
    <3>2. DOMAIN ss = 1 .. NumRows OBVIOUS
    <3> HIDE DEF ss
    <3>3. DOMAIN ss = 1 .. Len(ss) /\ Len(ss) \in Nat BY <3>1
    <3>. QED BY <1>3, <3>2, <3>3
  <2>2. \A r \in 1 .. NumRows : ss[r] = RowPlaces(r - 1) OBVIOUS
  <2>3. ss \in Seq(Seq(LoosePlaces)) /\ ClusterPlaces = FlattenSeq(ss) BY <1>1
  <2> HIDE DEF ss
  <2>4. Members(ClusterPlaces) = UNION {Members(ss[r]) : r \in 1 .. NumRows}
    BY <2>1, <2>3, MembersFlattened, Zenon
  <2>. QED BY <1>3, <2>2, <2>4
<1>5. ASSUME NEW r \in Rows
      PROVE  Members(RowPlaces(r)) =
               UNION {Members(PlacesOf(r, clusters[r][m])) : m \in 1 .. Len(clusters[r])}
  <2> DEFINE ss == [n \in DOMAIN clusters[r] |-> PlacesOf(r, clusters[r][n])]
  <2>1. Len(ss) = Len(clusters[r])
    <3>1. ss \in Seq(Seq(LoosePlaces)) BY <1>1, Zenon
    <3>2. DOMAIN ss = 1 .. Len(clusters[r]) BY <1>2
    <3> HIDE DEF ss
    <3>3. DOMAIN ss = 1 .. Len(ss) /\ Len(ss) \in Nat BY <3>1
    <3>4. PICK L \in Nat : L = Len(clusters[r]) BY <1>2
    <3>. QED BY <3>2, <3>3, <3>4
  <2>2. \A m \in 1 .. Len(clusters[r]) : ss[m] = PlacesOf(r, clusters[r][m]) BY <1>2
  <2>3. ss \in Seq(Seq(LoosePlaces)) /\ RowPlaces(r) = FlattenSeq(ss) BY <1>1 DEF RowPlaces
  <2> HIDE DEF ss
  <2>4. Members(RowPlaces(r)) = UNION {Members(ss[m]) : m \in 1 .. Len(clusters[r])}
    BY <2>1, <2>3, MembersFlattened
  <2>. QED BY <2>2, <2>4
<1>6. ASSUME NEW r \in Rows, NEW m \in 1 .. Len(clusters[r])
      PROVE  p \in Members(PlacesOf(r, clusters[r][m])) <=> \E j : PlacedAt(p, r, m, j)
  <2>1. PICK cells \in Seq(Placeable) : cells = clusters[r][m].cells
    BY <1>2 DEF ClusterType
  <2>2. DOMAIN cells = 1 .. Len(cells) OBVIOUS
  <2>. QED BY <2>1, <2>2, Zenon DEF PlacesOf, Members, PlacedAt, ColumnOf
<1>7. ASSUME p \in Members(ClusterPlaces) PROVE \E r, m, j : PlacedAt(p, r, m, j)
  <2>1. PICK r \in Rows : p \in Members(RowPlaces(r)) BY <1>4, <1>7
  <2>2. PICK m \in 1 .. Len(clusters[r]) : p \in Members(PlacesOf(r, clusters[r][m]))
    BY <1>5, <2>1
  <2>. QED BY <1>6, <2>2
<1>8. ASSUME NEW r, NEW m, NEW j, PlacedAt(p, r, m, j) PROVE p \in Members(ClusterPlaces)
  <2>1. r \in Rows /\ m \in 1 .. Len(clusters[r]) BY <1>8 DEF PlacedAt
  <2>2. p \in Members(PlacesOf(r, clusters[r][m])) BY <1>6, <1>8, <2>1
  <2>3. p \in Members(RowPlaces(r)) BY <1>5, <2>1, <2>2
  <2>. QED BY <1>4, <2>1, <2>3
<1>. QED BY <1>7, <1>8

\* The cells of a cluster lie one behind the other within it
LEMMA InCluster ==
  ASSUME NEW cluster \in ClusterType, ClusterOk(cluster), NEW j \in 1 .. Len(cluster.cells)
  PROVE  /\ cluster.cells[j] \in Placeable
         /\ ColumnOf(cluster, j) \in Int /\ cluster.x <= ColumnOf(cluster, j)
         /\ ColumnOf(cluster, j) + Width(cluster.cells[j]) <= cluster.x + cluster.width
         /\ \A k \in 1 .. Len(cluster.cells) : j < k =>
              ColumnOf(cluster, j) + Width(cluster.cells[j]) <= ColumnOf(cluster, k)
<1>1. PICK cells \in Seq(Cells) : cells = cluster.cells BY ClusterFields
<1>2. PICK x \in Int : x = cluster.x BY ClusterFields
<1>3. PICK L \in Nat : L = Len(cells) OBVIOUS
<1>4. /\ j \in 1 .. L /\ j - 1 \in 0 .. L /\ j \in 0 .. L /\ L \in 0 .. L /\ j <= L
  BY <1>1, <1>3
<1>5. /\ \A n \in 0 .. L : WidthUpTo(cells)[n] \in Nat
      /\ \A n \in 1 .. L : WidthUpTo(cells)[n] = WidthUpTo(cells)[n - 1] + CellSitesNum[cells[n]]
  BY <1>3, WidthSteps, Zenon
<1>6. WidthUpTo(cells)[j] = WidthUpTo(cells)[j - 1] + Width(cells[j])
  BY <1>4, <1>5 DEF Width
<1>7. cluster.width = WidthUpTo(cells)[L] BY <1>1, <1>3 DEF ClusterOk, Abutting
<1>8. cells[j] \in Cells /\ Width(cells[j]) \in Nat
  <2>1. cells[j] \in Cells BY <1>3, <1>4
  <2>. QED BY <2>1, ConstantTypes
<1>9. WidthUpTo(cells)[j] <= WidthUpTo(cells)[L] BY <1>3, <1>4, WidthMonotone
<1>10. PICK a \in Nat, b \in Nat, c \in Nat, w \in Nat :
         /\ a = WidthUpTo(cells)[j - 1] /\ b = WidthUpTo(cells)[j] /\ c = WidthUpTo(cells)[L]
         /\ w = Width(cells[j])
  BY <1>4, <1>5, <1>8, Zenon
<1>11. b = a + w /\ b <= c BY <1>6, <1>9, <1>10
<1>12. ColumnOf(cluster, j) = x + a BY <1>1, <1>2, <1>10 DEF ColumnOf
<1>13. /\ x + a \in Int /\ x <= x + a /\ x + a + w <= x + c BY <1>11
<1>14. ASSUME NEW k \in 1 .. L, j < k
       PROVE  ColumnOf(cluster, j) + Width(cells[j]) <= ColumnOf(cluster, k)
  <2>1. k - 1 \in 0 .. L /\ j <= k - 1 BY <1>4, <1>14
  <2>2. WidthUpTo(cells)[j] <= WidthUpTo(cells)[k - 1] BY <1>3, <1>4, <2>1, WidthMonotone
  <2>3. PICK d \in Nat : d = WidthUpTo(cells)[k - 1] BY <1>5, <2>1, Zenon
  <2>4. ColumnOf(cluster, k) = x + d BY <1>1, <1>2, <2>3 DEF ColumnOf
  <2>5. b <= d BY <1>10, <2>2, <2>3
  <2>. QED BY <1>10, <1>11, <1>12, <2>4, <2>5
<1>15. cluster.cells[j] \in Placeable
  <2>1. PICK s \in Seq(Placeable) : s = cluster.cells BY ClusterFields
  <2>2. j \in 1 .. Len(s) BY <2>1
  <2>. QED BY <2>1, <2>2
<1>. QED BY <1>1, <1>2, <1>3, <1>7, <1>10, <1>12, <1>13, <1>14, <1>15

LEMMA PlacedAtIs ==
  ASSUME clusters \in [Rows -> Seq(ClusterType)], AbacusOk, NEW p, NEW r, NEW m, NEW j,
         PlacedAt(p, r, m, j)
  PROVE  /\ r \in Rows /\ m \in 1 .. Len(clusters[r])
         /\ clusters[r][m] \in ClusterType /\ ClusterOk(clusters[r][m])
         /\ j \in 1 .. Len(clusters[r][m].cells)
         /\ p = [cell |-> clusters[r][m].cells[j], row |-> r,
                 column |-> ColumnOf(clusters[r][m], j)]
         /\ p.cell = clusters[r][m].cells[j] /\ p.row = r
         /\ p.column = ColumnOf(clusters[r][m], j)
         /\ p.cell \in CellsOf(clusters[r][m]) /\ p.cell \in RowCells(clusters[r])
         /\ p \in Places /\ p.cell \in Placeable
         /\ p.column + Width(p.cell) <= NumCols
<1>1. /\ r \in Rows /\ m \in 1 .. Len(clusters[r]) /\ j \in 1 .. Len(clusters[r][m].cells)
      /\ p = [cell |-> clusters[r][m].cells[j], row |-> r, column |-> ColumnOf(clusters[r][m], j)]
  BY DEF PlacedAt
<1>2. PICK row \in Seq(ClusterType) : row = clusters[r] BY <1>1
<1>3. m \in 1 .. Len(row) /\ m \in DOMAIN row /\ row[m] \in ClusterType BY <1>1, <1>2
<1>4. PICK cluster \in ClusterType : cluster = row[m] BY <1>3
<1>5. ClusterOk(cluster) BY <1>1, <1>2, <1>3, <1>4 DEF AbacusOk, RowOk
<1>6. j \in 1 .. Len(cluster.cells) /\ j \in DOMAIN cluster.cells
  <2>1. PICK s \in Seq(Cells) : s = cluster.cells BY ClusterFields
  <2>2. j \in 1 .. Len(s) BY <1>1, <1>2, <1>4, <2>1
  <2>3. j \in DOMAIN s BY <2>2
  <2>. QED BY <2>1, <2>2, <2>3
<1>7. /\ cluster.cells[j] \in Placeable
      /\ ColumnOf(cluster, j) \in Int /\ cluster.x <= ColumnOf(cluster, j)
      /\ ColumnOf(cluster, j) + Width(cluster.cells[j]) <= cluster.x + cluster.width
  BY <1>5, <1>6, InCluster
<1>8. /\ 0 <= cluster.x /\ cluster.x + cluster.width <= NumCols
      /\ cluster.x \in Int /\ cluster.width \in Nat
  BY <1>5, ClusterFields DEF ClusterOk
<1>9. PICK c \in Placeable : c = cluster.cells[j] BY <1>7
<1>10. Width(c) \in Nat \ {0} /\ c \in Cells /\ NumCols \in Nat
  BY <1>9, ConstantTypes
<1>11. PICK k \in Int, x \in Int, v \in Nat, w \in Nat \ {0} :
          k = ColumnOf(cluster, j) /\ x = cluster.x /\ v = cluster.width /\ w = Width(c)
  BY <1>7, <1>8, <1>10
<1>12. x <= k /\ k + w <= x + v /\ 0 <= x /\ x + v <= NumCols BY <1>7, <1>8, <1>9, <1>11, Zenon
<1>13. 0 <= k /\ k < NumCols /\ k + w <= NumCols BY <1>10, <1>12
<1>14. k \in Columns BY <1>13, ConstantTypes
<1>15. p = [cell |-> c, row |-> r, column |-> k] BY <1>1, <1>2, <1>4, <1>9, <1>11
<1>16. p \in Places BY <1>1, <1>10, <1>14, <1>15 DEF Places
<1>17. c \in CellsOf(cluster) BY <1>6, <1>9 DEF CellsOf
<1>18. c \in RowCells(row) BY <1>3, <1>4, <1>17 DEF RowCells
<1>19. p.cell = c /\ p.row = r /\ p.column = k BY <1>15
<1>20. p.column + Width(p.cell) <= NumCols BY <1>11, <1>13, <1>19
<1> HIDE DEF CellsOf, RowCells
<1>. QED BY <1>1, <1>2, <1>3, <1>4, <1>5, <1>9, <1>11, <1>16, <1>17, <1>18, <1>19, <1>20, Zenon

LEMMA PlacedApart ==
  ASSUME clusters \in [Rows -> Seq(ClusterType)], AbacusOk,
         NEW p, NEW r, NEW m, NEW j, PlacedAt(p, r, m, j),
         NEW q, NEW s, NEW n, NEW k, PlacedAt(q, s, n, k)
  PROVE  /\ p.cell = q.cell => p = q
         /\ p.cell # q.cell /\ p.row = q.row => Disjoint(p, q)
<1>1. /\ r \in Rows /\ m \in 1 .. Len(clusters[r])
      /\ clusters[r][m] \in ClusterType /\ ClusterOk(clusters[r][m])
      /\ j \in 1 .. Len(clusters[r][m].cells)
      /\ p = [cell |-> clusters[r][m].cells[j], row |-> r, column |-> ColumnOf(clusters[r][m], j)]
      /\ p.cell = clusters[r][m].cells[j] /\ p.row = r /\ p.column = ColumnOf(clusters[r][m], j)
      /\ p.cell \in CellsOf(clusters[r][m]) /\ p.cell \in RowCells(clusters[r])
  BY PlacedAtIs
<1>2. /\ s \in Rows /\ n \in 1 .. Len(clusters[s])
      /\ clusters[s][n] \in ClusterType /\ ClusterOk(clusters[s][n])
      /\ k \in 1 .. Len(clusters[s][n].cells)
      /\ q = [cell |-> clusters[s][n].cells[k], row |-> s, column |-> ColumnOf(clusters[s][n], k)]
      /\ q.cell = clusters[s][n].cells[k] /\ q.row = s /\ q.column = ColumnOf(clusters[s][n], k)
      /\ q.cell \in CellsOf(clusters[s][n]) /\ q.cell \in RowCells(clusters[s])
  BY PlacedAtIs
<1>3. PICK a \in ClusterType : a = clusters[r][m] BY <1>1
<1>4. PICK b \in ClusterType : b = clusters[s][n] BY <1>2
<1>5. /\ ClusterOk(a) /\ j \in 1 .. Len(a.cells) /\ p.cell = a.cells[j]
      /\ p.column = ColumnOf(a, j) /\ p.cell \in CellsOf(a)
  BY <1>1, <1>3
<1>6. /\ ClusterOk(b) /\ k \in 1 .. Len(b.cells) /\ q.cell = b.cells[k]
      /\ q.column = ColumnOf(b, k) /\ q.cell \in CellsOf(b)
  BY <1>2, <1>4
<1>7. r # s => p.cell # q.cell
  <2>1. r # s => RowCells(clusters[r]) \cap RowCells(clusters[s]) = {}
    BY <1>1, <1>2 DEF AbacusOk
  <2>. QED BY <1>1, <1>2, <2>1
<1>8. CASE r = s /\ m = n /\ j = k BY <1>1, <1>2, <1>8
<1>9. CASE r = s /\ m = n /\ j # k
  <2>1. a = b BY <1>3, <1>4, <1>9
  <2>2. a.cells[j] # a.cells[k]
    <3>1. PICK c \in Seq(Cells) : c = a.cells BY ClusterFields
    <3>2. j \in DOMAIN c /\ k \in DOMAIN c BY <1>5, <1>6, <2>1, <3>1
    <3>. QED BY <1>5, <1>9, <3>1, <3>2 DEF ClusterOk, Abutting
  <2>3. j < k \/ k < j
    <3>1. PICK c \in Seq(Cells) : c = a.cells BY ClusterFields
    <3>2. j \in 1 .. Len(c) /\ k \in 1 .. Len(c) BY <1>5, <1>6, <2>1, <3>1
    <3>. QED BY <1>9, <3>2
  <2>4. j < k => ColumnOf(a, j) + Width(a.cells[j]) <= ColumnOf(a, k)
    BY <1>5, <1>6, <2>1, InCluster
  <2>5. k < j => ColumnOf(a, k) + Width(a.cells[k]) <= ColumnOf(a, j)
    BY <1>5, <1>6, <2>1, InCluster
  <2>6. Disjoint(p, q) BY <1>5, <1>6, <2>1, <2>3, <2>4, <2>5 DEF Disjoint
  <2>. QED BY <1>5, <1>6, <2>1, <2>2, <2>6
<1>10. CASE r = s /\ m # n
  <2>1. PICK row \in Seq(ClusterType) : row = clusters[r] BY <1>1
  <2>2. /\ m \in DOMAIN row /\ n \in DOMAIN row /\ a = row[m] /\ b = row[n]
        /\ m \in Int /\ n \in Int
    BY <1>1, <1>2, <1>3, <1>4, <1>10, <2>1
  <2>3. RowOk(row) BY <1>1, <2>1 DEF AbacusOk
  <2>4. /\ m < n => a.x + a.width <= b.x /\ CellsOf(a) \cap CellsOf(b) = {}
        /\ n < m => b.x + b.width <= a.x /\ CellsOf(b) \cap CellsOf(a) = {}
    BY <2>2, <2>3 DEF RowOk
  <2>5. m < n \/ n < m BY <1>10, <2>2
  <2>6. p.cell # q.cell BY <1>5, <1>6, <2>4, <2>5
  <2>7. /\ ColumnOf(a, j) \in Int /\ a.x <= ColumnOf(a, j) /\ a.cells[j] \in Placeable
        /\ ColumnOf(a, j) + Width(a.cells[j]) <= a.x + a.width
    BY <1>5, InCluster
  <2>8. /\ ColumnOf(b, k) \in Int /\ b.x <= ColumnOf(b, k) /\ b.cells[k] \in Placeable
        /\ ColumnOf(b, k) + Width(b.cells[k]) <= b.x + b.width
    BY <1>6, InCluster
  <2>9. /\ a.x \in Int /\ a.width \in Nat /\ b.x \in Int /\ b.width \in Nat
        /\ Width(a.cells[j]) \in Nat /\ Width(b.cells[k]) \in Nat
    BY <2>7, <2>8, ClusterFields, ConstantTypes, Zenon
  <2>10. PICK u \in Int, v \in Int, ax \in Int, bx \in Int, aw \in Nat, bw \in Nat, w \in Nat, z \in Nat :
           /\ u = ColumnOf(a, j) /\ v = ColumnOf(b, k) /\ ax = a.x /\ bx = b.x
           /\ aw = a.width /\ bw = b.width /\ w = Width(a.cells[j]) /\ z = Width(b.cells[k])
    BY <2>7, <2>8, <2>9, Zenon
  <2>11. /\ ax <= u /\ u + w <= ax + aw /\ bx <= v /\ v + z <= bx + bw
         /\ m < n => ax + aw <= bx
         /\ n < m => bx + bw <= ax
    BY <2>4, <2>7, <2>8, <2>10, Zenon
  <2>12. u + w <= v \/ v + z <= u BY <2>5, <2>11
  <2>13. Disjoint(p, q) BY <1>5, <1>6, <2>10, <2>12 DEF Disjoint
  <2>. QED BY <2>6, <2>13
<1>11. CASE r # s BY <1>1, <1>2, <1>7, <1>11
<1>. QED BY <1>8, <1>9, <1>10, <1>11

LEMMA ClusterPlacesCanBePut ==
  ASSUME LooseGrid, Honest, clusters \in [Rows -> Seq(ClusterType)], AbacusOk, queue = <<>>
  PROVE  CanBePut(ClusterPlaces) /\ InGroup(ClusterPlaces) = Placeable
<1>1. PICK g \in Seq(LoosePlaces) : g = ClusterPlaces BY ClusterPlacesLoose
<1>2. ASSUME NEW n \in DOMAIN g PROVE \E r, m, j : PlacedAt(g[n], r, m, j)
  <2>1. g[n] \in Members(ClusterPlaces) BY <1>1 DEF Members
  <2>. QED BY <2>1, ClusterPlacesAre
<1>3. \A n \in DOMAIN g : /\ g[n] \in Places /\ g[n].cell \in Placeable
                          /\ g[n].column + Width(g[n].cell) <= NumCols
  <2> SUFFICES ASSUME NEW n \in DOMAIN g
               PROVE  /\ g[n] \in Places /\ g[n].cell \in Placeable
                      /\ g[n].column + Width(g[n].cell) <= NumCols
    OBVIOUS
  <2>1. PICK p : p = g[n] OBVIOUS
  <2>2. PICK r, m, j : PlacedAt(p, r, m, j) BY <1>2, <2>1
  <2>3. p \in Places /\ p.cell \in Placeable /\ p.column + Width(p.cell) <= NumCols
    BY <2>2, PlacedAtIs
  <2>. QED BY <2>1, <2>3
<1>4. InGroup(g) = Placeable
  <2>1. ASSUME NEW c \in Placeable PROVE \E n \in DOMAIN g : g[n].cell = c
    <3>1. QueueCells = {} BY DEF QueueCells
    <3>2. PICK r \in Rows : c \in RowCells(clusters[r]) BY <3>1 DEF AbacusOk
    <3>3. PICK m \in DOMAIN clusters[r] : c \in CellsOf(clusters[r][m]) BY <3>2 DEF RowCells
    <3>4. PICK j \in DOMAIN clusters[r][m].cells : c = clusters[r][m].cells[j]
      BY <3>3 DEF CellsOf
    <3>5. /\ m \in 1 .. Len(clusters[r]) /\ j \in 1 .. Len(clusters[r][m].cells)
      <4>1. PICK row \in Seq(ClusterType) : row = clusters[r] BY <3>2
      <4>2. m \in 1 .. Len(row) /\ row[m] \in ClusterType BY <3>3, <4>1
      <4>3. PICK s \in Seq(Cells) : s = row[m].cells BY <4>2, ClusterFields
      <4>4. j \in 1 .. Len(s) BY <3>4, <4>1, <4>3
      <4>. QED BY <4>1, <4>2, <4>3, <4>4
    <3>6. PICK p : p = [cell |-> c, row |-> r, column |-> ColumnOf(clusters[r][m], j)] BY Zenon
    <3>7. PlacedAt(p, r, m, j) BY <3>2, <3>4, <3>5, <3>6 DEF PlacedAt
    <3>8. p \in Members(g) BY <1>1, <3>7, ClusterPlacesAre
    <3>9. p.cell = c BY <3>6
    <3>. QED BY <3>8, <3>9 DEF Members
  <2>2. \A n \in DOMAIN g : g[n].cell \in Placeable BY <1>3
  <2>. QED BY <2>1, <2>2
<1>5. g \in Seq(Places)
  <2>1. PICK h \in Nat : DOMAIN g = 1 .. h BY <1>1
  <2>2. g \in [1 .. h -> Places] BY <1>1, <1>3, <2>1
  <2>. QED BY <2>1, <2>2
<1>6. ASSUME NEW n \in DOMAIN g PROVE PlaceIsOpen(g, g[n])
  <2>1. g[n].row \in Rows BY <1>3 DEF Places
  <2>2. \A k \in Columns : sites[g[n].row][k] \in InGroup(g) \cup {Null}
    <3> HIDE DEF InGroup
    <3>. QED BY <1>4, <2>1 DEF Honest
  <2> HIDE DEF InGroup
  <2>. QED BY <1>3, <2>2 DEF PlaceIsOpen
<1>7. ASSUME NEW n \in DOMAIN g, NEW m \in DOMAIN g
      PROVE  /\ g[n].cell = g[m].cell => g[n] = g[m]
             /\ g[n].cell # g[m].cell /\ g[n].row = g[m].row => Disjoint(g[n], g[m])
  <2>1. PICK p, q : p = g[n] /\ q = g[m] OBVIOUS
  <2>2. PICK r, u, j : PlacedAt(p, r, u, j) BY <1>2, <2>1
  <2>3. PICK s, v, k : PlacedAt(q, s, v, k) BY <1>2, <2>1
  <2>4. /\ p.cell = q.cell => p = q
        /\ p.cell # q.cell /\ p.row = q.row => Disjoint(p, q)
    BY <2>2, <2>3, PlacedApart
  <2>. QED BY <2>1, <2>4
<1> HIDE DEF InGroup
<1>8. CanBePut(g) BY <1>5, <1>6, <1>7 DEF CanBePut
<1>. QED BY <1>1, <1>4, <1>8

-----------------------------------------------------------------------------
(***************************************************************************)
(* Legalization and the passes together.  Putting every placeable cell     *)
(* makes any grid legal, and a legal one passes the checks.                *)
(***************************************************************************)
LEMMA PutAllLegal ==
  ASSUME NEW g, LooseGrid, Honest, CanBePut(g), InGroup(g) = Placeable,
         PutCells(g), pos' = PutFast(pos, g)
  PROVE  GridType' /\ LegalGrid' /\ AsOnGrid({})'
<1>1. /\ cellRow \in [Cells -> Rows] /\ pos \in [Cells -> [x : Int, y : Int]]
      /\ \A c \in Cells \ Placeable : cellSiteIdx[c] \in Columns
  BY DEF LooseGrid, PosType
<1>2. /\ cellRow' \in [Cells -> Rows] /\ cellSiteIdx' \in [Cells -> Columns]
      /\ \A n \in DOMAIN g : /\ cellRow'[g[n].cell] = g[n].row
                             /\ cellSiteIdx'[g[n].cell] = g[n].column
  <2>1. \A c \in Cells \ InGroup(g) : cellSiteIdx[c] \in Columns
    <3> HIDE DEF InGroup
    <3>. QED BY <1>1
  <2>. QED BY <1>1, <2>1, PutCellsWritesPlaces
<1>3. \A n \in DOMAIN g : /\ g[n] \in Places /\ g[n].cell \in Placeable
                          /\ g[n].column + Width(g[n].cell) <= NumCols
  BY DEF CanBePut, PlaceIsOpen
<1>4. g \in Seq(LoosePlaces)
  <2>1. ASSUME NEW n \in DOMAIN g PROVE g[n] \in LoosePlaces
    <3>1. g[n] \in [cell : Cells, row : Rows, column : Columns] BY <1>3 DEF Places
    <3>2. \A k \in Columns : k \in Int BY ConstantTypes
    <3>. QED BY <1>3, <3>1, <3>2 DEF LoosePlaces
  <2>2. g \in Seq(Places) BY DEF CanBePut
  <2>3. PICK h \in Nat : DOMAIN g = 1 .. h BY <2>2
  <2>4. g \in [1 .. h -> LoosePlaces] BY <2>1, <2>2, <2>3
  <2>. QED BY <2>3, <2>4
<1>5. sites' \in [Rows -> [Columns -> Cells \cup {Null}]] /\ Honest' BY <1>4, PutCellsLoose
<1>6. pos' \in [Cells -> [x : Int, y : Int]] BY <1>1, <1>4, PutFastType
<1>7. GridType' BY <1>2, <1>5, <1>6 DEF GridType
<1>8. ASSUME NEW c \in Placeable
      PROVE  \E n \in DOMAIN g : g[n].cell = c /\ cellRow'[c] = g[n].row
                                 /\ cellSiteIdx'[c] = g[n].column /\ PlaceOf(g, c) = g[n]
  <2>1. PICK n \in DOMAIN g : g[n].cell = c OBVIOUS
  <2>2. PlaceOf(g, c) = g[n] BY <2>1, PlaceInGroup
  <2>. QED BY <1>2, <2>1, <2>2
<1>9. InsideGrid'
  <2>1. ASSUME NEW c \in Placeable PROVE cellSiteIdx'[c] + CellSitesNum[c] <= NumCols
    <3>1. PICK n \in DOMAIN g : g[n].cell = c /\ cellSiteIdx'[c] = g[n].column BY <1>8
    <3>. QED BY <1>3, <3>1 DEF Width
  <2>. QED BY <2>1 DEF InsideGrid
<1>10. SitesDescribeCells'
  <2> SUFFICES ASSUME NEW r \in Rows, NEW k \in Columns, NEW c \in Cells
               PROVE  sites'[r][k] = c <=> /\ c \in Placeable /\ cellRow'[c] = r
                                           /\ Covers(cellSiteIdx'[c], c, k)
    BY DEF SitesDescribeCells
  <2>1. ASSUME sites'[r][k] = c
        PROVE  c \in Placeable /\ cellRow'[c] = r /\ Covers(cellSiteIdx'[c], c, k)
    <3>1. sites'[r][k] # Null BY <2>1, ConstantTypes
    <3> HIDE DEF Covers
    <3>. QED BY <1>5, <2>1, <3>1 DEF Honest
  <2>2. ASSUME c \in Placeable, cellRow'[c] = r, Covers(cellSiteIdx'[c], c, k)
        PROVE  sites'[r][k] = c
    <3>1. PICK n \in DOMAIN g : /\ g[n].cell = c /\ cellRow'[c] = g[n].row
                                /\ cellSiteIdx'[c] = g[n].column
      BY <1>8, <2>2
    <3> HIDE DEF Covers
    <3>. QED BY <2>2, <3>1, PutCellsSites
  <2>. QED BY <2>1, <2>2
<1>11. ASSUME NEW c \in Placeable PROVE pos'[c] = Site(cellRow'[c], cellSiteIdx'[c])
  <2>1. PICK n \in DOMAIN g : /\ g[n].cell = c /\ cellRow'[c] = g[n].row
                              /\ cellSiteIdx'[c] = g[n].column /\ PlaceOf(g, c) = g[n]
    BY <1>8
  <2>2. c \in Cells /\ c \in InGroup(g) BY ConstantTypes
  <2>3. pos'[c] = Site(PlaceOf(g, c).row, PlaceOf(g, c).column)
    <3> HIDE DEF InGroup, Site
    <3>. QED BY <2>2 DEF PutFast
  <2>. QED BY <2>1, <2>3
<1>. QED BY <1>7, <1>9, <1>10, <1>11 DEF LegalGrid, AsOnGrid

LEMMA LegalPasses ==
  ASSUME GridType, LegalGrid, AsOnGrid({})
  PROVE  CheckGridBoundary /\ CheckGridConsistency /\ CheckOverlaps
<1>1. ASSUME NEW c \in Placeable
      PROVE  /\ c \in Cells /\ cellRow[c] \in Rows /\ cellSiteIdx[c] \in Columns
             /\ pos[c] = Site(cellRow[c], cellSiteIdx[c])
             /\ cellSiteIdx[c] + CellSitesNum[c] <= NumCols /\ CellSitesNum[c] \in Nat
  <2>1. c \in Cells BY ConstantTypes
  <2>. QED BY <2>1, ConstantTypes, Zenon DEF GridType, LegalGrid, InsideGrid, AsOnGrid, Width
<1>2. CheckGridConsistency BY <1>1 DEF CheckGridConsistency
<1>3. CheckGridBoundary
  <2> SUFFICES ASSUME NEW c \in Placeable
               PROVE  /\ pos[c].x >= ColumnX(0)
                      /\ pos[c].x + 2 * CellSitesNum[c] <= ColumnX(NumCols)
                      /\ pos[c].y >= RowY(0)
                      /\ pos[c].y <= RowY(NumRows - 1)
    BY DEF CheckGridBoundary
  <2>1. NumRows \in Nat /\ NumCols \in Nat BY ConstantTypes
  <2>2. PICK r \in Nat, k \in Nat, w \in Nat :
           /\ r = cellRow[c] /\ k = cellSiteIdx[c] /\ w = CellSitesNum[c] /\ r <= NumRows - 1
    <3>1. cellRow[c] \in Nat /\ cellRow[c] <= NumRows - 1
      <4>1. PICK r \in Rows : r = cellRow[c] BY <1>1, Zenon
      <4>2. r \in Nat /\ r <= NumRows - 1 BY <2>1 DEF Rows
      <4>. QED BY <4>1, <4>2
    <3>2. cellSiteIdx[c] \in Nat BY <1>1, ConstantTypes, Zenon
    <3>. QED BY <1>1, <3>1, <3>2, Zenon
  <2>3. pos[c].x = 2 * k /\ pos[c].y = 2 * r
    <3>1. pos[c] = Site(r, k) BY <1>1, <2>2
    <3>2. Site(r, k).x = 2 * k /\ Site(r, k).y = 2 * r OBVIOUS
    <3>. QED BY <3>1, <3>2
  <2>4. k + w <= NumCols BY <1>1, <2>2, Zenon
  <2>. QED BY <2>1, <2>2, <2>3, <2>4
<1>4. CheckOverlaps
  <2> SUFFICES ASSUME NEW c \in Placeable, NEW k \in Columns, Covers(cellSiteIdx[c], c, k)
               PROVE  sites[cellRow[c]][k] \in {c, Null}
    BY DEF CheckOverlaps
  <2> HIDE DEF Covers
  <2>. QED BY <1>1, Zenon DEF LegalGrid, SitesDescribeCells
<1>. QED BY <1>2, <1>3, <1>4

(* A pass of swaps begins, or goes on with the next cell, from a legal
   placement between trials. *)
LEMMA RestIsSwapStart == AtRest /\ FlowControl /\ op = "cell" => IInv
<1> SUFFICES ASSUME AtRest, FlowControl, op = "cell" PROVE IInv
  OBVIOUS
<1>1. NoTrial /\ cur \in 0 .. Len(CellOrder)
  <2>1. Len(CellOrder) \in Nat BY GridAssumption
  <2>. QED BY <2>1 DEF FlowControl, TrialOps
<1>2. SwapType
  <2>1. ZoneType
    <3>1. zone = [left |-> 0, width |-> 0] BY <1>1 DEF NoTrial
    <3>. QED BY <3>1 DEF ZoneType
  <2>. QED BY <1>1, <2>1 DEF SwapType, AtRest
<1>3. NothingShifted BY <1>1 DEF NoTrial, NothingShifted
<1>4. CellComesFromOutside BY DEF CellComesFromOutside
<1>5. group = <<>> BY <1>1 DEF NoTrial
<1>6. AsOnGrid(InGroup(group))
  <2> HIDE DEF InGroup
  <2>. QED BY <1>5, NoGroup, Zenon DEF AtRest
<1>7. ShiftInv BY DEF ShiftInv, Shifting
<1>. QED BY <1>2, <1>3, <1>4, <1>6, <1>7 DEF IInv, AtRest

LEMMA SwapEndIsRest ==
  ASSUME IInv, op = "cell"
  PROVE  AtRest
<1>1. group = <<>> BY DEF IInv, NothingShifted
<1>2. AsOnGrid({})
  <2> HIDE DEF InGroup
  <2>. QED BY <1>1, NoGroup DEF IInv
<1>. QED BY <1>2 DEF IInv, SwapType, AtRest

(* The wire lengths as they are calculated between the passes. *)
LEMMA CalculateRests ==
  ASSUME GridType, LegalGrid, AsOnGrid({}), Calculate
  PROVE  AtRest'
<1>1. UNCHANGED <<gridVars, pos>> /\ UpdateCachedValues(pos, Nets) BY DEF Calculate
<1>2. GridType' /\ LegalGrid' /\ AsOnGrid({})'
  BY <1>1 DEF gridVars, GridType, LegalGrid, InsideGrid, SitesDescribeCells, AsOnGrid
<1>3. GridCoordinates' = pos' BY <1>2, Zenon DEF GridType, AsOnGrid, GridCoordinates
<1>4. netHPWL' = [n \in Nets |-> CalcNetHPWL(pos, n)] BY <1>1 DEF UpdateCachedValues
<1>5. CacheInv' BY <1>1, <1>3, <1>4 DEF CacheInv, CalcNetHPWL, PinsOf, Pin
<1>. QED BY <1>2, <1>5 DEF AtRest

LEMMA RestStays ==
  ASSUME AtRest, UNCHANGED <<gridVars, pos, netHPWL>>
  PROVE  AtRest'
<1>1. GridType' /\ LegalGrid' /\ AsOnGrid({})'
  BY DEF gridVars, AtRest, GridType, LegalGrid, InsideGrid, SitesDescribeCells, AsOnGrid
<1>2. CacheInv'
  BY DEF gridVars, AtRest, CacheInv, GridCoordinates, CalcNetHPWL, PinsOf, Pin
<1>. QED BY <1>1, <1>2 DEF AtRest

\* A step of a pass of swaps is taken in the pass, and does not end it
SwapOps == TrialOps \cup {"cell"}

LEMMA WithinSwaps == SwapStep => op \in SwapOps /\ op' \in SwapOps /\ UNCHANGED trusted
<1> DEFINE InPass == op' \in SwapOps /\ UNCHANGED trusted
<1>1. Skip /\ op = "cell" => InPass BY DEF Skip, SwapOps
<1>2. \A rs, z : Look(rs, z) => InPass BY DEF Look, SwapOps, TrialOps
<1>3. \A g : Accept(g) => InPass BY DEF Accept, SwapOps
<1>4. \A g : Reject(g) => UNCHANGED trusted BY DEF Reject
<1>5. GlobalProcessCell \/ VerticalProcessCell => op = "cell" /\ InPass
  <2> HIDE DEF InPass
  <2>. QED BY <1>1, <1>2, Zenon DEF GlobalProcessCell, VerticalProcessCell
<1>6. TooFull => op = "move" /\ InPass BY DEF TooFull, NextRow, Trying, SwapOps, TrialOps
<1>7. TryToMoveWithoutShifting => op = "move" /\ InPass
  BY <1>3, <1>4 DEF TryToMoveWithoutShifting, NextRow, Trying, SwapOps, TrialOps
<1>8. TryToMoveWithShifting => op = "move" /\ InPass
  BY DEF TryToMoveWithShifting, Trying, SwapOps, TrialOps
<1>9. ShiftOneMore => op = "shift" /\ InPass BY DEF ShiftOneMore, Trying, SwapOps, TrialOps
<1>10. JudgeShift => op = "judge" /\ InPass
  BY <1>3, <1>4 DEF JudgeShift, Trying, SwapOps, TrialOps
<1>11. RowsExhausted => op = "move" /\ InPass BY DEF RowsExhausted, SwapOps, TrialOps
<1>12. NobodyLeftInRow => op = "exchange" /\ InPass
  BY DEF NobodyLeftInRow, Trying, SwapOps, TrialOps
<1>13. CellStays => op = "exchange" /\ InPass BY DEF CellStays, SwapOps, TrialOps
<1>14. TryToExchangeWithCell => op = "exchange" /\ InPass
  BY <1>3, <1>4 DEF TryToExchangeWithCell, AfterTrial, Trying, SwapOps, TrialOps
<1> HIDE DEF InPass
<1>15. SwapStep => op \in {"cell", "move", "shift", "judge", "exchange"} /\ InPass
  BY <1>5, <1>6, <1>7, <1>8, <1>9, <1>10, <1>11, <1>12, <1>13, <1>14 DEF SwapStep
<1>. QED BY <1>15 DEF InPass, SwapOps, TrialOps

(***************************************************************************)
(* The invariant.  Abacus is at work only on what is not legal yet; from   *)
(* its success on the placement is legal whenever no trial is under way,   *)
(* and every trial is one of the invariant of the swaps.                   *)
(***************************************************************************)
FlowInv ==
  /\ FlowType
  /\ op = "legalize" => AbacusOk /\ ~ trusted
  /\ trusted =>
       /\ op \in TrialOps \cup {"cell"} => IInv
       /\ op \in {"row", "done"} => AtRest
       /\ op = "measure" => GridType /\ LegalGrid /\ AsOnGrid({})

LEMMA InitFlowInv == Init => FlowInv
<1> SUFFICES ASSUME Init PROVE FlowInv
  OBVIOUS
<1>1. op = "cell" /\ trusted = FALSE BY DEF Init
<1>. QED BY <1>1, InitFlow DEF FlowInv

LEMMA LegalityControlInv == FlowInv /\ LegalityControl => FlowInv'
<1> SUFFICES ASSUME FlowInv, LegalityControl PROVE FlowInv'
  OBVIOUS
<1>1. /\ op \in {"cell", "row"}
      /\ UNCHANGED <<gridVars, pos, netHPWL, trusted>>
      /\ IF CheckGridBoundary /\ CheckGridConsistency /\ CheckOverlaps
         THEN op' = "measure" ELSE op' = "legalize" /\ StartLegalization
  BY DEF LegalityControl, PassOver
<1>2. FlowType' BY LegalityControlFlow DEF FlowInv
<1>3. CASE trusted
  <2>1. AtRest BY <1>1, <1>3, SwapEndIsRest DEF FlowInv
  <2>2. GridType /\ LegalGrid /\ AsOnGrid({}) BY <2>1 DEF AtRest
  <2>3. op' = "measure" BY <1>1, <2>2, LegalPasses
  <2>4. AtRest' BY <1>1, <2>1, RestStays
  <2>. QED BY <1>2, <2>3, <2>4 DEF FlowInv, AtRest, TrialOps
<1>4. CASE ~ trusted
  <2>1. op' = "legalize" => AbacusOk' BY <1>1, StartAbacus
  <2>. QED BY <1>1, <1>2, <1>4, <2>1 DEF FlowInv
<1>. QED BY <1>3, <1>4

LEMMA LegalizeCellInv == FlowInv /\ LegalizeCell => FlowInv'
<1> SUFFICES ASSUME FlowInv, LegalizeCell PROVE FlowInv'
  OBVIOUS
<1>1. op = "legalize" /\ PlaceCellIntoRow /\ UNCHANGED swapVars
  BY DEF LegalizeCell, Legalizing
<1>2. op' = "legalize" /\ UNCHANGED trusted BY <1>1 DEF swapVars
<1>3. FlowType' BY LegalizeCellFlow DEF FlowInv
<1>4. PosType /\ AbacusType /\ AbacusOk /\ ~ trusted
  BY <1>1 DEF FlowInv, FlowType, FlowGrid, LooseGrid
<1>5. AbacusOk' BY <1>1, <1>4, PlaceCellAbacus
<1>. QED BY <1>2, <1>3, <1>4, <1>5 DEF FlowInv

LEMMA UpdateCellsInv == FlowInv /\ UpdateCellsCoordinates => FlowInv'
<1> SUFFICES ASSUME FlowInv, UpdateCellsCoordinates PROVE FlowInv'
  OBVIOUS
<1>1. /\ op = "legalize" /\ queue = <<>> /\ op' = "measure"
      /\ PutCells(ClusterPlaces) /\ pos' = PutFast(pos, ClusterPlaces)
  BY DEF UpdateCellsCoordinates, Legalizing
<1>2. FlowType' BY UpdateFlow DEF FlowInv
<1>3. /\ LooseGrid /\ Honest /\ clusters \in [Rows -> Seq(ClusterType)] /\ AbacusOk
  BY <1>1 DEF FlowInv, FlowType, FlowGrid, AbacusType
<1> HIDE DEF InGroup
<1>4. CanBePut(ClusterPlaces) /\ InGroup(ClusterPlaces) = Placeable
  BY <1>1, <1>3, ClusterPlacesCanBePut
<1>5. GridType' /\ LegalGrid' /\ AsOnGrid({})'
  BY <1>1, <1>3, <1>4, PutAllLegal
<1>. QED BY <1>1, <1>2, <1>5 DEF FlowInv, TrialOps

LEMMA LegalizationFailsInv == FlowInv /\ LegalizationFails => FlowInv'
<1> SUFFICES ASSUME FlowInv, LegalizationFails PROVE FlowInv'
  OBVIOUS
<1>1. op' = "measure" /\ trusted' = FALSE BY DEF LegalizationFails
<1>2. FlowType' BY LegalizationFailsFlow DEF FlowInv
<1>. QED BY <1>1, <1>2 DEF FlowInv

LEMMA MeasureInv ==
  FlowInv /\ (StartIterations \/ NextStage \/ NextIteration \/ Finish) => FlowInv'
<1> SUFFICES ASSUME FlowInv, StartIterations \/ NextStage \/ NextIteration \/ Finish
             PROVE  FlowInv'
  OBVIOUS
<1>1. Calculate /\ op' \in {"cell", "row", "done"}
  BY DEF StartIterations, NextStage, NextIteration, Finish, Enter
<1>2. op = "measure" /\ UNCHANGED trusted BY <1>1 DEF Calculate
<1>3. FlowType' BY MeasureFlow DEF FlowInv
<1>4. CASE trusted
  <2>1. AtRest' BY <1>1, <1>2, <1>4, CalculateRests DEF FlowInv
  <2>2. FlowControl' BY <1>3 DEF FlowType, FlowGrid
  <2>3. op' = "cell" => IInv'
    <3>1. (AtRest /\ FlowControl /\ op = "cell" => IInv)' BY RestIsSwapStart, PTL
    <3>. QED BY <2>1, <2>2, <3>1
  <2>. QED BY <1>1, <1>3, <2>1, <2>3 DEF FlowInv, TrialOps
<1>5. CASE ~ trusted BY <1>1, <1>2, <1>3, <1>5 DEF FlowInv
<1>. QED BY <1>4, <1>5

LEMMA SwapsInv ==
  FlowInv /\ SwapStep /\ UNCHANGED <<horizontalVars, abacusVars, wl, wlBeforeIteration>> => FlowInv'
<1> SUFFICES ASSUME FlowInv, SwapStep, UNCHANGED <<horizontalVars, abacusVars, wl, wlBeforeIteration>>
             PROVE  FlowInv'
  OBVIOUS
<1>1. FlowType'
  <2>1. [Next]_vars BY DEF Next
  <2>. QED BY <2>1, StepFlow DEF FlowInv
<1>2. op \in SwapOps /\ op' \in SwapOps /\ UNCHANGED trusted BY WithinSwaps
<1>3. op' \notin {"row", "done", "measure", "legalize"} BY <1>2 DEF SwapOps, TrialOps
<1>4. trusted => IInv' BY <1>2, StepInv DEF FlowInv, SwapOps
<1>. QED BY <1>1, <1>2, <1>3, <1>4 DEF FlowInv

LEMMA HorizontalInv ==
  FlowInv /\ HorizontalStep /\ UNCHANGED <<abacusVars, wl, wlBeforeIteration>> => FlowInv'
<1> SUFFICES ASSUME FlowInv, HorizontalStep, UNCHANGED <<abacusVars, wl, wlBeforeIteration>>
             PROVE  FlowInv'
  OBVIOUS
<1>1. FlowType'
  <2>1. [Next]_vars BY DEF Next
  <2>. QED BY <2>1, StepFlow DEF FlowInv
<1>2. op = "row" /\ op' = "row" /\ UNCHANGED trusted /\ cur < NumRows
  BY DEF HorizontalStep, ProcessGroup, NextRowOfCells
<1>3. CASE trusted
  <2>1. AtRest BY <1>2, <1>3 DEF FlowInv
  <2>2. RowIdx \in Rows /\ nextColumnIdx \in -1 .. NumCols
    <3>1. cur \in Nat /\ nextColumnIdx \in -1 .. NumCols
      BY DEF FlowInv, FlowType, FlowGrid, FlowControl, AbacusType
    <3>. QED BY <1>2, <3>1, ConstantTypes DEF RowIdx, Rows
  <2>3. CASE ProcessGroup BY <1>1, <1>2, <2>1, <2>2, <2>3, ProcessGroupLegal DEF FlowInv, TrialOps
  <2>4. CASE NextRowOfCells
    <3>1. AtRest' BY <2>1, <2>4, RestStays DEF NextRowOfCells
    <3>. QED BY <1>1, <1>2, <3>1 DEF FlowInv, TrialOps
  <2>. QED BY <2>3, <2>4 DEF HorizontalStep
<1>4. CASE ~ trusted BY <1>1, <1>2, <1>4 DEF FlowInv
<1>. QED BY <1>3, <1>4

LEMMA StepFlowInv == FlowInv /\ [Next]_vars => FlowInv'
<1> SUFFICES ASSUME FlowInv, [Next]_vars PROVE FlowInv'
  OBVIOUS
<1>1. CASE UNCHANGED vars
  <2>1. FlowType' BY <1>1, StepFlow DEF FlowInv
  <2>2. /\ UNCHANGED <<gridVars, pos, netHPWL, op, trusted, abacusVars>>
        /\ UNCHANGED swapVars
    BY <1>1 DEF vars, swapVars
  <2>3. CASE trusted
    <3>1. op \in TrialOps \cup {"cell"} => IInv' BY <2>2, <2>3, StepInv DEF FlowInv
    <3>2. op \in {"row", "done"} => AtRest' BY <2>2, <2>3, RestStays DEF FlowInv
    <3>3. op = "measure" => GridType' /\ LegalGrid' /\ AsOnGrid({})'
      BY <2>2, <2>3 DEF FlowInv, gridVars, GridType, LegalGrid, InsideGrid, SitesDescribeCells,
                        AsOnGrid
    <3>. QED BY <2>1, <2>2, <2>3, <3>1, <3>2, <3>3 DEF FlowInv
  <2>4. CASE ~ trusted
    <3>1. AbacusOk => AbacusOk'
      <4>1. clusters' = clusters /\ queue' = queue BY <2>2 DEF abacusVars
      <4>2. QueueCells' = QueueCells BY <4>1 DEF QueueCells
      <4> HIDE DEF QueueCells
      <4>. QED BY <4>1, <4>2, Zenon DEF AbacusOk
    <3>. QED BY <2>1, <2>2, <2>4, <3>1 DEF FlowInv
  <2>. QED BY <2>3, <2>4
<1>. QED BY <1>1, LegalityControlInv, LegalizeCellInv, UpdateCellsInv, LegalizationFailsInv,
     MeasureInv, SwapsInv, HorizontalInv DEF Next, Done

THEOREM FlowInvariant == Spec => []FlowInv
BY InitFlowInv, StepFlowInv, PTL DEF Spec

(***************************************************************************)
(* Once a legalization has succeeded the placement stays legal through all *)
(* passes of detailed placement: no two cells overlap, none leaves the     *)
(* grid, and the coordinates are those of the grid.                        *)
(***************************************************************************)
THEOREM PlacementStaysLegal == Spec => []PlacementLegal
<1>1. FlowInv => PlacementLegal
  <2> SUFFICES ASSUME FlowInv, trusted, op \notin {"shift", "judge"}
               PROVE  Legal
    BY DEF PlacementLegal
  <2>1. op \in TrialOps \cup {"cell", "row", "legalize", "measure", "done"} /\ op # "legalize"
    BY DEF FlowInv, FlowType, FlowGrid, FlowControl
  <2>2. CASE op \in TrialOps \cup {"cell"}
    <3>1. IInv BY <2>2 DEF FlowInv
    <3> HIDE DEF InGroup
    <3>. QED BY <3>1, NoGroup, Zenon DEF IInv, Legal, LegalGrid, NothingShifted, AsOnGrid,
                CheckGridConsistency
  <2>3. CASE op \in {"row", "done"} BY <2>3, RestIsLegal DEF FlowInv
  <2>4. CASE op = "measure"
    BY <2>4 DEF FlowInv, Legal, LegalGrid, AsOnGrid, CheckGridConsistency
  <2>. QED BY <2>1, <2>2, <2>3, <2>4
<1>. QED BY <1>1, FlowInvariant, PTL

(***************************************************************************)
(* Whenever cells are shifted in a legal placement, in whatever round, the *)
(* assertion freeSiteIdx <= forbiddenSiteIdx of ReleaseSpaceForCell holds. *)
(***************************************************************************)
THEOREM ShiftsStayInZone == Spec => []ShiftStaysInZone
<1>1. FlowInv => ShiftStaysInZone
  <2> SUFFICES ASSUME FlowInv, trusted, op \in {"shift", "judge"}
               PROVE  freeSite <= zone.left + zone.width
    BY DEF ShiftStaysInZone
  <2>0. IInv BY DEF FlowInv, TrialOps
  <2>1. freeSite \in Int /\ freeSite <= ZoneLimit BY <2>0 DEF IInv, ShiftInv, Shifting
  <2>2. zone.left \in Int /\ zone.width \in Int /\ ZoneLimit <= zone.left + zone.width
        /\ ZoneLimit \in Int
    BY <2>0, ZoneBounds DEF IInv, SwapType, ZoneType
  <2>. QED BY <2>1, <2>2
<1>. QED BY <1>1, FlowInvariant, PTL

(***************************************************************************)
(* Every trial of every pass is judged against the true lengths: the       *)
(* cached ones are those of the wires whenever a pass looks at them.       *)
(***************************************************************************)
THEOREM CachedLengthsStayExact == Spec => []CachedLengthsExact
<1>1. FlowInv => CachedLengthsExact
  <2> SUFFICES ASSUME FlowInv, trusted, op \notin {"shift", "judge", "legalize", "measure"}
               PROVE  netHPWL = [n \in Nets |-> CalcNetHPWL(pos, n)]
    BY DEF CachedLengthsExact
  <2>1. op \in TrialOps \cup {"cell"} \/ op \in {"row", "done"}
    BY DEF FlowInv, FlowType, FlowGrid, FlowControl
  <2>2. CASE op \in TrialOps \cup {"cell"}
    <3>0. IInv BY <2>2 DEF FlowInv
    <3> HIDE DEF InGroup
    <3>1. GridCoordinates = pos
      BY <3>0, NoGroup, BetweenTrials, Zenon DEF IInv, SwapType, NothingShifted
    <3>. QED BY <3>0, <3>1 DEF IInv, CacheInv
  <2>3. CASE op \in {"row", "done"} BY <2>3, RestIsLegal DEF FlowInv
  <2>. QED BY <2>1, <2>2, <2>3
<1>. QED BY <1>1, FlowInvariant, PTL

-----------------------------------------------------------------------------
(***************************************************************************)
(* Sums over a finite set, as MapThenSumSet takes them: one element at a   *)
(* time, whichever CHOOSE gives.  The induction is over sets of numbers    *)
(* and sets of sets, each with a least element not reached yet.            *)
(***************************************************************************)
LEMMA SubsetInduction ==
  ASSUME NEW S, IsFiniteSet(S), NEW Q,
         \A s \in SUBSET S : (\A x \in s : s \ {x} \in Q) => s \in Q
  PROVE  SUBSET S \subseteq Q
<1> SUFFICES ASSUME ~ (SUBSET S \subseteq Q) PROVE FALSE
  OBVIOUS
<1> DEFINE Sizes == {Cardinality(s) : s \in (SUBSET S) \ Q}
<1>1. \A s \in SUBSET S : IsFiniteSet(s) /\ Cardinality(s) \in Nat
  BY FS_Subset, FS_CardinalityType
<1>2. Sizes \subseteq Nat /\ Sizes # {} BY <1>1
<1> HIDE DEF Sizes
<1>3. PICK m \in Sizes : \A n \in Sizes : m <= n BY <1>2, LeastNumber, Zenon
<1>4. PICK s \in (SUBSET S) \ Q : m = Cardinality(s) BY <1>3 DEF Sizes
<1>5. ASSUME NEW x \in s PROVE s \ {x} \in Q
  <2>1. Cardinality(s \ {x}) = Cardinality(s) - 1 BY <1>1, <1>4, FS_RemoveElement
  <2>2. SUFFICES ASSUME s \ {x} \notin Q PROVE FALSE
    OBVIOUS
  <2>3. Cardinality(s \ {x}) \in Sizes BY <2>2, <1>4 DEF Sizes
  <2>. QED BY <1>1, <1>3, <1>4, <2>1, <2>3
<1>. QED BY <1>4, <1>5

Chosen(s) == CHOOSE x \in s : TRUE

Sums(g, f, S) ==
  g = [s \in SUBSET S |-> IF s = {} THEN 0 ELSE f[Chosen(s)] + g[s \ {Chosen(s)}]]

LEMMA ChosenIn == \A s : s # {} => Chosen(s) \in s
BY DEF Chosen

\* The sets no larger than n, up to which the sums are there
UpToSize(S, n) == {s \in SUBSET S : Cardinality(s) <= n}

SumsUpTo(g, f, S, n) ==
  g = [s \in UpToSize(S, n) |-> IF s = {} THEN 0 ELSE f[Chosen(s)] + g[s \ {Chosen(s)}]]

LEMMA SumsExist ==
  ASSUME NEW S, IsFiniteSet(S), NEW f
  PROVE  \E g : Sums(g, f, S)
<1>1. \A s \in SUBSET S : /\ IsFiniteSet(s) /\ Cardinality(s) \in Nat
                          /\ Cardinality(s) <= Cardinality(S)
                          /\ s = {} <=> Cardinality(s) = 0
  BY FS_Subset, FS_CardinalityType, FS_EmptySet
<1>2. \A s \in SUBSET S : s # {} =>
         /\ s \ {Chosen(s)} \in SUBSET S
         /\ Cardinality(s \ {Chosen(s)}) = Cardinality(s) - 1
  BY <1>1, ChosenIn, FS_RemoveElement
<1> DEFINE Missing == {n \in Nat : ~ \E g : SumsUpTo(g, f, S, n)}
<1>3. Missing = {}
  <2> SUFFICES ASSUME Missing # {} PROVE FALSE
    OBVIOUS
  <2>1. PICK n \in Missing : \A m \in Missing : n <= m
    <3>1. Missing \subseteq Nat OBVIOUS
    <3> HIDE DEF Missing
    <3>. QED BY <3>1, LeastNumber, Zenon
  <2>2. n \in Nat OBVIOUS
  <2>3. CASE n = 0
    <3> DEFINE g == [s \in UpToSize(S, 0) |-> 0]
    <3>1. \A s \in UpToSize(S, 0) : s = {} BY <1>1 DEF UpToSize
    <3>2. SumsUpTo(g, f, S, 0) BY <3>1 DEF SumsUpTo
    <3>. QED BY <2>3, <3>2
  <2>4. CASE n # 0
    <3>1. n - 1 \in Nat /\ n - 1 \notin Missing
      <4>1. n - 1 \in Nat /\ ~ (n <= n - 1) BY <2>2, <2>4
      <4> HIDE DEF Missing
      <4>. QED BY <2>1, <4>1
    <3>2. PICK h : SumsUpTo(h, f, S, n - 1) BY <3>1
    <3> DEFINE g == [s \in UpToSize(S, n) |-> IF s = {} THEN 0
                                              ELSE f[Chosen(s)] + h[s \ {Chosen(s)}]]
    <3>3. UpToSize(S, n - 1) \subseteq UpToSize(S, n) BY <1>1, <2>2 DEF UpToSize
    <3>4. \A s \in UpToSize(S, n - 1) : g[s] = h[s] BY <3>2, <3>3, Zenon DEF SumsUpTo
    <3>5. \A s \in UpToSize(S, n) : s # {} => s \ {Chosen(s)} \in UpToSize(S, n - 1)
      BY <1>1, <1>2, <2>2 DEF UpToSize
    <3>6. g = [s \in UpToSize(S, n) |-> IF s = {} THEN 0
                                        ELSE f[Chosen(s)] + g[s \ {Chosen(s)}]]
      BY <3>4, <3>5, Zenon
    <3> HIDE DEF g
    <3>7. SumsUpTo(g, f, S, n) BY <3>6, Zenon DEF SumsUpTo
    <3>. QED BY <3>7
  <2>. QED BY <2>3, <2>4
<1>4. PICK g : SumsUpTo(g, f, S, Cardinality(S))
  <2>1. Cardinality(S) \in Nat BY FS_CardinalityType
  <2>. QED BY <1>3, <2>1
<1>5. UpToSize(S, Cardinality(S)) = SUBSET S BY <1>1 DEF UpToSize
<1>6. Sums(g, f, S) BY <1>4, <1>5, Zenon DEF Sums, SumsUpTo
<1>. QED BY <1>6

LEMMA SumsType ==
  ASSUME NEW S, IsFiniteSet(S), NEW f \in [S -> Int], NEW g, Sums(g, f, S)
  PROVE  \A s \in SUBSET S : g[s] \in Int
<1> DEFINE Q == {s \in SUBSET S : g[s] \in Int}
<1>1. ASSUME NEW s \in SUBSET S, \A x \in s : s \ {x} \in Q PROVE s \in Q
  <2>1. g[s] = IF s = {} THEN 0 ELSE f[Chosen(s)] + g[s \ {Chosen(s)}] BY Zenon DEF Sums
  <2>2. s # {} => Chosen(s) \in S /\ Chosen(s) \in s BY ChosenIn
  <2>3. CASE s = {} BY <2>1, <2>3
  <2>4. CASE s # {}
    <3>1. g[s \ {Chosen(s)}] \in Int /\ f[Chosen(s)] \in Int BY <1>1, <2>2, <2>4, Zenon
    <3>. QED BY <2>1, <2>4, <3>1
  <2>. QED BY <2>3, <2>4
<1> HIDE DEF Q
<1>2. SUBSET S \subseteq Q BY <1>1, SubsetInduction, Zenon
<1>. QED BY <1>2 DEF Q

\* The order does not matter: any element may be taken first
TakesAny(g, f, S) == \A s \in SUBSET S : \A x \in s : g[s] = f[x] + g[s \ {x}]

LEMMA SumsTakeAny ==
  ASSUME NEW S, IsFiniteSet(S), NEW f \in [S -> Int], NEW g, Sums(g, f, S)
  PROVE  TakesAny(g, f, S)
<1> DEFINE Q == {s \in SUBSET S : \A x \in s : g[s] = f[x] + g[s \ {x}]}
<1>0. \A s \in SUBSET S : g[s] \in Int BY SumsType
<1>1. ASSUME NEW s \in SUBSET S, \A x \in s : s \ {x} \in Q PROVE s \in Q
  <2> SUFFICES ASSUME NEW x \in s PROVE g[s] = f[x] + g[s \ {x}]
    OBVIOUS
  <2> DEFINE y == Chosen(s)
  <2>1. y \in s BY ChosenIn
  <2>2. g[s] = f[y] + g[s \ {y}] BY <2>1, Zenon DEF Sums
  <2> HIDE DEF y
  <2>3. CASE x = y BY <2>2, <2>3
  <2>4. CASE x # y
    <3>1. x \in s \ {y} /\ y \in s \ {x} BY <2>1, <2>4
    <3>2. g[s \ {y}] = f[x] + g[(s \ {y}) \ {x}] BY <1>1, <2>1, <3>1
    <3>3. g[s \ {x}] = f[y] + g[(s \ {x}) \ {y}] BY <1>1, <3>1
    <3>4. (s \ {x}) \ {y} = (s \ {y}) \ {x} OBVIOUS
    <3>5. /\ f[x] \in Int /\ f[y] \in Int
          /\ g[(s \ {y}) \ {x}] \in Int BY <1>0, <2>1
    <3> HIDE DEF Q
    <3>6. \A u, v, w \in Int : v + (u + w) = u + (v + w)
      OBVIOUS
    <3>7. f[y] + (f[x] + g[(s \ {y}) \ {x}]) = f[x] + (f[y] + g[(s \ {y}) \ {x}])
      BY <3>5, <3>6
    <3>8. g[s] = f[y] + (f[x] + g[(s \ {y}) \ {x}]) BY <2>2, <3>2, Zenon
    <3>9. g[s \ {x}] = f[y] + g[(s \ {y}) \ {x}] BY <3>3, <3>4, Zenon
    <3>. QED BY <3>7, <3>8, <3>9, Zenon
  <2>. QED BY <2>3, <2>4
<1> HIDE DEF Q
<1>2. SUBSET S \subseteq Q BY <1>1, SubsetInduction, Zenon
<1>. QED BY <1>2, Zenon DEF Q, TakesAny

(* Two sums of values that differ on some of the elements only differ by   *)
(* the sum of the differences.                                             *)
LEMMA DifferenceOfSums ==
  ASSUME NEW S, IsFiniteSet(S), NEW T \in SUBSET S,
         NEW a \in [S -> Int], NEW b \in [S -> Int], NEW d \in [T -> Int],
         \A x \in T : d[x] = b[x] - a[x], \A x \in S \ T : b[x] = a[x],
         NEW ga, Sums(ga, a, S), NEW gb, Sums(gb, b, S), NEW gd, Sums(gd, d, T)
  PROVE  gb[S] - ga[S] = gd[T]
<1> DEFINE Q == {s \in SUBSET S : gb[s] - ga[s] = gd[s \cap T]}
<1>0. IsFiniteSet(T) BY FS_Subset
<1>1. \A s \in SUBSET S : ga[s] \in Int /\ gb[s] \in Int BY SumsType
<1>2. \A s \in SUBSET T : gd[s] \in Int BY <1>0, SumsType
<1>3. TakesAny(ga, a, S) /\ TakesAny(gb, b, S) /\ TakesAny(gd, d, T)
  <2> HIDE DEF Q
  <2>1. TakesAny(ga, a, S) BY SumsTakeAny
  <2>2. TakesAny(gb, b, S) BY SumsTakeAny
  <2>3. TakesAny(gd, d, T) BY <1>0, SumsTakeAny
  <2>. QED BY <2>1, <2>2, <2>3
<1>4. ASSUME NEW s \in SUBSET S, \A x \in s : s \ {x} \in Q PROVE s \in Q
  <2>1. CASE s = {}
    <3>1. ga[{}] = 0 /\ gb[{}] = 0 /\ gd[{}] = 0 BY DEF Sums
    <3>. QED BY <2>1, <3>1
  <2>2. CASE s # {}
    <3>1. PICK x \in s : TRUE BY <2>2
    <3>2. gb[s \ {x}] - ga[s \ {x}] = gd[(s \ {x}) \cap T] BY <1>4, <3>1, Zenon
    <3>3. ga[s] = a[x] + ga[s \ {x}] /\ gb[s] = b[x] + gb[s \ {x}] BY <1>3 DEF TakesAny
    <3>4. /\ a[x] \in Int /\ b[x] \in Int /\ ga[s \ {x}] \in Int /\ gb[s \ {x}] \in Int
          /\ gd[(s \ {x}) \cap T] \in Int
      BY <1>1, <1>2
    <3>5. CASE x \in T
      <4>1. gd[s \cap T] = d[x] + gd[(s \cap T) \ {x}] BY <1>3, <3>5 DEF TakesAny
      <4>2. (s \cap T) \ {x} = (s \ {x}) \cap T OBVIOUS
      <4>3. d[x] = b[x] - a[x] BY <3>5
      <4>4. \A k, l, m, n, o \in Int : n - m = o => (l + n) - (k + m) = (l - k) + o
        OBVIOUS
      <4>5. (b[x] + gb[s \ {x}]) - (a[x] + ga[s \ {x}]) = (b[x] - a[x]) + gd[(s \ {x}) \cap T]
        BY <3>2, <3>4, <4>4
      <4>6. gb[s] - ga[s] = gd[s \cap T] BY <3>3, <4>1, <4>2, <4>3, <4>5, Zenon
      <4>. QED BY <4>6
    <3>6. CASE x \notin T
      <4>1. s \cap T = (s \ {x}) \cap T BY <3>6
      <4>2. b[x] = a[x] BY <3>6
      <4>3. \A k, m, n, o \in Int : n - m = o => (k + n) - (k + m) = o
        OBVIOUS
      <4>4. (a[x] + gb[s \ {x}]) - (a[x] + ga[s \ {x}]) = gd[(s \ {x}) \cap T]
        BY <3>2, <3>4, <4>3
      <4>5. gb[s] - ga[s] = gd[s \cap T] BY <3>3, <4>1, <4>2, <4>4, Zenon
      <4>. QED BY <4>5
    <3>. QED BY <3>5, <3>6
  <2>. QED BY <2>1, <2>2
<1> HIDE DEF Q
<1>5. SUBSET S \subseteq Q BY <1>4, SubsetInduction, Zenon
<1>6. S \cap T = T OBVIOUS
<1>. QED BY <1>5, <1>6 DEF Q

-----------------------------------------------------------------------------
LEMMA ImageIsFinite ==
  ASSUME NEW S, IsFiniteSet(S), NEW f
  PROVE  IsFiniteSet({f[x] : x \in S})
<1> DEFINE T == {f[x] : x \in S}
           h == [x \in S |-> f[x]]
<1>1. h \in Surjection(S, T) BY DEF Surjection
<1> HIDE DEF h, T
<1>2. IsFiniteSet(T) BY <1>1, FS_Surjection
<1>. QED BY <1>2 DEF T

(* The lengths are integers, as every net has a pin.                       *)
LEMMA ExtremesExist ==
  ASSUME NEW S, IsFiniteSet(S), S \subseteq Int, S # {}
  PROVE  Max(S) \in Int /\ Min(S) \in Int
<1> DEFINE Q == {s \in SUBSET S : s = {} \/ \E m, n \in s : \A k \in s : m >= k /\ n <= k}
<1>1. ASSUME NEW s \in SUBSET S, \A x \in s : s \ {x} \in Q PROVE s \in Q
  <2>1. CASE s = {} BY <2>1
  <2>2. CASE s # {}
    <3>1. PICK x \in s : TRUE BY <2>2, Zenon
    <3>2. CASE s = {x}
      <4>1. x \in Int BY <3>1
      <4>. QED BY <3>2, <4>1
    <3>3. CASE s # {x}
      <4>1. s \ {x} # {} /\ s \ {x} \in Q
        <5> HIDE DEF Q
        <5>. QED BY <1>1, <3>1, <3>3
      <4>2. PICK m, n \in s \ {x} : \A k \in s \ {x} : m >= k /\ n <= k BY <4>1, Zenon
      <4>3. m \in Int /\ n \in Int /\ x \in Int BY <4>2, <3>1
      <4> DEFINE hi == IF m >= x THEN m ELSE x
                 lo == IF n <= x THEN n ELSE x
      <4>4. hi \in s /\ lo \in s OBVIOUS
      <4>5. ASSUME NEW k \in s PROVE hi >= k /\ lo <= k
        <5>1. k \in Int OBVIOUS
        <5>2. CASE k = x BY <4>3, <5>2
        <5>3. CASE k # x
          <6>1. m >= k /\ n <= k BY <4>2, <5>3
          <6>. QED BY <4>3, <5>1, <6>1
        <5>. QED BY <5>2, <5>3
      <4> HIDE DEF hi, lo
      <4>. QED BY <4>4, <4>5
    <3>. QED BY <3>2, <3>3, Zenon
  <2>. QED BY <2>1, <2>2, Zenon
<1> HIDE DEF Q
<1>2. SUBSET S \subseteq Q BY <1>1, SubsetInduction, Zenon
<1>3. S \in Q BY <1>2
<1>4. (\E m \in S : \A k \in S : m >= k) /\ (\E n \in S : \A k \in S : n <= k)
  BY <1>3, Zenon DEF Q
<1>5. Max(S) \in S BY <1>4, Zenon DEF Max
<1>6. Min(S) \in S BY <1>4, Zenon DEF Min
<1>. QED BY <1>5, <1>6, Zenon

LEMMA LengthIsInteger ==
  ASSUME NEW p, NEW n \in Nets, \A c \in Placeable : p[c] \in [x : Int, y : Int]
  PROVE  CalcNetHPWL(p, n) \in Int
<1>1. NetCells[n] \subseteq Placeable /\ NetPads[n] \subseteq [x : Int, y : Int]
      /\ IsFiniteSet(NetPads[n]) /\ Cardinality(NetCells[n]) + Cardinality(NetPads[n]) > 1
  BY NetsAssumption
<1>2. IsFiniteSet(NetCells[n])
  <2>1. Len(CellOrder) \in Nat /\ DOMAIN CellOrder = 1 .. Len(CellOrder) BY GridAssumption
  <2>2. IsFiniteSet(DOMAIN CellOrder) BY <2>1, FS_Interval
  <2>3. IsFiniteSet({CellOrder[k] : k \in DOMAIN CellOrder}) BY <2>2, ImageIsFinite
  <2>. QED BY <1>1, <2>3, FS_Subset DEF Placeable
<1> DEFINE S == PinsOf(p, n)
           own == {Pin(p, c) : c \in NetCells[n]}
<1>3. IsFiniteSet(S)
  <2> DEFINE f == [c \in NetCells[n] |-> Pin(p, c)]
  <2>0. own = {f[c] : c \in NetCells[n]} BY Zenon
  <2> HIDE DEF f
  <2>1. IsFiniteSet(own) BY <1>2, <2>0, ImageIsFinite
  <2>. QED BY <1>1, <2>1, FS_Union, Zenon DEF PinsOf
<1>4. S # {}
  <2>1. NetCells[n] = {} => Cardinality(NetCells[n]) = 0 BY FS_EmptySet
  <2>2. NetPads[n] = {} => Cardinality(NetPads[n]) = 0 BY FS_EmptySet
  <2>3. NetCells[n] # {} \/ NetPads[n] # {} BY <1>1, <2>1, <2>2
  <2>. QED BY <2>3 DEF PinsOf
<1>5. \A q \in S : q.x \in Int /\ q.y \in Int
  <2>1. ASSUME NEW c \in NetCells[n] PROVE Pin(p, c).x \in Int /\ Pin(p, c).y \in Int
    <3>1. c \in Placeable /\ p[c] \in [x : Int, y : Int] BY <1>1
    <3>2. CellSitesNum[c] \in Int BY <3>1, ConstantTypes DEF Width
    <3>. QED BY <3>1, <3>2 DEF Pin
  <2>. QED BY <1>1, <2>1 DEF PinsOf
<1> DEFINE xs == {q.x : q \in S}
           ys == {q.y : q \in S}
<1>6. IsFiniteSet(xs) /\ IsFiniteSet(ys)
  <2> HIDE DEF S
  <2> DEFINE f == [q \in S |-> q.x]
             h == [q \in S |-> q.y]
  <2>1. xs = {f[q] : q \in S} /\ ys = {h[q] : q \in S} OBVIOUS
  <2> HIDE DEF f, h
  <2>2. IsFiniteSet({f[q] : q \in S}) BY <1>3, ImageIsFinite
  <2>3. IsFiniteSet({h[q] : q \in S}) BY <1>3, ImageIsFinite
  <2>. QED BY <2>1, <2>2, <2>3, Zenon
<1>7. xs \subseteq Int /\ ys \subseteq Int /\ xs # {} /\ ys # {}
  <2> HIDE DEF S
  <2>. QED BY <1>4, <1>5
<1>8. CalcNetHPWL(p, n) = (Max(xs) - Min(xs)) + (Max(ys) - Min(ys))
  BY DEF CalcNetHPWL, Span
<1> HIDE DEF xs, ys
<1>9. Max(xs) \in Int /\ Min(xs) \in Int BY <1>6, <1>7, ExtremesExist, Zenon
<1>10. Max(ys) \in Int /\ Min(ys) \in Int BY <1>6, <1>7, ExtremesExist, Zenon
<1>. QED BY <1>8, <1>9, <1>10

Lengths(p) == [n \in Nets |-> CalcNetHPWL(p, n)]
Differences(p, nets) == [n \in nets |-> CalcNetHPWL(p, n) - netHPWL[n]]

LEMMA DiffIsSum ==
  ASSUME NEW p, NEW cells
  PROVE  \E g : /\ Sums(g, Differences(p, NetsOf(cells)), NetsOf(cells))
                /\ CalculateHPWLDiff(p, cells) = g[NetsOf(cells)]
<1> DEFINE T == NetsOf(cells)
           Recurs(g) == g = [s \in SUBSET T |-> IF s = {} THEN 0 ELSE
              (CalcNetHPWL(p, Chosen(s)) - netHPWL[Chosen(s)]) + g[s \ {Chosen(s)}]]
<1>1. CalculateHPWLDiff(p, cells) = (CHOOSE g : Recurs(g))[T]
  BY DEF CalculateHPWLDiff, MapThenSumSet, MapThenFoldSet, Chosen
<1>2. \A g : Sums(g, Differences(p, T), T) <=> Recurs(g)
  <2> HIDE DEF T
  <2>1. \A s \in SUBSET T : s # {} =>
          Differences(p, T)[Chosen(s)] = CalcNetHPWL(p, Chosen(s)) - netHPWL[Chosen(s)]
    BY ChosenIn DEF Differences
  <2>. QED BY <2>1, Zenon DEF Sums
<1>3. \E g : Sums(g, Differences(p, T), T)
  <2>1. IsFiniteSet(T) BY NetsAssumption, FS_Subset DEF NetsOf
  <2> HIDE DEF T
  <2>. QED BY <2>1, SumsExist
<1> HIDE DEF Recurs, T
<1>4. Recurs(CHOOSE g : Recurs(g)) BY <1>2, <1>3
<1>. QED BY <1>1, <1>2, <1>4, Zenon DEF T

-----------------------------------------------------------------------------
(***************************************************************************)
(* What detailed placement promises, of the places on the grid.            *)
(***************************************************************************)
GridPlaces == [c \in Placeable |-> [row |-> cellRow[c], column |-> cellSiteIdx[c]]]

\* The coordinates p are those of the places q
CoordinatesOf(p, q) == \A c \in Placeable : p[c] = Site(q[c].row, q[c].column)

LEMMA PromisedHalfPerimeter ==
  ASSUME NEW n \in Nets, NEW p, NEW q, CoordinatesOf(p, q)
  PROVE  Promise!HalfPerimeter(q, n) = CalcNetHPWL(p, n)
<1>1. ASSUME NEW c \in NetCells[n]
      PROVE  [x |-> 2 * q[c].column + CellSitesNum[c], y |-> 2 * q[c].row + 1] = Pin(p, c)
  <2>1. c \in Placeable BY NetsAssumption
  <2>2. p[c] = [x |-> 2 * q[c].column, y |-> 2 * q[c].row] BY <2>1 DEF CoordinatesOf
  <2>3. p[c].x = 2 * q[c].column /\ p[c].y = 2 * q[c].row BY <2>2
  <2>. QED BY <2>3, Zenon DEF Pin
<1>2. Promise!Pins(q, n) = PinsOf(p, n)
  BY <1>1 DEF Promise!Pins, PinsOf
<1>. QED BY <1>2 DEF Promise!HalfPerimeter, CalcNetHPWL, Span, Promise!Max, Promise!Min, Max, Min

LEMMA PromisedLength ==
  ASSUME NEW p, NEW q, CoordinatesOf(p, q)
  PROVE  \E g : Sums(g, Lengths(p), Nets) /\ Promise!Length(q) = g[Nets]
<1> DEFINE f == Lengths(p)
           Recurs(g) == g = [s \in SUBSET Nets |-> IF s = {} THEN 0 ELSE
              Promise!HalfPerimeter(q, Chosen(s)) + g[s \ {Chosen(s)}]]
<1>1. Promise!Length(q) = (CHOOSE g : Recurs(g))[Nets]
  BY DEF Promise!Length, Promise!MapThenSumSet, Promise!MapThenFoldSet, Chosen
<1>2. \A g : Sums(g, f, Nets) <=> Recurs(g)
  <2>1. \A s \in SUBSET Nets : s # {} =>
          f[Chosen(s)] = Promise!HalfPerimeter(q, Chosen(s))
    BY ChosenIn, PromisedHalfPerimeter DEF Lengths
  <2> HIDE DEF f
  <2>. QED BY <2>1 DEF Sums
<1>3. \E g : Sums(g, f, Nets)
  <2> HIDE DEF f
  <2>. QED BY NetsAssumption, SumsExist
<1> HIDE DEF Recurs, f
<1>4. Recurs(CHOOSE g : Recurs(g)) BY <1>2, <1>3
<1>. QED BY <1>1, <1>2, <1>4, Zenon DEF f

(* A legal grid is what the promise calls legal. *)
LEMMA GridIsPromised == GridType /\ LegalGrid => Promise!IsLegal(GridPlaces)
<1> SUFFICES ASSUME GridType, LegalGrid PROVE Promise!IsLegal(GridPlaces)
  OBVIOUS
<1>1. ASSUME NEW c \in Placeable
      PROVE  /\ cellRow[c] \in Rows /\ cellSiteIdx[c] \in Nat /\ CellSitesNum[c] \in Nat
             /\ cellSiteIdx[c] + CellSitesNum[c] <= NumCols
             /\ Promise!Sites(GridPlaces, c) =
                  {[row |-> cellRow[c], column |-> k] :
                      k \in cellSiteIdx[c] .. cellSiteIdx[c] + CellSitesNum[c] - 1}
  <2>1. c \in Cells BY ConstantTypes
  <2>2. cellRow[c] \in Rows /\ cellSiteIdx[c] \in Nat /\ CellSitesNum[c] \in Nat
    BY <2>1, ConstantTypes DEF GridType, Width
  <2>3. Promise!Sites(GridPlaces, c) =
                  {[row |-> cellRow[c], column |-> k] :
                      k \in cellSiteIdx[c] .. cellSiteIdx[c] + CellSitesNum[c] - 1}
    BY DEF Promise!Sites, GridPlaces
  <2>. QED BY <2>2, <2>3 DEF LegalGrid, InsideGrid
<1>2. ASSUME NEW c \in Placeable
      PROVE  Promise!Sites(GridPlaces, c) \subseteq [row : Rows, column : Columns]
  <2>1. PICK k \in Nat, w \in Nat : k = cellSiteIdx[c] /\ w = CellSitesNum[c] /\ k + w <= NumCols
    BY <1>1
  <2>2. \A j \in k .. k + w - 1 : j \in Columns BY <2>1, ConstantTypes
  <2>. QED BY <1>1, <2>1, <2>2
<1>3. ASSUME NEW c \in Placeable, NEW d \in Placeable, c # d
      PROVE  Promise!Sites(GridPlaces, c) \cap Promise!Sites(GridPlaces, d) = {}
  <2>1. PICK k \in Nat, w \in Nat : k = cellSiteIdx[c] /\ w = CellSitesNum[c] BY <1>1
  <2>2. PICK l \in Nat, v \in Nat : l = cellSiteIdx[d] /\ v = CellSitesNum[d] BY <1>1
  <2>3. cellRow[c] = cellRow[d] => l + v <= k \/ k + w <= l
    BY <1>3, <2>1, <2>2, CellsApart DEF Width
  <2>4. ASSUME NEW j \in k .. k + w - 1, NEW m \in l .. l + v - 1,
               [row |-> cellRow[c], column |-> j] = [row |-> cellRow[d], column |-> m]
        PROVE  FALSE
    <3>1. cellRow[c] = cellRow[d] /\ j = m BY <2>4
    <3>. QED BY <2>3, <3>1
  <2>5. /\ Promise!Sites(GridPlaces, c) = {[row |-> cellRow[c], column |-> j] : j \in k .. k + w - 1}
        /\ Promise!Sites(GridPlaces, d) = {[row |-> cellRow[d], column |-> m] : m \in l .. l + v - 1}
    BY <1>1, <2>1, <2>2
  <2>. QED BY <2>4, <2>5
<1>. QED BY <1>2, <1>3 DEF Promise!IsLegal

(* A trial that shortens the nets of its cells shortens the wires.         *)
LEMMA KeptTrialShortens ==
  ASSUME GridType, CacheInv, NEW g, AsOnGrid(InGroup(g)), pos' = PutFast(pos, g),
         GridType', AsOnGrid({})', CalculateHPWLDiff(PutFast(pos, g), InGroup(g)) < 0
  PROVE  Promise!Length(GridPlaces') < Promise!Length(GridPlaces)
<1> DEFINE T == NetsOf(InGroup(g))
           a == Lengths(GridCoordinates)
           b == Lengths(GridCoordinates')
           d == Differences(PutFast(pos, g), T)
<1>1. PICK ga : Sums(ga, a, Nets) /\ Promise!Length(GridPlaces) = ga[Nets]
  <2>1. CoordinatesOf(GridCoordinates, GridPlaces)
    BY ConstantTypes DEF CoordinatesOf, GridCoordinates, GridPlaces
  <2>. QED BY <2>1, PromisedLength
<1>2. PICK gb : Sums(gb, b, Nets) /\ Promise!Length(GridPlaces') = gb[Nets]
  <2>1. CoordinatesOf(GridCoordinates', GridPlaces')
    BY ConstantTypes DEF CoordinatesOf, GridCoordinates, GridPlaces
  <2>. QED BY <2>1, PromisedLength
<1>3. PICK gd : Sums(gd, d, T) /\ CalculateHPWLDiff(PutFast(pos, g), InGroup(g)) = gd[T]
  BY DiffIsSum, Zenon
<1>4. /\ \A c \in Placeable : GridCoordinates[c] \in [x : Int, y : Int]
      /\ \A c \in Placeable : GridCoordinates'[c] \in [x : Int, y : Int]
      /\ \A c \in Placeable : GridCoordinates'[c] = PutFast(pos, g)[c]
      /\ \A c \in Placeable \ InGroup(g) : GridCoordinates'[c] = GridCoordinates[c]
  <2>1. \A c \in Placeable : c \in Cells BY ConstantTypes
  <2>2. ASSUME NEW c \in Placeable PROVE GridCoordinates[c] \in [x : Int, y : Int]
    <3>1. GridCoordinates[c] = Site(cellRow[c], cellSiteIdx[c])
      BY <2>1 DEF GridCoordinates
    <3>. QED BY <2>1, <3>1, SiteType DEF GridType
  <2>3. GridCoordinates' = pos' BY Zenon DEF GridType, AsOnGrid, GridCoordinates
  <2>4. \A c \in Placeable : pos'[c] \in [x : Int, y : Int] BY <2>1 DEF GridType
  <2>5. ASSUME NEW c \in Placeable \ InGroup(g) PROVE pos'[c] = GridCoordinates[c]
    <3> HIDE DEF InGroup
    <3>. QED BY <2>1 DEF PutFast, GridCoordinates, AsOnGrid
  <2>. QED BY <2>2, <2>3, <2>4, <2>5
<1>5. a \in [Nets -> Int] /\ b \in [Nets -> Int]
  BY <1>4, LengthIsInteger DEF Lengths
<1>6. ASSUME NEW n \in T PROVE d[n] = b[n] - a[n]
  <2>1. n \in Nets BY DEF NetsOf
  <2>2. CalcNetHPWL(PutFast(pos, g), n) = CalcNetHPWL(GridCoordinates', n)
    <3>1. \A c \in NetCells[n] : PutFast(pos, g)[c] = GridCoordinates'[c]
      BY <1>4, <2>1, NetsAssumption
    <3>. QED BY <2>1, <3>1, SameLength
  <2>3. netHPWL[n] = CalcNetHPWL(GridCoordinates, n) BY <2>1 DEF CacheInv
  <2>. QED BY <2>1, <2>2, <2>3 DEF Lengths, Differences
<1>7. ASSUME NEW n \in Nets \ T PROVE b[n] = a[n]
  <2>1. \A c \in NetCells[n] : GridCoordinates'[c] = GridCoordinates[c]
    BY <1>4, NetsAssumption DEF NetsOf
  <2>2. CalcNetHPWL(GridCoordinates', n) = CalcNetHPWL(GridCoordinates, n)
    BY <2>1, SameLength
  <2>. QED BY <2>2 DEF Lengths
<1>8. T \in SUBSET Nets /\ IsFiniteSet(Nets) BY NetsAssumption DEF NetsOf
<1>9. d \in [T -> Int]
  <2>1. d = [n \in T |-> b[n] - a[n]] BY <1>6 DEF Differences
  <2> HIDE DEF a, b, d, T
  <2>. QED BY <1>5, <1>8, <2>1
<1> HIDE DEF a, b, d, T
<1>10. gb[Nets] - ga[Nets] = gd[T]
  BY <1>1, <1>2, <1>3, <1>5, <1>6, <1>7, <1>8, <1>9, DifferenceOfSums
<1>11. ga[Nets] \in Int /\ gb[Nets] \in Int
  <2>1. Nets \in SUBSET Nets OBVIOUS
  <2>2. ga[Nets] \in Int BY <1>1, <1>5, <1>8, <2>1, SumsType
  <2>3. gb[Nets] \in Int BY <1>2, <1>5, <1>8, <2>1, SumsType
  <2>. QED BY <2>2, <2>3
<1>12. gd[T] < 0 BY <1>3
<1>13. \A k, l \in Int : k - l < 0 => k < l OBVIOUS
<1>14. gb[Nets] < ga[Nets] BY <1>10, <1>11, <1>12, <1>13
<1>. QED BY <1>1, <1>2, <1>14

-----------------------------------------------------------------------------
LEMMA LastOfOne == LastOf({1}) = 1
<1>1. IsFiniteSet({1}) /\ {1} \subseteq Int /\ {1} # {} BY FS_Singleton
<1>2. LastOf({1}) \in {1} BY <1>1, LastOfIsMember
<1>. QED BY <1>2

\* While cells are shifted, each is where the trial has put it
ShiftedCellsPlaced ==
  trusted /\ op \in {"shift", "judge"} =>
      \A n \in DOMAIN group : pos[group[n].cell] = Site(group[n].row, group[n].column)

ShiftOps == {"shift", "judge"}

\* Which steps lead into the shifting of cells, or go on with it
LEMMA IntoShifting ==
  ASSUME FlowInv, Next, op' \in ShiftOps
  PROVE  TryToMoveWithShifting \/ ShiftOneMore
<1> DEFINE Out == op' \notin ShiftOps
<1>1. LegalityControl => Out BY DEF LegalityControl, ShiftOps
<1>2. LegalizeCell => Out BY DEF LegalizeCell, Legalizing, swapVars, ShiftOps
<1>3. UpdateCellsCoordinates => Out BY DEF UpdateCellsCoordinates, ShiftOps
<1>4. LegalizationFails => Out BY DEF LegalizationFails, ShiftOps
<1>5. StartIterations \/ NextStage \/ NextIteration \/ Finish => Out
  BY DEF StartIterations, NextStage, NextIteration, Finish, Enter, ShiftOps
<1>6. HorizontalStep => Out
  BY DEF HorizontalStep, ProcessGroup, NextRowOfCells, ShiftOps
<1>7. Done => op = "done" /\ op' = op BY DEF Done, vars, swapVars
<1>8. Skip /\ op = "cell" => Out BY DEF Skip, ShiftOps
<1>9. \A rs, z : Look(rs, z) => Out BY DEF Look, ShiftOps
<1>10. \A g : Accept(g) => Out BY DEF Accept, ShiftOps
<1>11. GlobalProcessCell \/ VerticalProcessCell => Out
  <2>1. GlobalProcessCell \/ VerticalProcessCell =>
           op = "cell" /\ (Skip \/ \E rs, z : Look(rs, z))
    BY Zenon DEF GlobalProcessCell, VerticalProcessCell
  <2> HIDE DEF Out
  <2>. QED BY <1>8, <1>9, <2>1
<1>12. TooFull => Out BY DEF TooFull, NextRow, Trying, ShiftOps
<1>13. TryToMoveWithoutShifting => Out
  BY <1>10 DEF TryToMoveWithoutShifting, NextRow, Trying, ShiftOps
<1>14. JudgeShift => Out BY <1>10 DEF JudgeShift, ShiftOps
<1>15. RowsExhausted \/ NobodyLeftInRow \/ CellStays => Out
  BY DEF RowsExhausted, NobodyLeftInRow, CellStays, Trying, ShiftOps
<1>16. TryToExchangeWithCell => Out
  BY <1>10 DEF TryToExchangeWithCell, AfterTrial, Trying, ShiftOps
<1>. QED BY <1>1, <1>2, <1>3, <1>4, <1>5, <1>6, <1>7, <1>11, <1>12, <1>13, <1>14, <1>15, <1>16
         DEF Next, SwapStep, ShiftOps

LEMMA ShiftedStayPlaced ==
  FlowInv /\ FlowInv' /\ ShiftedCellsPlaced /\ [Next]_vars => ShiftedCellsPlaced'
<1> SUFFICES ASSUME FlowInv, FlowInv', ShiftedCellsPlaced, [Next]_vars,
                    trusted', op' \in {"shift", "judge"}, NEW n \in DOMAIN group'
             PROVE  pos'[group'[n].cell] = Site(group'[n].row, group'[n].column)
  BY Zenon DEF ShiftedCellsPlaced
<1>1. CASE UNCHANGED vars
  <2>1. UNCHANGED <<op, trusted, pos, group>> BY <1>1, Zenon DEF vars, swapVars, trialVars
  <2>. QED BY <2>1 DEF ShiftedCellsPlaced
<1>2. CASE TryToMoveWithShifting
  <2>1. trusted /\ op = "move" /\ group' = group BY <1>2 DEF TryToMoveWithShifting, Trying
  <2>2. group = <<>> BY <2>1 DEF FlowInv, IInv, NothingShifted, TrialOps
  <2>. QED BY <2>1, <2>2
<1>3. CASE ShiftOneMore
  <2> DEFINE new == [cell |-> next, row |-> Row, column |-> freeSite]
  <2>1. trusted /\ op = "shift" /\ pos' = PutFast(pos, <<new>>) /\ group' = group \o <<new>>
    BY <1>3 DEF ShiftOneMore, Trying
  <2>2. IInv /\ IInv' BY <2>1 DEF FlowInv, TrialOps
  <2>3. group \in Seq(Places) /\ group' \in Seq(Places)
    BY <2>1, <2>2 DEF IInv, ShiftInv, Shifting, ShiftedInOrder
  <2>4. /\ \A m \in DOMAIN group' : group'[m].cell \in Cells
        /\ \A l, m \in DOMAIN group' : l # m => group'[l].cell # group'[m].cell
    <3>1. ShiftedInOrder' BY <2>2 DEF IInv, ShiftInv, Shifting
    <3>. QED BY <3>1, ConstantTypes DEF ShiftedInOrder
  <2>5. Len(group') = Len(group) + 1 /\ group'[Len(group) + 1] = new
        /\ \A m \in DOMAIN group : group'[m] = group[m]
    BY <2>1, <2>3
  <2>6. pos'[group'[n].cell] = IF group'[n].cell = next THEN Site(Row, freeSite)
                               ELSE pos[group'[n].cell]
    <3>1. InGroup(<<new>>) = {next} OBVIOUS
    <3>2. PlaceOf(<<new>>, next) = new
      <4> DEFINE g == <<new>>
      <4>1. DOMAIN g = {1} /\ g[1] = new /\ new.cell = next OBVIOUS
      <4> HIDE DEF g, new
      <4>2. {m \in DOMAIN g : g[m].cell = next} = {1} BY <4>1
      <4>. QED BY <4>1, <4>2, LastOfOne DEF PlaceOf, g
    <3>. QED BY <2>1, <2>4, <3>1, <3>2 DEF PutFast
  <2>7. CASE n = Len(group) + 1 BY <2>5, <2>6, <2>7
  <2>8. CASE n # Len(group) + 1
    <3>1. n \in DOMAIN group /\ Len(group) + 1 \in DOMAIN group' BY <2>3, <2>5, <2>8
    <3>2. group'[n].cell # next BY <2>4, <2>5, <2>8, <3>1
    <3>. QED BY <2>1, <2>5, <2>6, <3>1, <3>2 DEF ShiftedCellsPlaced
  <2>. QED BY <2>7, <2>8
<1>. QED BY <1>1, <1>2, <1>3, IntoShifting DEF ShiftOps

-----------------------------------------------------------------------------
PlacesShorten == Promise!Length(GridPlaces') < Promise!Length(GridPlaces)

LEMMA AcceptShortens ==
  ASSUME IInv, IInv', NEW g, AsOnGrid(InGroup(g)), Accept(g), Shortens(PutFast(pos, g), g)
  PROVE  PlacesShorten
<1>1. pos' = PutFast(pos, g) /\ group' = <<>> BY DEF Accept, TrialOver
<1>2. GridType /\ GridType' /\ CacheInv BY DEF IInv, SwapType
<1>3. AsOnGrid({})'
  <2>1. InGroup(group)' = {} BY <1>1
  <2> HIDE DEF InGroup
  <2>. QED BY <2>1, Zenon DEF IInv, AsOnGrid
<1> HIDE DEF InGroup
<1>. QED BY <1>1, <1>2, <1>3, KeptTrialShortens DEF Shortens, PlacesShorten

LEMMA BetweenTrialsOnGrid ==
  ASSUME IInv, op \notin {"shift", "judge"}, NEW cells
  PROVE  AsOnGrid(cells)
<1>1. group = <<>> BY DEF IInv, NothingShifted
<1> HIDE DEF InGroup
<1>. QED BY <1>1, NoGroup DEF IInv, AsOnGrid

LEMMA ExchangeTried ==
  ASSUME TryToExchangeWithCell
  PROVE  \/ UNCHANGED gridVars
         \/ \E g : (Accept(g) /\ Shortens(PutFast(pos, g), g)) \/ Reject(g)
<1> HIDE DEF InGroup, Covers, Site, ColumnX, RowY
<1>1. PICK j \in ZoneSites :
        /\ IsNextCellAt(Row, last, site, j)
        /\ \E lc \in FreeBefore(cellRow[Cell], cellSiteIdx[Cell], 0),
              rc \in FreeFrom(cellRow[Cell], cellSiteIdx[Cell] + Width(Cell), NumCols),
              lt \in FreeBefore(Row, cellSiteIdx[sites[Row][j]], ZoneBegin),
              rt \in FreeFrom(Row, cellSiteIdx[sites[Row][j]] + Width(sites[Row][j]), ZoneEnd) :
              \/ /\ AfterTrial(j, sites[Row][j])
                 /\ UNCHANGED <<gridVars, pos, netHPWL, pass, cur, trusted>>
              \/ /\ Fits(Cell, lc, rc, sites[Row][j], lt, rt)
                 /\ LET g == Exchange(Cell, rc, sites[Row][j], rt)
                    IN  (Accept(g) /\ Shortens(PutFast(pos, g), g))
                        \/ (Reject(g) /\ AfterTrial(j, sites[Row][j]))
  BY DEF TryToExchangeWithCell
<1>. QED BY <1>1

(* Of all the steps of a pass of swaps only those that keep a trial change *)
(* the places, and they shorten the wires.                                 *)
LEMMA SwapStepShortens ==
  ASSUME IInv, IInv', ShiftedCellsPlaced, trusted, SwapStep
  PROVE  UNCHANGED <<cellRow, cellSiteIdx>> \/ PlacesShorten
<1> DEFINE Goal == UNCHANGED <<cellRow, cellSiteIdx>> \/ PlacesShorten
<1>1. ASSUME NEW g, Accept(g), Shortens(PutFast(pos, g), g), op \notin {"shift", "judge"}
      PROVE  PlacesShorten
  <2> HIDE DEF InGroup
  <2>1. AsOnGrid(InGroup(g)) BY <1>1, BetweenTrialsOnGrid
  <2>. QED BY <1>1, <2>1, AcceptShortens
<1>2. \A g : Reject(g) => Goal BY DEF Reject, gridVars
<1>3. GlobalProcessCell \/ VerticalProcessCell => Goal
  BY Zenon DEF GlobalProcessCell, VerticalProcessCell, Skip, Look, gridVars
<1>4. TooFull \/ TryToMoveWithShifting \/ ShiftOneMore => Goal
  BY Zenon DEF TooFull, TryToMoveWithShifting, ShiftOneMore, gridVars
<1>5. RowsExhausted \/ NobodyLeftInRow \/ CellStays => Goal
  BY Zenon DEF RowsExhausted, NobodyLeftInRow, CellStays, gridVars
<1> SUFFICES Goal OBVIOUS
<1> HIDE DEF Goal
<1>6. CASE TryToMoveWithoutShifting
  <2>1. op = "move" BY <1>6 DEF TryToMoveWithoutShifting, Trying
  <2>2. PICK g : IF Shortens(PutFast(pos, g), g) THEN Accept(g) ELSE Reject(g)
    BY <1>6 DEF TryToMoveWithoutShifting
  <2>. QED BY <1>1, <1>2, <2>1, <2>2 DEF Goal
<1>7. CASE TryToExchangeWithCell
  <2>1. op = "exchange" BY <1>7 DEF TryToExchangeWithCell, Trying
  <2>2. \/ UNCHANGED gridVars
        \/ \E g : (Accept(g) /\ Shortens(PutFast(pos, g), g)) \/ Reject(g)
    <3>. QED BY <1>7, ExchangeTried
  <2>. QED BY <1>1, <1>2, <2>1, <2>2 DEF Goal, gridVars
<1>8. CASE JudgeShift
  <2>1. op = "judge" BY <1>8 DEF JudgeShift, Trying
  <2>2. CASE Shortens(pos, group)
    <3>1. Accept(group) BY <1>8, <2>2 DEF JudgeShift
    <3>2. ShiftedInOrder BY <2>1 DEF IInv, ShiftInv, Shifting
    <3>3. PutFast(pos, group) = pos
      <4>1. ASSUME NEW c \in InGroup(group)
            PROVE  Site(PlaceOf(group, c).row, PlaceOf(group, c).column) = pos[c]
        <5>1. PICK n \in DOMAIN group : c = group[n].cell OBVIOUS
        <5>2. group \in Seq(Places) BY <3>2 DEF ShiftedInOrder
        <5> DEFINE S == {m \in DOMAIN group : group[m].cell = c}
        <5>3. LastOf(S) \in S
          <6>1. S \subseteq DOMAIN group /\ S # {} BY <5>1
          <6> HIDE DEF S
          <6>. QED BY <5>2, <6>1, LastOfGroup
        <5>4. LastOf(S) = n BY <3>2, <5>1, <5>3 DEF ShiftedInOrder
        <5>5. PlaceOf(group, c) = group[n] BY <5>4 DEF PlaceOf
        <5>. QED BY <2>1, <5>1, <5>5 DEF ShiftedCellsPlaced
      <4>2. pos \in [Cells -> [x : Int, y : Int]] BY DEF IInv, SwapType, GridType
      <4> HIDE DEF InGroup, Site
      <4>. QED BY <4>1, <4>2 DEF PutFast
    <3>4. Shortens(PutFast(pos, group), group) BY <2>2, <3>3
    <3>5. AsOnGrid(InGroup(group)) BY DEF IInv
    <3> HIDE DEF InGroup
    <3>. QED BY <3>1, <3>4, <3>5, AcceptShortens DEF Goal
  <2>3. CASE ~ Shortens(pos, group) BY <1>2, <1>8, <2>3 DEF JudgeShift
  <2>. QED BY <2>2, <2>3
<1>. QED BY <1>3, <1>4, <1>5, <1>6, <1>7, <1>8 DEF SwapStep

LEMMA GroupShortens ==
  ASSUME AtRest, AtRest', RowIdx \in Rows, nextColumnIdx \in -1 .. NumCols, ProcessGroup
  PROVE  UNCHANGED <<cellRow, cellSiteIdx>> \/ PlacesShorten
<1>1. LegalRow BY DEF LegalRow, AtRest
<1>2. PICK starts \in NextGroup :
         \/ \E trial \in Trials(starts) : Diff(trial) < 0 /\ pos' = PutFast(pos, trial)
         \/ /\ PutCells(InitialPositions(ConsideredGroupOfCells(starts)))
            /\ pos' = PutFast(pos, InitialPositions(ConsideredGroupOfCells(starts)))
  BY Zenon DEF ProcessGroup
<1>3. ASSUME NEW trial, Diff(trial) < 0, pos' = PutFast(pos, trial)
      PROVE  PlacesShorten
  <2>1. AsOnGrid(InGroup(trial)) BY DEF AtRest, AsOnGrid
  <2>2. GridType /\ CacheInv /\ GridType' /\ AsOnGrid({})' BY DEF AtRest
  <2> HIDE DEF InGroup
  <2>. QED BY <1>3, <2>1, <2>2, KeptTrialShortens DEF Diff, PlacesShorten
<1>4. ASSUME NEW g, g = InitialPositions(ConsideredGroupOfCells(starts)), PutCells(g)
      PROVE  UNCHANGED <<cellRow, cellSiteIdx>>
  <2>1. CanBePut(g) BY <1>1, <1>4, InitialCanBePut
  <2>2. ASSUME NEW c \in InGroup(g)
        PROVE  PlaceOf(g, c).row = cellRow[c] /\ PlaceOf(g, c).column = cellSiteIdx[c]
    <3>1. PICK n \in DOMAIN g : c = g[n].cell OBVIOUS
    <3>2. PlaceOf(g, c) = g[n] BY <2>1, <3>1, PlaceInGroup
    <3>. QED BY <1>4, <3>1, <3>2 DEF InitialPositions
  <2>3. /\ cellRow' = [c \in Cells |-> IF c \in InGroup(g) THEN PlaceOf(g, c).row ELSE cellRow[c]]
        /\ cellSiteIdx' = [c \in Cells |-> IF c \in InGroup(g)
                                           THEN PlaceOf(g, c).column ELSE cellSiteIdx[c]]
    BY <1>4, Zenon DEF PutCells
  <2>4. cellRow \in [Cells -> Rows] /\ cellSiteIdx \in [Cells -> Columns]
    BY DEF AtRest, GridType
  <2> HIDE DEF InGroup
  <2>5. cellRow' = cellRow BY <2>2, <2>3, <2>4
  <2>6. cellSiteIdx' = cellSiteIdx BY <2>2, <2>3, <2>4
  <2>. QED BY <2>5, <2>6
<1>. QED BY <1>2, <1>3, <1>4

-----------------------------------------------------------------------------
LEMMA TrustedIsLegal == FlowInv /\ trusted => GridType /\ LegalGrid
<1> SUFFICES ASSUME FlowInv, trusted PROVE GridType /\ LegalGrid
  OBVIOUS
<1>1. op \in TrialOps \cup {"cell", "row", "legalize", "measure", "done"} /\ op # "legalize"
  BY DEF FlowInv, FlowType, FlowGrid, FlowControl
<1>2. CASE op \in TrialOps \cup {"cell"} BY <1>2 DEF FlowInv, IInv, SwapType
<1>3. CASE op \in {"row", "done"} BY <1>3 DEF FlowInv, AtRest
<1>4. CASE op = "measure" BY <1>4 DEF FlowInv
<1>. QED BY <1>1, <1>2, <1>3, <1>4

LEMMA TrustedIsPromised == FlowInv /\ trusted => Promise!IsLegal(GridPlaces)
BY TrustedIsLegal, GridIsPromised

TrustedIsKnown == trusted \in BOOLEAN

LEMMA TrustedIsBoolean == TrustedIsKnown /\ [Next]_vars => TrustedIsKnown'
<1>1. SwapStep => trusted' = trusted BY WithinSwaps
<1>2. HorizontalStep => trusted' = trusted
  BY DEF HorizontalStep, ProcessGroup, NextRowOfCells
<1>3. StartIterations \/ NextStage \/ NextIteration \/ Finish => trusted' = trusted
  BY DEF StartIterations, NextStage, NextIteration, Finish, Calculate
<1>4. LegalityControl \/ LegalizeCell => trusted' = trusted
  BY DEF LegalityControl, LegalizeCell, swapVars
<1>5. UpdateCellsCoordinates \/ LegalizationFails => trusted' \in BOOLEAN
  BY Zenon DEF UpdateCellsCoordinates, LegalizationFails
<1>6. Done \/ UNCHANGED vars => trusted' = trusted BY DEF Done, vars, swapVars
<1>. QED BY <1>1, <1>2, <1>3, <1>4, <1>5, <1>6 DEF Next, TrustedIsKnown

(* From the first success of a legalization on, a step leaves the places   *)
(* alone or shortens the wires.                                            *)
LEMMA TrustedStepShortens ==
  ASSUME FlowInv, FlowInv', ShiftedCellsPlaced, trusted, Next
  PROVE  trusted' /\ (UNCHANGED <<cellRow, cellSiteIdx>> \/ PlacesShorten)
<1> DEFINE Quiet == trusted' = trusted /\ UNCHANGED <<cellRow, cellSiteIdx>>
<1>1. op # "legalize" BY DEF FlowInv
<1>2. ~ LegalizeCell /\ ~ UpdateCellsCoordinates /\ ~ LegalizationFails
  BY <1>1 DEF LegalizeCell, UpdateCellsCoordinates, LegalizationFails, Legalizing
<1>3. LegalityControl => Quiet BY DEF LegalityControl, gridVars
<1>4. StartIterations \/ NextStage \/ NextIteration \/ Finish => Quiet
  BY Zenon DEF StartIterations, NextStage, NextIteration, Finish, Calculate, gridVars
<1>5. Done => Quiet BY DEF Done, vars, swapVars, gridVars
<1>6. CASE SwapStep
  <2>1. op \in SwapOps /\ op' \in SwapOps /\ trusted' = trusted BY <1>6, WithinSwaps
  <2>2. IInv /\ IInv' BY <2>1 DEF FlowInv, SwapOps
  <2>. QED BY <1>6, <2>1, <2>2, SwapStepShortens
<1>7. CASE HorizontalStep
  <2>1. op = "row" /\ op' = "row" /\ trusted' = trusted /\ cur < NumRows
    BY <1>7, Zenon DEF HorizontalStep, ProcessGroup, NextRowOfCells
  <2>2. AtRest /\ AtRest' BY <2>1 DEF FlowInv
  <2>3. RowIdx \in Rows /\ nextColumnIdx \in -1 .. NumCols
    <3>1. cur \in Nat /\ nextColumnIdx \in -1 .. NumCols
      BY DEF FlowInv, FlowType, FlowGrid, FlowControl, AbacusType
    <3>. QED BY <2>1, <3>1, ConstantTypes DEF RowIdx, Rows
  <2>4. CASE NextRowOfCells BY <2>1, <2>4 DEF NextRowOfCells, gridVars
  <2>5. CASE ProcessGroup BY <2>1, <2>2, <2>3, <2>5, GroupShortens
  <2>. QED BY <1>7, <2>4, <2>5 DEF HorizontalStep
<1>. QED BY <1>2, <1>3, <1>4, <1>5, <1>6, <1>7, Zenon DEF Next

LEMMA PromiseStep ==
  FlowInv /\ FlowInv' /\ ShiftedCellsPlaced /\ TrustedIsKnown /\ [Next]_vars
     => [Promise!LNext]_<<GridPlaces, trusted>>
<1> SUFFICES ASSUME FlowInv, FlowInv', ShiftedCellsPlaced, TrustedIsKnown, [Next]_vars
             PROVE  Promise!LNext \/ UNCHANGED <<GridPlaces, trusted>>
  OBVIOUS
<1>0. trusted \in BOOLEAN /\ trusted' \in BOOLEAN
  BY TrustedIsBoolean DEF TrustedIsKnown
<1>1. trusted' => Promise!IsLegal(GridPlaces')
  <2>1. (FlowInv /\ trusted => Promise!IsLegal(GridPlaces))'
    BY TrustedIsPromised, PTL
  <2>. QED BY <2>1, Zenon DEF Promise!IsLegal, Promise!Sites, GridPlaces
<1>2. CASE ~ trusted /\ ~ trusted' BY <1>2 DEF Promise!LNext, Promise!Scatter
<1>3. CASE ~ trusted /\ trusted'
  BY <1>1, <1>3, Zenon DEF Promise!LNext, Promise!Legalize, GridPlaces
<1>4. CASE trusted
  <2>1. CASE Next
    <3>1. trusted' /\ (UNCHANGED <<cellRow, cellSiteIdx>> \/ PlacesShorten)
      BY <1>4, <2>1, TrustedStepShortens
    <3>2. CASE UNCHANGED <<cellRow, cellSiteIdx>>
      BY <1>0, <1>4, <3>1, <3>2 DEF GridPlaces
    <3>3. CASE PlacesShorten
      BY <1>1, <1>4, <3>1, <3>3 DEF Promise!LNext, Promise!Shorten, PlacesShorten, GridPlaces
    <3>. QED BY <3>1, <3>2, <3>3, Zenon
  <2>2. CASE UNCHANGED vars BY <2>2 DEF vars, swapVars, gridVars, GridPlaces
  <2>. QED BY <2>1, <2>2
<1>. QED BY <1>0, <1>2, <1>3, <1>4

(***************************************************************************)
(* Detailed placement implements its promise, for every grid, all cells    *)
(* and all nets: what is legal stays legal, and of all the moves, shifts,  *)
(* exchanges and reorderings that are tried only those get to the grid     *)
(* that shorten the wires as a whole - not just those of the moved cells,  *)
(* by which CalculateHPWLDiff judges.                                      *)
(***************************************************************************)
THEOREM OnlyShorterLegal == Spec => OnlyShorterLegalPlacements
<1>1. Init => ShiftedCellsPlaced /\ TrustedIsKnown BY Zenon DEF Init, ShiftedCellsPlaced, TrustedIsKnown
<1>2. Spec => [](FlowInv /\ ShiftedCellsPlaced /\ TrustedIsKnown)
  BY <1>1, InitFlowInv, StepFlowInv, ShiftedStayPlaced, TrustedIsBoolean, PTL DEF Spec
<1>3. Init => Promise!LInit BY DEF Init, Promise!LInit
<1>4. FlowInv /\ FlowInv' /\ ShiftedCellsPlaced /\ TrustedIsKnown /\ [Next]_vars
        => [Promise!LNext]_<<[c \in Placeable |-> [row |-> cellRow[c], column |-> cellSiteIdx[c]]], trusted>>
  BY PromiseStep DEF GridPlaces
<1>. QED BY <1>2, <1>3, <1>4, PTL DEF Spec, OnlyShorterLegalPlacements, Promise!LSpec

=============================================================================
