------------------------------ MODULE WireLength ------------------------------
(***************************************************************************)
(* Half-perimeter wire length, as NetUtils.cpp computes and caches it per  *)
(* net, and the optimal position of a cell that OptimalRegion.cpp derives  *)
(* from the nets on it.  A cell has one pin per net, at its centre; a pad  *)
(* is a pin whose coordinates never change, such as one of a fixed cell.   *)
(***************************************************************************)
EXTENDS PlacementGrid, FiniteSets, FiniteSetsExt

CONSTANTS
    Nets,
    NetCells,       \* [Nets -> SUBSET Placeable]
    NetPads         \* [Nets -> SUBSET [x : Int, y : Int]]

\* OptimalRegion.cpp relies on a second pin on every net
ASSUME NetsAssumption ==
    /\ IsFiniteSet(Nets)
    /\ \A n \in Nets :
          /\ NetCells[n] \subseteq Placeable
          /\ NetPads[n] \subseteq [x : Int, y : Int] /\ IsFiniteSet(NetPads[n])
          /\ Cardinality(NetCells[n]) + Cardinality(NetPads[n]) > 1

VARIABLE
    netHPWL         \* [Nets -> Nat], the cached lengths

NetsOf(cells) == {n \in Nets : NetCells[n] \cap cells # {}}

Pin(p, c)      == [x |-> p[c].x + CellSitesNum[c], y |-> p[c].y + 1]
PinsOf(p, n)   == {Pin(p, c) : c \in NetCells[n]} \cup NetPads[n]
Span(vs)       == Max(vs) - Min(vs)

CalcNetHPWL(p, n) == LET pins == PinsOf(p, n)
                     IN  Span({q.x : q \in pins}) + Span({q.y : q \in pins})

CalculateHPWL(p) == MapThenSumSet(LAMBDA n : CalcNetHPWL(p, n), Nets)

\* Every net of the cells counts once, against its cached length
CalculateHPWLDiff(p, cells) ==
    MapThenSumSet(LAMBDA n : CalcNetHPWL(p, n) - netHPWL[n], NetsOf(cells))

UpdateCachedValues(p, nets) ==
    netHPWL' = [n \in Nets |-> IF n \in nets THEN CalcNetHPWL(p, n) ELSE netHPWL[n]]

-----------------------------------------------------------------------------
(***************************************************************************)
(* The optimal position is the middle of the borders of the boxes around   *)
(* the other pins of the cell's nets.  Twice that coordinate is the sum of *)
(* the two middle borders, less the size of a site.                        *)
(***************************************************************************)
OtherPins(c, n) == {Pin(pos, d) : d \in NetCells[n] \ {c}} \cup NetPads[n]

\* The k-th smallest value of f, counting from 0
Kth(f, k) == CHOOSE v \in {f[i] : i \in DOMAIN f} :
                 /\ Cardinality({i \in DOMAIN f : f[i] < v}) <= k
                 /\ Cardinality({i \in DOMAIN f : f[i] <= v}) > k

MiddleSum(f) == LET half == Cardinality(DOMAIN f) \div 2
                IN  Kth(f, half) + Kth(f, half - 1)

XSeries(c) == [b \in NetsOf({c}) \X {"left", "right"} |->
                  LET xs == {q.x : q \in OtherPins(c, b[1])}
                  IN  IF b[2] = "left" THEN Min(xs) ELSE Max(xs)]
YSeries(c) == [b \in NetsOf({c}) \X {"bottom", "top"} |->
                  LET ys == {q.y : q \in OtherPins(c, b[1])}
                  IN  IF b[2] = "bottom" THEN Min(ys) ELSE Max(ys)]

OptimalRowIdx(c)    == IF NetsOf({c}) = {} THEN cellRow[c]
                       ELSE FindRow(MiddleSum(YSeries(c)) - 2, 2)
OptimalColumnIdx(c) == IF NetsOf({c}) = {} THEN cellSiteIdx[c]
                       ELSE FindColumn(MiddleSum(XSeries(c)) - 2, 2)

=============================================================================
