---------------------------- MODULE LegalPlacement ----------------------------
(***************************************************************************)
(* What detailed placement promises.  Once the placement is legal - every  *)
(* cell within a row, no two of them on a site - it stays so, and from     *)
(* then on it only ever changes to one with shorter wires.                 *)
(***************************************************************************)
EXTENDS Integers, FiniteSetsExt

CONSTANTS Rows, Columns, Placeable, CellWidth,
          Nets, NetCells, NetPads       \* in half sites, as in WireLength

VARIABLES
    place,      \* [Placeable -> [row : Rows, column : Columns]]
    legal

Sites(p, c) == {[row |-> p[c].row, column |-> k] :
                    k \in p[c].column .. p[c].column + CellWidth[c] - 1}

IsLegal(p) ==
    /\ \A c \in Placeable : Sites(p, c) \subseteq [row : Rows, column : Columns]
    /\ \A c, d \in Placeable : c # d => Sites(p, c) \cap Sites(p, d) = {}

Pins(p, n) == NetPads[n] \cup
    {[x |-> 2 * p[c].column + CellWidth[c], y |-> 2 * p[c].row + 1] : c \in NetCells[n]}

HalfPerimeter(p, n) ==
    LET xs == {q.x : q \in Pins(p, n)}
        ys == {q.y : q \in Pins(p, n)}
    IN  (Max(xs) - Min(xs)) + (Max(ys) - Min(ys))

Length(p) == MapThenSumSet(LAMBDA n : HalfPerimeter(p, n), Nets)

LInit == legal = FALSE

\* What is not legal may be moved in any way, and is not legal for it
Scatter == ~ legal /\ ~ legal'

Legalize == ~ legal /\ legal' /\ IsLegal(place')

Shorten ==
    /\ legal /\ legal'
    /\ IsLegal(place')
    /\ Length(place') < Length(place)

LNext == Scatter \/ Legalize \/ Shorten

LSpec == LInit /\ [][LNext]_<<place, legal>>
=============================================================================
