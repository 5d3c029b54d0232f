--------------------------- MODULE HorizontalSearch ---------------------------
(***************************************************************************)
(* The third pass of detailed placement (HorizontalSearch.cpp).  It goes   *)
(* through every row from one side to the other and takes groups of cells  *)
(* that follow each other there, each group beginning one cell after the   *)
(* one before.  A group is tried in every order, packed to the left of the *)
(* sites it has, spread over them and packed to the right, and put in the  *)
(* way that shortens the wires most.                                       *)
(*                                                                         *)
(* An action is one group.                                                 *)
(***************************************************************************)
EXTENDS CellSwaps, SequencesExt

CONSTANT HorizontalGroupSize

ASSUME GroupSizeAssumption == HorizontalGroupSize \in Nat \ {0, 1}

VARIABLES
    Direction,      \* of this call, or of the last one
    nextColumnIdx   \* how far along the row the last group began, or -1

horizontalVars == <<Direction, nextColumnIdx>>

\* The row in work: cur counts the rows the pass is through with
RowIdx == cur

(***************************************************************************)
(* Positions are counted along the direction of the search.                *)
(***************************************************************************)
ColumnAt(d) == IF Direction = "LEFTTORIGHT" THEN d ELSE NumCols - 1 - d
At(d)       == sites[RowIdx][ColumnAt(d)]

FirstOf(S) == Min(S \cup {NumCols})

\* The next group begins at the border of the row, or at the site behind the
\* first cell of the last group
GroupBegin ==
    IF nextColumnIdx = -1 THEN 0
    ELSE LET first == FirstOf({d \in nextColumnIdx .. NumCols - 1 : At(d) # Null})
         IN  FirstOf({d \in first .. NumCols - 1 : At(d) # At(first)})

\* The sites where a cell begins that is not the one before
CellStarts ==
    LET IsStart(d) ==
            /\ At(d) # Null
            /\ \A e \in GroupBegin .. d - 1 :
                  At(e) = At(d) => \E m \in e + 1 .. d - 1 : At(m) \notin {Null, At(d)}
    IN  {d \in GroupBegin .. NumCols - 1 : IsStart(d)}

\* The next group, by the sites where its cells begin, if there is one.  A
\* group whose last cell begins at the last site of the row is not looked at.
NextGroup ==
    {starts \in [1 .. HorizontalGroupSize -> CellStarts] :
        /\ \A m, n \in DOMAIN starts : m < n => starts[m] < starts[n]
        /\ \A d \in CellStarts :
              d <= starts[HorizontalGroupSize] => \E n \in DOMAIN starts : d = starts[n]
        /\ starts[HorizontalGroupSize] < NumCols - 1}

\* The first site behind the last cell and the empty ones that follow it
GroupEnd(starts) ==
    LET final  == starts[HorizontalGroupSize]
        border == FirstOf({d \in final .. NumCols - 1 : At(d) # At(final)})
    IN  FirstOf({d \in border .. NumCols - 1 : At(d) # Null})

ConsideredGroupOfCells(starts) == [n \in DOMAIN starts |-> At(starts[n])]

LeftSiteIdx(starts) ==
    IF Direction = "LEFTTORIGHT" THEN GroupBegin ELSE ColumnAt(GroupEnd(starts) - 1)
NumSites(starts) == GroupEnd(starts) - GroupBegin
NumEmpty(starts) == Cardinality({d \in GroupBegin .. GroupEnd(starts) - 1 : At(d) = Null})

-----------------------------------------------------------------------------
TotalWidth(cells) == WidthUpTo(cells)[Len(cells)]

\* Where the cells go in a given order, each behind the one before it and
\* behind the free sites left so far
Implement(starts, cells, FreeSitesLeft(_)) ==
    [n \in DOMAIN cells |->
        [cell   |-> cells[n],
         row    |-> cellRow[cells[n]],
         column |-> LeftSiteIdx(starts) + WidthUpTo(cells)[n - 1] + FreeSitesLeft(n)]]

OnTheLeft(starts, cells) == Implement(starts, cells, LAMBDA n : 0)
Equidistant(starts, cells) ==
    Implement(starts, cells, LAMBDA n : ((n - 1) * NumEmpty(starts)) \div (HorizontalGroupSize - 1))
OnTheRight(starts, cells) ==
    Implement(starts, cells, LAMBDA n : NumSites(starts) - TotalWidth(cells))

Permutation(cells) ==
    {[n \in DOMAIN cells |-> cells[f[n]]] : f \in Bijection(DOMAIN cells, DOMAIN cells)}

Trials(starts) ==
    UNION {{OnTheLeft(starts, cells)} \cup
           (IF NumEmpty(starts) > 0
            THEN {Equidistant(starts, cells), OnTheRight(starts, cells)} ELSE {}) :
              cells \in Permutation(ConsideredGroupOfCells(starts))}

InitialPositions(cells) ==
    [n \in DOMAIN cells |->
        [cell |-> cells[n], row |-> cellRow[cells[n]], column |-> cellSiteIdx[cells[n]]]]

Diff(trial) == CalculateHPWLDiff(PutFast(pos, trial), InGroup(trial))

\* Of several trials that are best the code takes the first
ProcessGroup ==
    /\ pass = "HS" /\ op = "row" /\ cur < NumRows
    /\ \E starts \in NextGroup :
          \/ \E trial \in Trials(starts) :
                /\ Diff(trial) < 0
                /\ \A other \in Trials(starts) : Diff(trial) <= Diff(other)
                /\ PutCells(trial)
                /\ pos' = PutFast(pos, trial)
                /\ UpdateCachedValues(PutFast(pos, trial), NetsOf(InGroup(trial)))
          \/ /\ \A trial \in Trials(starts) : Diff(trial) >= 0
             /\ \E initial \in {InitialPositions(ConsideredGroupOfCells(starts))} :
                   PutCells(initial) /\ pos' = PutFast(pos, initial)
             /\ UNCHANGED netHPWL
    /\ nextColumnIdx' = GroupBegin
    /\ UNCHANGED <<pass, op, cur, trusted, trialVars, Direction>>

NextRowOfCells ==
    /\ pass = "HS" /\ op = "row" /\ cur < NumRows
    /\ NextGroup = {}
    /\ cur' = cur + 1 /\ nextColumnIdx' = -1
    /\ UNCHANGED <<gridVars, pos, netHPWL, pass, op, trusted, trialVars, Direction>>

HorizontalStep == ProcessGroup \/ NextRowOfCells

=============================================================================
