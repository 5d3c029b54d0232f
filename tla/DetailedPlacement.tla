-------------------------- MODULE DetailedPlacement --------------------------
(***************************************************************************)
(* Detailed placement (DetailedPlacement.cpp): the placement is legalized  *)
(* if the checks find fault with it, then global swaps, vertical search    *)
(* and horizontal search take turns, each followed by the checks and by a  *)
(* new calculation of all wire lengths, for as long as a round of the      *)
(* three shortens the wires by more than the stopping criterion.           *)
(*                                                                         *)
(* The grid is the new one VLSIFlow.cpp makes after global placement: it   *)
(* has every cell on its first site and no cell on any site.               *)
(***************************************************************************)
EXTENDS HorizontalSearch, AbacusLegalization

CONSTANTS
    GlobalPlacements,       \* the coordinates global placement may leave
    StopNum, StopDen        \* StoppingCriteria is StopNum / StopDen

ASSUME StartAssumption == GlobalPlacements \subseteq [Cells -> [x : Int, y : Int]]
ASSUME StoppingAssumption == StopNum \in Nat /\ StopDen \in Nat \ {0}

VARIABLES
    wl,                     \* the wire length last calculated
    wlBeforeIteration

vars == <<swapVars, horizontalVars, abacusVars, wl, wlBeforeIteration>>

Init ==
    /\ cellRow     = [c \in Cells |-> 0]
    /\ cellSiteIdx = [c \in Cells |-> 0]
    /\ sites       = [r \in Rows |-> [k \in Columns |-> Null]]
    /\ pos \in GlobalPlacements
    /\ netHPWL     = [n \in Nets |-> CalcNetHPWL(pos, n)]
    /\ pass = "DP" /\ op = "cell" /\ cur = Len(CellOrder) /\ trusted = FALSE
    /\ NoTrial
    /\ Direction \in {"LEFTTORIGHT", "RIGHTTOLEFT"} /\ nextColumnIdx = -1
    /\ NoLegalization
    /\ wl = 0 /\ wlBeforeIteration = 0

-----------------------------------------------------------------------------
PassOver ==
    \/ pass \in {"DP", "GS", "VS"} /\ op = "cell" /\ cur = Len(CellOrder)
    \/ pass = "HS" /\ op = "row" /\ cur = NumRows

LegalityControl ==
    /\ PassOver
    /\ IF CheckGridBoundary /\ CheckGridConsistency /\ CheckOverlaps
       THEN op' = "measure" /\ UNCHANGED abacusVars
       ELSE op' = "legalize" /\ StartLegalization
    /\ UNCHANGED <<gridVars, pos, netHPWL, pass, cur, trusted, trialVars,
                   horizontalVars, wl, wlBeforeIteration>>

Legalizing == op = "legalize"

LegalizeCell ==
    /\ Legalizing /\ PlaceCellIntoRow
    /\ UNCHANGED <<swapVars, horizontalVars, wl, wlBeforeIteration>>

UpdateCellsCoordinates ==
    /\ Legalizing /\ queue = <<>>
    /\ \E places \in {ClusterPlaces} :
          PutCells(places) /\ pos' = PutFast(pos, places)
    /\ trusted' = TRUE /\ op' = "measure"
    /\ clusters' = [r \in Rows |-> <<>>] /\ UNCHANGED queue
    /\ UNCHANGED <<netHPWL, pass, cur, trialVars, horizontalVars, wl, wlBeforeIteration>>

\* The error is logged, and detailed placement goes on
LegalizationFails ==
    /\ Legalizing /\ UnableToLegalize
    /\ trusted' = FALSE /\ op' = "measure"
    /\ clusters' = [r \in Rows |-> <<>>] /\ queue' = <<>>
    /\ UNCHANGED <<gridVars, pos, netHPWL, pass, cur, trialVars, horizontalVars,
                   wl, wlBeforeIteration>>

-----------------------------------------------------------------------------
Enter(stage) ==
    /\ pass' = stage /\ cur' = 0
    /\ op' = IF stage = "HS" THEN "row" ELSE "cell"
    /\ nextColumnIdx' = -1
    /\ Direction' = IF stage # "HS" THEN Direction
                    ELSE IF Direction = "LEFTTORIGHT" THEN "RIGHTTOLEFT" ELSE "LEFTTORIGHT"

\* CalculateHPWL(design, true) also refreshes the cached length of every net
Calculate ==
    /\ op = "measure"
    /\ wl' = CalculateHPWL(pos)
    /\ UpdateCachedValues(pos, Nets)
    /\ UNCHANGED <<gridVars, pos, trusted, trialVars, abacusVars>>

Improved(before, after) == (before - after) * StopDen > StopNum * before

StartIterations ==
    /\ Calculate /\ pass = "DP"
    /\ wlBeforeIteration' = wl'
    /\ Enter("GS")

NextStage ==
    /\ Calculate /\ UNCHANGED wlBeforeIteration
    /\ \/ pass = "GS" /\ Enter("VS")
       \/ pass = "VS" /\ Enter("HS")

(* A slip: the iterations are all measured against the first. *)
NextIterationFromStart ==
    /\ Calculate /\ pass = "HS"
    /\ Improved(wlBeforeIteration, wl')
    /\ UNCHANGED wlBeforeIteration
    /\ Enter("GS")

NextIteration ==
    /\ Calculate /\ pass = "HS"
    /\ Improved(wlBeforeIteration, wl')
    /\ wlBeforeIteration' = wl'
    /\ Enter("GS")

Finish ==
    /\ Calculate /\ pass = "HS"
    /\ ~ Improved(wlBeforeIteration, wl')
    /\ op' = "done"
    /\ UNCHANGED <<wlBeforeIteration, pass, cur, horizontalVars>>

Done == op = "done" /\ UNCHANGED vars

Next ==
    \/ LegalityControl \/ LegalizeCell \/ UpdateCellsCoordinates \/ LegalizationFails
    \/ StartIterations \/ NextStage \/ NextIteration \/ Finish
    \/ SwapStep /\ UNCHANGED <<horizontalVars, abacusVars, wl, wlBeforeIteration>>
    \/ HorizontalStep /\ UNCHANGED <<abacusVars, wl, wlBeforeIteration>>
    \/ Done

(***************************************************************************)
(* The program runs until detailed placement is done.  A step is possible  *)
(* in every other state, as the deadlock check shows, so that this is      *)
(* WF_vars(Next), said without ENABLED.                                    *)
(***************************************************************************)
Fairness == []<>(op = "done") \/ []<><<Next>>_vars

Spec == Init /\ [][Next]_vars /\ Fairness

-----------------------------------------------------------------------------
(***************************************************************************)
(* What the grid holds once a legalization has succeeded is legal, and     *)
(* changes only to something legal with shorter wires: of the many trials  *)
(* just those are written to the grid, and no legalization is needed any   *)
(* more.                                                                   *)
(***************************************************************************)
Promise == INSTANCE LegalPlacement WITH
    CellWidth <- CellSitesNum,
    place <- [c \in Placeable |-> [row |-> cellRow[c], column |-> cellSiteIdx[c]]],
    legal <- trusted

OnlyShorterLegalPlacements == Promise!LSpec

(***************************************************************************)
(* Detailed placement comes to its end: every pass does, and the rounds    *)
(* cannot go on shortening the wires for ever.                             *)
(***************************************************************************)
Termination == <>(op = "done")

=============================================================================
