-------------------------- MODULE PlacementQuality --------------------------
(* PlacementQualityAnalyzer and its two PlacementStorages: the object that     *)
(* measures a placement, trial-legalizes it, puts the cells back, remembers    *)
(* the best placement seen and gives it back.  The loops that use it are in    *)
(* GlobalPlacementLoop and MacroLoop.                                          *)
(*                                                                             *)
(* A design is a netlist and where its cells are: the sequence of the cells'   *)
(* positions in the order of the cell enumerator.  PlacementStorage copies     *)
(* that sequence and knows nothing of the netlist, which buffering may have    *)
(* changed in between: repeaters are inserted at the end of the list of cells, *)
(* and their removal cuts the list off.  The sixteen metrics are abstracted to *)
(* the pair of one measure taken before and after the trial legalization.      *)
EXTENDS Integers, Sequences

CONSTANTS
    Position,   \* where a cell can be
    Netlist,    \* the netlists that buffering can make of the one that was read
    CellCount,  \* CellCount[n]: the number of cells of netlist n
    Cost,       \* Cost[d]: a measure of design d, the smaller the better
    Abacus      \* Abacus[d]: d with the cells where AbacusLegalization moves them

Placements(n) == [1..CellCount[n] -> Position]
Design == UNION {[netlist : {n}, at : Placements(n)] : n \in Netlist}

ASSUME PlacementAssumption ==
    /\ CellCount \in [Netlist -> Nat \ {0}]
    /\ Cost \in [Design -> Nat]
    /\ Abacus \in [Design -> Design]
    /\ \A d \in Design : Abacus[d].netlist = d.netlist

VARIABLES
    design,         \* the netlist, and the coordinates of its cells
    metric,         \* m_metric: the member of the quality record that decides
    experiments,    \* m_experiments
    bestMetrics,    \* m_BestMetrics
    bestPlacement,  \* m_BestPlacement, << >> while nothing is saved in it
    noGain,         \* m_NumIterationsWithoutGain
    bestNetlist     \* history: the netlist when bestPlacement was saved

analyzer ==
    <<metric, experiments, bestMetrics, bestPlacement, noGain, bestNetlist>>

(* RemoveNewBuffering restores the nets and cuts as many cells off the end of  *)
(* the list as are of a repeater's type; the others stay where they are.  What *)
(* is left has no more cells, and can be another netlist with as many: nets    *)
(* are restored also when their repeaters are of a type it does not look for.  *)
RemoveNewBuffering(d) ==
    {[netlist |-> n, at |-> SubSeq(d.at, 1, CellCount[n])] :
        n \in {m \in Netlist : CellCount[m] <= CellCount[d.netlist]}}

DUMMY_VALUE == -1
Metrics == {"placed", "legalized", "unmeasured"}
PlacementQualities == [Metrics -> Nat \cup {DUMMY_VALUE}]

(* A timing metric of a design without timing is never written: it keeps the   *)
(* DUMMY_VALUE of the constructor ("unmeasured").                              *)
PlacementQualityOf(d) ==
    [placed     |-> Cost[d],
     legalized  |-> Cost[Abacus[d]],
     unmeasured |-> DUMMY_VALUE]

DummyQuality == [m \in Metrics |-> DUMMY_VALUE]

(* A slip: the counter starts from the dummy value too.                        *)
InitAnalyzerFromDummy ==
    /\ metric \in Metrics
    /\ experiments = << >>
    /\ bestMetrics = DummyQuality
    /\ bestPlacement = << >>
    /\ bestNetlist = design.netlist
    /\ noGain = DUMMY_VALUE

InitAnalyzer ==
    /\ metric \in Metrics
    /\ experiments = << >>
    /\ bestMetrics = DummyQuality
    /\ bestPlacement = << >>
    /\ bestNetlist = design.netlist
    /\ noGain = 0

SavePlacement(d) == d.at

(* Only as many cells as were saved are moved; the others stay where they are. *)
RestorePlacement(saved, d) ==
    [d EXCEPT !.at = [k \in DOMAIN d.at |->
                        IF k <= Len(saved) THEN saved[k] ELSE d.at[k]]]

(* A slip: the gain is taken over the previous experiment.                     *)
BetterThanLast(pq, threshold) ==
    experiments = << >> \/
        LET last == experiments[Len(experiments)][metric]
        IN  100 * (last - pq[metric]) > threshold * last

(* GetLastIterationImprovement() > threshold, the threshold in percent: the    *)
(* quotient 1 - current / best compared without dividing.                      *)
Better(pq, threshold) ==
    LET best == bestMetrics[metric]
    IN  IF best = DUMMY_VALUE THEN 100 > threshold
        ELSE IF best = 0 THEN 0 > threshold
        ELSE 100 * (best - pq[metric]) > threshold * best

(* A slip: the best placement is saved before the cells are put back.          *)
AnalyzeQualityKeepsTrial(threshold) ==
    LET pq == PlacementQualityOf(design)
    IN  /\ design' = design
        /\ experiments' = Append(experiments, pq)
        /\ IF Better(pq, threshold)
           THEN /\ noGain' = 0
                /\ bestMetrics' = pq
                /\ bestPlacement' = SavePlacement(Abacus[design])
                /\ bestNetlist' = design.netlist
           ELSE /\ noGain' = noGain + 1
                /\ UNCHANGED <<bestMetrics, bestPlacement, bestNetlist>>
        /\ UNCHANGED metric

(* A slip: a gain does not reset the count of iterations without one.          *)
AnalyzeQualityNoReset(threshold) ==
    LET pq == PlacementQualityOf(design)
    IN  /\ design' = design
        /\ experiments' = Append(experiments, pq)
        /\ IF Better(pq, threshold)
           THEN /\ bestMetrics' = pq
                /\ bestPlacement' = SavePlacement(design)
                /\ bestNetlist' = design.netlist
                /\ UNCHANGED noGain
           ELSE /\ noGain' = noGain + 1
                /\ UNCHANGED <<bestMetrics, bestPlacement, bestNetlist>>
        /\ UNCHANGED metric

(* The quality of the placement, the trial legalization and the way back, then *)
(* the verdict on it.                                                          *)
AnalyzeQuality(threshold) ==
    LET saved == SavePlacement(design)
        legal == Abacus[design]
        back  == RestorePlacement(saved, legal)
        pq    == PlacementQualityOf(design)
    IN  /\ design' = back
        /\ experiments' = Append(experiments, pq)
        /\ IF Better(pq, threshold)
           THEN /\ noGain' = 0
                /\ bestMetrics' = pq
                /\ bestPlacement' = SavePlacement(back)
                /\ bestNetlist' = back.netlist
           ELSE /\ noGain' = noGain + 1
                /\ UNCHANGED <<bestMetrics, bestPlacement, bestNetlist>>
        /\ UNCHANGED metric

(* A slip: the restored placement gets no row in the table.                    *)
RestoreWithoutRow ==
    /\ design' = RestorePlacement(bestPlacement, design)
    /\ UNCHANGED analyzer

RestoreBestAchievedPlacement ==
    /\ design' = RestorePlacement(bestPlacement, design)
    /\ experiments' = Append(experiments, bestMetrics)
    /\ UNCHANGED <<metric, bestMetrics, bestPlacement, noGain, bestNetlist>>

(* How many experiments, anywhere in the list, are equal to the last one.      *)
ConvergeIterationsNumber(exps) ==
    IF Len(exps) < 2 THEN Len(exps)
    ELSE LET same == SelectSeq(exps, LAMBDA pq : pq = exps[Len(exps)])
         IN  Len(same)

AnalyzerTypeOK ==
    /\ design \in Design
    /\ metric \in Metrics
    /\ experiments \in Seq(PlacementQualities)
    /\ bestMetrics \in PlacementQualities
    /\ bestNetlist \in Netlist
    /\ bestPlacement \in Placements(bestNetlist) \cup {<< >>}
    /\ noGain \in Nat

(* The design whose placement is kept as the best one.                         *)
BestDesign == [netlist |-> bestNetlist, at |-> bestPlacement]

(* The placement that is kept as the best one is the placement the best        *)
(* metrics were measured on, not the legalized one of the trial nor a later    *)
(* one: whoever restores it, in the netlist it was saved from, gets what the   *)
(* report says.                                                                *)
BestPlacementHasBestMetrics ==
    bestPlacement # << >> => PlacementQualityOf(BestDesign) = bestMetrics
=============================================================================
