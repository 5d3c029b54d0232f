----------------------- MODULE PlacementQuality_proofs -----------------------
(***************************************************************************)
(* Proofs about the quality analyzer and the two loops that use it: for    *)
(* every design, every measure, every effect of the stages and of the      *)
(* trial legalization, and every setting of the loops.  The analyzer       *)
(* keeps, and the outer loop of global placement gives back, the best      *)
(* placement; the macro loop of RunFlow gives back the best of the         *)
(* iterations it judged, as the last row of the table describes it, and    *)
(* takes the net weights from the slacks of the iteration.                 *)
(***************************************************************************)
EXTENDS GlobalPlacementLoop, MacroLoop, TLAPS

(***************************************************************************)
(* The analyzer: what an analysis does and what restoring gives back.      *)
(***************************************************************************)
(* A design is a record of a netlist and as many positions as it has cells. *)
LEMMA DesignIsRecord ==
  ASSUME NEW d \in Design
  PROVE  /\ d.netlist \in Netlist
         /\ d.at \in Placements(d.netlist)
         /\ d = [netlist |-> d.netlist, at |-> d.at]
         /\ DOMAIN d.at = 1..CellCount[d.netlist]
BY DEF Design, Placements

(* Replacing the positions of such a record keeps its netlist.             *)
LEMMA RecordExcept ==
  ASSUME NEW n, NEW a, NEW d, NEW b, d = [netlist |-> n, at |-> a]
  PROVE  [d EXCEPT !.at = b] = [netlist |-> n, at |-> b]
OBVIOUS

(* Any placement of a netlist makes a design with it.                      *)
LEMMA RecordIsDesign ==
  ASSUME NEW n \in Netlist, NEW p \in Placements(n)
  PROVE  [netlist |-> n, at |-> p] \in Design
<1>1. [netlist |-> n, at |-> p] \in [netlist : {n}, at : Placements(n)] OBVIOUS
<1>. QED BY <1>1 DEF Design

(* A placement is a sequence that is not empty: every netlist has cells.   *)
LEMMA PlacementIsSequence ==
  ASSUME NEW n \in Netlist, NEW p \in Placements(n)
  PROVE  /\ CellCount[n] \in Nat \ {0}
         /\ Len(p) = CellCount[n]
         /\ p \in Seq(Position)
         /\ p # << >>
<1>1. CellCount[n] \in Nat \ {0} BY PlacementAssumption
<1>2. p \in [1..CellCount[n] -> Position] BY DEF Placements
<1>. QED BY <1>1, <1>2

(* What was saved from this netlist comes back entirely.                   *)
LEMMA RestoreGivesSaved ==
  ASSUME NEW d \in Design, NEW p \in Placements(d.netlist)
  PROVE  RestorePlacement(p, d) = [netlist |-> d.netlist, at |-> p]
<1>1. d.netlist \in Netlist /\ DOMAIN d.at = 1..CellCount[d.netlist]
      /\ d = [netlist |-> d.netlist, at |-> d.at]
  BY DesignIsRecord
<1>2. Len(p) = CellCount[d.netlist] /\ CellCount[d.netlist] \in Nat
  BY <1>1, PlacementIsSequence
<1>3. p \in [1..CellCount[d.netlist] -> Position] BY DEF Placements
<1> DEFINE back == [k \in DOMAIN d.at |-> IF k <= Len(p) THEN p[k] ELSE d.at[k]]
<1>4. back = p BY <1>1, <1>2, <1>3
<1>5. RestorePlacement(p, d) = [d EXCEPT !.at = back] BY DEF RestorePlacement
<1> HIDE DEF back
<1>6. [d EXCEPT !.at = back] = [netlist |-> d.netlist, at |-> back]
  BY <1>1, RecordExcept
<1>. QED BY <1>4, <1>5, <1>6

(* Restoring moves cells and leaves the netlist alone, whatever was saved. *)
LEMMA RestoreMovesCellsOnly ==
  ASSUME NEW d \in Design, NEW n \in Netlist, NEW p \in Placements(n) \cup {<< >>}
  PROVE  /\ RestorePlacement(p, d) \in Design
         /\ RestorePlacement(p, d).netlist = d.netlist
<1>1. /\ d.netlist \in Netlist
      /\ d.at \in [1..CellCount[d.netlist] -> Position]
      /\ DOMAIN d.at = 1..CellCount[d.netlist]
      /\ d = [netlist |-> d.netlist, at |-> d.at]
  BY DesignIsRecord DEF Placements
<1>2. CellCount[d.netlist] \in Nat BY <1>1, PlacementAssumption
<1> DEFINE back == [k \in DOMAIN d.at |-> IF k <= Len(p) THEN p[k] ELSE d.at[k]]
<1>3. \A k \in 1..CellCount[d.netlist] : k <= Len(p) => p[k] \in Position
  <2>1. CASE p = << >> BY <2>1, <1>2
  <2>2. CASE p \in Placements(n)
    <3>1. Len(p) = CellCount[n] /\ CellCount[n] \in Nat BY <2>2, PlacementIsSequence
    <3>2. p \in [1..CellCount[n] -> Position] BY <2>2 DEF Placements
    <3>. QED BY <3>1, <3>2, <1>2
  <2>. QED BY <2>1, <2>2
<1>4. back \in Placements(d.netlist) BY <1>1, <1>3 DEF Placements
<1>5. RestorePlacement(p, d) = [d EXCEPT !.at = back] BY DEF RestorePlacement
<1> HIDE DEF back
<1>6. [d EXCEPT !.at = back] = [netlist |-> d.netlist, at |-> back]
  BY <1>1, RecordExcept
<1>7. [netlist |-> d.netlist, at |-> back] \in Design BY <1>1, <1>4, RecordIsDesign
<1>. QED BY <1>5, <1>6, <1>7

(* What removal leaves is a design with the first cells where they were.   *)
LEMMA RemovalLeavesDesign ==
  ASSUME NEW d \in Design, NEW r \in RemoveNewBuffering(d)
  PROVE  r \in Design
<1>1. PICK n \in Netlist : /\ CellCount[n] <= CellCount[d.netlist]
                           /\ r = [netlist |-> n, at |-> SubSeq(d.at, 1, CellCount[n])]
  BY DEF RemoveNewBuffering
<1>2. d.netlist \in Netlist /\ d.at \in [1..CellCount[d.netlist] -> Position]
  BY DesignIsRecord DEF Placements
<1>3. CellCount[n] \in Nat \ {0} /\ CellCount[d.netlist] \in Nat \ {0}
  BY <1>2, PlacementAssumption
<1>4. d.at \in Seq(Position) /\ Len(d.at) = CellCount[d.netlist] BY <1>2, <1>3
<1>5. SubSeq(d.at, 1, CellCount[n]) \in [1..CellCount[n] -> Position]
  <2> DEFINE left == SubSeq(d.at, 1, CellCount[n])
  <2>1. Len(left) = CellCount[n] BY <1>1, <1>3, <1>4
  <2>2. left \in Seq(Position) BY <1>1, <1>3, <1>4
  <2>. HIDE DEF left
  <2>3. left \in [1..CellCount[n] -> Position] BY <2>1, <2>2
  <2>. QED BY <2>3 DEF left
<1>. QED BY <1>1, <1>5, RecordIsDesign DEF Placements

LEMMA QualityType ==
  ASSUME NEW d \in Design
  PROVE  /\ PlacementQualityOf(d) \in PlacementQualities
         /\ \A m \in Metrics : m # "unmeasured" => PlacementQualityOf(d)[m] \in Nat
         /\ PlacementQualityOf(d)["unmeasured"] = DUMMY_VALUE
<1>1. Cost[d] \in Nat /\ Cost[Abacus[d]] \in Nat BY PlacementAssumption
<1>. QED BY <1>1 DEF PlacementQualityOf, PlacementQualities, Metrics, DUMMY_VALUE

(* The analysis puts the cells back where they were.                       *)
LEMMA AnalysisMovesNoCell ==
  ASSUME NEW t, design \in Design, AnalyzeQuality(t)
  PROVE  /\ design' = design
         /\ metric' = metric
         /\ experiments' = Append(experiments, PlacementQualityOf(design))
         /\ \/ /\ Better(PlacementQualityOf(design), t)
               /\ noGain' = 0
               /\ bestMetrics' = PlacementQualityOf(design)
               /\ bestPlacement' = design.at
               /\ bestNetlist' = design.netlist
            \/ /\ ~Better(PlacementQualityOf(design), t)
               /\ noGain' = noGain + 1
               /\ UNCHANGED <<bestMetrics, bestPlacement, bestNetlist>>
<1>1. Abacus[design] \in Design /\ Abacus[design].netlist = design.netlist
  BY PlacementAssumption
<1>2. RestorePlacement(design.at, Abacus[design]) = design
  BY <1>1, DesignIsRecord, RestoreGivesSaved
<1>. QED BY <1>2 DEF AnalyzeQuality, SavePlacement

(* What an analysis records is a quality record, and the counter stays a   *)
(* natural number.                                                         *)
LEMMA AnalysisType ==
  ASSUME NEW t, AnalyzerTypeOK, AnalyzeQuality(t)
  PROVE  AnalyzerTypeOK'
<1>1. design \in Design BY DEF AnalyzerTypeOK
<1>2. PlacementQualityOf(design) \in PlacementQualities
  BY <1>1, QualityType
<1>3. experiments' = Append(experiments, PlacementQualityOf(design))
  BY <1>1, AnalysisMovesNoCell
<1>4. experiments' \in Seq(PlacementQualities) BY <1>2, <1>3 DEF AnalyzerTypeOK
<1>5. /\ design' = design
      /\ metric' = metric
      /\ noGain' \in {0, noGain + 1}
      /\ bestMetrics' \in {PlacementQualityOf(design), bestMetrics}
      /\ \/ bestPlacement' = design.at /\ bestNetlist' = design.netlist
         \/ bestPlacement' = bestPlacement /\ bestNetlist' = bestNetlist
  BY <1>1, AnalysisMovesNoCell
<1>6. bestNetlist' \in Netlist /\ bestPlacement' \in Placements(bestNetlist') \cup {<< >>}
  BY <1>1, <1>5, DesignIsRecord DEF AnalyzerTypeOK
<1>. QED BY <1>1, <1>2, <1>4, <1>5, <1>6 DEF AnalyzerTypeOK

(* The metrics of a placement that is kept are measured on a design.       *)
LEMMA BestIsDesign ==
  ASSUME AnalyzerTypeOK, bestPlacement # << >>
  PROVE  BestDesign \in Design
BY RecordIsDesign DEF AnalyzerTypeOK, BestDesign

(* After an analysis the metrics are still those of the placement kept.    *)
LEMMA AnalysisMeasuresBest ==
  ASSUME NEW t, AnalyzerTypeOK, BestPlacementHasBestMetrics, AnalyzeQuality(t)
  PROVE  BestPlacementHasBestMetrics'
<1>1. design \in Design BY DEF AnalyzerTypeOK
<1>2. CASE Better(PlacementQualityOf(design), t)
  <2>1. /\ bestMetrics' = PlacementQualityOf(design)
        /\ BestDesign' = design
    BY <1>1, <1>2, AnalysisMovesNoCell, DesignIsRecord DEF BestDesign
  <2>. QED BY <2>1 DEF BestPlacementHasBestMetrics, PlacementQualityOf
<1>3. CASE ~Better(PlacementQualityOf(design), t)
  BY <1>1, <1>3, AnalysisMovesNoCell
     DEF BestPlacementHasBestMetrics, PlacementQualityOf, BestDesign
<1>. QED BY <1>2, <1>3

(* Restoring leaves the best design if its netlist is still there, and     *)
(* otherwise some design with the same netlist.                            *)
LEMMA RestoringGivesBest ==
  ASSUME AnalyzerTypeOK, RestoreBestAchievedPlacement
  PROVE  /\ design' \in Design
         /\ design'.netlist = design.netlist
         /\ (bestPlacement # << >> /\ design.netlist = bestNetlist) => design' = BestDesign
<1>1. /\ design \in Design /\ bestNetlist \in Netlist
      /\ bestPlacement \in Placements(bestNetlist) \cup {<< >>}
      /\ design' = RestorePlacement(bestPlacement, design)
  BY DEF AnalyzerTypeOK, RestoreBestAchievedPlacement
<1>. QED BY <1>1, RestoreMovesCellsOnly, RestoreGivesSaved DEF BestDesign

(* The first analysis saves the placement whatever it measures.            *)
LEMMA FirstIsBetter ==
  ASSUME bestMetrics = DummyQuality, metric \in Metrics, NEW t \in Int, t < 100, NEW pq
  PROVE  Better(pq, t)
BY DEF Better, DummyQuality, DUMMY_VALUE

-----------------------------------------------------------------------------
(***************************************************************************)
(* The outer loop of global placement.                                     *)
(***************************************************************************)

(***************************************************************************)
(* The first analysis always saves a placement, because the best metrics   *)
(* are still the dummy values; so there is one for the exits to restore.   *)
(***************************************************************************)
Saved ==
    IF pc = "start" \/ ~useQAClass
    THEN experiments = << >> /\ bestMetrics = DummyQuality /\ bestPlacement = << >>
         /\ pc \notin {"tolerance", "converged"}
    ELSE bestPlacement # << >>

IInv == TypeOK /\ Saved /\ BestPlacementHasBestMetrics /\ CounterPointsAtBest
               /\ NothingBetterIsForgotten /\ VerdictLeavesBestPlacement

(* The arithmetic of the threshold: a new best that gains more than the    *)
(* threshold keeps everything that did not gain it over the old best.      *)
LEMMA ThresholdTransitive ==
  ASSUME NEW t \in Nat, t < 100, NEW b \in Nat, NEW c \in Nat, NEW e \in Int,
         100 * (b - e) <= t * b, 100 * (b - c) > t * b
  PROVE  100 * (c - e) <= t * c
<1>1. t * b >= 0 OBVIOUS
<1>2. b - c \in Nat BY <1>1
<1>3. t * (b - c) <= 100 * (b - c) BY <1>2
<1>4. t * (b - c) = t * b - t * c OBVIOUS
<1>5. t * b \in Int /\ t * c \in Int OBVIOUS
<1>. QED BY <1>3, <1>4, <1>5

(* After an analysis some placement is kept.                               *)
LEMMA AnalysisSaves ==
  ASSUME TypeOK, Saved, NEW t \in Int, t < 100, AnalyzeQuality(t)
  PROVE  bestPlacement' # << >>
<1>1. design \in Design /\ metric \in Metrics BY DEF TypeOK, AnalyzerTypeOK
<1>2. CASE Better(PlacementQualityOf(design), t)
  BY <1>1, <1>2, AnalysisMovesNoCell, DesignIsRecord, PlacementIsSequence
<1>3. CASE ~Better(PlacementQualityOf(design), t)
  <2>1. ~(pc = "start" \/ ~useQAClass) BY <1>1, <1>3, FirstIsBetter DEF Saved
  <2>. QED BY <1>1, <1>3, <2>1, AnalysisMovesNoCell DEF Saved
<1>. QED BY <1>2, <1>3

(* The counter points at the best experiment after an analysis, if it did  *)
(* before or if this is the first.                                         *)
LEMMA AnalysisCounts ==
  ASSUME TypeOK, NEW t \in Int, t < 100, AnalyzeQuality(t),
         \/ experiments = << >> /\ bestMetrics = DummyQuality
         \/ /\ noGain < Len(experiments)
            /\ experiments[Len(experiments) - noGain] = bestMetrics
  PROVE  /\ noGain' < Len(experiments')
         /\ experiments'[Len(experiments') - noGain'] = bestMetrics'
<1>. DEFINE pq == PlacementQualityOf(design)
<1>1. /\ design \in Design /\ metric \in Metrics /\ noGain \in Nat
      /\ experiments \in Seq(PlacementQualities)
  BY DEF TypeOK, AnalyzerTypeOK
<1>2. pq \in PlacementQualities BY <1>1, QualityType
<1>3. /\ Len(experiments') = Len(experiments) + 1
      /\ experiments'[Len(experiments) + 1] = pq
      /\ \A k \in 1..Len(experiments) : experiments'[k] = experiments[k]
  <2>1. experiments' = Append(experiments, pq) BY <1>1, AnalysisMovesNoCell
  <2>. QED BY <1>1, <1>2, <2>1
<1>4. CASE Better(pq, t)
  <2>1. noGain' = 0 /\ bestMetrics' = pq BY <1>1, <1>4, AnalysisMovesNoCell
  <2>2. Len(experiments) \in Nat BY <1>1
  <2>. QED BY <2>1, <2>2, <1>3
<1>5. CASE ~Better(pq, t)
  <2>1. noGain' = noGain + 1 /\ bestMetrics' = bestMetrics
    BY <1>1, <1>5, AnalysisMovesNoCell
  <2>2. /\ noGain < Len(experiments)
        /\ experiments[Len(experiments) - noGain] = bestMetrics
    BY <1>1, <1>5, FirstIsBetter
  <2>3. Len(experiments) \in Nat BY <1>1
  <2>4. Len(experiments) - noGain \in 1..Len(experiments) BY <1>1, <2>2, <2>3
  <2>5. Len(experiments') - noGain' = Len(experiments) - noGain
    BY <1>1, <1>3, <2>1, <2>3
  <2>. QED BY <1>1, <1>3, <2>1, <2>2, <2>3, <2>4, <2>5
<1>. QED BY <1>4, <1>5

(* A placement that is not better leaves the best beyond its reach, and a  *)
(* better one keeps every earlier experiment out of reach: the threshold   *)
(* of the loop is one that asks for a gain, or the analysis is the first.  *)
LEMMA AnalysisForgetsNothing ==
  ASSUME TypeOK, Saved, BestPlacementHasBestMetrics, NothingBetterIsForgotten,
         NEW t \in Int, t < 100, AnalyzeQuality(t),
         t = improvementTreshold \/ pc = "start"
  PROVE  NothingBetterIsForgotten'
<1>. DEFINE pq == PlacementQualityOf(design)
            T  == improvementTreshold
            Beyond(b, e) == 100 * (b - e) <= T * b
<1>. SUFFICES ASSUME T >= 0, metric' # "unmeasured"
              PROVE  \A k \in DOMAIN experiments' :
                        Beyond(bestMetrics'[metric'], experiments'[k][metric'])
  BY DEF NothingBetterIsForgotten
<1>1. /\ design \in Design /\ metric \in Metrics
      /\ experiments \in Seq(PlacementQualities)
  BY DEF TypeOK, AnalyzerTypeOK
<1>2. T \in Nat /\ T < 100 BY LoopAssumption
<1>3. metric' = metric /\ metric # "unmeasured" BY <1>1, AnalysisMovesNoCell
<1>4. pq \in PlacementQualities /\ pq[metric] \in Nat BY <1>1, <1>3, QualityType
<1>5. /\ DOMAIN experiments' = 1..(Len(experiments) + 1)
      /\ experiments'[Len(experiments) + 1] = pq
      /\ \A k \in 1..Len(experiments) : experiments'[k] = experiments[k]
  <2>1. experiments' = Append(experiments, pq) BY <1>1, AnalysisMovesNoCell
  <2>. QED BY <1>1, <1>4, <2>1
<1>6. \A k \in 1..Len(experiments) : experiments[k][metric] \in Int
  <2>1. \A k \in 1..Len(experiments) : experiments[k] \in PlacementQualities BY <1>1
  <2>. QED BY <1>1, <2>1 DEF PlacementQualities, DUMMY_VALUE
<1>7. DOMAIN experiments = 1..Len(experiments) /\ Len(experiments) \in Nat BY <1>1
<1>8. CASE pc = "start" \/ ~useQAClass
  <2>1. experiments = << >> /\ Better(pq, t) BY <1>1, <1>8, FirstIsBetter DEF Saved
  <2>2. bestMetrics' = pq BY <1>1, <2>1, AnalysisMovesNoCell
  <2>3. 1..(Len(experiments) + 1) = {1} BY <2>1
  <2>4. Beyond(pq[metric], pq[metric])
    <3>1. T * pq[metric] >= 0 BY <1>2, <1>4
    <3>2. 100 * (pq[metric] - pq[metric]) = 0 BY <1>4
    <3>. QED BY <3>1, <3>2
  <2>. QED BY <1>3, <1>5, <2>1, <2>2, <2>3, <2>4
<1>9. CASE ~(pc = "start" \/ ~useQAClass)
  <2>. DEFINE b == bestMetrics[metric]
  <2>1. BestDesign \in Design /\ PlacementQualityOf(BestDesign) = bestMetrics
    BY <1>9, BestIsDesign DEF Saved, BestPlacementHasBestMetrics, TypeOK
  <2>2. b \in Nat BY <1>1, <1>3, <2>1, QualityType
  <2>3. \A k \in 1..Len(experiments) : Beyond(b, experiments[k][metric])
    BY <1>2, <1>3, <1>7 DEF NothingBetterIsForgotten
  <2>4. t = T BY <1>9
  <2>5. CASE Better(pq, t)
    <3>1. bestMetrics' = pq BY <1>1, <2>5, AnalysisMovesNoCell
    <3>2. Beyond(pq[metric], pq[metric])
      <4>1. T * pq[metric] >= 0 BY <1>2, <1>4
      <4>2. 100 * (pq[metric] - pq[metric]) = 0 BY <1>4
      <4>. QED BY <4>1, <4>2
    <3>3. ASSUME NEW k \in 1..Len(experiments)
          PROVE  Beyond(pq[metric], experiments[k][metric])
      <4>1. 100 * (b - pq[metric]) > T * b
        BY <1>2, <2>2, <2>4, <2>5 DEF Better, DUMMY_VALUE
      <4>2. Beyond(b, experiments[k][metric]) BY <2>3
      <4>. QED BY <1>2, <1>4, <1>6, <2>2, <4>1, <4>2, ThresholdTransitive
    <3>. QED BY <1>3, <1>5, <1>7, <3>1, <3>2, <3>3
  <2>6. CASE ~Better(pq, t)
    <3>1. bestMetrics' = bestMetrics BY <1>1, <2>6, AnalysisMovesNoCell
    <3>2. Beyond(b, pq[metric])
      BY <1>2, <1>4, <2>2, <2>4, <2>6 DEF Better, DUMMY_VALUE
    <3>. QED BY <1>3, <1>5, <1>7, <2>3, <3>1, <3>2
  <2>. QED BY <2>5, <2>6
<1>. QED BY <1>8, <1>9

LEMMA InitInvariant == Init => IInv
<1>. SUFFICES ASSUME Init PROVE IInv OBVIOUS
<1>1. design \in Design /\ bestNetlist \in Netlist
  BY DesignIsRecord DEF Init, InitAnalyzer
<1>7. TypeOK
  BY <1>1 DEF Init, InitAnalyzer, TypeOK, AnalyzerTypeOK, PlacementQualities, DummyQuality,
         DUMMY_VALUE
<1>2. Saved BY DEF Init, InitAnalyzer, Saved
<1>3. BestPlacementHasBestMetrics
  BY DEF Init, InitAnalyzer, BestPlacementHasBestMetrics
<1>4. CounterPointsAtBest BY DEF Init, CounterPointsAtBest
<1>5. NothingBetterIsForgotten BY DEF Init, InitAnalyzer, NothingBetterIsForgotten
<1>6. VerdictLeavesBestPlacement BY DEF Init, VerdictLeavesBestPlacement
<1>. QED BY <1>2, <1>3, <1>4, <1>5, <1>6, <1>7 DEF IInv

(* The two steps that analyze.                                             *)
LEMMA AnalysisKeepsInvariant ==
  ASSUME IInv, useQAClass, NEW t \in Int, t < 100, AnalyzeQuality(t),
         \/ pc = "start" /\ pc' = "solve"
         \/ pc = "judge" /\ pc' = "exit" /\ t = improvementTreshold,
         UNCHANGED <<useQAClass, iteration>>
  PROVE  IInv'
<1>1. TypeOK /\ Saved /\ BestPlacementHasBestMetrics /\ NothingBetterIsForgotten
  BY DEF IInv
<1>2. TypeOK'
  <2>1. AnalyzerTypeOK' BY <1>1, AnalysisType DEF TypeOK
  <2>. QED BY <1>1, <2>1 DEF TypeOK
<1>3. bestPlacement' # << >> BY <1>1, AnalysisSaves
<1>4. Saved' BY <1>3 DEF Saved
<1>5. BestPlacementHasBestMetrics' BY <1>1, AnalysisMeasuresBest DEF TypeOK
<1>6. CounterPointsAtBest'
  <2>1. \/ experiments = << >> /\ bestMetrics = DummyQuality
        \/ /\ noGain < Len(experiments)
           /\ experiments[Len(experiments) - noGain] = bestMetrics
    BY DEF IInv, Saved, CounterPointsAtBest
  <2>2. /\ noGain' < Len(experiments')
        /\ experiments'[Len(experiments') - noGain'] = bestMetrics'
    BY <1>1, <2>1, AnalysisCounts
  <2>. QED BY <2>2 DEF CounterPointsAtBest
<1>7. NothingBetterIsForgotten' BY <1>1, AnalysisForgetsNothing
<1>8. VerdictLeavesBestPlacement' BY DEF VerdictLeavesBestPlacement
<1>. QED BY <1>2, <1>4, <1>5, <1>6, <1>7, <1>8 DEF IInv

(* The two steps that restore.                                             *)
LEMMA RestoringKeepsInvariant ==
  ASSUME IInv, useQAClass, pc = "exit", RestoreBestAchievedPlacement,
         pc' \in {"tolerance", "converged"}, UNCHANGED <<useQAClass, iteration>>
  PROVE  IInv'
<1>1. /\ AnalyzerTypeOK /\ design \in Design /\ metric \in Metrics
      /\ bestMetrics \in PlacementQualities
      /\ experiments \in Seq(PlacementQualities)
  BY DEF IInv, TypeOK, AnalyzerTypeOK
<1>2. bestPlacement # << >> BY DEF IInv, Saved
<1>3. BestDesign \in Design /\ PlacementQualityOf(BestDesign) = bestMetrics
  BY <1>1, <1>2, BestIsDesign DEF IInv, BestPlacementHasBestMetrics
<1>4. /\ design' \in Design /\ design'.netlist = design.netlist
      /\ design.netlist = bestNetlist => design' = BestDesign
  BY <1>1, <1>2, RestoringGivesBest
<1>5. /\ experiments' = Append(experiments, bestMetrics)
      /\ UNCHANGED <<metric, bestMetrics, bestPlacement, noGain, bestNetlist>>
  BY DEF RestoreBestAchievedPlacement
<1>6. /\ experiments' \in Seq(PlacementQualities)
      /\ Len(experiments') = Len(experiments) + 1
      /\ DOMAIN experiments' = 1..(Len(experiments) + 1)
      /\ experiments'[Len(experiments) + 1] = bestMetrics
      /\ \A k \in 1..Len(experiments) : experiments'[k] = experiments[k]
      /\ DOMAIN experiments = 1..Len(experiments) /\ Len(experiments) \in Nat
  BY <1>1, <1>5
<1>7. TypeOK' BY <1>2, <1>4, <1>5, <1>6 DEF IInv, TypeOK, AnalyzerTypeOK, Ended
<1>8. Saved' BY <1>2, <1>4, <1>5 DEF Saved
<1>9. BestPlacementHasBestMetrics'
  BY <1>3, <1>5 DEF BestPlacementHasBestMetrics, PlacementQualityOf, BestDesign
<1>10. CounterPointsAtBest' BY DEF CounterPointsAtBest
<1>11. NothingBetterIsForgotten'
  <2>. SUFFICES ASSUME improvementTreshold >= 0, metric # "unmeasured",
                       NEW k \in 1..(Len(experiments) + 1)
                PROVE  100 * (bestMetrics[metric] - experiments'[k][metric])
                          <= improvementTreshold * bestMetrics[metric]
    BY <1>5, <1>6 DEF NothingBetterIsForgotten
  <2>1. CASE k \in 1..Len(experiments)
    BY <1>6, <2>1 DEF IInv, NothingBetterIsForgotten
  <2>2. CASE k = Len(experiments) + 1
    <3>1. bestMetrics[metric] \in Nat BY <1>1, <1>2, <1>3, QualityType
    <3>2. improvementTreshold \in Nat BY LoopAssumption
    <3>3. improvementTreshold * bestMetrics[metric] >= 0 BY <3>1, <3>2
    <3>4. 100 * (bestMetrics[metric] - bestMetrics[metric]) = 0 BY <3>1
    <3>. QED BY <1>6, <2>2, <3>3, <3>4
  <2>. QED BY <1>6, <2>1, <2>2
<1>12. VerdictLeavesBestPlacement'
  <2>. SUFFICES ASSUME design'.netlist = bestNetlist
                PROVE  /\ design' = BestDesign
                       /\ PlacementQualityOf(design') = experiments'[Len(experiments')]
    BY <1>5 DEF VerdictLeavesBestPlacement, PlacementQualityOf, BestDesign
  <2>1. design' = BestDesign BY <1>4
  <2>. QED BY <1>3, <1>6, <2>1
<1>. QED BY <1>7, <1>8, <1>9, <1>10, <1>11, <1>12 DEF IInv

LEMMA StepInvariant == IInv /\ [Next]_vars => IInv'
<1>. SUFFICES ASSUME IInv, [Next]_vars PROVE IInv' OBVIOUS
<1>1. CASE Start
  BY <1>1, AnalysisKeepsInvariant DEF Start
<1>2. CASE TaoSolve
  <2>1. /\ design' \in Design
        /\ pc = "solve" /\ pc' = "judge" /\ UNCHANGED <<analyzer, useQAClass, iteration>>
    BY <1>2 DEF TaoSolve
  <2>2. TypeOK' BY <2>1 DEF IInv, TypeOK, AnalyzerTypeOK, analyzer
  <2>3. Saved' BY <2>1 DEF IInv, Saved, analyzer
  <2>4. BestPlacementHasBestMetrics'
    BY <2>1 DEF IInv, BestPlacementHasBestMetrics, PlacementQualityOf, BestDesign, analyzer
  <2>5. CounterPointsAtBest' BY <2>1 DEF IInv, CounterPointsAtBest, analyzer
  <2>6. NothingBetterIsForgotten' BY <2>1 DEF IInv, NothingBetterIsForgotten, analyzer
  <2>7. VerdictLeavesBestPlacement' BY <2>1 DEF VerdictLeavesBestPlacement
  <2>. QED BY <2>2, <2>3, <2>4, <2>5, <2>6, <2>7 DEF IInv
<1>3. CASE Judge
  BY <1>3, AnalysisKeepsInvariant, LoopAssumption DEF Judge
<1>4. CASE ExitTolerance
  BY <1>4, RestoringKeepsInvariant DEF ExitTolerance, Tolerated
<1>5. CASE ExitConverged
  BY <1>5, RestoringKeepsInvariant DEF ExitConverged, Converged
<1>6. CASE \/ StartWithoutAnalyzer \/ JudgeWithoutAnalyzer \/ ExitFinished
           \/ UpdateWeightsWithoutAnalyzer \/ UNCHANGED vars
  <2>1. /\ UNCHANGED <<design, analyzer, useQAClass>>
        /\ \/ ~useQAClass /\ pc' \in {"solve", "exit", "crashed"} /\ iteration' = iteration
           \/ pc = "exit" /\ pc' = "finished" /\ iteration' = iteration
           \/ pc' = pc /\ iteration' = iteration
    BY <1>6 DEF StartWithoutAnalyzer, JudgeWithoutAnalyzer, ExitFinished,
                UpdateWeightsWithoutAnalyzer, vars, analyzer
  <2>2. TypeOK' BY <2>1 DEF IInv, TypeOK, AnalyzerTypeOK, analyzer, Ended
  <2>3. Saved' BY <2>1 DEF IInv, Saved, analyzer
  <2>4. BestPlacementHasBestMetrics'
    BY <2>1 DEF IInv, BestPlacementHasBestMetrics, PlacementQualityOf, BestDesign, analyzer
  <2>5. CounterPointsAtBest' BY <2>1 DEF IInv, CounterPointsAtBest, analyzer
  <2>6. NothingBetterIsForgotten' BY <2>1 DEF IInv, NothingBetterIsForgotten, analyzer
  <2>7. VerdictLeavesBestPlacement'
    BY <2>1 DEF IInv, VerdictLeavesBestPlacement, PlacementQualityOf, BestDesign, analyzer
  <2>. QED BY <2>2, <2>3, <2>4, <2>5, <2>6, <2>7 DEF IInv
<1>7. CASE GoOn
  <2>1. /\ design' \in RemoveNewBuffering(design)
        /\ pc = "exit" /\ pc' = "solve" /\ iteration' = iteration + 1
        /\ UNCHANGED <<analyzer, useQAClass>>
    BY <1>7 DEF GoOn
  <2>2. design' \in Design BY <2>1, RemovalLeavesDesign DEF IInv, TypeOK, AnalyzerTypeOK
  <2>3. TypeOK' BY <2>1, <2>2 DEF IInv, TypeOK, AnalyzerTypeOK, analyzer
  <2>4. Saved' BY <2>1 DEF IInv, Saved, analyzer
  <2>5. BestPlacementHasBestMetrics'
    BY <2>1 DEF IInv, BestPlacementHasBestMetrics, PlacementQualityOf, BestDesign, analyzer
  <2>6. CounterPointsAtBest' BY <2>1 DEF IInv, CounterPointsAtBest, analyzer
  <2>7. NothingBetterIsForgotten' BY <2>1 DEF IInv, NothingBetterIsForgotten, analyzer
  <2>8. VerdictLeavesBestPlacement' BY <2>1 DEF VerdictLeavesBestPlacement
  <2>. QED BY <2>3, <2>4, <2>5, <2>6, <2>7, <2>8 DEF IInv
<1>. QED BY <1>1, <1>2, <1>3, <1>4, <1>5, <1>6, <1>7 DEF Next

THEOREM Invariance == Spec => []IInv
BY InitInvariant, StepInvariant, PTL DEF Spec

(* The loop's variables keep their types for every design and setting.     *)
THEOREM TypeCorrect == Spec => []TypeOK
<1>1. IInv => TypeOK BY DEF IInv
<1>. QED BY <1>1, Invariance, PTL

(* The placement kept is the one its metrics were measured on, whatever    *)
(* the trial legalization does to the cells in between.                    *)
THEOREM BestIsWhatWasMeasured == Spec => []BestPlacementHasBestMetrics
<1>1. IInv => BestPlacementHasBestMetrics BY DEF IInv
<1>. QED BY <1>1, Invariance, PTL

(* With a threshold below 100% that asks for a gain, no experiment of any  *)
(* run beats the best by more than the threshold.                          *)
THEOREM BestIsWithinThreshold == Spec => []NothingBetterIsForgotten
<1>1. IInv => NothingBetterIsForgotten BY DEF IInv
<1>. QED BY <1>1, Invariance, PTL

(* Both exits with a verdict leave the design in the best placement, if    *)
(* the netlist is still the one it was saved from.                         *)
THEOREM VerdictIsBest == Spec => []VerdictLeavesBestPlacement
<1>1. IInv => VerdictLeavesBestPlacement BY DEF IInv
<1>. QED BY <1>1, Invariance, PTL

(* The counter of the early exit always points back at the best.           *)
THEOREM CounterIsRight == Spec => []CounterPointsAtBest
<1>1. IInv => CounterPointsAtBest BY DEF IInv
<1>. QED BY <1>1, Invariance, PTL

-----------------------------------------------------------------------------
(***************************************************************************)
(* The macro loop of RunFlow.                                              *)
(***************************************************************************)

(***************************************************************************)
(* A placement is kept as soon as an iteration was judged; only restoring  *)
(* adds a row without judging.                                             *)
(***************************************************************************)
Kept ==
    IF bestPlacement = << >>
    THEN bestMetrics = DummyQuality /\ (stage # "done" => experiments = << >>)
    ELSE PlacementQualityOf(BestDesign) = bestMetrics

(* While the net weights are about to be made the slacks are those of the  *)
(* trial legalization; without timing there are none at all.               *)
SlacksForWeights ==
    IF CanDoTiming THEN stage = "weights" => timed = Abacus[design]
    ELSE timed = NoDesign /\ weighed = NoDesign

InLoop == stage \notin {"restore", "done"} => i < nMacroIterations

MInv == MTypeOK /\ InLoop /\ Kept /\ BestOfAllIterations /\ TableDescribesPlacement
               /\ SlacksForWeights

(* A judged iteration is kept when it is the best, and then it is.         *)
LEMMA JudgedIsKept ==
  ASSUME AnalyzerTypeOK, Kept, stage # "done", BestOfAllIterations, AnalyzeQuality(0)
  PROVE  /\ bestPlacement' # << >>
         /\ PlacementQualityOf(BestDesign)' = bestMetrics'
         /\ BestOfAllIterations'
<1> DEFINE pq == PlacementQualityOf(design)
<1>1. design \in Design /\ metric \in Metrics BY DEF AnalyzerTypeOK
<1>2. design.at # << >> BY <1>1, DesignIsRecord, PlacementIsSequence
<1>11. BestPlacementHasBestMetrics BY DEF Kept, BestPlacementHasBestMetrics
<1>12. BestPlacementHasBestMetrics' BY <1>11, AnalysisMeasuresBest
<1>3. pq \in PlacementQualities /\ (metric # "unmeasured" => pq[metric] \in Nat)
  BY <1>1, QualityType
<1>4. metric' = metric /\ experiments' = Append(experiments, pq)
  BY <1>1, AnalysisMovesNoCell
<1>5. experiments \in Seq(PlacementQualities) BY DEF AnalyzerTypeOK
<1>6. /\ DOMAIN experiments' = 1..Len(experiments) + 1
      /\ \A k \in 1..Len(experiments) : experiments'[k] = experiments[k]
      /\ experiments'[Len(experiments) + 1] = pq
      /\ Len(experiments) \in Nat
  BY <1>3, <1>4, <1>5
<1>7. \A k \in 1..Len(experiments) : experiments[k] \in PlacementQualities BY <1>5
<1>8. \A q \in PlacementQualities : q[metric] \in Int
  BY <1>1 DEF PlacementQualities, DUMMY_VALUE
<1>9. CASE Better(pq, 0)
  <2>1. bestMetrics' = pq /\ bestPlacement' = design.at BY <1>1, <1>9, AnalysisMovesNoCell
  <2>2. ASSUME metric # "unmeasured", NEW k \in 1..Len(experiments) + 1
        PROVE  pq[metric] <= experiments'[k][metric]
    <3>1. CASE k = Len(experiments) + 1 BY <1>3, <1>6, <2>2, <3>1
    <3>2. CASE k # Len(experiments) + 1
      <4>1. k \in 1..Len(experiments) /\ experiments'[k] = experiments[k] BY <1>6, <3>2
      <4>2. bestMetrics[metric] <= experiments[k][metric]
        BY <1>5, <2>2, <4>1 DEF BestOfAllIterations
      <4>3. bestPlacement # << >>
        BY <4>1, <1>5 DEF Kept
      <4>4. bestMetrics[metric] \in Nat
        BY <1>1, <2>2, <4>3, BestIsDesign, QualityType DEF Kept
      <4>5. pq[metric] <= bestMetrics[metric]
        BY <1>3, <1>9, <2>2, <4>4 DEF Better, DUMMY_VALUE
      <4>6. experiments[k][metric] \in Int BY <1>7, <1>8, <4>1
      <4>. QED BY <1>3, <2>2, <4>1, <4>2, <4>4, <4>5, <4>6
    <3>. QED BY <3>1, <3>2
  <2>3. BestOfAllIterations' BY <1>4, <1>6, <2>1, <2>2 DEF BestOfAllIterations
  <2>. QED BY <1>2, <1>12, <2>1, <2>3 DEF BestPlacementHasBestMetrics, PlacementQualityOf
<1>10. CASE ~Better(pq, 0)
  <2>1. bestMetrics' = bestMetrics /\ bestPlacement' = bestPlacement
    BY <1>1, <1>10, AnalysisMovesNoCell
  <2>2. bestMetrics # DummyQuality BY <1>1, <1>10, FirstIsBetter
  <2>3. bestPlacement # << >> BY <2>2 DEF Kept
  <2>4. BestDesign \in Design /\ PlacementQualityOf(BestDesign) = bestMetrics
    BY <2>3, BestIsDesign DEF Kept
  <2>5. ASSUME metric # "unmeasured", NEW k \in 1..Len(experiments) + 1
        PROVE  bestMetrics[metric] <= experiments'[k][metric]
    <3>1. bestMetrics[metric] \in Nat BY <1>1, <2>4, <2>5, QualityType
    <3>2. CASE k = Len(experiments) + 1
      <4>1. bestMetrics[metric] <= pq[metric]
        BY <1>3, <1>10, <2>5, <3>1 DEF Better, DUMMY_VALUE
      <4>. QED BY <1>6, <3>2, <4>1
    <3>3. CASE k # Len(experiments) + 1
      <4>1. k \in 1..Len(experiments) /\ experiments'[k] = experiments[k] BY <1>6, <3>3
      <4>. QED BY <1>5, <2>5, <4>1 DEF BestOfAllIterations
    <3>. QED BY <3>2, <3>3
  <2>6. BestOfAllIterations' BY <1>4, <1>6, <2>1, <2>5 DEF BestOfAllIterations
  <2>. QED BY <1>12, <2>1, <2>3, <2>6 DEF BestPlacementHasBestMetrics, PlacementQualityOf
<1>. QED BY <1>9, <1>10

LEMMA MInitInv == MInit => MInv
<1>. SUFFICES ASSUME MInit PROVE MInv OBVIOUS
<1>1. DummyQuality \in PlacementQualities BY DEF DummyQuality, PlacementQualities
<1>2. AnalyzerTypeOK BY <1>1, DesignIsRecord DEF MInit, AnalyzerTypeOK, InitAnalyzer
<1>3. 0 \in 0..nMacroIterations BY MacroAssumption
<1>4. MTypeOK BY <1>2, <1>3 DEF MInit, MTypeOK
<1>. QED BY <1>4, MacroAssumption DEF MInit, InitAnalyzer, MInv, InLoop, Kept, BestOfAllIterations,
     TableDescribesPlacement, SlacksForWeights

(***************************************************************************)
(* What restoring leaves: the row it adds is that of the placement kept.   *)
(***************************************************************************)
LEMMA RestoreInv == MInv /\ Restore => MInv'
<1>. SUFFICES ASSUME MInv, Restore PROVE MInv' OBVIOUS
<1>1. AnalyzerTypeOK /\ experiments \in Seq(PlacementQualities)
      /\ bestMetrics \in PlacementQualities /\ metric \in Metrics
  BY DEF MInv, MTypeOK, AnalyzerTypeOK
<1>2. /\ RestoreBestAchievedPlacement
      /\ experiments' = Append(experiments, bestMetrics)
      /\ UNCHANGED <<metric, bestMetrics, bestPlacement, noGain, bestNetlist,
                     i, timed, weighed, satisfied>>
      /\ stage' = "done" /\ stage = "restore"
  BY DEF Restore, RestoreBestAchievedPlacement
<1>3. /\ DOMAIN experiments' = 1..Len(experiments) + 1
      /\ \A k \in 1..Len(experiments) : experiments'[k] = experiments[k]
      /\ experiments'[Len(experiments) + 1] = bestMetrics
      /\ Len(experiments') = Len(experiments) + 1
      /\ Len(experiments) \in Nat /\ experiments' \in Seq(PlacementQualities)
  BY <1>1, <1>2
<1>4. /\ design' \in Design /\ design'.netlist = design.netlist
      /\ (bestPlacement # << >> /\ design.netlist = bestNetlist) => design' = BestDesign
  BY <1>1, <1>2, RestoringGivesBest
<1>5. MTypeOK' BY <1>2, <1>3, <1>4 DEF MInv, MTypeOK, AnalyzerTypeOK
<1>6. InLoop' BY <1>2 DEF InLoop
<1>7. Kept' BY <1>2 DEF MInv, Kept, PlacementQualityOf, BestDesign
<1>8. BestOfAllIterations'
  <2>1. bestMetrics[metric] \in Int BY <1>1 DEF PlacementQualities, DUMMY_VALUE
  <2>. QED BY <1>2, <1>3, <2>1 DEF MInv, BestOfAllIterations, MTypeOK
<1>9. TableDescribesPlacement'
  <2>. SUFFICES ASSUME bestPlacement # << >>, design'.netlist = bestNetlist
                PROVE  PlacementQualityOf(design') = experiments'[Len(experiments')]
    BY <1>2 DEF TableDescribesPlacement, PlacementQualityOf
  <2>1. PlacementQualityOf(BestDesign) = bestMetrics BY DEF MInv, Kept
  <2>. QED BY <1>3, <1>4, <2>1
<1>10. SlacksForWeights' BY <1>2 DEF MInv, SlacksForWeights
<1>. QED BY <1>5, <1>6, <1>7, <1>8, <1>9, <1>10 DEF MInv

LEMMA AnalyzeInv == MInv /\ Analyze => MInv'
<1>. SUFFICES ASSUME MInv, Analyze PROVE MInv' OBVIOUS
<1>1. /\ stage = "test" /\ stage' = "weights" /\ AnalyzeQuality(0)
      /\ timed' = STA(Abacus[design])
      /\ UNCHANGED <<i, weighed, satisfied>>
  BY DEF Analyze
<1>2. AnalyzerTypeOK /\ design \in Design BY DEF MInv, MTypeOK, AnalyzerTypeOK
<1>3. design' = design BY <1>1, <1>2, AnalysisMovesNoCell
<1>4. AnalyzerTypeOK' BY <1>1, <1>2, AnalysisType
<1>5. timed' \in Design \cup {NoDesign}
  BY <1>1, <1>2, PlacementAssumption DEF MInv, MTypeOK, STA
<1>6. /\ bestPlacement' # << >>
      /\ PlacementQualityOf(BestDesign)' = bestMetrics'
      /\ BestOfAllIterations'
  BY <1>1, <1>2, JudgedIsKept DEF MInv
<1>7. MTypeOK' BY <1>1, <1>4, <1>5 DEF MInv, MTypeOK
<1>8. Kept' BY <1>6 DEF Kept, PlacementQualityOf
<1>9. SlacksForWeights' BY <1>1, <1>3 DEF MInv, SlacksForWeights, STA
<1>. QED BY <1>1, <1>6, <1>7, <1>8, <1>9 DEF MInv, InLoop, TableDescribesPlacement

(* The stages before the timing analysis change the design and nothing     *)
(* else: repeaters come and go between a judgement and the next.           *)
LEMMA StageInv ==
  ASSUME MInv, NEW from, NEW to, Stage(from, to), design' \in Design,
         from \notin {"weights", "restore", "done"},
         to \in {"buffering", "removal", "newBuffering", "bufStages", "sta"}
  PROVE  MInv'
<1>1. /\ stage = from /\ stage' = to
      /\ UNCHANGED <<metric, experiments, bestMetrics, bestPlacement, noGain, bestNetlist,
                     i, timed, weighed, satisfied>>
  BY DEF Stage, analyzer
<1>2. MTypeOK' BY <1>1 DEF MInv, MTypeOK, AnalyzerTypeOK
<1>3. InLoop' BY <1>1 DEF MInv, InLoop
<1>4. Kept' BY <1>1 DEF MInv, Kept, PlacementQualityOf, BestDesign
<1>5. BestOfAllIterations' BY <1>1 DEF MInv, BestOfAllIterations
<1>6. TableDescribesPlacement' BY <1>1 DEF TableDescribesPlacement
<1>7. SlacksForWeights' BY <1>1 DEF MInv, SlacksForWeights
<1>. QED BY <1>2, <1>3, <1>4, <1>5, <1>6, <1>7 DEF MInv

LEMMA MStepInv == MInv /\ [MNext]_mvars => MInv'
<1>. SUFFICES ASSUME MInv, [MNext]_mvars PROVE MInv' OBVIOUS
<1>0. design \in Design BY DEF MInv, MTypeOK, AnalyzerTypeOK
<1>1. CASE LoopPlacement
  BY <1>1, StageInv DEF LoopPlacement, Place
<1>8. CASE LoopBufPlacement
  BY <1>8, StageInv DEF LoopBufPlacement, Place
<1>9. CASE LoopBuffering
  BY <1>9, StageInv DEF LoopBuffering, InsertRepeaters
<1>10. CASE LoopNew_Buffering
  BY <1>10, StageInv DEF LoopNew_Buffering, InsertRepeaters
<1>11. CASE LoopRemoveNewBuffering
  BY <1>0, <1>11, StageInv, RemovalLeavesDesign DEF LoopRemoveNewBuffering
<1>2. CASE DoSTAIfCan
  <2>1. /\ stage = "sta" /\ stage' = "test" /\ timed' = STA(design)
        /\ UNCHANGED <<design, metric, experiments, bestMetrics, bestPlacement, noGain, bestNetlist,
                       i, weighed, satisfied>>
    BY <1>2 DEF DoSTAIfCan, analyzer
  <2>. QED BY <2>1 DEF MInv, MTypeOK, AnalyzerTypeOK, InLoop, Kept, BestOfAllIterations,
       TableDescribesPlacement, SlacksForWeights,
       PlacementQualityOf, BestDesign, STA
<1>3. CASE Satisfied
  <2>1. /\ stage = "test" /\ stage' = "restore" /\ satisfied' = TRUE
        /\ UNCHANGED <<design, metric, experiments, bestMetrics, bestPlacement, noGain, bestNetlist,
                       i, timed, weighed>>
    BY <1>3 DEF Satisfied, analyzer
  <2>. QED BY <2>1 DEF MInv, MTypeOK, AnalyzerTypeOK, InLoop, Kept, BestOfAllIterations,
       TableDescribesPlacement, SlacksForWeights,
       PlacementQualityOf, BestDesign
<1>4. CASE Analyze BY <1>4, AnalyzeInv
<1>5. CASE UpdateNetWeightsIfRequired
  <2>1. /\ stage = "weights" /\ i' = i + 1
        /\ stage' = IF i + 1 < nMacroIterations THEN "stages" ELSE "restore"
        /\ weighed' \in {timed, weighed}
        /\ UNCHANGED <<design, metric, experiments, bestMetrics, bestPlacement, noGain, bestNetlist,
                       timed, satisfied>>
    BY <1>5 DEF UpdateNetWeightsIfRequired, analyzer
  <2>2. i' \in 0..nMacroIterations /\ InLoop'
    BY <2>1, MacroAssumption DEF MInv, MTypeOK, InLoop
  <2>. QED BY <2>1, <2>2 DEF MInv, MTypeOK, AnalyzerTypeOK, Kept, BestOfAllIterations,
       TableDescribesPlacement, SlacksForWeights,
       PlacementQualityOf, BestDesign
<1>6. CASE Restore BY <1>6, RestoreInv
<1>7. CASE UNCHANGED mvars
  BY <1>7 DEF mvars, MInv, MTypeOK, AnalyzerTypeOK, InLoop, Kept, BestOfAllIterations,
     TableDescribesPlacement, SlacksForWeights,
       PlacementQualityOf, BestDesign
<1>. QED BY <1>1, <1>2, <1>3, <1>4, <1>5, <1>6, <1>7, <1>8, <1>9, <1>10, <1>11 DEF MNext

THEOREM LoopInvariant == MSpec => []MInv
<1>. QED BY MInitInv, MStepInv, PTL DEF MSpec

(***************************************************************************)
(* RunFlow leaves the design in the placement that the last row of the     *)
(* table describes if its netlist is the one that placement was saved      *)
(* from, however repeaters came and went in between.                       *)
(***************************************************************************)
THEOREM TableIsRight == MSpec => []TableDescribesPlacement
<1>. QED BY LoopInvariant, PTL DEF MInv

(***************************************************************************)
(* The best metrics of the analyzer are the best of all the iterations of  *)
(* the macro loop that it judged.                                          *)
(***************************************************************************)
THEOREM BestIsLeast == MSpec => []BestOfAllIterations
<1>. QED BY LoopInvariant, PTL DEF MInv

(***************************************************************************)
(* UpdateNetWeightsIfRequired takes the slacks of the legalized placement  *)
(* of this very iteration.                                                 *)
(***************************************************************************)
THEOREM WeightsAreFresh == MSpec => WeightsAreOfThisIteration
<1>1. MInv /\ [MNext]_mvars =>
        [stage = "weights" /\ weighed' # weighed => weighed' = Abacus[design]]_mvars
  <2>. SUFFICES ASSUME MInv, MNext, stage = "weights", weighed' # weighed
                PROVE  weighed' = Abacus[design]
    OBVIOUS
  <2>1. UpdateNetWeightsIfRequired
    BY DEF MNext, Stage, LoopPlacement, LoopBuffering, LoopRemoveNewBuffering,
       LoopNew_Buffering, LoopBufPlacement, DoSTAIfCan, Satisfied, Analyze, Restore
  <2>2. weighed' = timed BY <2>1 DEF UpdateNetWeightsIfRequired
  <2>. QED BY <2>2 DEF MInv, SlacksForWeights
<1>. QED BY <1>1, LoopInvariant, PTL DEF MSpec, WeightsAreOfThisIteration
===============================================================================
