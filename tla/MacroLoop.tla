----------------------------- MODULE MacroLoop -----------------------------
(* The macro loop of RunFlow (VLSIFlow.cpp): every iteration runs the enabled  *)
(* stages, which place the cells anew and may buffer, runs STA, stops when the *)
(* timing constraints are met, and otherwise lets the quality analyzer judge   *)
(* the iteration; after the loop the best placement is restored.  The measure  *)
(* of a placement is its total negative slack, the default criterion.          *)
EXTENDS PlacementQuality

CONSTANTS
    nMacroIterations,
    CanDoTiming,     \* benchmark.CanDoTiming
    useNetWeights    \* NetWeighting.useNetWeights

ASSUME MacroAssumption ==
    /\ nMacroIterations \in Nat \ {0}
    /\ CanDoTiming \in BOOLEAN
    /\ useNetWeights \in BOOLEAN

VARIABLES
    stage,    \* "stages", "buffering", "removal", "newBuffering", "bufStages",
              \* "sta", "test", "weights", "restore", "done"
    i,        \* the iteration, from 0
    timed,    \* the design whose slacks the timing points hold, NoDesign if none
    weighed,  \* the design whose slacks made the net weights, NoDesign if none
    satisfied \* TRUE once "We have satisfied the timing constraints" is reported

mvars == <<design, metric, experiments, bestMetrics, bestPlacement, noGain, bestNetlist,
          stage, i, timed, weighed, satisfied>>

(* No design has no cells.                                                     *)
NoDesign == [netlist |-> CHOOSE n \in Netlist : TRUE, at |-> << >>]

MInit ==
    /\ design \in Design
    /\ InitAnalyzer
    /\ CanDoTiming \/ metric = "unmeasured"
    /\ stage = "stages"
    /\ i = 0
    /\ timed = NoDesign
    /\ weighed = NoDesign
    /\ satisfied = FALSE

STA(d) == IF CanDoTiming THEN d ELSE timed

(* Every stage up to the timing analysis runs if the configuration asks for    *)
(* it; one that does not run leaves the design alone, as each of them may do   *)
(* anyway.  The STA that ends a stage is repeated by DoSTAIfCan.               *)
Stage(from, to) ==
    /\ stage = from
    /\ stage' = to
    /\ UNCHANGED <<analyzer, i, timed, weighed, satisfied>>

(* Random, global and timing-driven placement, legalization, detailed          *)
(* placement: the cells end up anywhere.  With the estimate of buffering,      *)
(* global placement calls RemoveNewBuffering.                                  *)
Place ==
    \E cut \in RemoveNewBuffering(design) :
        design' \in {d \in Design : d.netlist = cut.netlist}

LoopPlacement == Stage("stages", "buffering") /\ Place
LoopBufPlacement == Stage("bufStages", "sta") /\ Place

(* Repeaters are inserted, or none; iterative buffering legalizes afterwards.  *)
InsertRepeaters ==
    design' \in {d \in Design : \/ d.netlist = design.netlist
                                \/ CellCount[d.netlist] > CellCount[design.netlist]}

LoopBuffering == Stage("buffering", "removal") /\ InsertRepeaters
LoopNew_Buffering == Stage("newBuffering", "bufStages") /\ InsertRepeaters

LoopRemoveNewBuffering ==
    /\ Stage("removal", "newBuffering")
    /\ design' \in RemoveNewBuffering(design)

DoSTAIfCan ==
    /\ stage = "sta"
    /\ timed' = STA(design)
    /\ stage' = "test"
    /\ UNCHANGED <<design, analyzer, i, weighed, satisfied>>

(* TNS and WNS are both zero: no end point has a negative slack.               *)
TimingIsMet == CanDoTiming /\ Cost[timed] = 0

Satisfied ==
    /\ stage = "test"
    /\ TimingIsMet
    /\ satisfied' = TRUE
    /\ stage' = "restore"
    /\ UNCHANGED <<design, analyzer, i, timed, weighed>>

(* A slip: STA is not repeated after the trial legalization.                   *)
AnalyzeTimingOnce ==
    /\ stage = "test"
    /\ ~TimingIsMet
    /\ AnalyzeQuality(0)
    /\ stage' = "weights"
    /\ UNCHANGED <<i, timed, weighed, satisfied>>

(* The analysis runs STA on the placement and again on its trial legalization; *)
(* no STA follows when the cells are put back.                                 *)
Analyze ==
    /\ stage = "test"
    /\ ~TimingIsMet
    /\ AnalyzeQuality(0)
    /\ timed' = STA(Abacus[design])
    /\ stage' = "weights"
    /\ UNCHANGED <<i, weighed, satisfied>>

UpdateNetWeightsIfRequired ==
    /\ stage = "weights"
    /\ weighed' = IF useNetWeights /\ nMacroIterations > 1 THEN timed ELSE weighed
    /\ i' = i + 1
    /\ stage' = IF i + 1 < nMacroIterations THEN "stages" ELSE "restore"
    /\ UNCHANGED <<design, analyzer, timed, satisfied>>

Restore ==
    /\ stage = "restore"
    /\ RestoreBestAchievedPlacement
    /\ stage' = "done"
    /\ UNCHANGED <<i, timed, weighed, satisfied>>

MNext ==
    \/ LoopPlacement \/ LoopBuffering \/ LoopRemoveNewBuffering \/ LoopNew_Buffering
    \/ LoopBufPlacement \/ DoSTAIfCan \/ Satisfied \/ Analyze
    \/ UpdateNetWeightsIfRequired \/ Restore

MSpec == MInit /\ [][MNext]_mvars

-----------------------------------------------------------------------------
MTypeOK ==
    /\ AnalyzerTypeOK
    /\ stage \in {"stages", "buffering", "removal", "newBuffering", "bufStages",
                  "sta", "test", "weights", "restore", "done"}
    /\ i \in 0..nMacroIterations
    /\ timed \in Design \cup {NoDesign}
    /\ weighed \in Design \cup {NoDesign}
    /\ satisfied \in BOOLEAN

(* If the design the loop ends with has the netlist of the best placement -    *)
(* no repeater came in or went since it was saved, or all that did are undone  *)
(* again -, the loop leaves it in the placement the last row of the table      *)
(* describes.  As many cells are not enough: repeaters may have been removed   *)
(* and as many inserted into other nets.                                       *)
TableDescribesPlacement ==
    (stage = "done" /\ bestPlacement # << >> /\ design.netlist = bestNetlist) =>
        PlacementQualityOf(design) = experiments[Len(experiments)]

(* The best placement of a loop with timing is the least negative slack of all *)
(* the iterations that were judged.                                            *)
BestOfAllIterations ==
    metric # "unmeasured" =>
        \A k \in DOMAIN experiments : bestMetrics[metric] <= experiments[k][metric]

(* The net weights for the next iteration come from the slacks of this         *)
(* iteration's placement as legalized: not from an earlier iteration's, nor    *)
(* from the overlapping placement the cells are put back to.                   *)
WeightsAreOfThisIteration ==
    [][stage = "weights" /\ weighed' # weighed => weighed' = Abacus[design]]_mvars

(* When the loop ends because the timing constraints are satisfied, the design *)
(* it leaves satisfies them: "We have satisfied the timing constraints".       *)
SatisfiedTimingIsKept ==
    (stage = "done" /\ satisfied) => Cost[design] = 0

=============================================================================
