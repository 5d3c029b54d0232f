------------------------ MODULE GlobalPlacementLoop ------------------------
(* The outer loop of analytical placement (Solve and IsTimeToExit in           *)
(* AnalyticalPlacement.cpp): solve, measure if there is a quality analyzer,    *)
(* stop when nothing has been gained for a while, when the result repeats, or  *)
(* when the iterations are used up.                                            *)
EXTENDS PlacementQuality

CONSTANTS
    improvementTreshold,   \* in percent; negative: a decrease is allowed
    earlyExit,             \* BOOLEAN
    nTolerantIterations, nConvergedIterations, nOuterIterations

ASSUME LoopAssumption ==
    /\ improvementTreshold \in Int /\ improvementTreshold < 100
    /\ earlyExit \in BOOLEAN
    /\ nTolerantIterations \in Nat
    /\ nConvergedIterations \in Nat
    /\ nOuterIterations \in Nat

VARIABLES
    useQAClass,  \* whether the configuration asks for an analyzer
    pc,          \* "start", "solve", "judge", "exit" (AnalyzeQuality is done), or
                 \* how the loop ended: "tolerance", "converged", "finished",
                 \* "crashed" (a null analyzer was used)
    iteration

vars == <<design, metric, experiments, bestMetrics, bestPlacement, noGain, bestNetlist,
          useQAClass, pc, iteration>>

Ended == {"tolerance", "converged", "finished", "crashed"}

Init ==
    /\ design \in Design
    /\ InitAnalyzer
    /\ useQAClass \in BOOLEAN
    /\ pc = "start"
    /\ iteration = 1

(* The placement the loop starts from is experiment 0, with threshold 0.       *)
Start ==
    /\ pc = "start"
    /\ useQAClass
    /\ AnalyzeQuality(0)
    /\ pc' = "solve"
    /\ UNCHANGED <<useQAClass, iteration>>

StartWithoutAnalyzer ==
    /\ pc = "start"
    /\ ~useQAClass
    /\ pc' = "solve"
    /\ UNCHANGED <<design, analyzer, useQAClass, iteration>>

(* TAO moves the cells anywhere, or makes no inner iteration and moves none.   *)
TaoSolve ==
    /\ pc = "solve"
    /\ design' \in {d \in Design : d.netlist = design.netlist}
    /\ pc' = "judge"
    /\ UNCHANGED <<analyzer, useQAClass, iteration>>

(* IsTimeToExit: the analysis, and the exits tested in the code's order.       *)
Judge ==
    /\ pc = "judge"
    /\ useQAClass
    /\ AnalyzeQuality(improvementTreshold)
    /\ pc' = "exit"
    /\ UNCHANGED <<useQAClass, iteration>>

JudgeWithoutAnalyzer ==
    /\ pc = "judge"
    /\ ~useQAClass
    /\ pc' = "exit"
    /\ UNCHANGED <<design, analyzer, useQAClass, iteration>>

Tolerated == useQAClass /\ earlyExit /\ noGain >= nTolerantIterations
Converged ==
    useQAClass /\ ConvergeIterationsNumber(experiments) >= nConvergedIterations

ExitTolerance ==
    /\ pc = "exit"
    /\ Tolerated
    /\ RestoreBestAchievedPlacement
    /\ pc' = "tolerance"
    /\ UNCHANGED <<useQAClass, iteration>>

(* A slip: this exit leaves the cells where the last iteration put them.       *)
ExitConvergedInPlace ==
    /\ pc = "exit"
    /\ ~Tolerated
    /\ Converged
    /\ pc' = "converged"
    /\ UNCHANGED <<design, analyzer, useQAClass, iteration>>

ExitConverged ==
    /\ pc = "exit"
    /\ ~Tolerated
    /\ Converged
    /\ RestoreBestAchievedPlacement
    /\ pc' = "converged"
    /\ UNCHANGED <<useQAClass, iteration>>

(* The cells stay where the last iteration left them.                          *)
ExitFinished ==
    /\ pc = "exit"
    /\ ~Tolerated
    /\ ~Converged
    /\ iteration >= nOuterIterations
    /\ pc' = "finished"
    /\ UNCHANGED <<design, analyzer, useQAClass, iteration>>

(* UpdateWeights and buffering for the estimate (GPBuffering) move no cell,    *)
(* but both ask the analyzer for its metrics.  The estimate along paths        *)
(* inserts repeaters and calls RemoveNewBuffering, which also removes those    *)
(* the design had before; without repeaters in it, nothing has changed.        *)
GoOn ==
    /\ pc = "exit"
    /\ ~Tolerated
    /\ ~Converged
    /\ iteration < nOuterIterations
    /\ useQAClass
    /\ iteration' = iteration + 1
    /\ design' \in RemoveNewBuffering(design)
    /\ pc' = "solve"
    /\ UNCHANGED <<analyzer, useQAClass>>

UpdateWeightsWithoutAnalyzer ==
    /\ pc = "exit"
    /\ iteration < nOuterIterations
    /\ ~useQAClass
    /\ pc' = "crashed"
    /\ UNCHANGED <<design, analyzer, useQAClass, iteration>>

Next ==
    \/ Start \/ StartWithoutAnalyzer \/ TaoSolve \/ Judge \/ JudgeWithoutAnalyzer
    \/ ExitTolerance \/ ExitConverged \/ ExitFinished
    \/ GoOn \/ UpdateWeightsWithoutAnalyzer

Spec == Init /\ [][Next]_vars

-----------------------------------------------------------------------------
TypeOK ==
    /\ AnalyzerTypeOK
    /\ useQAClass \in BOOLEAN
    /\ pc \in {"start", "solve", "judge", "exit"} \cup Ended
    /\ iteration \in Nat

(* The experiments since the best one are the ones without a gain: while the   *)
(* loop runs with an analyzer, the counter that decides the early exit     *)
(* points back at the experiment whose placement is the one kept.              *)
CounterPointsAtBest ==
    (useQAClass /\ pc \in {"solve", "judge", "exit"}) =>
        /\ noGain < Len(experiments)
        /\ experiments[Len(experiments) - noGain] = bestMetrics

(* With a threshold that asks for a gain, no experiment on record beats the    *)
(* best one by more than the threshold, however the gains added up: small      *)
(* gains that were refused one by one are not lost.                            *)
NothingBetterIsForgotten ==
    (improvementTreshold >= 0 /\ metric # "unmeasured") =>
        \A k \in DOMAIN experiments :
            100 * (bestMetrics[metric] - experiments[k][metric])
                <= improvementTreshold * bestMetrics[metric]

(* An exit that reports a verdict leaves the design in the best placement: the *)
(* cells, the last row of the quality table and the best metrics agree, unless *)
(* the netlist is no longer the one the best placement was saved from.         *)
VerdictLeavesBestPlacement ==
    (pc \in {"tolerance", "converged"} /\ design.netlist = bestNetlist) =>
        /\ design = BestDesign
        /\ PlacementQualityOf(design) = experiments[Len(experiments)]

=============================================================================
