----------------------------- MODULE StaticTiming -----------------------------
(***************************************************************************)
(* Static timing analysis over the list of timing points, while buffering  *)
(* splits nets and puts them together again (STA.cpp, DelayPropagation.cpp *)
(* and .h, CriticalPaths.cpp).  One pass forwards over the list finds when *)
(* a rising and a falling signal arrive at the latest, one pass backwards  *)
(* when they are required; each point remembers the neighbour its time     *)
(* comes from and whether the signal is inverted on the way, and critical  *)
(* paths are read back along these ancestors.  Between two analyses the    *)
(* results stay as they are, whatever is done to the nets.                 *)
(*                                                                         *)
(* Both signal directions are used, as by default.  The delay of a cell    *)
(* under its load is a number per arc and direction, that of a wire one    *)
(* per sink and direction, which routing decides anew for every analysis.  *)
(* The edge and setup arcs of registers and the kind of register only      *)
(* shift the times at start and end points; the clock pin they start at is *)
(* in no path.                                                             *)
(***************************************************************************)
EXTENDS RepeaterOrder

CONSTANTS
    TimingSense,    \* [CellArcs -> {"positive", "negative", "non"}]
    CellDelay,      \* [CellArcs -> Times], [rise, fall]
    RepeaterDelay,  \* Times; a repeater does not invert
    ShortWire, LongWire,  \* Times, what the delay of a wire may be
    StartTimes,     \* [StartPoints -> Times]
    EndTimes,       \* [EndPoints -> Times]
    DBL_MAX         \* larger than any time, and unchanged by what is added to it

Dirs  == {"rise", "fall"}
Times == [Dirs -> -DBL_MAX .. DBL_MAX]

ASSUME TimingAssumption ==
  /\ DBL_MAX \in Nat \ {0}
  /\ TimingSense \in [CellArcs -> {"positive", "negative", "non"}]
  /\ CellDelay \in [CellArcs -> Times] /\ RepeaterDelay \in Times /\ {ShortWire, LongWire} \subseteq Times
  /\ StartTimes \in [StartPoints -> Times] /\ EndTimes \in [EndPoints -> Times]

(* The arcs that times are propagated over end at outputs inside the design:
   the arcs to a start point belong to the clock, and nothing is behind an
   end point (HExternalMethods.h:103-133). *)
ASSUME ArcsAssumption ==
  \A a \in CellArcs : a[1] \notin EndPoints /\ a[2] \notin DOMAIN NetSource \cup StartPoints

(* No way through the design comes near DBL_MAX. *)
DelaysWithin(longest) ==
  /\ longest * (Cardinality(Points) + 1) < DBL_MAX
  /\ \A t \in Range(CellDelay) \cup Range(StartTimes) \cup Range(EndTimes)
             \cup {RepeaterDelay, ShortWire, LongWire}, d \in Dirs : t[d] \in -longest .. longest

ASSUME DelaysAssumption == \E longest \in 0 .. DBL_MAX : DelaysWithin(longest)

VARIABLES
    stage,          \* "edited", "arrivals", "requires" or "timed"
    at,             \* the point the pass has come to
    wire,           \* the wire delays of the sinks, as last calculated
    arrival, required,                  \* [Points -> Times]
    arrivalAncestor, requiredAncestor   \* [Points -> [Dirs -> Ancestors]]

results == <<arrival, required, arrivalAncestor, requiredAncestor>>
svars   == <<rvars, stage, at, wire, results>>

Other(d)  == IF d = "rise" THEN "fall" ELSE "rise"
Ancestors == [point : Places, inversed : BOOLEAN]
None      == [point |-> Root, inversed |-> FALSE]
Always(t) == [d \in Dirs |-> t]

After(t, delay)  == IF t \in {DBL_MAX, -DBL_MAX} THEN t ELSE t + delay
Before(t, delay) == After(t, -delay)

SInit ==
  /\ RInit
  /\ stage = "edited" /\ at = Root
  /\ wire = [s \in DOMAIN source |-> Always(0)]
  /\ arrival = [p \in Points |-> Always(0)]
  /\ required = [p \in Points |-> Always(0)]
  /\ arrivalAncestor = [p \in Points |-> [d \in Dirs |-> None]]
  /\ requiredAncestor = [p \in Points |-> [d \in Dirs |-> None]]

-----------------------------------------------------------------------------
IsSink(p) == p \in DOMAIN source
ArcsTo(p) == {a \in CellArcs \cup {<<In(b), Out(b)>> : b \in Used} : a[2] = p}

Sense(a)    == IF a \in CellArcs THEN TimingSense[a] ELSE "positive"
Delay(a, d) == IF a \in CellArcs THEN CellDelay[a][d] ELSE RepeaterDelay[d]

(* A slip: through a cell of no sense every signal keeps its direction. *)
InversedIfNegative(a, time, d) == Sense(a) = "negative"

(* GetSignalInversions: through a cell of no sense goes the later signal *)
Inversed(a, time, d) ==
  \/ Sense(a) = "negative"
  \/ Sense(a) = "non" /\ time[Other(d)] > time[d]

Through(a, time, d) == time[IF Inversed(a, time, d) THEN Other(d) ELSE d]

(***************************************************************************)
(* The start of STA: routing and wire delays, the results of the last      *)
(* analysis cleared, also at pins of repeaters no longer in use, and the   *)
(* times at both ends of the list.  Signals have arrived at no other point *)
(* of the list, and are required nowhere else.                             *)
(***************************************************************************)
STA ==
  /\ stage \in {"edited", "timed"}
  /\ stage' = "arrivals" /\ at' = list.first
  /\ \E far \in DOMAIN source :
        wire' = [s \in DOMAIN source |-> IF s = far THEN LongWire ELSE ShortWire]
  /\ arrival' = [p \in Points |-> IF p \in StartPoints THEN StartTimes[p]
                                  ELSE Always(IF InList(p) THEN -DBL_MAX ELSE 0)]
  /\ required' = [p \in Points |-> IF p \in EndPoints THEN EndTimes[p]
                                   ELSE Always(IF InList(p) THEN DBL_MAX ELSE 0)]
  /\ arrivalAncestor' = [p \in Points |-> [d \in Dirs |-> None]]
  /\ requiredAncestor' = [p \in Points |-> [d \in Dirs |-> None]]
  /\ UNCHANGED rvars

(***************************************************************************)
(* PropagateArrivals, for one point.                                       *)
(***************************************************************************)
ArriveFrom(p, times, ancestors) ==
  /\ arrival' = [arrival EXCEPT ![p] = times]
  /\ arrivalAncestor' = [arrivalAncestor EXCEPT ![p] = ancestors]

ArriveAtSink(p) ==
  LET from == source[p]
  IN ArriveFrom(p, [d \in Dirs |-> After(arrival[from][d], wire[p][d])],
                   [d \in Dirs |-> [point |-> from, inversed |-> FALSE]])

ArrivalThrough(a, d) == After(Through(a, arrival[a[1]], d), Delay(a, d))

(* Of several arcs that are as late the code takes the first; where nothing
   arrives there is no ancestor. *)
ArriveAtOutput(p) ==
  \E worst \in [Dirs -> ArcsTo(p)] :
    /\ \A d \in Dirs, a \in ArcsTo(p) : ArrivalThrough(a, d) <= ArrivalThrough(worst[d], d)
    /\ ArriveFrom(p, [d \in Dirs |-> ArrivalThrough(worst[d], d)],
         [d \in Dirs |-> IF ArrivalThrough(worst[d], d) = -DBL_MAX THEN None
                         ELSE [point |-> worst[d][1],
                               inversed |-> Inversed(worst[d], arrival[worst[d][1]], d)]])

PropagateArrivals ==
  /\ stage = "arrivals" /\ at # Root
  /\ \/ IsSink(at) /\ ArriveAtSink(at)
     \/ ~ IsSink(at) /\ ArcsTo(at) # {} /\ ArriveAtOutput(at)
     \/ ~ IsSink(at) /\ ArcsTo(at) = {} /\ UNCHANGED <<arrival, arrivalAncestor>>
  /\ at' = list.next[at]
  /\ UNCHANGED <<rvars, stage, wire, required, requiredAncestor>>

ArrivalsDone ==
  /\ stage = "arrivals" /\ at = Root
  /\ stage' = "requires" /\ at' = list.prev[Root]
  /\ UNCHANGED <<rvars, wire, results>>

(***************************************************************************)
(* PropagateRequires, for one point.  Times are only ever made earlier, at *)
(* the source of the net of a sink or at the inputs of the cell.           *)
(***************************************************************************)
RequireOf(times, ancestors) ==
  LET Earlier(q, d) == q \in DOMAIN times /\ times[q][d] < required[q][d]
  IN /\ required' = [q \in Points |-> [d \in Dirs |->
                       IF Earlier(q, d) THEN times[q][d] ELSE required[q][d]]]
     /\ requiredAncestor' = [q \in Points |-> [d \in Dirs |->
                       IF Earlier(q, d) THEN ancestors[q][d] ELSE requiredAncestor[q][d]]]

RequireOfSource(p) ==
  RequireOf([q \in {source[p]} |-> [d \in Dirs |-> Before(required[p][d], wire[p][d])]],
            [q \in {source[p]} |-> [d \in Dirs |-> [point |-> p, inversed |-> FALSE]]])

(* How long before its time a signal must be at the inputs, turned around *)
Lead(a) == [d \in Dirs |-> -Before(required[a[2]][d], Delay(a, d))]

RequireOfInputs(p) ==
  LET Arc(q) == <<q, p>>
      inputs == {a[1] : a \in ArcsTo(p)}
  IN RequireOf(
       [q \in inputs |-> [d \in Dirs |-> -Through(Arc(q), Lead(Arc(q)), d)]],
       [q \in inputs |-> [d \in Dirs |->
          [point |-> p, inversed |-> Inversed(Arc(q), Lead(Arc(q)), d)]]])

PropagateRequires ==
  /\ stage = "requires"
  /\ IF IsSink(at) THEN RequireOfSource(at) ELSE RequireOfInputs(at)
  /\ IF at = list.first THEN stage' = "timed" /\ at' = Root
                        ELSE stage' = stage /\ at' = list.prev[at]
  /\ UNCHANGED <<rvars, wire, arrival, arrivalAncestor>>

Edit ==
  /\ stage \in {"edited", "timed"}
  /\ RNext
  /\ stage' = "edited"
  /\ UNCHANGED <<at, wire, results>>

SNext == STA \/ PropagateArrivals \/ ArrivalsDone \/ PropagateRequires \/ Edit

SSpec == SInit /\ [][SNext]_svars

-----------------------------------------------------------------------------
(***************************************************************************)
(* Critical paths (CriticalPaths.cpp).  A path ends at a point without     *)
(* ancestor.  Inversions are only remembered for arcs of cells, so that    *)
(* the test whether both points are on one cell decides nothing.           *)
(***************************************************************************)
Slack(p) == Min({required[p][d] : d \in Dirs}) - Max({arrival[p][d] : d \in Dirs})

Visit(p, d) == [point |-> p, dir |-> d]

(* A slip: the path goes on with the same signal through an inverter. *)
NextVisitSameWay(v, a) == Visit(a.point, v.dir)

NextVisit(v, a) == Visit(a.point, IF a.inversed THEN Other(v.dir) ELSE v.dir)

(* ExtractPath: the visits from p on along the given ancestors *)
ExtractPath(ancestors, p, d) ==
  LET path[n \in Nat] ==
        IF n = 0 THEN <<Visit(p, d)>>
        ELSE LET before == path[n - 1]
                 v == Last(before)
                 a == ancestors[v.point][v.dir]
             IN IF a.point = Root THEN before ELSE Append(before, NextVisit(v, a))
  IN path[Cardinality(Points)]

CriticalPathsTo(e) ==
  {Reverse(ExtractPath(arrivalAncestor, e, d)) : d \in {c \in Dirs : Slack(e) < 0}}
CriticalPathsFrom(s) ==
  {ExtractPath(requiredAncestor, s, d) : d \in {c \in Dirs : Slack(s) < 0}}

-----------------------------------------------------------------------------
(***************************************************************************)
(* What the times are meant to be, from the netlist alone: a signal of one *)
(* direction at the input of an arc makes one or both at its output.       *)
(***************************************************************************)
Passes(a, into, out) ==
  IF IsSink(a[2]) THEN into = out
  ELSE CASE Sense(a) = "positive" -> into = out
         [] Sense(a) = "negative" -> into # out
         [] Sense(a) = "non"      -> TRUE

Takes(a, out) == IF IsSink(a[2]) THEN wire[a[2]][out] ELSE Delay(a, out)

(* The arcs are acyclic, so this gives every time in one way only. *)
Latest(p, d) ==
  Max({IF p \in StartPoints THEN StartTimes[p][d] ELSE -DBL_MAX}
      \cup UNION {{After(arrival[a[1]][c], Takes(a, d)) : c \in {c \in Dirs : Passes(a, c, d)}}
                    : a \in {a \in Arcs : a[2] = p}})

Earliest(p, c) ==
  Min({IF p \in EndPoints THEN EndTimes[p][c] ELSE DBL_MAX}
      \cup UNION {{Before(required[a[2]][d], Takes(a, d)) : d \in {d \in Dirs : Passes(a, c, d)}}
                    : a \in {a \in Arcs : a[1] = p}})

(***************************************************************************)
(* One pass in each direction is enough: whatever buffering did to the     *)
(* nets and to the list since the last analysis, every signal arrives with *)
(* the longest way to it, and is required in time for every way from it.   *)
(***************************************************************************)
TimesAreWorst ==
  stage = "timed" =>
    \A p \in {q \in Points : InList(q)}, d \in Dirs :
      arrival[p][d] = Latest(p, d) /\ required[p][d] = Earliest(p, d)

(***************************************************************************)
(* A critical path is a way signals really take, from a start point to an  *)
(* end point: its delays add up to the arrival time it was found for, and  *)
(* no point on it has more slack than the point it was found for.  Paths   *)
(* are looked for from the start and end points in the list; net weights   *)
(* and buffering go by them.                                               *)
(***************************************************************************)
SlackAt(v) == required[v.point][v.dir] - arrival[v.point][v.dir]

Step(path, i) == <<path[i].point, path[i + 1].point>>

(* When a signal is at the i-th point, going by the delays alone *)
TimeAlong(path, i) ==
  LET time[j \in 1 .. Len(path)] ==
        IF j = 1 THEN StartTimes[path[1].point][path[1].dir]
        ELSE time[j - 1] + Takes(Step(path, j - 1), path[j].dir)
  IN time[i]

IsWorstPath(path, found) ==
  LET end == Last(path)
  IN /\ path[1].point \in StartPoints /\ end.point \in EndPoints
     /\ \A i \in 1 .. Len(path) - 1 :
          Step(path, i) \in Arcs /\ Passes(Step(path, i), path[i].dir, path[i + 1].dir)
     /\ EndTimes[end.point][end.dir] - TimeAlong(path, Len(path)) = SlackAt(found)
     /\ \A i \in DOMAIN path : SlackAt(path[i]) <= SlackAt(found)

CriticalPathsAreWorst ==
  stage = "timed" =>
    /\ \A e \in {p \in EndPoints : InList(p)} :
         \A path \in CriticalPathsTo(e) : IsWorstPath(path, Last(path))
    /\ \A s \in {p \in StartPoints : InList(p)} :
         \A path \in CriticalPathsFrom(s) : IsWorstPath(path, path[1])
===============================================================================
