----------------------------- MODULE RepeaterOrder -----------------------------
(***************************************************************************)
(* The list of timing points while nets are split by repeaters and put     *)
(* together again.  Buffering hangs a repeater and the sinks behind it on  *)
(* the source of a net and places its two pins in the list after that      *)
(* source (VanGinneken2.cpp:426-501, AdditionNewElement.cpp:72-110);       *)
(* RestoreBufferedNet walks the tree of a net, deletes the pins of its     *)
(* repeaters and gives the sinks back (NetUtils.cpp:258-294).              *)
(***************************************************************************)
EXTENDS TimingPointList

CONSTANTS Repeaters,   \* the cells that buffering may add
          NetSource,   \* the source of every sink of the design
          CellArcs     \* <<input, output>> of the cells of the design

In(b) == <<b, "in">>
Out(b) == <<b, "out">>
RepeaterPins == {In(b) : b \in Repeaters} \cup {Out(b) : b \in Repeaters}

(* The pins of the design are in the list when buffering starts, each behind
   what drives it: an end point drives no net and a start point is no sink. *)
ASSUME NetAssumption ==
  /\ InternalPoints = RepeaterPins \cup (Fixed \cap InternalPoints)
  /\ RepeaterPins \cap Fixed = {} /\ Fixed = ToSet(InitialOrder)
  /\ NetSource \in [DOMAIN NetSource -> Fixed \ EndPoints]
  /\ DOMAIN NetSource \subseteq Fixed \ StartPoints
  /\ CellArcs \subseteq Fixed \X Fixed
  /\ \A a \in CellArcs \cup {<<NetSource[s], s>> : s \in DOMAIN NetSource} :
       \E i, j \in DOMAIN InitialOrder :
         i < j /\ InitialOrder[i] = a[1] /\ InitialOrder[j] = a[2]

VARIABLE source  \* the source of the net of every pin that is a sink of one

rvars == <<list, source>>

Used == {b \in Repeaters : In(b) \in DOMAIN source}
SinksOf(p) == {s \in DOMAIN source : source[s] = p}
Arcs == CellArcs \cup {<<In(b), Out(b)>> : b \in Used}
          \cup {<<source[s], s>> : s \in DOMAIN source}

RInit == Init /\ source = NetSource

(* A slip: both pins go behind the source, so the output comes first. *)
WithRepeaterTurned(l, b, p) == Inserted(Inserted(l, In(b), p), Out(b), p)

(* The list after the pins of b were placed behind source p. *)
WithRepeater(l, b, p) == Inserted(Inserted(l, In(b), p), Out(b), In(b))

(* A repeater is put on the net of p, in front of some of its sinks. *)
InsertRepeater(b, p, behind) ==
  /\ b \notin Used
  /\ behind # {} /\ behind \subseteq SinksOf(p)
  /\ list' = WithRepeater(list, b, p)
  /\ source' = [s \in DOMAIN source \cup {In(b)} |->
                  IF s = In(b) THEN p ELSE IF s \in behind THEN Out(b) ELSE source[s]]

RepeatersDirectlyBehind(p) == {b \in Used : source[In(b)] = p}

(* The repeaters of the tree of net source p, from the source outwards. *)
RepeatersBehind(p) ==
  LET behind[n \in Nat] ==
        IF n = 0 THEN {}
        ELSE {b \in Used : \/ source[In(b)] = p
                           \/ \E c \in behind[n - 1] : source[In(b)] = Out(c)}
  IN behind[Cardinality(Repeaters)]

WithoutRepeater(l, b) == Deleted(Deleted(l, In(b)), Out(b))

(* The list without the pins of the repeaters bs. *)
Without(bs) ==
  LET left[n \in 0..Len(bs)] == IF n = 0 THEN list ELSE WithoutRepeater(left[n - 1], bs[n])
  IN left[Len(bs)]

(* A slip: the pins are taken out, but only of the repeaters at the source. *)
RestoredOneLevel(p) == Without(SetToSeq(RepeatersDirectlyBehind(p)))

Restored(p) == Without(SetToSeq(RepeatersBehind(p)))

(* The sinks behind the repeaters of the tree get the net of p back. *)
Rejoined(p) ==
  [s \in DOMAIN source \ {In(b) : b \in RepeatersBehind(p)} |->
     IF source[s] \in {Out(b) : b \in RepeatersBehind(p)} THEN p ELSE source[s]]

RestoreBufferedNet(p) ==
  /\ RepeatersBehind(p) # {}
  /\ list' = Restored(p)
  /\ source' = Rejoined(p)

RNext ==
  \/ \E b \in Repeaters, p \in Points : \E behind \in SUBSET SinksOf(p) :
       InsertRepeater(b, p, behind)
  \/ \E p \in Fixed : RestoreBufferedNet(p)

-----------------------------------------------------------------------------
Index(p) == SelectInSeq(Order, LAMBDA q : q = p)

(***************************************************************************)
(* The list stays a topological order of the netlist: delays propagate in  *)
(* one pass over it, so a driver must come before what it drives, through  *)
(* cells, nets and repeaters, however often nets are split again.          *)
(***************************************************************************)
DriversComeFirst == \A a \in Arcs : Index(a[1]) # 0 /\ Index(a[1]) < Index(a[2])

(***************************************************************************)
(* The points of the list are those of the cells and of the repeaters in   *)
(* use, and once all nets are restored the list and the nets are what they *)
(* were before.                                                            *)
(***************************************************************************)
RestoringUndoesBuffering ==
  /\ {Order[i] : i \in DOMAIN Order}
       = Fixed \cup {In(b) : b \in Used} \cup {Out(b) : b \in Used}
  /\ Used = {} => list = ListOf(InitialOrder) /\ source = NetSource
================================================================================
