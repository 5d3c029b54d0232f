---------------------------- MODULE MCStaticTiming ----------------------------
(* A gate with an input for each sense, one of them tied and never reached,
   between two inputs and two outputs of the design; the gate is late for e2
   and a wire may make s1 late for e1.  Nets are split by two repeaters. *)
EXTENDS StaticTiming

CONSTANTS b1, b2, s1, s2, t, x, y, w, z, e1, e2

MCRepeaters == {b1, b2}
Alike == Permutations(MCRepeaters)
PinsOf(bs) == {<<b, d>> : b \in bs, d \in {"in", "out"}}

GateStarts    == {s1, s2}
GateEnds      == {e1, e2}
GateInternals == {t, x, y, w, z} \cup PinsOf(MCRepeaters)
GateOrder     == <<s1, s2, t, x, y, w, z, e1, e2>>
GateFixed     == {s1, s2, t, x, y, w, z, e1, e2}
GateNets      == (x :> s1) @@ (e1 :> s1) @@ (y :> s2) @@ (w :> t) @@ (e2 :> z)
GateArcs      == {<<x, z>>, <<y, z>>, <<w, z>>}

RiseFall(r, f) == [rise |-> r, fall |-> f]
GateSense == (<<x, z>> :> "non") @@ (<<y, z>> :> "negative") @@ (<<w, z>> :> "positive")
GateDelay == (<<x, z>> :> RiseFall(1, 2)) @@ (<<y, z>> :> RiseFall(3, 1)) @@ (<<w, z>> :> RiseFall(2, 2))
BufferDelay == RiseFall(1, 1)
Short == RiseFall(0, 0)
Long  == RiseFall(1, 3)
Starts == (s1 :> RiseFall(0, 0)) @@ (s2 :> RiseFall(0, 1))
Ends   == (e1 :> RiseFall(2, 2)) @@ (e2 :> RiseFall(5, 4))
===============================================================================
