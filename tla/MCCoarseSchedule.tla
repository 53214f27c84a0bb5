---------------------------- MODULE MCCoarseSchedule ----------------------------
(* Instances of CoarseSchedule for TLC.                                    *)
EXTENDS CoarseSchedule

Element(i) == [name |-> "q", index |-> i]
Register == Element(-1)
Ancilla == [name |-> "c", index |-> 0]

Gate(k, A) == [kind |-> k, callee |-> 0, args |-> A]
Call(f, A) == [kind |-> "call", callee |-> f, args |-> A]

\* Programs of one leaf.
LeafCalls ==
    {Gate("CNOT", {Element(0), Element(1)}), Gate("CNOT", {Element(1), Ancilla}),
     Gate("H", {Element(0)}), Gate("H", {Ancilla}), Gate("T", {Element(1)}),
     Gate("MeasZ", {Element(0)}), Gate("MeasZ", {Ancilla})}

LeafPrograms ==
    {[functions |-> <<body>>, file |-> <<>>] : body \in [1 .. 4 -> LeafCalls]}

\* Programs of two leaves and what calls them.
Leaf(n) == [i \in 1 .. n |-> Gate("H", {Element(0)})]

MainCalls ==
    {Call(1, {Register}), Call(1, {Ancilla}), Call(2, {Element(0), Ancilla}),
     Call(2, {Element(1)}), Gate("T", {Element(0)}), Gate("H", {Element(1)}),
     Gate("MeasZ", {Element(0)}), Gate("MeasZ", {Ancilla})}

CallingPrograms ==
    {[functions |-> <<Leaf(2), Leaf(1), body>>, file |-> file] :
        body \in [1 .. 4 -> MainCalls],
        file \in {[f \in {2} |-> [width |-> 2, length |-> 7]],
                  [f \in {1, 2} |-> [width |-> f, length |-> 3 * (f - 1)]]}}

MCPrograms == LeafPrograms \cup CallingPrograms
=============================================================================
