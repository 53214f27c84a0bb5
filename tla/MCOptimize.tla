------------------------------ MODULE MCOptimize ------------------------------
(* Instances of Optimize for TLC.                                          *)
EXTENDS Optimize

Single(ty, q) == [None EXCEPT !.gateTy = ty, !.target = q]
CNOT(c, t) == [None EXCEPT !.gateTy = "c", !.control1 = c, !.target = t]
Toffoli(c, d, t) == [CNOT(c, t) EXCEPT !.gateTy = "o", !.control2 = d]

\* A program prepares a qubit first; then five gates.
MCGates ==
    {CNOT(1, 2), CNOT(2, 1), CNOT(1, 3), CNOT(3, 2), Single("t", 1),
     Single("S", 2), Toffoli(1, 2, 3)}

Prepared(gates) == <<Single("m", 1)>> \o gates

MCCircuits == {Prepared(g) : g \in [1 .. 5 -> MCGates]}
    \cup {Prepared(<<CNOT(1, 2), Single("h", q)>> \o g \o <<CNOT(1, 2)>>) :
              q \in 1 .. 3, g \in [1 .. 2 -> MCGates]}
    \cup {<<CNOT(1, 2), g, CNOT(1, 2)>> : g \in MCGates}
\* A CNOT followed by its reverse.
ReversedPairs ==
    {Prepared(<<Single("h", 1), CNOT(1, 2)>> \o g \o <<CNOT(2, 1)>>) :
        g \in {<<>>} \cup {<<h>> : h \in MCGates}}
=============================================================================
