----------------------------- MODULE MCFrequency -----------------------------
(* Instances of Frequency for TLC.                                         *)
EXTENDS Frequency

call(c, ints) == [kind |-> "call", callee |-> c, ints |-> ints, doubles |-> <<>>]
start(n) == [kind |-> "start", n |-> n]
end == [kind |-> "end"]

Module(quantum, body) == [quantum |-> quantum, body |-> body]
Loop(n, body) == <<start(n)>> \o body \o <<end>>

\* Parts of the body of a module that calls c or d.
Parts(c, d) ==
    {<<call(c, <<1>>)>>,
     Loop(3, <<call(c, <<1>>), call(d, <<2>>)>>),
     Loop(2, <<call(d, <<2>>)>>) \o <<call(c, <<2>>)>>}

\* Five modules: main, one that may take no qubits, and three below.
MCPrograms ==
    {<<Module(FALSE, <<call(2, <<>>)>> \o b1), Module(q, b2 \o b2), Module(TRUE, b3),
       Module(TRUE, b4), Module(TRUE, <<>>)>> :
        b1 \in Parts(2, 3) \cup Parts(3, 5), q \in BOOLEAN, b2 \in Parts(3, 4),
        b3 \in Parts(4, 5), b4 \in {<<>>} \cup Parts(5, 5)}
=============================================================================
