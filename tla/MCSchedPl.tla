------------------------------ MODULE MCSchedPl ------------------------------
(* Instances of SchedPl for TLC.                                           *)
EXTENDS SchedPl

MCDist == -1
MCQubits == {"a", "b", "c"}

Gate(kind, q) == [op |-> kind, args |-> <<q>>]
CNOT(q, r) == [op |-> "CNOT", args |-> <<q, r>>]

MCOperations ==
    {CNOT("a", "b"), CNOT("b", "c"), CNOT("c", "a"),
     Gate("H", "a"), Gate("H", "b"), Gate("T", "c")}

MCFunctions == UNION {[1 .. n -> MCOperations] : n \in 0 .. 4}

Command(name, k, l, d, opp) ==
    [name |-> name, k |-> k, l |-> l, d |-> d, opp |-> opp]

MCSettings ==
    {Command("lpfs", 2, 0, 1, FALSE),
     Command("lpfs", 2, 1, 2, TRUE),
     Command("lpfs", 3, 2, 1, FALSE),
     Command("lpfs", 3, 2, 1, TRUE),
     Command("rcp", 2, 0, 1, FALSE),
     Command("rcp", 2, 0, 4, FALSE)}

\* Two paths.
MCTwoPaths == {Command("lpfs", 3, 2, 1, FALSE)}
=============================================================================
