--------------------------- MODULE MCModuleSetup ---------------------------
(***************************************************************************)
(* Instances of ModuleSetup for TLC: every list of up to two gates on      *)
(* two to six qubits, drawn from a few gates, on both layouts.             *)
(***************************************************************************)
EXTENDS ModuleSetup

ParsedGates(q_count) ==
  {[op |-> op, qid |-> <<q>>] : op \in {"H", "S", "T"}, q \in {0, q_count - 1}}
    \union {[op |-> "CNOT", qid |-> <<0, q_count - 1>>]}

SmallModules ==
  UNION {{[gates |-> s, q_count |-> n] : s \in BoundedSeq(ParsedGates(n), 2)} :
           n \in {2, 3, 5, 6}}

\* One Y and one A factory with the areas and ports given.
Pair(Y_area, A_area, Y_ports, A_ports) ==
  [Y_area |-> Y_area, A_area |-> A_area, num_Y |-> 1, num_A |-> 1,
   Y_ports |-> Y_ports, A_ports |-> A_ports]

\* Bravyi-Haah factories take no tile; the others do.
SmallFactories == {Pair(0, 0, 1, 1), Pair(1, 1, 1, 1), Pair(3, 3, 2, 4),
                   Pair(4, 4, 4, 3), Pair(1, 6, 1, 4),
                   Pair(0, 7, 0, 9)}

=============================================================================
