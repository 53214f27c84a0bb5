-------------------------- MODULE MCCriticalPath ---------------------------
(***************************************************************************)
(* Instances of CriticalPath and Criticality for TLC: every graph of four  *)
(* gates in which a gate has at most two operands, hence two edges in and  *)
(* two out, with the latencies of CNOT and H at code distance 0, which is  *)
(* what set_code_distance() returns.                                       *)
(***************************************************************************)
EXTENDS Criticality

Pairs == {e \in (1 .. 4) \X (1 .. 4) : e[1] < e[2]}

SmallDags ==
  {E \in SUBSET Pairs :
     \A g \in 1 .. 4 : in_degree(g, E) <= 2 /\ out_degree(g, E) <= 2}

CNOT_latency == 3
H_latency    == 9
GateLatencies == {CNOT_latency, H_latency}

=============================================================================
