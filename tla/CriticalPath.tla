---------------------------- MODULE CriticalPath ----------------------------
(***************************************************************************)
(* The two longest-path searches of braidflash.cpp.  get_critical_clk()    *)
(* walks a copy of the dependency graph of a module, assign_criticality()  *)
(* a reversed copy, in the same way: gates without in-edges are the        *)
(* current layer; each of them raises the path length of its successors    *)
(* and loses its out-edges, and a successor whose last in-edge goes joins  *)
(* the next layer.  The lengths of the forward walk give the critical      *)
(* clock; those of the reversed walk are the criticality of each gate,     *)
(* which decides who goes first on the mesh.                               *)
(***************************************************************************)
EXTENDS Integers, FiniteSets, FiniteSetsExt

CONSTANTS Dags,      (* the dependency graphs: sets of edges, u < v for <<u, v>> *)
          n,         (* the gates are 1 .. n *)
          Latencies  (* the latencies gates may have *)

Gates == 1 .. n

ASSUME CriticalPathAssumption ==
  /\ n \in Nat \ {0}
  /\ \A dag \in Dags : dag \subseteq {e \in Gates \X Gates : e[1] < e[2]}
  /\ Latencies \subseteq Nat \ {0}

VARIABLES
  latency,        (* get_gate_latency() of each gate *)
  graph,          (* the graph walked, before the walk: dag or its reverse *)
  edges,          (* the edges of the copy that are left *)
  current_gates,  (* the layer being walked (its order does not matter) *)
  next_gates,
  length,         (* cps or crits; 0 stands for a gate not in the map *)
  result          (* get_critical_clk's result: the longest length so far *)

walkVars == <<latency, graph, edges, current_gates, next_gates, length, result>>

reversed(dag) == {<<e[2], e[1]>> : e \in dag}
in_degree(g, E)  == Cardinality({e \in E : e[2] = g})
out_degree(g, E) == Cardinality({e \in E : e[1] = g})

\* Faulty variant: the path found last counts.
Larger_last(a, b) == b

Larger(a, b) == IF a > b THEN a ELSE b

Sources(E) == {g \in Gates : in_degree(g, E) = 0}

WalkInit ==
  /\ latency \in [Gates -> Latencies]
  /\ \E dag \in Dags : graph \in {dag, reversed(dag)}
  /\ edges = graph
  /\ current_gates = Sources(graph)
  /\ next_gates = {}
  /\ length = [g \in Gates |-> IF g \in Sources(graph) THEN latency[g] ELSE 0]
  /\ result = Max({length[g] : g \in Gates})

Successors(g) == {s \in Gates : <<g, s>> \in edges}

\* Faulty variant: with the in-degree of the graph after the edges of g are gone.
Released_after(g) == {s \in Successors(g) : in_degree(s, edges) = 2}

\* The successors whose last in-edge is that from g.
Released(g) == {s \in Successors(g) : in_degree(s, edges) = 1}

\* One gate of the layer: its successors, then its out-edges.
Walk(g) ==
  /\ g \in current_gates
  /\ length' = [s \in Gates |->
                  IF s \in Successors(g)
                  THEN Larger(length[s], length[g] + latency[s])
                  ELSE length[s]]
  /\ result' = Max({result} \union {length'[s] : s \in Successors(g)})
  /\ next_gates' = next_gates \union Released(g)
  /\ edges' = {e \in edges : e[1] # g}
  /\ current_gates' = current_gates \ {g}
  /\ UNCHANGED <<latency, graph>>

\* The layer is done: the loop goes on while there are edges or gates left.
NextLayer ==
  /\ current_gates = {} /\ next_gates # {}
  /\ current_gates' = next_gates
  /\ next_gates' = {}
  /\ UNCHANGED <<latency, graph, edges, length, result>>

WalkNext == NextLayer \/ \E g \in Gates : Walk(g)

Stopped == edges = {} /\ current_gates = {} /\ next_gates = {}

-----------------------------------------------------------------------------
(* Properties *)

Predecessors(g) == {p \in Gates : <<p, g>> \in graph}

\* The longest paths of at most k edges that end in each gate, the gate's own
\* latency included.
LongestPaths[k \in 0 .. n] ==
  [g \in Gates |->
     latency[g] + IF k = 0 \/ Predecessors(g) = {} THEN 0
                  ELSE Max({LongestPaths[k - 1][p] : p \in Predecessors(g)})]

NeverPremature ==
  \A g \in current_gates \union next_gates :
    /\ in_degree(g, edges) = 0
    /\ length[g] > 0
    /\ \A s \in Gates : <<g, s>> \in graph => <<g, s>> \in edges

\* When the walk stops every gate has its longest path, and the result is the
\* longest of all: the same for the graph and for its reverse.
CriticalPathFound ==
  Stopped =>
    /\ \A g \in Gates : length[g] = LongestPaths[n][g]
    /\ result = Max({LongestPaths[n][g] : g \in Gates})

NeverStranded == current_gates = {} /\ next_gates = {} => edges = {}

\* "removing gate prematurely from dag.": no gate is walked while an edge into
\* it is left, and a gate that has been walked is never queued again; nor does
\* the loop wait for a layer that never comes.
EachGateInTurn == NeverPremature /\ NeverStranded

=============================================================================
