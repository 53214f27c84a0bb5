---------------------------- MODULE Criticality -----------------------------
(***************************************************************************)
(* Criticality at work in braidflash.cpp: assign_criticality() walks the   *)
(* reversed graph, the lengths it finds are the criticality of the gates,  *)
(* and while the gates of the simulated graph complete,                    *)
(* update_highest_criticality() follows the highest that is left.          *)
(* Event::operator<, which reads both, is not modelled: it switches on a   *)
(* member the constructor never sets, so that Braidflash lets std::sort()  *)
(* return any order.                                                       *)
(***************************************************************************)
EXTENDS CriticalPath

-----------------------------------------------------------------------------
(* The simulation, as far as criticality goes.                             *)

VARIABLES dag,                  (* the dependency edges that are left *)
          highest_criticality   (* -1 before assign_criticality() is done *)

vars == <<walkVars, dag, highest_criticality>>

Init ==
  /\ WalkInit
  /\ dag \in {graph, reversed(graph)} \cap Dags
  /\ highest_criticality = -1

\* Faulty variant: completed gates count.
Counts_any(g, E) == TRUE

\* Gates without edges do not count, although one may still be running.
Counts(g, E) == in_degree(g, E) # 0 \/ out_degree(g, E) # 0

highest_in(E) == Max({0} \union {length[g] : g \in {h \in Gates : Counts(h, E)}})

\* A step of the walk, of assign_criticality() or of get_critical_clk().
WalkOn ==
  /\ WalkNext
  /\ UNCHANGED <<dag, highest_criticality>>

\* assign_criticality() returns, and the simulation begins.
Assigned ==
  /\ Stopped /\ graph = reversed(dag)
  /\ highest_criticality = -1
  /\ highest_criticality' = highest_in(dag)
  /\ UNCHANGED <<walkVars, dag>>

\* The last event of g is done: update_highest_criticality() without its edges.
Complete(g) ==
  /\ highest_criticality # -1
  /\ in_degree(g, dag) = 0 /\ out_degree(g, dag) # 0
  /\ dag' = {e \in dag : e[1] # g}
  /\ highest_criticality' = highest_in(dag')
  /\ UNCHANGED walkVars

Next == WalkOn \/ Assigned \/ \E g \in Gates : Complete(g)

Spec == Init /\ [][Next]_vars

-----------------------------------------------------------------------------
(* Properties *)

\* While gates depend on one another, the criticality for which policy 6 lays
\* short braids first is that of a gate which can go now, and not of one that
\* has completed or still waits.
HighestIsActive ==
  highest_criticality # -1 /\ dag # {} =>
    \E g \in Gates : /\ in_degree(g, dag) = 0 /\ out_degree(g, dag) # 0
                     /\ length[g] = highest_criticality

=============================================================================
