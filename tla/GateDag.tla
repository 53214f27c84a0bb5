------------------------------ MODULE GateDag ------------------------------
(***************************************************************************)
(* What a simulation of a module promises, without mesh, clock or events:  *)
(* every gate completes once, after all the gates it depends on.           *)
(***************************************************************************)

VARIABLES
  gates,   (* the gates of the module          *)
  deps,    (* pairs <<p, g>>: g depends on p   *)
  done     (* the gates that have completed    *)

vars == <<gates, deps, done>>

Init ==
  /\ gates = {}
  /\ deps = {}
  /\ done = {}

\* Another module, once all gates of the last one have completed.
Load ==
  /\ done = gates
  /\ deps' \subseteq gates' \X gates'
  /\ done' = {}

Finish(g) ==
  /\ g \notin done
  /\ \A p \in gates : <<p, g>> \in deps => p \in done
  /\ done' = done \union {g}
  /\ UNCHANGED <<gates, deps>>

Next == Load \/ \E g \in gates : Finish(g)

Spec == Init /\ [][Next]_vars

=============================================================================
