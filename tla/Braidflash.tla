---------------------------- MODULE Braidflash -----------------------------
(***************************************************************************)
(* The Braidflash simulation loop (braidflash/braidflash.cpp): logical     *)
(* gates become queues of timed events that open and close braids on a     *)
(* shared mesh.  Events that conflict stay and are retried; a CNOT that    *)
(* stalls is rerouted, and a gate that stalls longer is dropped, purged    *)
(* from the mesh and reinjected.  Gates become ready when their            *)
(* predecessors in the dependency graph have completed.                    *)
(*                                                                         *)
(* One clock cycle of main()'s while loop is a sequence of steps, in the   *)
(* code's order: QueueReadyGates, one CountDown per gate, Prioritise, one  *)
(* step per lapsed event, EndCycle.                                        *)
(***************************************************************************)
EXTENDS BraidRoutes

CONSTANTS
  Programs,         (* the gate lists a module of the benchmark may have     *)
  CodeDistances,    (* what set_code_distance() may return: 0 as the code    *)
                    (* stands, 1 and more if it returned what it computes    *)
  priority_policy,  (* --pri: 0 keeps program order, otherwise events sort   *)
  attempt_th_yx,    (* --yx: failed attempts before a CNOT is rerouted       *)
  attempt_th_drop,  (* --drop: failed attempts before a gate is reinjected   *)
  WatchdogPeriod    (* cycles between two progress checks: 10000 in the code *)

Free == 0           \* the owner of an unengaged node or link

CnotEvents == {"cnot1", "cnot2", "cnot3", "cnot4", "cnot5", "cnot6", "cnot7"}
HEvents    == {"h1", "h2"}
EventTypes == CnotEvents \union HEvents

\* parse_LPFS keeps CNOT, H, S and T; main() has turned S and T into CNOT and
\* H before the simulation starts.
IsGate(g) ==
  /\ g.op \in {"CNOT", "H"}
  /\ g.qid \in Seq(Qubits)
  /\ g.op = "CNOT" => Len(g.qid) = 2 /\ g.qid[1] # g.qid[2]
  /\ g.op = "H"    => Len(g.qid) = 1

ASSUME BraidflashAssumption ==
  /\ \A p \in Programs : p \in Seq(Range(p)) /\ \A i \in DOMAIN p : IsGate(p[i])
  /\ CodeDistances \subseteq Nat
  /\ priority_policy \in 0 .. 6
  /\ attempt_th_yx \in Nat
  /\ attempt_th_drop \in Nat
  /\ WatchdogPeriod \in Nat \ {0}

VARIABLES
  code_distance,  (* set once, before the first module                       *)
  module_gates,   (* the gates of the module in program order; gate g is the *)
                  (* index, which also stands for its seq and descriptor     *)
  node_owner,     (* mesh[n].owner, Free or a gate                           *)
  link_owner,     (* mesh[l].owner                                           *)
  edges,          (* the edges still in dag                                  *)
  completed,      (* the gates that have completed: success_events at each   *)
                  (* line that counts gate_complete_count                    *)
  ready_gates,    (* gates whose events must be queued.  A set: the loop     *)
                  (* that empties it does not depend on the order            *)
  event_queues,   (* the queue of each gate, <<>> when the map has no entry  *)
  ready_events,   (* ready_events before the iterator it_e: lapsed events    *)
                  (* kept for the next cycle                                 *)
  todo,           (* ready_events from it_e on                               *)
  YX_flag,        (* a reroute happened in this cycle                        *)
  drop_flag,      (* a drop happened in this cycle                           *)
  pc,             (* where the loop is                                       *)
  sweep,          (* the next gate increment_clock() looks at                *)
  clk,            (* the clock, modulo WatchdogPeriod                        *)
  prev_remaining  (* the edges left at the last progress check (the code     *)
                  (* keeps their number; edges only shrinks)                 *)

mesh  == <<node_owner, link_owner>>
dag   == <<edges, completed>>
flags == <<YX_flag, drop_flag>>
watch == <<clk, prev_remaining>>
vars  == <<code_distance, module_gates, mesh, dag, ready_gates, event_queues,
           ready_events, todo, flags, pc, sweep, watch>>

Gates == DOMAIN module_gates

-----------------------------------------------------------------------------
(* Events *)

\* (Faulty variants, for the mutation runs, stand before what they replace.)

\* Faulty variant: the two cycles of opening and closing count as well.
event_timers_short(type) ==
  IF type \in {"cnot5", "cnot7"} THEN code_distance - 3 ELSE 1

\* Timers are ints: a negative one is invalid and never counts down.  A code
\* distance of 0, the value of the global that set_code_distance() returns in
\* place of what it computed, makes code_distance - 1 wrap around and convert
\* back to -1.
event_timers(type) ==
  CASE type \in {"cnot5", "cnot7"} -> code_distance - 1
    [] type = "h2" -> 8 + code_distance
    [] OTHER -> 1

Event(braid, open, gate, type, timer) ==
  [braid |-> braid, open |-> open, gate |-> gate, type |-> type,
   timer |-> timer, attempts |-> 0]

\* The braids of the seven events: cnot2 closes the whole ancilla braid, cnot6
\* leaves the ancilla link to cnot7.
events_cnot(src, dest, g) ==
  LET anc     == cnot_ancillas(src, dest)
      routes  == cnot_routes(src, dest, anc.anc1, FALSE)
      anc_braid(links) == Braid(<<anc.anc2, anc.anc1>>, links)
      anc_init == anc_braid(<<edge(anc.anc1, anc.anc2)>>)
      n_last  == Last(routes.route_1.nodes)
      route_1 == Braid(Append(routes.route_1.nodes, anc.anc1),
                       routes.route_1.links)
      nodes_2 == Append(routes.route_2.nodes, n_last)
      links_2 == routes.route_2.links
  IN  << Event(anc_init, TRUE, g, "cnot1", 1),
         Event(anc_init, FALSE, g, "cnot2", -1),
         Event(route_1, TRUE, g, "cnot3", -1),
         Event(route_1, FALSE, g, "cnot4", -1),
         Event(Braid(nodes_2, links_2), TRUE, g, "cnot5", -1),
         Event(Braid(nodes_2, Front(links_2)), FALSE, g, "cnot6", -1),
         Event(anc_braid(<<Last(links_2)>>), FALSE, g, "cnot7", -1) >>

\* An H engages nothing (its two side links are disabled in the code).
events_h(g) ==
  << Event(Braid(<<>>, <<>>), TRUE, g, "h1", 1),
     Event(Braid(<<>>, <<>>), FALSE, g, "h2", -1) >>

EventsOf(g) ==
  LET gate == module_gates[g]
  IN  IF gate.op = "CNOT" THEN events_cnot(gate.qid[1], gate.qid[2], g)
                          ELSE events_h(g)

-----------------------------------------------------------------------------
(* The dependency graph *)

UsesQubit(gates, i, q) == q \in Range(gates[i].qid)

\* An edge to the next gate that shares an operand, for every operand.
DependencyEdges(gates) ==
  {e \in (DOMAIN gates) \X (DOMAIN gates) :
     /\ e[1] < e[2]
     /\ \E q \in Range(gates[e[1]].qid) :
          /\ UsesQubit(gates, e[2], q)
          /\ \A k \in DOMAIN gates :
               e[1] < k /\ k < e[2] => ~UsesQubit(gates, k, q)}

Predecessors(E, g) == {p \in Gates : <<p, g>> \in E}

\* Faulty variant: gates nothing depends on.
initial_ready_leaves(gates) ==
  {g \in DOMAIN gates : ~\E c \in DOMAIN gates :
                           <<g, c>> \in DependencyEdges(gates)}

\* The gates that depend on nothing.
initial_ready(gates) ==
  {g \in DOMAIN gates : ~\E p \in DOMAIN gates :
                           <<p, g>> \in DependencyEdges(gates)}

\* Faulty variant: without the test of the in-degree.
NextReady_any(g) == {c \in Gates : g \in Predecessors(edges, c)}

\* The gates that wait only for g.
NextReady(g) == {c \in Gates : Predecessors(edges, c) = {g}}

-----------------------------------------------------------------------------
(* The mesh *)

\* Faulty variant: opening never fails.
Refuses_close_only(owner, e) == ~e.open /\ owner \notin {Free, e.gate}

\* do_event refuses to open what is engaged and to close what another gate
\* engages; closing what is free is accepted.
Refuses(owner, e) == owner # Free /\ (e.open \/ owner # e.gate)

Conflict(e) ==
  \/ \E i \in DOMAIN e.braid.nodes : Refuses(node_owner[e.braid.nodes[i]], e)
  \/ \E i \in DOMAIN e.braid.links : Refuses(link_owner[e.braid.links[i]], e)

\* Faulty variant: closed nodes and links get another value than Free.
do_event_minus_one(e) ==
  LET owner == IF e.open THEN e.gate ELSE -1
  IN  /\ node_owner' = [n \in Nodes |-> IF n \in Range(e.braid.nodes)
                                        THEN owner ELSE node_owner[n]]
      /\ link_owner' = [l \in Links |-> IF l \in Range(e.braid.links)
                                        THEN owner ELSE link_owner[l]]

do_event(e) ==
  LET owner == IF e.open THEN e.gate ELSE Free
  IN  /\ node_owner' = [n \in Nodes |-> IF n \in Range(e.braid.nodes)
                                        THEN owner ELSE node_owner[n]]
      /\ link_owner' = [l \in Links |-> IF l \in Range(e.braid.links)
                                        THEN owner ELSE link_owner[l]]

purge_gate_from_mesh(g) ==
  /\ node_owner' = [n \in Nodes |-> IF node_owner[n] = g THEN Free
                                                         ELSE node_owner[n]]
  /\ link_owner' = [l \in Links |-> IF link_owner[l] = g THEN Free
                                                         ELSE link_owner[l]]

-----------------------------------------------------------------------------
(* A module starts and ends *)

Init ==
  /\ code_distance \in CodeDistances
  /\ module_gates = <<>>
  /\ node_owner = [n \in Nodes |-> Free]
  /\ link_owner = [l \in Links |-> Free]
  /\ edges = {}
  /\ completed = {}
  /\ ready_gates = {}
  /\ event_queues = <<>>
  /\ ready_events = <<>>
  /\ todo = <<>>
  /\ YX_flag = FALSE
  /\ drop_flag = FALSE
  /\ pc = "idle"
  /\ sweep = 1
  /\ clk = 0
  /\ prev_remaining = {}

\* The next module: clock, mesh and dag are rebuilt.  Event queues and ready
\* events are not cleared: the loop below leaves them empty.
StartModule(gates) ==
  /\ pc = "idle"
  /\ module_gates' = gates
  /\ node_owner' = [n \in Nodes |-> Free]
  /\ link_owner' = [l \in Links |-> Free]
  /\ edges' = DependencyEdges(gates)
  /\ completed' = {}
  /\ ready_gates' = ready_gates \union initial_ready(gates)
  /\ event_queues' = [g \in DOMAIN gates |-> <<>>]
  /\ clk' = 0
  /\ prev_remaining' = {}
  /\ pc' = "loop"
  /\ UNCHANGED <<code_distance, ready_events, todo, flags, sweep>>

\* Faulty variant: gates that wait to be queued are not counted.
WorkLeft_queued ==
  \/ \E g \in Gates : event_queues[g] # <<>>
  \/ ready_events # <<>>

WorkLeft ==
  \/ \E g \in Gates : event_queues[g] # <<>>
  \/ ready_events # <<>>
  \/ edges # {}
  \/ ready_gates # {}

EndModule ==
  /\ pc = "loop" /\ ~WorkLeft
  /\ pc' = "idle"
  /\ UNCHANGED <<code_distance, module_gates, mesh, dag, ready_gates,
                 event_queues, ready_events, todo, flags, sweep, watch>>

\* Every WatchdogPeriod cycles the loop compares the number of edges left.
NoProgress == clk = 0 /\ prev_remaining = edges /\ edges # {}

Stuck ==
  /\ pc = "loop" /\ WorkLeft /\ NoProgress
  /\ pc' = "stuck"
  /\ UNCHANGED <<code_distance, module_gates, mesh, dag, ready_gates,
                 event_queues, ready_events, todo, flags, sweep, watch>>

-----------------------------------------------------------------------------
(* One cycle, up to the lapsed events *)

\* Faulty variant: all checks compare with the first.
EdgesSeen_first ==
  IF clk = 0 /\ prev_remaining = {} THEN edges ELSE prev_remaining

\* What the next progress check compares with.
EdgesSeen == IF clk = 0 THEN edges ELSE prev_remaining

QueueReadyGates ==
  /\ pc = "loop" /\ WorkLeft /\ ~NoProgress
  /\ prev_remaining' = EdgesSeen
  /\ event_queues' = [g \in Gates |-> IF g \in ready_gates THEN EventsOf(g)
                                                          ELSE event_queues[g]]
  /\ ready_gates' = {}
  /\ clk' = (clk + 1) % WatchdogPeriod
  /\ sweep' = 1
  /\ pc' = "count"
  /\ UNCHANGED <<code_distance, module_gates, mesh, dag, ready_events, todo,
                 flags>>

\* The timer of the head event of a queue; an absent queue is skipped like one
\* whose head has no valid timer.
HeadTimer(g) ==
  IF event_queues[g] = <<>> THEN -1 ELSE Head(event_queues[g]).timer

\* Faulty variant: the lapsed event stays in its queue.
pop_nothing(g) == event_queues

\* event_queues without the head event of gate g.
pop(g) == [event_queues EXCEPT ![g] = Tail(@)]

\* increment_clock() for the head event of one queue: it has no timer yet, it
\* counts down, or it lapses and leaves the queue.
CountDown ==
  /\ pc = "count" /\ sweep \in Gates
  /\ sweep' = sweep + 1
  /\ LET timer == HeadTimer(sweep)
     IN  \/ /\ timer < 0
            /\ UNCHANGED <<event_queues, ready_events>>
         \/ /\ timer > 1
            /\ event_queues' = [event_queues EXCEPT ![sweep][1].timer = timer - 1]
            /\ UNCHANGED ready_events
         \/ /\ timer \in {0, 1}
            /\ ready_events' = Append(ready_events,
                                 [Head(event_queues[sweep]) EXCEPT !.timer = 0])
            /\ event_queues' = pop(sweep)
  /\ UNCHANGED <<code_distance, module_gates, mesh, dag, ready_gates, todo,
                 flags, pc, watch>>

\* Under a priority policy the events are sorted by Event::operator<, which
\* switches on the member "policy".  The constructor never initialises that
\* member, so any order may come out.
Prioritise ==
  /\ pc = "count" /\ sweep \notin Gates
  /\ IF priority_policy = 0
     THEN todo' = ready_events
     ELSE LET places == 1 .. Len(ready_events)
          IN  \E p \in Bijection(places, places) :
                todo' = [i \in places |-> ready_events[p[i]]]
  /\ ready_events' = <<>>
  /\ YX_flag' = FALSE
  /\ drop_flag' = FALSE
  /\ pc' = "events"
  /\ UNCHANGED <<code_distance, module_gates, mesh, dag, ready_gates,
                 event_queues, sweep, watch>>

-----------------------------------------------------------------------------
(* The lapsed event at it_e *)

\* The last event of its gate succeeds: the gate leaves the graph.
CompleteGate ==
  /\ pc = "events" /\ todo # <<>>
  /\ LET e == Head(todo)
         g == e.gate
     IN  /\ ~Conflict(e) /\ event_queues[g] = <<>>
         /\ do_event(e)
         /\ ready_gates' = ready_gates \union NextReady(g)
         /\ edges' = {d \in edges : d[1] # g}
         /\ completed' = completed \union {g}
  /\ todo' = Tail(todo)
  /\ UNCHANGED <<code_distance, module_gates, event_queues, ready_events,
                 flags, pc, sweep, watch>>

\* Another event succeeds: the timer of the gate's next event starts.
AdvanceGate ==
  /\ pc = "events" /\ todo # <<>>
  /\ LET e == Head(todo)
         g == e.gate
     IN  /\ ~Conflict(e) /\ event_queues[g] # <<>>
         /\ do_event(e)
         /\ event_queues' = [event_queues EXCEPT ![g][1].timer =
                               event_timers(Head(event_queues[g]).type)]
  /\ todo' = Tail(todo)
  /\ UNCHANGED <<code_distance, module_gates, dag, ready_gates, ready_events,
                 flags, pc, sweep, watch>>

\* Counting stops once both thresholds are passed: nothing reads more.
Retried(e) ==
  IF e.attempts > attempt_th_yx /\ e.attempts > attempt_th_drop
  THEN e ELSE [e EXCEPT !.attempts = @ + 1]

MustReroute(e) ==
  /\ e.attempts > attempt_th_yx
  /\ ~YX_flag
  /\ e.type \in {"cnot3", "cnot5"}

MustDrop(e) == e.attempts > attempt_th_drop /\ ~drop_flag

\* Faulty variant: the closing event keeps the links of the XY route.
resolve_open_only(e, hold) ==
  LET qid    == module_gates[e.gate].qid
      anc1   == cnot_ancillas(qid[1], qid[2]).anc1
      xy     == cnot_routes(qid[1], qid[2], anc1, FALSE)
      yx     == cnot_routes(qid[1], qid[2], anc1, TRUE)
  IN  IF e.type = "cnot3"
      THEN [open  |-> yx.route_1,
            close |-> Braid(Append(Front(yx.route_1.nodes), anc1),
                            xy.route_1.links)]
      ELSE [open  |-> Braid(Front(yx.route_2.nodes), yx.route_2.links),
            close |-> Braid(Append(Front(yx.route_2.nodes), hold),
                            Front(xy.route_2.links))]

\* resolve_cnot: the YX braids of the event and of the event that closes it;
\* hold is the last node of the braid the closing event had before.
resolve_cnot(e, hold) ==
  LET qid    == module_gates[e.gate].qid
      anc1   == cnot_ancillas(qid[1], qid[2]).anc1
      routes == cnot_routes(qid[1], qid[2], anc1, TRUE)
      r1     == routes.route_1
      r2     == routes.route_2
  IN  IF e.type = "cnot3"
      THEN [open  |-> r1,
            close |-> Braid(Append(Front(r1.nodes), anc1), r1.links)]
      ELSE [open  |-> Braid(Front(r2.nodes), r2.links),
            close |-> Braid(Append(Front(r2.nodes), hold), Front(r2.links))]

\* A conflict below the thresholds, or in a cycle that has used its reroute
\* and its drop: the event stays for the next cycle.
Retry ==
  /\ pc = "events" /\ todo # <<>> /\ Conflict(Head(todo))
  /\ LET e == Retried(Head(todo))
     IN  /\ ~MustReroute(e) /\ ~MustDrop(e)
         /\ ready_events' = Append(ready_events, e)
  /\ todo' = Tail(todo)
  /\ UNCHANGED <<code_distance, module_gates, mesh, dag, ready_gates,
                 event_queues, flags, pc, sweep, watch>>

\* The reroute of this cycle.  Adjacent qubits keep their routes.
Reroute ==
  /\ pc = "events" /\ todo # <<>> /\ Conflict(Head(todo))
  /\ LET e   == Retried(Head(todo))
         g   == e.gate
         qid == module_gates[g].qid
         new == resolve_cnot(e, Last(Head(event_queues[g]).braid.nodes))
     IN  /\ MustReroute(e) /\ ~MustDrop(e)
         /\ IF are_adjacent(qid[1], qid[2])
            THEN /\ ready_events' = Append(ready_events, e)
                 /\ UNCHANGED event_queues
            ELSE /\ ready_events' = Append(ready_events,
                                           [e EXCEPT !.braid = new.open])
                 /\ event_queues' = [event_queues EXCEPT
                                       ![g][1].braid = new.close]
  /\ YX_flag' = TRUE
  /\ todo' = Tail(todo)
  /\ UNCHANGED <<code_distance, module_gates, mesh, dag, ready_gates,
                 drop_flag, pc, sweep, watch>>

\* Faulty variant: the events of the dropped gate stay.
erase_nothing(g) == event_queues

\* event_queues without the queue of gate g.
erase(g) == [event_queues EXCEPT ![g] = <<>>]

\* The drop of this cycle (whatever a reroute did to the event goes with it).
DropGate ==
  /\ pc = "events" /\ todo # <<>> /\ Conflict(Head(todo))
  /\ LET e == Retried(Head(todo))
         g == e.gate
     IN  /\ MustDrop(e)
         /\ YX_flag' = (YX_flag \/ MustReroute(e))
         /\ purge_gate_from_mesh(g)
         /\ ready_gates' = ready_gates \union {g}
         /\ event_queues' = erase(g)
  /\ drop_flag' = TRUE
  /\ todo' = Tail(todo)
  /\ UNCHANGED <<code_distance, module_gates, dag, ready_events, pc, sweep,
                 watch>>

EndCycle ==
  /\ pc = "events" /\ todo = <<>>
  /\ pc' = "loop"
  /\ UNCHANGED <<code_distance, module_gates, mesh, dag, ready_gates,
                 event_queues, ready_events, todo, flags, sweep, watch>>

-----------------------------------------------------------------------------

Next ==
  \/ \E gates \in Programs : StartModule(gates)
  \/ EndModule
  \/ Stuck
  \/ QueueReadyGates
  \/ CountDown
  \/ Prioritise
  \/ CompleteGate
  \/ AdvanceGate
  \/ Retry
  \/ Reroute
  \/ DropGate
  \/ EndCycle

Spec == Init /\ [][Next]_vars

Runs == pc \notin {"idle", "stuck"}

\* The simulator is one thread that never blocks; whether another module comes
\* is up to the input.  This is WF_vars(Runs /\ Next), with Runs, where some
\* step is always enabled, in the place of ENABLED, which TLC evaluates slowly.
FairSpec == Spec /\ ([]<>~Runs \/ []<><<Next>>_vars)

-----------------------------------------------------------------------------
(* What the state says of a gate *)

Lapsed(g) == {e \in Range(ready_events) \union Range(todo) : e.gate = g}

HeadRuns(g) == HeadTimer(g) >= 0

Active(g) ==
  g \in ready_gates \/ event_queues[g] # <<>> \/ Lapsed(g) # {}

Completed(g) == g \in completed

\* The event of gate g that comes next: the lapsed one, or the head of its
\* queue.
Pending(g) ==
  IF Lapsed(g) # {} THEN Lapsed(g)
  ELSE IF event_queues[g] # <<>> THEN {Head(event_queues[g])} ELSE {}

Owners == Range(node_owner) \union Range(link_owner)

-----------------------------------------------------------------------------
(* Properties *)

EventType == [braid : BraidType, open : BOOLEAN, gate : Gates,
              type : EventTypes, timer : Int, attempts : Nat]

\* The types of the variables.
TypeOK ==
  /\ code_distance \in CodeDistances
  /\ module_gates \in Programs \union {<<>>}
  /\ node_owner \in [Nodes -> Gates \union {Free}]
  /\ link_owner \in [Links -> Gates \union {Free}]
  /\ edges \in SUBSET (Gates \X Gates)
  /\ completed \in SUBSET Gates
  /\ ready_gates \in SUBSET Gates
  /\ event_queues \in [Gates -> Seq(EventType)]
  /\ ready_events \in Seq(EventType)
  /\ todo \in Seq(EventType)
  /\ YX_flag \in BOOLEAN
  /\ drop_flag \in BOOLEAN
  /\ pc \in {"idle", "loop", "count", "events", "stuck"}
  /\ sweep \in Nat \ {0}
  /\ clk \in Nat
  /\ prev_remaining \in SUBSET (Gates \X Gates)

\* The events of a gate, first to last.
Script(gate) ==
  IF gate.op = "CNOT"
  THEN <<"cnot1", "cnot2", "cnot3", "cnot4", "cnot5", "cnot6", "cnot7">>
  ELSE <<"h1", "h2">>

\* A gate waits in one place only: to be queued (ready_gates), for a timer
\* (the head of its queue) or for the mesh (one lapsed event).  A drop that
\* left an event behind, or a second queueing of a running gate, breaks it.
OneEventInFlight ==
  /\ \A g \in ready_gates : event_queues[g] = <<>> /\ Lapsed(g) = {}
  /\ \A g \in Gates : Lapsed(g) # {} => ~HeadRuns(g)
  /\ \A g \in Gates : \A i \in DOMAIN event_queues[g] :
       i > 1 => event_queues[g][i].timer < 0
  /\ \A i, j \in DOMAIN ready_events :
       ready_events[i].gate = ready_events[j].gate => i = j
  /\ \A i, j \in DOMAIN todo : todo[i].gate = todo[j].gate => i = j
  /\ \A i \in DOMAIN ready_events, j \in DOMAIN todo :
       ready_events[i].gate # todo[j].gate

\* A gate goes through its events in the order of the code's queue: what is
\* left in its queue is the end of that sequence, and a lapsed event is the one
\* just before it.  None is skipped, done twice or kept from before a drop.
EventsInOrder ==
  /\ \A g \in Gates :
       LET script == Script(module_gates[g])
           queue  == event_queues[g]
       IN  /\ Len(queue) <= Len(script)
           /\ \A i \in DOMAIN queue :
                queue[i].type = script[Len(script) - Len(queue) + i]
  /\ \A e \in Range(ready_events) \union Range(todo) :
       LET script == Script(module_gates[e.gate])
           left   == Len(event_queues[e.gate])
       IN  left < Len(script) /\ e.type = script[Len(script) - left]

\* The one event whose timer never runs: at code distance 0 that of cnot5 is
\* set to -1, so that the gate has neither a timer nor a lapsed event.
Stalled(g) ==
  /\ code_distance = 0
  /\ event_queues[g] # <<>> /\ Head(event_queues[g]).type = "cnot5"

\* At any code distance no gate is forgotten but a CNOT that stalls before its
\* cnot5 at distance 0: every other gate with events left has a running timer,
\* a lapsed event, or is about to be queued.
NoGateForgotten ==
  \A g \in Gates : Active(g) =>
    g \in ready_gates \/ HeadRuns(g) \/ Lapsed(g) # {} \/ Stalled(g)

\* A gate has events only when every gate it depends on has completed, drops
\* and reinjections included.
DependencyOrder ==
  \A g \in Gates : Active(g) =>
    \A p \in Predecessors(DependencyEdges(module_gates), g) : Completed(p)

\* Engaged nodes and links belong to gates that have begun and not completed:
\* the closing events and the purge release whatever was opened, on the XY and
\* the YX routes and on any mix of them.
NoLeak ==
  \A g \in Owners \ {Free} :
    Active(g) /\ g \notin ready_gates

\* While a gate waits to close a braid, every link of that braid is its own:
\* nobody else opens it or closes it in between.
HeldUntilClosed ==
  \A g \in Gates : \A e \in Pending(g) :
    ~e.open => \A i \in DOMAIN e.braid.links :
                 link_owner[e.braid.links[i]] = g

\* When a module ends, nothing of it is left: not an owner, an event or a gate
\* without completion.  The next module does not clear the event lists.
CleanEnd ==
  pc = "idle" => /\ Owners = {Free}
                 /\ \A g \in Gates : Completed(g)
                 /\ ready_events = <<>> /\ todo = <<>>

\* A completed gate is never simulated again in its module.
CompletedForGood ==
  [][pc # "idle" => \A g \in Gates :
        Completed(g) => Completed(g)' /\ ~Active(g)']_vars

\* An engaged node or link changes hands only through Free, and only its owner
\* frees it, in a step on one of the owner's events.
OwnerReleases ==
  [][pc = "events" /\ todo # <<>> =>
       /\ \A n \in Nodes : node_owner[n] # Free /\ node_owner'[n] # node_owner[n]
            => node_owner'[n] = Free /\ node_owner[n] = Head(todo).gate
       /\ \A l \in Links : link_owner[l] # Free /\ link_owner'[l] # link_owner[l]
            => link_owner'[l] = Free /\ link_owner[l] = Head(todo).gate]_vars

\* Seen through the gates alone, the loop is a schedule of the dependency graph.
Abs == INSTANCE GateDag WITH
         gates <- Gates,
         deps  <- DependencyEdges(module_gates),
         done  <- completed

\* The loop completes each gate of a module once, after the gates it depends
\* on, and takes the next module only when all are complete.
SchedulesTheDag == Abs!Spec

\* Gates that depend on one another never keep the loop running for ever: the
\* last of them can start, or the watchdog stops the program.  It counts edges
\* only, so nothing is promised when none are left and a gate stalls, or gates
\* drop each other.
WatchdogStops == pc = "loop" ~> edges = {} \/ pc = "stuck"

=============================================================================
