----------------------------- MODULE LpfsSchedule -----------------------------
(***************************************************************************)
(* scripts/sched.pl, lpfs: the longest paths get regions 1 .. l to         *)
(* themselves; what is ready otherwise goes to the other regions.          *)
(*                                                                         *)
(* Along a path the ids increase, so that a path is the set of its         *)
(* operations and its first operation their minimum.  -refill changes      *)
(* nothing: it calls find_lp with the value of "ref values %$ready", which *)
(* is empty, gets no path and clears $pathsearch.                          *)
(***************************************************************************)
EXTENDS SimdSchedule

First(S) == CHOOSE o \in S : \A p \in S : o <= p

-----------------------------------------------------------------------------
(* find_lp.                                                                *)

Unfollowed == Ids \ followed

\* Number of operations on the longest chain of unfollowed operations that
\* ends at each operation; 0 for those already followed.
dist ==
    LET d[o \in Ids] ==
            IF o \in followed THEN 0
            ELSE 1 + (CHOOSE m \in {0} \cup {d[p] : p \in in_edges[o]} :
                        \A p \in in_edges[o] : d[p] <= m)
    IN  d

\* The end of a path: the first of the operations that are farthest down.
PathEnd(o, d) ==
    \A p \in Unfollowed : d[p] <= d[o] /\ (p < o => d[p] < d[o])

\* The parent that the path comes from: of those one step nearer, the one
\* that the earliest argument leads to.
PathParent(p, o, d) ==
    \E i \in DOMAIN ops[o].args :
        /\ EdgeBy(p, o, i) /\ d[p] = d[o] - 1
        /\ \A j \in 1 .. i - 1 :
               \A q \in in_edges[o] : EdgeBy(q, o, j) => d[q] # d[o] - 1

\* P is the path found.
LongestPath(P, d) ==
    \E end \in P :
        /\ PathEnd(end, d)
        /\ Cardinality(P) = d[end]
        /\ \A o \in P : d[o] > 1 => \E p \in P : PathParent(p, o, d)

\* One round of the first loop of lpfs; it stops when nothing is left.
FindPath ==
    /\ pc = "start" /\ conf.name = "lpfs"
    /\ region <= conf.l
    /\ \/ /\ Unfollowed = {}
          /\ region' = conf.l + 1
          /\ UNCHANGED <<path, followed>>
       \/ LET d == dist IN \E P \in SUBSET Unfollowed :
             /\ LongestPath(P, d)
             /\ path' = [path EXCEPT ![region] = P]
             /\ followed' = followed \cup P
             /\ region' = region + 1
    /\ UNCHANGED <<conf, ops, in_edges, pc, ts, when, simd, ready, op_cnt, active, loc>>

-----------------------------------------------------------------------------
\* lpfs_init, with the test of the main loop.
LpfsInit ==
    /\ pc = "start" /\ conf.name = "lpfs"
    /\ region > conf.l
    /\ ready' = top \ followed
    /\ when' = [o \in Ids |-> -1]
    /\ simd' = [o \in Ids |-> -1]
    /\ loc' = [q \in Qubits |-> 0]
    /\ op_cnt' = 0
    /\ ts' = 0
    /\ region' = 1
    /\ LoopTest(0, ready' # {} \/ Ids # {})
    /\ UNCHANGED <<conf, ops, in_edges, followed, path, active>>

\* Faulty variant: of any kind.
lpfs_extract_optype_any(kind) == {S \in SUBSET ready : Cardinality(S) <= conf.d}

\* Up to d ready operations of a kind, in the order of
\* a hash, that is any of them.
lpfs_extract_optype(kind) ==
    LET alike == {o \in ready : ops[o].op = kind} IN
        {S \in SUBSET alike :
            \/ Cardinality(S) = conf.d
            \/ S = alike /\ Cardinality(S) < conf.d}

Placing == pc = "step" /\ conf.name = "lpfs"

\* The next operation of a path is taken if it is ready; with -opp, ready
\* operations of its kind share the region.
PathStep ==
    /\ Placing /\ region <= conf.l
    /\ path[region] # {} /\ op_ready(First(path[region]))
    /\ LET head == First(path[region]) IN
        \E more \in IF conf.opp THEN lpfs_extract_optype(ops[head].op) ELSE {{}} :
            /\ sched_op({head} \cup more, region)
            /\ path' = [path EXCEPT ![region] = @ \ {head}]
            /\ ready' = ready \ more
    /\ region' = region + 1
    /\ UNCHANGED <<conf, ops, in_edges, pc, ts, active, loc>>

\* It is not: the region stays empty in this step.
PathStalls ==
    /\ Placing /\ region <= conf.l
    /\ ~(path[region] # {} /\ op_ready(First(path[region])))
    /\ region' = region + 1
    /\ UNCHANGED <<conf, ops, in_edges, pc, ts, when, simd, ready, followed, path,
                   op_cnt, active, loc>>

\* The other regions take the first ready operation, with -opp all of its
\* kind.  (followed is read from the wrong place here, so it skips nothing.)
FillStep ==
    /\ Placing /\ conf.l < region /\ region <= conf.k
    /\ ready # {} /\ op_ready(First(ready))
    /\ \E S \in IF conf.opp THEN lpfs_extract_optype(ops[First(ready)].op)
                            ELSE {{First(ready)}} :
          /\ sched_op(S, region)
          /\ ready' = ready \ S
    /\ region' = region + 1
    /\ UNCHANGED <<conf, ops, in_edges, pc, ts, path, active, loc>>

FillStops ==
    /\ Placing /\ conf.l < region /\ region <= conf.k
    /\ ready = {}
    /\ region' = conf.k + 1
    /\ UNCHANGED <<conf, ops, in_edges, pc, ts, when, simd, ready, followed, path,
                   op_cnt, active, loc>>

\* update_moves, lpfs_update_ready, the next step and the loop's tests.
LpfsEndStep ==
    /\ Placing /\ region = conf.k + 1
    /\ update_moves
    /\ ready' = ready \cup (ReadyChildren \ followed)
    /\ ts' = ts + 1
    /\ region' = 1
    /\ LoopTest(ts', ready' # {} \/ op_cnt < Len(ops))
    /\ UNCHANGED <<conf, ops, in_edges, when, simd, followed, path, op_cnt>>

LpfsNext ==
    \/ FindPath \/ LpfsInit
    \/ PathStep \/ PathStalls \/ FillStep \/ FillStops
    \/ LpfsEndStep
=============================================================================
