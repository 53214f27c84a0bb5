----------------------------- MODULE SimdSchedule -----------------------------
(***************************************************************************)
(* scripts/sched.pl: what its SIMD schedulers share.  A function is a list *)
(* of operations; each operation gets a time step and one of SIMD_K        *)
(* regions, and all operations of a region in a step are of one kind.      *)
(* Moves bring the operands of a step into their regions.                  *)
(*                                                                         *)
(* An operation is its position in the function, which stands for its id.  *)
(* Fields that the two schedulers modelled here do not read (rank, asap,   *)
(* slack, which stays 0 without alap and acap) and the metrics are left    *)
(* out.                                                                    *)
(***************************************************************************)
EXTENDS Integers, FiniteSets, Sequences

CONSTANTS
    Qubits,     \* names of qubits
    Functions,  \* functions to schedule, each a sequence of operations
    Settings    \* command lines: scheduler, regions, paths, capacity, -opp

Operations == [op : STRING, args : Seq(Qubits)]

\* Command line after the adjustment of main(): fewer paths than regions.
ASSUME SettingsAssumption ==
    \A s \in Settings :
        /\ s.name \in {"lpfs", "rcp"}
        /\ s.k \in Nat \ {0} /\ s.l \in Nat /\ s.d \in Nat \ {0}
        /\ s.l < s.k
        /\ s.opp \in BOOLEAN

ASSUME FunctionsAssumption == Functions \subseteq Seq(Operations)

VARIABLES
    conf,       \* the command line
    ops,        \* the operations of the function
    in_edges,   \* the operations that each operation depends on
    pc,         \* where the scheduler is
    ts,         \* current time step
    region,     \* loop variable over paths and regions
    when,       \* time step of each operation, -1 for none
    simd,       \* region of each operation, -1 for none
    ready,      \* ready list ($ready, $rcpq)
    followed,   \* operations on a path or, under lpfs, placed
    path,       \* lpfs: operations still to place on each path ($simds)
    op_cnt,     \* operations counted as scheduled
    active,     \* region of each qubit in active_qubits, 0 for none
    loc         \* location of each qubit, 0 for memory

vars == <<conf, ops, in_edges, pc, ts, region, when, simd, ready, followed, path,
          op_cnt, active, loc>>

Ids == DOMAIN ops
Regions == 1 .. conf.k

args(o) == {ops[o].args[i] : i \in DOMAIN ops[o].args}

-----------------------------------------------------------------------------
(* Dependencies.                                                           *)

\* add_qubit: argument i of o was last used by p.
EdgeBy(p, o, i) ==
    /\ p < o
    /\ ops[o].args[i] \in args(p)
    /\ \A r \in Ids : p < r /\ r < o => ops[o].args[i] \notin args(r)

Edges ==
    [o \in Ids |-> {p \in Ids : \E i \in DOMAIN ops[o].args : EdgeBy(p, o, i)}]

\* Faulty variant: one parent is enough.
op_ready_any(o) ==
    in_edges[o] = {} \/ \E p \in in_edges[o] : when[p] # -1

op_ready(o) == \A p \in in_edges[o] : when[p] # -1

top == {o \in Ids : in_edges[o] = {}}

Placed == {o \in Ids : when[o] # -1}
Slot(r) == {o \in Ids : when[o] = ts /\ simd[o] = r}
ThisStep == {o \in Ids : when[o] = ts}

-----------------------------------------------------------------------------
(* Placing.                                                                *)

\* sched_op, for each of the operations S: those that are ready go into
\* region r at the current step.
sched_op(S, r) ==
    LET now == {o \in S : op_ready(o)} IN
        /\ when' = [o \in Ids |-> IF o \in now THEN ts ELSE when[o]]
        /\ simd' = [o \in Ids |-> IF o \in now THEN r ELSE simd[o]]
        /\ followed' = IF conf.name = "lpfs" THEN followed \cup now ELSE followed
        /\ op_cnt' = op_cnt + Cardinality(S)

\* Faulty variant: children all of whose parents are in this step.
ReadyChildren_first ==
    {c \in Ids : op_ready(c) /\ in_edges[c] # {} /\ in_edges[c] \subseteq ThisStep}

\* get_ready_children of the operations of this step.
ReadyChildren ==
    {c \in Ids : op_ready(c) /\ in_edges[c] \cap ThisStep # {}}

-----------------------------------------------------------------------------
(* update_moves: a qubit goes where the step uses it; one that is not used *)
(* stays where it is unless its region is busy, which sends it to memory.  *)

Needed(q) == {r \in Regions : \E o \in Slot(r) : q \in args(o)}

\* Faulty variant: a qubit that is not used always stays.
Target_kept(q) ==
    IF Needed(q) # {}
    THEN CHOOSE r \in Needed(q) : \A s \in Needed(q) : s <= r
    ELSE active[q]

\* Entries of later regions overwrite those of earlier ones.
Target(q) ==
    IF Needed(q) # {}
    THEN CHOOSE r \in Needed(q) : \A s \in Needed(q) : s <= r
    ELSE IF active[q] # 0 /\ Slot(active[q]) = {} THEN active[q] ELSE 0

update_moves ==
    /\ active' = [q \in Qubits |-> Target(q)]
    /\ loc' = [q \in Qubits |->
                  IF Target(q) # active[q] THEN Target(q) ELSE loc[q]]

-----------------------------------------------------------------------------
Init ==
    /\ conf \in Settings
    /\ ops \in Functions
    /\ in_edges = Edges
    /\ pc = "start"
    /\ ts = 0
    /\ region = 1
    /\ when = [o \in Ids |-> -1]
    /\ simd = [o \in Ids |-> -1]
    /\ ready = {}
    /\ followed = {}
    /\ path = [i \in Regions |-> {}]
    /\ op_cnt = 0
    /\ active = [q \in Qubits |-> 0]
    /\ loc = [q \in Qubits |-> 0]

\* The loops of lpfs and rcp: go on, stop, or give up after too many steps.
LoopTest(t, more) ==
    pc' = IF ~more THEN "over"
          ELSE IF t > Len(ops) THEN "aborted" ELSE "step"

TypeOK ==
    /\ conf \in Settings
    /\ ops \in Functions
    /\ in_edges \in [Ids -> SUBSET Ids]
    /\ pc \in {"start", "step", "over", "aborted"}
    /\ ts \in Nat
    /\ region \in 1 .. conf.k + 1
    /\ when \in [Ids -> Nat \cup {-1}]
    /\ simd \in [Ids -> Regions \cup {-1}]
    /\ ready \subseteq Ids
    /\ followed \subseteq Ids
    /\ path \in [Regions -> SUBSET Ids]
    /\ op_cnt \in Nat
    /\ active \in [Qubits -> 0 .. conf.k]
    /\ loc \in [Qubits -> 0 .. conf.k]
=============================================================================
