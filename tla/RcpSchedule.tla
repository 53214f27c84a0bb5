------------------------------ MODULE RcpSchedule ------------------------------
(***************************************************************************)
(* scripts/sched.pl, rcp: each region in turn takes the kind of operation  *)
(* with the largest sum of weights, as many of it as its capacity allows.  *)
(***************************************************************************)
EXTENDS SimdSchedule

CONSTANTS
    w_op,       \* weight of an operation
    w_dist      \* weight of an operation whose operands are in the region

\* With these, no sum of weights is negative, as with the defaults 1 and -1.
ASSUME WeightsAssumption == w_op \in Nat /\ w_dist \in Int /\ w_op + w_dist >= 0

RcpInit ==
    /\ pc = "start" /\ conf.name = "rcp"
    /\ ready' = top
    /\ loc' = [q \in Qubits |-> 0]
    /\ op_cnt' = 0
    /\ ts' = 0
    /\ region' = 1
    /\ LoopTest(0, ready' # {} /\ Ids # {})
    /\ UNCHANGED <<conf, ops, in_edges, when, simd, followed, path, active>>

-----------------------------------------------------------------------------
(* Weights.                                                                *)

\* rcp_op_weight: all operands are in region r.
InPlace(o, r) == \A q \in args(o) : loc[q] = r

\* rcp_calc_weights: the sum over the ready operations of a kind.
Alike(kind) == {o \in ready : ops[o].op = kind}
Weight(kind, r) ==
    w_op * Cardinality(Alike(kind))
        + w_dist * Cardinality({o \in Alike(kind) : InPlace(o, r)})

Kinds == {ops[o].op : o \in ready}
Heaviest(r) == {c \in Kinds : \A e \in Kinds : Weight(e, r) <= Weight(c, r)}

\* At least one operation, and another while one more
\* would leave a qubit of the capacity d free.
Fits(S) ==
    LET size(o) == Len(ops[o].args) IN
        /\ S # {}
        /\ \A o \in S : Cardinality(S) = 1 \/ size(o) * Cardinality(S) < conf.d
rcpq_extract_optype(kind) ==
    {S \in SUBSET Alike(kind) :
        /\ Fits(S)
        /\ \A o \in Alike(kind) \ S : ~Fits(S \cup {o})}

\* rcp_sched_next_simd.  It means to serve the region with the largest
\* weight first, but the comparison reads the same entry on both sides, so
\* that the lowest region is next.
RcpSimd ==
    /\ pc = "step" /\ conf.name = "rcp"
    /\ region <= conf.k /\ ready # {}
    /\ \E kind \in Heaviest(region) : \E S \in rcpq_extract_optype(kind) :
          /\ sched_op(S, region)
          /\ ready' = ready \ S
    /\ region' = region + 1
    /\ UNCHANGED <<conf, ops, in_edges, pc, ts, path, active, loc>>

\* update_moves, rcpq_update, the next step and the loop's tests.
RcpEndStep ==
    /\ pc = "step" /\ conf.name = "rcp"
    /\ region > conf.k \/ ready = {}
    /\ update_moves
    /\ ready' = ready \cup ReadyChildren
    /\ ts' = ts + 1
    /\ region' = 1
    /\ LoopTest(ts', ready' # {} /\ op_cnt < Len(ops))
    /\ UNCHANGED <<conf, ops, in_edges, when, simd, followed, path, op_cnt>>

RcpNext == RcpInit \/ RcpSimd \/ RcpEndStep
=============================================================================
