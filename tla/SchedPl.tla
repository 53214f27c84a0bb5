-------------------------------- MODULE SchedPl --------------------------------
(***************************************************************************)
(* scripts/sched.pl with -n lpfs or -n rcp, and what makes its schedules   *)
(* correct.                                                                *)
(***************************************************************************)
EXTENDS LpfsSchedule, RcpSchedule

\* The program has scheduled its function, or has given up.
Ended == pc \in {"over", "aborted"} /\ UNCHANGED vars

Next == LpfsNext \/ RcpNext \/ Ended
Spec == Init /\ [][Next]_vars
FairSpec == Spec /\ WF_vars(Next)

\* Only lpfs with two paths or more lets an operation follow its parent in the
\* parent's own step.
Strict == conf.name = "rcp" \/ conf.l <= 1

-----------------------------------------------------------------------------
(* Safety.                                                                 *)

\* What sched_check() (1403) tests of a schedule, asap, alap and acap ones:
\* every operation is in a later step than its parents.  The lpfs command never
\* calls it, and with two paths or more its schedules do not pass: op_ready
\* (202) only asks whether the parents have a step, which may be the present
\* one.
InLaterSteps ==
    \A o \in Placed : \A p \in in_edges[o] : when[p] # -1 /\ when[p] < when[o]

\* Schedules of rcp, and of lpfs with at most one path, would pass
\* sched_check().
ParentsFirst == Strict => InLaterSteps

\* Nothing is lost between the ready list, the paths and the schedule: at
\* the head of a step, an operation whose parents are placed is on exactly
\* one of them, and the count that ends the loop is right.
NoOpForgotten ==
    /\ op_cnt = Cardinality(Placed)
    /\ pc = "step" /\ region = 1 =>
         \A o \in Ids \ Placed :
            LET onpaths == {i \in Regions : o \in path[i]} IN
                \/ o \in ready /\ onpaths = {}
                \/ o \notin ready /\ Cardinality(onpaths) = 1
                \/ ~op_ready(o)
    /\ pc = "over" => Placed = Ids
    /\ pc # "aborted"

\* A region does one kind of operation in a step.
OneKindPerRegion ==
    \A o, p \in Placed :
        when[o] = when[p] /\ simd[o] = simd[p] => ops[o].op = ops[p].op

\* After the moves of a step every region that it used holds the operands
\* of its operations and no other qubit; no qubit is in two places.
RegionsHoldOperands ==
    (Strict /\ ts > 0 /\ region = 1) =>
        \A r \in Regions :
            LET done == {o \in Ids : when[o] = ts - 1 /\ simd[o] = r} IN
                done # {} =>
                    {q \in Qubits : loc[q] = r} = UNION {args(o) : o \in done}

-----------------------------------------------------------------------------
(* Refinement: both schedulers are list schedulers, of the kind that lets  *)
(* jobs of a step depend on one another when ~Strict.                      *)

Problem ==
    [jobs |-> Ids,
     deps |-> {e \in Ids \X Ids : e[1] \in in_edges[e[2]]},
     strict |-> Strict]

List == INSTANCE ListSchedule WITH
            problem <- Problem, step <- ts, placed <- when

IsListSchedule == List!LSpec

-----------------------------------------------------------------------------
(* Liveness.                                                               *)

\* Every function gets its schedule.
EveryOpScheduled == <>(pc = "over")

=============================================================================
