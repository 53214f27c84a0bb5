----------------------------- MODULE CoarseSchedule -----------------------------
(***************************************************************************)
(* llvm/lib/Transforms/Scaffold/GenSIMDScheduleCG.cpp: how long the whole  *)
(* program takes on a machine with RES_CONSTRAINT SIMD regions.  Functions *)
(* are scheduled callees first.  One with gates only is a leaf: its gates  *)
(* are put into regions step by step, unless comm_aware_schedule.txt has   *)
(* the result of sched.pl for it.  In another one a call is a box as wide  *)
(* and as long as the schedule of its callee; boxes side by side make a    *)
(* window (currSched), and when the next one does not fit a new window     *)
(* begins where the last one ends.                                         *)
(*                                                                         *)
(* An operand is an element of a register or, with index -1, all of it.    *)
(* Counts of moves and T gates are left out.                               *)
(***************************************************************************)
EXTENDS Integers, Sequences, FiniteSets, FiniteSetsExt

CONSTANTS
    Programs,           \* functions, callees first, and what the file has
    RES_CONSTRAINT,     \* regions
    DATA_CONSTRAINT,    \* qubits of a region
    MOVE_WEIGHT         \* steps to move a gate's operands

Gates == {"CNOT", "H", "T", "MeasZ"}
Operand == [name : STRING, index : Nat \cup {-1}]
CallInst == [kind : Gates \cup {"call"}, callee : Nat, args : SUBSET Operand]
Info == [width : 0 .. RES_CONSTRAINT, length : Nat]

\* Only earlier functions are called; an element is measured.
WellFormed(p) ==
    /\ p.functions \in Seq(Seq(CallInst)) /\ p.functions # <<>>
    /\ \A f \in DOMAIN p.functions :
        \A i \in DOMAIN p.functions[f] :
            LET call == p.functions[f][i] IN
                /\ call.args # {}
                /\ call.kind = "call" => call.callee \in 1 .. f - 1
                /\ call.kind = "MeasZ" =>
                     \E a \in call.args : call.args = {a} /\ a.index # -1
    /\ \A f \in DOMAIN p.file : p.file[f] \in Info

ASSUME ConstraintsAssumption ==
    /\ RES_CONSTRAINT \in Nat \ {0} /\ DATA_CONSTRAINT \in Nat \ {0}
    /\ MOVE_WEIGHT \in Nat
ASSUME ProgramsAssumption == \A p \in Programs : WellFormed(p)

VARIABLES
    program,
    fn,             \* the function being scheduled
    phase,          \* its calls get their ranks, then their steps
    rank,           \* priority of each call, 0 for none yet (priorityVector)
    start,          \* first step of each call, -1 for none yet
    funcQbits,      \* of each register: step from which its elements are free
    isFirstMeas,
    total,          \* totalSched: the windows that are closed
    curr,           \* currSched: the open one
    steps,          \* currArrParGates: regions of each step of a leaf
    funcInfo        \* width and length of the functions scheduled

vars == <<program, fn, phase, rank, start, funcQbits, isFirstMeas, total, curr,
          steps, funcInfo>>

Body(f) == program.functions[f]
Calls == DOMAIN Body(fn)
args(i) == Body(fn)[i].args
kind(i) == Body(fn)[i].kind
callee(i) == Body(fn)[i].callee

hasPrimitivesOnly(f) == \A i \in DOMAIN Body(f) : Body(f)[i].kind \in Gates

Larger(a, b) == IF a > b THEN a ELSE b

-----------------------------------------------------------------------------
(* funcQbits.  Entry -1 of a register stands for the elements without an   *)
(* entry of their own, entry -2 is the largest.                            *)

Fresh(f) ==
    [r \in {a.name : a \in UNION {Body(f)[i].args : i \in DOMAIN Body(f)}} |->
        [e \in {-1, -2} |-> 0]]

\* Faulty variant: an operation on the register waits for its entry -1 only.
last_step_unmaxed(a) ==
    LET entries == funcQbits[a.name] IN
        IF a.index \in DOMAIN entries THEN entries[a.index] ELSE entries[-1]

last_step(a) ==
    LET entries == funcQbits[a.name] IN
        IF a.index = -1 THEN entries[-2]
        ELSE IF a.index \in DOMAIN entries THEN entries[a.index]
        ELSE entries[-1]

max_ts_of_all_args(i) == Max({0} \cup {last_step(a) : a \in args(i)})

\* Call i keeps its operands until step t.
updated(i, t) ==
    [r \in DOMAIN funcQbits |->
        LET I == {a.index : a \in {b \in args(i) : b.name = r}} IN
            [e \in DOMAIN funcQbits[r] \cup I |->
                IF e \in I \/ -1 \in I THEN t
                ELSE IF e = -2 /\ I # {} THEN Larger(funcQbits[r][-2], t)
                ELSE funcQbits[r][e]]]

memset_funcQbits(t) ==
    [r \in DOMAIN funcQbits |-> [e \in DOMAIN funcQbits[r] |-> t]]

\* After the first measurement nothing starts before its last step.
measured(a, t) ==
    [r \in DOMAIN funcQbits |-> [e \in DOMAIN funcQbits[r] |->
        IF r = a.name /\ e \in {a.index, -2} THEN t ELSE t - 1]]

-----------------------------------------------------------------------------
Idle == [width |-> 0, length |-> 0]

\* The state of the pass at the beginning of function f.
BeginFunction(f) ==
    /\ fn' = f
    /\ phase' = "rank"
    /\ rank' = [i \in DOMAIN Body(f) |-> 0]
    /\ start' = [i \in DOMAIN Body(f) |-> -1]
    /\ funcQbits' = Fresh(f)
    /\ isFirstMeas' = TRUE
    /\ total' = Idle /\ curr' = Idle
    /\ steps' = <<>>

Init ==
    /\ program \in Programs
    /\ fn = 1
    /\ phase = "rank"
    /\ rank = [i \in Calls |-> 0]
    /\ start = [i \in Calls |-> -1]
    /\ funcQbits = Fresh(1)
    /\ isFirstMeas = TRUE
    /\ total = Idle /\ curr = Idle
    /\ steps = <<>>
    /\ funcInfo = <<>>

-----------------------------------------------------------------------------
(* Ranks: the longest chain of calls from this one to the end.             *)

Unranked == {i \in Calls : rank[i] = 0}

\* calc_critical_time_unbounded, from the last call to the first.
RankCall ==
    /\ phase = "rank" /\ Unranked # {}
    /\ LET i == Max(Unranked)
           t == max_ts_of_all_args(i) + 1 IN
        /\ rank' = [rank EXCEPT ![i] = t]
        /\ funcQbits' = updated(i, t)
    /\ UNCHANGED <<program, fn, phase, start, isFirstMeas, total, curr, steps, funcInfo>>

StartPlacing ==
    /\ phase = "rank" /\ Unranked = {}
    /\ fn \notin DOMAIN program.file
    /\ phase' = "place"
    /\ funcQbits' = memset_funcQbits(0)
    /\ UNCHANGED <<program, fn, rank, start, isFirstMeas, total, curr, steps, funcInfo>>

\* The next call: std::sort leaves those of equal rank in any order.
Turn(i) == start[i] = -1 /\ \A j \in Calls : start[j] = -1 => rank[j] <= rank[i]

\* The steps from first until t are those of call i.
Place(i, first, t) ==
    /\ start' = [start EXCEPT ![i] = first]
    /\ IF kind(i) = "MeasZ" /\ isFirstMeas
       THEN \E a \in args(i) : funcQbits' = measured(a, t)
       ELSE funcQbits' = updated(i, t)
    /\ isFirstMeas' = (isFirstMeas /\ kind(i) # "MeasZ")

\* Where the search for a place begins.
ts(i) ==
    IF kind(i) = "MeasZ" /\ isFirstMeas
    THEN Max({0} \cup {funcQbits[r][-2] : r \in DOMAIN funcQbits})
    ELSE max_ts_of_all_args(i)

Placing(i) == phase = "place" /\ Turn(i)

-----------------------------------------------------------------------------
(* Coarse-grained: get_ts_to_schedule.                                     *)

Win(i) == IF kind(i) \in Gates THEN 1 ELSE funcInfo[callee(i)].width
Lin(i) == IF kind(i) = "T" THEN 5
          ELSE IF kind(i) \in Gates THEN 1 + MOVE_WEIGHT
          ELSE funcInfo[callee(i)].length

\* Faulty variant: the window ends with the call placed last.
window_length_last(i, first) == first - total.length + Lin(i)

\* Length of the window with call i in it.
window_length(i, first) == Larger(first - total.length + Lin(i), curr.length)

\* Faulty variant: the widest call counts, not the sum.
Parallel_widest(i) ==
    /\ ts(i) < total.length + curr.length
    /\ Win(i) <= RES_CONSTRAINT

\* It starts before the window ends, and there are regions for it.
Parallel(i) ==
    /\ ts(i) < total.length + curr.length
    /\ Win(i) + curr.width <= RES_CONSTRAINT

PlaceInWindow(i) ==
    /\ Placing(i) /\ ~hasPrimitivesOnly(fn)
    /\ Parallel(i)
    /\ LET first == Larger(ts(i), total.length) IN
        /\ curr' = [width |-> curr.width + Win(i),
                    length |-> window_length(i, first)]
        /\ Place(i, first, total.length + curr'.length)
    /\ UNCHANGED <<program, fn, phase, rank, total, steps, funcInfo>>

PlaceInNewWindow(i) ==
    /\ Placing(i) /\ ~hasPrimitivesOnly(fn)
    /\ ~Parallel(i)
    /\ total' = [width |-> Larger(total.width, curr.width),
                 length |-> total.length + curr.length]
    /\ curr' = [width |-> Win(i), length |-> Lin(i)]
    /\ Place(i, total'.length, total'.length + Lin(i))
    /\ UNCHANGED <<program, fn, phase, rank, steps, funcInfo>>

-----------------------------------------------------------------------------
(* Fine-grained: get_ts_to_schedule_leaf.                                  *)

HasRoom(region, k) ==
    /\ region.kind = k
    /\ (IF k = "CNOT" THEN 2 ELSE 1) * region.gates < DATA_CONSTRAINT

\* Regions of a step are taken in their order.
HasPlace(step, k) ==
    Len(step) < RES_CONSTRAINT \/ \E j \in DOMAIN step : HasRoom(step[j], k)

WithGate(step, k) ==
    LET shared == {j \in DOMAIN step : HasRoom(step[j], k)} IN
        IF shared # {} THEN [step EXCEPT ![Min(shared)].gates = @ + 1]
        ELSE Append(step, [kind |-> k, gates |-> 1])

Suitable(i) == {n \in DOMAIN steps : ts(i) < n /\ HasPlace(steps[n], kind(i))}

\* Step n of steps is the one with number n - 1.
PlaceGate(i) ==
    /\ Placing(i) /\ hasPrimitivesOnly(fn)
    /\ LET n == IF Suitable(i) # {} THEN Min(Suitable(i)) ELSE Len(steps) + 1 IN
        /\ steps' = IF n \in DOMAIN steps
                    THEN [steps EXCEPT ![n] = WithGate(@, kind(i))]
                    ELSE Append(steps, WithGate(<<>>, kind(i)))
        /\ curr' = [width |-> Larger(curr.width, Len(steps'[n])), length |-> Len(steps')]
        /\ Place(i, n - 1, n)
    /\ UNCHANGED <<program, fn, phase, rank, total, funcInfo>>

-----------------------------------------------------------------------------
\* The result for this function, and the next one.
Finish(info) ==
    /\ funcInfo' = Append(funcInfo, info)
    /\ IF fn < Len(program.functions) THEN BeginFunction(fn + 1)
       ELSE /\ phase' = "over"
            /\ UNCHANGED <<fn, rank, start, funcQbits, isFirstMeas, total, curr, steps>>
    /\ UNCHANGED program

\* check_if_pre_schedule.
TakeFromFile ==
    /\ phase = "rank" /\ Unranked = {}
    /\ fn \in DOMAIN program.file
    /\ Finish(program.file[fn])

AllPlaced == \A i \in Calls : start[i] # -1

save_blackbox_info ==
    /\ phase = "place" /\ AllPlaced
    /\ Finish([width |-> Larger(total.width, curr.width),
               length |-> total.length + curr.length])

Ended == phase = "over" /\ UNCHANGED vars

Next ==
    \/ RankCall \/ StartPlacing
    \/ \E i \in Calls : PlaceInWindow(i) \/ PlaceInNewWindow(i) \/ PlaceGate(i)
    \/ TakeFromFile \/ save_blackbox_info
    \/ Ended

Spec == Init /\ [][Next]_vars

-----------------------------------------------------------------------------
(* Properties.                                                             *)

Shares(i, j) ==
    \E a \in args(i), b \in args(j) :
        a.name = b.name /\ (a.index = b.index \/ a.index = -1 \/ b.index = -1)

Duration(i) == IF hasPrimitivesOnly(fn) THEN 1 ELSE Lin(i)

PlacedCalls == {i \in Calls : start[i] # -1}
Active(t) == {i \in PlacedCalls : start[i] <= t /\ t < start[i] + Duration(i)}

\* Calls with an element in common stay in the order of the program and never
\* overlap, although they are placed by rank, windows are shared, a register
\* may be used as a whole and by its elements, and the first measurement
\* overwrites what is known of all of them.
CallsApart ==
    \A i, j \in PlacedCalls :
        (i < j /\ Shares(i, j)) => start[i] + Duration(i) <= start[j]

\* No step of the machine uses more regions than it has.  In a leaf a region
\* has no more qubits than it holds (one more if that is an odd number, which
\* the test for room lets pass).
WidthKept ==
    /\ \A i \in PlacedCalls :
          ~hasPrimitivesOnly(fn) =>
              MapThenSumSet(Win, Active(start[i])) <= RES_CONSTRAINT
    /\ \A n \in DOMAIN steps :
          /\ Len(steps[n]) <= RES_CONSTRAINT
          /\ \A j \in DOMAIN steps[n] :
                IF steps[n][j].kind = "CNOT"
                THEN 2 * steps[n][j].gates <= DATA_CONSTRAINT + (DATA_CONSTRAINT % 2)
                ELSE steps[n][j].gates <= DATA_CONSTRAINT

\* The longest chain of calls from i on that share elements.
Chain ==
    LET chain[i \in Calls] ==
            Duration(i) + Max({0} \cup {chain[j] : j \in {k \in Calls : i < k /\ Shares(i, k)}})
    IN  chain

\* The length a function gets, by which its callers plan, is the end of its
\* last call: no less than the longest chain of dependent calls and no more
\* than all of them one after the other.
LengthIsRight ==
    (phase = "place" /\ AllPlaced) =>
        LET length == total.length + curr.length IN
            /\ length = Max({0} \cup {start[i] + Duration(i) : i \in Calls})
            /\ \A i \in Calls : Chain[i] <= length
            /\ length <= MapThenSumSet(Duration, Calls)
=============================================================================
