----------------------------- MODULE SchedPl_proofs -----------------------------
(***************************************************************************)
(* Proofs about SchedPl, for every function and every command line: the    *)
(* schedules respect the dependencies, no operation is forgotten, a region *)
(* does one kind of operation at a time and holds its operands, the loops  *)
(* end by themselves, and both schedulers are list schedulers.             *)
(***************************************************************************)
EXTENDS SchedPl, FiniteSetTheorems, TLAPS

-----------------------------------------------------------------------------
(* The inductive invariant.                                                *)

\* Before the first step nothing is placed, and the paths found so far are
\* those of the regions before this one.
Starting ==
    pc = "start" =>
        /\ when = [o \in Ids |-> -1] /\ simd = [o \in Ids |-> -1]
        /\ ts = 0 /\ op_cnt = 0 /\ ready = {}
        /\ \A i \in Regions : region <= i => path[i] = {}

\* Edges lead from earlier operations to later ones.
Deps == \A o \in Ids : \A p \in in_edges[o] : p < o

\* Paths are apart from each other, from the ready list and from what is
\* placed; followed knows them.
Paths ==
    /\ \A i, j \in Regions : i # j => path[i] \cap path[j] = {}
    /\ \A i \in Regions : path[i] \cap ready = {} /\ path[i] \cap Placed = {}
    /\ \A i \in Regions : conf.name = "rcp" \/ conf.l < i => path[i] = {}
    /\ conf.name = "lpfs" =>
         \A o \in Ids : o \in followed <=> o \in Placed \/ \E i \in Regions : o \in path[i]

\* All parents of o are placed in earlier steps.
ReadyBefore(o) == \A p \in in_edges[o] : when[p] # -1 /\ when[p] < ts

ReadyList == \A o \in ready : o \notin Placed /\ ReadyBefore(o)

Times ==
    \A o \in Placed : /\ when[o] <= ts /\ simd[o] \in Regions
                      /\ when[o] = ts => simd[o] < region

\* An operation is placed after its parents: in a later step, except that lpfs
\* may place it on a later path of the same step.
ParentsPlaced ==
    \A o \in Placed : \A p \in in_edges[o] :
        /\ when[p] # -1 /\ when[p] <= when[o]
        /\ when[p] = when[o] => ~Strict /\ simd[p] < simd[o]

\* Every step that is over has placed an operation.
Counted ==
    /\ op_cnt = Cardinality(Placed)
    /\ ts <= op_cnt
    /\ ThisStep # {} => ts < op_cnt

NoneStranded ==
    pc # "start" =>
        \A o \in Ids \ Placed :
            ReadyBefore(o) => o \in ready \/ \E i \in Regions : o \in path[i]

\* While nothing is placed in a step, all paths that had their turn stall.
Progress ==
    pc = "step" /\ ThisStep = {} =>
        /\ Placed # Ids
        /\ conf.name = "rcp" => region = 1 /\ ready # {}
        /\ conf.name = "lpfs" =>
             /\ \A i \in Regions :
                    i < region /\ path[i] # {} => ~op_ready(First(path[i]))
             /\ conf.l + 1 < region => ready = {}

Outcome == pc # "aborted" /\ (pc = "over" => Placed = Ids)

IInv ==
    /\ TypeOK /\ Starting /\ Deps /\ Paths /\ ReadyList
    /\ Times /\ ParentsPlaced /\ Counted /\ NoneStranded /\ Progress
    /\ OneKindPerRegion /\ Outcome

-----------------------------------------------------------------------------
(* Data.                                                                   *)

\* What the assumption says of the command line at hand.
LEMMA SettingFields ==
    ASSUME conf \in Settings
    PROVE  /\ conf.name \in {"lpfs", "rcp"}
           /\ conf.k \in Nat \ {0} /\ conf.l \in Nat /\ conf.d \in Nat \ {0}
           /\ conf.l < conf.k
           /\ conf.opp \in BOOLEAN
           /\ Regions = 1 .. conf.k
BY SettingsAssumption DEF Regions

\* The operations are numbered from 1.
LEMMA IdsFinite ==
    ASSUME ops \in Functions
    PROVE  /\ Len(ops) \in Nat
           /\ Ids = 1 .. Len(ops)
           /\ IsFiniteSet(Ids) /\ Cardinality(Ids) = Len(ops)
<1>1. ops \in Seq(Operations)
    BY FunctionsAssumption
<1>2. Len(ops) \in Nat /\ Ids = 1 .. Len(ops)
    BY <1>1 DEF Ids
<1>3. IsFiniteSet(1 .. Len(ops)) /\ Cardinality(1 .. Len(ops)) = Len(ops)
    BY <1>2, FS_Interval
<1> QED
    BY <1>2, <1>3

\* A set of natural numbers has a least one.
LEMMA LeastExists ==
    ASSUME NEW S \in SUBSET Nat, S # {}
    PROVE  \E m \in S : \A p \in S : m <= p
<1>1. PICK m \in S : \A p \in S : ~(<<p, m>> \in OpToRel(<, Nat))
    BY NatLessThanWellFounded, WFMin
<1>2. \A p, q \in Nat : p < q => <<p, q>> \in OpToRel(<, Nat)
    BY Zenon DEF OpToRel
<1>3. \A p \in S : ~(p < m)
    BY <1>1, <1>2
<1> QED
    BY <1>3

\* So First is what its name says.
LEMMA FirstIsLeast ==
    ASSUME NEW S \in SUBSET Nat, S # {}
    PROVE  First(S) \in S /\ \A p \in S : First(S) <= p
BY LeastExists DEF First

\* A set of regions has a last one.
LEMMA LastExists ==
    ASSUME NEW k \in Nat, NEW S \in SUBSET (1 .. k), S # {}
    PROVE  \E m \in S : \A p \in S : p <= m
<1> DEFINE below == {k - p : p \in S}
<1>1. below \in SUBSET Nat /\ below # {}
    OBVIOUS
<1>2. PICK b \in below : \A q \in below : b <= q
    BY <1>1, LeastExists
<1>3. PICK m \in S : b = k - m
    BY <1>2
<1>4. \A p \in S : k - m <= k - p
    BY <1>2, <1>3
<1> QED
    BY <1>4

-----------------------------------------------------------------------------
(* The first state.                                                        *)

LEMMA InitIInv == Init => IInv
<1> SUFFICES ASSUME Init PROVE IInv
    OBVIOUS
<1> USE DEF Init
<1>1. /\ conf.name \in {"lpfs", "rcp"} /\ conf.k \in Nat \ {0} /\ conf.l \in Nat
      /\ conf.l < conf.k /\ Regions = 1 .. conf.k
    BY SettingFields
<1>2. Ids = 1 .. Len(ops) /\ Len(ops) \in Nat
    BY IdsFinite
<1>3. in_edges \in [Ids -> SUBSET Ids]
    BY DEF Edges
<1>4. Placed = {} /\ ThisStep = {}
    BY DEF Placed, ThisStep
<1>5. TypeOK
    BY <1>1, <1>3 DEF TypeOK
<1>6. Starting
    BY <1>1 DEF Starting
<1>7. Deps
    BY <1>2 DEF Deps, Edges, EdgeBy
<1>8. Paths
    BY <1>1, <1>4 DEF Paths
<1>9. ReadyList /\ Times /\ ParentsPlaced /\ OneKindPerRegion
    BY <1>4 DEF ReadyList, Times, ParentsPlaced, OneKindPerRegion
<1>10. Counted
    BY <1>4, FS_EmptySet DEF Counted
<1>11. NoneStranded /\ Progress /\ Outcome
    BY DEF NoneStranded, Progress, Outcome
<1> QED
    BY <1>5, <1>6, <1>7, <1>8, <1>9, <1>10, <1>11 DEF IInv

-----------------------------------------------------------------------------
(* Placing operations.                                                     *)

\* What sched_op does when all of S are ready, which they always are.
LEMMA Placement ==
    ASSUME IInv, region \in Regions,
           NEW S \in SUBSET (Ids \ Placed), S # {},
           \A o \in S : \A p \in in_edges[o] :
               when[p] # -1 /\ (when[p] = ts => ~Strict),
           \A o, p \in S : ops[o].op = ops[p].op,
           sched_op(S, region), region' = region + 1,
           UNCHANGED <<conf, ops, in_edges, pc, ts>>
    PROVE  /\ when' = [o \in Ids |-> IF o \in S THEN ts ELSE when[o]]
           /\ simd' = [o \in Ids |-> IF o \in S THEN region ELSE simd[o]]
           /\ followed' = IF conf.name = "lpfs" THEN followed \cup S ELSE followed
           /\ when' \in [Ids -> Nat \cup {-1}] /\ simd' \in [Ids -> Regions \cup {-1}]
           /\ op_cnt' \in Nat /\ region' \in 1 .. conf.k + 1
           /\ Placed' = Placed \cup S
           /\ ThisStep' # {}
           /\ Times' /\ ParentsPlaced' /\ Counted' /\ OneKindPerRegion'
<1> USE DEF IInv
<1>1. /\ conf.k \in Nat \ {0} /\ Regions = 1 .. conf.k /\ Regions' = Regions
    BY SettingFields DEF TypeOK, Regions
<1>2. /\ Ids = 1 .. Len(ops) /\ Len(ops) \in Nat /\ IsFiniteSet(Ids)
      /\ Ids' = Ids /\ Strict' = Strict
    BY IdsFinite DEF TypeOK, Ids, Strict
<1>3. /\ when \in [Ids -> Nat \cup {-1}] /\ simd \in [Ids -> Regions \cup {-1}]
      /\ in_edges \in [Ids -> SUBSET Ids] /\ ts \in Nat
      /\ region \in 1 .. conf.k + 1
    BY DEF TypeOK
<1>4. {o \in S : op_ready(o)} = S
    BY DEF op_ready
<1>5. /\ when' = [o \in Ids |-> IF o \in S THEN ts ELSE when[o]]
      /\ simd' = [o \in Ids |-> IF o \in S THEN region ELSE simd[o]]
      /\ followed' = IF conf.name = "lpfs" THEN followed \cup S ELSE followed
      /\ op_cnt' = op_cnt + Cardinality(S)
    BY <1>4 DEF sched_op
<1>6. /\ when' \in [Ids -> Nat \cup {-1}] /\ simd' \in [Ids -> Regions \cup {-1}]
    BY <1>3, <1>5
<1>7. Placed' = Placed \cup S
  <2>1. \A o \in Ids : when'[o] # -1 <=> when[o] # -1 \/ o \in S
      BY <1>3, <1>5
  <2>2. Placed' = {o \in Ids : when'[o] # -1}
      BY <1>2 DEF Placed
  <2> QED
      BY <2>1, <2>2 DEF Placed
<1>8. ThisStep' = ThisStep \cup S
    BY <1>2, <1>3, <1>5 DEF ThisStep, Placed
<1>9. Times'
  <2> SUFFICES ASSUME NEW o \in Placed'
               PROVE  /\ when'[o] <= ts' /\ simd'[o] \in Regions'
                      /\ when'[o] = ts' => simd'[o] < region'
      BY DEF Times
  <2>1. CASE o \in S
      BY <1>1, <1>3, <1>5, <2>1
  <2>2. CASE o \notin S
    <3>1. o \in Placed /\ o \in Ids
        BY <1>7, <2>2 DEF Placed
    <3>2. when'[o] = when[o] /\ simd'[o] = simd[o]
        BY <1>5, <2>2, <3>1
    <3> QED
        BY <1>1, <1>3, <3>1, <3>2 DEF Times
  <2> QED
      BY <2>1, <2>2
<1>10. ParentsPlaced'
  <2> SUFFICES ASSUME NEW o \in Placed', NEW p \in in_edges'[o]
               PROVE  /\ when'[p] # -1 /\ when'[p] <= when'[o]
                      /\ when'[p] = when'[o] => ~Strict' /\ simd'[p] < simd'[o]
      BY DEF ParentsPlaced
  <2>1. o \in Ids /\ p \in Ids /\ p \in in_edges[o]
      BY <1>3, <1>7 DEF Placed
  <2>2. CASE o \in S
    <3>1. when[p] # -1 /\ p \notin S /\ p \in Placed
        BY <2>1, <2>2 DEF Placed
    <3>2. when[p] <= ts /\ (when[p] = ts => simd[p] < region)
        BY <3>1 DEF Times
    <3> QED
        BY <1>2, <1>3, <1>5, <2>1, <2>2, <3>1, <3>2
  <2>3. CASE o \notin S
    <3>1. o \in Placed
        BY <1>7, <2>3
    <3>2. when[p] # -1 /\ p \notin S
        BY <2>1, <3>1 DEF ParentsPlaced, Placed
    <3> QED
        BY <1>2, <1>5, <2>1, <2>3, <3>1, <3>2 DEF ParentsPlaced
  <2> QED
      BY <2>2, <2>3
<1>11. Counted'
  <2>1. IsFiniteSet(S) /\ IsFiniteSet(Placed) /\ S \cap Placed = {}
      BY <1>2, FS_Subset DEF Placed
  <2>2. Cardinality(Placed') = Cardinality(Placed) + Cardinality(S)
    <3>1. Cardinality(Placed) \in Nat /\ Cardinality(S) \in Nat
        BY <2>1, FS_CardinalityType
    <3>2. Cardinality(Placed \cup S)
            = Cardinality(Placed) + Cardinality(S) - Cardinality(Placed \cap S)
        BY <2>1, FS_Union
    <3>3. Placed \cap S = {}
        BY <2>1
    <3>4. Cardinality(Placed \cap S) = 0
        BY <3>3, FS_EmptySet
    <3>5. Cardinality(Placed') = Cardinality(Placed \cup S)
        BY <1>7
    <3> QED
        BY <3>1, <3>2, <3>4, <3>5
  <2>3. Cardinality(S) \in Nat /\ Cardinality(S) # 0
      BY <2>1, FS_EmptySet, FS_CardinalityType
  <2>4. op_cnt \in Nat
      BY DEF TypeOK
  <2> QED
      BY <1>3, <1>5, <2>2, <2>3, <2>4 DEF Counted
<1>12. op_cnt' \in Nat
  <2>1. IsFiniteSet(S)
      BY <1>2, FS_Subset
  <2> QED
      BY <1>5, <2>1, FS_CardinalityType DEF TypeOK
<1>13. OneKindPerRegion'
  <2> SUFFICES ASSUME NEW o \in Placed', NEW p \in Placed',
                      when'[o] = when'[p], simd'[o] = simd'[p]
               PROVE  ops[o].op = ops[p].op
      BY DEF OneKindPerRegion
  <2>1. o \in Ids /\ p \in Ids
      BY <1>7 DEF Placed
  <2>2. CASE o \in S /\ p \in S
      BY <2>2
  <2>3. \A q \in Placed : when[q] = ts => simd[q] # region
      BY <1>1, <1>3 DEF Times
  <2>4. ~(o \in S /\ p \notin S) /\ ~(p \in S /\ o \notin S)
      BY <1>5, <1>7, <2>1, <2>3
  <2>5. CASE o \notin S /\ p \notin S
      BY <1>5, <1>7, <2>1, <2>5 DEF OneKindPerRegion
  <2> QED
      BY <2>2, <2>4, <2>5
<1> QED
    BY <1>1, <1>3, <1>5, <1>6, <1>7, <1>8, <1>9, <1>10, <1>11, <1>12, <1>13

\* The step of the list scheduler behind it.
JobsPlaced == \E S \in SUBSET Ids : List!Place(S)

LEMMA PlacementPlacesJobs ==
    ASSUME IInv,
           NEW S \in SUBSET (Ids \ Placed),
           \A o \in S : \A p \in in_edges[o] :
               when[p] # -1 /\ (when[p] = ts => ~Strict),
           when' = [o \in Ids |-> IF o \in S THEN ts ELSE when[o]],
           UNCHANGED <<conf, ops, in_edges, ts>>
    PROVE  JobsPlaced
<1>1. /\ when \in [Ids -> Nat \cup {-1}] /\ in_edges \in [Ids -> SUBSET Ids]
      /\ ts \in Nat /\ Times
    BY DEF IInv, TypeOK
<1>2. Problem.jobs = Ids /\ Problem.strict = Strict
    BY DEF Problem
<1>3. ASSUME NEW j \in S PROVE List!MayStart(j)
  <2>1. j \in Ids /\ when[j] = -1
      BY DEF Placed
  <2>2. ASSUME NEW i \in List!Before(j)
        PROVE  when[i] # -1 /\ (Problem.strict => when[i] < ts)
    <3>1. i \in Ids /\ i \in in_edges[j]
        BY <1>1, <2>1, <2>2 DEF List!Before, Problem
    <3>2. when[i] # -1 /\ when[i] \in Nat \cup {-1}
        BY <1>1, <3>1
    <3>3. when[i] <= ts
        BY <1>1, <3>1, <3>2 DEF Times, Placed
    <3>4. when[i] = ts => ~Strict
        BY <3>1
    <3> QED
        BY <1>1, <1>2, <3>2, <3>3, <3>4
  <2> QED
      BY <2>1, <2>2 DEF List!MayStart
<1>4. Problem' = Problem
    BY DEF Problem, Ids, Strict
<1>5. List!Place(S)
    BY <1>2, <1>3, <1>4 DEF List!Place
<1> QED
    BY <1>5 DEF JobsPlaced

\* A step that places S, all of it ready or on paths, keeps the invariant
\* and is a step of the list scheduler.
LEMMA PlacementKeepsIInv ==
    ASSUME IInv, pc = "step", region \in Regions,
           NEW S \in SUBSET (Ids \ Placed), S # {},
           \A o \in S : \A p \in in_edges[o] :
               when[p] # -1 /\ (when[p] = ts => ~Strict),
           \A o, p \in S : ops[o].op = ops[p].op,
           sched_op(S, region), region' = region + 1,
           UNCHANGED <<conf, ops, in_edges, pc, ts>>,
           ready' = ready \ S,
           path' \in [Regions -> SUBSET Ids],
           \A i \in Regions : path'[i] = path[i] \ S,
           UNCHANGED <<active, loc>>
    PROVE  IInv' /\ JobsPlaced
<1>1. /\ when' = [o \in Ids |-> IF o \in S THEN ts ELSE when[o]]
      /\ followed' = IF conf.name = "lpfs" THEN followed \cup S ELSE followed
      /\ when' \in [Ids -> Nat \cup {-1}] /\ simd' \in [Ids -> Regions \cup {-1}]
      /\ op_cnt' \in Nat /\ region' \in 1 .. conf.k + 1
      /\ Placed' = Placed \cup S
      /\ ThisStep' # {}
      /\ Times' /\ ParentsPlaced' /\ Counted' /\ OneKindPerRegion'
    BY Placement
<1>2. TypeOK /\ Deps /\ Paths /\ ReadyList /\ NoneStranded
    BY DEF IInv
<1>3. Ids' = Ids /\ Regions' = Regions
    BY DEF Ids, Regions
<1>4. when \in [Ids -> Nat \cup {-1}] /\ in_edges \in [Ids -> SUBSET Ids] /\ ts \in Nat
    BY <1>2 DEF TypeOK
<1>5. TypeOK'
    BY <1>1, <1>2, <1>3 DEF TypeOK
<1>6. Starting'
    BY DEF Starting
<1>7. Deps'
    BY <1>2, <1>3 DEF Deps
<1>8. Paths'
    BY <1>1, <1>2, <1>3 DEF Paths, TypeOK
<1>9. \A o \in Ids : ReadyBefore(o)' => ReadyBefore(o)
    BY <1>1, <1>4 DEF ReadyBefore
<1>10. ReadyList'
  <2> SUFFICES ASSUME NEW o \in ready'
               PROVE  o \notin Placed' /\ ReadyBefore(o)'
      BY DEF ReadyList
  <2>1. o \in Ids /\ o \notin S /\ o \in ready
      BY <1>2 DEF TypeOK
  <2>2. o \notin Placed /\ ReadyBefore(o)
      BY <1>2, <2>1 DEF ReadyList
  <2>3. \A p \in in_edges[o] : p \in Ids /\ p \in Placed /\ p \notin S
      BY <1>4, <2>1, <2>2 DEF ReadyBefore, Placed
  <2> QED
      BY <1>1, <2>1, <2>2, <2>3 DEF ReadyBefore
<1>11. NoneStranded'
    BY <1>1, <1>2, <1>3, <1>9 DEF NoneStranded
<1>12. Progress'
    BY <1>1 DEF Progress
<1>13. Outcome'
    BY DEF Outcome
<1>14. JobsPlaced
    BY <1>1, PlacementPlacesJobs
<1> QED
    BY <1>1, <1>5, <1>6, <1>7, <1>8, <1>10, <1>11, <1>12, <1>13, <1>14 DEF IInv

-----------------------------------------------------------------------------
(* Ending a step.                                                          *)

\* The first operation that is not placed has all its parents placed.
LEMMA FirstUnplaced ==
    ASSUME IInv, Placed # Ids
    PROVE  \E o \in Ids \ Placed :
               /\ \A q \in Ids \ Placed : o <= q
               /\ \A p \in in_edges[o] : p \in Placed
<1>1. Ids \in SUBSET Nat /\ Placed \subseteq Ids /\ Ids \ Placed # {}
    BY IdsFinite DEF IInv, TypeOK, Placed
<1>2. PICK o \in Ids \ Placed : \A q \in Ids \ Placed : o <= q
    BY <1>1, LeastExists
<1>3. \A p \in in_edges[o] : p \in Ids /\ p < o
    BY <1>2 DEF IInv, TypeOK, Deps
<1>4. \A p \in in_edges[o] : p \in Placed
  <2> SUFFICES ASSUME NEW p \in in_edges[o], p \notin Placed PROVE FALSE
      OBVIOUS
  <2>1. o \in Nat /\ p \in Nat /\ p < o /\ o <= p
      BY <1>1, <1>2, <1>3
  <2> QED
      BY <2>1
<1> QED
    BY <1>2, <1>4

\* When as many are counted as there are, all are placed.
LEMMA AllCounted ==
    ASSUME IInv
    PROVE  /\ op_cnt <= Len(ops)
           /\ Placed = Ids \/ op_cnt < Len(ops)
<1>1. IsFiniteSet(Ids) /\ Cardinality(Ids) = Len(ops) /\ Len(ops) \in Nat
    BY IdsFinite DEF IInv, TypeOK
<1>2. Placed \in SUBSET Ids
    BY DEF Placed
<1>3. /\ Cardinality(Placed) <= Cardinality(Ids) /\ Cardinality(Placed) \in Nat
      /\ Cardinality(Ids) = Cardinality(Placed) => Placed = Ids
    BY <1>1, <1>2, FS_Subset, FS_CardinalityType
<1>4. op_cnt = Cardinality(Placed)
    BY DEF IInv, Counted
<1>5. CASE Cardinality(Ids) = Cardinality(Placed)
    BY <1>1, <1>3, <1>4, <1>5
<1>6. CASE Cardinality(Ids) # Cardinality(Placed)
  <2>1. op_cnt < Len(ops)
      BY <1>1, <1>3, <1>4, <1>6
  <2> QED
      BY <1>1, <2>1, <1>3, <1>4
<1> QED
    BY <1>5, <1>6

\* The moves stay on the machine.
LEMMA MovesType ==
    ASSUME TypeOK, update_moves, conf' = conf
    PROVE  active' \in [Qubits -> 0 .. conf.k] /\ loc' \in [Qubits -> 0 .. conf.k]
<1>1. conf.k \in Nat /\ Regions = 1 .. conf.k
    BY SettingFields DEF TypeOK
<1>2. ASSUME NEW q \in Qubits PROVE Target(q) \in 0 .. conf.k
  <2>1. CASE Needed(q) # {}
    <3>1. Needed(q) \in SUBSET (1 .. conf.k)
        BY <1>1 DEF Needed
    <3>2. \E m \in Needed(q) : \A p \in Needed(q) : p <= m
        BY <1>1, <2>1, <3>1, LastExists
    <3> QED
        BY <1>1, <2>1, <3>1, <3>2 DEF Target
  <2>2. CASE Needed(q) = {}
      BY <1>1, <2>2 DEF Target, TypeOK
  <2> QED
      BY <2>1, <2>2
<1> QED
    BY <1>2 DEF update_moves, TypeOK

\* The end of a step in which something was placed: the operations R join
\* the ready list, namely all that have become ready and are on no path.
LEMMA StepOver ==
    ASSUME IInv, pc = "step", ThisStep # {}, update_moves,
           NEW R \in SUBSET Ids, ready' = ready \cup R,
           \A c \in R : c \notin Placed /\ op_ready(c) /\ \A i \in Regions : c \notin path[i],
           \A c \in ReadyChildren : c \in Placed \/ c \in R \/ \E i \in Regions : c \in path[i],
           ts' = ts + 1, region' = 1,
           pc' \in {"step", "over", "aborted"},
           UNCHANGED <<conf, ops, in_edges, when, simd, followed, path, op_cnt>>
    PROVE  /\ TypeOK' /\ Starting' /\ Deps' /\ Paths' /\ ReadyList'
           /\ Times' /\ ParentsPlaced' /\ Counted' /\ NoneStranded'
           /\ OneKindPerRegion'
           /\ Placed' = Placed
           /\ \A o \in Ids : (\A p \in in_edges[o] : p \in Placed) => ReadyBefore(o)'
           /\ ts' <= Len(ops)
<1>1. /\ TypeOK /\ Deps /\ Paths /\ ReadyList /\ Times /\ ParentsPlaced /\ Counted
      /\ NoneStranded /\ OneKindPerRegion
    BY DEF IInv
<1>2. /\ Ids' = Ids /\ Regions' = Regions /\ Placed' = Placed /\ Strict' = Strict
      /\ conf.k \in Nat \ {0} /\ Regions = 1 .. conf.k
    BY <1>1, SettingFields DEF Ids, Regions, Placed, Strict, TypeOK
<1>3. /\ when \in [Ids -> Nat \cup {-1}] /\ in_edges \in [Ids -> SUBSET Ids]
      /\ simd \in [Ids -> Regions \cup {-1}] /\ ts \in Nat /\ op_cnt \in Nat
    BY <1>1 DEF TypeOK
<1>4. \A o \in Placed : when[o] \in Nat /\ when[o] <= ts
    BY <1>1, <1>3 DEF Times, Placed
<1>5. TypeOK'
  <2>1. active' \in [Qubits -> 0 .. conf.k] /\ loc' \in [Qubits -> 0 .. conf.k]
      BY <1>1, MovesType
  <2> QED
      BY <1>1, <1>2, <1>3, <2>1 DEF TypeOK
<1>6. Starting' /\ Deps'
    BY <1>1, <1>2 DEF Starting, Deps
<1>7. Paths'
    BY <1>1, <1>2 DEF Paths
<1>8. \A o \in Ids : (\A p \in in_edges[o] : p \in Placed) => ReadyBefore(o)'
    BY <1>3, <1>4 DEF ReadyBefore, Placed
<1>9. ReadyList'
  <2> SUFFICES ASSUME NEW o \in ready'
               PROVE  o \notin Placed' /\ ReadyBefore(o)'
      BY DEF ReadyList
  <2>1. o \in Ids /\ o \notin Placed
      BY <1>1 DEF TypeOK, ReadyList
  <2>2. \A p \in in_edges[o] : p \in Placed
      BY <1>1, <1>3, <2>1 DEF ReadyList, ReadyBefore, op_ready, Placed
  <2> QED
      BY <1>2, <1>8, <2>1, <2>2
<1>10. Times'
    BY <1>1, <1>2, <1>3, <1>4 DEF Times
<1>11. ParentsPlaced' /\ OneKindPerRegion'
    BY <1>1, <1>2 DEF ParentsPlaced, OneKindPerRegion
<1>12. Counted'
  <2>1. ThisStep' = {}
      BY <1>2, <1>3, <1>4 DEF ThisStep, Placed
  <2> QED
      BY <1>1, <1>2, <1>3, <2>1 DEF Counted
<1>13. NoneStranded'
  <2> SUFFICES ASSUME NEW o \in Ids, o \notin Placed, ReadyBefore(o)'
               PROVE  o \in ready' \/ \E i \in Regions' : o \in path'[i]
      BY <1>2 DEF NoneStranded
  <2>1. \A p \in in_edges[o] : p \in Ids /\ p \in Placed
      BY <1>3 DEF ReadyBefore, Placed
  <2>2. CASE \A p \in in_edges[o] : when[p] # ts
    <3>1. ReadyBefore(o)
        BY <1>3, <1>4, <2>1, <2>2 DEF ReadyBefore, Placed
    <3> QED
        BY <1>1, <1>2, <3>1 DEF NoneStranded
  <2>3. CASE \E p \in in_edges[o] : when[p] = ts
    <3>1. o \in ReadyChildren
        BY <2>1, <2>3 DEF ReadyChildren, ThisStep, op_ready, Placed
    <3> QED
        BY <1>2, <3>1
  <2> QED
      BY <2>2, <2>3
<1>14. ts' <= Len(ops)
  <2>1. op_cnt <= Len(ops) /\ Len(ops) \in Nat
      BY AllCounted, IdsFinite, <1>1 DEF TypeOK
  <2> QED
      BY <1>1, <1>3, <2>1 DEF Counted
<1> QED
    BY <1>2, <1>5, <1>6, <1>7, <1>8, <1>9, <1>10, <1>11, <1>12, <1>13, <1>14

-----------------------------------------------------------------------------
(* The steps of lpfs.                                                      *)

\* Actions that change neither the schedule nor what is counted.
LEMMA ScheduleUnchanged ==
    ASSUME IInv, UNCHANGED <<conf, ops, in_edges, ts, when, simd, op_cnt>>,
           region' \in Nat, region' >= region
    PROVE  /\ Ids' = Ids /\ Regions' = Regions /\ Placed' = Placed /\ ThisStep' = ThisStep
           /\ Deps' /\ ParentsPlaced' /\ Counted' /\ OneKindPerRegion' /\ Times'
<1>1. /\ Ids' = Ids /\ Regions' = Regions /\ Placed' = Placed /\ ThisStep' = ThisStep
      /\ Strict' = Strict
    BY DEF Ids, Regions, Placed, ThisStep, Strict
<1>2. Deps' /\ ParentsPlaced' /\ Counted' /\ OneKindPerRegion'
    BY <1>1 DEF IInv, Deps, ParentsPlaced, Counted, OneKindPerRegion
<1>3. Times'
  <2>1. /\ simd \in [Ids -> Regions \cup {-1}] /\ Regions = 1 .. conf.k
        /\ conf.k \in Nat /\ region \in 1 .. conf.k + 1
      BY SettingFields DEF IInv, TypeOK
  <2> QED
      BY <1>1, <2>1 DEF IInv, Times
<1> QED
    BY <1>1, <1>2, <1>3

LEMMA FindPathKeepsIInv == IInv /\ FindPath => IInv'
<1> SUFFICES ASSUME IInv, FindPath PROVE IInv'
    OBVIOUS
<1>1. /\ TypeOK /\ Starting /\ Paths /\ ReadyList /\ Progress /\ Outcome
      /\ pc = "start" /\ conf.name = "lpfs" /\ region <= conf.l
      /\ UNCHANGED <<conf, ops, in_edges, pc, ts, when, simd, ready, op_cnt, active, loc>>
    BY DEF IInv, FindPath
<1>2. /\ conf.k \in Nat \ {0} /\ conf.l \in Nat /\ conf.l < conf.k /\ Regions = 1 .. conf.k
      /\ region \in 1 .. conf.k + 1 /\ region \in Regions
    BY <1>1, SettingFields DEF TypeOK
<1>3. region' >= region /\ region' \in 1 .. conf.k + 1 /\ region' > region
    BY <1>1, <1>2 DEF FindPath
<1>4. /\ Ids' = Ids /\ Regions' = Regions /\ Placed' = Placed /\ ThisStep' = ThisStep
      /\ Deps' /\ ParentsPlaced' /\ Counted' /\ OneKindPerRegion' /\ Times'
    BY <1>1, <1>2, <1>3, ScheduleUnchanged
<1>5. Placed = {} /\ ready = {}
    BY <1>1 DEF Starting, Placed
<1>6. TypeOK' /\ Starting' /\ Paths'
  <2>1. CASE Unfollowed = {} /\ region' = conf.l + 1 /\ UNCHANGED <<path, followed>>
    <3>1. TypeOK'
        BY <1>1, <1>3, <1>4, <2>1 DEF TypeOK
    <3>2. Starting'
        BY <1>1, <1>2, <1>4, <2>1 DEF Starting, Paths
    <3>3. Paths'
        BY <1>1, <1>4, <2>1 DEF Paths
    <3> QED
        BY <3>1, <3>2, <3>3
  <2>2. ASSUME NEW P \in SUBSET Unfollowed,
               path' = [path EXCEPT ![region] = P],
               followed' = followed \cup P, region' = region + 1
        PROVE  TypeOK' /\ Starting' /\ Paths'
    <3>1. P \subseteq Ids /\ P \cap followed = {}
        BY DEF Unfollowed
    <3>2. TypeOK'
        BY <1>1, <1>2, <1>3, <1>4, <2>2, <3>1 DEF TypeOK
    <3>3. \A i \in Regions : path'[i] = IF i = region THEN P ELSE path[i]
        BY <1>1, <2>2 DEF TypeOK
    <3>4. Starting'
        BY <1>1, <1>2, <1>4, <2>2, <3>3 DEF Starting
    <3>5. \A i \in Regions : path[i] \cap P = {}
        BY <1>1, <3>1 DEF Paths, TypeOK
    <3>6. path[region] = {}
        BY <1>1, <1>2 DEF Starting
    <3>7. \A i, j \in Regions : i # j => path'[i] \cap path'[j] = {}
        BY <1>1, <3>3, <3>5 DEF Paths
    <3>8. \A i \in Regions : conf.l < i => path'[i] = {}
        BY <1>1, <1>2, <3>3 DEF Paths
    <3>9. \A o \in Ids : o \in followed' <=> \E i \in Regions : o \in path'[i]
        BY <1>1, <1>2, <1>5, <2>2, <3>3, <3>6 DEF Paths
    <3> QED
        BY <1>1, <1>4, <1>5, <3>2, <3>4, <3>7, <3>8, <3>9 DEF Paths
  <2> QED
      BY <2>1, <2>2 DEF FindPath
<1>7. ReadyList' /\ NoneStranded' /\ Progress' /\ Outcome'
    BY <1>1, <1>5 DEF ReadyList, NoneStranded, Progress, Outcome
<1> QED
    BY <1>4, <1>6, <1>7 DEF IInv

LEMMA LpfsInitKeepsIInv == IInv /\ LpfsInit => IInv'
<1> SUFFICES ASSUME IInv, LpfsInit PROVE IInv'
    OBVIOUS
<1>1. /\ TypeOK /\ Starting /\ Deps /\ Paths
      /\ pc = "start" /\ conf.name = "lpfs"
      /\ ready' = top \ followed /\ when' = [o \in Ids |-> -1]
      /\ simd' = [o \in Ids |-> -1]
      /\ loc' = [q \in Qubits |-> 0] /\ op_cnt' = 0 /\ ts' = 0 /\ region' = 1
      /\ LoopTest(0, ready' # {} \/ Ids # {})
      /\ UNCHANGED <<conf, ops, in_edges, followed, path, active>>
    BY DEF IInv, LpfsInit
<1>2. /\ conf.k \in Nat \ {0} /\ conf.l \in Nat /\ conf.l < conf.k
      /\ Regions = 1 .. conf.k /\ Regions' = Regions /\ Ids' = Ids
    BY <1>1, SettingFields DEF TypeOK, Regions, Ids
<1>3. when = [o \in Ids |-> -1] /\ Placed = {} /\ Placed' = {} /\ ThisStep' = {}
    BY <1>1, <1>2 DEF Starting, Placed, ThisStep
<1>4. Len(ops) \in Nat /\ Ids = 1 .. Len(ops)
    BY <1>1, IdsFinite DEF TypeOK
<1>5. ready' \subseteq Ids /\ pc' = IF Ids = {} THEN "over" ELSE "step"
  <2>1. ready' \subseteq Ids
      BY <1>1 DEF top
  <2>2. ~(0 > Len(ops))
      BY <1>4
  <2> QED
      BY <1>1, <2>1, <2>2 DEF LoopTest
<1>6. TypeOK'
    BY <1>1, <1>2, <1>5 DEF TypeOK
<1>7. Starting' /\ Deps'
    BY <1>1, <1>2, <1>5 DEF Starting, Deps
<1>8. Paths'
  <2>1. \A i \in Regions : \A o \in path[i] : o \in followed
      BY <1>1 DEF Paths, TypeOK
  <2> QED
      BY <1>1, <1>2, <1>3, <2>1 DEF Paths
<1>9. ReadyList'
    BY <1>1, <1>2, <1>3, <1>5 DEF ReadyList, ReadyBefore, top
<1>10. Times' /\ ParentsPlaced' /\ OneKindPerRegion'
    BY <1>3 DEF Times, ParentsPlaced, OneKindPerRegion
<1>11. Counted'
    BY <1>1, <1>3, FS_EmptySet DEF Counted
<1>12. NoneStranded'
  <2> SUFFICES ASSUME NEW o \in Ids, ReadyBefore(o)'
               PROVE  o \in ready' \/ \E i \in Regions : o \in path[i]
      BY <1>1, <1>2 DEF NoneStranded
  <2>1. in_edges[o] \subseteq Ids /\ \A p \in in_edges[o] : when'[p] = -1
      BY <1>1 DEF TypeOK
  <2>2. o \in top
      BY <1>1, <2>1 DEF ReadyBefore, top
  <2> QED
      BY <1>1, <1>3, <2>2 DEF Paths
<1>13. Progress' /\ Outcome'
    BY <1>1, <1>2, <1>3, <1>5 DEF Progress, Outcome
<1> QED
    BY <1>6, <1>7, <1>8, <1>9, <1>10, <1>11, <1>12, <1>13 DEF IInv

LEMMA PathStepKeepsIInv == IInv /\ PathStep => IInv' /\ JobsPlaced
<1> SUFFICES ASSUME IInv, PathStep PROVE IInv' /\ JobsPlaced
    OBVIOUS
<1> DEFINE head == First(path[region])
<1>1. /\ TypeOK /\ Paths /\ ReadyList /\ Times
      /\ pc = "step" /\ conf.name = "lpfs" /\ region <= conf.l
      /\ path[region] # {} /\ op_ready(head)
      /\ region' = region + 1
      /\ UNCHANGED <<conf, ops, in_edges, pc, ts, active, loc>>
    BY DEF IInv, PathStep, Placing
<1>2. /\ conf.l < conf.k /\ conf.l \in Nat /\ conf.k \in Nat /\ Regions = 1 .. conf.k
      /\ region \in Regions
    BY <1>1, SettingFields DEF TypeOK
<1>3. PICK more \in IF conf.opp THEN lpfs_extract_optype(ops[head].op) ELSE {{}} :
          /\ sched_op({head} \cup more, region)
          /\ path' = [path EXCEPT ![region] = @ \ {head}]
          /\ ready' = ready \ more
    BY DEF PathStep
<1> DEFINE S == {head} \cup more
<1>4. more \subseteq ready /\ \A o \in more : ops[o].op = ops[head].op
    BY <1>3 DEF lpfs_extract_optype
<1>5. head \in path[region] /\ head \in Ids /\ head \notin Placed /\ head \notin ready
  <2>1. path[region] \subseteq Ids
      BY <1>1, <1>2 DEF TypeOK
  <2>2. Ids \in SUBSET Nat
      BY <1>1, IdsFinite DEF TypeOK
  <2>3. head \in path[region]
      BY <1>1, <2>1, <2>2, FirstIsLeast
  <2> QED
      BY <1>1, <1>2, <2>1, <2>3 DEF Paths
<1>6. S \in SUBSET (Ids \ Placed) /\ S # {}
    BY <1>1, <1>4, <1>5 DEF ReadyList, TypeOK
<1>7. \A o \in S : \A p \in in_edges[o] : when[p] # -1 /\ (when[p] = ts => ~Strict)
  <2> SUFFICES ASSUME NEW o \in S, NEW p \in in_edges[o]
               PROVE  when[p] # -1 /\ (when[p] = ts => ~Strict)
      OBVIOUS
  <2>1. CASE o \in more
    <3>1. when[p] # -1 /\ when[p] < ts
        BY <1>1, <1>4, <2>1 DEF ReadyList, ReadyBefore
    <3>2. when[p] \in Nat \cup {-1} /\ ts \in Nat
        BY <1>1, <1>6 DEF TypeOK
    <3> QED
        BY <3>1, <3>2
  <2>2. CASE o = head
    <3>1. when[p] # -1 /\ p \in Ids
        BY <1>1, <1>5, <2>2 DEF op_ready, TypeOK
    <3>2. when[p] = ts => simd[p] \in Regions /\ simd[p] < region
        BY <1>1, <3>1 DEF Times, Placed
    <3>3. when[p] = ts => conf.l >= 2
        BY <1>1, <1>2, <3>2
    <3> QED
        BY <1>1, <1>2, <3>1, <3>3 DEF Strict
  <2> QED
      BY <2>1, <2>2
<1>8. \A o, p \in S : ops[o].op = ops[p].op
    BY <1>4
<1>9. ready' = ready \ S
    BY <1>3, <1>5
<1>10. /\ path' \in [Regions -> SUBSET Ids]
       /\ \A i \in Regions : path'[i] = path[i] \ S
  <2>1. path \in [Regions -> SUBSET Ids]
      BY <1>1 DEF TypeOK
  <2>2. \A i \in Regions : path[i] \cap more = {} /\ (i # region => head \notin path[i])
      BY <1>1, <1>2, <1>4, <1>5 DEF Paths
  <2> QED
      BY <1>2, <1>3, <2>1, <2>2
<1> HIDE DEF head, S
<1>11. sched_op(S, region)
    BY <1>3 DEF S
<1> QED
    BY <1>1, <1>2, <1>6, <1>7, <1>8, <1>9, <1>10, <1>11, PlacementKeepsIInv

LEMMA FillStepKeepsIInv == IInv /\ FillStep => IInv' /\ JobsPlaced
<1> SUFFICES ASSUME IInv, FillStep PROVE IInv' /\ JobsPlaced
    OBVIOUS
<1> DEFINE head == First(ready)
<1>1. /\ TypeOK /\ Paths /\ ReadyList
      /\ pc = "step" /\ region <= conf.k /\ ready # {}
      /\ region' = region + 1
      /\ UNCHANGED <<conf, ops, in_edges, pc, ts, path, active, loc>>
    BY DEF IInv, FillStep, Placing
<1>2. conf.k \in Nat /\ Regions = 1 .. conf.k /\ region \in Regions
    BY <1>1, SettingFields DEF TypeOK
<1>3. PICK S \in IF conf.opp THEN lpfs_extract_optype(ops[head].op) ELSE {{head}} :
          sched_op(S, region) /\ ready' = ready \ S
    BY DEF FillStep
<1>4. head \in ready
  <2>1. ready \in SUBSET Nat
      BY <1>1, IdsFinite DEF TypeOK
  <2> QED
      BY <1>1, <2>1, FirstIsLeast
<1>5. S \subseteq ready /\ S # {} /\ \A o, p \in S : ops[o].op = ops[p].op
  <2>1. CASE conf.opp
    <3>1. S \subseteq ready /\ \A o \in S : ops[o].op = ops[head].op
        BY <1>3, <2>1 DEF lpfs_extract_optype
    <3>2. S # {}
      <4>1. conf.d \in Nat \ {0} /\ Cardinality({}) = 0
          BY <1>1, SettingFields, FS_EmptySet DEF TypeOK
      <4>2. head \in {o \in ready : ops[o].op = ops[head].op}
          BY <1>4
      <4> QED
          BY <1>3, <2>1, <4>1, <4>2 DEF lpfs_extract_optype
    <3> QED
        BY <3>1, <3>2
  <2>2. CASE ~conf.opp
      BY <1>3, <1>4, <2>2
  <2> QED
      BY <2>1, <2>2
<1>6. S \in SUBSET (Ids \ Placed)
    BY <1>1, <1>5 DEF TypeOK, ReadyList
<1>7. \A o \in S : \A p \in in_edges[o] : when[p] # -1 /\ (when[p] = ts => ~Strict)
  <2> SUFFICES ASSUME NEW o \in S, NEW p \in in_edges[o]
               PROVE  when[p] # -1 /\ when[p] # ts
      OBVIOUS
  <2>1. when[p] # -1 /\ when[p] < ts
      BY <1>1, <1>5 DEF ReadyList, ReadyBefore
  <2>2. when[p] \in Nat \cup {-1} /\ ts \in Nat
      BY <1>1, <1>6 DEF TypeOK
  <2> QED
      BY <2>1, <2>2
<1>8. path' \in [Regions -> SUBSET Ids] /\ \A i \in Regions : path'[i] = path[i] \ S
    BY <1>1, <1>5 DEF TypeOK, Paths
<1> QED
    BY <1>1, <1>2, <1>3, <1>5, <1>6, <1>7, <1>8, PlacementKeepsIInv

LEMMA PathStallsKeepsIInv == IInv /\ PathStalls => IInv'
<1> SUFFICES ASSUME IInv, PathStalls PROVE IInv'
    OBVIOUS
<1>1. /\ TypeOK /\ Paths /\ ReadyList /\ NoneStranded /\ Progress /\ Outcome
      /\ pc = "step" /\ conf.name = "lpfs" /\ region <= conf.l
      /\ path[region] # {} => ~op_ready(First(path[region]))
      /\ region' = region + 1
      /\ UNCHANGED <<conf, ops, in_edges, pc, ts, when, simd, ready, followed, path,
                     op_cnt, active, loc>>
    BY DEF IInv, PathStalls, Placing
<1>2. /\ conf.l < conf.k /\ conf.l \in Nat /\ conf.k \in Nat /\ Regions = 1 .. conf.k
      /\ region \in Regions /\ region' \in Nat /\ region' >= region
      /\ region' \in 1 .. conf.k + 1
    BY <1>1, SettingFields DEF TypeOK
<1>3. /\ Ids' = Ids /\ Regions' = Regions /\ Placed' = Placed /\ ThisStep' = ThisStep
      /\ Deps' /\ ParentsPlaced' /\ Counted' /\ OneKindPerRegion' /\ Times'
    BY <1>1, <1>2, ScheduleUnchanged
<1>4. TypeOK' /\ Paths' /\ ReadyList' /\ Outcome'
    BY <1>1, <1>2, <1>3 DEF TypeOK, Paths, ReadyList, ReadyBefore, Outcome
<1>5. Starting' /\ NoneStranded'
    BY <1>1, <1>3 DEF Starting, NoneStranded, ReadyBefore
<1>6. Progress'
    BY <1>1, <1>2, <1>3 DEF Progress, op_ready, First
<1> QED
    BY <1>3, <1>4, <1>5, <1>6 DEF IInv

LEMMA FillStopsKeepsIInv == IInv /\ FillStops => IInv'
<1> SUFFICES ASSUME IInv, FillStops PROVE IInv'
    OBVIOUS
<1>1. /\ TypeOK /\ Paths /\ ReadyList /\ NoneStranded /\ Progress /\ Outcome
      /\ pc = "step" /\ conf.name = "lpfs" /\ conf.l < region /\ region <= conf.k
      /\ ready = {}
      /\ region' = conf.k + 1
      /\ UNCHANGED <<conf, ops, in_edges, pc, ts, when, simd, ready, followed, path,
                     op_cnt, active, loc>>
    BY DEF IInv, FillStops, Placing
<1>2. /\ conf.l \in Nat /\ conf.k \in Nat /\ Regions = 1 .. conf.k
      /\ region \in Regions /\ region' \in Nat /\ region' >= region
      /\ region' \in 1 .. conf.k + 1
    BY <1>1, SettingFields DEF TypeOK
<1>3. /\ Ids' = Ids /\ Regions' = Regions /\ Placed' = Placed /\ ThisStep' = ThisStep
      /\ Deps' /\ ParentsPlaced' /\ Counted' /\ OneKindPerRegion' /\ Times'
    BY <1>1, <1>2, ScheduleUnchanged
<1>4. TypeOK' /\ Paths' /\ ReadyList' /\ Outcome'
    BY <1>1, <1>2, <1>3 DEF TypeOK, Paths, ReadyList, ReadyBefore, Outcome
<1>5. Starting' /\ NoneStranded'
    BY <1>1, <1>3 DEF Starting, NoneStranded, ReadyBefore
<1>6. Progress'
    BY <1>1, <1>2, <1>3 DEF Progress, Paths, op_ready, First
<1> QED
    BY <1>3, <1>4, <1>5, <1>6 DEF IInv

\* Something was placed when a step of lpfs ends: otherwise the first
\* operation that is left would be ready, or the next on a path.
LEMMA LpfsPlaces ==
    ASSUME IInv, pc = "step", conf.name = "lpfs", region = conf.k + 1
    PROVE  ThisStep # {}
<1> SUFFICES ASSUME ThisStep = {} PROVE FALSE
    OBVIOUS
<1>1. /\ conf.l < conf.k /\ conf.l \in Nat /\ conf.k \in Nat /\ Regions = 1 .. conf.k
      /\ TypeOK
    BY SettingFields DEF IInv, TypeOK
<1>2. /\ Placed # Ids /\ ready = {}
      /\ \A i \in Regions : path[i] # {} => ~op_ready(First(path[i]))
    BY <1>1 DEF IInv, Progress
<1>3. PICK o \in Ids \ Placed :
          /\ \A q \in Ids \ Placed : o <= q
          /\ \A p \in in_edges[o] : p \in Placed
    BY <1>2, FirstUnplaced
<1>4. ReadyBefore(o)
  <2> SUFFICES ASSUME NEW p \in in_edges[o] PROVE when[p] # -1 /\ when[p] < ts
      BY DEF ReadyBefore
  <2>1. p \in Placed /\ p \in Ids
      BY <1>3 DEF Placed
  <2>2. when[p] # -1 /\ when[p] <= ts /\ when[p] # ts
      BY <2>1 DEF IInv, Times, Placed, ThisStep
  <2>3. when[p] \in Nat \cup {-1} /\ ts \in Nat
      BY <1>1, <2>1 DEF TypeOK
  <2> QED
      BY <2>2, <2>3
<1>5. PICK i \in Regions : o \in path[i]
    BY <1>2, <1>3, <1>4 DEF IInv, NoneStranded
<1>6. First(path[i]) = o
  <2>1. path[i] \subseteq Ids \ Placed
      BY <1>1 DEF TypeOK, IInv, Paths
  <2>2. Ids \in SUBSET Nat
      BY <1>1, IdsFinite DEF TypeOK
  <2>3. First(path[i]) \in path[i] /\ First(path[i]) <= o
      BY <1>5, <2>1, <2>2, FirstIsLeast
  <2>4. o <= First(path[i]) /\ First(path[i]) \in Nat /\ o \in Nat
      BY <1>3, <2>1, <2>2, <2>3
  <2> QED
      BY <2>3, <2>4
<1>7. op_ready(o)
    BY <1>4 DEF op_ready, ReadyBefore
<1> QED
    BY <1>2, <1>5, <1>6, <1>7

LEMMA LpfsEndStepKeepsIInv == IInv /\ LpfsEndStep => IInv'
<1> SUFFICES ASSUME IInv, LpfsEndStep PROVE IInv'
    OBVIOUS
<1> DEFINE R == ReadyChildren \ followed
<1>1. /\ TypeOK /\ Paths
      /\ pc = "step" /\ conf.name = "lpfs" /\ region = conf.k + 1
      /\ update_moves
      /\ ready' = ready \cup R
      /\ ts' = ts + 1 /\ region' = 1
      /\ LoopTest(ts', ready' # {} \/ op_cnt < Len(ops))
      /\ UNCHANGED <<conf, ops, in_edges, when, simd, followed, path, op_cnt>>
    BY DEF IInv, LpfsEndStep, Placing
<1>2. ThisStep # {}
    BY <1>1, LpfsPlaces
<1>3. pc' \in {"step", "over", "aborted"}
    BY <1>1 DEF LoopTest
<1>4. /\ R \in SUBSET Ids
      /\ \A c \in R : c \notin Placed /\ op_ready(c) /\ \A i \in Regions : c \notin path[i]
      /\ \A c \in ReadyChildren : c \in Placed \/ c \in R \/ \E i \in Regions : c \in path[i]
    BY <1>1 DEF ReadyChildren, Paths
<1>5. /\ TypeOK' /\ Starting' /\ Deps' /\ Paths' /\ ReadyList'
      /\ Times' /\ ParentsPlaced' /\ Counted' /\ NoneStranded' /\ OneKindPerRegion'
      /\ Placed' = Placed /\ ts' <= Len(ops)
    BY <1>1, <1>2, <1>3, <1>4, StepOver
<1>6. /\ Ids' = Ids /\ Len(ops) \in Nat /\ ts \in Nat /\ conf.l \in Nat
      /\ conf.k \in Nat /\ Regions' = 1 .. conf.k
    BY <1>1, IdsFinite, SettingFields DEF TypeOK, Ids, Regions
<1>7. Placed = Ids \/ op_cnt < Len(ops)
    BY AllCounted
<1>8. ready' # {} => Placed # Ids
    BY <1>5, <1>6 DEF ReadyList, TypeOK
<1>9. op_cnt < Len(ops) => Placed # Ids
    BY <1>1, <1>6, IdsFinite DEF IInv, TypeOK, Counted
<1>10. pc' = IF Placed = Ids THEN "over" ELSE "step"
    BY <1>1, <1>5, <1>6, <1>7, <1>8, <1>9 DEF LoopTest
<1>11. Progress' /\ Outcome'
    BY <1>1, <1>5, <1>6, <1>10 DEF Progress, Outcome
<1> QED
    BY <1>5, <1>11 DEF IInv

-----------------------------------------------------------------------------
(* The steps of rcp.                                                       *)

\* A function whose operations all depend on others is empty.
LEMMA TopExists ==
    ASSUME TypeOK, Deps, top = {}
    PROVE  Ids = {}
<1> SUFFICES ASSUME Ids # {} PROVE FALSE
    OBVIOUS
<1>1. Ids = 1 .. Len(ops) /\ Len(ops) \in Nat
    BY IdsFinite DEF TypeOK
<1>2. 1 \in Ids /\ \A o \in Ids : o >= 1
    BY <1>1
<1>3. in_edges[1] = {}
  <2> SUFFICES ASSUME NEW p \in in_edges[1] PROVE FALSE
      OBVIOUS
  <2>1. p \in Ids /\ p < 1
      BY <1>2 DEF TypeOK, Deps
  <2> QED
      BY <1>1, <1>2, <2>1
<1> QED
    BY <1>2, <1>3 DEF top

LEMMA RcpInitKeepsIInv == IInv /\ RcpInit => IInv'
<1> SUFFICES ASSUME IInv, RcpInit PROVE IInv'
    OBVIOUS
<1>1. /\ TypeOK /\ Starting /\ Deps /\ Paths
      /\ pc = "start" /\ conf.name = "rcp"
      /\ ready' = top
      /\ loc' = [q \in Qubits |-> 0] /\ op_cnt' = 0 /\ ts' = 0 /\ region' = 1
      /\ LoopTest(0, ready' # {} /\ Ids # {})
      /\ UNCHANGED <<conf, ops, in_edges, when, simd, followed, path, active>>
    BY DEF IInv, RcpInit
<1>2. /\ conf.k \in Nat \ {0} /\ Regions = 1 .. conf.k /\ Regions' = Regions /\ Ids' = Ids
    BY <1>1, SettingFields DEF TypeOK, Regions, Ids
<1>3. /\ when = [o \in Ids |-> -1] /\ simd = [o \in Ids |-> -1]
      /\ Placed = {} /\ Placed' = {} /\ ThisStep' = {}
    BY <1>1, <1>2 DEF Starting, Placed, ThisStep
<1>4. Len(ops) \in Nat
    BY <1>1, IdsFinite DEF TypeOK
<1>5. /\ top \subseteq Ids /\ (top = {} => Ids = {})
      /\ pc' = IF Ids = {} THEN "over" ELSE "step"
  <2>1. top \subseteq Ids /\ (top = {} => Ids = {})
      BY <1>1, TopExists DEF top
  <2>2. ~(0 > Len(ops))
      BY <1>4
  <2> QED
      BY <1>1, <2>1, <2>2 DEF LoopTest
<1>6. TypeOK'
    BY <1>1, <1>2, <1>5 DEF TypeOK
<1>7. Starting' /\ Deps'
    BY <1>1, <1>2, <1>5 DEF Starting, Deps
<1>8. Paths'
    BY <1>1, <1>2, <1>3 DEF Paths
<1>9. ReadyList'
    BY <1>1, <1>2, <1>3, <1>5 DEF ReadyList, ReadyBefore, top
<1>10. Times' /\ ParentsPlaced' /\ OneKindPerRegion'
    BY <1>3 DEF Times, ParentsPlaced, OneKindPerRegion
<1>11. Counted'
    BY <1>1, <1>3, FS_EmptySet DEF Counted
<1>12. NoneStranded'
  <2> SUFFICES ASSUME NEW o \in Ids, ReadyBefore(o)'
               PROVE  o \in ready'
      BY <1>1, <1>2 DEF NoneStranded
  <2>1. in_edges[o] \subseteq Ids /\ \A p \in in_edges[o] : when'[p] = -1
      BY <1>1, <1>3 DEF TypeOK
  <2> QED
      BY <1>1, <2>1 DEF ReadyBefore, top
<1>13. Progress' /\ Outcome'
    BY <1>1, <1>2, <1>3, <1>5 DEF Progress, Outcome
<1> QED
    BY <1>6, <1>7, <1>8, <1>9, <1>10, <1>11, <1>12, <1>13 DEF IInv

LEMMA RcpSimdKeepsIInv == IInv /\ RcpSimd => IInv' /\ JobsPlaced
<1> SUFFICES ASSUME IInv, RcpSimd PROVE IInv' /\ JobsPlaced
    OBVIOUS
<1>1. /\ TypeOK /\ Paths /\ ReadyList
      /\ pc = "step" /\ region <= conf.k
      /\ region' = region + 1
      /\ UNCHANGED <<conf, ops, in_edges, pc, ts, path, active, loc>>
    BY DEF IInv, RcpSimd
<1>2. conf.k \in Nat /\ Regions = 1 .. conf.k /\ region \in Regions
    BY <1>1, SettingFields DEF TypeOK
<1>3. PICK kind \in Heaviest(region) :
          \E S \in rcpq_extract_optype(kind) :
              sched_op(S, region) /\ ready' = ready \ S
    BY DEF RcpSimd
<1>4. PICK S \in rcpq_extract_optype(kind) :
          sched_op(S, region) /\ ready' = ready \ S
    BY <1>3
<1>5. S \subseteq ready /\ S # {} /\ \A o, p \in S : ops[o].op = ops[p].op
    BY <1>4 DEF rcpq_extract_optype, Fits, Alike
<1>6. S \in SUBSET (Ids \ Placed)
    BY <1>1, <1>5 DEF TypeOK, ReadyList
<1>7. \A o \in S : \A p \in in_edges[o] : when[p] # -1 /\ (when[p] = ts => ~Strict)
  <2> SUFFICES ASSUME NEW o \in S, NEW p \in in_edges[o]
               PROVE  when[p] # -1 /\ when[p] # ts
      OBVIOUS
  <2>1. when[p] # -1 /\ when[p] < ts
      BY <1>1, <1>5 DEF ReadyList, ReadyBefore
  <2>2. when[p] \in Nat \cup {-1} /\ ts \in Nat
      BY <1>1, <1>6 DEF TypeOK
  <2> QED
      BY <2>1, <2>2
<1>8. path' \in [Regions -> SUBSET Ids] /\ \A i \in Regions : path'[i] = path[i] \ S
    BY <1>1, <1>5 DEF TypeOK, Paths
<1> QED
    BY <1>1, <1>2, <1>4, <1>5, <1>6, <1>7, <1>8, PlacementKeepsIInv

LEMMA RcpEndStepKeepsIInv == IInv /\ RcpEndStep => IInv'
<1> SUFFICES ASSUME IInv, RcpEndStep PROVE IInv'
    OBVIOUS
<1>1. /\ TypeOK /\ Paths /\ ParentsPlaced /\ Times /\ Progress
      /\ pc = "step" /\ conf.name = "rcp" /\ (region > conf.k \/ ready = {})
      /\ update_moves
      /\ ready' = ready \cup ReadyChildren
      /\ ts' = ts + 1 /\ region' = 1
      /\ LoopTest(ts', ready' # {} /\ op_cnt < Len(ops))
      /\ UNCHANGED <<conf, ops, in_edges, when, simd, followed, path, op_cnt>>
    BY DEF IInv, RcpEndStep
<1>2. /\ Ids' = Ids /\ Len(ops) \in Nat /\ ts \in Nat /\ conf.k \in Nat \ {0}
      /\ Regions = 1 .. conf.k /\ Regions' = Regions
    BY <1>1, IdsFinite, SettingFields DEF TypeOK, Ids, Regions
<1>3. ThisStep # {}
    BY <1>1, <1>2 DEF Progress
<1>4. pc' \in {"step", "over", "aborted"}
    BY <1>1 DEF LoopTest
<1>5. ReadyChildren \subseteq Ids /\ \A c \in ReadyChildren : op_ready(c) /\ c \notin Placed
  <2> SUFFICES ASSUME NEW c \in ReadyChildren, c \in Placed PROVE FALSE
      BY DEF ReadyChildren
  <2>1. PICK p \in in_edges[c] : p \in Ids /\ when[p] = ts /\ c \in Ids
      BY DEF ReadyChildren, ThisStep
  <2>2. /\ when[p] <= when[c] /\ when[c] <= ts
        /\ when[p] # when[c]
      BY <1>1 DEF ParentsPlaced, Times, Strict
  <2>3. when[c] \in Nat \cup {-1}
      BY <1>1, <2>1 DEF TypeOK
  <2> QED
      BY <1>2, <2>1, <2>2, <2>3
<1>6. \A i \in Regions : path[i] = {}
    BY <1>1 DEF Paths
<1>7. /\ TypeOK' /\ Starting' /\ Deps' /\ Paths' /\ ReadyList'
      /\ Times' /\ ParentsPlaced' /\ Counted' /\ NoneStranded' /\ OneKindPerRegion'
      /\ Placed' = Placed /\ ts' <= Len(ops)
      /\ \A o \in Ids : (\A p \in in_edges[o] : p \in Placed) => ReadyBefore(o)'
    BY <1>1, <1>3, <1>4, <1>5, <1>6, StepOver
<1>8. Placed = Ids \/ op_cnt < Len(ops)
    BY AllCounted
<1>9. Placed # Ids => ready' # {}
  <2> SUFFICES ASSUME Placed # Ids PROVE ready' # {}
      OBVIOUS
  <2>1. PICK o \in Ids \ Placed : \A p \in in_edges[o] : p \in Placed
      BY FirstUnplaced
  <2>2. ReadyBefore(o)'
      BY <1>7, <2>1
  <2>3. pc' # "start"
      BY <1>4
  <2> QED
      BY <1>1, <1>2, <1>6, <1>7, <2>1, <2>2, <2>3 DEF NoneStranded
<1>10. ready' # {} => Placed # Ids
    BY <1>7, <1>2 DEF ReadyList, TypeOK
<1>11. pc' = IF Placed = Ids THEN "over" ELSE "step"
    BY <1>1, <1>2, <1>7, <1>8, <1>9, <1>10 DEF LoopTest
<1>12. Progress' /\ Outcome'
    BY <1>1, <1>2, <1>7, <1>9, <1>11 DEF Progress, Outcome
<1> QED
    BY <1>7, <1>12 DEF IInv

-----------------------------------------------------------------------------
(* The invariant holds.                                                    *)

LEMMA StutterKeepsIInv == IInv /\ UNCHANGED vars => IInv'
<1> SUFFICES ASSUME IInv, UNCHANGED vars PROVE IInv'
    OBVIOUS
<1>1. UNCHANGED <<conf, ops, in_edges, pc, ts, region, when, simd, ready, followed,
                  path, op_cnt, active, loc>>
    BY DEF vars
<1>2. /\ Ids' = Ids /\ Regions' = Regions /\ Placed' = Placed /\ ThisStep' = ThisStep
      /\ Strict' = Strict
    BY <1>1 DEF Ids, Regions, Placed, ThisStep, Strict
<1>3. TypeOK' /\ Starting' /\ Deps' /\ Paths' /\ ReadyList'
    BY <1>1, <1>2 DEF IInv, TypeOK, Starting, Deps, Paths, ReadyList, ReadyBefore
<1>4. Times' /\ ParentsPlaced' /\ Counted' /\ NoneStranded' /\ OneKindPerRegion' /\ Outcome'
    BY <1>1, <1>2 DEF IInv, Times, ParentsPlaced, Counted, NoneStranded, ReadyBefore,
                      OneKindPerRegion, Outcome
<1>5. Progress'
    BY <1>1, <1>2 DEF IInv, Progress, op_ready
<1> QED
    BY <1>3, <1>4, <1>5 DEF IInv

LEMMA NextKeepsIInv == IInv /\ [Next]_vars => IInv'
<1> SUFFICES ASSUME IInv, [Next]_vars PROVE IInv'
    OBVIOUS
<1>1. CASE FindPath
    BY <1>1, FindPathKeepsIInv
<1>2. CASE LpfsInit
    BY <1>2, LpfsInitKeepsIInv
<1>3. CASE PathStep
    BY <1>3, PathStepKeepsIInv
<1>4. CASE PathStalls
    BY <1>4, PathStallsKeepsIInv
<1>5. CASE FillStep
    BY <1>5, FillStepKeepsIInv
<1>6. CASE FillStops
    BY <1>6, FillStopsKeepsIInv
<1>7. CASE LpfsEndStep
    BY <1>7, LpfsEndStepKeepsIInv
<1>8. CASE RcpInit
    BY <1>8, RcpInitKeepsIInv
<1>9. CASE RcpSimd
    BY <1>9, RcpSimdKeepsIInv
<1>10. CASE RcpEndStep
    BY <1>10, RcpEndStepKeepsIInv
<1>11. CASE UNCHANGED vars
    BY <1>11, StutterKeepsIInv
<1> QED
    BY <1>1, <1>2, <1>3, <1>4, <1>5, <1>6, <1>7, <1>8, <1>9, <1>10, <1>11
    DEF Next, LpfsNext, RcpNext, Ended

\* Whatever the function, the command line and the order in which the ready
\* list is walked, the schedulers keep the invariant.
THEOREM SchedIInv == Spec => []IInv
<1>1. Init => IInv
    BY InitIInv
<1>2. IInv /\ [Next]_vars => IInv'
    BY NextKeepsIInv
<1> QED
    BY <1>1, <1>2, PTL DEF Spec

-----------------------------------------------------------------------------
(* What it implies.                                                        *)

\* Every variable of lpfs and rcp keeps its type: no region beyond those of
\* the machine is given to an operation or a qubit.
THEOREM SchedTypesHold == Spec => []TypeOK
<1>1. IInv => TypeOK
    BY DEF IInv
<1> QED
    BY <1>1, SchedIInv, PTL

\* Only with two paths or more does an operation share the step of a parent:
\* without, op_ready and the order of the calls suffice for what sched_check()
\* asks.
THEOREM ParentsFirstHolds == Spec => []ParentsFirst
<1>1. IInv => ParentsFirst
    <2> SUFFICES ASSUME IInv, Strict, NEW o \in Placed, NEW p \in in_edges[o]
                 PROVE  when[p] # -1 /\ when[p] < when[o]
        BY DEF ParentsFirst, InLaterSteps
    <2>1. when[p] # -1 /\ when[p] <= when[o] /\ when[p] # when[o]
        BY DEF IInv, ParentsPlaced
    <2>2. when[p] \in Int /\ when[o] \in Int
        BY DEF IInv, TypeOK, Deps, Placed
    <2>3. QED
        BY <2>1, <2>2
<1> QED
    BY <1>1, SchedIInv, PTL

\* What sched_op puts into a region during a step is of one kind.
THEOREM OneKindHolds == Spec => []OneKindPerRegion
<1>1. IInv => OneKindPerRegion
    BY DEF IInv
<1> QED
    BY <1>1, SchedIInv, PTL

\* At the head of a step, an operation with placed parents waits in exactly
\* one place.
LEMMA WaitsOnce ==
    ASSUME IInv, pc = "step", region = 1, NEW o \in Ids \ Placed, op_ready(o)
    PROVE  LET onpaths == {i \in Regions : o \in path[i]} IN
               \/ o \in ready /\ onpaths = {}
               \/ o \notin ready /\ Cardinality(onpaths) = 1
<1> DEFINE onpaths == {i \in Regions : o \in path[i]}
<1>1. TypeOK /\ Times /\ Paths /\ NoneStranded
    BY DEF IInv
<1>2. Regions = 1 .. conf.k /\ conf.k \in Nat
    BY <1>1, SettingFields DEF TypeOK
<1>3. ReadyBefore(o)
  <2> SUFFICES ASSUME NEW p \in in_edges[o] PROVE when[p] # -1 /\ when[p] < ts
      BY DEF ReadyBefore
  <2>1. /\ p \in Ids /\ when[p] # -1 /\ p \in Placed
        /\ when[p] \in Nat \cup {-1} /\ ts \in Nat
      BY <1>1 DEF TypeOK, op_ready, Placed
  <2>2. when[p] <= ts /\ simd[p] \in Regions /\ (when[p] = ts => simd[p] < 1)
      BY <1>1, <2>1 DEF Times
  <2> QED
      BY <1>2, <2>1, <2>2
<1>4. CASE o \in ready
    BY <1>1, <1>4 DEF Paths
<1>5. CASE o \notin ready
  <2>1. PICK i \in Regions : o \in path[i]
      BY <1>1, <1>3, <1>5 DEF NoneStranded
  <2>2. onpaths = {i}
      BY <1>1, <2>1 DEF Paths
  <2>3. Cardinality(onpaths) = 1
      BY <2>2, FS_Singleton
  <2> QED
      BY <1>5, <2>3
<1> QED
    BY <1>4, <1>5

\* Between the ready list, the paths and the schedule no operation is lost,
\* the count that ends the loops is right, and they never give up.
THEOREM NoOpForgottenHolds == Spec => []NoOpForgotten
<1>1. IInv => NoOpForgotten
  <2> SUFFICES ASSUME IInv PROVE NoOpForgotten
      OBVIOUS
  <2>1. op_cnt = Cardinality(Placed) /\ pc # "aborted" /\ (pc = "over" => Placed = Ids)
      BY DEF IInv, Counted, Outcome
  <2>2. ASSUME pc = "step", region = 1, NEW o \in Ids \ Placed
        PROVE  LET onpaths == {i \in Regions : o \in path[i]} IN
                   \/ o \in ready /\ onpaths = {}
                   \/ o \notin ready /\ Cardinality(onpaths) = 1
                   \/ ~op_ready(o)
      BY <2>2, WaitsOnce
  <2> QED
      BY <2>1, <2>2, Zenon DEF NoOpForgotten
<1> QED
    BY <1>1, SchedIInv, PTL

-----------------------------------------------------------------------------
(* The moves.                                                              *)

\* loc and active_qubits agree; before the first step they name no region.
MovesInv ==
    /\ in_edges = Edges
    /\ \A q \in Qubits : loc[q] = active[q]
    /\ pc = "start" => \A q \in Qubits : active[q] = 0
    /\ RegionsHoldOperands

\* Operations that use a qubit follow each other, although add_qubit only
\* links each of them to the one before.
LEMMA UsersInOrder ==
    ASSUME IInv, in_edges = Edges, Strict,
           NEW q, NEW o \in Ids, NEW p \in Placed, q \in args(o), q \in args(p), o < p
    PROVE  when[o] # -1 /\ when[o] < when[p]
<1>1. Ids \in SUBSET Nat /\ Ids = 1 .. Len(ops) /\ Len(ops) \in Nat
    BY IdsFinite DEF IInv, TypeOK
<1>2. \A u \in Ids : when[u] \in Nat \cup {-1}
    BY DEF IInv, TypeOK
<1> DEFINE late == {u \in Placed : o < u /\ q \in args(u)
                                   /\ ~(when[o] # -1 /\ when[o] < when[u])}
<1>3. ASSUME late # {} PROVE FALSE
  <2>1. late \in SUBSET Nat
      BY <1>1 DEF Placed
  <2> HIDE DEF late
  <2>2. PICK m \in late : \A u \in late : m <= u
      BY <1>3, <2>1, LeastExists
  <2> USE DEF late
  <2>3. m \in Ids /\ m \in Placed /\ o < m /\ q \in args(m) /\ m \in Nat
      BY <1>1, <2>2 DEF Placed
  <2> DEFINE users == {u \in Ids : u < m /\ q \in args(u)}
  <2>4. o \in users /\ users \in SUBSET (1 .. Len(ops))
      BY <1>1, <2>3
  <2> HIDE DEF users
  <2>5. PICK r \in users : \A u \in users : u <= r
      BY <1>1, <2>4, LastExists
  <2> USE DEF users
  <2>6. r \in Ids /\ r < m /\ q \in args(r) /\ o <= r
      BY <2>4, <2>5
  <2>7. PICK i \in DOMAIN ops[m].args : ops[m].args[i] = q
      BY <2>3 DEF args
  <2>8. \A u \in Ids : r < u /\ u < m => q \notin args(u)
      BY <1>1, <2>3, <2>5, <2>6
  <2>9. EdgeBy(r, m, i)
      BY <2>6, <2>7, <2>8 DEF EdgeBy
  <2>10. r \in in_edges[m]
      BY <2>3, <2>6, <2>9 DEF Edges
  <2>11. when[r] # -1 /\ when[r] < when[m] /\ r \in Placed
      BY <1>2, <2>3, <2>6, <2>10 DEF IInv, ParentsPlaced, Placed
  <2>12. CASE r = o
      BY <2>2, <2>11, <2>12
  <2>13. CASE r # o
    <3>1. o < r /\ r \notin late
        BY <1>1, <2>2, <2>3, <2>6, <2>13
    <3>2. when[o] # -1 /\ when[o] < when[r]
        BY <2>6, <2>11, <3>1
    <3> QED
        BY <1>2, <2>2, <2>3, <2>6, <2>11, <3>2
  <2> QED
      BY <2>12, <2>13
<1> QED
    BY <1>3

\* So a step uses a qubit once, and Needed has one region at most.
LEMMA UsedOnce ==
    ASSUME IInv, in_edges = Edges, Strict,
           NEW q, NEW r \in Regions, NEW o \in Slot(r), q \in args(o)
    PROVE  Needed(q) = {r}
<1>1. Ids \in SUBSET Nat
    BY IdsFinite DEF IInv, TypeOK
<1>2. ts \in Nat
    BY DEF IInv, TypeOK
<1>3. ASSUME NEW s \in Regions, NEW p \in Slot(s), q \in args(p) PROVE p = o
  <2>1. /\ o \in Ids /\ p \in Ids /\ o \in Placed /\ p \in Placed
        /\ when[o] = ts /\ when[p] = ts
      BY <1>2 DEF Slot, Placed
  <2>2. ~(o < p)
      BY <1>2, <1>3, <2>1, UsersInOrder
  <2>3. ~(p < o)
      BY <1>2, <1>3, <2>1, UsersInOrder
  <2> QED
      BY <1>1, <2>1, <2>2, <2>3
<1>4. \A s \in Needed(q) : s = r
    BY <1>3 DEF Needed, Slot
<1>5. r \in Needed(q)
    BY DEF Needed
<1> QED
    BY <1>4, <1>5

\* update_moves brings to a region that the step uses its operands, and
\* takes everything else away.
LEMMA MovesBring ==
    ASSUME IInv, in_edges = Edges, Strict, \A q \in Qubits : loc[q] = active[q],
           update_moves, NEW r \in Regions, Slot(r) # {}
    PROVE  {q \in Qubits : loc'[q] = r} = UNION {args(o) : o \in Slot(r)}
<1>1. \A q \in Qubits : loc'[q] = Target(q)
    BY DEF update_moves
<1>2. r # 0
    BY SettingFields DEF IInv, TypeOK
<1>3. ASSUME NEW o \in Slot(r), NEW q \in args(o) PROVE q \in Qubits /\ Target(q) = r
  <2>1. ops \in Seq(Operations) /\ o \in DOMAIN ops
      BY FunctionsAssumption DEF IInv, TypeOK, Slot, Ids
  <2>2. ops[o].args \in Seq(Qubits)
    <3>1. ops[o] \in Operations
        BY <2>1
    <3> QED
        BY <3>1 DEF Operations
  <2>3. q \in Qubits
      BY <2>2 DEF args
  <2>4. Needed(q) = {r}
      BY UsedOnce
  <2>5. r <= r
      BY SettingFields DEF IInv, TypeOK
  <2> QED
      BY <2>3, <2>4, <2>5 DEF Target
<1>4. ASSUME NEW q \in Qubits, Target(q) = r PROVE \E o \in Slot(r) : q \in args(o)
  <2>1. Needed(q) # {}
      BY <1>2, <1>4 DEF Target
  <2>2. PICK s \in Regions : \E o \in Slot(s) : q \in args(o)
      BY <2>1 DEF Needed
  <2>3. Needed(q) = {s}
      BY <2>2, UsedOnce
  <2>4. s <= s
      BY SettingFields DEF IInv, TypeOK
  <2>5. Target(q) = s
      BY <2>3, <2>4 DEF Target
  <2> QED
      BY <1>4, <2>2, <2>5
<1> QED
    BY <1>1, <1>3, <1>4

\* The end of a step.
LEMMA StepEndMoves ==
    ASSUME IInv, MovesInv, update_moves, pc = "step", pc' # "start", ts' = ts + 1,
           UNCHANGED <<conf, ops, in_edges, when, simd>>
    PROVE  MovesInv'
<1>1. Ids' = Ids /\ Regions' = Regions /\ Strict' = Strict /\ Edges' = Edges
    BY DEF Ids, Regions, Strict, Edges, EdgeBy, args
<1>2. in_edges' = Edges'
    BY <1>1 DEF MovesInv
<1>3. \A q \in Qubits : loc'[q] = active'[q]
    BY DEF update_moves, MovesInv
<1>4. RegionsHoldOperands'
  <2> SUFFICES ASSUME Strict', NEW r \in Regions',
                      {o \in Ids' : when'[o] = ts' - 1 /\ simd'[o] = r} # {}
               PROVE  {q \in Qubits : loc'[q] = r} =
                        UNION {args(o)' : o \in {o \in Ids' : when'[o] = ts' - 1 /\ simd'[o] = r}}
      BY DEF RegionsHoldOperands
  <2>1. ts \in Nat
      BY DEF IInv, TypeOK
  <2>2. ts' - 1 = ts
      BY <2>1
  <2>3. {o \in Ids' : when'[o] = ts' - 1 /\ simd'[o] = r} = Slot(r)
      BY <1>1, <2>2 DEF Slot
  <2>4. {q \in Qubits : loc'[q] = r} = UNION {args(o) : o \in Slot(r)}
      BY <1>1, <2>3, MovesBring DEF MovesInv
  <2>5. \A o \in Slot(r) : args(o)' = args(o)
      BY DEF args
  <2> QED
      BY <2>3, <2>4, <2>5
<1> QED
    BY <1>2, <1>3, <1>4 DEF MovesInv

\* Between the ends of two steps, and before the first one, nothing moves.
LEMMA NothingMoves ==
    ASSUME IInv, MovesInv, UNCHANGED <<conf, ops, in_edges, active>>,
           \/ loc' = loc
           \/ pc = "start" /\ loc' = [q \in Qubits |-> 0],
           pc' = pc \/ pc' # "start",
           ts' = 0 \/ region' > 1
    PROVE  MovesInv'
<1>1. in_edges' = Edges'
    BY DEF MovesInv, Edges, EdgeBy, args, Ids
<1>2. \A q \in Qubits : loc'[q] = active'[q]
    BY DEF MovesInv
<1>3. RegionsHoldOperands'
    BY DEF RegionsHoldOperands
<1> QED
    BY <1>1, <1>2, <1>3 DEF MovesInv

\* Only the end of a step moves qubits.
LEMMA NextKeepsMovesInv == IInv /\ MovesInv /\ [Next]_vars => MovesInv'
<1> SUFFICES ASSUME IInv, MovesInv, [Next]_vars PROVE MovesInv'
    OBVIOUS
<1>1. region \in Nat /\ region >= 1 /\ conf.k \in Nat \ {0} /\ (pc = "start" => ts = 0)
    BY SettingFields DEF IInv, TypeOK, Starting
<1>2. \A t, more : LoopTest(t, more) => pc' # "start"
    BY DEF LoopTest
<1>3. CASE FindPath
    BY <1>1, <1>3, NothingMoves DEF FindPath
<1>4. CASE LpfsInit
    BY <1>2, <1>4, NothingMoves DEF LpfsInit
<1>5. CASE PathStep
    BY <1>1, <1>5, NothingMoves DEF PathStep
<1>6. CASE PathStalls
    BY <1>1, <1>6, NothingMoves DEF PathStalls
<1>7. CASE FillStep
    BY <1>1, <1>7, NothingMoves DEF FillStep
<1>8. CASE FillStops
    BY <1>1, <1>8, NothingMoves DEF FillStops
<1>9. CASE LpfsEndStep
    BY <1>2, <1>9, StepEndMoves DEF LpfsEndStep, Placing
<1>10. CASE RcpInit
    BY <1>2, <1>10, NothingMoves DEF RcpInit
<1>11. CASE RcpSimd
    BY <1>1, <1>11, NothingMoves DEF RcpSimd
<1>12. CASE RcpEndStep
    BY <1>2, <1>12, StepEndMoves DEF RcpEndStep
<1>13. CASE UNCHANGED vars
    BY <1>13 DEF vars, MovesInv, RegionsHoldOperands, Edges, EdgeBy, args, Ids, Regions, Strict
<1> QED
    BY <1>3, <1>4, <1>5, <1>6, <1>7, <1>8, <1>9, <1>10, <1>11, <1>12, <1>13
    DEF Next, LpfsNext, RcpNext, Ended

\* After update_moves each region that the step used holds exactly the
\* operands of its operations, unless lpfs follows two paths or more.
THEOREM RegionsHoldOperandsHolds == Spec => []RegionsHoldOperands
<1>1. Init => MovesInv
    BY DEF Init, MovesInv, RegionsHoldOperands
<1>2. IInv /\ MovesInv /\ [Next]_vars => MovesInv'
    BY NextKeepsMovesInv
<1>3. MovesInv => RegionsHoldOperands
    BY DEF MovesInv
<1> QED
    BY <1>1, <1>2, <1>3, SchedIInv, PTL DEF Spec

-----------------------------------------------------------------------------
(* Refinement.                                                             *)

LEMMA InitImplements == Init => List!LInit
<1> SUFFICES ASSUME Init PROVE List!LInit
    OBVIOUS
<1>1. Problem.jobs = Ids /\ Problem.deps \subseteq Ids \X Ids
    BY DEF Problem
<1>2. ts = 0 /\ when = [o \in Ids |-> -1]
    BY DEF Init
<1> QED
    BY <1>1, <1>2 DEF List!LInit

\* Steps that leave the schedule alone are stutters.
LEMMA UnchangedStutters ==
    ASSUME UNCHANGED <<conf, ops, in_edges, ts, when>>
    PROVE  UNCHANGED List!lvars
<1>1. Problem' = Problem
    BY DEF Problem, Ids, Strict
<1> QED
    BY <1>1 DEF List!lvars

\* The end of a step in which something was placed is a step of the list
\* scheduler.
LEMMA EndImplements ==
    ASSUME ThisStep # {}, ts' = ts + 1, UNCHANGED <<conf, ops, in_edges, when>>
    PROVE  List!NextStep
<1>1. Problem' = Problem /\ Problem.jobs = Ids
    BY DEF Problem, Ids, Strict
<1>2. \E j \in Ids : when[j] = ts
    BY DEF ThisStep
<1> QED
    BY <1>1, <1>2 DEF List!NextStep

LEMMA NextImplements == IInv /\ [Next]_vars => [List!LNext]_(List!lvars)
<1> SUFFICES ASSUME IInv, [Next]_vars PROVE List!LNext \/ UNCHANGED List!lvars
    OBVIOUS
<1>1. CASE FindPath \/ PathStalls \/ FillStops \/ UNCHANGED vars
  <2>1. UNCHANGED <<conf, ops, in_edges, ts, when>>
      BY <1>1 DEF FindPath, PathStalls, FillStops, vars
  <2> QED
      BY <2>1, UnchangedStutters
<1>2. CASE LpfsInit \/ RcpInit
  <2>1. ts = 0 /\ when = [o \in Ids |-> -1]
      BY <1>2 DEF LpfsInit, RcpInit, IInv, Starting
  <2>2. UNCHANGED <<conf, ops, in_edges, ts, when>>
      BY <1>2, <2>1 DEF LpfsInit, RcpInit
  <2> QED
      BY <2>2, UnchangedStutters
<1>3. CASE PathStep \/ FillStep \/ RcpSimd
  <2>1. JobsPlaced
      BY <1>3, PathStepKeepsIInv, FillStepKeepsIInv, RcpSimdKeepsIInv
  <2>2. Problem.jobs = Ids
      BY DEF Problem
  <2> QED
      BY <2>1, <2>2 DEF JobsPlaced, List!LNext
<1>4. CASE LpfsEndStep
  <2>1. ThisStep # {}
      BY <1>4, LpfsPlaces DEF LpfsEndStep, Placing
  <2>2. ts' = ts + 1 /\ UNCHANGED <<conf, ops, in_edges, when>>
      BY <1>4 DEF LpfsEndStep
  <2> QED
      BY <2>1, <2>2, EndImplements DEF List!LNext
<1>5. CASE RcpEndStep
  <2>1. conf.k \in Nat \ {0}
      BY SettingFields DEF IInv, TypeOK
  <2>2. /\ pc = "step" /\ conf.name = "rcp" /\ (region > conf.k \/ ready = {})
        /\ ts' = ts + 1 /\ UNCHANGED <<conf, ops, in_edges, when>>
      BY <1>5 DEF RcpEndStep
  <2>3. ThisStep # {}
      BY <2>1, <2>2 DEF IInv, Progress
  <2> QED
      BY <2>2, <2>3, EndImplements DEF List!LNext
<1> QED
    BY <1>1, <1>2, <1>3, <1>4, <1>5 DEF Next, LpfsNext, RcpNext, Ended

\* Both schedulers are list schedulers: each round places operations whose
\* turn has come, or moves to the next step after one that did something.
THEOREM ImplementsListSchedule == Spec => IsListSchedule
<1>1. Init => List!LInit
    BY InitImplements
<1>2. IInv /\ [Next]_vars => [List!LNext]_(List!lvars)
    BY NextImplements
<1> QED
    BY <1>1, <1>2, SchedIInv, PTL DEF Spec, IsListSchedule, List!LSpec
=============================================================================
