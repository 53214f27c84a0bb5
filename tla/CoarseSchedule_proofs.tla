------------------------- MODULE CoarseSchedule_proofs -------------------------
(***************************************************************************)
(* For any programs, any number of regions, any capacity and any weight of *)
(* moves: calls with an element in common keep the order of the program    *)
(* and never overlap (CallsApart), no more regions are used than there are *)
(* (WidthKept), and a function gets its right length (LengthIsRight).      *)
(*                                                                         *)
(* funcQbits is what the schedule is built from, so that most of the       *)
(* invariant is about it: what an operation on an operand waits for is no  *)
(* earlier than the end of any placed call with an element in common, and  *)
(* that stays so when a register is used as a whole, element by element,   *)
(* and when the first measurement overwrites all entries.                  *)
(*                                                                         *)
(* LayoutInv is about windows and steps: how much each holds, and where    *)
(* the schedule ends.  Its sums are MapThenSumSet's, for which the lemmas  *)
(* on Sum show that the order of adding makes no difference.               *)
(***************************************************************************)
EXTENDS CoarseSchedule, FiniteSetTheorems, SequenceTheorems, WellFoundedInduction, TLAPS

-----------------------------------------------------------------------------
(* Numbers.                                                                *)

\* A set of natural numbers has a least one, which is Min.
LEMMA LeastExists ==
    ASSUME NEW S \in SUBSET Nat, S # {}
    PROVE  Min(S) \in S /\ \A k \in S : Min(S) <= k
<1>1. PICK m \in S : \A k \in S : ~(<<k, m>> \in OpToRel(<, Nat))
    BY NatLessThanWellFounded, WFMin
<1>2. \A p, q \in Nat : p < q => <<p, q>> \in OpToRel(<, Nat)
    BY Zenon DEF OpToRel
<1>3. ASSUME NEW k \in S PROVE m <= k
  <2>1. ~(k < m)
      BY <1>1, <1>2, Zenon
  <2> QED
      BY <2>1
<1> QED
    BY <1>3 DEF Min

\* A bounded set of natural numbers has a greatest one, which is Max.
LEMMA GreatestExists ==
    ASSUME NEW S \in SUBSET Nat, S # {}, NEW B \in Nat, \A k \in S : k <= B
    PROVE  Max(S) \in S /\ \A k \in S : k <= Max(S)
<1> DEFINE below == {B - k : k \in S}
<1>1. below \in SUBSET Nat /\ below # {}
  <2>1. \A k \in S : B - k \in Nat
      OBVIOUS
  <2> QED
      BY <2>1
<1>2. PICK b \in below : \A k \in below : b <= k
  <2> HIDE DEF below
  <2> QED
      BY <1>1, LeastExists
<1>3. PICK m \in S : b = B - m
    BY <1>2
<1>4. ASSUME NEW k \in S PROVE m >= k
  <2>1. B - k \in below
      OBVIOUS
  <2>2. b <= B - k
      BY <1>2, <2>1
  <2> QED
      BY <1>3, <2>2
<1> QED
    BY <1>3, <1>4 DEF Max

-----------------------------------------------------------------------------
(* funcQbits as a table Q of the registers N.                              *)

Table(Q, N) ==
    /\ DOMAIN Q = N
    /\ \A r \in N :
        /\ DOMAIN Q[r] \subseteq Int /\ -1 \in DOMAIN Q[r] /\ -2 \in DOMAIN Q[r]
        /\ \A e \in DOMAIN Q[r] : Q[r][e] \in Nat /\ Q[r][e] <= Q[r][-2]

UpTo(Q, B) == \A r \in DOMAIN Q : \A e \in DOMAIN Q[r] : Q[r][e] <= B

Waits(Q, a) ==
    IF a.index = -1 THEN Q[a.name][-2]
    ELSE IF a.index \in DOMAIN Q[a.name] THEN Q[a.name][a.index]
    ELSE Q[a.name][-1]

Indices(A, r) == {a.index : a \in {b \in A : b.name = r}}

Upd(Q, A, t) ==
    [r \in DOMAIN Q |->
        [e \in DOMAIN Q[r] \cup Indices(A, r) |->
            IF e \in Indices(A, r) \/ -1 \in Indices(A, r) THEN t
            ELSE IF e = -2 /\ Indices(A, r) # {} THEN Larger(Q[r][-2], t)
            ELSE Q[r][e]]]

Meas(Q, a, t) ==
    [r \in DOMAIN Q |-> [e \in DOMAIN Q[r] |->
        IF r = a.name /\ e \in {a.index, -2} THEN t ELSE t - 1]]

Overlap(a, b) ==
    a.name = b.name /\ (a.index = b.index \/ a.index = -1 \/ b.index = -1)

\* The table knows that the operands A are in use until t.
Keeps(Q, A, t) ==
    \A b \in Operand :
        (\E a \in A : Overlap(a, b)) => Waits(Q, b) >= t

LEMMA WaitsType ==
    ASSUME NEW N, NEW Q, Table(Q, N), NEW b \in Operand, b.name \in N
    PROVE  Waits(Q, b) \in Nat /\ Waits(Q, b) <= Q[b.name][-2]
BY DEF Table, Waits

LEMMA IndicesFacts ==
    ASSUME NEW A \in SUBSET Operand, NEW r
    PROVE  /\ Indices(A, r) \subseteq Nat \cup {-1} /\ -2 \notin Indices(A, r)
           /\ \A a \in A : a.name = r => a.index \in Indices(A, r)
           /\ \A e \in Indices(A, r) : \E a \in A : a.name = r /\ a.index = e
<1>1. \A a \in A : a.index \in Nat \cup {-1}
    BY DEF Operand
<1> QED
    BY <1>1 DEF Indices

\* A call that keeps its operands until t, when all of them are free by then:
\* nothing waits for less than before, and what overlaps waits for t.
LEMMA UpdKeeps ==
    ASSUME NEW N, NEW Q, Table(Q, N),
           NEW A \in SUBSET Operand, NEW t \in Nat,
           \A a \in A : a.name \in N /\ Waits(Q, a) <= t
    PROVE  /\ Table(Upd(Q, A, t), N)
           /\ \A b \in Operand : b.name \in N => Waits(Upd(Q, A, t), b) >= Waits(Q, b)
           /\ Keeps(Upd(Q, A, t), A, t)
           /\ \A B \in Nat : UpTo(Q, B) /\ t <= B => UpTo(Upd(Q, A, t), B)
           /\ \A r \in N : DOMAIN Q[r] \subseteq DOMAIN Upd(Q, A, t)[r]
           /\ \A a \in A : a.index \in DOMAIN Upd(Q, A, t)[a.name]
<1> DEFINE P == Upd(Q, A, t)
<1>1. /\ DOMAIN P = N
      /\ \A r \in N :
           /\ DOMAIN P[r] = DOMAIN Q[r] \cup Indices(A, r)
           /\ \A e \in DOMAIN Q[r] \cup Indices(A, r) :
                P[r][e] =
                   IF e \in Indices(A, r) \/ -1 \in Indices(A, r) THEN t
                   ELSE IF e = -2 /\ Indices(A, r) # {} THEN Larger(Q[r][-2], t)
                   ELSE Q[r][e]
    BY Zenon DEF Upd, Table, P
<1> HIDE DEF P
\* What the entries used before are bounded by.
<1>2. \A r \in N :
        /\ -1 \in Indices(A, r) => \A e \in DOMAIN Q[r] : Q[r][e] <= t
        /\ \A e \in Indices(A, r) :
             /\ e \in DOMAIN Q[r] => Q[r][e] <= t
             /\ e \notin DOMAIN Q[r] => Q[r][-1] <= t
  <2> SUFFICES ASSUME NEW r \in N, NEW e \in Indices(A, r)
               PROVE  /\ e = -1 => \A d \in DOMAIN Q[r] : Q[r][d] <= t
                      /\ e \in DOMAIN Q[r] => Q[r][e] <= t
                      /\ e \notin DOMAIN Q[r] => Q[r][-1] <= t
      OBVIOUS
  <2>1. PICK a \in A : a.name = r /\ a.index = e
      BY Zenon DEF Indices
  <2>2. Waits(Q, a) <= t
      OBVIOUS
  <2>3. CASE e = -1
    <3>1. Q[r][-2] <= t
        BY <2>1, <2>2, <2>3 DEF Waits
    <3> QED
        BY <3>1, <2>3 DEF Table
  <2>4. CASE e # -1
      BY <2>1, <2>2, <2>4 DEF Waits
  <2> QED
      BY <2>3, <2>4
<1>3. \A r \in N : \A e \in DOMAIN P[r] :
        /\ P[r][e] \in Nat
        /\ P[r][e] <= P[r][-2]
        /\ e \in DOMAIN Q[r] => P[r][e] >= Q[r][e]
        /\ \A B \in Nat : (UpTo(Q, B) /\ t <= B) => P[r][e] <= B
  <2> SUFFICES ASSUME NEW r \in N, NEW e \in DOMAIN P[r]
               PROVE  /\ P[r][e] \in Nat
                      /\ P[r][e] <= P[r][-2]
                      /\ e \in DOMAIN Q[r] => P[r][e] >= Q[r][e]
                      /\ \A B \in Nat : (UpTo(Q, B) /\ t <= B) => P[r][e] <= B
      OBVIOUS
  <2> DEFINE I == Indices(A, r)
  <2>1. /\ e \in DOMAIN Q[r] \cup I
        /\ -2 \in DOMAIN Q[r] /\ Q[r][-2] \in Nat /\ -2 \notin I
        /\ e \in DOMAIN Q[r] => Q[r][e] \in Nat /\ Q[r][e] <= Q[r][-2]
      BY <1>1, IndicesFacts DEF Table
  <2>2. P[r][e] = IF e \in I \/ -1 \in I THEN t
                  ELSE IF e = -2 /\ I # {} THEN Larger(Q[r][-2], t)
                  ELSE Q[r][e]
      BY <1>1, <2>1
  <2>3. P[r][-2] = IF -1 \in I THEN t
                   ELSE IF I # {} THEN Larger(Q[r][-2], t)
                   ELSE Q[r][-2]
      BY <1>1, <2>1
  <2>4. /\ -1 \in I /\ e \in DOMAIN Q[r] => Q[r][e] <= t
        /\ e \in I /\ e \in DOMAIN Q[r] => Q[r][e] <= t
      BY <1>2
  <2>5. \A B \in Nat : UpTo(Q, B) =>
            Q[r][-2] <= B /\ (e \in DOMAIN Q[r] => Q[r][e] <= B)
      BY <2>1 DEF UpTo, Table
  <2> HIDE DEF I
  <2>6. P[r][e] \in Nat
      BY <2>1, <2>2 DEF Larger
  <2>7. P[r][e] <= P[r][-2]
      BY <2>1, <2>2, <2>3 DEF Larger
  <2>8. e \in DOMAIN Q[r] => P[r][e] >= Q[r][e]
      BY <2>1, <2>2, <2>4 DEF Larger
  <2>9. ASSUME NEW B \in Nat, UpTo(Q, B), t <= B PROVE P[r][e] <= B
      BY <2>1, <2>2, <2>5, <2>9 DEF Larger
  <2> QED
      BY <2>6, <2>7, <2>8, <2>9
<1>4. Table(P, N)
  <2>1. \A r \in N : DOMAIN P[r] \subseteq Int /\ -1 \in DOMAIN P[r] /\ -2 \in DOMAIN P[r]
    <3> SUFFICES ASSUME NEW r \in N
                 PROVE  DOMAIN P[r] \subseteq Int /\ -1 \in DOMAIN P[r] /\ -2 \in DOMAIN P[r]
        OBVIOUS
    <3>1. Indices(A, r) \subseteq Nat \cup {-1}
        BY IndicesFacts, Zenon
    <3> QED
        BY <1>1, <3>1 DEF Table
  <2> QED
      BY <1>1, <1>3, <2>1 DEF Table
<1>5. ASSUME NEW b \in Operand, b.name \in N
      PROVE  /\ Waits(P, b) >= Waits(Q, b)
             /\ (\E a \in A : Overlap(a, b)) => Waits(P, b) >= t
  <2> DEFINE r == b.name
             e == b.index
             I == Indices(A, b.name)
  <2>1. e \in Nat \cup {-1} /\ r \in N
      BY <1>5 DEF Operand
  <2>2. /\ DOMAIN P[r] = DOMAIN Q[r] \cup I
        /\ -1 \in DOMAIN Q[r] /\ -2 \in DOMAIN Q[r] /\ -2 \notin I
        /\ Q[r][-1] \in Nat /\ Q[r][-2] \in Nat
      BY <1>1, <2>1, IndicesFacts DEF Table
  <2>3. \A d \in DOMAIN P[r] :
            /\ P[r][d] \in Nat
            /\ d \in DOMAIN Q[r] => P[r][d] >= Q[r][d]
            /\ d \in I \/ -1 \in I => P[r][d] = t
      BY <1>1, <1>3, <2>1, <2>2
  <2>4. I # {} => P[r][-2] >= t
    <3>1. P[r][-2] = IF -1 \in I THEN t
                     ELSE IF I # {} THEN Larger(Q[r][-2], t)
                     ELSE Q[r][-2]
        BY <1>1, <2>1, <2>2
    <3> QED
        BY <2>2, <3>1 DEF Larger
  <2>5. e \in I /\ e \notin DOMAIN Q[r] => Q[r][-1] <= t
      BY <1>2, <2>1
  <2>6. (\E a \in A : Overlap(a, b)) => I # {} /\ (e = -1 \/ e \in I \/ -1 \in I)
    <3> SUFFICES ASSUME NEW a \in A, Overlap(a, b)
                 PROVE  I # {} /\ (e = -1 \/ e \in I \/ -1 \in I)
        OBVIOUS
    <3>1. a.index \in I
        BY IndicesFacts DEF Overlap
    <3> QED
        BY <3>1 DEF Overlap
  <2>7. Waits(P, b) = IF e = -1 THEN P[r][-2]
                      ELSE IF e \in DOMAIN P[r] THEN P[r][e] ELSE P[r][-1]
      BY DEF Waits
  <2>8. Waits(Q, b) = IF e = -1 THEN Q[r][-2]
                      ELSE IF e \in DOMAIN Q[r] THEN Q[r][e] ELSE Q[r][-1]
      BY DEF Waits
  <2> HIDE DEF r, e, I
  <2>9. Waits(P, b) >= Waits(Q, b)
    <3>1. CASE e = -1
        BY <2>2, <2>3, <2>7, <2>8, <3>1
    <3>2. CASE e # -1 /\ e \in DOMAIN Q[r]
        BY <2>2, <2>3, <2>7, <2>8, <3>2
    <3>3. CASE e # -1 /\ e \notin DOMAIN Q[r] /\ e \in I
        BY <2>2, <2>3, <2>5, <2>7, <2>8, <3>3
    <3>4. CASE e # -1 /\ e \notin DOMAIN Q[r] /\ e \notin I
        BY <2>2, <2>3, <2>7, <2>8, <3>4
    <3> QED
        BY <3>1, <3>2, <3>3, <3>4
  <2>10. I # {} /\ (e = -1 \/ e \in I \/ -1 \in I) => Waits(P, b) >= t
      BY <2>2, <2>3, <2>4, <2>7
  <2> QED
      BY <2>6, <2>9, <2>10
<1>6. Keeps(P, A, t)
  <2> SUFFICES ASSUME NEW b \in Operand, NEW a \in A, Overlap(a, b)
               PROVE  Waits(P, b) >= t
      BY DEF Keeps
  <2>1. b.name \in N
      BY DEF Overlap
  <2> QED
      BY <1>5, <2>1
<1>7. \A B \in Nat : UpTo(Q, B) /\ t <= B => UpTo(P, B)
  <2> SUFFICES ASSUME NEW B \in Nat, UpTo(Q, B), t <= B,
                      NEW r \in N, NEW e \in DOMAIN P[r]
               PROVE  P[r][e] <= B
      BY <1>1 DEF UpTo
  <2> QED
      BY <1>3
<1>8. \A a \in A : a.index \in DOMAIN P[a.name]
  <2> SUFFICES ASSUME NEW a \in A PROVE a.index \in DOMAIN P[a.name]
      OBVIOUS
  <2>1. a.name \in N
      OBVIOUS
  <2>2. a.index \in Indices(A, a.name)
      BY IndicesFacts, Zenon
  <2> QED
      BY <1>1, <2>1, <2>2
<1> QED
    BY <1>1, <1>4, <1>5, <1>6, <1>7, <1>8 DEF P

\* The first measurement, of the element a, when no entry is later than t - 1.
LEMMA MeasKeeps ==
    ASSUME NEW N, NEW Q, Table(Q, N), NEW t \in Nat \ {0}, UpTo(Q, t - 1),
           NEW a \in Operand, a.name \in N, a.index # -1,
           a.index \in DOMAIN Q[a.name]
    PROVE  /\ Table(Meas(Q, a, t), N)
           /\ \A b \in Operand : b.name \in N => Waits(Meas(Q, a, t), b) >= Waits(Q, b)
           /\ Keeps(Meas(Q, a, t), {a}, t)
           /\ UpTo(Meas(Q, a, t), t)
           /\ \A r \in N : DOMAIN Meas(Q, a, t)[r] = DOMAIN Q[r]
<1> DEFINE P == Meas(Q, a, t)
<1>1. /\ DOMAIN P = N
      /\ \A r \in N :
           /\ DOMAIN P[r] = DOMAIN Q[r]
           /\ \A e \in DOMAIN Q[r] :
                P[r][e] = IF r = a.name /\ e \in {a.index, -2} THEN t ELSE t - 1
    BY DEF Meas, Table
<1> HIDE DEF P
<1>2. \A r \in N : \A e \in DOMAIN Q[r] :
        /\ P[r][e] \in Nat /\ P[r][e] <= t /\ P[r][e] >= t - 1
        /\ P[r][e] <= P[r][-2]
        /\ Q[r][e] \in Nat /\ Q[r][e] <= t - 1
    BY <1>1 DEF Table, UpTo
<1>3. Table(P, N)
    BY <1>1, <1>2 DEF Table
<1>4. ASSUME NEW b \in Operand, b.name \in N
      PROVE  Waits(P, b) >= Waits(Q, b)
  <2>1. Waits(P, b) >= t - 1 /\ Waits(P, b) \in Nat
      BY <1>1, <1>2, <1>4 DEF Waits, Table
  <2>2. Waits(Q, b) <= t - 1 /\ Waits(Q, b) \in Nat
      BY <1>2, <1>4 DEF Waits, Table
  <2> QED
      BY <2>1, <2>2
<1>5. Keeps(P, {a}, t)
  <2> SUFFICES ASSUME NEW b \in Operand, Overlap(a, b) PROVE Waits(P, b) >= t
      BY DEF Keeps
  <2>1. b.name = a.name /\ (b.index = -1 \/ b.index = a.index)
      BY DEF Overlap
  <2>2. P[a.name][a.index] = t /\ P[a.name][-2] = t
      BY <1>1 DEF Table
  <2> QED
      BY <1>1, <2>1, <2>2 DEF Waits
<1>6. UpTo(P, t)
    BY <1>1, <1>2 DEF UpTo
<1> QED
    BY <1>1, <1>3, <1>4, <1>5, <1>6 DEF P

-----------------------------------------------------------------------------
(* The body of a function, the durations of its calls.                     *)

Names == {a.name : a \in UNION {args(i) : i \in Calls}}

Here == program \in Programs /\ fn \in DOMAIN program.functions

BodyOk ==
    /\ fn \in Nat \ {0} /\ Len(program.functions) \in Nat
    /\ DOMAIN program.functions = 1 .. Len(program.functions)
    /\ Len(Body(fn)) \in Nat /\ Calls = 1 .. Len(Body(fn))
    /\ \A i \in Calls :
        /\ args(i) \in SUBSET Operand /\ args(i) # {}
        /\ kind(i) \in Gates \cup {"call"}
        /\ kind(i) = "call" => callee(i) \in 1 .. fn - 1
        /\ kind(i) = "MeasZ" => \E a \in args(i) : args(i) = {a} /\ a.index # -1
        /\ \A a \in args(i) : a.name \in Names
    /\ \A f \in DOMAIN program.file : program.file[f] \in Info

LEMMA BodyFacts == Here => BodyOk
<1> SUFFICES ASSUME Here PROVE BodyOk
    OBVIOUS
<1>1. WellFormed(program)
    BY ProgramsAssumption DEF Here
<1>2. program.functions \in Seq(Seq(CallInst))
    BY <1>1 DEF WellFormed
<1>3. /\ fn \in Nat \ {0} /\ Len(program.functions) \in Nat
      /\ DOMAIN program.functions = 1 .. Len(program.functions)
      /\ Body(fn) \in Seq(CallInst)
    BY <1>2 DEF Here, Body
<1>4. /\ Len(Body(fn)) \in Nat /\ Calls = 1 .. Len(Body(fn))
      /\ \A i \in Calls : Body(fn)[i] \in CallInst
    BY <1>3 DEF Calls
<1>5. \A i \in Calls : args(i) \in SUBSET Operand /\ kind(i) \in Gates \cup {"call"}
  <2>1. \A c \in CallInst : c.args \in SUBSET Operand /\ c.kind \in Gates \cup {"call"}
      BY DEF CallInst
  <2> QED
      BY <1>4, <2>1, Zenon DEF args, kind
<1>6. \A i \in Calls :
        /\ args(i) # {}
        /\ kind(i) = "call" => callee(i) \in 1 .. fn - 1
        /\ kind(i) = "MeasZ" => \E a \in args(i) : args(i) = {a} /\ a.index # -1
    BY <1>1, Zenon DEF WellFormed, Here, Calls, Body, args, kind, callee
<1>7. \A i \in Calls : \A a \in args(i) : a.name \in Names
    BY Zenon DEF Names
<1>8. \A f \in DOMAIN program.file : program.file[f] \in Info
    BY <1>1 DEF WellFormed
<1> QED
    BY <1>3, <1>4, <1>5, <1>6, <1>7, <1>8 DEF BodyOk

Region == [kind : Gates \cup {"call"}, gates : Nat]
Size == [width : Nat, length : Nat]

Types ==
    /\ Here
    /\ phase \in {"rank", "place", "over"}
    /\ funcInfo \in Seq(Size)
    /\ fn - 1 <= Len(funcInfo) /\ (phase # "over" => Len(funcInfo) = fn - 1)
    /\ rank \in [Calls -> Nat] /\ start \in [Calls -> Nat \cup {-1}]
    /\ total \in Size /\ curr \in Size
    /\ steps \in Seq(Seq(Region))
    /\ Table(funcQbits, Names)

LEMMA DurationType ==
    ASSUME Types, NEW i \in Calls
    PROVE  /\ Duration(i) \in Nat /\ Lin(i) \in Nat
           /\ kind(i) = "MeasZ" => Duration(i) >= 1
           /\ ~hasPrimitivesOnly(fn) => Win(i) \in Nat
<1>1. BodyOk /\ MOVE_WEIGHT \in Nat
    BY BodyFacts, ConstraintsAssumption DEF Types
<1>2. kind(i) \notin Gates => funcInfo[callee(i)] \in Size
  <2>1. kind(i) \notin Gates => callee(i) \in 1 .. Len(funcInfo)
      BY <1>1 DEF BodyOk, Types
  <2> QED
      BY <2>1 DEF Types
<1>3. Lin(i) \in Nat
    BY <1>1, <1>2 DEF Lin, Size
<1>4. kind(i) = "MeasZ" => Lin(i) >= 1
    BY <1>1 DEF Lin, Gates
<1>5. Win(i) \in Nat
    BY <1>2 DEF Win, Size
<1> QED
    BY <1>3, <1>4, <1>5 DEF Duration

\* A step within a function changes nothing about its calls.
LEMMA SameCalls ==
    ASSUME program' = program, fn' = fn
    PROVE  /\ Calls' = Calls /\ Names' = Names
           /\ \A i \in Calls : args(i)' = args(i)
           /\ \A i, j \in Calls : Shares(i, j)' <=> Shares(i, j)
           /\ hasPrimitivesOnly(fn)' <=> hasPrimitivesOnly(fn)
           /\ funcInfo' = funcInfo => \A i \in Calls : Duration(i)' = Duration(i)
<1>1. Calls' = Calls
    BY DEF Calls, Body
<1>2. \A i \in Calls : args(i)' = args(i) /\ kind(i)' = kind(i) /\ callee(i)' = callee(i)
    BY DEF args, kind, callee, Body
<1>3. \A i, j \in Calls : Shares(i, j)' <=> Shares(i, j)
    BY DEF Shares, args, Body
<1>4. hasPrimitivesOnly(fn)' <=> hasPrimitivesOnly(fn)
    BY DEF hasPrimitivesOnly, Body
<1>5. funcInfo' = funcInfo => \A i \in Calls : Duration(i)' = Duration(i)
    BY <1>2, <1>4, Zenon DEF Duration, Lin
<1>6. Names' = Names
    BY <1>1 DEF Names, args, Body
<1> QED
    BY <1>1, <1>2, <1>3, <1>4, <1>5, <1>6

-----------------------------------------------------------------------------
(* The inductive invariant.                                                *)

Horizon == IF hasPrimitivesOnly(fn) THEN Len(steps) ELSE total.length + curr.length

\* Ranked operands have entries of their own.
OwnEntries ==
    \A i \in Calls : rank[i] # 0 =>
        \A a \in args(i) : a.index \in DOMAIN funcQbits[a.name]

\* Ranks fall from a call to those that wait for it.
RanksFall ==
    \A i, j \in Calls : (i < j /\ Shares(i, j) /\ rank[i] # 0) => rank[i] > rank[j]

Ranking ==
    /\ \A i \in Calls : start[i] = -1
    /\ \E B \in Nat : UpTo(funcQbits, B)
    /\ \A i, j \in Calls : i < j /\ rank[i] # 0 => rank[j] # 0
    /\ \A i \in Calls : rank[i] # 0 => Keeps(funcQbits, args(i), rank[i])
    /\ total = Idle /\ curr = Idle /\ steps = <<>>

InOrder ==
    \A i, j \in Calls : (i < j /\ Shares(i, j) /\ start[j] # -1) => start[i] # -1

EndsKept ==
    \A i \in Calls : start[i] # -1 =>
        Keeps(funcQbits, args(i), start[i] + Duration(i))

PlacingInv ==
    /\ \A i \in Calls : rank[i] # 0
    /\ UpTo(funcQbits, Horizon)
    /\ InOrder
    /\ EndsKept

IInv ==
    /\ Types
    /\ phase # "over" => OwnEntries /\ RanksFall
    /\ phase = "rank" => Ranking
    /\ phase = "place" => PlacingInv
    /\ CallsApart

-----------------------------------------------------------------------------
(* A function begins.                                                      *)

Begun ==
    /\ phase = "rank"
    /\ rank = [i \in Calls |-> 0] /\ start = [i \in Calls |-> -1]
    /\ funcQbits = Fresh(fn)
    /\ total = Idle /\ curr = Idle /\ steps = <<>>
    /\ funcInfo \in Seq(Size) /\ Len(funcInfo) = fn - 1

LEMMA BegunInv == Here /\ Begun => IInv
<1> SUFFICES ASSUME Here, Begun PROVE IInv
    OBVIOUS
<1>1. BodyOk
    BY BodyFacts
<1>2. Fresh(fn) = [r \in Names |-> [e \in {-1, -2} |-> 0]]
    BY DEF Fresh, Names, Calls, args
<1>3. Table(funcQbits, Names)
    BY <1>2 DEF Table, Begun
<1>4. UpTo(funcQbits, 0)
    BY <1>2 DEF UpTo, Begun
<1>5. total \in Size /\ curr \in Size
    BY DEF Begun, Idle, Size
<1>6. steps \in Seq(Seq(Region))
    BY DEF Begun
<1>7. Types
    BY <1>1, <1>3, <1>5, <1>6 DEF Types, Begun, BodyOk
<1>8. OwnEntries /\ RanksFall /\ Ranking
    BY <1>4 DEF OwnEntries, RanksFall, Ranking, Begun
<1>9. CallsApart
    BY DEF CallsApart, PlacedCalls, Begun
<1> QED
    BY <1>7, <1>8, <1>9 DEF IInv, Begun

LEMMA InitInv == Init => IInv
<1> SUFFICES ASSUME Init PROVE IInv
    OBVIOUS
<1>1. WellFormed(program)
    BY ProgramsAssumption DEF Init
<1>2. Here
  <2>1. program.functions \in Seq(Seq(CallInst)) /\ program.functions # <<>>
      BY <1>1 DEF WellFormed
  <2> QED
      BY <2>1 DEF Here, Init
<1>3. Begun
    BY DEF Init, Begun
<1> QED
    BY <1>2, <1>3, BegunInv

LEMMA FinishKeepsInv ==
    ASSUME IInv, phase # "over", NEW info \in Size, Finish(info)
    PROVE  IInv'
<1>1. /\ program' = program /\ funcInfo' = Append(funcInfo, info)
      /\ funcInfo \in Seq(Size) /\ Len(funcInfo) = fn - 1
      /\ BodyOk /\ Here
    BY BodyFacts DEF Finish, IInv, Types
<1>2. /\ funcInfo' \in Seq(Size) /\ Len(funcInfo') = fn
      /\ \A k \in 1 .. Len(funcInfo) : funcInfo'[k] = funcInfo[k]
    BY <1>1 DEF BodyOk
<1>3. CASE fn < Len(program.functions)
  <2>1. /\ BeginFunction(fn + 1) /\ fn' = fn + 1
      BY <1>3 DEF Finish, BeginFunction
  <2>2. Here'
      BY <1>1, <1>3, <2>1 DEF Here, BodyOk
  <2>3. Begun'
    <3>1. /\ phase' = "rank" /\ total' = Idle /\ curr' = Idle /\ steps' = <<>>
          /\ Len(funcInfo') = fn' - 1
        BY <1>1, <1>2, <2>1 DEF BeginFunction, BodyOk
    <3>2. rank' = [i \in Calls' |-> 0] /\ start' = [i \in Calls' |-> -1]
        BY <1>1, <2>1 DEF BeginFunction, Calls, Body
    <3>3. funcQbits' = Fresh(fn)'
        BY <1>1, <2>1 DEF BeginFunction, Fresh, Body
    <3> QED
        BY <1>2, <3>1, <3>2, <3>3 DEF Begun, Idle
  <2> QED
      BY <2>2, <2>3, BegunInv, PTL
<1>4. CASE ~(fn < Len(program.functions))
  <2>1. /\ phase' = "over"
        /\ UNCHANGED <<fn, rank, start, funcQbits, isFirstMeas, total, curr, steps>>
      BY <1>4 DEF Finish
  <2>2. /\ Calls' = Calls /\ Names' = Names
        /\ \A i, j \in Calls : Shares(i, j)' <=> Shares(i, j)
      BY <1>1, <2>1, SameCalls
  <2>3. Types'
      BY <1>1, <1>2, <2>1, <2>2 DEF Types, IInv, Here, BodyOk
  <2>4. \A i \in Calls : Duration(i)' = Duration(i)
    <3> SUFFICES ASSUME NEW i \in Calls PROVE Duration(i)' = Duration(i)
        OBVIOUS
    <3>1. kind(i)' = kind(i) /\ callee(i)' = callee(i)
          /\ (hasPrimitivesOnly(fn)' <=> hasPrimitivesOnly(fn))
        BY <1>1, <2>1 DEF kind, callee, Body, hasPrimitivesOnly
    <3>2. kind(i) \notin Gates => callee(i) \in 1 .. Len(funcInfo)
        BY <1>1 DEF BodyOk
    <3>3. kind(i) \notin Gates => funcInfo'[callee(i)] = funcInfo[callee(i)]
        BY <1>2, <3>2
    <3>4. Lin(i)' = Lin(i)
        BY <3>1, <3>3, Zenon DEF Lin
    <3> QED
        BY <3>1, <3>4, Zenon DEF Duration
  <2>5. CallsApart'
      BY <2>1, <2>2, <2>4 DEF CallsApart, PlacedCalls, IInv
  <2> QED
      BY <2>1, <2>3, <2>5 DEF IInv
<1> QED
    BY <1>3, <1>4

-----------------------------------------------------------------------------
(* Ranking.                                                                *)

\* What a call waits for is the largest of its operands' entries.
LEMMA MaxOfArgs ==
    ASSUME Types, NEW B \in Nat, UpTo(funcQbits, B), NEW i \in Calls
    PROVE  /\ max_ts_of_all_args(i) \in Nat /\ max_ts_of_all_args(i) <= B
           /\ \A a \in args(i) : Waits(funcQbits, a) <= max_ts_of_all_args(i)
<1> DEFINE S == {0} \cup {last_step(a) : a \in args(i)}
<1>1. BodyOk
    BY BodyFacts DEF Types
<1>2. \A a \in args(i) : last_step(a) = Waits(funcQbits, a)
    BY Zenon DEF last_step, Waits
<1>3. \A a \in args(i) : a \in Operand /\ a.name \in Names
    BY <1>1 DEF BodyOk
<1>4. \A a \in args(i) : last_step(a) \in Nat /\ last_step(a) <= B
  <2> SUFFICES ASSUME NEW a \in args(i)
               PROVE  Waits(funcQbits, a) \in Nat /\ Waits(funcQbits, a) <= B
      BY <1>2
  <2>1. Waits(funcQbits, a) \in Nat /\ Waits(funcQbits, a) <= funcQbits[a.name][-2]
      BY <1>3, WaitsType DEF Types
  <2>2. funcQbits[a.name][-2] <= B /\ funcQbits[a.name][-2] \in Nat
      BY <1>3 DEF Types, Table, UpTo
  <2> QED
      BY <2>1, <2>2
<1>5. S \in SUBSET Nat /\ S # {} /\ \A k \in S : k <= B
    BY <1>4
<1>6. Max(S) \in S /\ \A k \in S : k <= Max(S)
  <2> HIDE DEF S
  <2> QED
      BY <1>5, GreatestExists
<1>7. max_ts_of_all_args(i) = Max(S)
    BY DEF max_ts_of_all_args
<1>8. \A a \in args(i) : last_step(a) \in S
    OBVIOUS
<1> HIDE DEF S
<1> QED
    BY <1>2, <1>5, <1>6, <1>7, <1>8

LEMMA UpdatedIsUpd == \A i, t : updated(i, t) = Upd(funcQbits, args(i), t)
BY DEF updated, Upd, Indices

\* What is kept is kept when nothing waits for less, and until any earlier step.
LEMMA StillKept ==
    ASSUME NEW N, NEW Q, NEW P, Table(Q, N), Table(P, N),
           \A b \in Operand : b.name \in N => Waits(P, b) >= Waits(Q, b),
           NEW A, \A a \in A : a.name \in N, NEW t \in Nat, Keeps(Q, A, t)
    PROVE  Keeps(P, A, t)
<1> SUFFICES ASSUME NEW b \in Operand, NEW a \in A, Overlap(a, b)
             PROVE  Waits(P, b) >= t
    BY DEF Keeps
<1>1. b.name \in N
    BY DEF Overlap
<1>2. Waits(P, b) \in Nat /\ Waits(Q, b) \in Nat /\ Waits(P, b) >= Waits(Q, b)
    BY <1>1, WaitsType
<1>3. Waits(Q, b) >= t
    BY DEF Keeps
<1> QED
    BY <1>2, <1>3

LEMMA KeptBefore ==
    ASSUME NEW N, NEW Q, Table(Q, N), NEW A, \A a \in A : a.name \in N,
           NEW t \in Nat, NEW s \in Nat, s <= t, Keeps(Q, A, t)
    PROVE  Keeps(Q, A, s)
<1> SUFFICES ASSUME NEW b \in Operand, NEW a \in A, Overlap(a, b)
             PROVE  Waits(Q, b) >= s
    BY DEF Keeps
<1>1. b.name \in N
    BY DEF Overlap
<1>2. Waits(Q, b) \in Nat
    BY <1>1, WaitsType
<1>3. Waits(Q, b) >= t
    BY DEF Keeps
<1> QED
    BY <1>2, <1>3

\* Calls that share an element have overlapping operands.
LEMMA SharedOperand ==
    ASSUME NEW i, NEW j, Shares(i, j)
    PROVE  \E a \in args(i), b \in args(j) : Overlap(a, b)
BY DEF Shares, Overlap

LEMMA RankCallKeepsInv ==
    ASSUME IInv, RankCall
    PROVE  IInv'
<1> DEFINE i == Max(Unranked)
           t == max_ts_of_all_args(i) + 1
<1>1. /\ phase = "rank" /\ Unranked # {}
      /\ rank' = [rank EXCEPT ![i] = t]
      /\ funcQbits' = updated(i, t)
      /\ UNCHANGED <<program, fn, phase, start, isFirstMeas, total, curr, steps, funcInfo>>
    BY DEF RankCall
<1>2. Types /\ BodyOk /\ Ranking /\ OwnEntries /\ RanksFall
    BY <1>1, BodyFacts DEF IInv, Types
<1>3. i \in Unranked /\ \A k \in Unranked : k <= i
  <2>1. Unranked \in SUBSET Nat /\ \A k \in Unranked : k <= Len(Body(fn))
      BY <1>2 DEF Unranked, BodyOk
  <2> QED
      BY <1>1, <1>2, <2>1, GreatestExists DEF BodyOk
<1>4. i \in Calls /\ rank[i] = 0
    BY <1>3 DEF Unranked
<1>5. PICK B \in Nat : UpTo(funcQbits, B)
    BY <1>2 DEF Ranking
<1>6. /\ t \in Nat \ {0}
      /\ \A a \in args(i) : Waits(funcQbits, a) < t /\ Waits(funcQbits, a) \in Nat
  <2>1. /\ max_ts_of_all_args(i) \in Nat
        /\ \A a \in args(i) : Waits(funcQbits, a) <= max_ts_of_all_args(i)
      BY <1>2, <1>4, <1>5, MaxOfArgs
  <2>2. \A a \in args(i) : Waits(funcQbits, a) \in Nat
    <3> SUFFICES ASSUME NEW a \in args(i) PROVE Waits(funcQbits, a) \in Nat
        OBVIOUS
    <3>1. a \in Operand /\ a.name \in Names
        BY <1>2, <1>4 DEF BodyOk
    <3> QED
        BY <1>2, <3>1, WaitsType DEF Types
  <2> QED
      BY <2>1, <2>2
<1> HIDE DEF i, t
<1>7. /\ Table(funcQbits', Names)
      /\ \A b \in Operand : b.name \in Names => Waits(funcQbits', b) >= Waits(funcQbits, b)
      /\ Keeps(funcQbits', args(i), t)
      /\ \A C \in Nat : UpTo(funcQbits, C) /\ t <= C => UpTo(funcQbits', C)
      /\ \A r \in Names : DOMAIN funcQbits[r] \subseteq DOMAIN funcQbits'[r]
      /\ \A a \in args(i) : a.index \in DOMAIN funcQbits'[a.name]
  <2>1. funcQbits' = Upd(funcQbits, args(i), t)
      BY <1>1, UpdatedIsUpd
  <2>2. /\ Table(funcQbits, Names) /\ args(i) \in SUBSET Operand
        /\ \A a \in args(i) : a.name \in Names /\ Waits(funcQbits, a) <= t
      BY <1>2, <1>4, <1>6 DEF Types, BodyOk
  <2> QED
      BY <1>6, <2>1, <2>2, UpdKeeps
<1>8. /\ Calls' = Calls /\ Names' = Names
      /\ \A k \in Calls : args(k)' = args(k) /\ Duration(k)' = Duration(k)
      /\ \A k, l \in Calls : Shares(k, l)' <=> Shares(k, l)
    BY <1>1, SameCalls
<1>9. /\ rank' \in [Calls -> Nat]
      /\ \A k \in Calls : rank'[k] = IF k = i THEN t ELSE rank[k]
    BY <1>1, <1>2, <1>6 DEF Types
<1>10. Types'
    BY <1>1, <1>2, <1>7, <1>8, <1>9 DEF Types, Here
<1>11. OwnEntries'
  <2> SUFFICES ASSUME NEW k \in Calls, rank'[k] # 0, NEW a \in args(k)
               PROVE  a.index \in DOMAIN funcQbits'[a.name]
      BY <1>8 DEF OwnEntries
  <2>1. k # i => a.index \in DOMAIN funcQbits[a.name]
      BY <1>2, <1>9 DEF OwnEntries
  <2>2. a.name \in Names
      BY <1>2 DEF BodyOk
  <2> QED
      BY <1>7, <2>1, <2>2
<1>12. RanksFall'
  <2> SUFFICES ASSUME NEW k \in Calls, NEW l \in Calls, k < l, Shares(k, l), rank'[k] # 0
               PROVE  rank'[k] > rank'[l]
      BY <1>8 DEF RanksFall
  <2>1. CASE k = i
    <3>1. rank[l] # 0 /\ l # i
        BY <1>2, <1>3, <2>1 DEF Unranked, BodyOk
    <3>2. PICK a \in args(k), b \in args(l) : Overlap(a, b)
        BY SharedOperand
    <3>3. Keeps(funcQbits, args(l), rank[l])
        BY <1>2, <3>1 DEF Ranking
    <3>4. Overlap(b, a) /\ a \in Operand
        BY <1>2, <3>2 DEF BodyOk, Overlap
    <3>5. Waits(funcQbits, a) >= rank[l]
        BY <3>3, <3>4 DEF Keeps
    <3>6. Waits(funcQbits, a) < t /\ Waits(funcQbits, a) \in Nat
        BY <1>6, <2>1
    <3> QED
        BY <1>2, <1>6, <1>9, <2>1, <3>1, <3>5, <3>6 DEF Types
  <2>2. CASE k # i
    <3>1. rank[k] # 0
        BY <1>9, <2>2
    <3>2. rank[l] # 0
        BY <1>2, <3>1 DEF Ranking
    <3> QED
        BY <1>2, <1>4, <1>9, <2>2, <3>1, <3>2 DEF RanksFall
  <2> QED
      BY <2>1, <2>2
<1>13. Ranking'
  <2>1. UpTo(funcQbits', Larger(B, t)) /\ Larger(B, t) \in Nat
    <3>1. Larger(B, t) \in Nat /\ B <= Larger(B, t) /\ t <= Larger(B, t)
        BY <1>5, <1>6 DEF Larger
    <3>2. UpTo(funcQbits, Larger(B, t))
        BY <1>2, <1>5, <3>1 DEF UpTo, Types, Table
    <3> QED
        BY <1>7, <3>1, <3>2
  <2>2. \A k, l \in Calls : k < l /\ rank'[k] # 0 => rank'[l] # 0
    <3> SUFFICES ASSUME NEW k \in Calls, NEW l \in Calls, k < l, rank'[k] # 0
                 PROVE  rank'[l] # 0
        OBVIOUS
    <3>1. CASE k = i
        BY <1>2, <1>3, <1>6, <1>9, <3>1 DEF Unranked, BodyOk
    <3>2. CASE k # i
        BY <1>2, <1>6, <1>9, <3>2 DEF Ranking
    <3> QED
        BY <3>1, <3>2
  <2>3. ASSUME NEW k \in Calls, rank'[k] # 0
        PROVE  Keeps(funcQbits', args(k), rank'[k])
    <3>1. CASE k = i
        BY <1>7, <1>9, <3>1
    <3>2. CASE k # i
      <4>1. Keeps(funcQbits, args(k), rank[k]) /\ rank'[k] = rank[k] /\ rank[k] \in Nat
          BY <1>2, <1>9, <2>3, <3>2 DEF Ranking, Types
      <4>2. \A a \in args(k) : a.name \in Names
          BY <1>2 DEF BodyOk
      <4> QED
          BY <1>2, <1>7, <4>1, <4>2, StillKept DEF Types
    <3> QED
        BY <3>1, <3>2
  <2>4. /\ \A k \in Calls : start'[k] = -1
        /\ total' = Idle /\ curr' = Idle /\ steps' = <<>>
      BY <1>1, <1>2 DEF Ranking
  <2>5. Idle' = Idle
      BY DEF Idle
  <2> QED
      BY <1>8, <2>1, <2>2, <2>3, <2>4, <2>5 DEF Ranking
<1>14. CallsApart'
  <2>1. PlacedCalls' = {}
      BY <1>1, <1>2, <1>8 DEF PlacedCalls, Ranking
  <2> QED
      BY <2>1 DEF CallsApart
<1> QED
    BY <1>1, <1>10, <1>11, <1>12, <1>13, <1>14 DEF IInv

LEMMA StartPlacingKeepsInv ==
    ASSUME IInv, StartPlacing
    PROVE  IInv'
<1>1. /\ phase = "rank" /\ Unranked = {} /\ phase' = "place"
      /\ funcQbits' = memset_funcQbits(0)
      /\ UNCHANGED <<program, fn, rank, start, isFirstMeas, total, curr, steps, funcInfo>>
    BY DEF StartPlacing
<1>2. Types /\ BodyOk /\ Ranking /\ OwnEntries /\ RanksFall
    BY <1>1, BodyFacts DEF IInv, Types
<1>3. /\ DOMAIN funcQbits' = Names
      /\ \A r \in Names :
           /\ DOMAIN funcQbits'[r] = DOMAIN funcQbits[r]
           /\ \A e \in DOMAIN funcQbits[r] : funcQbits'[r][e] = 0
    BY <1>1, <1>2 DEF memset_funcQbits, Types, Table
<1>4. Table(funcQbits', Names) /\ UpTo(funcQbits', 0)
    BY <1>2, <1>3 DEF Table, UpTo, Types
<1>5. /\ Calls' = Calls /\ Names' = Names
      /\ \A k \in Calls : args(k)' = args(k)
      /\ \A k, l \in Calls : Shares(k, l)' <=> Shares(k, l)
    BY <1>1, SameCalls
<1>6. Types'
    BY <1>1, <1>2, <1>4, <1>5 DEF Types, Here
<1>7. OwnEntries'
  <2> SUFFICES ASSUME NEW k \in Calls, rank[k] # 0, NEW a \in args(k)
               PROVE  a.index \in DOMAIN funcQbits'[a.name]
      BY <1>1, <1>5 DEF OwnEntries
  <2> QED
      BY <1>2, <1>3 DEF OwnEntries, BodyOk
<1>8. RanksFall'
    BY <1>1, <1>2, <1>5 DEF RanksFall
<1>9. \A i \in Calls : start'[i] = -1 /\ rank'[i] # 0
    BY <1>1, <1>2 DEF Ranking, Unranked
<1>10. Horizon' \in Nat
    BY <1>6 DEF Horizon, Types, Size
<1>11. UpTo(funcQbits', Horizon')
    BY <1>3, <1>10 DEF UpTo
<1>12. PlacingInv'
    BY <1>5, <1>9, <1>11 DEF PlacingInv, InOrder, EndsKept
<1>13. CallsApart'
  <2>1. PlacedCalls' = {}
      BY <1>5, <1>9 DEF PlacedCalls
  <2> QED
      BY <2>1 DEF CallsApart
<1> QED
    BY <1>1, <1>6, <1>7, <1>8, <1>12, <1>13 DEF IInv

-----------------------------------------------------------------------------
(* Placing.                                                                *)

\* Where the search for a place begins, no operand is in use any more; for the
\* first measurement no qubit at all is.
LEMMA SearchBegins ==
    ASSUME Types, NEW B \in Nat, UpTo(funcQbits, B), NEW i \in Calls
    PROVE  /\ ts(i) \in Nat /\ ts(i) <= B
           /\ \A a \in args(i) : Waits(funcQbits, a) <= ts(i)
           /\ kind(i) = "MeasZ" /\ isFirstMeas => UpTo(funcQbits, ts(i))
<1>1. BodyOk
    BY BodyFacts DEF Types
<1>2. CASE ~(kind(i) = "MeasZ" /\ isFirstMeas)
  <2>1. ts(i) = max_ts_of_all_args(i)
      BY <1>2 DEF ts
  <2> QED
      BY <1>2, <2>1, MaxOfArgs
<1>3. CASE kind(i) = "MeasZ" /\ isFirstMeas
  <2> DEFINE S == {0} \cup {funcQbits[r][-2] : r \in DOMAIN funcQbits}
  <2>1. \A r \in DOMAIN funcQbits : funcQbits[r][-2] \in Nat /\ funcQbits[r][-2] <= B
      BY DEF Types, Table, UpTo
  <2>2. S \in SUBSET Nat /\ S # {} /\ \A k \in S : k <= B
      BY <2>1
  <2>3. Max(S) \in S /\ \A k \in S : k <= Max(S)
    <3> HIDE DEF S
    <3> QED
        BY <2>2, GreatestExists
  <2>4. ts(i) = Max(S)
      BY <1>3 DEF ts
  <2>5. \A r \in DOMAIN funcQbits : funcQbits[r][-2] \in S
      OBVIOUS
  <2> HIDE DEF S
  <2>6. ts(i) \in Nat /\ ts(i) <= B
      BY <2>2, <2>3, <2>4
  <2>7. \A r \in Names : funcQbits[r][-2] <= ts(i) /\ funcQbits[r][-2] \in Nat
      BY <2>1, <2>3, <2>4, <2>5 DEF Types, Table
  <2>8. UpTo(funcQbits, ts(i))
      BY <2>6, <2>7 DEF Types, Table, UpTo
  <2>9. ASSUME NEW a \in args(i) PROVE Waits(funcQbits, a) <= ts(i)
    <3>1. a \in Operand /\ a.name \in Names
        BY <1>1 DEF BodyOk
    <3>2. /\ Waits(funcQbits, a) \in Nat
          /\ Waits(funcQbits, a) <= funcQbits[a.name][-2]
        BY <3>1, WaitsType DEF Types
    <3> QED
        BY <2>6, <2>7, <3>1, <3>2
  <2> QED
      BY <2>6, <2>8, <2>9
<1> QED
    BY <1>2, <1>3

\* What placing call i does to the table, measurement or not.
LEMMA PlaceTable ==
    ASSUME Types, OwnEntries, NEW B \in Nat, UpTo(funcQbits, B),
           NEW i \in Calls, rank[i] # 0,
           NEW first \in Nat, NEW t \in Nat, Place(i, first, t),
           ts(i) <= first, first + Duration(i) <= t
    PROVE  /\ Table(funcQbits', Names)
           /\ \A b \in Operand : b.name \in Names => Waits(funcQbits', b) >= Waits(funcQbits, b)
           /\ Keeps(funcQbits', args(i), t)
           /\ \A C \in Nat : UpTo(funcQbits, C) /\ t <= C => UpTo(funcQbits', C)
           /\ \A r \in Names : DOMAIN funcQbits[r] \subseteq DOMAIN funcQbits'[r]
<1>1. BodyOk /\ Duration(i) \in Nat /\ (kind(i) = "MeasZ" => Duration(i) >= 1)
    BY BodyFacts, DurationType DEF Types
<1>2. /\ ts(i) \in Nat
      /\ \A a \in args(i) : Waits(funcQbits, a) <= ts(i)
      /\ kind(i) = "MeasZ" /\ isFirstMeas => UpTo(funcQbits, ts(i))
    BY SearchBegins
<1>3. CASE ~(kind(i) = "MeasZ" /\ isFirstMeas)
  <2>1. funcQbits' = Upd(funcQbits, args(i), t)
      BY <1>3, UpdatedIsUpd DEF Place
  <2>2. \A a \in args(i) : a \in Operand /\ a.name \in Names
      BY <1>1 DEF BodyOk
  <2>3. ASSUME NEW a \in args(i) PROVE Waits(funcQbits, a) <= t
    <3>1. Waits(funcQbits, a) \in Nat
        BY <2>2, WaitsType DEF Types
    <3>2. Waits(funcQbits, a) <= ts(i)
        BY <1>2
    <3> QED
        BY <1>1, <1>2, <3>1, <3>2
  <2>4. Table(funcQbits, Names) /\ args(i) \in SUBSET Operand
      BY <1>1 DEF Types, BodyOk
  <2> QED
      BY <2>1, <2>2, <2>3, <2>4, UpdKeeps
<1>4. CASE kind(i) = "MeasZ" /\ isFirstMeas
  <2>1. PICK a \in args(i) : funcQbits' = measured(a, t)
      BY <1>4 DEF Place
  <2>2. args(i) = {a} /\ a.index # -1 /\ a \in Operand /\ a.name \in Names
    <3>1. \E c \in args(i) : args(i) = {c} /\ c.index # -1
        BY <1>1, <1>4 DEF BodyOk
    <3> QED
        BY <1>1, <3>1 DEF BodyOk
  <2>3. funcQbits' = Meas(funcQbits, a, t)
      BY <2>1 DEF measured, Meas
  <2>4. a.index \in DOMAIN funcQbits[a.name]
      BY DEF OwnEntries
  <2>5. t \in Nat \ {0} /\ UpTo(funcQbits, t - 1)
    <3>1. t # 0 /\ ts(i) <= t - 1
        BY <1>1, <1>2, <1>4
    <3>2. UpTo(funcQbits, ts(i))
        BY <1>2, <1>4
    <3> QED
        BY <1>2, <3>1, <3>2 DEF UpTo, Types, Table
  <2>6. /\ Table(funcQbits', Names)
        /\ \A b \in Operand : b.name \in Names => Waits(funcQbits', b) >= Waits(funcQbits, b)
        /\ Keeps(funcQbits', {a}, t)
        /\ UpTo(funcQbits', t)
        /\ \A r \in Names : DOMAIN funcQbits'[r] = DOMAIN funcQbits[r]
    <3>1. Table(funcQbits, Names)
        BY DEF Types
    <3> DEFINE P == Meas(funcQbits, a, t)
    <3>2. /\ Table(P, Names)
          /\ \A b \in Operand : b.name \in Names => Waits(P, b) >= Waits(funcQbits, b)
          /\ Keeps(P, {a}, t)
          /\ UpTo(P, t)
          /\ \A r \in Names : DOMAIN P[r] = DOMAIN funcQbits[r]
      <4> HIDE DEF P
      <4>1. P = Meas(funcQbits, a, t)
          BY DEF P
      <4> QED
          BY <2>2, <2>4, <2>5, <3>1, <4>1, MeasKeeps
    <3>3. funcQbits' = P
        BY <2>3
    <3> QED
        BY <3>2, <3>3
  <2>7. ASSUME NEW C \in Nat, t <= C PROVE UpTo(funcQbits', C)
      BY <2>6, <2>7 DEF UpTo, Table
  <2> QED
      BY <2>2, <2>6, <2>7
<1> QED
    BY <1>3, <1>4

\* A call placed no earlier than its search began, and kept until it has ended.
LEMMA PlaceKeepsInv ==
    ASSUME IInv, NEW i \in Calls, Placing(i),
           NEW first \in Nat, NEW t \in Nat, Place(i, first, t),
           ts(i) <= first, first + Duration(i) <= t,
           UNCHANGED <<program, fn, phase, rank, funcInfo>>,
           total' \in Size, curr' \in Size, steps' \in Seq(Seq(Region)),
           Horizon \in Nat, Horizon' \in Nat, Horizon <= Horizon', t <= Horizon'
    PROVE  IInv'
<1>1. /\ Types /\ BodyOk /\ OwnEntries /\ RanksFall /\ PlacingInv /\ CallsApart
      /\ phase = "place" /\ Turn(i)
    BY BodyFacts DEF IInv, Types, Placing
<1>2. /\ UpTo(funcQbits, Horizon)
      /\ \A j \in Calls : rank[j] # 0
    BY <1>1 DEF PlacingInv
<1>3. /\ Table(funcQbits', Names)
      /\ \A b \in Operand : b.name \in Names => Waits(funcQbits', b) >= Waits(funcQbits, b)
      /\ Keeps(funcQbits', args(i), t)
      /\ \A C \in Nat : UpTo(funcQbits, C) /\ t <= C => UpTo(funcQbits', C)
      /\ \A r \in Names : DOMAIN funcQbits[r] \subseteq DOMAIN funcQbits'[r]
    BY <1>1, <1>2, PlaceTable
<1>4. /\ Calls' = Calls /\ Names' = Names
      /\ \A k \in Calls : args(k)' = args(k) /\ Duration(k)' = Duration(k)
      /\ \A k, l \in Calls : Shares(k, l)' <=> Shares(k, l)
    BY SameCalls
<1>5. /\ start' \in [Calls -> Nat \cup {-1}]
      /\ \A k \in Calls : start'[k] = IF k = i THEN first ELSE start[k]
    BY <1>1 DEF Place, Types
<1>6. \A k \in Calls :
        /\ Duration(k) \in Nat
        /\ start[k] # -1 => start[k] \in Nat
        /\ \A a \in args(k) : a \in Operand /\ a.name \in Names
  <2>1. \A k \in Calls : Duration(k) \in Nat
      BY <1>1, DurationType
  <2> QED
      BY <1>1, <2>1 DEF Types, BodyOk
<1>7. Types'
    BY <1>1, <1>3, <1>4, <1>5 DEF Types, Here
<1>8. OwnEntries'
  <2> SUFFICES ASSUME NEW k \in Calls, NEW a \in args(k)
               PROVE  a.index \in DOMAIN funcQbits'[a.name]
      BY <1>4 DEF OwnEntries
  <2>1. a.index \in DOMAIN funcQbits[a.name] /\ a.name \in Names
      BY <1>1, <1>2, <1>6 DEF OwnEntries
  <2> QED
      BY <1>3, <2>1
<1>9. RanksFall'
    BY <1>1, <1>4 DEF RanksFall
<1>10. UpTo(funcQbits', Horizon')
  <2>1. UpTo(funcQbits, Horizon')
      BY <1>1, <1>2 DEF UpTo, Types, Table
  <2> QED
      BY <1>3, <2>1
\* A call that the placed one waits for has a higher rank: it is placed.
<1>11. \A k \in Calls : k < i /\ Shares(k, i) => start[k] # -1
  <2> SUFFICES ASSUME NEW k \in Calls, k < i, Shares(k, i), start[k] = -1 PROVE FALSE
      OBVIOUS
  <2>1. rank[k] > rank[i]
      BY <1>1, <1>2 DEF RanksFall
  <2>2. rank[k] <= rank[i]
      BY <1>1 DEF Turn
  <2> QED
      BY <1>1, <2>1, <2>2 DEF Types
<1>12. InOrder'
  <2> SUFFICES ASSUME NEW k \in Calls, NEW l \in Calls, k < l, Shares(k, l),
                      start'[l] # -1
               PROVE  start'[k] # -1
      BY <1>4 DEF InOrder
  <2>1. CASE l = i
      BY <1>5, <1>11, <2>1
  <2>2. CASE l # i
      BY <1>1, <1>5, <2>2 DEF PlacingInv, InOrder
  <2> QED
      BY <2>1, <2>2
<1>13. EndsKept'
  <2> SUFFICES ASSUME NEW k \in Calls, start'[k] # -1
               PROVE  Keeps(funcQbits', args(k), start'[k] + Duration(k))
      BY <1>4 DEF EndsKept
  <2>1. CASE k = i
    <3>1. first + Duration(i) \in Nat
        BY <1>6
    <3>2. Keeps(funcQbits', args(i), first + Duration(i))
        BY <1>3, <1>6, <3>1, KeptBefore
    <3> QED
        BY <1>5, <2>1, <3>2
  <2>2. CASE k # i
    <3>1. start'[k] = start[k] /\ start[k] # -1
        BY <1>5, <2>2
    <3>2. Keeps(funcQbits, args(k), start[k] + Duration(k)) /\ start[k] + Duration(k) \in Nat
        BY <1>1, <1>6, <3>1 DEF PlacingInv, EndsKept
    <3>3. Table(funcQbits, Names)
        BY <1>1 DEF Types
    <3> QED
        BY <1>3, <1>6, <3>1, <3>2, <3>3, StillKept
  <2> QED
      BY <2>1, <2>2
<1>14. CallsApart'
  <2> SUFFICES ASSUME NEW k \in Calls, NEW l \in Calls, start'[k] # -1, start'[l] # -1,
                      k < l, Shares(k, l)
               PROVE  start'[k] + Duration(k) <= start'[l]
      BY <1>4 DEF CallsApart, PlacedCalls
  <2>1. CASE l = i
    <3>1. k # i /\ start'[k] = start[k] /\ start[k] # -1 /\ start'[l] = first
        BY <1>1, <1>5, <1>11, <2>1 DEF BodyOk
    <3>2. PICK a \in args(k), b \in args(l) : Overlap(a, b)
        BY SharedOperand
    <3>3. Keeps(funcQbits, args(k), start[k] + Duration(k))
        BY <1>1, <3>1 DEF PlacingInv, EndsKept
    <3>4. Waits(funcQbits, b) >= start[k] + Duration(k)
        BY <1>6, <3>2, <3>3 DEF Keeps
    <3>5. Waits(funcQbits, b) <= ts(i) /\ ts(i) \in Nat
        BY <1>1, <1>2, <2>1, SearchBegins
    <3>6. Waits(funcQbits, b) \in Nat
        BY <1>1, <1>6, WaitsType DEF Types
    <3> QED
        BY <1>6, <3>1, <3>4, <3>5, <3>6
  <2>2. CASE k = i
    <3>1. start[l] # -1
        BY <1>1, <1>5, <2>2 DEF BodyOk
    <3>2. start[i] # -1
        BY <1>1, <2>2, <3>1 DEF PlacingInv, InOrder
    <3> QED
        BY <1>1, <3>2 DEF Turn
  <2>3. CASE k # i /\ l # i
      BY <1>1, <1>5, <2>3 DEF CallsApart, PlacedCalls
  <2> QED
      BY <2>1, <2>2, <2>3
<1>15. PlacingInv'
    BY <1>2, <1>4, <1>10, <1>12, <1>13 DEF PlacingInv
<1> QED
    BY <1>1, <1>7, <1>8, <1>9, <1>14, <1>15 DEF IInv

LEMMA WindowsKeepInv ==
    ASSUME IInv, NEW i \in Calls, PlaceInWindow(i) \/ PlaceInNewWindow(i)
    PROVE  IInv'
<1>1. /\ Types /\ BodyOk /\ PlacingInv /\ Placing(i) /\ ~hasPrimitivesOnly(fn)
      /\ UNCHANGED <<program, fn, phase, rank, steps, funcInfo>>
    BY BodyFacts DEF IInv, Types, Placing, PlaceInWindow, PlaceInNewWindow
<1>2. /\ total.length \in Nat /\ total.width \in Nat
      /\ curr.length \in Nat /\ curr.width \in Nat
      /\ Win(i) \in Nat /\ Lin(i) \in Nat
      /\ Duration(i) = Lin(i)
    BY <1>1, DurationType DEF Types, Size, Duration
<1>3. Horizon = total.length + curr.length /\ Horizon' = total'.length + curr'.length
    BY <1>1, SameCalls DEF Horizon
<1>4. /\ Horizon \in Nat /\ UpTo(funcQbits, Horizon)
      /\ steps' \in Seq(Seq(Region))
    BY <1>1, <1>2, <1>3 DEF PlacingInv, Types
<1>5. ts(i) \in Nat /\ ts(i) <= Horizon
    BY <1>1, <1>4, SearchBegins
<1>6. CASE PlaceInWindow(i)
  <2> DEFINE first == Larger(ts(i), total.length)
             len == window_length(i, first)
             t == total.length + len
  <2>1. /\ curr' = [width |-> curr.width + Win(i), length |-> len]
        /\ total' = total
        /\ Place(i, first, t)
      BY <1>6 DEF PlaceInWindow
  <2>2. /\ first \in Nat /\ ts(i) <= first /\ total.length <= first
      BY <1>2, <1>5 DEF Larger
  <2>3. /\ len \in Nat /\ curr.length <= len /\ first - total.length + Lin(i) <= len
      BY <1>2, <2>2 DEF Larger, window_length
  <2> HIDE DEF first, len
  <2>4. t \in Nat /\ first + Duration(i) <= t
      BY <1>2, <2>2, <2>3
  <2>5. curr' \in Size /\ total' \in Size /\ curr'.length = len
      BY <1>1, <1>2, <2>1, <2>3 DEF Size, Types
  <2>6. Horizon' \in Nat /\ Horizon <= Horizon' /\ t <= Horizon'
      BY <1>2, <1>3, <2>1, <2>3, <2>5
  <2> HIDE DEF t
  <2> QED
      BY <1>1, <1>4, <2>1, <2>2, <2>4, <2>5, <2>6, PlaceKeepsInv
<1>7. CASE PlaceInNewWindow(i)
  <2> DEFINE first == total.length + curr.length
             t == first + Lin(i)
  <2>1. /\ total' = [width |-> Larger(total.width, curr.width), length |-> first]
        /\ curr' = [width |-> Win(i), length |-> Lin(i)]
        /\ Place(i, first, t)
      BY <1>7 DEF PlaceInNewWindow
  <2>2. /\ total' \in Size /\ curr' \in Size
        /\ total'.length = first /\ curr'.length = Lin(i)
      BY <1>2, <2>1 DEF Size, Larger
  <2>3. /\ first \in Nat /\ t \in Nat /\ ts(i) <= first /\ first + Duration(i) <= t
        /\ Horizon' \in Nat /\ Horizon <= Horizon' /\ t <= Horizon'
      BY <1>2, <1>3, <1>5, <2>2
  <2> HIDE DEF first, t
  <2> QED
      BY <1>1, <1>4, <2>1, <2>2, <2>3, PlaceKeepsInv
<1> QED
    BY <1>6, <1>7

\* A step with one gate more.
LEMMA WithGateType ==
    ASSUME NEW step \in Seq(Region), NEW k \in Gates \cup {"call"}
    PROVE  WithGate(step, k) \in Seq(Region)
<1> DEFINE shared == {j \in DOMAIN step : HasRoom(step[j], k)}
<1>1. CASE shared # {}
  <2>1. shared \in SUBSET Nat /\ \A j \in shared : j \in DOMAIN step
      OBVIOUS
  <2>2. Min(shared) \in DOMAIN step
    <3> HIDE DEF shared
    <3>1. Min(shared) \in shared
        BY <1>1, <2>1, LeastExists
    <3> QED
        BY <2>1, <3>1
  <2>3. WithGate(step, k) = [step EXCEPT ![Min(shared)].gates = @ + 1]
      BY <1>1 DEF WithGate
  <2> HIDE DEF shared
  <2>4. step[Min(shared)] \in Region
      BY <2>2
  <2>5. [step[Min(shared)] EXCEPT !.gates = @ + 1] \in Region
      BY <2>4 DEF Region
  <2>6. [step EXCEPT ![Min(shared)] = [step[Min(shared)] EXCEPT !.gates = @ + 1]] \in Seq(Region)
      BY <2>2, <2>5
  <2> QED
      BY <2>3, <2>6
<1>2. CASE shared = {}
  <2>1. [kind |-> k, gates |-> 1] \in Region
      BY DEF Region
  <2>2. WithGate(step, k) = Append(step, [kind |-> k, gates |-> 1])
      BY <1>2 DEF WithGate
  <2> QED
      BY <2>1, <2>2
<1> QED
    BY <1>1, <1>2

LEMMA GateKeepsInv ==
    ASSUME IInv, NEW i \in Calls, PlaceGate(i)
    PROVE  IInv'
<1> DEFINE n == IF Suitable(i) # {} THEN Min(Suitable(i)) ELSE Len(steps) + 1
<1>1. /\ Types /\ BodyOk /\ PlacingInv /\ Placing(i) /\ hasPrimitivesOnly(fn)
      /\ UNCHANGED <<program, fn, phase, rank, total, funcInfo>>
      /\ steps' = IF n \in DOMAIN steps
                  THEN [steps EXCEPT ![n] = WithGate(@, kind(i))]
                  ELSE Append(steps, WithGate(<<>>, kind(i)))
      /\ curr' = [width |-> Larger(curr.width, Len(steps'[n])), length |-> Len(steps')]
      /\ Place(i, n - 1, n)
    BY BodyFacts DEF IInv, Types, Placing, PlaceGate
<1>2. /\ steps \in Seq(Seq(Region)) /\ Len(steps) \in Nat
      /\ DOMAIN steps = 1 .. Len(steps)
      /\ kind(i) \in Gates \cup {"call"}
    BY <1>1 DEF Types, BodyOk
<1>3. Horizon = Len(steps) /\ Horizon' = Len(steps')
    BY <1>1, SameCalls DEF Horizon
<1>4. ts(i) \in Nat /\ ts(i) <= Len(steps)
    BY <1>1, <1>2, <1>3, SearchBegins DEF PlacingInv
<1>5. /\ n \in Nat /\ ts(i) < n /\ n <= Len(steps) + 1
      /\ n \notin DOMAIN steps => n = Len(steps) + 1
  <2>1. CASE Suitable(i) # {}
    <3>1. Suitable(i) \in SUBSET Nat
          /\ \A k \in Suitable(i) : k \in DOMAIN steps /\ ts(i) < k
        BY <1>2 DEF Suitable
    <3>2. Min(Suitable(i)) \in Suitable(i)
        BY <2>1, <3>1, LeastExists
    <3> QED
        BY <1>2, <2>1, <3>1, <3>2
  <2>2. CASE Suitable(i) = {}
      BY <1>2, <1>4, <2>2
  <2> QED
      BY <2>1, <2>2
<1> HIDE DEF n
<1>6. /\ steps' \in Seq(Seq(Region)) /\ Len(steps') \in Nat
      /\ Len(steps) <= Len(steps') /\ n \in 1 .. Len(steps')
  <2>1. CASE n \in DOMAIN steps
    <3>1. steps[n] \in Seq(Region)
        BY <1>2, <2>1
    <3>2. WithGate(steps[n], kind(i)) \in Seq(Region)
        BY <1>2, <3>1, WithGateType
    <3>3. steps' = [steps EXCEPT ![n] = WithGate(steps[n], kind(i))]
        BY <1>1, <2>1
    <3> QED
        BY <1>2, <2>1, <3>2, <3>3
  <2>2. CASE n \notin DOMAIN steps
    <3>1. << >> \in Seq(Region)
        OBVIOUS
    <3>2. WithGate(<<>>, kind(i)) \in Seq(Region)
        BY <1>2, <3>1, WithGateType
    <3>3. steps' = Append(steps, WithGate(<<>>, kind(i)))
        BY <1>1, <2>2
    <3> QED
        BY <1>2, <1>5, <2>2, <3>2, <3>3
  <2> QED
      BY <2>1, <2>2
<1>7. steps'[n] \in Seq(Region)
    BY <1>6
<1>8. curr' \in Size /\ total' \in Size
  <2>1. Len(steps'[n]) \in Nat
      BY <1>7
  <2> QED
      BY <1>1, <1>6, <2>1 DEF Size, Types, Larger
<1>9. Duration(i) = 1 /\ n - 1 \in Nat
    BY <1>1, <1>4, <1>5 DEF Duration
<1>10. /\ ts(i) <= n - 1 /\ (n - 1) + Duration(i) <= n
       /\ Horizon \in Nat /\ Horizon' \in Nat /\ Horizon <= Horizon' /\ n <= Horizon'
    BY <1>2, <1>3, <1>4, <1>5, <1>6, <1>9
<1> QED
    BY <1>1, <1>5, <1>6, <1>8, <1>9, <1>10, PlaceKeepsInv

-----------------------------------------------------------------------------
LEMMA NextInv == IInv /\ [Next]_vars => IInv'
<1> SUFFICES ASSUME IInv, [Next]_vars PROVE IInv'
    OBVIOUS
<1>1. CASE RankCall
    BY <1>1, RankCallKeepsInv
<1>2. CASE StartPlacing
    BY <1>2, StartPlacingKeepsInv
<1>3. ASSUME NEW i \in Calls, PlaceInWindow(i) \/ PlaceInNewWindow(i) PROVE IInv'
    BY <1>3, WindowsKeepInv
<1>4. ASSUME NEW i \in Calls, PlaceGate(i) PROVE IInv'
    BY <1>4, GateKeepsInv
<1>5. CASE TakeFromFile
  <2>1. phase = "rank" /\ fn \in DOMAIN program.file /\ Finish(program.file[fn])
      BY <1>5 DEF TakeFromFile
  <2>2. program.file[fn] \in Info /\ RES_CONSTRAINT \in Nat
      BY <2>1, BodyFacts, ConstraintsAssumption DEF IInv, Types, BodyOk
  <2>3. program.file[fn] \in Size
      BY <2>2 DEF Info, Size
  <2> QED
      BY <2>1, <2>3, FinishKeepsInv
<1>6. CASE save_blackbox_info
  <2> DEFINE info == [width |-> Larger(total.width, curr.width),
                      length |-> total.length + curr.length]
  <2>1. phase = "place" /\ Finish(info)
      BY <1>6 DEF save_blackbox_info
  <2>2. total \in Size /\ curr \in Size
      BY DEF IInv, Types
  <2>3. info \in Size
      BY <2>2 DEF Size, Larger
  <2> HIDE DEF info
  <2> QED
      BY <2>1, <2>3, FinishKeepsInv
<1>7. CASE UNCHANGED vars
  <2>1. /\ Calls' = Calls /\ Names' = Names
        /\ \A k \in Calls : args(k)' = args(k) /\ Duration(k)' = Duration(k)
        /\ \A k, l \in Calls : Shares(k, l)' <=> Shares(k, l)
        /\ hasPrimitivesOnly(fn)' <=> hasPrimitivesOnly(fn)
      BY <1>7, SameCalls DEF vars
  <2>2. UNCHANGED <<program, fn, phase, rank, start, funcQbits, total, curr, steps, funcInfo>>
      BY <1>7 DEF vars
  <2>3. Types'
      BY <2>1, <2>2 DEF IInv, Types, Here
  <2>4. Horizon' = Horizon
      BY <2>1, <2>2 DEF Horizon
  <2>5. (phase # "over" => OwnEntries /\ RanksFall)'
      BY <2>1, <2>2 DEF IInv, OwnEntries, RanksFall
  <2>6. (phase = "rank" => Ranking)'
      BY <2>1, <2>2 DEF IInv, Ranking, Idle
  <2>7. (phase = "place" => PlacingInv)'
      BY <2>1, <2>2, <2>4 DEF IInv, PlacingInv, InOrder, EndsKept
  <2>8. CallsApart'
      BY <2>1, <2>2 DEF IInv, CallsApart, PlacedCalls
  <2> QED
      BY <2>3, <2>5, <2>6, <2>7, <2>8 DEF IInv
<1> QED
    BY <1>1, <1>2, <1>3, <1>4, <1>5, <1>6, <1>7 DEF Next, Ended

\* The pass keeps to the invariant, for any program and any machine.
THEOREM CoarseIInv == Spec => []IInv
BY InitInv, NextInv, PTL DEF Spec

\* calc_critical_time (963) places calls with an element in common one after
\* the other, in the order of the program.
THEOREM CallsApartHolds == Spec => []CallsApart
<1>1. IInv => CallsApart
    BY DEF IInv
<1> QED
    BY <1>1, CoarseIInv, PTL

-----------------------------------------------------------------------------
(* Sums over finite sets.                                                  *)

\* Induction, for a set instead of a property: this form has no operator as a
\* parameter.
LEMMA SetInduction ==
    ASSUME NEW T, 0 \in T, \A k \in Nat : k \in T => k + 1 \in T
    PROVE  Nat \subseteq T
<1> SUFFICES ASSUME Nat \ T # {} PROVE FALSE
    OBVIOUS
<1>1. Min(Nat \ T) \in Nat \ T /\ \A k \in Nat \ T : Min(Nat \ T) <= k
    BY LeastExists
<1>2. PICK m \in Nat \ T : \A k \in Nat \ T : m <= k
    BY <1>1
<1>3. m # 0 /\ m - 1 \in Nat
    BY <1>2
<1>4. m - 1 \in T
    BY <1>2, <1>3
<1> QED
    BY <1>2, <1>3, <1>4

AnyOf(s) == CHOOSE x \in s : TRUE

\* What MapThenSumSet computes for each subset of S, with the values f.
Adds(g, f, S) ==
    g = [s \in SUBSET S |-> IF s = {} THEN 0 ELSE f[AnyOf(s)] + g[s \ {AnyOf(s)}]]

Sum(f, S) == (CHOOSE g : Adds(g, f, S))[S]

\* The sums of the subsets with at most k elements.
Summed(g, f, S, k) ==
    /\ g \in [{s \in SUBSET S : Cardinality(s) <= k} -> Nat]
    /\ \A s \in SUBSET S : Cardinality(s) <= k =>
         g[s] = IF s = {} THEN 0 ELSE f[AnyOf(s)] + g[s \ {AnyOf(s)}]

HasSums(f, S, k) == \E g : Summed(g, f, S, k)

\* An element less.
LEMMA OneLess ==
    ASSUME NEW S, IsFiniteSet(S), NEW s \in SUBSET S, NEW x \in s
    PROVE  /\ IsFiniteSet(s) /\ Cardinality(s) \in Nat
           /\ s \ {x} \in SUBSET S
           /\ Cardinality(s \ {x}) = Cardinality(s) - 1
           /\ Cardinality(s \ {x}) \in Nat
<1>1. IsFiniteSet(s)
    BY FS_Subset
<1>2. Cardinality(s) \in Nat
    BY <1>1, FS_CardinalityType
<1>3. IsFiniteSet(s \ {x}) /\ Cardinality(s \ {x}) = Cardinality(s) - 1
    BY <1>1, FS_RemoveElement
<1>4. Cardinality(s \ {x}) \in Nat
    BY <1>3, FS_CardinalityType
<1> QED
    BY <1>1, <1>2, <1>3, <1>4

\* A finite set has sums over its subsets.
LEMMA SumsOfSmall ==
    ASSUME NEW S, IsFiniteSet(S), NEW f, \A x \in S : f[x] \in Nat, NEW k \in Nat
    PROVE  HasSums(f, S, k)
<1> DEFINE T == {j \in Nat : HasSums(f, S, j)}
<1>1. \A s \in SUBSET S : IsFiniteSet(s) /\ Cardinality(s) \in Nat
    BY FS_Subset, FS_CardinalityType
<1>2. 0 \in T
  <2> DEFINE g == [s \in {r \in SUBSET S : Cardinality(r) <= 0} |-> 0]
  <2>1. \A s \in SUBSET S : Cardinality(s) <= 0 => s = {}
      BY <1>1, FS_EmptySet
  <2>2. Summed(g, f, S, 0)
      BY <2>1 DEF Summed
  <2> QED
      BY <2>2 DEF HasSums
<1>3. ASSUME NEW j \in Nat, j \in T
      PROVE  j + 1 \in T
  <2>1. PICK g : Summed(g, f, S, j)
      BY <1>3 DEF HasSums
  <2> DEFINE small == {s \in SUBSET S : Cardinality(s) <= j}
             larger == {s \in SUBSET S : Cardinality(s) <= j + 1}
             h == [s \in larger |-> IF s \in small THEN g[s]
                                    ELSE f[AnyOf(s)] + g[s \ {AnyOf(s)}]]
  <2>2. /\ g \in [small -> Nat]
        /\ \A s \in small : g[s] = IF s = {} THEN 0 ELSE f[AnyOf(s)] + g[s \ {AnyOf(s)}]
      BY <2>1 DEF Summed
  <2>3. ASSUME NEW s \in larger, s # {}
        PROVE  AnyOf(s) \in S /\ s \ {AnyOf(s)} \in small
    <3>1. AnyOf(s) \in s
        BY <2>3 DEF AnyOf
    <3>2. /\ s \ {AnyOf(s)} \in SUBSET S
          /\ Cardinality(s) \in Nat /\ Cardinality(s) <= j + 1
          /\ Cardinality(s \ {AnyOf(s)}) = Cardinality(s) - 1
        BY <3>1, OneLess
    <3> QED
        BY <3>1, <3>2
  <2>4. \A s \in small : s \in larger
      BY <1>1
  <2>5. \A s \in larger : s \notin small => s # {}
    <3>1. Cardinality({}) = 0
        BY FS_EmptySet
    <3> QED
        BY <3>1
  <2>6. \A s \in larger : h[s] \in Nat
      BY <2>2, <2>3, <2>5
  <2>7. ASSUME NEW s \in larger
        PROVE  h[s] = IF s = {} THEN 0 ELSE f[AnyOf(s)] + h[s \ {AnyOf(s)}]
    <3>1. CASE s = {}
      <4>1. s \in small
          BY <2>5, <3>1
      <4> QED
          BY <2>2, <3>1, <4>1
    <3>2. CASE s # {}
      <4> DEFINE r == s \ {AnyOf(s)}
      <4>1. r \in small /\ r \in larger
          BY <2>3, <2>4, <3>2
      <4>2. h[r] = g[r]
          BY <4>1
      <4>3. h[s] = f[AnyOf(s)] + g[r]
          BY <2>2, <3>2
      <4> QED
          BY <3>2, <4>2, <4>3
    <3> QED
        BY <3>1, <3>2
  <2>8. h \in [larger -> Nat]
      BY <2>6
  <2> HIDE DEF h
  <2>9. Summed(h, f, S, j + 1)
      BY <2>7, <2>8 DEF Summed
  <2> QED
      BY <2>9 DEF HasSums
<1>4. Nat \subseteq T
  <2> HIDE DEF T
  <2> QED
      BY <1>2, <1>3, SetInduction
<1> QED
    BY <1>4

\* Two such functions agree where both are defined.
LEMMA SumsAgree ==
    ASSUME NEW S, IsFiniteSet(S), NEW R, NEW f, NEW g, NEW h,
           Adds(g, f, S), Adds(h, f, R),
           NEW t \in SUBSET S, t \in SUBSET R
    PROVE  g[t] = h[t]
<1> DEFINE T == {k \in Nat : \A s \in SUBSET S :
                    (s \in SUBSET R /\ Cardinality(s) <= k) => g[s] = h[s]}
<1>1. /\ \A s \in SUBSET S : g[s] = IF s = {} THEN 0 ELSE f[AnyOf(s)] + g[s \ {AnyOf(s)}]
      /\ \A s \in SUBSET R : h[s] = IF s = {} THEN 0 ELSE f[AnyOf(s)] + h[s \ {AnyOf(s)}]
  <2>1. g = [s \in SUBSET S |-> IF s = {} THEN 0 ELSE f[AnyOf(s)] + g[s \ {AnyOf(s)}]]
      BY DEF Adds
  <2>2. h = [s \in SUBSET R |-> IF s = {} THEN 0 ELSE f[AnyOf(s)] + h[s \ {AnyOf(s)}]]
      BY DEF Adds
  <2>3. \A s \in SUBSET S : g[s] = IF s = {} THEN 0 ELSE f[AnyOf(s)] + g[s \ {AnyOf(s)}]
      BY <2>1, Zenon
  <2>4. \A s \in SUBSET R : h[s] = IF s = {} THEN 0 ELSE f[AnyOf(s)] + h[s \ {AnyOf(s)}]
      BY <2>2, Zenon
  <2> QED
      BY <2>3, <2>4
<1>2. 0 \in T
  <2>1. \A s \in SUBSET S : Cardinality(s) <= 0 => s = {}
      BY FS_Subset, FS_CardinalityType, FS_EmptySet
  <2> QED
      BY <1>1, <2>1
<1>3. ASSUME NEW k \in Nat, k \in T
      PROVE  k + 1 \in T
  <2>1. ASSUME NEW s \in SUBSET S, s \in SUBSET R, Cardinality(s) <= k + 1
        PROVE  g[s] = h[s]
    <3>1. CASE s = {}
        BY <1>1, <2>1, <3>1
    <3>2. CASE s # {}
      <4> DEFINE r == s \ {AnyOf(s)}
      <4>1. AnyOf(s) \in s
          BY <3>2 DEF AnyOf
      <4>2. /\ r \in SUBSET S /\ r \in SUBSET R /\ Cardinality(r) <= k
          BY <2>1, <4>1, OneLess
      <4>3. g[r] = h[r]
          BY <1>3, <4>2
      <4> QED
          BY <1>1, <2>1, <3>2, <4>3
    <3> QED
        BY <3>1, <3>2
  <2> QED
      BY <2>1
<1>4. Nat \subseteq T
  <2> HIDE DEF T
  <2> QED
      BY <1>2, <1>3, SetInduction
<1>5. IsFiniteSet(t) /\ Cardinality(t) \in Nat /\ Cardinality(t) <= Cardinality(t)
    BY FS_Subset, FS_CardinalityType
<1> QED
    BY <1>4, <1>5

\* What MapThenSumSet chooses has the values of a function that adds.
LEMMA SumsExist ==
    ASSUME NEW S, IsFiniteSet(S), NEW f, \A x \in S : f[x] \in Nat
    PROVE  \E g : Adds(g, f, S) /\ g \in [SUBSET S -> Nat]
<1>1. Cardinality(S) \in Nat
    BY FS_CardinalityType
<1>2. PICK g : Summed(g, f, S, Cardinality(S))
    BY <1>1, SumsOfSmall DEF HasSums
<1>3. \A s \in SUBSET S : Cardinality(s) <= Cardinality(S)
    BY FS_Subset
<1>4. {s \in SUBSET S : Cardinality(s) <= Cardinality(S)} = SUBSET S
    BY <1>3
<1>5. g \in [SUBSET S -> Nat]
    BY <1>2, <1>4 DEF Summed
<1>6. \A s \in SUBSET S : g[s] = IF s = {} THEN 0 ELSE f[AnyOf(s)] + g[s \ {AnyOf(s)}]
    BY <1>2, <1>3 DEF Summed
<1>7. g = [s \in SUBSET S |-> IF s = {} THEN 0 ELSE f[AnyOf(s)] + g[s \ {AnyOf(s)}]]
  <2> DEFINE h == [s \in SUBSET S |-> IF s = {} THEN 0 ELSE f[AnyOf(s)] + g[s \ {AnyOf(s)}]]
  <2>1. g = [s \in SUBSET S |-> g[s]]
      BY <1>5
  <2>2. \A s \in SUBSET S : g[s] = h[s]
      BY <1>6
  <2> QED
      BY <1>6, <2>1, Zenon
<1> QED
    BY <1>5, <1>7 DEF Adds

LEMMA SumAdds ==
    ASSUME NEW S, IsFiniteSet(S), NEW f, \A x \in S : f[x] \in Nat
    PROVE  /\ Sum(f, S) \in Nat
           /\ \A g, R : S \in SUBSET R /\ IsFiniteSet(R) /\ Adds(g, f, R) => g[S] = Sum(f, S)
<1> DEFINE c == CHOOSE g : Adds(g, f, S)
<1>1. PICK g : Adds(g, f, S) /\ g \in [SUBSET S -> Nat]
    BY SumsExist
<1>2. Adds(c, f, S)
    BY <1>1
<1>3. Sum(f, S) = c[S]
    BY DEF Sum
<1> HIDE DEF c
<1>4. c[S] = g[S]
    BY <1>1, <1>2, SumsAgree
<1>5. ASSUME NEW h, NEW R, S \in SUBSET R, IsFiniteSet(R), Adds(h, f, R)
      PROVE  h[S] = c[S]
    BY <1>2, <1>5, SumsAgree
<1> QED
    BY <1>1, <1>3, <1>4, <1>5

\* The sum of no elements, and of one more than another set.
LEMMA SumStep ==
    ASSUME NEW S, IsFiniteSet(S), NEW f, \A x \in S : f[x] \in Nat
    PROVE  Sum(f, S) = IF S = {} THEN 0 ELSE f[AnyOf(S)] + Sum(f, S \ {AnyOf(S)})
<1>1. PICK g : Adds(g, f, S)
    BY SumsExist
<1>2. g[S] = Sum(f, S)
    BY <1>1, SumAdds
<1>3. g[S] = IF S = {} THEN 0 ELSE f[AnyOf(S)] + g[S \ {AnyOf(S)}]
  <2>1. g = [s \in SUBSET S |-> IF s = {} THEN 0 ELSE f[AnyOf(s)] + g[s \ {AnyOf(s)}]]
      BY <1>1 DEF Adds
  <2> QED
      BY <2>1, Zenon
<1>4. g[S \ {AnyOf(S)}] = Sum(f, S \ {AnyOf(S)})
  <2> DEFINE r == S \ {AnyOf(S)}
  <2>1. r \in SUBSET S /\ IsFiniteSet(r) /\ \A x \in r : f[x] \in Nat
      BY FS_Subset
  <2> HIDE DEF r
  <2>2. g[r] = Sum(f, r)
      BY <1>1, <2>1, SumAdds
  <2> QED
      BY <2>2 DEF r
<1> QED
    BY <1>2, <1>3, <1>4

\* The order in which the elements are added makes no difference.
LEMMA SumRemove ==
    ASSUME NEW D, IsFiniteSet(D), NEW f, \A x \in D : f[x] \in Nat,
           NEW S \in SUBSET D, NEW x \in S
    PROVE  Sum(f, S) = f[x] + Sum(f, S \ {x})
<1> DEFINE T == {k \in Nat : \A s \in SUBSET D : Cardinality(s) <= k =>
                    \A e \in s : Sum(f, s) = f[e] + Sum(f, s \ {e})}
<1>1. \A s \in SUBSET D : /\ IsFiniteSet(s) /\ Cardinality(s) \in Nat /\ Sum(f, s) \in Nat
                          /\ \A e \in s : f[e] \in Nat
  <2>1. \A s \in SUBSET D : IsFiniteSet(s) /\ Cardinality(s) \in Nat
      BY FS_Subset, FS_CardinalityType
  <2>2. \A s \in SUBSET D : Sum(f, s) \in Nat
      BY <2>1, SumAdds
  <2> QED
      BY <2>1, <2>2
<1>2. 0 \in T
  <2>1. \A s \in SUBSET D : Cardinality(s) <= 0 => s = {}
      BY <1>1, FS_EmptySet
  <2> QED
      BY <2>1
<1>3. ASSUME NEW k \in Nat, k \in T
      PROVE  k + 1 \in T
  <2>1. ASSUME NEW s \in SUBSET D, Cardinality(s) <= k + 1, NEW e \in s
        PROVE  Sum(f, s) = f[e] + Sum(f, s \ {e})
    <3> DEFINE a == AnyOf(s)
    <3>1. a \in s
        BY DEF AnyOf
    <3>2. Sum(f, s) = f[a] + Sum(f, s \ {a})
        BY <1>1, SumStep
    <3> HIDE DEF a
    <3>3. CASE e = a
        BY <3>2, <3>3
    <3>4. CASE e # a
      <4>1. /\ s \ {a} \in SUBSET D /\ Cardinality(s \ {a}) <= k
            /\ s \ {e} \in SUBSET D /\ Cardinality(s \ {e}) <= k
          BY <2>1, <3>1, OneLess
      <4>2. Sum(f, s \ {a}) = f[e] + Sum(f, (s \ {a}) \ {e})
          BY <1>3, <2>1, <3>4, <4>1
      <4>3. Sum(f, s \ {e}) = f[a] + Sum(f, (s \ {e}) \ {a})
          BY <1>3, <3>1, <3>4, <4>1
      <4>4. (s \ {a}) \ {e} = (s \ {e}) \ {a}
          OBVIOUS
      <4>5. /\ f[a] \in Nat /\ f[e] \in Nat /\ Sum(f, (s \ {a}) \ {e}) \in Nat
            /\ Sum(f, s \ {e}) \in Nat
          BY <1>1, <2>1, <3>1
      <4> QED
          BY <3>2, <4>2, <4>3, <4>4, <4>5
    <3> QED
        BY <3>3, <3>4
  <2> QED
      BY <2>1
<1>4. Nat \subseteq T
  <2> HIDE DEF T
  <2> QED
      BY <1>2, <1>3, SetInduction
<1>5. Cardinality(S) \in Nat /\ Cardinality(S) <= Cardinality(S)
    BY <1>1
<1> QED
    BY <1>4, <1>5

\* A part has no larger sum than the whole.
LEMMA SumOfPart ==
    ASSUME NEW D, IsFiniteSet(D), NEW f, \A x \in D : f[x] \in Nat,
           NEW S \in SUBSET D, NEW R \in SUBSET S
    PROVE  Sum(f, R) <= Sum(f, S)
<1> DEFINE T == {k \in Nat : \A s \in SUBSET D : Cardinality(s) <= k =>
                    \A r \in SUBSET s : Sum(f, r) <= Sum(f, s)}
<1>1. \A s \in SUBSET D : IsFiniteSet(s) /\ Cardinality(s) \in Nat /\ Sum(f, s) \in Nat
  <2>1. \A s \in SUBSET D : IsFiniteSet(s) /\ Cardinality(s) \in Nat
      BY FS_Subset, FS_CardinalityType
  <2>2. \A s \in SUBSET D : Sum(f, s) \in Nat
      BY <2>1, SumAdds
  <2> QED
      BY <2>1, <2>2
<1>2. 0 \in T
  <2>1. \A s \in SUBSET D : Cardinality(s) <= 0 => s = {}
      BY <1>1, FS_EmptySet
  <2>2. ASSUME NEW s \in SUBSET D, Cardinality(s) <= 0, NEW r \in SUBSET s
        PROVE  Sum(f, r) <= Sum(f, s)
    <3>1. r = s /\ Sum(f, s) \in Nat
        BY <1>1, <2>1, <2>2
    <3> QED
        BY <3>1
  <2> QED
      BY <2>2
<1>3. ASSUME NEW k \in Nat, k \in T
      PROVE  k + 1 \in T
  <2>1. ASSUME NEW s \in SUBSET D, Cardinality(s) <= k + 1, NEW r \in SUBSET s
        PROVE  Sum(f, r) <= Sum(f, s)
    <3>1. CASE r = s
      <4>1. Sum(f, s) \in Nat
          BY <1>1
      <4> QED
          BY <3>1, <4>1
    <3>2. CASE r # s
      <4>1. PICK x \in s : x \notin r
          BY <3>2
      <4>2. s \ {x} \in SUBSET D /\ Cardinality(s \ {x}) <= k /\ r \in SUBSET (s \ {x})
          BY <2>1, <4>1, OneLess
      <4>3. Sum(f, r) <= Sum(f, s \ {x})
          BY <1>3, <4>2
      <4>4. Sum(f, s) = f[x] + Sum(f, s \ {x})
          BY SumRemove
      <4>5. /\ Sum(f, r) \in Nat /\ Sum(f, s) \in Nat /\ Sum(f, s \ {x}) \in Nat
            /\ f[x] \in Nat
          BY <1>1, <4>2
      <4> QED
          BY <4>3, <4>4, <4>5
    <3> QED
        BY <3>1, <3>2
  <2> QED
      BY <2>1
<1>4. Nat \subseteq T
  <2> HIDE DEF T
  <2> QED
      BY <1>2, <1>3, SetInduction
<1>5. Cardinality(S) \in Nat /\ Cardinality(S) <= Cardinality(S)
    BY <1>1
<1> QED
    BY <1>4, <1>5

\* Values that agree have the same sum.
LEMMA SumSame ==
    ASSUME NEW S, IsFiniteSet(S), NEW f, NEW h, \A x \in S : f[x] \in Nat /\ h[x] = f[x]
    PROVE  Sum(h, S) = Sum(f, S)
<1>1. PICK g : Adds(g, f, S)
    BY SumsExist
<1>2. Adds(g, h, S)
  <2>1. \A s \in SUBSET S : s # {} => h[AnyOf(s)] = f[AnyOf(s)]
    <3>1. \A s \in SUBSET S : s # {} => AnyOf(s) \in S
        BY DEF AnyOf
    <3> QED
        BY <3>1
  <2>2. [s \in SUBSET S |-> IF s = {} THEN 0 ELSE f[AnyOf(s)] + g[s \ {AnyOf(s)}]]
        = [s \in SUBSET S |-> IF s = {} THEN 0 ELSE h[AnyOf(s)] + g[s \ {AnyOf(s)}]]
      BY <2>1
  <2> QED
      BY <1>1, <2>2 DEF Adds
<1>3. g[S] = Sum(f, S) /\ g[S] = Sum(h, S)
    BY <1>1, <1>2, SumAdds
<1> QED
    BY <1>3

\* MapThenSumSet over calls is such a sum.
LEMMA SumOfWidths ==
    ASSUME NEW S \in SUBSET Calls, IsFiniteSet(S), NEW f,
           \A i \in S : f[i] \in Nat /\ f[i] = Win(i)
    PROVE  MapThenSumSet(Win, S) = Sum(f, S)
<1> DEFINE P(g) == g = [s \in SUBSET S |->
                          IF s = {} THEN 0 ELSE Win(CHOOSE x \in s : TRUE)
                                                + g[s \ {CHOOSE x \in s : TRUE}]]
           c == CHOOSE g : P(g)
<1>1. MapThenSumSet(Win, S) = c[S]
    BY DEF MapThenSumSet, MapThenFoldSet
<1>2. ASSUME NEW g
      PROVE  P(g) <=> Adds(g, f, S)
  <2>1. \A s \in SUBSET S : s # {} => f[AnyOf(s)] = Win(AnyOf(s))
    <3>1. \A s \in SUBSET S : s # {} => AnyOf(s) \in S
        BY DEF AnyOf
    <3> QED
        BY <3>1
  <2>2. [s \in SUBSET S |-> IF s = {} THEN 0 ELSE f[AnyOf(s)] + g[s \ {AnyOf(s)}]]
        = [s \in SUBSET S |-> IF s = {} THEN 0 ELSE Win(AnyOf(s)) + g[s \ {AnyOf(s)}]]
      BY <2>1
  <2> QED
      BY <2>2 DEF Adds, AnyOf
<1>3. PICK g : Adds(g, f, S)
    BY SumsExist
<1>4. P(g)
    BY <1>2, <1>3
<1>5. P(c)
  <2> HIDE DEF P
  <2> QED
      BY <1>4
<1> HIDE DEF c
<1>6. Adds(c, f, S)
    BY <1>2, <1>5
<1>7. c[S] = Sum(f, S)
    BY <1>6, SumAdds
<1> QED
    BY <1>1, <1>7

LEMMA SumOfDurations ==
    ASSUME NEW S \in SUBSET Calls, IsFiniteSet(S), NEW f,
           \A i \in S : f[i] \in Nat /\ f[i] = Duration(i)
    PROVE  MapThenSumSet(Duration, S) = Sum(f, S)
<1> DEFINE P(g) == g = [s \in SUBSET S |->
                          IF s = {} THEN 0 ELSE Duration(CHOOSE x \in s : TRUE)
                                                + g[s \ {CHOOSE x \in s : TRUE}]]
           c == CHOOSE g : P(g)
<1>1. MapThenSumSet(Duration, S) = c[S]
    BY DEF MapThenSumSet, MapThenFoldSet
<1>2. ASSUME NEW g
      PROVE  P(g) <=> Adds(g, f, S)
  <2>1. \A s \in SUBSET S : s # {} => f[AnyOf(s)] = Duration(AnyOf(s))
    <3>1. \A s \in SUBSET S : s # {} => AnyOf(s) \in S
        BY DEF AnyOf
    <3> QED
        BY <3>1
  <2>2. [s \in SUBSET S |-> IF s = {} THEN 0 ELSE f[AnyOf(s)] + g[s \ {AnyOf(s)}]]
        = [s \in SUBSET S |-> IF s = {} THEN 0 ELSE Duration(AnyOf(s)) + g[s \ {AnyOf(s)}]]
      BY <2>1
  <2> QED
      BY <2>2 DEF Adds, AnyOf
<1>3. PICK g : Adds(g, f, S)
    BY SumsExist
<1>4. P(g)
    BY <1>2, <1>3
<1>5. P(c)
  <2> HIDE DEF P
  <2> QED
      BY <1>4
<1> HIDE DEF c
<1>6. Adds(c, f, S)
    BY <1>2, <1>5
<1>7. c[S] = Sum(f, S)
    BY <1>6, SumAdds
<1> QED
    BY <1>1, <1>7

-----------------------------------------------------------------------------
(* The layout of the schedule: what the windows and steps hold, and how    *)
(* far they reach.                                                         *)

End(i) == start[i] + Duration(i)
Widths == [i \in Calls |-> Win(i)]
Durations == [i \in Calls |-> Duration(i)]

\* A region of a step of a leaf, and the step.
RegionFits(region) ==
    IF region.kind = "CNOT" THEN 2 * region.gates <= DATA_CONSTRAINT + (DATA_CONSTRAINT % 2)
    ELSE region.gates <= DATA_CONSTRAINT

StepFits(step) == Len(step) <= RES_CONSTRAINT /\ \A j \in DOMAIN step : RegionFits(step[j])

WidthsFit == \A f \in DOMAIN funcInfo : funcInfo[f].width <= RES_CONSTRAINT

RoomInv ==
    /\ WidthsFit
    /\ total.width <= RES_CONSTRAINT /\ curr.width <= RES_CONSTRAINT
    /\ \A n \in DOMAIN steps : StepFits(steps[n])

\* The calls that the open window has room for.  None reaches into it from one
\* that is closed.
Open == {i \in PlacedCalls : total.length < End(i)}

WindowInv ==
    /\ \A i \in PlacedCalls : start[i] < total.length => End(i) <= total.length
    /\ Sum(Widths, Open) <= curr.width
    /\ \A i \in PlacedCalls : Sum(Widths, Active(start[i])) <= RES_CONSTRAINT

LengthInv ==
    /\ \A i \in PlacedCalls : End(i) <= Horizon
    /\ Horizon = 0 \/ \E i \in PlacedCalls : End(i) = Horizon
    /\ Horizon <= Sum(Durations, PlacedCalls)
    /\ hasPrimitivesOnly(fn) => total.length = 0 /\ curr.length = Len(steps)

LayoutInv == RoomInv /\ (~hasPrimitivesOnly(fn) => WindowInv) /\ LengthInv

\* Sizes of the calls.
LEMMA Measures ==
    ASSUME Types, RoomInv
    PROVE  /\ IsFiniteSet(Calls)
           /\ \A i \in Calls : Win(i) \in Nat /\ Win(i) <= RES_CONSTRAINT /\ Widths[i] = Win(i)
           /\ \A i \in Calls : Duration(i) \in Nat /\ Durations[i] = Duration(i)
           /\ \A i \in Calls : ~hasPrimitivesOnly(fn) => Duration(i) = Lin(i)
<1>1. BodyOk
    BY BodyFacts DEF Types
<1>2. IsFiniteSet(Calls)
    BY <1>1, FS_Interval DEF BodyOk
<1>3. ASSUME NEW i \in Calls
      PROVE  Win(i) \in Nat /\ Win(i) <= RES_CONSTRAINT /\ Widths[i] = Win(i)
  <2>1. kind(i) \notin Gates => callee(i) \in DOMAIN funcInfo /\ funcInfo[callee(i)] \in Size
    <3>1. kind(i) \notin Gates => callee(i) \in 1 .. Len(funcInfo)
        BY <1>1 DEF BodyOk, Types
    <3> QED
        BY <3>1 DEF Types
  <2>2. 1 <= RES_CONSTRAINT
      BY ConstraintsAssumption
  <2>3. Win(i) \in Nat /\ Win(i) <= RES_CONSTRAINT
      BY <2>1, <2>2 DEF Win, Size, RoomInv, WidthsFit
  <2> QED
      BY <2>3 DEF Widths
<1>4. ASSUME NEW i \in Calls
      PROVE  Duration(i) \in Nat /\ Durations[i] = Duration(i)
    BY DurationType DEF Durations
<1>5. \A i \in Calls : ~hasPrimitivesOnly(fn) => Duration(i) = Lin(i)
    BY DEF Duration
<1> QED
    BY <1>2, <1>3, <1>4, <1>5

\* Nothing is placed when a function begins.
LEMMA BegunLayout == Here /\ Begun /\ WidthsFit => LayoutInv
<1> SUFFICES ASSUME Here, Begun, WidthsFit PROVE LayoutInv
    OBVIOUS
<1>1. PlacedCalls = {}
    BY DEF PlacedCalls, Begun
<1>2. RoomInv
  <2>1. 0 <= RES_CONSTRAINT
      BY ConstraintsAssumption
  <2>2. DOMAIN steps = {}
      BY DEF Begun
  <2> QED
      BY <2>1, <2>2 DEF RoomInv, Begun, Idle
<1>3. Sum(Widths, {}) = 0 /\ Sum(Durations, {}) = 0
  <2>1. IsFiniteSet({})
      BY FS_EmptySet
  <2>2. Sum(Widths, {}) = 0
      BY <2>1, SumStep
  <2>3. Sum(Durations, {}) = 0
      BY <2>1, SumStep
  <2> QED
      BY <2>2, <2>3
<1>4. WindowInv
  <2>1. Open = {}
      BY <1>1 DEF Open
  <2> QED
      BY <1>1, <1>3, <2>1 DEF WindowInv, Begun, Idle
<1>5. LengthInv
  <2>1. Len(steps) = 0 /\ total.length = 0 /\ curr.length = 0
      BY DEF Begun, Idle
  <2>2. Horizon = 0
      BY <2>1 DEF Horizon
  <2> QED
      BY <1>1, <1>3, <2>1, <2>2 DEF LengthInv
<1> QED
    BY <1>2, <1>4, <1>5 DEF LayoutInv

\* A step that places nothing leaves the layout as it is.
LEMMA SameLayout ==
    ASSUME LayoutInv, UNCHANGED <<program, fn, start, total, curr, steps>>,
           WidthsFit',
           \A i \in Calls : Win(i)' = Win(i) /\ Lin(i)' = Lin(i)
    PROVE  LayoutInv'
<1>1. Calls' = Calls /\ (hasPrimitivesOnly(fn)' <=> hasPrimitivesOnly(fn))
    BY SameCalls
<1>2. \A i \in Calls : Duration(i)' = Duration(i)
    BY <1>1 DEF Duration
<1>3. Widths' = Widths /\ Durations' = Durations
    BY <1>1, <1>2 DEF Widths, Durations
<1>4. PlacedCalls' = PlacedCalls
    BY <1>1 DEF PlacedCalls
<1>5. \A i \in PlacedCalls : End(i)' = End(i) /\ start'[i] = start[i]
    BY <1>2 DEF End, PlacedCalls
<1>6. Horizon' = Horizon
    BY <1>1 DEF Horizon
<1>7. RoomInv'
    BY DEF LayoutInv, RoomInv
<1>8. Open' = Open
    BY <1>4, <1>5 DEF Open
<1>9. ASSUME WindowInv PROVE WindowInv'
  <2>1. \A i \in PlacedCalls' : (start[i] < total.length => End(i) <= total.length)'
      BY <1>4, <1>5, <1>9 DEF WindowInv
  <2>2. \A i \in PlacedCalls' : Sum(Widths', Active(start[i])') <= RES_CONSTRAINT
    <3>1. ASSUME NEW i \in PlacedCalls PROVE Active(start[i])' = Active(start[i])
      <4>1. \A j \in PlacedCalls : Duration(j)' = Duration(j)
          BY <1>2 DEF PlacedCalls
      <4> QED
          BY <1>4, <1>5, <4>1, Zenon DEF Active
    <3> QED
        BY <1>3, <1>4, <1>9, <3>1 DEF WindowInv
  <2> QED
      BY <1>3, <1>8, <1>9, <2>1, <2>2 DEF WindowInv
<1>10. LengthInv'
  <2>1. LengthInv
      BY DEF LayoutInv
  <2>2. (hasPrimitivesOnly(fn) => total.length = 0 /\ curr.length = Len(steps))'
      BY <1>1, <2>1 DEF LengthInv
  <2> QED
      BY <1>3, <1>4, <1>5, <1>6, <2>1, <2>2 DEF LengthInv
<1> QED
    BY <1>1, <1>7, <1>9, <1>10 DEF LayoutInv

\* One call more is placed.
LEMMA PlacedOne ==
    ASSUME Types, NEW i \in Calls, Turn(i), NEW first \in Nat,
           start' = [start EXCEPT ![i] = first],
           UNCHANGED <<program, fn, funcInfo>>
    PROVE  /\ PlacedCalls' = PlacedCalls \cup {i} /\ i \notin PlacedCalls
           /\ start'[i] = first /\ End(i)' = first + Duration(i)
           /\ \A j \in PlacedCalls : /\ start'[j] = start[j] /\ End(j)' = End(j)
                                     /\ start[j] \in Nat /\ End(j) \in Nat
           /\ Widths' = Widths /\ Durations' = Durations
           /\ \A j \in Calls : Duration(j)' = Duration(j)
<1>1. /\ Calls' = Calls
      /\ \A j \in Calls : Duration(j)' = Duration(j) /\ Duration(j) \in Nat
    BY SameCalls, DurationType
<1>2. \A j \in Calls : Win(j)' = Win(j)
    BY <1>1 DEF Win, kind, callee, Body
<1>3. /\ start \in [Calls -> Nat \cup {-1}] /\ start[i] = -1
      /\ start'[i] = first /\ \A j \in Calls : j # i => start'[j] = start[j]
    BY DEF Types, Turn
<1>4. i \notin PlacedCalls /\ \A j \in PlacedCalls : j \in Calls /\ start[j] \in Nat
    BY <1>3 DEF PlacedCalls
<1>5. PlacedCalls' = PlacedCalls \cup {i}
    BY <1>1, <1>3 DEF PlacedCalls
<1>6. End(i)' = first + Duration(i)
    BY <1>1, <1>3 DEF End
<1>7. \A j \in PlacedCalls : start'[j] = start[j] /\ End(j)' = End(j) /\ End(j) \in Nat
    BY <1>1, <1>3, <1>4 DEF End
<1>8. Widths' = Widths /\ Durations' = Durations
    BY <1>1, <1>2 DEF Widths, Durations
<1> QED
    BY <1>1, <1>3, <1>4, <1>5, <1>6, <1>7, <1>8

\* The end of the schedule is the end of a call, and no later than if all were
\* placed one after the other.
LEMMA PlaceKeepsLength ==
    ASSUME Types, LayoutInv, NEW i \in Calls, Turn(i), NEW first \in Nat,
           start' = [start EXCEPT ![i] = first],
           UNCHANGED <<program, fn, funcInfo>>,
           Horizon \in Nat, first <= Horizon,
           Horizon' = Larger(first + Duration(i), Horizon),
           (hasPrimitivesOnly(fn) => total.length = 0 /\ curr.length = Len(steps))'
    PROVE  LengthInv'
<1>1. /\ PlacedCalls' = PlacedCalls \cup {i} /\ i \notin PlacedCalls
      /\ End(i)' = first + Duration(i)
      /\ \A j \in PlacedCalls : End(j)' = End(j) /\ End(j) \in Nat
      /\ Durations' = Durations
    BY PlacedOne
<1>2. /\ IsFiniteSet(Calls)
      /\ \A j \in Calls : Duration(j) \in Nat /\ Durations[j] = Duration(j)
    BY Measures DEF LayoutInv
<1>3. PlacedCalls \in SUBSET Calls
    BY DEF PlacedCalls
<1>4. LengthInv
    BY DEF LayoutInv
<1>5. /\ Horizon' \in Nat /\ Horizon <= Horizon' /\ first + Duration(i) <= Horizon'
      /\ Horizon' = Horizon \/ Horizon' = first + Duration(i)
      /\ Horizon' <= Horizon + Duration(i)
    BY <1>2 DEF Larger
<1>6. \A j \in PlacedCalls' : End(j)' <= Horizon'
    BY <1>1, <1>4, <1>5 DEF LengthInv
<1>7. Horizon' = 0 \/ \E j \in PlacedCalls' : End(j)' = Horizon'
    BY <1>1, <1>4, <1>5 DEF LengthInv
<1>8. Horizon' <= Sum(Durations', PlacedCalls')
  <2>1. Sum(Durations, PlacedCalls \cup {i})
          = Durations[i] + Sum(Durations, (PlacedCalls \cup {i}) \ {i})
    <3> DEFINE S == PlacedCalls \cup {i}
    <3>1. S \in SUBSET Calls /\ i \in S
        BY <1>3
    <3> HIDE DEF S
    <3>2. Sum(Durations, S) = Durations[i] + Sum(Durations, S \ {i})
        BY <1>2, <3>1, SumRemove
    <3> QED
        BY <3>2 DEF S
  <2>2. (PlacedCalls \cup {i}) \ {i} = PlacedCalls
      BY <1>1
  <2>3. Sum(Durations, PlacedCalls) \in Nat
    <3>1. IsFiniteSet(PlacedCalls) /\ \A j \in PlacedCalls : Durations[j] \in Nat
        BY <1>2, <1>3, FS_Subset
    <3> QED
        BY <3>1, SumAdds
  <2>4. Horizon <= Sum(Durations, PlacedCalls)
      BY <1>4 DEF LengthInv
  <2>5. Sum(Durations', PlacedCalls') = Duration(i) + Sum(Durations, PlacedCalls)
      BY <1>1, <1>2, <2>1, <2>2
  <2> QED
      BY <1>2, <1>5, <2>3, <2>4, <2>5
<1> QED
    BY <1>6, <1>7, <1>8 DEF LengthInv


\* The calls under way when one is placed fit if those of the open window do.
LEMMA PlaceKeepsRoom ==
    ASSUME Types, LayoutInv, ~hasPrimitivesOnly(fn), NEW i \in Calls, Turn(i),
           NEW first \in Nat, start' = [start EXCEPT ![i] = first],
           UNCHANGED <<program, fn, funcInfo>>,
           total'.length \in Nat, total'.length <= first,
           Sum(Widths, Open') <= RES_CONSTRAINT
    PROVE  \A j \in PlacedCalls' : Sum(Widths', Active(start[j])') <= RES_CONSTRAINT
<1>1. /\ PlacedCalls' = PlacedCalls \cup {i} /\ i \notin PlacedCalls
      /\ start'[i] = first
      /\ \A j \in PlacedCalls : /\ start'[j] = start[j] /\ End(j)' = End(j)
                                /\ start[j] \in Nat /\ End(j) \in Nat
      /\ Widths' = Widths
      /\ \A j \in Calls : Duration(j)' = Duration(j)
    BY PlacedOne
<1>2. /\ IsFiniteSet(Calls) /\ \A j \in Calls : Widths[j] \in Nat
      /\ \A j \in Calls : Duration(j) \in Nat
    BY Measures DEF LayoutInv
<1>3. PlacedCalls \in SUBSET Calls /\ PlacedCalls' \in SUBSET Calls
    BY <1>1 DEF PlacedCalls
<1>4. \A j \in PlacedCalls' : start'[j] \in Nat /\ End(j)' \in Nat
    BY <1>1, <1>2, <1>3 DEF End
<1>5. ASSUME NEW j \in PlacedCalls'
      PROVE  Sum(Widths, Active(start[j])') <= RES_CONSTRAINT
  <2>1. CASE total'.length <= start'[j]
    <3>1. Active(start[j])' \subseteq Open'
      <4>1. \A k \in Active(start[j])' : k \in PlacedCalls' /\ start'[j] < End(k)'
          BY DEF Active, End
      <4>2. \A k \in Active(start[j])' : total'.length < End(k)'
          BY <1>4, <2>1, <4>1
      <4> QED
          BY <4>1, <4>2 DEF Open
    <3>2. Open' \in SUBSET Calls
        BY <1>3 DEF Open
    <3>3. Sum(Widths, Active(start[j])') <= Sum(Widths, Open')
        BY <1>2, <3>1, <3>2, SumOfPart
    <3>4. Sum(Widths, Active(start[j])') \in Nat /\ Sum(Widths, Open') \in Nat
      <4> DEFINE A == Active(start[j])'
                 O == Open'
      <4>1. /\ IsFiniteSet(A) /\ \A k \in A : Widths[k] \in Nat
            /\ IsFiniteSet(O) /\ \A k \in O : Widths[k] \in Nat
          BY <1>2, <3>1, <3>2, FS_Subset
      <4> HIDE DEF A, O
      <4>2. Sum(Widths, A) \in Nat /\ Sum(Widths, O) \in Nat
          BY <4>1, SumAdds
      <4> QED
          BY <4>2 DEF A, O
    <3> QED
        BY <3>3, <3>4, ConstraintsAssumption
  <2>2. CASE ~(total'.length <= start'[j])
    <3>1. j \in PlacedCalls /\ start'[j] = start[j] /\ start[j] < first
        BY <1>1, <1>4, <2>2
    <3>2. Active(start[j])' = Active(start[j])
      <4>1. \A k \in PlacedCalls : Duration(k)' = Duration(k) /\ start'[k] = start[k]
          BY <1>1, <1>3
      <4>2. ~(start'[i] <= start'[j])
          BY <1>1, <1>4, <3>1
      <4>3. \A k : k \in Active(start[j])' <=> k \in Active(start[j])
          BY <1>1, <3>1, <4>1, <4>2, Zenon DEF Active
      <4> QED
          BY <4>3
    <3>3. WindowInv
        BY DEF LayoutInv
    <3> QED
        BY <3>1, <3>2, <3>3 DEF WindowInv
  <2> QED
      BY <2>1, <2>2
<1> QED
    BY <1>1, <1>5

\* A call next to others in the open window, or alone in a new one.
LEMMA WindowsKeepLayout ==
    ASSUME IInv, LayoutInv, NEW i \in Calls, PlaceInWindow(i) \/ PlaceInNewWindow(i)
    PROVE  LayoutInv'
<1>1. /\ Types /\ BodyOk /\ PlacingInv /\ Placing(i) /\ Turn(i) /\ ~hasPrimitivesOnly(fn)
      /\ UNCHANGED <<program, fn, phase, rank, steps, funcInfo>>
    BY BodyFacts DEF IInv, Types, Placing, PlaceInWindow, PlaceInNewWindow
<1>2. /\ total.length \in Nat /\ total.width \in Nat
      /\ curr.length \in Nat /\ curr.width \in Nat
    BY <1>1 DEF Types, Size
<1>3. /\ IsFiniteSet(Calls)
      /\ \A j \in Calls : Win(j) \in Nat /\ Win(j) <= RES_CONSTRAINT /\ Widths[j] = Win(j)
      /\ \A j \in Calls : Duration(j) \in Nat
      /\ Duration(i) = Lin(i)
    BY <1>1, Measures DEF LayoutInv
<1>4. Horizon = total.length + curr.length /\ Horizon' = total'.length + curr'.length
    BY <1>1, SameCalls DEF Horizon
<1>5. Horizon \in Nat /\ ts(i) \in Nat
  <2>1. Horizon \in Nat /\ UpTo(funcQbits, Horizon)
      BY <1>1, <1>2, <1>4 DEF PlacingInv
  <2> QED
      BY <1>1, <2>1, SearchBegins
<1>6. RoomInv /\ WindowInv /\ LengthInv
    BY <1>1 DEF LayoutInv
<1>7. hasPrimitivesOnly(fn)' <=> hasPrimitivesOnly(fn)
    BY <1>1, SameCalls
<1>8. PlacedCalls \in SUBSET Calls
    BY DEF PlacedCalls
<1>9. CASE PlaceInWindow(i)
  <2> DEFINE first == Larger(ts(i), total.length)
  <2>1. /\ ts(i) < total.length + curr.length
        /\ Win(i) + curr.width <= RES_CONSTRAINT
        /\ curr' = [width |-> curr.width + Win(i), length |-> window_length(i, first)]
        /\ total' = total
        /\ start' = [start EXCEPT ![i] = first]
      BY <1>9 DEF PlaceInWindow, Parallel, Place
  <2>2. /\ first \in Nat /\ total.length <= first /\ first <= Horizon
      BY <1>2, <1>4, <1>5, <2>1 DEF Larger
  <2>3. /\ curr'.width = curr.width + Win(i) /\ curr'.width \in Nat
        /\ curr'.length = Larger(first - total.length + Duration(i), curr.length)
      BY <1>2, <1>3, <2>1 DEF window_length
  <2> HIDE DEF first
  <2>4. Horizon' = Larger(first + Duration(i), Horizon)
      BY <1>2, <1>3, <1>4, <2>1, <2>2, <2>3 DEF Larger
  <2>5. /\ PlacedCalls' = PlacedCalls \cup {i} /\ i \notin PlacedCalls
        /\ start'[i] = first /\ End(i)' = first + Duration(i)
        /\ \A j \in PlacedCalls : start'[j] = start[j] /\ End(j)' = End(j)
        /\ Widths' = Widths
      BY <1>1, <2>1, <2>2, PlacedOne
  <2>6. Sum(Widths, Open') <= curr'.width
    <3>1. Open' \in SUBSET (Open \cup {i}) /\ Open \in SUBSET Calls /\ i \notin Open
        BY <1>8, <2>1, <2>5 DEF Open
    <3> DEFINE S == Open \cup {i}
    <3>2. S \in SUBSET Calls /\ S \ {i} = Open
        BY <3>1
    <3>3. Sum(Widths, S) = Widths[i] + Sum(Widths, S \ {i})
      <4> HIDE DEF S
      <4>1. i \in S
          BY DEF S
      <4> QED
          BY <1>3, <3>2, <4>1, SumRemove
    <3>4. Sum(Widths, Open') <= Sum(Widths, S)
      <4> DEFINE O == Open'
      <4>1. O \in SUBSET S
          BY <3>1
      <4> HIDE DEF S, O
      <4>2. Sum(Widths, O) <= Sum(Widths, S)
          BY <1>3, <3>2, <4>1, SumOfPart
      <4> QED
          BY <4>2 DEF O
    <3>5. Sum(Widths, Open) <= curr.width
        BY <1>6 DEF WindowInv
    <3>6. /\ Sum(Widths, Open) \in Nat /\ Sum(Widths, Open') \in Nat
          /\ Sum(Widths, S) = Win(i) + Sum(Widths, Open)
      <4> DEFINE O == Open
                 P == Open'
      <4>1. /\ IsFiniteSet(O) /\ \A k \in O : Widths[k] \in Nat
            /\ IsFiniteSet(P) /\ \A k \in P : Widths[k] \in Nat
          BY <1>3, <3>1, FS_Subset
      <4>2. Sum(Widths, S) = Win(i) + Sum(Widths, Open)
          BY <1>3, <3>2, <3>3
      <4> HIDE DEF O, P
      <4>3. Sum(Widths, O) \in Nat /\ Sum(Widths, P) \in Nat
          BY <4>1, SumAdds
      <4> QED
          BY <4>2, <4>3 DEF O, P
    <3> HIDE DEF S
    <3> QED
        BY <1>2, <1>3, <2>3, <3>4, <3>5, <3>6
  <2>7. curr'.width <= RES_CONSTRAINT
      BY <1>2, <1>3, <2>1, <2>3
  <2>8. RoomInv'
      BY <1>1, <1>6, <2>1, <2>7 DEF RoomInv, WidthsFit
  <2>9. Sum(Widths, Open') <= RES_CONSTRAINT
    <3> DEFINE P == Open'
    <3>1. P \in SUBSET Calls
        BY <1>8, <2>5 DEF Open
    <3>2. IsFiniteSet(P) /\ \A k \in P : Widths[k] \in Nat
        BY <1>3, <3>1, FS_Subset
    <3> HIDE DEF P
    <3>3. Sum(Widths, P) \in Nat
        BY <3>2, SumAdds
    <3>4. Sum(Widths, Open') \in Nat
        BY <3>3 DEF P
    <3> QED
        BY <2>3, <2>6, <2>7, <3>4, ConstraintsAssumption
  <2>10. WindowInv'
    <3>1. \A j \in PlacedCalls' : start'[j] < total'.length => End(j)' <= total'.length
        BY <1>2, <1>6, <2>1, <2>2, <2>5 DEF WindowInv
    <3>2. \A j \in PlacedCalls' : Sum(Widths', Active(start[j])') <= RES_CONSTRAINT
        BY <1>1, <1>2, <2>1, <2>2, <2>9, PlaceKeepsRoom
    <3> QED
        BY <2>5, <2>6, <3>1, <3>2 DEF WindowInv
  <2>11. LengthInv'
      BY <1>1, <1>5, <1>7, <2>1, <2>2, <2>4, PlaceKeepsLength
  <2> QED
      BY <2>8, <2>10, <2>11 DEF LayoutInv
<1>10. CASE PlaceInNewWindow(i)
  <2> DEFINE first == total.length + curr.length
  <2>1. /\ total' = [width |-> Larger(total.width, curr.width), length |-> first]
        /\ curr' = [width |-> Win(i), length |-> Lin(i)]
        /\ start' = [start EXCEPT ![i] = first]
      BY <1>10 DEF PlaceInNewWindow, Place
  <2>2. first \in Nat /\ first = Horizon /\ total'.length = first /\ curr'.width = Win(i)
      BY <1>2, <1>4, <2>1
  <2>3. curr'.length = Duration(i)
      BY <1>3, <2>1
  <2> HIDE DEF first
  <2>4. Horizon' = Larger(first + Duration(i), Horizon)
      BY <1>3, <1>4, <2>2, <2>3 DEF Larger
  <2>5. /\ PlacedCalls' = PlacedCalls \cup {i} /\ i \notin PlacedCalls
        /\ start'[i] = first /\ End(i)' = first + Duration(i)
        /\ \A j \in PlacedCalls : /\ start'[j] = start[j] /\ End(j)' = End(j)
                                  /\ End(j) \in Nat
        /\ Widths' = Widths
      BY <1>1, <2>1, <2>2, PlacedOne
  <2>6. \A j \in PlacedCalls : End(j)' <= total'.length
      BY <1>6, <2>2, <2>5 DEF LengthInv
  <2>7. Open' \in SUBSET {i}
    <3>1. \A j \in PlacedCalls : ~(total'.length < End(j)')
        BY <2>2, <2>5, <2>6
    <3> QED
        BY <2>5, <3>1 DEF Open
  <2>8. Sum(Widths, Open') <= Win(i)
    <3> DEFINE S == {i}
               O == Open'
    <3>1. S \in SUBSET Calls /\ i \in S /\ S \ {i} = {}
        OBVIOUS
    <3>2. Sum(Widths, S) = Widths[i] + Sum(Widths, S \ {i})
      <4> HIDE DEF S
      <4> QED
          BY <1>3, <3>1, SumRemove
    <3>3. Sum(Widths, {}) = 0
      <4>1. IsFiniteSet({})
          BY FS_EmptySet
      <4> QED
          BY <4>1, SumStep
    <3>4. Sum(Widths, S) = Win(i)
      <4> HIDE DEF S
      <4> QED
          BY <1>3, <3>1, <3>2, <3>3
    <3>5. O \in SUBSET S
        BY <2>7
    <3> HIDE DEF S, O
    <3>6. Sum(Widths, O) <= Sum(Widths, S)
        BY <1>3, <3>1, <3>5, SumOfPart
    <3> QED
        BY <3>4, <3>6 DEF O
  <2>9. Sum(Widths, Open') \in Nat
    <3> DEFINE O == Open'
    <3>1. IsFiniteSet(O) /\ \A k \in O : Widths[k] \in Nat
      <4>1. O \in SUBSET Calls
          BY <2>7
      <4> QED
          BY <1>3, <4>1, FS_Subset
    <3> HIDE DEF O
    <3>2. Sum(Widths, O) \in Nat
        BY <3>1, SumAdds
    <3> QED
        BY <3>2 DEF O
  <2>10. Sum(Widths, Open') <= RES_CONSTRAINT
      BY <1>3, <2>8, <2>9, ConstraintsAssumption
  <2>11. RoomInv'
    <3>1. total'.width <= RES_CONSTRAINT /\ curr'.width <= RES_CONSTRAINT
        BY <1>3, <1>6, <2>1 DEF RoomInv, Larger
    <3> QED
        BY <1>1, <1>6, <3>1 DEF RoomInv, WidthsFit
  <2>12. WindowInv'
    <3>1. \A j \in PlacedCalls' : start'[j] < total'.length => End(j)' <= total'.length
        BY <2>2, <2>5, <2>6
    <3>2. /\ start' = [start EXCEPT ![i] = first] /\ first \in Nat
          /\ total'.length \in Nat /\ total'.length <= first
        BY <2>1, <2>2
    <3>3. \A j \in PlacedCalls' : Sum(Widths', Active(start[j])') <= RES_CONSTRAINT
        BY <1>1, <2>10, <3>2, PlaceKeepsRoom
    <3> QED
        BY <2>2, <2>5, <2>8, <3>1, <3>3 DEF WindowInv
  <2>13. LengthInv'
    <3>1. start' = [start EXCEPT ![i] = first] /\ first \in Nat /\ first <= Horizon
        BY <1>5, <2>1, <2>2
    <3>2. ~hasPrimitivesOnly(fn)'
        BY <1>1, <1>7
    <3> QED
        BY <1>1, <1>5, <2>4, <3>1, <3>2, PlaceKeepsLength
  <2> QED
      BY <2>11, <2>12, <2>13 DEF LayoutInv
<1> QED
    BY <1>9, <1>10

\* A region with room for a gate, or a new one.
LEMMA GateFits ==
    ASSUME NEW region \in Region, NEW k, HasRoom(region, k)
    PROVE  RegionFits([region EXCEPT !.gates = @ + 1])
<1>1. /\ region.kind = k /\ region.gates \in Nat
      /\ (IF k = "CNOT" THEN 2 ELSE 1) * region.gates < DATA_CONSTRAINT
    BY DEF HasRoom, Region
<1>2. /\ [region EXCEPT !.gates = @ + 1].kind = k
      /\ [region EXCEPT !.gates = @ + 1].gates = region.gates + 1
    BY <1>1 DEF Region
<1>3. DATA_CONSTRAINT \in Nat
    BY ConstraintsAssumption
<1>4. CASE k = "CNOT"
  <2>1. 2 * region.gates < DATA_CONSTRAINT
      BY <1>1, <1>4
  <2>2. PICK d \in Nat : DATA_CONSTRAINT = 2 * d + (DATA_CONSTRAINT % 2)
                         /\ DATA_CONSTRAINT % 2 \in {0, 1}
      BY <1>3
  <2>3. 2 * (region.gates + 1) <= DATA_CONSTRAINT + (DATA_CONSTRAINT % 2)
      BY <1>1, <1>3, <2>1, <2>2
  <2> QED
      BY <1>2, <1>4, <2>3 DEF RegionFits
<1>5. CASE k # "CNOT"
  <2>1. region.gates < DATA_CONSTRAINT
      BY <1>1, <1>5
  <2>2. region.gates + 1 <= DATA_CONSTRAINT
      BY <1>1, <1>3, <2>1
  <2> QED
      BY <1>2, <1>5, <2>2 DEF RegionFits
<1> QED
    BY <1>4, <1>5

LEMMA NewRegionFits ==
    ASSUME NEW k
    PROVE  RegionFits([kind |-> k, gates |-> 1])
<1>1. DATA_CONSTRAINT \in Nat \ {0}
    BY ConstraintsAssumption
<1>2. 2 <= DATA_CONSTRAINT + (DATA_CONSTRAINT % 2) /\ 1 <= DATA_CONSTRAINT
    BY <1>1
<1> QED
    BY <1>2 DEF RegionFits

\* A step with one gate more where there is a place for it.
LEMMA StepStillFits ==
    ASSUME NEW step \in Seq(Region), NEW k \in Gates \cup {"call"},
           StepFits(step), HasPlace(step, k)
    PROVE  StepFits(WithGate(step, k))
<1> DEFINE shared == {j \in DOMAIN step : HasRoom(step[j], k)}
<1>1. Len(step) \in Nat /\ DOMAIN step = 1 .. Len(step)
    OBVIOUS
<1>2. CASE shared # {}
  <2>1. shared \in SUBSET Nat
      BY <1>1
  <2>2. Min(shared) \in shared
    <3> HIDE DEF shared
    <3> QED
        BY <1>2, <2>1, LeastExists
  <2>3. PICK m \in DOMAIN step : m = Min(shared) /\ HasRoom(step[m], k)
      BY <2>2
  <2>4. WithGate(step, k) = [step EXCEPT ![m].gates = @ + 1]
      BY <1>2, <2>3 DEF WithGate
  <2> HIDE DEF shared
  <2> DEFINE r == [step[m] EXCEPT !.gates = @ + 1]
  <2>5. RegionFits(r)
      BY <2>3, GateFits
  <2>6. WithGate(step, k) = [step EXCEPT ![m] = r]
      BY <2>4
  <2> HIDE DEF r
  <2>7. /\ DOMAIN WithGate(step, k) = DOMAIN step /\ Len(WithGate(step, k)) = Len(step)
        /\ \A j \in DOMAIN step : WithGate(step, k)[j] = IF j = m THEN r ELSE step[j]
      BY <2>6
  <2> QED
      BY <2>5, <2>7 DEF StepFits
<1>3. CASE shared = {}
  <2> DEFINE r == [kind |-> k, gates |-> 1]
  <2>1. WithGate(step, k) = Append(step, r)
      BY <1>3 DEF WithGate
  <2>2. Len(step) < RES_CONSTRAINT
      BY <1>3 DEF HasPlace
  <2>3. RegionFits(r)
      BY NewRegionFits
  <2> HIDE DEF r, shared
  <2>4. /\ Len(Append(step, r)) = Len(step) + 1
        /\ \A j \in 1 .. Len(step) + 1 :
             Append(step, r)[j] = IF j <= Len(step) THEN step[j] ELSE r
      OBVIOUS
  <2>5. Len(step) + 1 <= RES_CONSTRAINT
      BY <1>1, <2>2, ConstraintsAssumption
  <2>6. DOMAIN Append(step, r) = 1 .. Len(step) + 1
      OBVIOUS
  <2>7. \A j \in 1 .. Len(step) + 1 : RegionFits(Append(step, r)[j])
      BY <1>1, <2>3, <2>4 DEF StepFits
  <2> QED
      BY <2>1, <2>4, <2>5, <2>6, <2>7 DEF StepFits
<1> QED
    BY <1>2, <1>3

\* A gate in the first step with a place for it, or in one more step.
LEMMA GateKeepsLayout ==
    ASSUME IInv, LayoutInv, NEW i \in Calls, PlaceGate(i)
    PROVE  LayoutInv'
<1> DEFINE n == IF Suitable(i) # {} THEN Min(Suitable(i)) ELSE Len(steps) + 1
<1>1. /\ Types /\ BodyOk /\ PlacingInv /\ Turn(i) /\ hasPrimitivesOnly(fn)
      /\ UNCHANGED <<program, fn, phase, rank, total, funcInfo>>
      /\ steps' = IF n \in DOMAIN steps
                  THEN [steps EXCEPT ![n] = WithGate(@, kind(i))]
                  ELSE Append(steps, WithGate(<<>>, kind(i)))
      /\ curr' = [width |-> Larger(curr.width, Len(steps'[n])), length |-> Len(steps')]
      /\ start' = [start EXCEPT ![i] = n - 1]
    BY BodyFacts DEF IInv, Types, Placing, PlaceGate, Place
<1>2. /\ steps \in Seq(Seq(Region)) /\ Len(steps) \in Nat
      /\ DOMAIN steps = 1 .. Len(steps)
      /\ kind(i) \in Gates \cup {"call"}
      /\ curr.width \in Nat
    BY <1>1 DEF Types, BodyOk, Size
<1>3. RoomInv /\ LengthInv
    BY DEF LayoutInv
<1>4. /\ n \in Nat \ {0} /\ n <= Len(steps) + 1
      /\ n \in DOMAIN steps => HasPlace(steps[n], kind(i))
      /\ n \notin DOMAIN steps => n = Len(steps) + 1
  <2>1. CASE Suitable(i) # {}
    <3>1. Suitable(i) \in SUBSET Nat
          /\ \A k \in Suitable(i) : k \in DOMAIN steps /\ HasPlace(steps[k], kind(i))
        BY <1>2 DEF Suitable
    <3>2. Min(Suitable(i)) \in Suitable(i)
        BY <2>1, <3>1, LeastExists
    <3> QED
        BY <1>2, <2>1, <3>1, <3>2
  <2>2. CASE Suitable(i) = {}
      BY <1>2, <2>2
  <2> QED
      BY <2>1, <2>2
<1> HIDE DEF n
<1> DEFINE step == IF n \in DOMAIN steps THEN steps[n] ELSE << >>
           new == WithGate(step, kind(i))
<1>5. /\ step \in Seq(Region) /\ StepFits(step) /\ HasPlace(step, kind(i))
  <2>1. CASE n \in DOMAIN steps
    <3>1. step = steps[n] /\ step \in Seq(Region)
        BY <1>2, <2>1
    <3>2. StepFits(steps[n]) /\ HasPlace(steps[n], kind(i))
        BY <1>3, <1>4, <2>1 DEF RoomInv
    <3> QED
        BY <3>1, <3>2, Zenon
  <2>2. CASE n \notin DOMAIN steps
    <3>1. step = << >> /\ Len(<< >>) = 0 /\ DOMAIN << >> = {} /\ << >> \in Seq(Region)
        BY <2>2
    <3>2. 0 < RES_CONSTRAINT /\ 0 <= RES_CONSTRAINT
        BY ConstraintsAssumption
    <3> HIDE DEF step
    <3>3. StepFits(step)
        BY <3>1, <3>2 DEF StepFits
    <3>4. HasPlace(step, kind(i))
        BY <3>1, <3>2 DEF HasPlace
    <3> QED
        BY <3>1, <3>3, <3>4
  <2> QED
      BY <2>1, <2>2
<1>6. StepFits(new) /\ new \in Seq(Region)
    BY <1>2, <1>5, StepStillFits, WithGateType
<1>7. /\ Len(steps') = Larger(n, Len(steps))
      /\ DOMAIN steps' = 1 .. Len(steps') /\ n \in DOMAIN steps' /\ steps'[n] = new
      /\ \A m \in DOMAIN steps' : m # n => m \in DOMAIN steps /\ steps'[m] = steps[m]
  <2>1. CASE n \in DOMAIN steps
    <3>1. steps' = [steps EXCEPT ![n] = new]
        BY <1>1, <2>1
    <3> HIDE DEF new
    <3>2. /\ Len(steps') = Len(steps) /\ DOMAIN steps' = DOMAIN steps
          /\ \A m \in DOMAIN steps : steps'[m] = IF m = n THEN new ELSE steps[m]
        BY <1>2, <3>1
    <3>3. Larger(n, Len(steps)) = Len(steps)
        BY <1>2, <2>1 DEF Larger
    <3> QED
        BY <1>2, <2>1, <3>2, <3>3
  <2>2. CASE n \notin DOMAIN steps
    <3>1. steps' = Append(steps, new) /\ n = Len(steps) + 1
        BY <1>1, <1>4, <2>2
    <3> HIDE DEF new
    <3>2. /\ Len(steps') = Len(steps) + 1 /\ DOMAIN steps' = 1 .. Len(steps) + 1
          /\ \A m \in 1 .. Len(steps) + 1 :
               steps'[m] = IF m = n THEN new ELSE steps[m]
        BY <1>2, <3>1
    <3>3. Larger(n, Len(steps)) = n
        BY <1>2, <3>1 DEF Larger
    <3> QED
        BY <1>2, <3>1, <3>2, <3>3
  <2> QED
      BY <2>1, <2>2
<1> HIDE DEF new, step
<1>8. RoomInv'
  <2>1. Len(new) \in Nat /\ Len(new) <= RES_CONSTRAINT
      BY <1>6 DEF StepFits
  <2>2. curr'.width <= RES_CONSTRAINT
      BY <1>1, <1>2, <1>3, <1>7, <2>1 DEF RoomInv, Larger
  <2>3. \A m \in DOMAIN steps' : StepFits(steps'[m])
      BY <1>3, <1>6, <1>7 DEF RoomInv
  <2> QED
      BY <1>1, <1>3, <2>2, <2>3 DEF RoomInv, WidthsFit
<1>9. /\ hasPrimitivesOnly(fn)' <=> hasPrimitivesOnly(fn)
      /\ Horizon = Len(steps) /\ Horizon' = Len(steps')
    BY <1>1, SameCalls DEF Horizon
<1>10. LengthInv'
  <2>1. Duration(i) = 1
      BY <1>1 DEF Duration
  <2>2. /\ n - 1 \in Nat /\ n - 1 <= Horizon
        /\ Horizon' = Larger((n - 1) + Duration(i), Horizon)
      BY <1>2, <1>4, <1>7, <1>9, <2>1
  <2>3. Horizon \in Nat
      BY <1>2, <1>9
  <2>4. (total.length = 0 /\ curr.length = Len(steps))'
      BY <1>1, <1>3 DEF LengthInv
  <2> QED
      BY <1>1, <2>2, <2>3, <2>4, PlaceKeepsLength
<1> QED
    BY <1>1, <1>8, <1>9, <1>10 DEF LayoutInv

\* A function that has ended hands its width on.
LEMMA FinishKeepsLayout ==
    ASSUME IInv, LayoutInv, phase # "over", NEW info \in Size,
           info.width <= RES_CONSTRAINT, Finish(info)
    PROVE  LayoutInv'
<1>1. /\ program' = program /\ funcInfo' = Append(funcInfo, info)
      /\ funcInfo \in Seq(Size) /\ Len(funcInfo) = fn - 1
      /\ BodyOk /\ Here
    BY BodyFacts DEF Finish, IInv, Types
<1>2. /\ funcInfo' \in Seq(Size) /\ Len(funcInfo') = fn
      /\ DOMAIN funcInfo' = 1 .. fn /\ DOMAIN funcInfo = 1 .. fn - 1
      /\ \A k \in 1 .. fn - 1 : funcInfo'[k] = funcInfo[k]
      /\ funcInfo'[fn] = info
    BY <1>1 DEF BodyOk
<1>3. WidthsFit'
  <2>1. \A k \in 1 .. fn : k = fn \/ k \in 1 .. fn - 1
      BY <1>1 DEF BodyOk
  <2>2. \A k \in 1 .. fn - 1 : funcInfo[k].width <= RES_CONSTRAINT
      BY <1>2 DEF LayoutInv, RoomInv, WidthsFit
  <2> QED
      BY <1>2, <2>1, <2>2 DEF WidthsFit
<1>4. CASE fn < Len(program.functions)
  <2>1. /\ BeginFunction(fn + 1) /\ fn' = fn + 1
      BY <1>4 DEF Finish, BeginFunction
  <2>2. Here'
      BY <1>1, <1>4, <2>1 DEF Here, BodyOk
  <2>3. Begun'
    <3>1. /\ phase' = "rank" /\ total' = Idle /\ curr' = Idle /\ steps' = <<>>
          /\ Len(funcInfo') = fn' - 1
        BY <1>1, <1>2, <2>1 DEF BeginFunction, BodyOk
    <3>2. /\ rank' = [j \in Calls' |-> 0] /\ start' = [j \in Calls' |-> -1]
        BY <1>1, <2>1 DEF BeginFunction, Calls, Body
    <3>3. funcQbits' = Fresh(fn)'
        BY <1>1, <2>1 DEF BeginFunction, Fresh, Body
    <3> QED
        BY <1>2, <3>1, <3>2, <3>3 DEF Begun, Idle
  <2> QED
      BY <1>3, <2>2, <2>3, BegunLayout, PTL
<1>5. CASE ~(fn < Len(program.functions))
  <2>1. UNCHANGED <<program, fn, start, total, curr, steps>>
      BY <1>5 DEF Finish
  <2>2. \A i \in Calls : Win(i)' = Win(i) /\ Lin(i)' = Lin(i)
    <3>1. ASSUME NEW i \in Calls
          PROVE  /\ kind(i)' = kind(i) /\ callee(i)' = callee(i)
                 /\ kind(i) \notin Gates => funcInfo'[callee(i)] = funcInfo[callee(i)]
      <4>1. kind(i)' = kind(i) /\ callee(i)' = callee(i)
          BY <2>1 DEF kind, callee, Body
      <4>2. kind(i) \notin Gates => callee(i) \in 1 .. fn - 1
          BY <1>1 DEF BodyOk
      <4> QED
          BY <1>2, <4>1, <4>2
    <3> QED
        BY <3>1 DEF Win, Lin
  <2> QED
      BY <1>3, <2>1, <2>2, SameLayout
<1> QED
    BY <1>4, <1>5

LEMMA InitLayout == Init => LayoutInv
<1> SUFFICES ASSUME Init PROVE LayoutInv
    OBVIOUS
<1>1. Here
  <2>1. IInv
      BY InitInv
  <2> QED
      BY <2>1 DEF IInv, Types
<1>2. Begun /\ WidthsFit
    BY DEF Init, Begun, WidthsFit
<1> QED
    BY <1>1, <1>2, BegunLayout

LEMMA NextLayout == IInv /\ LayoutInv /\ [Next]_vars => LayoutInv'
<1> SUFFICES ASSUME IInv, LayoutInv, [Next]_vars PROVE LayoutInv'
    OBVIOUS
<1>1. ASSUME UNCHANGED <<program, fn, start, total, curr, steps, funcInfo>>
      PROVE  LayoutInv'
  <2>1. WidthsFit'
      BY <1>1 DEF LayoutInv, RoomInv, WidthsFit
  <2>2. \A i \in Calls : Win(i)' = Win(i) /\ Lin(i)' = Lin(i)
      BY <1>1 DEF Win, Lin, kind, callee, Body
  <2> QED
      BY <1>1, <2>1, <2>2, SameLayout
<1>2. CASE RankCall
    BY <1>1, <1>2 DEF RankCall
<1>3. CASE StartPlacing
    BY <1>1, <1>3 DEF StartPlacing
<1>4. ASSUME NEW i \in Calls, PlaceInWindow(i) \/ PlaceInNewWindow(i) PROVE LayoutInv'
    BY <1>4, WindowsKeepLayout
<1>5. ASSUME NEW i \in Calls, PlaceGate(i) PROVE LayoutInv'
    BY <1>5, GateKeepsLayout
<1>6. CASE TakeFromFile
  <2>1. phase = "rank" /\ fn \in DOMAIN program.file /\ Finish(program.file[fn])
      BY <1>6 DEF TakeFromFile
  <2>2. program.file[fn] \in Info /\ RES_CONSTRAINT \in Nat
      BY <2>1, BodyFacts, ConstraintsAssumption DEF IInv, Types, BodyOk
  <2>3. program.file[fn] \in Size /\ program.file[fn].width <= RES_CONSTRAINT
      BY <2>2 DEF Info, Size
  <2> QED
      BY <2>1, <2>3, FinishKeepsLayout
<1>7. CASE save_blackbox_info
  <2> DEFINE info == [width |-> Larger(total.width, curr.width),
                      length |-> total.length + curr.length]
  <2>1. phase = "place" /\ Finish(info)
      BY <1>7 DEF save_blackbox_info
  <2>2. total \in Size /\ curr \in Size
      BY DEF IInv, Types
  <2>3. info \in Size
      BY <2>2 DEF Size, Larger
  <2>4. info.width <= RES_CONSTRAINT
      BY DEF LayoutInv, RoomInv, Larger
  <2> HIDE DEF info
  <2> QED
      BY <2>1, <2>3, <2>4, FinishKeepsLayout
<1>8. CASE UNCHANGED vars
    BY <1>1, <1>8 DEF vars
<1> QED
    BY <1>2, <1>3, <1>4, <1>5, <1>6, <1>7, <1>8 DEF Next, Ended

\* The schedule has room for what it holds and ends where it says, for any
\* program and any machine.
THEOREM CoarseLayout == Spec => [](IInv /\ LayoutInv)
<1>1. Init => IInv /\ LayoutInv
    BY InitInv, InitLayout
<1>2. IInv /\ LayoutInv /\ [Next]_vars => (IInv /\ LayoutInv)'
    BY NextInv, NextLayout
<1> QED
    BY <1>1, <1>2, PTL DEF Spec

\* get_ts_to_schedule (549) and get_ts_to_schedule_leaf (699) use no more
\* regions, and no more of a region, than there are.
THEOREM WidthKeptHolds == Spec => []WidthKept
<1>1. IInv /\ LayoutInv => WidthKept
  <2> SUFFICES ASSUME IInv, LayoutInv PROVE WidthKept
      OBVIOUS
  <2>1. ASSUME NEW i \in PlacedCalls, ~hasPrimitivesOnly(fn)
        PROVE  MapThenSumSet(Win, Active(start[i])) <= RES_CONSTRAINT
    <3> DEFINE A == Active(start[i])
    <3>1. A \in SUBSET Calls
        BY DEF Active, PlacedCalls
    <3>2. IsFiniteSet(A) /\ \A j \in A : Widths[j] \in Nat /\ Widths[j] = Win(j)
        BY <3>1, Measures, FS_Subset DEF IInv, LayoutInv
    <3>3. Sum(Widths, A) <= RES_CONSTRAINT
        BY <2>1 DEF LayoutInv, WindowInv
    <3> HIDE DEF A
    <3>4. MapThenSumSet(Win, A) = Sum(Widths, A)
        BY <3>1, <3>2, SumOfWidths
    <3> QED
        BY <3>3, <3>4 DEF A
  <2>2. \A n \in DOMAIN steps :
          /\ Len(steps[n]) <= RES_CONSTRAINT
          /\ \A j \in DOMAIN steps[n] :
                IF steps[n][j].kind = "CNOT"
                THEN 2 * steps[n][j].gates <= DATA_CONSTRAINT + (DATA_CONSTRAINT % 2)
                ELSE steps[n][j].gates <= DATA_CONSTRAINT
      BY DEF LayoutInv, RoomInv, StepFits, RegionFits
  <2> QED
      BY <2>1, <2>2 DEF WidthKept
<1> QED
    BY <1>1, CoarseLayout, PTL

-----------------------------------------------------------------------------
(* Chains of calls that share elements.                                    *)

Later(i) == {k \in Calls : i < k /\ Shares(i, k)}
Last(k) == {i \in Calls : Len(Body(fn)) - i < k}

Chained(g, i) == g[i] = Duration(i) + Max({0} \cup {g[j] : j \in Later(i)})

\* The chains from the last k calls.
LastChains(g, k, B) ==
    /\ g \in [Last(k) -> Nat]
    /\ \A i \in Last(k) : g[i] <= B /\ Chained(g, i)

HasChains(k) == \E B \in Nat : \E g : LastChains(g, k, B)

\* The greatest of some of a set of bounded values, and 0.
LEMMA GreatestOf ==
    ASSUME NEW S, NEW g, NEW B \in Nat, \A j \in S : g[j] \in Nat /\ g[j] <= B
    PROVE  /\ Max({0} \cup {g[j] : j \in S}) \in Nat
           /\ Max({0} \cup {g[j] : j \in S}) <= B
           /\ \A j \in S : g[j] <= Max({0} \cup {g[j2] : j2 \in S})
           /\ \/ Max({0} \cup {g[j] : j \in S}) = 0
              \/ \E j \in S : Max({0} \cup {g[j2] : j2 \in S}) = g[j]
<1> DEFINE V == {0} \cup {g[j] : j \in S}
<1>1. V \in SUBSET Nat /\ V # {} /\ \A v \in V : v <= B
    OBVIOUS
<1>2. Max(V) \in V /\ \A v \in V : v <= Max(V)
  <2> HIDE DEF V
  <2> QED
      BY <1>1, GreatestExists
<1>3. Max(V) = 0 \/ \E j \in S : Max(V) = g[j]
    BY <1>2
<1>4. \A j \in S : g[j] \in V
    OBVIOUS
<1> QED
    BY <1>1, <1>2, <1>3, <1>4

LEMMA ChainsOfLast ==
    ASSUME Types, NEW k \in Nat
    PROVE  HasChains(k)
<1> DEFINE T == {j \in Nat : HasChains(j)}
           N == Len(Body(fn))
<1>1. /\ N \in Nat /\ Calls = 1 .. N
      /\ \A i \in Calls : Duration(i) \in Nat
    BY BodyFacts, DurationType DEF Types, BodyOk
<1>2. 0 \in T
  <2> DEFINE g == [i \in {} |-> 0]
  <2>1. Last(0) = {}
      BY <1>1 DEF Last
  <2>2. LastChains(g, 0, 0)
      BY <2>1 DEF LastChains
  <2> HIDE DEF g
  <2> QED
      BY <2>2 DEF HasChains
<1>3. ASSUME NEW j \in Nat, j \in T
      PROVE  j + 1 \in T
  <2>1. PICK B \in Nat : \E g : LastChains(g, j, B)
      BY <1>3 DEF HasChains
  <2>2. PICK g : LastChains(g, j, B)
      BY <2>1
  <2>3. CASE N - j \notin Calls
    <3>1. Last(j + 1) = Last(j)
        BY <1>1, <2>3 DEF Last
    <3>2. LastChains(g, j + 1, B)
        BY <2>2, <3>1 DEF LastChains
    <3> QED
        BY <3>2 DEF HasChains
  <2>4. CASE N - j \in Calls
    <3> DEFINE i == N - j
               most == Max({0} \cup {g[m] : m \in Later(i)})
               C == B + Duration(i)
               h == [m \in Last(j + 1) |-> IF m = i THEN Duration(i) + most ELSE g[m]]
    <3>1. /\ Last(j + 1) = Last(j) \cup {i} /\ i \notin Last(j) /\ i \in Calls
          /\ Later(i) \subseteq Last(j)
          /\ \A m \in Last(j) : Later(m) \subseteq Last(j)
      <4>1. Last(j + 1) = Last(j) \cup {i} /\ i \notin Last(j) /\ i \in Calls
          BY <1>1, <2>4 DEF Last
      <4>2. Later(i) \subseteq Last(j)
          BY <1>1, <2>4 DEF Later, Last
      <4>3. \A m \in Last(j) : Later(m) \subseteq Last(j)
          BY <1>1 DEF Later, Last
      <4> QED
          BY <4>1, <4>2, <4>3
    <3>2. \A m \in Last(j) : g[m] \in Nat /\ g[m] <= B /\ Chained(g, m)
        BY <2>2 DEF LastChains
    <3>3. most \in Nat /\ most <= B
        BY <3>1, <3>2, GreatestOf
    <3>4. Duration(i) \in Nat /\ C \in Nat
        BY <1>1, <3>1
    <3> HIDE DEF most, i
    <3>5. /\ h \in [Last(j + 1) -> Nat]
          /\ h[i] = Duration(i) + most /\ \A m \in Last(j) : h[m] = g[m]
        BY <3>1, <3>2, <3>3, <3>4
    <3> HIDE DEF h
    <3>6. \A m \in Last(j + 1) : {h[x] : x \in Later(m)} = {g[x] : x \in Later(m)}
        BY <3>1, <3>5
    <3>7. \A m \in Last(j + 1) : Chained(h, m)
      <4>1. Chained(h, i)
          BY <3>1, <3>5, <3>6 DEF Chained, most
      <4>2. ASSUME NEW m \in Last(j) PROVE Chained(h, m)
          BY <3>1, <3>2, <3>5, <3>6 DEF Chained
      <4> QED
          BY <3>1, <4>1, <4>2
    <3>8. \A m \in Last(j + 1) : h[m] <= C
        BY <3>1, <3>2, <3>3, <3>4, <3>5
    <3> HIDE DEF C
    <3>9. LastChains(h, j + 1, C)
        BY <3>5, <3>7, <3>8 DEF LastChains
    <3> QED
        BY <3>4, <3>9 DEF HasChains
  <2> QED
      BY <2>3, <2>4
<1>4. Nat \subseteq T
  <2> HIDE DEF T
  <2> QED
      BY <1>2, <1>3, SetInduction
<1> QED
    BY <1>4

\* Chain has the length of the longest chain from each call.
LEMMA ChainsExist ==
    ASSUME Types
    PROVE  \E B \in Nat : \A i \in Calls : Chain[i] \in Nat /\ Chain[i] <= B /\ Chained(Chain, i)
<1> DEFINE N == Len(Body(fn))
           P(g) == g = [i \in Calls |->
                          Duration(i) + Max({0} \cup {g[j] : j \in {k \in Calls : i < k /\ Shares(i, k)}})]
           c == CHOOSE g : P(g)
<1>1. N \in Nat /\ Calls = 1 .. N
    BY BodyFacts DEF Types, BodyOk
<1>2. Last(N) = Calls
    BY <1>1 DEF Last
<1>3. PICK B \in Nat : \E g : LastChains(g, N, B)
    BY <1>1, ChainsOfLast DEF HasChains
<1>4. PICK g : LastChains(g, N, B)
    BY <1>3
<1>5. Chain = c
    BY DEF Chain
<1>6. P(g)
  <2>1. g = [i \in Calls |-> g[i]]
      BY <1>2, <1>4 DEF LastChains
  <2>2. \A i \in Calls : g[i] = Duration(i) + Max({0} \cup {g[j] : j \in {k \in Calls : i < k /\ Shares(i, k)}})
      BY <1>2, <1>4 DEF LastChains, Chained, Later
  <2> QED
      BY <2>1, <2>2, Zenon
<1>7. P(c)
  <2> HIDE DEF P
  <2> QED
      BY <1>6
<1> HIDE DEF c
<1>8. \A i \in Calls : Chained(c, i)
  <2>1. c = [i \in Calls |->
               Duration(i) + Max({0} \cup {c[j] : j \in {k \in Calls : i < k /\ Shares(i, k)}})]
      BY <1>7
  <2> QED
      BY <2>1, Zenon DEF Chained, Later
<1>9. ASSUME NEW h, \A i \in Calls : Chained(h, i)
      PROVE  \A i \in Calls : h[i] = g[i]
  <2> DEFINE T == {k \in Nat : \A i \in Last(k) : h[i] = g[i]}
  <2>1. 0 \in T
      BY <1>1 DEF Last
  <2>2. ASSUME NEW k \in Nat, k \in T
        PROVE  k + 1 \in T
    <3>1. ASSUME NEW i \in Last(k + 1) PROVE h[i] = g[i]
      <4>1. i \in Calls /\ Later(i) \subseteq Last(k)
          BY <1>1 DEF Later, Last
      <4>2. {h[j] : j \in Later(i)} = {g[j] : j \in Later(i)}
          BY <2>2, <4>1
      <4>3. Chained(h, i) /\ Chained(g, i)
          BY <1>2, <1>4, <1>9, <4>1 DEF LastChains
      <4> QED
          BY <4>2, <4>3 DEF Chained
    <3> QED
        BY <3>1
  <2>3. Nat \subseteq T
    <3> HIDE DEF T
    <3> QED
        BY <2>1, <2>2, SetInduction
  <2>4. N \in T
      BY <1>1, <2>3
  <2> QED
      BY <1>2, <2>4
<1>10. \A i \in Calls : c[i] = g[i]
    BY <1>8, <1>9
<1>11. \A i \in Calls : g[i] \in Nat /\ g[i] <= B
    BY <1>2, <1>4 DEF LastChains
<1> QED
    BY <1>5, <1>8, <1>10, <1>11

\* A chain placed from call i on ends within the schedule.
LEMMA ChainsFit ==
    ASSUME Types, CallsApart, AllPlaced, NEW length \in Nat,
           \A i \in Calls : End(i) <= length
    PROVE  \A i \in Calls : Chain[i] <= length
<1> DEFINE T == {k \in Nat : \A i \in Last(k) : start[i] + Chain[i] <= length}
           N == Len(Body(fn))
<1>1. /\ N \in Nat /\ Calls = 1 .. N
      /\ \A i \in Calls : Duration(i) \in Nat
    BY BodyFacts, DurationType DEF Types, BodyOk
<1>2. PlacedCalls = Calls /\ \A i \in Calls : start[i] \in Nat
    BY DEF Types, AllPlaced, PlacedCalls
<1>3. PICK B \in Nat : \A i \in Calls : Chain[i] \in Nat /\ Chain[i] <= B /\ Chained(Chain, i)
    BY ChainsExist
<1>4. 0 \in T
    BY <1>1 DEF Last
<1>5. ASSUME NEW k \in Nat, k \in T
      PROVE  k + 1 \in T
  <2>1. ASSUME NEW i \in Last(k + 1) PROVE start[i] + Chain[i] <= length
    <3>1. i \in Calls /\ Later(i) \subseteq Last(k) /\ Later(i) \subseteq Calls
        BY <1>1 DEF Later, Last
    <3> DEFINE most == Max({0} \cup {Chain[j] : j \in Later(i)})
    <3>2. most = 0 \/ \E j \in Later(i) : most = Chain[j]
        BY <1>3, <3>1, GreatestOf
    <3>3. Chain[i] = Duration(i) + most
        BY <1>3, <3>1 DEF Chained
    <3> HIDE DEF most
    <3>4. CASE most = 0
        BY <1>1, <1>2, <3>1, <3>3, <3>4 DEF End
    <3>5. CASE \E j \in Later(i) : most = Chain[j]
      <4>1. PICK j \in Later(i) : most = Chain[j]
          BY <3>5
      <4>2. j \in Calls /\ start[j] + Chain[j] <= length
          BY <1>5, <3>1
      <4>3. start[i] + Duration(i) <= start[j]
          BY <1>2, <3>1, <4>2 DEF Later, CallsApart
      <4>4. /\ start[i] \in Nat /\ start[j] \in Nat /\ Duration(i) \in Nat
            /\ Chain[j] \in Nat
          BY <1>1, <1>2, <1>3, <3>1, <4>2
      <4>5. start[i] + (Duration(i) + Chain[j]) <= length
          BY <4>2, <4>3, <4>4
      <4> QED
          BY <3>3, <4>1, <4>5
    <3> QED
        BY <3>2, <3>4, <3>5
  <2> QED
      BY <2>1
<1>6. Nat \subseteq T
  <2> HIDE DEF T
  <2> QED
      BY <1>4, <1>5, SetInduction
<1>7. Last(N) = Calls /\ N \in T
    BY <1>1, <1>6 DEF Last
<1> QED
    BY <1>2, <1>3, <1>7

\* The length that save_blackbox_info (859) hands to the callers is that of the
\* schedule, between the longest chain and all calls in a row.
THEOREM LengthIsRightHolds == Spec => []LengthIsRight
<1>1. IInv /\ LayoutInv => LengthIsRight
  <2> SUFFICES ASSUME IInv, LayoutInv, phase = "place", AllPlaced
               PROVE  LET length == total.length + curr.length IN
                        /\ length = Max({0} \cup {start[i] + Duration(i) : i \in Calls})
                        /\ \A i \in Calls : Chain[i] <= length
                        /\ length <= MapThenSumSet(Duration, Calls)
      BY DEF LengthIsRight
  <2> DEFINE length == total.length + curr.length
  <2>1. Types /\ CallsApart /\ LengthInv /\ RoomInv
      BY DEF IInv, LayoutInv
  <2>2. length \in Nat /\ length = Horizon
    <3>1. length \in Nat
        BY <2>1 DEF Types, Size
    <3>2. hasPrimitivesOnly(fn) => length = Len(steps)
        BY <2>1, <3>1 DEF LengthInv, Types
    <3> QED
        BY <3>1, <3>2 DEF Horizon
  <2>3. PlacedCalls = Calls /\ \A i \in Calls : start[i] \in Nat
      BY <2>1 DEF Types, AllPlaced, PlacedCalls
  <2>4. /\ IsFiniteSet(Calls)
        /\ \A i \in Calls : Duration(i) \in Nat /\ Durations[i] = Duration(i)
      BY <2>1, Measures
  <2>5. \A i \in Calls : End(i) <= length /\ End(i) \in Nat
      BY <2>1, <2>2, <2>3, <2>4 DEF LengthInv, End
  <2>6. length = 0 \/ \E i \in Calls : End(i) = length
      BY <2>1, <2>2, <2>3 DEF LengthInv
  <2>7. length = Max({0} \cup {start[i] + Duration(i) : i \in Calls})
    <3> DEFINE V == {0} \cup {End(i) : i \in Calls}
    <3>1. V \in SUBSET Nat /\ V # {} /\ length \in V /\ \A v \in V : v <= length
        BY <2>2, <2>5, <2>6
    <3> HIDE DEF V, length
    <3>2. Max(V) \in V /\ \A v \in V : v <= Max(V)
        BY <2>2, <3>1, GreatestExists
    <3>3. Max(V) = length
      <4>1. PICK m \in Nat : m = Max(V)
          BY <3>1, <3>2
      <4>2. m <= length /\ length <= m
          BY <3>1, <3>2, <4>1
      <4> QED
          BY <2>2, <4>1, <4>2
    <3>4. V = {0} \cup {start[i] + Duration(i) : i \in Calls}
        BY DEF V, End
    <3> QED
        BY <3>3, <3>4
  <2>8. \A i \in Calls : Chain[i] <= length
    <3> HIDE DEF length
    <3> QED
        BY <2>1, <2>2, <2>5, ChainsFit
  <2>9. length <= MapThenSumSet(Duration, Calls)
    <3>1. MapThenSumSet(Duration, Calls) = Sum(Durations, Calls)
        BY <2>4, SumOfDurations
    <3>2. Horizon <= Sum(Durations, Calls)
        BY <2>1, <2>3 DEF LengthInv
    <3> QED
        BY <2>2, <3>1, <3>2
  <2> QED
      BY <2>7, <2>8, <2>9
<1> QED
    BY <1>1, CoarseLayout, PTL
=============================================================================
