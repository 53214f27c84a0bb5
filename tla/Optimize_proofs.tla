--------------------------- MODULE Optimize_proofs ---------------------------
(***************************************************************************)
(* What the passes over the gates keep, for every circuit, number of       *)
(* qubits and threshold.                                                   *)
(*                                                                         *)
(*   - A CNOT undoes itself and commutes, as a map of states, with every   *)
(*     gate that ifCommute lets it past.  A list of gates is followed by   *)
(*     the Trace of the states it goes through; to cancel or to move a     *)
(*     CNOT changes the trace between its two places only (MeaningInv).    *)
(*   - While a pass has erased no gate, what lies before gInd has been     *)
(*     searched in vain, or a CNOT that was moved still waits for the      *)
(*     turn in which it is merged and erased (PassInv).                    *)
(***************************************************************************)
EXTENDS Optimize, FiniteSetTheorems, SequenceTheorems, WellFoundedInduction, TLAPS

-----------------------------------------------------------------------------
(* Gates *)

Gate == SourceGate \cup {None}

\* What is known of a CNOT and of any other gate.
LEMMA GateParts ==
  ASSUME NEW g \in Gate
  PROVE  /\ g \in OpGate
         /\ g.gateTy # "" => g \in SourceGate
         /\ g.gateTy # "" => g.target \in 1 .. NumQubits
         /\ Controlled(g) => g.control1 \in 1 .. NumQubits /\ g.control1 # g.target
         /\ g.gateTy = "o" => g.control2 \in 1 .. NumQubits /\ g.control2 # g.target
         /\ IsCNOT(g) => g.control2 = 0
<1>1. CASE g \in SourceGate
  BY <1>1 DEF SourceGate, OnQubits, IsCNOT, Controlled
<1>2. CASE g = None
  <2>1. g.gateTy = "" /\ g.target = 0 /\ g.control1 = 0 /\ g.control2 = 0
    BY <1>2 DEF None
  <2>2. 0 \in 0 .. NumQubits
    BY ThresholdAssumption
  <2>3. g \in OpGate
    BY <1>2, <2>2 DEF None, OpGate
  <2>4. QED
    BY <2>1, <2>3 DEF IsCNOT, Controlled
<1>3. QED
  BY <1>1, <1>2 DEF Gate

\* The values of a bit.
LEMMA BitSum ==
  ASSUME NEW a \in Bit, NEW b \in Bit
  PROVE  /\ a \in Int /\ (a = 0 \/ a = 1)
         /\ (a + b) % 2 \in Bit
         /\ (((a + b) % 2) + b) % 2 = a
         /\ a * b \in Bit
BY DEF Bit

\* A CNOT changes one bit.
LEMMA ApplyCNOT ==
  ASSUME NEW g \in Gate, IsCNOT(g), NEW st, NEW free
  PROVE  Apply(g, st, free) =
           [st EXCEPT !.bits[g.target] = (@ + st.bits[g.control1]) % 2]
BY DEF Apply, IsCNOT, Flip

\* The fields of a state.
LEMMA StateParts ==
  ASSUME NEW st \in State
  PROVE  /\ st.bits \in [1 .. NumQubits -> Bit]
         /\ st.phase \in 0 .. 7
         /\ st.used \in [1 .. NumQubits -> Nat]
         /\ st.seen \in [1 .. NumQubits -> Seq(Bit)]
BY DEF State, Register

\* What the parts of a gate do with a state.
LEMMA PhaseType ==
  ASSUME NEW st \in State, NEW n \in Int
  PROVE  Phase(st, n) \in State /\ Phase(st, n).used = st.used
<1>1. st.phase \in Int /\ (st.phase + n) % 8 \in 0 .. 7
  <2>1. st.phase \in Int
    BY StateParts
  <2>2. QED
    BY <2>1
<1>2. QED
  BY <1>1 DEF Phase, State

\* An exchanged bit keeps the type of a state.
LEMMA FlipType ==
  ASSUME NEW st \in State, NEW q \in 1 .. NumQubits, NEW v \in Bit
  PROVE  Flip(st, q, v) \in State
<1>1. (st.bits[q] + v) % 2 \in Bit
  BY StateParts, BitSum
<1>2. [st.bits EXCEPT ![q] = (st.bits[q] + v) % 2] \in Register
  BY <1>1, StateParts DEF Register
<1>3. QED
  BY <1>2 DEF Flip, State

\* So does a recorded bit.
LEMMA RecordType ==
  ASSUME NEW st \in State, NEW q \in 1 .. NumQubits
  PROVE  Record(st, q) \in State
<1>1. st.bits[q] \in Bit /\ st.seen[q] \in Seq(Bit)
  BY StateParts
<1>2. Append(st.seen[q], st.bits[q]) \in Seq(Bit)
  BY <1>1, AppendProperties
<1> DEFINE seen == [st.seen EXCEPT ![q] = Append(st.seen[q], st.bits[q])]
<1>3. seen \in [1 .. NumQubits -> Seq(Bit)]
  BY <1>2, StateParts
<1>4. Record(st, q) = [st EXCEPT !.seen = seen]
  BY DEF Record
<1> HIDE DEF seen
<1>5. QED
  BY <1>3, <1>4 DEF State

\* So does a free bit.
LEMMA SplitType ==
  ASSUME NEW st \in State, NEW q \in 1 .. NumQubits, NEW v \in Bit
  PROVE  Split(st, q, v) \in State
<1> DEFINE bits == [st.bits EXCEPT ![q] = v]
           used == [st.used EXCEPT ![q] = st.used[q] + 1]
<1>1. bits \in Register /\ used \in [1 .. NumQubits -> Nat]
  <2>1. st.used[q] \in Nat
    BY StateParts
  <2>2. st.used[q] + 1 \in Nat
    BY <2>1
  <2>3. QED
    BY <2>2, StateParts DEF Register
<1>2. Split(st, q, v) = [[st EXCEPT !.bits = bits] EXCEPT !.used = used]
  BY DEF Split, State
<1> HIDE DEF bits, used
<1>3. QED
  BY <1>1, <1>2 DEF State

\* A gate with an open outcome finds a free bit.
Supplied(g, st, free) ==
  g.gateTy \in {"h", "n"} => free[<<g.target, st.used[g.target] + 1>>] \in Bit

\* The gates take states to states.
LEMMA ApplyType ==
  ASSUME NEW g \in Gate, NEW st \in State, NEW free,
         Supplied(g, st, free)
  PROVE  Apply(g, st, free) \in State
<1> DEFINE t == g.target
           b == st.bits
<1>1. b \in [1 .. NumQubits -> Bit]
  BY StateParts
<1>2. CASE g.gateTy = ""
  BY <1>2 DEF Apply
<1>3. CASE g.gateTy # ""
  <2>1. t \in 1 .. NumQubits /\ b[t] \in Bit /\ b[t] \in Int /\ g.gateTy \in GateTypes
    <3>1. t \in 1 .. NumQubits /\ g \in OpGate
      BY <1>3, GateParts
    <3>2. b[t] \in Bit
      BY <1>1, <3>1
    <3>3. g.gateTy \in GateTypes
      BY <1>3, <3>1 DEF OpGate
    <3>4. QED
      BY <3>1, <3>2, <3>3, BitSum
  <2>2. CASE g.gateTy = "c"
    <3>1. b[g.control1] \in Bit
      BY <1>1, <2>2, GateParts DEF Controlled
    <3>2. QED
      BY FlipType, <2>1, <2>2, <3>1 DEF Apply
  <2>3. CASE g.gateTy = "o"
    <3>1. b[g.control1] \in Bit /\ b[g.control2] \in Bit
      BY <1>1, <2>3, GateParts DEF Controlled
    <3>2. b[g.control1] * b[g.control2] \in Bit
      BY <3>1, BitSum
    <3>3. QED
      BY FlipType, <2>1, <2>3, <3>2 DEF Apply
  <2>4. CASE g.gateTy = "x"
    BY FlipType, <2>1, <2>4 DEF Apply, Bit
  <2>5. CASE g.gateTy = "m"
    <3> DEFINE s == Record(st, t)
    <3>1. s \in State
      BY RecordType, <2>1
    <3>2. Apply(g, st, free) = [s EXCEPT !.bits[t] = 0]
      BY <2>5 DEF Apply
    <3> HIDE DEF s
    <3>3. [s.bits EXCEPT ![t] = 0] \in Register
      <4>1. s.bits \in [1 .. NumQubits -> Bit] /\ 0 \in Bit
        BY <3>1, StateParts DEF Bit
      <4>2. QED
        BY <4>1 DEF Register
    <3>4. QED
      BY <3>1, <3>2, <3>3 DEF State
  <2>6. CASE g.gateTy \in {"Z", "r"}
    BY RecordType, <2>1, <2>6 DEF Apply
  <2>7. CASE g.gateTy \in {"t", "T", "s", "S", "z"}
    <3>1. b[t] \in Int /\ 7 * b[t] \in Int /\ 2 * b[t] \in Int /\ 6 * b[t] \in Int
          /\ 4 * b[t] \in Int
      BY <2>1
    <3>2. QED
      BY PhaseType, <2>7, <3>1 DEF Apply
  <2>8. CASE g.gateTy = "h"
    <3> DEFINE v == free[<<t, st.used[t] + 1>>]
    <3>1. v \in Bit /\ v \in Int
      BY <2>8 DEF Supplied, Bit
    <3>2. 4 * b[t] * v \in Int
      BY <2>1, <3>1
    <3>3. Phase(st, 4 * b[t] * v) \in State
      BY PhaseType, <3>2
    <3>4. Apply(g, st, free) = Split(Phase(st, 4 * b[t] * v), t, v)
      BY <2>8 DEF Apply
    <3>5. QED
      BY SplitType, <2>1, <3>1, <3>3, <3>4
  <2>9. CASE g.gateTy = "n"
    <3>1. free[<<t, st.used[t] + 1>>] \in Bit /\ Record(st, t) \in State
      BY RecordType, <2>1, <2>9 DEF Supplied
    <3>2. Apply(g, st, free) = Split(Record(st, t), t, free[<<t, st.used[t] + 1>>])
      BY <2>9 DEF Apply
    <3>3. QED
      BY SplitType, <2>1, <3>1, <3>2
  <2>10. QED
    BY <2>1, <2>2, <2>3, <2>4, <2>5, <2>6, <2>7, <2>8, <2>9, <1>3 DEF GateTypes
<1>4. QED
  BY <1>2, <1>3

\* A CNOT undoes itself.
LEMMA Involution ==
  ASSUME NEW g \in Gate, IsCNOT(g), NEW st \in State, NEW free
  PROVE  Apply(g, Apply(g, st, free), free) = st
<1> DEFINE b == st.bits
           s == Apply(g, st, free)
           w == (b[g.target] + b[g.control1]) % 2
<1>1. b \in [1 .. NumQubits -> Bit]
  BY DEF State, Register
<1>2. /\ g.target \in 1 .. NumQubits /\ g.control1 \in 1 .. NumQubits
      /\ g.control1 # g.target
  BY GateParts DEF IsCNOT, Controlled
<1>3. s = [st EXCEPT !.bits[g.target] = w]
  BY ApplyCNOT
<1>4. w \in Bit /\ (w + b[g.control1]) % 2 = b[g.target]
  BY <1>1, <1>2, BitSum
<1>5. s.bits[g.target] = w /\ s.bits[g.control1] = b[g.control1]
  BY <1>1, <1>2, <1>3 DEF State
<1>6. Apply(g, s, free) = [s EXCEPT !.bits[g.target] = b[g.target]]
  BY <1>4, <1>5, ApplyCNOT
<1>7. [s EXCEPT !.bits[g.target] = b[g.target]] = st
  <2> HIDE DEF w
  <2>1. [s.bits EXCEPT ![g.target] = b[g.target]] = b
    BY <1>1, <1>2, <1>3 DEF State
  <2>2. QED
    BY <1>3, <2>1 DEF State
<1>8. QED
  BY <1>6, <1>7

\* A state with another bit in one place, and what is left as it was.
SetBit(st, q, v) == [st EXCEPT !.bits[q] = v]

\* A state with one bit set.
LEMMA SetBitParts ==
  ASSUME NEW st \in State, NEW t \in 1 .. NumQubits, NEW w \in Bit
  PROVE  /\ SetBit(st, t, w) \in State
         /\ SetBit(st, t, w).bits = [st.bits EXCEPT ![t] = w]
         /\ SetBit(st, t, w).phase = st.phase
         /\ SetBit(st, t, w).used = st.used
         /\ SetBit(st, t, w).seen = st.seen
<1>1. [st.bits EXCEPT ![t] = w] \in Register
  BY StateParts DEF Register
<1>2. QED
  BY <1>1 DEF SetBit, State

\* The parts of a gate on other qubits do not see it.
LEMMA SetBitCommutes ==
  ASSUME NEW st \in State, NEW t \in 1 .. NumQubits, NEW w \in Bit,
         NEW q \in 1 .. NumQubits, q # t, NEW v, NEW n
  PROVE  /\ Phase(SetBit(st, t, w), n) = SetBit(Phase(st, n), t, w)
         /\ Flip(SetBit(st, t, w), q, n) = SetBit(Flip(st, q, n), t, w)
         /\ Record(SetBit(st, t, w), q) = SetBit(Record(st, q), t, w)
         /\ Split(SetBit(st, t, w), q, v) = SetBit(Split(st, q, v), t, w)
         /\ SetBit(SetBit(st, t, w), q, v) = SetBit(SetBit(st, q, v), t, w)
<1>1. st.bits \in [1 .. NumQubits -> Bit]
  BY StateParts
<1>2. ASSUME NEW y, NEW z
      PROVE  [[st.bits EXCEPT ![t] = y] EXCEPT ![q] = z] =
                [[st.bits EXCEPT ![q] = z] EXCEPT ![t] = y]
  BY <1>1
<1>3. ASSUME NEW s \in State, s.bits = st.bits, NEW x
      PROVE  SetBit(SetBit(s, t, w), q, x) = SetBit(SetBit(s, q, x), t, w)
  BY <1>2, <1>3 DEF SetBit, State
<1>4. Phase(SetBit(st, t, w), n) = SetBit(Phase(st, n), t, w)
  BY DEF Phase, SetBit, State
<1>5. Record(SetBit(st, t, w), q) = SetBit(Record(st, q), t, w)
  BY <1>1 DEF Record, SetBit, State
<1>6. SetBit(SetBit(st, t, w), q, v) = SetBit(SetBit(st, q, v), t, w)
  BY <1>3
<1>7. Flip(SetBit(st, t, w), q, n) = SetBit(Flip(st, q, n), t, w)
  <2>1. Flip(st, q, n) = SetBit(st, q, (st.bits[q] + n) % 2)
    BY DEF Flip, SetBit
  <2>2. SetBit(st, t, w).bits[q] = st.bits[q]
    <3>1. SetBit(st, t, w).bits = [st.bits EXCEPT ![t] = w]
      BY SetBitParts
    <3>2. QED
      BY <1>1, <3>1
  <2>3. Flip(SetBit(st, t, w), q, n) = SetBit(SetBit(st, t, w), q, (st.bits[q] + n) % 2)
    BY <2>2 DEF Flip, SetBit
  <2>4. QED
    BY <1>3, <2>1, <2>3
<1>8. Split(SetBit(st, t, w), q, v) = SetBit(Split(st, q, v), t, w)
  <2> DEFINE s == [st EXCEPT !.used[q] = st.used[q] + 1]
  <2>1. s \in State /\ s.bits = st.bits
    <3>1. st.used \in [1 .. NumQubits -> Nat] /\ st.used[q] \in Nat
      BY StateParts
    <3>2. [st.used EXCEPT ![q] = st.used[q] + 1] \in [1 .. NumQubits -> Nat]
      BY <3>1
    <3>3. QED
      BY <3>2 DEF State
  <2>2. Split(st, q, v) = SetBit(s, q, v)
    BY DEF Split, SetBit, State
  <2>3. Split(SetBit(st, t, w), q, v) = SetBit(SetBit(s, t, w), q, v)
    BY DEF Split, SetBit, State
  <2>4. QED
    BY <1>3, <2>1, <2>2, <2>3
<1>9. QED
  BY <1>4, <1>5, <1>6, <1>7, <1>8

\* Two flips of one bit can be exchanged.
LEMMA FlipsCommute ==
  ASSUME NEW st \in State, NEW t \in 1 .. NumQubits, NEW u \in Bit, NEW v \in Bit
  PROVE  Flip(Flip(st, t, u), t, v) = Flip(Flip(st, t, v), t, u)
<1>1. st.bits \in [1 .. NumQubits -> Bit] /\ st.bits[t] \in Bit
  BY StateParts
<1>2. (((st.bits[t] + u) % 2) + v) % 2 = (((st.bits[t] + v) % 2) + u) % 2
  BY <1>1 DEF Bit
<1>3. ASSUME NEW x \in Bit, NEW y \in Bit
      PROVE  Flip(Flip(st, t, x), t, y) =
                [st EXCEPT !.bits[t] = (((st.bits[t] + x) % 2) + y) % 2]
  BY <1>1 DEF Flip, State
<1>4. QED
  BY <1>2, <1>3

\* A CNOT can be exchanged with a gate that ifCommute lets it past.
LEMMA CNOTCommutes ==
  ASSUME NEW g \in Gate, IsCNOT(g), NEW h \in Gate, ifCommute(g, h),
         NEW st \in State, NEW free,
         Supplied(h, st, free)
  PROVE  Apply(g, Apply(h, st, free), free) = Apply(h, Apply(g, st, free), free)
<1> DEFINE t == g.target
           c == g.control1
           q == h.target
           b == st.bits
           w == (b[t] + b[c]) % 2
           s == SetBit(st, t, w)
           r == Apply(h, st, free)
<1>1. /\ t \in 1 .. NumQubits /\ c \in 1 .. NumQubits /\ c # t
      /\ g.control2 = 0 /\ g.gateTy = "c"
  BY GateParts DEF IsCNOT, Controlled
<1>2. b \in [1 .. NumQubits -> Bit] /\ w \in Bit
  BY <1>1, StateParts, BitSum
<1>3. ASSUME NEW x
      PROVE  Apply(g, x, free) = SetBit(x, t, (x.bits[t] + x.bits[c]) % 2)
  BY ApplyCNOT DEF SetBit
<1>4. Apply(g, st, free) = s
  BY <1>3
<1>5. s.bits = [b EXCEPT ![t] = w] /\ s.used = st.used /\ s \in State
  BY <1>1, <1>2, SetBitParts
<1> HIDE DEF w
<1>6. ASSUME NEW x \in State, NEW u \in 1 .. NumQubits, u # t, NEW n, NEW y
       PROVE  /\ Phase(SetBit(x, t, w), n) = SetBit(Phase(x, n), t, w)
              /\ Flip(SetBit(x, t, w), u, n) = SetBit(Flip(x, u, n), t, w)
              /\ Record(SetBit(x, t, w), u) = SetBit(Record(x, u), t, w)
              /\ Split(SetBit(x, t, w), u, y) = SetBit(Split(x, u, y), t, w)
              /\ SetBit(SetBit(x, t, w), u, y) = SetBit(SetBit(x, u, y), t, w)
  <2> HIDE DEF t
  <2>1. t \in 1 .. NumQubits /\ w \in Bit /\ u # t
    BY <1>1, <1>2, <1>6
  <2>2. QED
    BY <2>1, SetBitCommutes
<1>7. s = SetBit(st, t, w)
  OBVIOUS
<1> HIDE DEF s
\* It is enough that h leaves the qubits of g, and g what h reads.
<1>8. ASSUME r.bits[t] = b[t], r.bits[c] = b[c], Apply(h, s, free) = SetBit(r, t, w)
      PROVE  Apply(g, r, free) = Apply(h, s, free)
  <2>1. Apply(g, r, free) = SetBit(r, t, (r.bits[t] + r.bits[c]) % 2)
    BY <1>3
  <2>2. (r.bits[t] + r.bits[c]) % 2 = w
    BY <1>8 DEF w
  <2>3. QED
    BY <1>8, <2>1, <2>2
<1>9. CASE h.gateTy = ""
  <2>1. ASSUME NEW x PROVE Apply(h, x, free) = x
    BY <1>9 DEF Apply
  <2>2. QED
    BY <1>4, <2>1
<1>10. CASE h.gateTy # "" /\ ~Controlled(h)
  <2>1. q \in 1 .. NumQubits /\ h.gateTy \in GateTypes
    BY <1>10, GateParts DEF OpGate
  <2>2. CommutesWith(h, g) /\ q # t
    <3>1. CommutesWith(h, g)
      BY <1>1, <1>10 DEF ifCommute, Controlled
    <3>2. QED
      BY <3>1 DEF CommutesWith
  <2>3. s.bits[q] = b[q]
    BY <1>2, <1>5, <2>1, <2>2
  <2>4. CASE PhaseGate(h)
    <3>1. PICK n : Apply(h, st, free) = Phase(st, n) /\ Apply(h, s, free) = Phase(s, n)
      BY <2>3, <2>4 DEF PhaseGate, Apply
    <3>2. Phase(s, n) = SetBit(Phase(st, n), t, w)
      BY <1>6, <1>7, <2>1, <2>2
    <3>3. Phase(st, n).bits = b
      BY DEF Phase, State
    <3>4. QED
      BY <1>4, <1>8, <3>1, <3>2, <3>3
  <2>5. CASE ~PhaseGate(h)
    <3>1. q # t /\ q # c
      BY <1>1, <2>2, <2>5 DEF CommutesWith, Controls
    <3> DEFINE v == free[<<q, st.used[q] + 1>>]
    <3>2. h.gateTy \in {"h", "n", "x", "z", "Z", "r", "m"}
      BY <1>10, <2>1, <2>5 DEF GateTypes, PhaseGate, Controlled
    <3>3. r.bits[t] = b[t] /\ r.bits[c] = b[c]
      BY <1>1, <1>2, <2>1, <3>1, <3>2
         DEF Apply, Flip, Phase, Record, Split, State
    <3>4. Apply(h, s, free) = SetBit(r, t, w)
      <4>1. CASE h.gateTy = "x"
        BY <1>6, <1>7, <2>1, <3>1, <4>1 DEF Apply
      <4>2. CASE h.gateTy = "z"
        BY <1>6, <1>7, <2>1, <2>3, <3>1, <4>2 DEF Apply
      <4>3. CASE h.gateTy \in {"Z", "r"}
        BY <1>6, <1>7, <2>1, <3>1, <4>3 DEF Apply
      <4>4. CASE h.gateTy = "m"
        <5> DEFINE x == Record(st, q)
        <5>1. x \in State
          BY <2>1, RecordType
        <5>2. r = SetBit(x, q, 0) /\ Apply(h, s, free) = SetBit(Record(s, q), q, 0)
          BY <4>4 DEF Apply, SetBit
        <5>3. Record(s, q) = SetBit(x, t, w)
          BY <1>6, <1>7, <2>1, <3>1
        <5> HIDE DEF x, r
        <5>4. QED
          BY <1>6, <2>1, <3>1, <5>1, <5>2, <5>3
      <4>5. CASE h.gateTy = "h"
        <5> DEFINE n == 4 * b[q] * v
                   x == Phase(st, n)
        <5>1. n \in Int
          <6>1. b[q] \in Bit /\ v \in Bit
            BY <1>2, <2>1, <4>5 DEF Supplied
          <6>2. b[q] \in Int /\ v \in Int
            BY <6>1, BitSum
          <6>3. QED
            BY <6>2
        <5>2. x \in State
          BY <5>1, PhaseType
        <5>3. r = Split(x, q, v)
          BY <4>5 DEF Apply
        <5>4. Apply(h, s, free) = Split(Phase(s, n), q, v)
          BY <1>5, <2>3, <4>5 DEF Apply
        <5> HIDE DEF n, v
        <5>5. Phase(s, n) = SetBit(x, t, w)
          BY <1>6, <1>7, <2>1, <3>1
        <5> HIDE DEF x, r
        <5>6. QED
          BY <1>6, <2>1, <3>1, <5>2, <5>3, <5>4, <5>5
      <4>6. CASE h.gateTy = "n"
        <5> DEFINE x == Record(st, q)
        <5>1. x \in State
          BY <2>1, RecordType
        <5>2. r = Split(x, q, v) /\ Apply(h, s, free) = Split(Record(s, q), q, v)
          BY <1>5, <4>6 DEF Apply
        <5> HIDE DEF v
        <5>3. Record(s, q) = SetBit(x, t, w)
          BY <1>6, <1>7, <2>1, <3>1
        <5> HIDE DEF x, r
        <5>4. QED
          BY <1>6, <2>1, <3>1, <5>1, <5>2, <5>3
      <4>7. QED
        BY <3>2, <4>1, <4>2, <4>3, <4>4, <4>5, <4>6
    <3>5. QED
      BY <1>4, <1>8, <3>3, <3>4
  <2>6. QED
    BY <2>4, <2>5
<1>11. CASE Controlled(h)
  <2> DEFINE n == IF h.gateTy = "c" THEN b[h.control1]
                                    ELSE b[h.control1] * b[h.control2]
  <2>1. /\ q \in 1 .. NumQubits /\ q # c
        /\ h.control1 \in 1 .. NumQubits /\ h.control1 # t
        /\ h.gateTy = "o" => h.control2 \in 1 .. NumQubits /\ h.control2 # t
    <3>1. t \notin Controls(h) /\ q \notin Controls(g)
      BY <1>1, <1>11 DEF ifCommute, Controlled
    <3>2. QED
      BY <1>11, <3>1, GateParts DEF Controls, Controlled
  <2>2. n \in Bit
    <3>1. b[h.control1] \in Bit /\ (h.gateTy = "o" => b[h.control2] \in Bit)
      BY <1>2, <2>1
    <3>2. QED
      BY <1>11, <3>1, BitSum DEF Controlled
  <2>3. r = Flip(st, q, n)
    BY <1>11 DEF Apply, Controlled
  <2>4. Apply(h, s, free) = Flip(s, q, n)
    <3>1. /\ s.bits[h.control1] = b[h.control1]
          /\ h.gateTy = "o" => s.bits[h.control2] = b[h.control2]
      BY <1>2, <1>5, <2>1
    <3>2. QED
      BY <1>11, <3>1 DEF Apply, Controlled
  <2> HIDE DEF n, r
  <2>5. r.bits[c] = b[c]
    BY <1>1, <1>2, <2>1, <2>3 DEF Flip, State
  <2>6. CASE q # t
    <3>1. r.bits[t] = b[t]
      BY <1>1, <1>2, <2>1, <2>3, <2>6 DEF Flip, State
    <3>2. Apply(h, s, free) = SetBit(r, t, w)
      BY <1>6, <1>7, <2>1, <2>3, <2>4, <2>6
    <3>3. QED
      BY <1>4, <1>8, <2>5, <3>1, <3>2 DEF r
  <2>7. CASE q = t
    <3>1. b[c] \in Bit
      BY <1>1, <1>2
    <3>2. s = Flip(st, t, b[c])
      BY <1>7 DEF Flip, SetBit, w
    <3>3. Apply(g, r, free) = Flip(r, t, b[c])
      BY <1>3, <2>5 DEF Flip, SetBit
    <3>4. QED
      BY <1>1, <1>4, <2>2, <2>3, <2>4, <2>7, <3>1, <3>2, <3>3, FlipsCommute DEF r
  <2>8. QED
    BY <2>6, <2>7
<1>12. QED
  BY <1>9, <1>10, <1>11

\* Only gates with an open outcome use up a bit.
LEMMA ApplyUsed ==
  ASSUME NEW g \in Gate, NEW st \in State, NEW free
  PROVE  Apply(g, st, free).used =
           IF g.gateTy \in {"h", "n"} THEN [st.used EXCEPT ![g.target] = @ + 1] ELSE st.used
BY DEF Apply, Phase, Flip, Record, Split, State

-----------------------------------------------------------------------------
(* Lists of gates *)

\* The states a list of gates goes through.
Trace(a, gates, input, free) ==
  /\ a \in [0 .. Len(gates) -> State]
  /\ a[0] = Start(input)
  /\ \A k \in 1 .. Len(gates) :
       Supplied(gates[k], a[k - 1], free) /\ a[k] = Apply(gates[k], a[k - 1], free)

SplitsUpTo(gates, q, k) == Splits(gates, q) \cap (1 .. k)

\* The register before the first gate.
LEMMA StartType ==
  ASSUME NEW input \in Register
  PROVE  Start(input) \in State /\ \A q \in 1 .. NumQubits : Start(input).used[q] = 0
<1>1. <<>> \in Seq(Bit) /\ 0 \in 0 .. 7
  OBVIOUS
<1>2. QED
  BY <1>1 DEF Start, State

\* The gates with an open outcome up to one more.
LEMMA SplitsStep ==
  ASSUME NEW gates \in Seq(Gate), NEW k \in Nat, k + 1 <= Len(gates), NEW q \in 1 .. NumQubits
  PROVE  /\ SplitsUpTo(gates, q, 0) = {}
         /\ IsFiniteSet(Splits(gates, q)) /\ IsFiniteSet(SplitsUpTo(gates, q, k))
         /\ Cardinality(SplitsUpTo(gates, q, k)) \in Nat
         /\ Cardinality(SplitsUpTo(gates, q, k + 1)) <= Cardinality(Splits(gates, q))
         /\ Cardinality(Splits(gates, q)) \in Nat
         /\ Cardinality(SplitsUpTo(gates, q, k + 1)) =
              IF gates[k + 1].gateTy \in {"h", "n"} /\ gates[k + 1].target = q
              THEN Cardinality(SplitsUpTo(gates, q, k)) + 1
              ELSE Cardinality(SplitsUpTo(gates, q, k))
<1> DEFINE S == Splits(gates, q)
           T(j) == SplitsUpTo(gates, q, j)
<1>1. S \in SUBSET (1 .. Len(gates)) /\ Len(gates) \in Nat
  BY DEF Splits
<1>2. IsFiniteSet(1 .. Len(gates))
  BY <1>1, FS_Interval
<1>3. IsFiniteSet(S) /\ Cardinality(S) \in Nat
  BY <1>1, <1>2, FS_Subset, FS_CardinalityType
<1>4. ASSUME NEW j
      PROVE  IsFiniteSet(T(j)) /\ Cardinality(T(j)) \in Nat /\ Cardinality(T(j)) <= Cardinality(S)
  <2>1. T(j) \in SUBSET S
    BY DEF SplitsUpTo
  <2>2. QED
    BY <1>3, <2>1, FS_Subset, FS_CardinalityType
<1>5. k + 1 \notin T(k) /\ T(0) = {}
  BY DEF SplitsUpTo
<1>6. CASE k + 1 \in S
  <2>1. T(k + 1) = T(k) \cup {k + 1}
    BY <1>1, <1>6 DEF SplitsUpTo
  <2>2. Cardinality(T(k + 1)) = Cardinality(T(k)) + 1
    BY <1>4, <1>5, <2>1, FS_AddElement
  <2>3. gates[k + 1].gateTy \in {"h", "n"} /\ gates[k + 1].target = q
    BY <1>6 DEF Splits
  <2>4. QED
    BY <1>3, <1>4, <1>5, <2>2, <2>3
<1>7. CASE k + 1 \notin S
  <2>1. T(k + 1) = T(k)
    BY <1>1, <1>7 DEF SplitsUpTo
  <2>2. ~(gates[k + 1].gateTy \in {"h", "n"} /\ gates[k + 1].target = q)
    BY <1>7 DEF Splits
  <2>3. QED
    BY <1>3, <1>4, <1>5, <2>1, <2>2
<1>8. QED
  BY <1>6, <1>7

\* A non-empty set of natural numbers has a least element.
LEMMA LeastNatural ==
  ASSUME NEW T \in SUBSET Nat, T # {}
  PROVE  \E m \in T : \A k \in T : m <= k
<1> DEFINE R == OpToRel(<, Nat)
<1>1. IsWellFoundedOn(R, Nat)
  BY NatLessThanWellFounded
<1>2. \A x, y \in Nat : x < y => <<x, y>> \in R
  BY DEF OpToRel
<1> HIDE DEF R
<1>3. PICK m \in T : \A k \in T : ~(<<k, m>> \in R)
  BY <1>1, WFMin
<1>4. \A k \in T : k \in Nat
  OBVIOUS
<1>5. \A k \in T : ~(k < m)
  BY <1>2, <1>3, <1>4
<1>6. QED
  BY <1>4, <1>5

\* Induction, for a set instead of a property: this form has no operator as a
\* parameter.
LEMMA SetInduction ==
  ASSUME NEW T, 0 \in T, \A n \in Nat : n \in T => n + 1 \in T
  PROVE  Nat \subseteq T
<1> SUFFICES ASSUME Nat \ T # {} PROVE FALSE
  OBVIOUS
<1>1. PICK m \in Nat \ T : \A k \in Nat \ T : m <= k
  BY LeastNatural
<1>2. m # 0 /\ m - 1 \in Nat
  BY <1>1
<1>3. m - 1 \in T
  BY <1>1, <1>2
<1>4. QED
  BY <1>1, <1>2, <1>3

\* The first k steps of a trace, and the bits they used.
Begun(a, gates, input, free, k) ==
  /\ a \in [0 .. k -> State]
  /\ a[0] = Start(input)
  /\ \A j \in 1 .. k :
       Supplied(gates[j], a[j - 1], free) /\ a[j] = Apply(gates[j], a[j - 1], free)
  /\ \A j \in 0 .. k : \A q \in 1 .. NumQubits :
       a[j].used[q] = Cardinality(SplitsUpTo(gates, q, j))

\* One gate more.
LEMMA BegunStep ==
  ASSUME NEW gates \in Seq(Gate), NEW input \in Register, NEW free \in [FreeBits(gates) -> Bit],
         NEW k \in Nat, k + 1 <= Len(gates), NEW a, Begun(a, gates, input, free, k)
  PROVE  \E b : Begun(b, gates, input, free, k + 1)
<1> DEFINE h == gates[k + 1]
           st == a[k]
           r == Apply(h, st, free)
           b == [j \in 0 .. k + 1 |-> IF j = k + 1 THEN r ELSE a[j]]
<1>1. h \in Gate /\ st \in State
  BY DEF Begun
<1>2. Supplied(h, st, free)
  <2> SUFFICES ASSUME h.gateTy \in {"h", "n"}
               PROVE  free[<<h.target, st.used[h.target] + 1>>] \in Bit
    BY DEF Supplied
  <2> DEFINE q == h.target
             n == st.used[q]
  <2>1. q \in 1 .. NumQubits
    BY <1>1, GateParts
  <2>2. n = Cardinality(SplitsUpTo(gates, q, k))
    BY <2>1 DEF Begun
  <2>3. n + 1 \in 1 .. Cardinality(Splits(gates, q))
    BY <2>1, <2>2, SplitsStep
  <2> HIDE DEF q, n
  <2>4. <<q, n + 1>> \in {q} \X (1 .. Cardinality(Splits(gates, q)))
    BY <2>3
  <2>5. <<q, n + 1>> \in FreeBits(gates)
    BY <2>1, <2>4 DEF FreeBits
  <2>6. QED
    BY <2>5 DEF q, n
<1>3. r \in State
  BY <1>1, <1>2, ApplyType
<1>4. ASSUME NEW q \in 1 .. NumQubits
      PROVE  r.used[q] = Cardinality(SplitsUpTo(gates, q, k + 1))
  <2>1. st.used \in [1 .. NumQubits -> Nat] /\ st.used[q] = Cardinality(SplitsUpTo(gates, q, k))
    <3>1. st.used \in [1 .. NumQubits -> Nat]
      BY <1>1, StateParts
    <3>2. k \in 0 .. k
      OBVIOUS
    <3>3. QED
      BY <3>1, <3>2 DEF Begun
  <2>2. r.used = IF h.gateTy \in {"h", "n"} THEN [st.used EXCEPT ![h.target] = @ + 1] ELSE st.used
    BY <1>1, ApplyUsed
  <2>3. r.used[q] = IF h.gateTy \in {"h", "n"} /\ h.target = q THEN st.used[q] + 1 ELSE st.used[q]
    <3> HIDE DEF r, h, st
    <3>1. QED
      BY <2>1, <2>2
  <2>4. QED
    BY <2>1, <2>3, SplitsStep
<1> HIDE DEF r
<1>5. b \in [0 .. k + 1 -> State]
  BY <1>3 DEF Begun
<1>6. b[0] = Start(input)
  BY DEF Begun
<1>7. \A j \in 0 .. k : b[j] = a[j]
  OBVIOUS
<1>8. b[k + 1] = r
  OBVIOUS
<1> HIDE DEF b
<1>9. ASSUME NEW j \in 1 .. k + 1
      PROVE  Supplied(gates[j], b[j - 1], free) /\ b[j] = Apply(gates[j], b[j - 1], free)
  <2>1. b[j - 1] = a[j - 1]
    BY <1>7
  <2>2. CASE j = k + 1
    BY <1>2, <1>8, <2>1, <2>2 DEF r
  <2>3. CASE j # k + 1
    <3>1. j \in 1 .. k /\ b[j] = a[j]
      BY <1>7, <2>3
    <3>2. QED
      BY <2>1, <3>1 DEF Begun
  <2>4. QED
    BY <2>2, <2>3
<1>10. ASSUME NEW j \in 0 .. k + 1, NEW q \in 1 .. NumQubits
       PROVE  b[j].used[q] = Cardinality(SplitsUpTo(gates, q, j))
  <2>1. CASE j = k + 1
    BY <1>4, <1>8, <2>1
  <2>2. CASE j # k + 1
    <3>1. j \in 0 .. k /\ b[j] = a[j]
      BY <1>7, <2>2
    <3>2. QED
      BY <3>1 DEF Begun
  <2>3. QED
    BY <2>1, <2>2
<1>11. Begun(b, gates, input, free, k + 1)
  BY <1>5, <1>6, <1>9, <1>10 DEF Begun
<1>12. QED
  BY <1>11

\* Every list goes through its states.
LEMMA TraceExists ==
  ASSUME NEW gates \in Seq(Gate), NEW input \in Register, NEW free \in [FreeBits(gates) -> Bit]
  PROVE  \E a : Trace(a, gates, input, free)
<1> DEFINE T == {k \in Nat : k <= Len(gates) => \E a : Begun(a, gates, input, free, k)}
<1>1. 0 \in T
  <2> DEFINE a == [j \in 0 .. 0 |-> Start(input)]
  <2>1. a \in [0 .. 0 -> State] /\ a[0] = Start(input)
    BY StartType
  <2>2. \A j \in 0 .. 0 : j = 0
    OBVIOUS
  <2> HIDE DEF a
  <2>3. ASSUME NEW q \in 1 .. NumQubits
        PROVE  a[0].used[q] = Cardinality(SplitsUpTo(gates, q, 0))
    <3>1. SplitsUpTo(gates, q, 0) = {}
      BY DEF SplitsUpTo
    <3>2. QED
      BY <2>1, <3>1, StartType, FS_EmptySet
  <2>4. Begun(a, gates, input, free, 0)
    BY <2>1, <2>2, <2>3 DEF Begun
  <2>5. QED
    BY <2>4
<1>2. ASSUME NEW k \in Nat, k \in T
      PROVE  k + 1 \in T
  BY <1>2, BegunStep
<1>3. Len(gates) \in T
  <2> HIDE DEF T
  <2>1. Nat \subseteq T
    BY <1>1, <1>2, SetInduction
  <2>2. QED
    BY <2>1
<1>4. PICK a : Begun(a, gates, input, free, Len(gates))
  BY <1>3
<1>5. Trace(a, gates, input, free)
  BY <1>4 DEF Begun, Trace
<1>6. QED
  BY <1>5

\* The last of these states is the outcome.
LEMMA TraceOutcome ==
  ASSUME NEW gates \in Seq(Gate), NEW input, NEW free, NEW a, Trace(a, gates, input, free)
  PROVE  Outcome(gates, input, free) = a[Len(gates)]
<1> DEFINE n == Len(gates)
           Solves(f) == f = [k \in 0 .. n |-> IF k = 0 THEN Start(input)
                                              ELSE Apply(gates[k], f[k - 1], free)]
           after == CHOOSE f : Solves(f)
<1>1. n \in Nat
  OBVIOUS
<1>2. Outcome(gates, input, free) = after[n]
  BY DEF Outcome
<1>3. Solves(a)
  <2>1. a = [k \in 0 .. n |-> a[k]]
    BY DEF Trace
  <2>2. ASSUME NEW k \in 0 .. n
        PROVE  a[k] = IF k = 0 THEN Start(input) ELSE Apply(gates[k], a[k - 1], free)
    BY DEF Trace
  <2>3. QED
    BY <2>1, <2>2
<1>4. Solves(after)
  BY <1>3
<1>5. /\ after[0] = Start(input)
      /\ \A k \in 1 .. n : after[k] = Apply(gates[k], after[k - 1], free)
  <2> HIDE DEF after
  <2>1. QED
    BY <1>1, <1>4
<1> HIDE DEF after
<1> DEFINE T == {k \in Nat : k <= n => after[k] = a[k]}
<1>6. 0 \in T
  BY <1>5 DEF Trace
<1>7. ASSUME NEW k \in Nat, k \in T
      PROVE  k + 1 \in T
  BY <1>1, <1>5, <1>7 DEF Trace
<1>8. n \in T
  <2> HIDE DEF T
  <2>1. Nat \subseteq T
    BY <1>6, <1>7, SetInduction
  <2>2. QED
    BY <1>1, <2>1
<1>9. QED
  BY <1>1, <1>2, <1>8

\* Lists with the same traces have the same meaning.
LEMMA SameTraces ==
  ASSUME NEW gs \in Seq(Gate), NEW hs \in Seq(Gate), Len(hs) = Len(gs),
         FreeBits(hs) = FreeBits(gs),
         ASSUME NEW input \in Register, NEW free \in [FreeBits(gs) -> Bit],
                NEW a, Trace(a, gs, input, free)
         PROVE  \E b : Trace(b, hs, input, free) /\ b[Len(gs)] = a[Len(gs)]
  PROVE  SameMeaning(hs, gs)
<1>1. ASSUME NEW input \in Register, NEW free \in [FreeBits(gs) -> Bit]
      PROVE  Outcome(hs, input, free) = Outcome(gs, input, free)
  <2>1. PICK a : Trace(a, gs, input, free)
    BY TraceExists
  <2>2. PICK b : Trace(b, hs, input, free) /\ b[Len(gs)] = a[Len(gs)]
    BY <2>1
  <2>3. Outcome(gs, input, free) = a[Len(gs)] /\ Outcome(hs, input, free) = b[Len(hs)]
    BY <2>1, <2>2, TraceOutcome
  <2>4. QED
    BY <2>2, <2>3
<1>2. QED
  BY <1>1 DEF SameMeaning

\* SameMeaning is an equivalence, as far as it is needed.
LEMMA SameMeaningReflexive ==
  ASSUME NEW gs
  PROVE  SameMeaning(gs, gs)
BY DEF SameMeaning

\* From one list to the next.
LEMMA SameMeaningTransitive ==
  ASSUME NEW gs, NEW hs, NEW ks, SameMeaning(gs, hs), SameMeaning(hs, ks)
  PROVE  SameMeaning(gs, ks)
BY DEF SameMeaning

\* Lists with as many open outcomes of each qubit have the same free bits.
LEMMA SameFreeBits ==
  ASSUME NEW gs, NEW hs,
         \A q \in 1 .. NumQubits : Cardinality(Splits(hs, q)) = Cardinality(Splits(gs, q))
  PROVE  FreeBits(hs) = FreeBits(gs)
<1>1. \A q \in 1 .. NumQubits :
        {q} \X (1 .. Cardinality(Splits(hs, q))) = {q} \X (1 .. Cardinality(Splits(gs, q)))
  OBVIOUS
<1>2. QED
  BY <1>1 DEF FreeBits

\* Two equal CNOTs are nothing, if the first can be moved to the second.
LEMMA CancelKeepsMeaning ==
  ASSUME NEW gs \in Seq(Gate), NEW i \in DOMAIN gs, NEW f \in DOMAIN gs, i < f,
         IsCNOT(gs[i]), gs[f] = gs[i],
         \A k \in i + 1 .. f - 1 : ifCommute(gs[i], gs[k])
  PROVE  /\ [gs EXCEPT ![i] = None, ![f] = None] \in Seq(Gate)
         /\ SameMeaning([gs EXCEPT ![i] = None, ![f] = None], gs)
<1> DEFINE g == gs[i]
           n == Len(gs)
           hs == [gs EXCEPT ![i] = None, ![f] = None]
<1>1. /\ n \in Nat /\ DOMAIN gs = 1 .. n /\ i \in 1 .. n /\ f \in 1 .. n
      /\ \A k \in 1 .. n : gs[k] \in Gate
  OBVIOUS
<1>2. /\ DOMAIN hs = 1 .. n
      /\ hs[i] = None /\ hs[f] = None
      /\ \A k \in (1 .. n) \ {i, f} : hs[k] = gs[k]
  BY <1>1
<1>3. None \in Gate /\ None.gateTy = ""
  BY DEF Gate, None
<1>4. hs \in Seq(Gate) /\ Len(hs) = n
  <2>1. hs \in [1 .. n -> Gate]
    BY <1>1, <1>3
  <2>2. QED
    BY <1>1, <2>1
<1> HIDE DEF hs
<1>5. FreeBits(hs) = FreeBits(gs)
  <2>1. ASSUME NEW q \in 1 .. NumQubits
        PROVE  Splits(hs, q) = Splits(gs, q)
    <3>1. ASSUME NEW k \in 1 .. n
          PROVE  hs[k].gateTy \in {"h", "n"} /\ hs[k].target = q
                   <=> gs[k].gateTy \in {"h", "n"} /\ gs[k].target = q
      <4>1. CASE k \in {i, f}
        BY <1>2, <1>3, <4>1 DEF IsCNOT
      <4>2. CASE k \notin {i, f}
        BY <1>2, <4>2
      <4>3. QED
        BY <4>1, <4>2
    <3>2. QED
      BY <1>1, <1>2, <3>1 DEF Splits
  <2>2. QED
    BY <2>1, SameFreeBits
<1>6. ASSUME NEW input \in Register, NEW free \in [FreeBits(gs) -> Bit],
             NEW a, Trace(a, gs, input, free)
      PROVE  \E b : Trace(b, hs, input, free) /\ b[n] = a[n]
  <2> DEFINE Undo(k) == Apply(g, a[k], free)
             b == [k \in 0 .. n |-> IF k \in i .. f - 1 THEN Undo(k) ELSE a[k]]
  <2>1. /\ g \in Gate /\ IsCNOT(g)
        /\ \A k \in 0 .. n : a[k] \in State
        /\ a[0] = Start(input)
    BY <1>1, <1>6 DEF Trace
  <2>2. ASSUME NEW k \in 1 .. n
        PROVE  /\ k - 1 \in 0 .. n
               /\ Supplied(gs[k], a[k - 1], free) /\ a[k] = Apply(gs[k], a[k - 1], free)
    BY <1>1, <1>6 DEF Trace
  <2>3. ASSUME NEW k \in 0 .. n
        PROVE  Undo(k) \in State /\ Undo(k).used = a[k].used
    <3>1. a[k] \in State
      BY <2>1
    <3>2. g.gateTy \notin {"h", "n"}
      BY <2>1 DEF IsCNOT
    <3>3. QED
      BY <2>1, <3>1, <3>2, ApplyType, ApplyUsed DEF Supplied
  <2>4. b \in [0 .. n -> State] /\ b[0] = Start(input) /\ b[n] = a[n]
    BY <1>1, <2>1, <2>3
  <2>5. \A k \in 0 .. n : b[k] = IF k \in i .. f - 1 THEN Undo(k) ELSE a[k]
    OBVIOUS
  <2> HIDE DEF b
  <2>6. ASSUME NEW k \in 1 .. n
        PROVE  Supplied(hs[k], b[k - 1], free) /\ b[k] = Apply(hs[k], b[k - 1], free)
    <3>1. /\ a[k - 1] \in State /\ a[k] \in State /\ k \in 0 .. n /\ k - 1 \in 0 .. n
          /\ a[k] = Apply(gs[k], a[k - 1], free) /\ Supplied(gs[k], a[k - 1], free)
      BY <2>1, <2>2
    <3>2. CASE k = i
      <4>1. b[k] = Undo(k) /\ b[k - 1] = a[k - 1]
        BY <1>1, <2>5, <3>1, <3>2
      <4>2. Undo(k) = a[k - 1]
        BY <2>1, <3>1, <3>2, Involution
      <4>3. QED
        BY <1>2, <1>3, <3>2, <4>1, <4>2 DEF Apply, Supplied
    <3>3. CASE k = f
      <4>1. b[k] = a[k] /\ b[k - 1] = Undo(k - 1)
        BY <1>1, <2>5, <3>1, <3>3
      <4>2. Undo(k - 1) = a[k]
        BY <3>1, <3>3
      <4>3. QED
        BY <1>2, <1>3, <3>3, <4>1, <4>2 DEF Apply, Supplied
    <3>4. CASE k \in i + 1 .. f - 1
      <4>1. b[k] = Undo(k) /\ b[k - 1] = Undo(k - 1) /\ hs[k] = gs[k]
        BY <1>1, <1>2, <2>5, <3>1, <3>4
      <4>2. ifCommute(g, gs[k]) /\ gs[k] \in Gate
        BY <1>1, <3>4
      <4>3. Undo(k) = Apply(gs[k], Undo(k - 1), free)
        BY <2>1, <3>1, <4>2, CNOTCommutes
      <4>4. Supplied(gs[k], Undo(k - 1), free)
        BY <2>3, <3>1 DEF Supplied
      <4>5. QED
        BY <4>1, <4>3, <4>4
    <3>5. CASE k \notin i .. f
      <4>1. b[k] = a[k] /\ b[k - 1] = a[k - 1] /\ hs[k] = gs[k]
        BY <1>1, <1>2, <2>5, <3>1, <3>5
      <4>2. QED
        BY <3>1, <4>1
    <3>6. QED
      BY <1>1, <3>2, <3>3, <3>4, <3>5
  <2>7. Trace(b, hs, input, free)
    BY <1>4, <2>4, <2>6 DEF Trace
  <2>8. QED
    BY <2>4, <2>7
<1>7. QED
  BY <1>4, <1>5, <1>6, SameTraces DEF hs

-----------------------------------------------------------------------------
(* A gate that moves to the right *)

\* Where the gate comes from that is at position k after the move from i to p.
Origin(i, p, k) == IF k \in i .. p - 1 THEN k + 1 ELSE IF k = p THEN i ELSE k

ShiftedList(gs, i, p) ==
  [k \in DOMAIN gs |-> IF k \in i .. p - 1 THEN gs[k + 1]
                       ELSE IF k = p THEN gs[i] ELSE gs[k]]

\* A move is a permutation of the positions.
LEMMA OriginPermutes ==
  ASSUME NEW n \in Nat, NEW i \in 1 .. n, NEW p \in 1 .. n, i < p
  PROVE  /\ \A k \in 1 .. n : Origin(i, p, k) \in 1 .. n
         /\ \A k, m \in 1 .. n : Origin(i, p, k) = Origin(i, p, m) => k = m
         /\ \A m \in 1 .. n : \E k \in 1 .. n : Origin(i, p, k) = m
<1>1. \A k \in 1 .. n : Origin(i, p, k) \in 1 .. n
  BY DEF Origin
<1>2. \A k, m \in 1 .. n : Origin(i, p, k) = Origin(i, p, m) => k = m
  BY DEF Origin
<1>3. ASSUME NEW m \in 1 .. n
      PROVE  \E k \in 1 .. n : Origin(i, p, k) = m
  <2>1. CASE m \in i + 1 .. p
    <3>1. m - 1 \in 1 .. n /\ Origin(i, p, m - 1) = m
      BY <2>1 DEF Origin
    <3>2. QED
      BY <3>1
  <2>2. CASE m = i
    <3>1. Origin(i, p, p) = m
      BY <2>2 DEF Origin
    <3>2. QED
      BY <3>1
  <2>3. CASE m \notin i .. p
    <3>1. Origin(i, p, m) = m
      BY <2>3 DEF Origin
    <3>2. QED
      BY <3>1
  <2>4. QED
    BY <2>1, <2>2, <2>3
<1>4. QED
  BY <1>1, <1>2, <1>3

\* The gates of the list that was moved in.
LEMMA ShiftedParts ==
  ASSUME NEW gs \in Seq(Gate), NEW i \in DOMAIN gs, NEW p \in DOMAIN gs, i < p
  PROVE  /\ ShiftedList(gs, i, p) \in Seq(Gate)
         /\ Len(ShiftedList(gs, i, p)) = Len(gs)
         /\ DOMAIN ShiftedList(gs, i, p) = DOMAIN gs
         /\ \A k \in DOMAIN gs : /\ Origin(i, p, k) \in DOMAIN gs
                                 /\ ShiftedList(gs, i, p)[k] = gs[Origin(i, p, k)]
<1> DEFINE n == Len(gs)
           hs == ShiftedList(gs, i, p)
<1>1. /\ n \in Nat /\ DOMAIN gs = 1 .. n /\ i \in 1 .. n /\ p \in 1 .. n
      /\ \A k \in 1 .. n : gs[k] \in Gate
  OBVIOUS
<1>2. \A k \in 1 .. n : Origin(i, p, k) \in 1 .. n
  BY <1>1, OriginPermutes
<1>3. DOMAIN hs = 1 .. n /\ \A k \in 1 .. n : hs[k] = gs[Origin(i, p, k)]
  BY <1>1 DEF ShiftedList, Origin
<1>4. hs = [k \in 1 .. n |-> hs[k]]
  BY <1>1 DEF ShiftedList
<1> HIDE DEF hs
<1>5. hs \in [1 .. n -> Gate]
  BY <1>1, <1>2, <1>3, <1>4
<1>6. hs \in Seq(Gate) /\ Len(hs) = n
  BY <1>1, <1>5
<1>7. QED
  BY <1>1, <1>2, <1>3, <1>6 DEF hs

\* How many gates of a kind a list has.
HowMany(gs, P) == Cardinality({k \in DOMAIN gs : gs[k] \in P})

\* A move leaves as many of any kind.
LEMMA ShiftedCount ==
  ASSUME NEW gs \in Seq(Gate), NEW i \in DOMAIN gs, NEW p \in DOMAIN gs, i < p, NEW P
  PROVE  HowMany(ShiftedList(gs, i, p), P) = HowMany(gs, P)
<1> DEFINE n == Len(gs)
           hs == ShiftedList(gs, i, p)
           S == {k \in DOMAIN hs : hs[k] \in P}
           T == {k \in DOMAIN gs : gs[k] \in P}
           F == [k \in S |-> Origin(i, p, k)]
<1>1. n \in Nat /\ DOMAIN gs = 1 .. n /\ i \in 1 .. n /\ p \in 1 .. n
  OBVIOUS
<1>2. DOMAIN hs = 1 .. n /\ \A k \in 1 .. n : hs[k] = gs[Origin(i, p, k)]
  <2>1. DOMAIN hs = DOMAIN gs /\ \A k \in DOMAIN gs : hs[k] = gs[Origin(i, p, k)]
    BY ShiftedParts
  <2> HIDE DEF hs, n
  <2>2. QED
    BY <1>1, <2>1
<1> HIDE DEF hs
<1>3. \A k \in 1 .. n : Origin(i, p, k) \in 1 .. n
  BY <1>1, OriginPermutes
<1>4. F \in [S -> T]
  BY <1>1, <1>2, <1>3
<1>5. \A k, m \in S : F[k] = F[m] => k = m
  BY <1>1, <1>2, OriginPermutes
<1>6. ASSUME NEW m \in T PROVE \E k \in S : F[k] = m
  <2>1. m \in 1 .. n /\ gs[m] \in P
    BY <1>1
  <2>2. PICK k \in 1 .. n : Origin(i, p, k) = m
    BY <1>1, <2>1, OriginPermutes
  <2>3. k \in S
    BY <1>2, <2>1, <2>2
  <2>4. QED
    BY <2>2, <2>3
<1>7. F \in Bijection(S, T)
  <2> HIDE DEF F, S, T
  <2>1. F \in Injection(S, T)
    BY <1>4, <1>5 DEF Injection, IsInjective
  <2>2. F \in Surjection(S, T)
    BY <1>4, <1>6 DEF Surjection
  <2>3. QED
    BY <2>1, <2>2 DEF Bijection
<1>8. IsFiniteSet(S)
  <2>1. S \in SUBSET (1 .. n)
    BY <1>2
  <2>2. IsFiniteSet(1 .. n)
    BY <1>1, FS_Interval
  <2> HIDE DEF S
  <2>3. QED
    BY <2>1, <2>2, FS_Subset
<1>9. ExistsBijection(S, T)
  BY <1>7 DEF ExistsBijection
<1> HIDE DEF S, T
<1>10. Cardinality(T) = Cardinality(S)
  BY <1>8, <1>9, FS_Bijection
<1>11. QED
  BY <1>10 DEF HowMany, S, T, hs

\* A CNOT may move past gates that ifCommute lets it past.
LEMMA ShiftKeepsMeaning ==
  ASSUME NEW gs \in Seq(Gate), NEW i \in DOMAIN gs, NEW p \in DOMAIN gs, i < p,
         IsCNOT(gs[i]), \A k \in i + 1 .. p : ifCommute(gs[i], gs[k])
  PROVE  SameMeaning(ShiftedList(gs, i, p), gs)
<1> DEFINE g == gs[i]
           n == Len(gs)
           hs == ShiftedList(gs, i, p)
<1>1. /\ n \in Nat /\ DOMAIN gs = 1 .. n /\ i \in 1 .. n /\ p \in 1 .. n
      /\ \A k \in 1 .. n : gs[k] \in Gate
  OBVIOUS
<1>2. /\ hs \in Seq(Gate) /\ Len(hs) = n /\ DOMAIN hs = 1 .. n
      /\ \A k \in 1 .. n : hs[k] = gs[Origin(i, p, k)]
  <2>1. /\ hs \in Seq(Gate) /\ Len(hs) = n /\ DOMAIN hs = DOMAIN gs
        /\ \A k \in DOMAIN gs : hs[k] = gs[Origin(i, p, k)]
    BY ShiftedParts
  <2> HIDE DEF hs, n
  <2>2. QED
    BY <1>1, <2>1
<1>3. FreeBits(hs) = FreeBits(gs)
  <2>1. ASSUME NEW q \in 1 .. NumQubits
        PROVE  Cardinality(Splits(hs, q)) = Cardinality(Splits(gs, q))
    <3> DEFINE P == {x \in Gate : x.gateTy \in {"h", "n"} /\ x.target = q}
    <3>1. \A x \in Gate : x \in P <=> x.gateTy \in {"h", "n"} /\ x.target = q
      OBVIOUS
    <3>2. \A k \in 1 .. n : hs[k] \in Gate
      BY <1>2
    <3> HIDE DEF P
    <3>3. HowMany(hs, P) = HowMany(gs, P)
      BY <1>1, ShiftedCount
    <3> HIDE DEF hs
    <3>4. Splits(hs, q) = {k \in DOMAIN hs : hs[k] \in P}
      BY <1>2, <3>1, <3>2 DEF Splits
    <3>5. Splits(gs, q) = {k \in DOMAIN gs : gs[k] \in P}
      BY <1>1, <3>1 DEF Splits
    <3>6. QED
      BY <3>3, <3>4, <3>5 DEF HowMany
  <2>2. QED
    BY <2>1, SameFreeBits
<1> HIDE DEF hs
<1>4. ASSUME NEW input \in Register, NEW free \in [FreeBits(gs) -> Bit],
             NEW a, Trace(a, gs, input, free)
      PROVE  \E b : Trace(b, hs, input, free) /\ b[n] = a[n]
  <2> DEFINE Undo(k) == Apply(g, a[k], free)
             b == [k \in 0 .. n |-> IF k \in i .. p - 1 THEN Undo(k + 1) ELSE a[k]]
  <2>1. /\ g \in Gate /\ IsCNOT(g)
        /\ \A k \in 0 .. n : a[k] \in State
        /\ a[0] = Start(input)
    BY <1>1, <1>4 DEF Trace
  <2>2. ASSUME NEW k \in 1 .. n
        PROVE  /\ k - 1 \in 0 .. n
               /\ Supplied(gs[k], a[k - 1], free) /\ a[k] = Apply(gs[k], a[k - 1], free)
    BY <1>1, <1>4 DEF Trace
  <2>3. g.gateTy \notin {"h", "n"}
    BY <2>1 DEF IsCNOT
  <2>4. ASSUME NEW k \in 0 .. n
        PROVE  Undo(k) \in State /\ Undo(k).used = a[k].used
    <3>1. a[k] \in State
      BY <2>1
    <3>2. QED
      BY <2>1, <2>3, <3>1, ApplyType, ApplyUsed DEF Supplied
  <2>5. b \in [0 .. n -> State] /\ b[0] = Start(input) /\ b[n] = a[n]
    BY <1>1, <2>1, <2>4
  <2>6. \A k \in 0 .. n : b[k] = IF k \in i .. p - 1 THEN Undo(k + 1) ELSE a[k]
    OBVIOUS
  <2> HIDE DEF b
  <2>7. ASSUME NEW k \in i .. p - 1
        PROVE  Undo(k + 1) = Apply(gs[k + 1], Undo(k), free) /\ Supplied(gs[k + 1], Undo(k), free)
    <3>1. k + 1 \in 1 .. n /\ k \in 0 .. n /\ k + 1 \in i + 1 .. p
      BY <1>1
    <3>2. a[k] \in State /\ gs[k + 1] \in Gate /\ ifCommute(g, gs[k + 1])
      BY <1>1, <2>1, <3>1
    <3>3. a[k + 1] = Apply(gs[k + 1], a[k], free) /\ Supplied(gs[k + 1], a[k], free)
      BY <2>2, <3>1
    <3>4. Undo(k + 1) = Apply(gs[k + 1], Undo(k), free)
      BY <2>1, <3>2, <3>3, CNOTCommutes
    <3>5. QED
      BY <2>4, <3>1, <3>3, <3>4 DEF Supplied
  <2>8. ASSUME NEW k \in 1 .. n
        PROVE  Supplied(hs[k], b[k - 1], free) /\ b[k] = Apply(hs[k], b[k - 1], free)
    <3>1. /\ a[k - 1] \in State /\ a[k] \in State /\ k \in 0 .. n /\ k - 1 \in 0 .. n
          /\ a[k] = Apply(gs[k], a[k - 1], free) /\ Supplied(gs[k], a[k - 1], free)
      BY <2>1, <2>2
    <3>2. CASE k \in i .. p - 1
      <4>1. b[k] = Undo(k + 1) /\ hs[k] = gs[k + 1]
        BY <1>1, <1>2, <2>6, <3>1, <3>2 DEF Origin
      <4>2. b[k - 1] = Undo(k)
        <5>1. CASE k = i
          <6>1. b[k - 1] = a[k - 1]
            BY <1>1, <2>6, <3>1, <5>1
          <6>2. Undo(k) = a[k - 1]
            BY <2>1, <3>1, <5>1, Involution
          <6>3. QED
            BY <6>1, <6>2
        <5>2. CASE k # i
          BY <1>1, <2>6, <3>1, <3>2, <5>2
        <5>3. QED
          BY <5>1, <5>2
      <4>3. QED
        BY <2>7, <3>2, <4>1, <4>2
    <3>3. CASE k = p
      <4>1. b[k] = a[k] /\ b[k - 1] = Undo(k) /\ hs[k] = g
        BY <1>1, <1>2, <2>6, <3>1, <3>3 DEF Origin
      <4>2. Apply(g, Undo(k), free) = a[k]
        BY <2>1, <3>1, Involution
      <4>3. QED
        BY <2>3, <4>1, <4>2 DEF Supplied
    <3>4. CASE k \notin i .. p
      <4>1. b[k] = a[k] /\ b[k - 1] = a[k - 1] /\ hs[k] = gs[k]
        BY <1>1, <1>2, <2>6, <3>1, <3>4 DEF Origin
      <4>2. QED
        BY <3>1, <4>1
    <3>5. QED
      BY <1>1, <3>2, <3>3, <3>4
  <2>9. Trace(b, hs, input, free)
    BY <1>2, <2>5, <2>8 DEF Trace
  <2>10. QED
    BY <2>5, <2>9
<1>5. QED
  BY <1>2, <1>3, <1>4, SameTraces DEF hs

-----------------------------------------------------------------------------
(* canSwap *)

\* How far a gate can move to the right.
LEMMA RightReach ==
  ASSUME G \in Seq(Gate), NEW i \in DOMAIN G, NEW f \in DOMAIN G, i < f
  PROVE  /\ Right(i, f) \in i .. f
         /\ \A k \in i + 1 .. Right(i, f) : ifCommute(G[i], G[k])
         /\ Right(i, f) < f => ~ifCommute(G[i], G[Right(i, f) + 1])
<1> DEFINE Good(j) == /\ \A k \in i + 1 .. j : ifCommute(G[i], G[k])
                      /\ j < f => ~ifCommute(G[i], G[j + 1])
           S == {k \in i + 1 .. f : ~ifCommute(G[i], G[k])}
<1>1. i \in Nat /\ f \in Nat
  OBVIOUS
<1>2. \E j \in i .. f : Good(j)
  <2>1. CASE S = {}
    <3>1. f \in i .. f /\ Good(f)
      BY <1>1, <2>1
    <3>2. QED
      BY <3>1
  <2>2. CASE S # {}
    <3>1. S \in SUBSET Nat
      BY <1>1
    <3>2. PICK m \in S : \A k \in S : m <= k
      BY <2>2, <3>1, LeastNatural
    <3>3. m \in i + 1 .. f /\ ~ifCommute(G[i], G[m]) /\ m - 1 + 1 = m
      BY <1>1, <3>2
    <3>4. ASSUME NEW k \in i + 1 .. m - 1 PROVE ifCommute(G[i], G[k])
      <4>1. k \in i + 1 .. f /\ ~(m <= k)
        BY <1>1, <3>3
      <4>2. QED
        BY <3>2, <4>1
    <3>5. m - 1 \in i .. f /\ Good(m - 1)
      BY <1>1, <3>3, <3>4
    <3>6. QED
      BY <3>5
  <2>3. QED
    BY <2>1, <2>2
<1>3. Right(i, f) = CHOOSE j \in i .. f : Good(j)
  BY DEF Right
<1> HIDE DEF Good
<1>4. Right(i, f) \in i .. f /\ Good(Right(i, f))
  BY <1>2, <1>3
<1>5. QED
  BY <1>4 DEF Good

\* Distances from x, counted down.
LEMMA Backwards ==
  ASSUME NEW x \in Nat, NEW y \in Nat, NEW z \in Int, NEW e \in Nat,
         z >= x - e + 1, z <= x - 1, e <= x - y
  PROVE  x - z \in 1 .. x - y /\ x - (x - z) = z /\ ~(e <= x - z)
OBVIOUS

\* How far a gate can move to the left.
LEMMA LeftReach ==
  ASSUME G \in Seq(Gate), NEW i \in DOMAIN G, NEW f \in DOMAIN G, i < f
  PROVE  /\ Left(i, f) \in i .. f
         /\ \A k \in Left(i, f) .. f - 1 : ifCommute(G[f], G[k])
         /\ Left(i, f) > i => ~ifCommute(G[f], G[Left(i, f) - 1])
<1> DEFINE Good(j) == /\ \A k \in j .. f - 1 : ifCommute(G[f], G[k])
                      /\ j > i => ~ifCommute(G[f], G[j - 1])
           S == {d \in 1 .. f - i : ~ifCommute(G[f], G[f - d])}
<1>1. i \in Nat /\ f \in Nat
  OBVIOUS
<1>2. \E j \in i .. f : Good(j)
  <2>1. CASE S = {}
    <3>1. ASSUME NEW k \in i .. f - 1 PROVE ifCommute(G[f], G[k])
      <4>1. f - k \in 1 .. f - i /\ f - (f - k) = k
        BY <1>1
      <4>2. QED
        BY <2>1, <4>1
    <3>2. i \in i .. f /\ Good(i)
      BY <1>1, <3>1
    <3>3. QED
      BY <3>2
  <2>2. CASE S # {}
    <3>1. S \in SUBSET Nat
      BY <1>1
    <3>2. PICK d \in S : \A k \in S : d <= k
      BY <2>2, <3>1, LeastNatural
    <3> DEFINE m == f - d + 1
    <3>3. d \in 1 .. f - i /\ m \in i + 1 .. f /\ m - 1 = f - d /\ ~ifCommute(G[f], G[f - d])
      BY <1>1, <3>2
    <3>4. ASSUME NEW k \in m .. f - 1 PROVE ifCommute(G[f], G[k])
      <4>1. d \in Nat /\ k \in Int /\ k >= f - d + 1 /\ k <= f - 1 /\ d <= f - i
        BY <1>1, <3>3
      <4> HIDE DEF m, S, Good
      <4>2. f - k \in 1 .. f - i /\ f - (f - k) = k
        BY <1>1, <4>1, Backwards
      <4>3. ~(d <= f - k)
        BY <1>1, <4>1, Backwards
      <4>4. f - k \notin S
        BY <3>2, <4>3
      <4>5. QED
        BY <4>2, <4>4 DEF S
    <3> HIDE DEF m
    <3>5. m \in i .. f /\ Good(m)
      BY <1>1, <3>3, <3>4
    <3>6. QED
      BY <3>5
  <2>3. QED
    BY <2>1, <2>2
<1>3. Left(i, f) = CHOOSE j \in i .. f : Good(j)
  BY DEF Left
<1> HIDE DEF Good
<1>4. Left(i, f) \in i .. f /\ Good(Left(i, f))
  BY <1>2, <1>3
<1>5. QED
  BY <1>4 DEF Good

\* Where the two can be brought side by side.
LEMMA SwapReach ==
  ASSUME G \in Seq(Gate), NEW i \in DOMAIN G, NEW f \in DOMAIN G, i < f, canSwap(i, f)
  PROVE  /\ newPos(i, f) \in i .. f - 1
         /\ \A k \in i + 1 .. newPos(i, f) : ifCommute(G[i], G[k])
         /\ \A k \in newPos(i, f) + 1 .. f - 1 : ifCommute(G[f], G[k])
<1> DEFINE R == Right(i, f)
           L == Left(i, f)
           P == newPos(i, f)
<1>1. /\ R \in i .. f /\ \A k \in i + 1 .. R : ifCommute(G[i], G[k])
      /\ L \in i .. f /\ \A k \in L .. f - 1 : ifCommute(G[f], G[k])
  BY RightReach, LeftReach
<1>2. R >= L - 1 /\ P = IF L - 1 >= i THEN L - 1 ELSE i
  BY DEF canSwap, newPos
<1> HIDE DEF R, L, P
<1>3. i \in Nat /\ f \in Nat
  OBVIOUS
<1>4. P \in i .. f - 1 /\ P <= R /\ L <= P + 1
  BY <1>1, <1>2, <1>3
<1>5. \A k \in i + 1 .. P : k \in i + 1 .. R
  BY <1>1, <1>3, <1>4
<1>6. \A k \in P + 1 .. f - 1 : k \in L .. f - 1
  BY <1>1, <1>3, <1>4
<1>7. /\ P \in i .. f - 1
      /\ \A k \in i + 1 .. P : ifCommute(G[i], G[k])
      /\ \A k \in P + 1 .. f - 1 : ifCommute(G[f], G[k])
  BY <1>1, <1>4, <1>5, <1>6
<1>8. QED
  BY <1>7 DEF P

\* Equal gates can be brought together only past gates they commute with.
LEMMA EqualSwap ==
  ASSUME G \in Seq(Gate), NEW i \in DOMAIN G, NEW f \in DOMAIN G, i < f, canSwap(i, f),
         G[f] = G[i]
  PROVE  \A k \in i + 1 .. f - 1 : ifCommute(G[i], G[k])
<1>1. PICK m : /\ m \in i .. f - 1
               /\ \A k \in i + 1 .. m : ifCommute(G[i], G[k])
               /\ \A k \in m + 1 .. f - 1 : ifCommute(G[i], G[k])
  <2>1. QED
    BY SwapReach
<1>2. i \in Nat /\ f \in Nat
  OBVIOUS
<1>3. \A k \in i + 1 .. f - 1 : k \in i + 1 .. m \/ k \in m + 1 .. f - 1
  BY <1>1, <1>2
<1>4. QED
  BY <1>1, <1>3

-----------------------------------------------------------------------------
(* The circuit does the same *)

OptTypeOK ==
  /\ G \in Seq(Gate)
  /\ gInd \in Nat \ {0} /\ gOff \in Nat \ {0} /\ gCount \in Nat /\ gNumBefore \in Nat
  /\ merged \in BOOLEAN
  /\ pc \in {"gate", "search", "over", "crashed"}
  /\ pc = "search" => gInd \in DOMAIN G /\ IsCNOT(G[gInd])

MeaningInv == OptTypeOK /\ (~merged => SameMeaning(G, source))

\* The two gates that a search compares.
LEMMA PairInPlace ==
  ASSUME OptTypeOK, Searching
  PROVE  /\ gInd \in DOMAIN G /\ gInd + gOff \in DOMAIN G /\ gInd < gInd + gOff
         /\ IsCNOT(G[gInd])
BY DEF OptTypeOK, Searching

\* At first the gates are the source.
LEMMA MeaningInit == Init => MeaningInv
<1> SUFFICES ASSUME Init PROVE MeaningInv
  OBVIOUS
<1>1. source \in Seq(SourceGate)
  BY CircuitsAssumption DEF Init
<1>2. source \in Seq(Gate) /\ Len(source) \in Nat
  BY <1>1 DEF Gate
<1>3. G = source /\ SameMeaning(G, source)
  BY SameMeaningReflexive DEF Init
<1>4. OptTypeOK
  <2>1. /\ pc = "gate" /\ gInd = 1 /\ gOff = 1 /\ gCount = 0 /\ merged = FALSE
        /\ gNumBefore = Len(source)
    BY DEF Init
  <2>2. merged \in BOOLEAN
    BY <2>1
  <2>3. gInd \in Nat \ {0} /\ gOff \in Nat \ {0} /\ gCount \in Nat /\ gNumBefore \in Nat
    BY <1>2, <2>1
  <2>4. pc \in {"gate", "search", "over", "crashed"} /\ pc # "search"
    BY <2>1
  <2>5. G \in Seq(Gate)
    BY <1>2, <1>3
  <2>6. QED
    BY <2>2, <2>3, <2>4, <2>5 DEF OptTypeOK
<1>5. QED
  BY <1>3, <1>4 DEF MeaningInv

\* Two equal CNOTs that are erased.
LEMMA CancelMeaning ==
  ASSUME OptTypeOK, Cancel
  PROVE  G' \in Seq(Gate) /\ SameMeaning(G', G)
<1> DEFINE i == gInd
           f == gInd + gOff
<1>1. G \in Seq(Gate) /\ i \in DOMAIN G /\ f \in DOMAIN G /\ i < f /\ IsCNOT(G[i])
  BY PairInPlace DEF OptTypeOK, Cancel
<1>2. G[f] = G[i] /\ canSwap(i, f) /\ G' = [G EXCEPT ![i] = None, ![f] = None]
  BY DEF Cancel, Equal, Other
<1> HIDE DEF i, f
<1>3. \A k \in i + 1 .. f - 1 : ifCommute(G[i], G[k])
  BY <1>1, <1>2, EqualSwap
<1>4. QED
  BY <1>1, <1>2, <1>3, CancelKeepsMeaning

\* A CNOT that is moved.
LEMMA MoveMeaning ==
  ASSUME OptTypeOK, Move
  PROVE  G' \in Seq(Gate) /\ SameMeaning(G', G)
<1> DEFINE i == gInd
           f == gInd + gOff
           p == newPos(i, f)
<1>1. G \in Seq(Gate) /\ i \in DOMAIN G /\ f \in DOMAIN G /\ i < f /\ IsCNOT(G[i])
  BY PairInPlace DEF OptTypeOK, Move
<1>2. canSwap(i, f) /\ p # i /\ G' = ShiftedList(G, i, p)
  BY DEF Move, Shifted, ShiftedList
<1> HIDE DEF i, f
<1>3. p \in i .. f - 1 /\ \A k \in i + 1 .. p : ifCommute(G[i], G[k])
  BY <1>1, <1>2, SwapReach
<1> HIDE DEF p
<1>4. p \in DOMAIN G /\ i < p
  BY <1>1, <1>2, <1>3
<1>5. QED
  BY <1>1, <1>2, <1>3, <1>4, ShiftedParts, ShiftKeepsMeaning

\* A merge leaves gates.
LEMMA MergeType ==
  ASSUME OptTypeOK, Merge
  PROVE  G' \in Seq(Gate) /\ DOMAIN G' = DOMAIN G
<1> DEFINE i == gInd
           f == gInd + gOff
           h == [G[f] EXCEPT !.target = G[f].control1, !.control1 = G[f].target]
<1>1. G \in Seq(Gate) /\ i \in DOMAIN G /\ f \in DOMAIN G /\ i < f /\ IsCNOT(G[f])
  BY PairInPlace DEF OptTypeOK, Merge, Reversed, Other
<1>2. G[f] \in SourceGate
  <2> HIDE DEF f
  <2>1. G[f] \in Gate
    BY <1>1
  <2>2. QED
    BY <1>1, <2>1, GateParts DEF IsCNOT
<1>3. h \in SourceGate
  <2>1. G[f] \in OpGate /\ OnQubits(G[f]) /\ G[f].gateTy = "c"
    BY <1>1, <1>2 DEF SourceGate, IsCNOT
  <2>2. /\ G[f].target \in 1 .. NumQubits
        /\ G[f].control1 \in 1 .. NumQubits /\ G[f].control1 # G[f].target
        /\ G[f].control2 = 0
    BY <2>1 DEF OnQubits, Controlled
  <2>3. /\ h.gateTy = "c" /\ h.target = G[f].control1 /\ h.control1 = G[f].target
        /\ h.control2 = 0 /\ h \in OpGate
    BY <2>1, <2>2, ThresholdAssumption DEF OpGate
  <2> HIDE DEF h
  <2>4. QED
    BY <2>2, <2>3 DEF SourceGate, OnQubits, Controlled
<1>4. G' = [[G EXCEPT ![i] = None] EXCEPT ![f] = h]
  <2> DEFINE G1 == [G EXCEPT ![i] = None]
             G2 == [G1 EXCEPT ![f] = [G1[f] EXCEPT !.target = G[f].control1]]
             G3 == [G2 EXCEPT ![f] = [G2[f] EXCEPT !.control1 = G[f].target]]
  <2>1. G' = G3
    BY DEF Merge, Other
  <2> HIDE DEF i, f
  <2>2. G1[f] = G[f] /\ f \in DOMAIN G1
    BY <1>1
  <2>3. G2[f] = [G[f] EXCEPT !.target = G[f].control1]
    BY <2>2
  <2>4. G3 = [G1 EXCEPT ![f] = h]
    <3>1. G2 = [G1 EXCEPT ![f] = G2[f]]
      BY <2>2
    <3>2. h = [G2[f] EXCEPT !.control1 = G[f].target]
      BY <2>3
    <3> HIDE DEF h, G1
    <3>3. QED
      BY <2>2, <3>1, <3>2
  <2>5. QED
    BY <2>1, <2>4
<1> HIDE DEF h, i, f
<1>5. None \in Gate /\ h \in Gate
  BY <1>3 DEF Gate
<1>6. G \in [1 .. Len(G) -> Gate] /\ Len(G) \in Nat
  BY <1>1
<1>7. G' \in [1 .. Len(G) -> Gate]
  BY <1>4, <1>5, <1>6
<1>8. QED
  BY <1>6, <1>7

\* Every step of a pass keeps it.
LEMMA MeaningStep == MeaningInv /\ [Next]_vars => MeaningInv'
<1> SUFFICES ASSUME MeaningInv, [Next]_vars PROVE MeaningInv'
  OBVIOUS
<1>1. OptTypeOK /\ (~merged => SameMeaning(G, source))
  BY DEF MeaningInv
<1>2. gInd + 1 \in Nat \ {0} /\ gOff + 1 \in Nat \ {0} /\ gCount + 1 \in Nat
  BY <1>1 DEF OptTypeOK
<1>3. CASE UNCHANGED vars
  BY <1>1, <1>3 DEF vars, MeaningInv, OptTypeOK
<1>4. CASE SkipGate \/ GiveUp \/ Blocked
  BY <1>1, <1>2, <1>4 DEF SkipGate, GiveUp, Blocked, NextGate, MeaningInv, OptTypeOK
<1>5. CASE StartSearch
  <2>1. gInd \in DOMAIN G /\ IsCNOT(G[gInd])
    BY <1>1, <1>5 DEF StartSearch, OptTypeOK
  <2>2. QED
    BY <1>1, <1>5, <2>1 DEF StartSearch, MeaningInv, OptTypeOK
<1>6. CASE Crash
  BY <1>1, <1>6 DEF Crash, MeaningInv, OptTypeOK
<1>7. CASE Cancel
  <2>1. G' \in Seq(Gate) /\ SameMeaning(G', G)
    BY <1>1, <1>7, CancelMeaning
  <2>2. UNCHANGED <<source, merged, gOff, gCount, gNumBefore>> /\ pc' = "gate" /\ gInd' = gInd + 1
    BY <1>7 DEF Cancel, NextGate
  <2>3. ~merged => SameMeaning(G', source)
    BY <1>1, <2>1, SameMeaningTransitive
  <2>4. QED
    BY <1>1, <1>2, <2>1, <2>2, <2>3 DEF MeaningInv, OptTypeOK
<1>8. CASE Move
  <2>1. G' \in Seq(Gate) /\ SameMeaning(G', G)
    BY <1>1, <1>8, MoveMeaning
  <2>2. UNCHANGED <<source, merged, gInd, gOff, gCount, gNumBefore>> /\ pc' = "gate"
    BY <1>8 DEF Move
  <2>3. ~merged => SameMeaning(G', source)
    BY <1>1, <2>1, SameMeaningTransitive
  <2>4. QED
    BY <1>1, <2>1, <2>2, <2>3 DEF MeaningInv, OptTypeOK
<1>9. CASE Merge
  <2>1. G' \in Seq(Gate)
    BY <1>1, <1>9, MergeType
  <2>2. UNCHANGED <<gOff, gCount, gNumBefore>> /\ merged' = TRUE /\ pc' = "gate" /\ gInd' = gInd + 1
    BY <1>9 DEF Merge, NextGate
  <2>3. QED
    BY <1>1, <1>2, <2>1, <2>2 DEF MeaningInv, OptTypeOK
<1>10. CASE NextOffset
  BY <1>1, <1>2, <1>10 DEF NextOffset, Searching, MeaningInv, OptTypeOK
<1>11. CASE EndPass
  <2>1. countGate(G) \in Nat
    <3>1. Len(G) \in Nat /\ DOMAIN G = 1 .. Len(G)
      BY <1>1 DEF OptTypeOK
    <3> DEFINE S == {i \in DOMAIN G : G[i].gateTy # ""}
    <3>2. S \in SUBSET (1 .. Len(G))
      BY <3>1
    <3>3. IsFiniteSet(1 .. Len(G))
      BY <3>1, FS_Interval
    <3> HIDE DEF S
    <3>4. Cardinality(S) \in Nat
      BY <3>2, <3>3, FS_Subset, FS_CardinalityType
    <3>5. QED
      BY <3>4 DEF countGate, S
  <2>2. QED
    BY <1>1, <1>11, <2>1 DEF EndPass, MeaningInv, OptTypeOK
<1>12. CASE Ended
  BY <1>1, <1>12 DEF Ended, vars, MeaningInv, OptTypeOK
<1>13. QED
  BY <1>3, <1>4, <1>5, <1>6, <1>7, <1>8, <1>9, <1>10, <1>11, <1>12 DEF Next

\* As long as no pair was merged, the gates do what the source does, whatever
\* circuit it is: what optimal() cancels and moves is past gates that commute.
THEOREM MeaningKeptHolds == Spec => []MeaningKept
<1>1. MeaningInv => MeaningKept
  BY DEF MeaningInv, MeaningKept
<1>2. QED
  BY <1>1, MeaningInit, MeaningStep, PTL DEF Spec

-----------------------------------------------------------------------------
(* Nothing is left to cancel *)

\* All gates between two commute with the first of them.
Between(gs, i, f) == \A k \in i + 1 .. f - 1 : ifCommute(gs[i], gs[k])

\* A search from i that is not over before f.
InReach(gs, i, f) == Cardinality(Met(gs, i, f)) < OPT_THRESHOLD

\* No equal CNOT after position i, as far as a search goes, can be brought to it.
Unmatched(gs, i, f) == IsCNOT(gs[i]) /\ gs[i] = gs[f] => ~Between(gs, i, f)
DoneWith(gs, i) ==
  \A f \in DOMAIN gs : i < f /\ InReach(gs, i, f) => Unmatched(gs, i, f)

\* CNOTs with target and control exchanged.
Mirror(g, h) ==
  /\ IsCNOT(g) /\ IsCNOT(h)
  /\ h.target = g.control1 /\ h.control1 = g.target

\* A CNOT that will be merged when its turn comes.
Waiting(gs, j, f) ==
  /\ j \in DOMAIN gs /\ f \in DOMAIN gs /\ j < f
  /\ Mirror(gs[j], gs[f]) /\ InReach(gs, j, f)
  /\ \A k \in j + 1 .. f - 1 : ifCommute(gs[f], gs[k])

\* Such CNOTs do not commute.
LEMMA MirrorApart ==
  ASSUME NEW g \in Gate, NEW h \in Gate, Mirror(g, h)
  PROVE  ~ifCommute(g, h) /\ ~ifCommute(h, g) /\ g # h
<1>1. g.control1 # g.target
  BY GateParts DEF Mirror, IsCNOT, Controlled
<1>2. QED
  BY <1>1 DEF Mirror, IsCNOT, ifCommute, Controlled, Controls

\* A CNOT has one reverse.
LEMMA MirrorUnique ==
  ASSUME NEW g \in Gate, NEW h \in Gate, NEW x \in Gate, Mirror(g, h), Mirror(g, x)
  PROVE  h = x
<1>1. h \in OpGate /\ x \in OpGate /\ h.control2 = 0 /\ x.control2 = 0
  BY GateParts DEF Mirror
<1>2. h.gateTy = x.gateTy /\ h.target = x.target /\ h.control1 = x.control1
  BY DEF Mirror, IsCNOT
<1>3. ASSUME NEW A, NEW B, NEW y \in [gateTy : A, target : B, control1 : B, control2 : B]
      PROVE  y = [gateTy |-> y.gateTy, target |-> y.target,
                  control1 |-> y.control1, control2 |-> y.control2]
  OBVIOUS
<1>4. h = [gateTy |-> h.gateTy, target |-> h.target,
           control1 |-> h.control1, control2 |-> h.control2]
  BY <1>1, <1>3 DEF OpGate
<1>5. x = [gateTy |-> x.gateTy, target |-> x.target,
           control1 |-> x.control1, control2 |-> x.control2]
  BY <1>1, <1>3 DEF OpGate
<1>6. QED
  BY <1>1, <1>2, <1>4, <1>5

\* What can be moved to the left all the way can be swapped.
LEMMA MeetSwap ==
  ASSUME G \in Seq(Gate), NEW i \in DOMAIN G, NEW f \in DOMAIN G, i < f,
         \A k \in i + 1 .. f - 1 : ifCommute(G[f], G[k])
  PROVE  canSwap(i, f)
<1> DEFINE L == Left(i, f)
           R == Right(i, f)
<1>1. L \in i .. f /\ (L > i => ~ifCommute(G[f], G[L - 1])) /\ R \in i .. f
  BY LeftReach, RightReach
<1>2. canSwap(i, f) <=> R >= L - 1
  BY DEF canSwap
<1> HIDE DEF L, R
<1>3. i \in Nat /\ f \in Nat
  OBVIOUS
<1>4. ~(L > i + 1)
  <2>1. SUFFICES ASSUME L > i + 1 PROVE FALSE
    OBVIOUS
  <2>2. L - 1 \in i + 1 .. f - 1 /\ L > i
    BY <1>1, <1>3, <2>1
  <2>3. QED
    BY <1>1, <2>2
<1>5. QED
  BY <1>1, <1>2, <1>3, <1>4

\* Gates that are there.
LEMMA CountFinite ==
  ASSUME NEW gs \in Seq(Gate)
  PROVE  /\ IsFiniteSet({k \in DOMAIN gs : gs[k].gateTy # ""})
         /\ countGate(gs) \in Nat
         /\ countGate(gs) <= Len(gs)
<1> DEFINE S == {k \in DOMAIN gs : gs[k].gateTy # ""}
<1> DEFINE n == Len(gs)
<1>1. n \in Nat /\ DOMAIN gs = 1 .. n
  OBVIOUS
<1> HIDE DEF n
<1>2. S \in SUBSET (1 .. n)
  BY <1>1
<1>3. IsFiniteSet(1 .. n) /\ Cardinality(1 .. n) = n
  <2>1. /\ IsFiniteSet(1 .. n)
        /\ Cardinality(1 .. n) = IF 1 > n THEN 0 ELSE n - 1 + 1
    BY <1>1, FS_Interval
  <2>2. QED
    BY <1>1, <2>1
<1>4. countGate(gs) = Cardinality(S)
  BY DEF countGate
<1> HIDE DEF S
<1>5. IsFiniteSet(S) /\ Cardinality(S) <= n
  BY <1>2, <1>3, FS_Subset
<1>6. QED
  BY <1>4, <1>5, FS_CardinalityType DEF S, n

\* A bound that is not met.
LEMMA LessOrEqual ==
  ASSUME NEW a \in Nat, NEW b \in Nat, a <= b, b # a
  PROVE  a < b
OBVIOUS

\* A list that lost gates has fewer.
LEMMA CountFalls ==
  ASSUME NEW gs \in Seq(Gate), NEW hs \in Seq(Gate), DOMAIN hs = DOMAIN gs,
         NEW i \in DOMAIN gs, gs[i].gateTy # "", hs[i].gateTy = "",
         \A k \in DOMAIN gs : gs[k].gateTy = "" => hs[k].gateTy = ""
  PROVE  countGate(hs) < countGate(gs)
<1> DEFINE S == {k \in DOMAIN gs : gs[k].gateTy # ""}
           T == {k \in DOMAIN hs : hs[k].gateTy # ""}
<1>1. T \in SUBSET S /\ T # S
  OBVIOUS
<1>2. IsFiniteSet(S) /\ countGate(gs) = Cardinality(S) /\ countGate(hs) = Cardinality(T)
  BY CountFinite DEF countGate
<1>3. countGate(gs) \in Nat /\ countGate(hs) \in Nat
  BY CountFinite
<1> HIDE DEF S, T
<1>4. Cardinality(T) <= Cardinality(S) /\ Cardinality(S) # Cardinality(T)
  BY <1>1, <1>2, FS_Subset
<1>5. Cardinality(S) \in Nat /\ Cardinality(T) \in Nat
  BY <1>2, <1>3
<1>6. QED
  BY <1>2, <1>4, <1>5, LessOrEqual

\* A move erases no gate.
LEMMA ShiftedCountGate ==
  ASSUME NEW gs \in Seq(Gate), NEW i \in DOMAIN gs, NEW p \in DOMAIN gs, i < p
  PROVE  countGate(ShiftedList(gs, i, p)) = countGate(gs)
<1> DEFINE hs == ShiftedList(gs, i, p)
           P == {x \in Gate : x.gateTy # ""}
<1>1. HowMany(hs, P) = HowMany(gs, P)
  BY ShiftedCount
<1>2. hs \in Seq(Gate)
  BY ShiftedParts
<1> HIDE DEF hs
<1>3. ASSUME NEW ks \in Seq(Gate) PROVE countGate(ks) = HowMany(ks, P)
  <2>1. ASSUME NEW k \in DOMAIN ks
        PROVE  ks[k] \in P <=> ks[k].gateTy # ""
    <3>1. ks[k] \in Gate
      OBVIOUS
    <3>2. QED
      BY <3>1
  <2>2. {k \in DOMAIN ks : ks[k] \in P} = {k \in DOMAIN ks : ks[k].gateTy # ""}
    BY <2>1
  <2>3. QED
    BY <2>2 DEF countGate, HowMany
<1>4. QED
  BY <1>1, <1>2, <1>3 DEF hs

\* What a search has met.
LEMMA MetFinite ==
  ASSUME NEW gs \in Seq(Gate), NEW i, NEW f
  PROVE  IsFiniteSet(Met(gs, i, f)) /\ Cardinality(Met(gs, i, f)) \in Nat
<1> DEFINE S == Met(gs, i, f)
<1>1. S \in SUBSET (1 .. Len(gs))
  BY DEF Met
<1> HIDE DEF S
<1>2. IsFiniteSet(1 .. Len(gs))
  BY FS_Interval
<1>3. IsFiniteSet(S) /\ Cardinality(S) \in Nat
  BY <1>1, <1>2, FS_Subset, FS_CardinalityType
<1>4. QED
  BY <1>3 DEF S

\* What is nearer is in reach too.
LEMMA NearerInReach ==
  ASSUME NEW gs \in Seq(Gate), NEW i \in Nat, NEW m \in Nat, NEW f \in DOMAIN gs,
         m <= f, InReach(gs, i, f)
  PROVE  Cardinality(Met(gs, i, m)) < OPT_THRESHOLD
<1>1. Met(gs, i, m) \in SUBSET Met(gs, i, f)
  <2>1. \A k \in DOMAIN gs : k <= m => k <= f
    OBVIOUS
  <2>2. QED
    BY <2>1 DEF Met
<1>2. /\ IsFiniteSet(Met(gs, i, f)) /\ Cardinality(Met(gs, i, f)) \in Nat
      /\ Cardinality(Met(gs, i, m)) \in Nat
  BY MetFinite
<1>3. Cardinality(Met(gs, i, m)) <= Cardinality(Met(gs, i, f))
  BY <1>1, <1>2, FS_Subset
<1>4. QED
  BY <1>2, <1>3, ThresholdAssumption DEF InReach

\* While the passes go on: as long as this pass has erased nothing, the gates
\* before gInd are done with, or a CNOT that was moved still waits for its turn.
\* A search has covered what lies before gInd + gOff, and been counted.
AllSearched ==
  /\ \A i \in DOMAIN G : i < gInd => DoneWith(G, i)
  /\ pc = "search" =>
       \A f \in DOMAIN G : gInd < f /\ f < gInd + gOff => Unmatched(G, gInd, f)

OneWaits ==
  \E j, f \in DOMAIN G :
    /\ Waiting(G, j, f) /\ gInd <= j
    /\ pc = "search" /\ j = gInd => gInd + gOff <= f

PassInv ==
  /\ pc = "search" => gCount = Cardinality(Met(G, gInd, gInd + gOff))
  /\ pc \in {"gate", "search"} =>
       /\ countGate(G) <= gNumBefore
       /\ countGate(G) = gNumBefore => AllSearched \/ OneWaits
  /\ pc = "over" => \A i \in DOMAIN G : DoneWith(G, i)

\* An equal CNOT that cannot be brought here is not past commuting gates only.
LEMMA NoSwapUnmatched ==
  ASSUME G \in Seq(Gate), NEW i \in DOMAIN G, NEW f \in DOMAIN G, i < f
  PROVE  /\ Unmatched(G, i, f) => (IsCNOT(G[i]) /\ G[i] = G[f] => ~canSwap(i, f))
         /\ (G[i] = G[f] => ~canSwap(i, f)) => Unmatched(G, i, f)
<1>1. ASSUME G[i] = G[f], canSwap(i, f) PROVE Between(G, i, f)
  BY <1>1, EqualSwap DEF Between
<1>2. ASSUME G[i] = G[f], Between(G, i, f) PROVE canSwap(i, f)
  BY <1>2, MeetSwap DEF Between
<1>3. QED
  BY <1>1, <1>2 DEF Unmatched

\* A gate that is no CNOT.
LEMMA SkipPass ==
  ASSUME OptTypeOK, PassInv, SkipGate
  PROVE  PassInv'
<1>1. /\ pc = "gate" /\ gInd <= Len(G) /\ ~IsCNOT(G[gInd])
      /\ pc' = "gate" /\ gInd' = gInd + 1 /\ G' = G /\ gNumBefore' = gNumBefore
  BY DEF SkipGate, NextGate
<1>2. gInd \in Nat /\ DOMAIN G = 1 .. Len(G)
  BY DEF OptTypeOK
<1>3. countGate(G) = gNumBefore => AllSearched' \/ OneWaits'
  <2>1. CASE AllSearched
    <3>1. DoneWith(G, gInd)
      BY <1>1 DEF DoneWith, Unmatched
    <3>2. \A i \in DOMAIN G : i < gInd + 1 => i < gInd \/ i = gInd
      BY <1>2
    <3>3. AllSearched'
      BY <1>1, <2>1, <3>1, <3>2 DEF AllSearched
    <3>4. QED
      BY <3>3
  <2>2. CASE OneWaits
    <3>1. PICK j, f \in DOMAIN G : Waiting(G, j, f) /\ gInd <= j
      BY <2>2 DEF OneWaits
    <3>2. j # gInd
      BY <1>1, <3>1 DEF Waiting, Mirror
    <3>3. gInd + 1 <= j
      BY <1>2, <3>1, <3>2
    <3>4. OneWaits'
      BY <1>1, <3>1, <3>3 DEF OneWaits
    <3>5. QED
      BY <3>4
  <2>3. QED
    BY <1>1, <2>1, <2>2 DEF PassInv
<1>4. QED
  BY <1>1, <1>3 DEF PassInv

\* A search starts with nothing met.
LEMMA StartPass ==
  ASSUME OptTypeOK, PassInv, StartSearch
  PROVE  PassInv'
<1>1. /\ pc = "gate" /\ pc' = "search" /\ gOff' = 1 /\ gCount' = 0
      /\ gInd' = gInd /\ G' = G /\ gNumBefore' = gNumBefore
  BY DEF StartSearch
<1>2. gInd \in Nat /\ DOMAIN G = 1 .. Len(G)
  BY DEF OptTypeOK
<1> DEFINE i == gInd
<1>0. gCount' = Cardinality(Met(G, i, i + 1))
  <2>1. Met(G, i, i + 1) = {}
    BY <1>2 DEF Met
  <2>2. QED
    BY <1>1, <2>1, FS_EmptySet
<1>3. countGate(G) = gNumBefore => AllSearched' \/ OneWaits'
  <2>1. CASE AllSearched
    <3>1. \A f \in DOMAIN G : ~(gInd < f /\ f < gInd + 1)
      BY <1>2
    <3>2. AllSearched'
      BY <1>1, <2>1, <3>1 DEF AllSearched
    <3>3. QED
      BY <3>2
  <2>2. CASE OneWaits
    <3>1. PICK j, f \in DOMAIN G : Waiting(G, j, f) /\ gInd <= j
      BY <2>2 DEF OneWaits
    <3>2. j = gInd => gInd + 1 <= f
      BY <1>2, <3>1 DEF Waiting
    <3>3. OneWaits'
      BY <1>1, <3>1, <3>2 DEF OneWaits
    <3>4. QED
      BY <3>3
  <2>3. QED
    BY <1>1, <2>1, <2>2 DEF PassInv
<1>4. QED
  BY <1>0, <1>1, <1>3 DEF PassInv

\* A search that gives up has come to the end of the list, or has met too many
\* gates to go further.
LEMMA GiveUpPass ==
  ASSUME OptTypeOK, PassInv, GiveUp
  PROVE  PassInv'
<1>1. /\ pc = "search" /\ ~Searching
      /\ pc' = "gate" /\ gInd' = gInd + 1 /\ G' = G /\ gNumBefore' = gNumBefore
  BY DEF GiveUp, NextGate
<1>2. /\ gInd \in Nat \ {0} /\ gOff \in Nat /\ gCount \in Nat
      /\ DOMAIN G = 1 .. Len(G) /\ Len(G) \in Nat
  BY DEF OptTypeOK
<1>3. \A f \in DOMAIN G : InReach(G, gInd, f) => f < gInd + gOff
  <2>1. gCount = Cardinality(Met(G, gInd, gInd + gOff))
    BY <1>1 DEF PassInv
  <2>2. ~(gInd + gOff <= Len(G) /\ gCount < OPT_THRESHOLD)
    BY <1>1 DEF Searching
  <2>3. SUFFICES ASSUME NEW f \in DOMAIN G, InReach(G, gInd, f), ~(f < gInd + gOff)
                 PROVE  FALSE
    OBVIOUS
  <2>4. gInd + gOff <= f /\ gInd + gOff <= Len(G)
    BY <1>2, <2>3
  <2> DEFINE m == gInd + gOff
             i == gInd
  <2>5. m \in Nat /\ m <= f /\ i \in Nat /\ G \in Seq(Gate)
    BY <1>2, <2>4 DEF OptTypeOK
  <2>6. Cardinality(Met(G, i, m)) < OPT_THRESHOLD
    <3> HIDE DEF m, i
    <3>1. QED
      BY <2>3, <2>5, NearerInReach DEF InReach, i
  <2>7. QED
    BY <2>1, <2>2, <2>4, <2>6
<1>4. countGate(G) = gNumBefore => AllSearched' \/ OneWaits'
  <2>1. CASE AllSearched
    <3>2. DoneWith(G, gInd)
      BY <1>1, <1>3, <2>1 DEF AllSearched, DoneWith
    <3>3. \A i \in DOMAIN G : i < gInd + 1 => i < gInd \/ i = gInd
      BY <1>2
    <3>4. AllSearched'
      BY <1>1, <2>1, <3>2, <3>3 DEF AllSearched
    <3>5. QED
      BY <3>4
  <2>2. CASE OneWaits
    <3>1. PICK j, f \in DOMAIN G : /\ Waiting(G, j, f) /\ gInd <= j
                                   /\ j = gInd => gInd + gOff <= f
      BY <1>1, <2>2 DEF OneWaits
    <3>2. j # gInd
      BY <1>2, <1>3, <3>1 DEF Waiting
    <3>3. gInd + 1 <= j
      BY <1>2, <3>1, <3>2
    <3>4. OneWaits'
      BY <1>1, <3>1, <3>3 DEF OneWaits
    <3>5. QED
      BY <3>4
  <2>3. QED
    BY <1>1, <2>1, <2>2 DEF PassInv
<1>5. QED
  BY <1>1, <1>4 DEF PassInv

\* A search that is blocked: no equal CNOT behind the one that blocks it can be
\* reached, and a CNOT that waits is not the one at hand.
LEMMA BlockedPass ==
  ASSUME OptTypeOK, PassInv, Blocked
  PROVE  PassInv'
<1> DEFINE i == gInd
           m == gInd + gOff
<1>1. /\ pc = "search" /\ Reversed /\ ~canSwap(i, m)
      /\ pc' = "gate" /\ gInd' = gInd + 1 /\ G' = G /\ gNumBefore' = gNumBefore
  BY DEF Blocked, NextGate, Searching
<1>2. /\ G \in Seq(Gate) /\ i \in DOMAIN G /\ m \in DOMAIN G /\ i < m /\ IsCNOT(G[i])
      /\ DOMAIN G = 1 .. Len(G) /\ Len(G) \in Nat /\ gOff \in Nat
  BY PairInPlace DEF OptTypeOK, Blocked
<1>3. \A k \in DOMAIN G : G[k] \in Gate
  BY <1>2
<1>4. Mirror(G[i], G[m])
  BY <1>1, <1>2 DEF Reversed, Other, Mirror
<1>5. ~ifCommute(G[i], G[m]) /\ G[i] # G[m]
  BY <1>2, <1>3, <1>4, MirrorApart
<1>6. countGate(G) = gNumBefore => AllSearched' \/ OneWaits'
  <2>1. CASE AllSearched
    <3>1. ASSUME NEW f \in DOMAIN G, i < f PROVE Unmatched(G, i, f)
      <4>1. CASE f < m
        BY <1>1, <2>1, <3>1, <4>1 DEF AllSearched
      <4>2. CASE f = m
        BY <1>5, <4>2 DEF Unmatched
      <4>3. CASE f > m
        <5>1. m \in i + 1 .. f - 1
          BY <1>2, <4>3
        <5>2. QED
          BY <1>5, <5>1 DEF Unmatched, Between
      <4>4. QED
        BY <1>2, <4>1, <4>2, <4>3
    <3>2. DoneWith(G, i)
      BY <3>1 DEF DoneWith
    <3>3. \A k \in DOMAIN G : k < i + 1 => k < i \/ k = i
      BY <1>2
    <3>4. AllSearched'
      BY <1>1, <2>1, <3>2, <3>3 DEF AllSearched
    <3>5. QED
      BY <3>4
  <2>2. CASE OneWaits
    <3>1. PICK j, f \in DOMAIN G : /\ Waiting(G, j, f) /\ gInd <= j
                                   /\ j = gInd => gInd + gOff <= f
      BY <1>1, <2>2 DEF OneWaits
    <3>2. j # gInd
      <4>1. SUFFICES ASSUME j = gInd PROVE FALSE
        OBVIOUS
      <4>2. m <= f /\ Mirror(G[i], G[f]) /\ \A k \in i + 1 .. f - 1 : ifCommute(G[f], G[k])
        BY <3>1, <4>1 DEF Waiting
      <4>3. G[m] = G[f]
        BY <1>2, <1>3, <1>4, <4>2, MirrorUnique
      <4>4. \A k \in i + 1 .. m - 1 : k \in i + 1 .. f - 1
        BY <1>2, <4>2
      <4>5. \A k \in i + 1 .. m - 1 : ifCommute(G[m], G[k])
        BY <4>2, <4>3, <4>4
      <4> HIDE DEF i, m
      <4>6. canSwap(i, m)
        BY <1>2, <4>5, MeetSwap
      <4>7. QED
        BY <1>1, <4>6
    <3>3. gInd + 1 <= j
      BY <1>2, <3>1, <3>2
    <3>4. OneWaits'
      BY <1>1, <3>1, <3>3 DEF OneWaits
    <3>5. QED
      BY <3>4
  <2>3. QED
    BY <1>1, <2>1, <2>2 DEF PassInv
<1>7. QED
  BY <1>1, <1>6 DEF PassInv

\* What is less than another is not what bounds it.
LEMMA FewerThan ==
  ASSUME NEW a \in Nat, NEW b \in Nat, NEW c \in Nat, a < b, b <= c
  PROVE  a <= c /\ a # c
OBVIOUS

\* A pass that has erased a gate has nothing to show yet.
LEMMA ErasedPass ==
  ASSUME OptTypeOK, PassInv, pc \in {"gate", "search"}, pc' = "gate",
         G' \in Seq(Gate), DOMAIN G' = DOMAIN G, gNumBefore' = gNumBefore,
         NEW i \in DOMAIN G, G[i].gateTy # "", G'[i].gateTy = "",
         \A k \in DOMAIN G : G[k].gateTy = "" => G'[k].gateTy = ""
  PROVE  PassInv'
<1>1. G \in Seq(Gate) /\ gNumBefore \in Nat
  BY DEF OptTypeOK
<1>2. countGate(G') < countGate(G) /\ countGate(G') \in Nat /\ countGate(G) \in Nat
  BY <1>1, CountFalls, CountFinite
<1>3. countGate(G) <= gNumBefore
  BY DEF PassInv
<1>5. countGate(G') <= gNumBefore /\ countGate(G') # gNumBefore
  BY <1>1, <1>2, <1>3, FewerThan
<1>6. QED
  BY <1>5 DEF PassInv, countGate

\* Two equal CNOTs that are erased.
LEMMA CancelPass ==
  ASSUME OptTypeOK, PassInv, Cancel
  PROVE  PassInv'
<1> DEFINE i == gInd
           f == gInd + gOff
<1>1. /\ pc = "search" /\ pc' = "gate" /\ gNumBefore' = gNumBefore
      /\ G' = [G EXCEPT ![i] = None, ![f] = None]
  BY DEF Cancel, NextGate, Searching
<1>2. G \in Seq(Gate) /\ i \in DOMAIN G /\ f \in DOMAIN G /\ IsCNOT(G[i]) /\ i < f
  BY PairInPlace DEF OptTypeOK, Cancel
<1>3. G' \in Seq(Gate)
  BY CancelMeaning
<1> HIDE DEF i, f
<1>4. DOMAIN G' = DOMAIN G /\ G'[i] = None
  BY <1>1, <1>2
<1>5. \A k \in DOMAIN G : G'[k] = IF k = i \/ k = f THEN None ELSE G[k]
  BY <1>1, <1>2
<1>6. None.gateTy = "" /\ G[i].gateTy # ""
  BY <1>2 DEF None, IsCNOT
<1>7. \A k \in DOMAIN G : G[k].gateTy = "" => G'[k].gateTy = ""
  BY <1>5, <1>6
<1>8. QED
  BY <1>1, <1>2, <1>3, <1>4, <1>6, <1>7, ErasedPass

\* A CNOT that is merged.
LEMMA MergePass ==
  ASSUME OptTypeOK, PassInv, Merge
  PROVE  PassInv'
<1> DEFINE i == gInd
           f == gInd + gOff
<1>1. /\ pc = "search" /\ pc' = "gate" /\ gNumBefore' = gNumBefore
      /\ IsCNOT(G[f])
      /\ G' = [G EXCEPT ![i] = None,
                        ![f].target = G[f].control1, ![f].control1 = G[f].target]
  BY DEF Merge, NextGate, Searching, Reversed, Other
<1>2. G \in Seq(Gate) /\ i \in DOMAIN G /\ f \in DOMAIN G /\ IsCNOT(G[i]) /\ i < f
  BY PairInPlace DEF OptTypeOK, Merge
<1>3. G' \in Seq(Gate) /\ DOMAIN G' = DOMAIN G
  BY MergeType
<1> HIDE DEF i, f
<1>4. i # f
  BY <1>2
<1>5. G'[i] = None
  BY <1>1, <1>2, <1>4
<1>6. \A k \in DOMAIN G : k # i /\ k # f => G'[k] = G[k]
  BY <1>1, <1>2
<1>7. None.gateTy = "" /\ G[i].gateTy # "" /\ G[f].gateTy # ""
  BY <1>1, <1>2 DEF None, IsCNOT
<1>8. \A k \in DOMAIN G : G[k].gateTy = "" => G'[k].gateTy = ""
  BY <1>5, <1>6, <1>7
<1>9. QED
  BY <1>1, <1>2, <1>3, <1>5, <1>7, <1>8, ErasedPass

\* A CNOT that is moved: the gates after its new place are where they were, and
\* it commutes up to there with the one it will be merged with.
LEMMA MovePass ==
  ASSUME OptTypeOK, PassInv, Move
  PROVE  PassInv'
<1> DEFINE i == gInd
           f == gInd + gOff
           p == newPos(i, f)
<1>1. /\ pc = "search" /\ pc' = "gate" /\ gNumBefore' = gNumBefore /\ gInd' = i
      /\ canSwap(i, f) /\ Reversed /\ p # i /\ G' = ShiftedList(G, i, p)
      /\ gCount < OPT_THRESHOLD
  BY DEF Move, Shifted, ShiftedList, Searching
<1>0. InReach(G, i, f)
  BY <1>1 DEF PassInv, InReach
<1>2. G \in Seq(Gate) /\ i \in DOMAIN G /\ f \in DOMAIN G /\ i < f /\ IsCNOT(G[i])
  BY PairInPlace DEF OptTypeOK, Move
<1>3. Mirror(G[i], G[f])
  BY <1>1, <1>2 DEF Reversed, Other, Mirror
<1> HIDE DEF i, f
<1>4. p \in i .. f - 1 /\ \A k \in p + 1 .. f - 1 : ifCommute(G[f], G[k])
  BY <1>1, <1>2, SwapReach
<1> HIDE DEF p
<1>5. p \in DOMAIN G /\ i < p /\ p < f
  BY <1>1, <1>2, <1>4
<1>6. /\ G' \in Seq(Gate) /\ Len(G') = Len(G) /\ DOMAIN G' = DOMAIN G
      /\ \A k \in DOMAIN G : G'[k] = G[Origin(i, p, k)]
  BY <1>1, <1>2, <1>5, ShiftedParts
<1>7. countGate(G') = countGate(G)
  BY <1>1, <1>2, <1>5, ShiftedCountGate
<1>8. i \in Nat /\ p \in Nat /\ f \in Nat /\ DOMAIN G = 1 .. Len(G) /\ Len(G) \in Nat
  BY <1>2, <1>5
<1>9. G'[p] = G[i] /\ \A k \in DOMAIN G : p < k => G'[k] = G[k]
  BY <1>5, <1>6, <1>8 DEF Origin
<1>10. \A k \in p + 1 .. f - 1 : k \in DOMAIN G /\ p < k
  BY <1>2, <1>5, <1>8
<1>11. Waiting(G', p, f)
  <2>1. \A k \in p + 1 .. f - 1 : ifCommute(G'[f], G'[k])
    BY <1>2, <1>4, <1>5, <1>9, <1>10
  <2>2. Mirror(G'[p], G'[f])
    BY <1>2, <1>3, <1>5, <1>9
  <2>3. InReach(G', p, f)
    <3>1. Met(G', p, f) \in SUBSET Met(G, i, f)
      <4>1. SUFFICES ASSUME NEW k \in Met(G', p, f) PROVE k \in Met(G, i, f)
        OBVIOUS
      <4>2. k \in DOMAIN G /\ p + 1 < k /\ k <= f /\ shareBit(G'[p], G'[k])
        BY <1>6, <4>1 DEF Met
      <4>3. p < k /\ i + 1 < k
        BY <1>5, <1>8, <4>2
      <4>4. G'[k] = G[k] /\ G'[p] = G[i]
        BY <1>9, <4>2, <4>3
      <4>5. QED
        BY <4>2, <4>3, <4>4 DEF Met
    <3>2. /\ IsFiniteSet(Met(G, i, f)) /\ Cardinality(Met(G, i, f)) \in Nat
          /\ Cardinality(Met(G', p, f)) \in Nat
      BY <1>2, <1>6, MetFinite
    <3>3. Cardinality(Met(G', p, f)) <= Cardinality(Met(G, i, f))
      BY <3>1, <3>2, FS_Subset
    <3>4. QED
      BY <1>0, <3>2, <3>3, ThresholdAssumption DEF InReach
  <2>4. QED
    BY <1>2, <1>5, <1>6, <2>1, <2>2, <2>3 DEF Waiting
<1>12. OneWaits'
  <2>1. \E j, h \in DOMAIN G' : Waiting(G', j, h) /\ i <= j
    BY <1>2, <1>5, <1>6, <1>8, <1>11
  <2>2. \E j, h \in DOMAIN G' :
            /\ Waiting(G', j, h) /\ gInd' <= j
            /\ pc' = "search" /\ j = gInd' => gInd' + gOff' <= h
    BY <1>1, <2>1
  <2>3. QED
    BY <2>2 DEF OneWaits, Waiting, Mirror, ifCommute, InReach, Met
<1>13. countGate(G) <= gNumBefore
  BY <1>1 DEF PassInv
<1>14. QED
  BY <1>1, <1>7, <1>12, <1>13 DEF PassInv, countGate

\* A search that goes on has seen that the gate it passes is not to be cancelled,
\* and is not the one that the gate at hand waits for.
LEMMA NextOffsetPass ==
  ASSUME OptTypeOK, PassInv, NextOffset
  PROVE  PassInv'
<1> DEFINE i == gInd
           m == gInd + gOff
<1>1. /\ pc = "search" /\ pc' = pc /\ gInd' = gInd /\ G' = G /\ gNumBefore' = gNumBefore
      /\ gOff' = gOff + 1
      /\ gCount' = IF gInd + (gOff + 1) <= Len(G) /\ shareBit(G[gInd], G[gInd + (gOff + 1)])
                   THEN gCount + 1 ELSE gCount
      /\ ~Reversed /\ (Equal => ~canSwap(i, m))
  BY DEF NextOffset, Searching
<1>2. /\ G \in Seq(Gate) /\ i \in DOMAIN G /\ m \in DOMAIN G /\ i < m /\ IsCNOT(G[i])
      /\ DOMAIN G = 1 .. Len(G) /\ Len(G) \in Nat /\ gOff \in Nat /\ gCount \in Nat
  BY PairInPlace DEF OptTypeOK, NextOffset
<1>3. G[i] = G[m] => ~canSwap(i, m)
  BY <1>1, <1>2 DEF Equal, Other
<1>4. Unmatched(G, i, m)
  <2> HIDE DEF i, m
  <2>1. QED
    BY <1>2, <1>3, NoSwapUnmatched
<1>5. gCount' = Cardinality(Met(G, i, i + (gOff + 1)))
  <2>1. gCount = Cardinality(Met(G, i, m))
    BY <1>1 DEF PassInv
  <2> DEFINE l == i + (gOff + 1)
  <2>2. l \in Nat /\ l = m + 1 /\ i \in Nat /\ m \in Nat /\ i + 1 < l
    BY <1>2
  <2>3. gCount' = IF l <= Len(G) /\ shareBit(G[i], G[l]) THEN gCount + 1 ELSE gCount
    BY <1>1
  <2> HIDE DEF i, m, l
  <2>4. CASE l \in DOMAIN G /\ shareBit(G[i], G[l])
    <3>1. \A k \in DOMAIN G : k <= l <=> k <= m \/ k = l
      BY <1>2, <2>2
    <3>2. Met(G, i, l) = Met(G, i, m) \cup {l}
      <4>1. \A k : k \in Met(G, i, l) <=> k \in Met(G, i, m) \/ k = l
        BY <2>2, <2>4, <3>1 DEF Met
      <4>2. QED
        BY <4>1
    <3>3. l \notin Met(G, i, m)
      BY <2>2 DEF Met
    <3>4. IsFiniteSet(Met(G, i, m))
      BY <1>2, MetFinite
    <3>5. Cardinality(Met(G, i, l)) = Cardinality(Met(G, i, m)) + 1
      BY <3>2, <3>3, <3>4, FS_AddElement
    <3>6. QED
      BY <1>2, <2>1, <2>2, <2>3, <2>4, <3>5 DEF l
  <2>5. CASE ~(l \in DOMAIN G /\ shareBit(G[i], G[l]))
    <3>1. \A k \in DOMAIN G : k <= l <=> k <= m \/ k = l
      BY <1>2, <2>2
    <3>2. Met(G, i, l) = Met(G, i, m)
      <4>1. \A k : k \in Met(G, i, l) <=> k \in Met(G, i, m)
        BY <2>2, <2>5, <3>1 DEF Met
      <4>2. QED
        BY <4>1
    <3>3. ~(l <= Len(G) /\ shareBit(G[i], G[l]))
      BY <1>2, <2>2, <2>5
    <3>4. QED
      BY <2>1, <2>3, <3>2, <3>3 DEF l
  <2>6. QED
    BY <2>4, <2>5
<1>6. countGate(G) = gNumBefore => AllSearched' \/ OneWaits'
  <2>1. CASE AllSearched
    <3>1. ASSUME NEW f \in DOMAIN G, i < f, f < i + (gOff + 1) PROVE Unmatched(G, i, f)
      <4>1. CASE f < m
        BY <1>1, <2>1, <3>1, <4>1 DEF AllSearched
      <4>2. CASE f = m
        BY <1>4, <4>2
      <4>3. QED
        BY <1>2, <3>1, <4>1, <4>2
    <3>2. AllSearched'
      BY <1>1, <2>1, <3>1 DEF AllSearched
    <3>3. QED
      BY <3>2
  <2>2. CASE OneWaits
    <3>1. PICK j, f \in DOMAIN G : /\ Waiting(G, j, f) /\ gInd <= j
                                   /\ j = gInd => gInd + gOff <= f
      BY <1>1, <2>2 DEF OneWaits
    <3>2. ASSUME j = gInd PROVE gInd + (gOff + 1) <= f
      <4>1. f # m
        BY <1>1, <3>1, <3>2 DEF Waiting, Mirror, Reversed, Other
      <4>2. QED
        BY <1>2, <3>1, <3>2, <4>1
    <3>3. OneWaits'
      BY <1>1, <3>1, <3>2 DEF OneWaits
    <3>4. QED
      BY <3>3
  <2>3. QED
    BY <1>1, <2>1, <2>2 DEF PassInv
<1>7. QED
  BY <1>1, <1>5, <1>6 DEF PassInv

\* At the end of a pass nothing waits any more: if it has erased nothing, every
\* gate is done with.
LEMMA EndPassPass ==
  ASSUME OptTypeOK, PassInv, EndPass
  PROVE  PassInv'
<1>1. /\ pc = "gate" /\ gInd > Len(G) /\ gInd' = 1 /\ G' = G /\ gNumBefore' = countGate(G)
      /\ pc' = IF countGate(G) = gNumBefore THEN "over" ELSE "gate"
  BY DEF EndPass
<1>2. /\ gInd \in Nat /\ DOMAIN G = 1 .. Len(G) /\ Len(G) \in Nat /\ G \in Seq(Gate)
  BY DEF OptTypeOK
<1>3. ~OneWaits
  BY <1>1, <1>2 DEF OneWaits
<1>4. \A i \in DOMAIN G : i < gInd
  BY <1>1, <1>2
<1>5. CASE countGate(G) = gNumBefore
  <2>1. \A i \in DOMAIN G : DoneWith(G, i)
    BY <1>1, <1>3, <1>4, <1>5 DEF PassInv, AllSearched
  <2>2. pc' = "over"
    BY <1>1, <1>5
  <2>3. QED
    BY <1>1, <2>1, <2>2 DEF PassInv
<1>6. CASE countGate(G) # gNumBefore
  <2>1. \A i \in DOMAIN G : ~(i < 1)
    BY <1>2
  <2>2. pc' = "gate"
    BY <1>1, <1>6
  <2>3. AllSearched'
    BY <1>1, <2>1, <2>2 DEF AllSearched
  <2>4. countGate(G) \in Nat /\ countGate(G)' = countGate(G)
    BY <1>1, <1>2, CountFinite DEF countGate
  <2>5. countGate(G)' <= gNumBefore'
    BY <1>1, <2>4
  <2>6. QED
    BY <1>1, <2>2, <2>3, <2>5 DEF PassInv
<1>7. QED
  BY <1>5, <1>6

\* A pass begins with the number of gates of the source.
LEMMA PassInit ==
  ASSUME Init
  PROVE  PassInv
<1>1. /\ source \in Circuits /\ G = source /\ pc = "gate" /\ gInd = 1
      /\ gNumBefore = Len(source)
  BY DEF Init
<1>2. G \in Seq(Gate)
  BY MeaningInit DEF MeaningInv, OptTypeOK
<1>3. countGate(G) <= gNumBefore
  BY <1>1, <1>2, CountFinite
<1>4. AllSearched
  <2>1. \A i \in DOMAIN G : ~(i < 1)
    BY <1>2
  <2>2. QED
    BY <1>1, <2>1 DEF AllSearched
<1>5. QED
  BY <1>1, <1>3, <1>4 DEF PassInv

\* Every step keeps it.
LEMMA PassStep == OptTypeOK /\ PassInv /\ [Next]_vars => PassInv'
<1> SUFFICES ASSUME OptTypeOK, PassInv, [Next]_vars PROVE PassInv'
  OBVIOUS
<1>1. CASE UNCHANGED vars
  BY <1>1 DEF vars, PassInv, AllSearched, OneWaits, countGate, Met
<1>2. CASE SkipGate
  BY <1>2, SkipPass
<1>3. CASE StartSearch
  BY <1>3, StartPass
<1>4. CASE GiveUp
  BY <1>4, GiveUpPass
<1>5. CASE Crash
  <2>1. G' = G /\ pc' = "crashed"
    BY <1>5 DEF Crash
  <2>2. QED
    BY <2>1 DEF PassInv
<1>6. CASE Cancel
  BY <1>6, CancelPass
<1>7. CASE Blocked
  BY <1>7, BlockedPass
<1>8. CASE Move
  BY <1>8, MovePass
<1>9. CASE Merge
  BY <1>9, MergePass
<1>10. CASE NextOffset
  BY <1>10, NextOffsetPass
<1>11. CASE EndPass
  BY <1>11, EndPassPass
<1>12. CASE Ended
  BY <1>1, <1>12 DEF Ended
<1>13. QED
  BY <1>1, <1>2, <1>3, <1>4, <1>5, <1>6, <1>7, <1>8, <1>9, <1>10, <1>11, <1>12 DEF Next

\* When the passes are over no pair of equal CNOTs is left that canSwap() would
\* bring together, in whatever circuit, as far as a search goes from the first.
THEOREM NothingLeftHolds == Spec => []NothingLeftToCancel
<1>1. Init => PassInv
  BY PassInit
<1>2. MeaningInv => OptTypeOK
  BY DEF MeaningInv
<1>3. MeaningInv /\ PassInv => NothingLeftToCancel
  <2>1. SUFFICES ASSUME MeaningInv, PassInv, pc = "over",
                        NEW i \in DOMAIN G, NEW j \in DOMAIN G, i < j,
                        IsCNOT(G[i]), G[i] = G[j], Cardinality(Met(G, i, j)) < OPT_THRESHOLD
                 PROVE  ~canSwap(i, j)
    BY DEF NothingLeftToCancel
  <2>2. G \in Seq(Gate)
    BY <2>1, <1>2 DEF OptTypeOK
  <2>3. Unmatched(G, i, j)
    BY <2>1 DEF PassInv, DoneWith, InReach
  <2>4. QED
    BY <2>1, <2>2, <2>3, NoSwapUnmatched
<1>4. QED
  BY <1>1, <1>2, <1>3, MeaningInit, MeaningStep, PassStep, PTL DEF Spec
=============================================================================
