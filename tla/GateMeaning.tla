------------------------------ MODULE GateMeaning ------------------------------
(***************************************************************************)
(* What a list of gates does to a register, as a sum over paths.  A basis  *)
(* state goes to one basis state with a phase of n/8 turns, except at an H *)
(* gate and a preparation in X, whose outcome is a free bit.  Two lists    *)
(* with the same outcome for every input and all free bits are the same    *)
(* transformation.  The bits that are measured, lost in a preparation or   *)
(* seen by a rotation, whose angle is left open, are part of the outcome.  *)
(***************************************************************************)
EXTENDS Integers, Sequences, FiniteSets

CONSTANT NumQubits

Bit == 0 .. 1
Register == [1 .. NumQubits -> Bit]
State ==
    [bits : Register, phase : 0 .. 7,
     used : [1 .. NumQubits -> Nat],            \* free bits of each qubit so far
     seen : [1 .. NumQubits -> Seq(Bit)]]       \* bits recorded of it

Phase(st, n) == [st EXCEPT !.phase = (@ + n) % 8]
Flip(st, q, b) == [st EXCEPT !.bits[q] = (@ + b) % 2]
Record(st, q) == [st EXCEPT !.seen[q] = Append(@, st.bits[q])]
Split(st, q, b) == [st EXCEPT !.bits[q] = b, !.used[q] = @ + 1]

Apply(g, st, free) ==
    LET t == g.target
        b == st.bits
        next == free[<<t, st.used[t] + 1>>] IN
    CASE g.gateTy = "c" -> Flip(st, t, b[g.control1])
      [] g.gateTy = "o" -> Flip(st, t, b[g.control1] * b[g.control2])
      [] g.gateTy = "x" -> Flip(st, t, 1)
      [] g.gateTy = "m" -> [Record(st, t) EXCEPT !.bits[t] = 0]
      [] g.gateTy \in {"Z", "r"} -> Record(st, t)
      [] g.gateTy = "t" -> Phase(st, b[t])
      [] g.gateTy = "T" -> Phase(st, 7 * b[t])
      [] g.gateTy = "s" -> Phase(st, 2 * b[t])
      [] g.gateTy = "S" -> Phase(st, 6 * b[t])
      [] g.gateTy = "z" -> Phase(st, 4 * b[t])
      [] g.gateTy = "h" -> Split(Phase(st, 4 * b[t] * next), t, next)
      [] g.gateTy = "n" -> Split(Record(st, t), t, next)
      [] OTHER -> st

Start(input) ==
    [bits |-> input, phase |-> 0,
     used |-> [q \in 1 .. NumQubits |-> 0], seen |-> [q \in 1 .. NumQubits |-> <<>>]]

Outcome(gates, input, free) ==
    LET after[k \in 0 .. Len(gates)] ==
            IF k = 0 THEN Start(input) ELSE Apply(gates[k], after[k - 1], free)
    IN  after[Len(gates)]

\* The free bits of a list: one for each gate that has an open outcome.
Splits(gates, q) == {k \in DOMAIN gates : gates[k].gateTy \in {"h", "n"} /\ gates[k].target = q}
FreeBits(gates) ==
    UNION {{q} \X (1 .. Cardinality(Splits(gates, q))) : q \in 1 .. NumQubits}

SameMeaning(g1, g2) ==
    /\ FreeBits(g1) = FreeBits(g2)
    /\ \A input \in Register : \A free \in [FreeBits(g1) -> Bit] :
           Outcome(g1, input, free) = Outcome(g2, input, free)
=============================================================================
