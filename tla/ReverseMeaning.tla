---------------------------- MODULE ReverseMeaning ----------------------------
(***************************************************************************)
(* What the functions of a module do, as the list of the gates they apply, *)
(* before and after the pass FunctionReverse.  Measurements and            *)
(* preparations undo nothing and are not spoken of.                        *)
(***************************************************************************)
EXTENDS Reverse, SequencesExt

\* The gate that undoes a gate; of rotations the properties do not speak.
Undoing(gate) ==
    CASE gate = "S" -> "Sdag" [] gate = "Sdag" -> "S"
      [] gate = "T" -> "Tdag" [] gate = "Tdag" -> "T"
      [] OTHER -> gate

Undone(gates) == [i \in DOMAIN gates |-> Undoing(gates[Len(gates) + 1 - i])]

\* Gates of a call, when g has those of the functions of the module; a function
\* without a body counts as one.
GatesOfCall(g, c) ==
    LET gates == IF c.to \in DOMAIN g THEN g[c.to] ELSE <<c.to.base>>
    IN  IF Odd(c.prefix) THEN Undone(gates) ELSE gates

\* One function's gates, from those of the functions that it calls.
Unfolded(b, g, f) ==
    FlattenSeq([i \in DOMAIN Calls(b[f]) |-> GatesOfCall(g, Calls(b[f])[i])])

\* The gates of each function of a module with the bodies b, down to a depth of
\* so many functions that call one another.
GatesOf(b, depth) ==
    LET gates[n \in 0 .. depth] ==
            [f \in DOMAIN b |-> IF n = 0 THEN <<>> ELSE Unfolded(b, gates[n - 1], f)]
    IN  gates[depth]

\* No chain of calls is longer (Acyclic).
Deepest == Len(source.functions) + 1

SameGates ==
    LET does  == GatesOf(body, Deepest)
        meant == GatesOf(source.body, Deepest)
    IN  \A f \in DOMAIN source.body : does[f] = meant[f]

Reversed == {f \in DOMAIN body : Rev(f) \in DOMAIN body}
OneBlockEach == \A f \in Reversed : body[f].rest = <<>>
NoTurns ==
    \A f \in DOMAIN body : \A i \in DOMAIN Calls(body[f]) :
        Calls(body[f])[i].to.base \notin Turns

-----------------------------------------------------------------------------
\* The functions do what the source says, _reverse_f the inverse of f,
\* where what is inverted has no rotations and one basic block.
MeaningKept == pc = "done" /\ OneBlockEach /\ NoTurns => SameGates
=============================================================================
