-------------------------------- MODULE Optimize --------------------------------
(***************************************************************************)
(* llvm/lib/Transforms/Scaffold/Optimize.cpp: passes over the gates of a   *)
(* flattened main() that cancel equal CNOTs and merge a CNOT with the one  *)
(* that has control and target exchanged, when the gates between them      *)
(* commute.                                                                *)
(*                                                                         *)
(* Lists count from 1 here and from 0 in the code.  indMap, the renaming   *)
(* of qubits after a merge, is left out: it stays the identity, as the     *)
(* merge erases the gate before it reads from it which entries to exchange *)
(* (1327-1333).                                                            *)
(***************************************************************************)
EXTENDS GateMeaning

CONSTANTS
    Circuits,       \* lists of gates to optimise
    OPT_THRESHOLD   \* gates sharing a qubit after which a search gives up

\* Of a measurement in X the model does not speak.
GateTypes == {"h", "c", "o", "s", "S", "t", "T", "x", "z", "Z", "r", "m", "n"}
None == [gateTy |-> "", target |-> 0, control1 |-> 0, control2 |-> 0]
OpGate ==
    [gateTy : GateTypes \cup {""}, target : 0 .. NumQubits,
     control1 : 0 .. NumQubits, control2 : 0 .. NumQubits]

IsCNOT(g) == g.gateTy = "c"
Controlled(g) == g.gateTy \in {"c", "o"}

\* A gate acts on qubits of the register; optimal_initial leaves the controls
\* at 0 that the gate does not have, and the type of a gate it does not know
\* empty (1203).
OnQubits(g) ==
    /\ g.target \in 1 .. NumQubits
    /\ Controlled(g) => g.control1 \in (1 .. NumQubits) \ {g.target}
    /\ IF g.gateTy = "o" THEN g.control2 \in (1 .. NumQubits) \ {g.target}
                         ELSE g.control2 = 0
SourceGate == {g \in OpGate : OnQubits(g)}

ASSUME CircuitsAssumption == Circuits \subseteq Seq(SourceGate)
ASSUME ThresholdAssumption == OPT_THRESHOLD \in Nat /\ NumQubits \in Nat

VARIABLES
    source,         \* the circuit as it was
    G,              \* the gates
    pc,             \* where the pass is
    gInd,           \* gate at hand
    gOff,           \* distance of the gate it is compared with
    gCount,         \* gates met that share a qubit with it
    gNumBefore,     \* gates left before this pass
    merged          \* whether a pair was merged

vars == <<source, G, pc, gInd, gOff, gCount, gNumBefore, merged>>

-----------------------------------------------------------------------------
(* Commutation.                                                            *)

PhaseGate(g) == g.gateTy \in {"t", "s", "S", "T"}
Controls(g) == {g.control1, g.control2}

\* Faulty variant: a phase gate commutes with the target as well.
CommutesWith_target(single, ctl) ==
    \/ single.target \notin {ctl.target} \cup Controls(ctl)
    \/ PhaseGate(single)

\* A gate on one qubit against a CNOT or Toffoli.
CommutesWith(single, ctl) ==
    \/ single.target \notin {ctl.target} \cup Controls(ctl)
    \/ PhaseGate(single) /\ single.target # ctl.target

ifCommute(g1, g2) ==
    \/ g1.gateTy = "" \/ g2.gateTy = ""
    \/ /\ ~Controlled(g1) /\ ~Controlled(g2)
       /\ g1.target # g2.target \/ (PhaseGate(g1) /\ PhaseGate(g2))
    \/ ~Controlled(g1) /\ Controlled(g2) /\ CommutesWith(g1, g2)
    \/ Controlled(g1) /\ ~Controlled(g2) /\ CommutesWith(g2, g1)
    \/ /\ Controlled(g1) /\ Controlled(g2)
       /\ g1.target \notin Controls(g2) /\ g2.target \notin Controls(g1)

Qubits(g) == {g.target, g.control1, g.control2} \ {0}
shareBit(g1, g2) == Qubits(g1) \cap Qubits(g2) # {}

\* canSwap: how far the gate at i can move right, and the gate at f left.
Right(i, f) ==
    CHOOSE j \in i .. f :
        /\ \A k \in i + 1 .. j : ifCommute(G[i], G[k])
        /\ j < f => ~ifCommute(G[i], G[j + 1])
Left(i, f) ==
    CHOOSE j \in i .. f :
        /\ \A k \in j .. f - 1 : ifCommute(G[f], G[k])
        /\ j > i => ~ifCommute(G[f], G[j - 1])

\* They can be brought side by side, the first of them at newPos.
canSwap(i, f) == Right(i, f) >= Left(i, f) - 1
newPos(i, f) == IF Left(i, f) - 1 >= i THEN Left(i, f) - 1 ELSE i

\* The search to the left of the first gate of the list does not stop there:
\* its unsigned index wraps around and the read fails.
RunsOver(i, f) == i = 1 /\ \A k \in i .. f - 1 : ifCommute(G[f], G[k])

countGate(gates) == Cardinality({i \in DOMAIN gates : gates[i].gateTy # ""})

-----------------------------------------------------------------------------
(* One pass.                                                               *)

Init ==
    /\ source \in Circuits
    /\ G = source
    /\ pc = "gate"
    /\ gInd = 1 /\ gOff = 1 /\ gCount = 0
    /\ gNumBefore = Len(source)
    /\ merged = FALSE

NextGate ==
    /\ pc' = "gate"
    /\ gInd' = gInd + 1
    /\ UNCHANGED <<source, gOff, gCount, gNumBefore>>

\* Only a CNOT starts a search.
SkipGate ==
    /\ pc = "gate" /\ gInd <= Len(G)
    /\ ~IsCNOT(G[gInd])
    /\ NextGate
    /\ UNCHANGED <<G, merged>>

StartSearch ==
    /\ pc = "gate" /\ gInd <= Len(G)
    /\ IsCNOT(G[gInd])
    /\ pc' = "search" /\ gOff' = 1 /\ gCount' = 0
    /\ UNCHANGED <<source, G, gInd, gNumBefore, merged>>

Other == G[gInd + gOff]
Searching == pc = "search" /\ gInd + gOff <= Len(G) /\ gCount < OPT_THRESHOLD

Equal == IsCNOT(Other) /\ Other = G[gInd]
Reversed ==
    /\ IsCNOT(Other)
    /\ Other.target = G[gInd].control1 /\ Other.control1 = G[gInd].target

\* The loop over the offsets ends without a pair.
GiveUp ==
    /\ pc = "search" /\ ~Searching
    /\ NextGate
    /\ UNCHANGED <<G, merged>>

\* canSwap is only called for a pair.
Crash ==
    /\ Searching /\ (Equal \/ Reversed)
    /\ RunsOver(gInd, gInd + gOff)
    /\ pc' = "crashed"
    /\ UNCHANGED <<source, G, gInd, gOff, gCount, gNumBefore, merged>>

\* Two equal CNOTs side by side are nothing.
Cancel ==
    /\ Searching /\ Equal
    /\ canSwap(gInd, gInd + gOff) /\ ~RunsOver(gInd, gInd + gOff)
    /\ G' = [G EXCEPT ![gInd] = None, ![gInd + gOff] = None]
    /\ NextGate
    /\ UNCHANGED merged

\* The pair cannot be brought together: the search ends.
Blocked ==
    /\ Searching /\ Reversed
    /\ ~canSwap(gInd, gInd + gOff) /\ ~RunsOver(gInd, gInd + gOff)
    /\ NextGate
    /\ UNCHANGED <<G, merged>>

\* The first CNOT moves to the right, and the gate now in its place is next.
Shifted(i, j) ==
    [k \in DOMAIN G |-> IF k \in i .. j - 1 THEN G[k + 1]
                        ELSE IF k = j THEN G[i] ELSE G[k]]

Move ==
    /\ Searching /\ Reversed
    /\ canSwap(gInd, gInd + gOff) /\ ~RunsOver(gInd, gInd + gOff)
    /\ newPos(gInd, gInd + gOff) # gInd
    /\ G' = Shifted(gInd, newPos(gInd, gInd + gOff))
    /\ pc' = "gate"
    /\ UNCHANGED <<source, gInd, gOff, gCount, gNumBefore, merged>>

\* It already stands in its place: it is erased and the other one reversed.
Merge ==
    /\ Searching /\ Reversed
    /\ canSwap(gInd, gInd + gOff) /\ ~RunsOver(gInd, gInd + gOff)
    /\ newPos(gInd, gInd + gOff) = gInd
    /\ G' = [G EXCEPT ![gInd] = None,
                      ![gInd + gOff].target = Other.control1,
                      ![gInd + gOff].control1 = Other.target]
    /\ merged' = TRUE
    /\ NextGate

\* No pair, or an equal one that cannot be brought together.  (The test for
\* a shared qubit reads past the end after the last gate, when gCount no
\* longer matters.)
NextOffset ==
    /\ Searching /\ ~Reversed
    /\ ~(Equal /\ (canSwap(gInd, gInd + gOff) \/ RunsOver(gInd, gInd + gOff)))
    /\ gOff' = gOff + 1
    /\ gCount' = IF gInd + gOff' <= Len(G) /\ shareBit(G[gInd], G[gInd + gOff'])
                 THEN gCount + 1 ELSE gCount
    /\ UNCHANGED <<source, G, pc, gInd, gNumBefore, merged>>

\* Faulty variants: one pass only, and the number of gates of the source.
EndPass_once ==
    /\ pc = "gate" /\ gInd > Len(G)
    /\ pc' = "over"
    /\ gInd' = 1
    /\ UNCHANGED <<source, G, gOff, gCount, gNumBefore, merged>>
EndPass_stale ==
    /\ pc = "gate" /\ gInd > Len(G)
    /\ pc' = IF countGate(G) = gNumBefore THEN "over" ELSE "gate"
    /\ gInd' = 1
    /\ UNCHANGED <<source, G, gOff, gCount, gNumBefore, merged>>

\* runOnModule: passes until one leaves the number of gates as it was.
EndPass ==
    /\ pc = "gate" /\ gInd > Len(G)
    /\ pc' = IF countGate(G) = gNumBefore THEN "over" ELSE "gate"
    /\ gNumBefore' = countGate(G)
    /\ gInd' = 1
    /\ UNCHANGED <<source, G, gOff, gCount, merged>>

Ended == pc \in {"over", "crashed"} /\ UNCHANGED vars

Next ==
    \/ SkipGate \/ StartSearch \/ GiveUp
    \/ Crash \/ Cancel \/ Blocked \/ Move \/ Merge \/ NextOffset
    \/ EndPass \/ Ended

Spec == Init /\ [][Next]_vars
FairSpec == Spec /\ WF_vars(Next)

-----------------------------------------------------------------------------
(* Properties.                                                             *)

\* As long as no pair was merged, the gates do what the source does, also in
\* the middle of a pass: ifCommute (1065) lets no gate past another that it
\* does not commute with, and canSwap (1041) combines the two directions.
MeaningKept == G # source /\ ~merged => SameMeaning(G, source)

\* The passes leave no pair of equal CNOTs that could be brought together, but
\* where a search gives up before it is there: gCount then counts the gates from
\* the second one on (1338-1339) that share a qubit with the first.
Met(gates, i, f) ==
    {k \in DOMAIN gates : i + 1 < k /\ k <= f /\ shareBit(gates[i], gates[k])}
NothingLeftToCancel ==
    pc = "over" =>
        \A i, j \in DOMAIN G :
            /\ i < j /\ IsCNOT(G[i]) /\ G[i] = G[j]
            /\ Cardinality(Met(G, i, j)) < OPT_THRESHOLD
            => ~canSwap(i, j)

\* No two CNOTs of the source are each other's reverse.
OneDirection ==
    \A i, j \in DOMAIN source :
        IsCNOT(source[i]) /\ IsCNOT(source[j]) =>
            ~(source[i].target = source[j].control1
                /\ source[i].control1 = source[j].target)

\* Then the passes end.
PassesEnd == OneDirection ~> pc \in {"over", "crashed"}

\* "Generate optimized QASM": the output does what the input does.
OutputEquivalent == pc = "over" => SameMeaning(G, source)
=============================================================================
