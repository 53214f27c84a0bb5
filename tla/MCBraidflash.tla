--------------------------- MODULE MCBraidflash ----------------------------
(***************************************************************************)
(* Instances of Braidflash for TLC.  A module of sixteen qubits makes a    *)
(* lattice of four by four tiles and one of twenty-five five by five, when *)
(* the factories take no tile (Bravyi-Haah): every tile is a data qubit.   *)
(* The gates are on the inner tiles, where braids have the most choice.    *)
(***************************************************************************)
EXTENDS Braidflash

Data == {5, 6, 9, 10}

CNOT(src, dest) == [op |-> "CNOT", qid |-> <<src, dest>>]
H(q) == [op |-> "H", qid |-> <<q>>]

DataCNOTs == {CNOT(s, d) : s \in Data, d \in Data} \ {CNOT(q, q) : q \in Data}

PairPrograms == {<<a, b>> : a \in DataCNOTs, b \in DataCNOTs}

\* Two equal CNOTs and one across them drop each other for ever when
\* attempt_th_drop is 0; two CNOTs in any place on the inner tiles; a chain of
\* gates that at code distance 0 begins well and then stalls.
ThrashingPrograms == {<<CNOT(5, 10), CNOT(5, 10), CNOT(9, 6)>>,
                      <<H(5), CNOT(5, 10), CNOT(10, 6)>>} \union PairPrograms

-----------------------------------------------------------------------------
(* The inner three by three of five by five tiles *)

WideData == {6, 7, 8, 11, 12, 13, 16, 17, 18}

WideCNOTs == {CNOT(s, d) : s \in WideData, d \in WideData}
               \ {CNOT(q, q) : q \in WideData}

\* From corner to corner: the XY and YX routes differ.
LongCNOTs == {CNOT(6, 18), CNOT(18, 6), CNOT(8, 16), CNOT(16, 8)}

\* What main() makes of an S and of a T gate: one data qubit and its port.
\* Four ports (kY = kA = 4) are on tiles 13, 11, 6 and 8.
SGates(q, y) == <<CNOT(q, y), H(y), CNOT(q, y), H(y)>>
TGates(q, a) == <<CNOT(a, q), CNOT(q, a), CNOT(a, q), CNOT(q, a)>>

\* Data qubits that share a port, or whose braids to their ports cross.
MagicPrograms == {SGates(12, 13) \o SGates(14, 13), TGates(7, 6) \o TGates(1, 6),
                  TGates(7, 6) \o TGates(9, 8), <<H(12)>> \o SGates(12, 13),
                  <<CNOT(18, 6)>> \o TGates(14, 13)}

\* Two long CNOTs with any other between them.
ContendedPrograms == {<<a, b, c>> : a \in LongCNOTs, b \in WideCNOTs,
                                    c \in LongCNOTs} \union MagicPrograms

=============================================================================
