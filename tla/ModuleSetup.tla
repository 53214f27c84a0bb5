---------------------------- MODULE ModuleSetup ----------------------------
(***************************************************************************)
(* How main() of braidflash.cpp prepares a module for simulation: it       *)
(* chooses the lattice and where Y and A states come from, renumbers the   *)
(* data qubits and turns each S and T gate into a few CNOT and H gates     *)
(* with the closest port.  With --periphery the ports stand along the      *)
(* sides of a lattice with two more rows and columns; without it, blocks   *)
(* of factory tiles stand in the middle of a larger lattice.               *)
(***************************************************************************)
EXTENDS Integers, Sequences, FiniteSets, SequencesExt

CONSTANTS
  Modules,                   (* what parse_LPFS may leave: records of a gate *)
                             (* list and the number of its qubits            *)
  Peripheries,               (* values of --periphery *)
  Factories,                 (* records of the factories' tiles, numbers and *)
                             (* ports per factory                            *)
  rows_to_Y_factory_ratio,   (* rows between two Y ports *)
  cols_to_A_factory_ratio    (* columns between two A ports *)

Ops == {"CNOT", "H", "S", "Sdag", "T", "Tdag"}

IsParsedGate(g, q_count) ==
  /\ g.op \in Ops
  /\ g.qid \in Seq(0 .. q_count - 1)
  /\ IF g.op = "CNOT" THEN Len(g.qid) = 2 /\ g.qid[1] # g.qid[2]
                      ELSE Len(g.qid) = 1

ASSUME ModulesAssumption ==
  \A m \in Modules :
    /\ m.q_count \in Nat \ {0, 1}     \* a 1 x 1 module is skipped
    /\ m.gates \in Seq(Range(m.gates))
    /\ \A i \in DOMAIN m.gates : IsParsedGate(m.gates[i], m.q_count)

ASSUME LayoutAssumption ==
  /\ Peripheries \subseteq BOOLEAN
  \* The ports of a factory are the capacity divided by the number.
  /\ Factories \subseteq [Y_area : Nat, A_area : Nat, num_Y : Nat \ {0},
                          num_A : Nat \ {0}, Y_ports : Nat, A_ports : Nat]
  /\ rows_to_Y_factory_ratio \in Nat
  /\ cols_to_A_factory_ratio \in Nat

VARIABLES
  module,         (* the module as parsed *)
  periphery,
  factories,      (* single_Y_area, num_Y_factories, single_Y_ports and for A *)
  num_rows,
  num_cols,
  i,              (* the loop variable of the placement loops *)
  Y_state_ids,    (* the tiles of the Y ports, in the order they were placed *)
  A_state_ids,
  factory_block,  (* factory_block_set: tiles of the blocks in the middle *)
  next,           (* the next parsed gate to update *)
  seq,            (* the last sequence number given *)
  kept,           (* the parsed gates kept, with their operands renumbered *)
  to_push_gates,  (* the gates that replace S and T gates *)
  pc

inputs == <<module, periphery, factories, num_rows, num_cols>>
ports  == <<Y_state_ids, A_state_ids, factory_block>>
gates  == <<next, seq, kept, to_push_gates>>
vars   == <<inputs, i, ports, gates, pc>>

-----------------------------------------------------------------------------
(* Lattices and blocks *)

\* The smallest square of q tiles, without its last column when that is not
\* needed.  Of no tiles: no row, and 2^32 - 1 columns, for which -1 stands.
GridRows(q) == CHOOSE r \in 0 .. q : r * r >= q /\ \A s \in 0 .. r - 1 : s * s < q
GridCols(q) ==
  LET r == GridRows(q)
  IN  IF r * (r - 1) < q THEN r ELSE r - 1

\* The first row and column of a block of so many tiles.
StartRow(area) == (num_rows - GridRows(area)) \div 2
StartCol(area) == (num_cols - GridCols(area)) \div 2

Block(area) ==
  {(StartRow(area) + r) * num_cols + StartCol(area) + c :
     r \in 0 .. GridRows(area) - 1, c \in 0 .. GridCols(area) - 1}

\* Port k: on the top, right, bottom and left side of a block in turn.  The
\* start is that of the block of "from" tiles, A's for both kinds of ports.
BlockPort(area, from, k) ==
  LET top    == StartRow(from)
      left   == StartCol(from)
      bottom == top + GridRows(area) - 1
      right  == left + GridCols(area) - 1
      stride == (k - 1) \div 4
  IN  CASE k % 4 = 1 -> top * num_cols + left + stride
        [] k % 4 = 2 -> (top + stride) * num_cols + right
        [] k % 4 = 3 -> bottom * num_cols + right - stride
        [] OTHER     -> (bottom - stride) * num_cols + left

\* Faulty variant: rows as long as those of the new lattice.
Renumbered_wide(arg) == arg + num_cols + 2 * (arg \div num_cols) + 1

\* A data qubit's tile: on the lattice with one more row and column per side,
\* or where the count of the tiles before that are no factory's reaches it.
Renumbered(arg) ==
  IF periphery
  THEN arg + num_cols + 2 * (arg \div (num_cols - 2)) + 1
  ELSE LET Counted(t) == Cardinality((0 .. t - 1) \ factory_block)
       IN  CHOOSE t \in 0 .. arg + Cardinality(factory_block) :
             Counted(t) = arg /\ \A s \in 0 .. t - 1 : Counted(s) < arg

Difference(a, b) == IF a < b THEN b - a ELSE a - b

manhattan_cost(src, dest) ==
  Difference(src \div num_cols, dest \div num_cols)
    + Difference(src % num_cols, dest % num_cols)

\* The first of the closest ports, or 0 when there are none.
find_closest_magic(data_qid, magic_qids) ==
  LET Cost(k) == manhattan_cost(data_qid, magic_qids[k])
  IN  IF magic_qids = <<>> THEN 0
      ELSE magic_qids[CHOOSE k \in DOMAIN magic_qids :
                        \A m \in DOMAIN magic_qids :
                          Cost(k) < Cost(m) \/ (Cost(k) = Cost(m) /\ k <= m)]

\* A gate, its sequence number and, for the properties only, the parsed gate
\* it comes from.
Gate(n, op, qid, from) == [seq |-> n, op |-> op, qid |-> qid, from |-> from]

\* What replaces an S gate on q, with Y port y, and a T gate, with A port a.
GatesForS(n, q, y, from) ==
  << Gate(n + 1, "CNOT", <<q, y>>, from), Gate(n + 2, "H", <<y>>, from),
     Gate(n + 3, "CNOT", <<q, y>>, from), Gate(n + 4, "H", <<y>>, from) >>

\* Faulty variant: the number of the last gate is used again.
GatesForT_reused(n, q, a, from) ==
  << Gate(n, "CNOT", <<a, q>>, from), Gate(n + 1, "CNOT", <<q, a>>, from),
     Gate(n + 2, "CNOT", <<a, q>>, from), Gate(n + 3, "CNOT", <<q, a>>, from) >>

GatesForT(n, q, a, from) ==
  << Gate(n + 1, "CNOT", <<a, q>>, from), Gate(n + 2, "CNOT", <<q, a>>, from),
     Gate(n + 3, "CNOT", <<a, q>>, from), Gate(n + 4, "CNOT", <<q, a>>, from) >>

-----------------------------------------------------------------------------

Init ==
  /\ module \in Modules
  /\ periphery \in Peripheries
  /\ factories \in Factories
  /\ LET tiles == module.q_count + factories.Y_area * factories.num_Y
                                 + factories.A_area * factories.num_A
     IN  /\ num_rows = IF periphery THEN GridRows(module.q_count) + 2
                                    ELSE GridRows(tiles)
         /\ num_cols = IF periphery THEN GridCols(module.q_count) + 2
                                    ELSE GridCols(tiles)
  /\ i = 1
  /\ Y_state_ids = <<>>
  /\ A_state_ids = <<>>
  /\ factory_block = {}
  /\ next = 1
  /\ seq = Len(module.gates)
  /\ kept = <<>>
  /\ to_push_gates = <<>>
  /\ pc = IF periphery THEN "Y" ELSE "blocks"

\* Without --periphery: both blocks in the middle, ports on their sides.
PlaceBlocks ==
  /\ pc = "blocks"
  /\ factory_block' = Block(factories.Y_area) \union Block(factories.A_area)
  /\ Y_state_ids' = [k \in 1 .. factories.Y_ports |->
                       BlockPort(factories.Y_area, factories.A_area, k)]
  /\ A_state_ids' = [k \in 1 .. factories.A_ports |->
                       BlockPort(factories.A_area, factories.A_area, k)]
  /\ pc' = "update"
  /\ UNCHANGED <<inputs, i, gates>>

\* Two Y ports, at both ends of a row; two A ports, at both ends of a column.
YPorts(row) == <<row * num_cols, (row + 1) * num_cols - 1>>
APorts(col) == <<col, (num_rows - 1) * num_cols + col>>

PlaceY ==
  /\ pc = "Y"
  /\ IF i < num_rows - 1
     THEN /\ Y_state_ids' = Y_state_ids \o YPorts(i)
          /\ i' = i + rows_to_Y_factory_ratio
          /\ pc' = pc
     ELSE /\ i' = 0
          /\ pc' = "A"
          /\ UNCHANGED Y_state_ids
  /\ UNCHANGED <<inputs, A_state_ids, factory_block, gates>>

PlaceA ==
  /\ pc = "A"
  /\ IF i < num_cols
     THEN /\ A_state_ids' = A_state_ids \o APorts(i)
          /\ i' = i + cols_to_A_factory_ratio
          /\ pc' = pc
     ELSE /\ pc' = "update"
          /\ UNCHANGED <<A_state_ids, i>>
  /\ UNCHANGED <<inputs, Y_state_ids, factory_block, gates>>

\* The next parsed gate: its operands are renumbered; S and T gates are
\* replaced, and their replacements wait in to_push_gates.
UpdateGate ==
  /\ pc = "update" /\ next <= Len(module.gates)
  /\ LET g   == module.gates[next]
         qid == [k \in DOMAIN g.qid |-> Renumbered(g.qid[k])]
         q   == qid[1]
     IN  \/ /\ g.op \in {"CNOT", "H"}
            /\ kept' = Append(kept, Gate(next, g.op, qid, next))
            /\ UNCHANGED <<seq, to_push_gates>>
         \/ /\ g.op \in {"S", "Sdag"}
            /\ to_push_gates' = to_push_gates \o
                 GatesForS(seq, q, find_closest_magic(q, Y_state_ids), next)
            /\ seq' = seq + 4
            /\ UNCHANGED kept
         \/ /\ g.op \in {"T", "Tdag"}
            /\ to_push_gates' = to_push_gates \o
                 GatesForT(seq, q, find_closest_magic(q, A_state_ids), next)
            /\ seq' = seq + 4
            /\ UNCHANGED kept
  /\ next' = next + 1
  /\ UNCHANGED <<inputs, i, ports, pc>>

\* All replacements follow the gates that were kept.
FinishSetup ==
  /\ pc = "update" /\ next > Len(module.gates)
  /\ kept' = kept \o to_push_gates
  /\ pc' = "done"
  /\ UNCHANGED <<inputs, i, ports, next, seq, to_push_gates>>

Next == PlaceBlocks \/ PlaceY \/ PlaceA \/ UpdateGate \/ FinishSetup

Spec == Init /\ [][Next]_vars

\* The gate list the simulation gets.
module_gates == kept

-----------------------------------------------------------------------------

Tiles == 0 .. num_rows * num_cols - 1

Ports == Range(Y_state_ids) \union Range(A_state_ids)

Placed == pc \in {"update", "done"}

\* With the factories in the middle nothing keeps the code from giving their
\* blocks, which are rounded up to rectangles, tiles that the data qubits need,
\* nor from putting ports beyond the last tile: it does so in a lattice of one
\* column, and when a factory has more ports than its sides have tiles.
Fits ==
  periphery \/ /\ module.q_count <= Cardinality(Tiles \ factory_block)
               /\ Ports \subseteq Tiles

\* The qubits of the module get tiles of their own, inside the lattice where
\* there is room, and on the periphery layout away from the ports, none of which
\* is listed twice.  In the middle of the lattice the first ports of an A
\* factory, "top", "right", "bottom" and "left", are tiles of its block.
TilesApart ==
  Placed =>
    LET qubits == 0 .. module.q_count - 1
    IN  /\ \A p, q \in qubits : Renumbered(p) = Renumbered(q) => p = q
        /\ Fits => \A q \in qubits : Renumbered(q) \in Tiles
        /\ periphery =>
             /\ \A q \in qubits : Renumbered(q) \notin Ports
             /\ IsInjective(Y_state_ids) /\ IsInjective(A_state_ids)
        /\ ~periphery /\ factories.A_area > 0 =>
             \A k \in DOMAIN A_state_ids \cap 1 .. 4 :
               A_state_ids[k] \in Block(factories.A_area)

\* The gates to simulate are what the event loop expects: where there is room,
\* tiles of the lattice, two different ones for a CNOT on the periphery layout,
\* and no two gates share a sequence number, which would lose one of them in
\* gate_map.
GatesSimulable ==
  pc = "done" =>
    /\ \A k \in DOMAIN module_gates :
         LET g == module_gates[k]
         IN  /\ g.op \in {"CNOT", "H"}
             /\ Fits => Range(g.qid) \subseteq Tiles
             /\ g.op = "CNOT" /\ periphery => g.qid[1] # g.qid[2]
    /\ \A k, m \in DOMAIN module_gates :
         module_gates[k].seq = module_gates[m].seq => k = m

=============================================================================
