---------------------------- MODULE BraidRoutes ----------------------------
(***************************************************************************)
(* The geometry of the Braidflash lattice and the braids a CNOT needs      *)
(* (braidflash/braidflash.cpp, find_diagonal .. cnot_routes).              *)
(*                                                                         *)
(* Logical qubits are the tiles of a num_rows x num_cols grid, numbered    *)
(* row by row.  Router nodes are the corners of the tiles, so the mesh has *)
(* (num_rows+1) x (num_cols+1) nodes, numbered row by row, and a link      *)
(* between any two neighbouring nodes.  A braid lists the nodes and the    *)
(* links it engages; a link is the set of its two end nodes.               *)
(***************************************************************************)
EXTENDS Integers, Sequences, SequencesExt

CONSTANTS num_rows,   (* rows of qubit tiles    *)
          num_cols    (* columns of qubit tiles *)

ASSUME MeshAssumption ==
  /\ num_rows \in Nat \ {0}
  /\ num_cols \in Nat \ {0}

Qubits == 0 .. num_rows * num_cols - 1
Nodes  == 0 .. (num_rows + 1) * (num_cols + 1) - 1

NodeRow(n) == n \div (num_cols + 1)
NodeCol(n) == n % (num_cols + 1)

NodeAt(row, col) == row * (num_cols + 1) + col

edge(n1, n2) == {n1, n2}

\* The links main() adds: each node to its north, south, east and west
\* neighbour, where there is one.
Links ==
  {edge(n, n + 1) : n \in {m \in Nodes : NodeCol(m) # num_cols}}
    \union
  {edge(n, n + num_cols + 1) : n \in {m \in Nodes : NodeRow(m) # num_rows}}

-----------------------------------------------------------------------------
(* The corners of a tile *)

top_left(q)     == q + q \div num_cols
top_right(q)    == top_left(q) + 1
bottom_left(q)  == top_left(q) + num_cols + 1
bottom_right(q) == top_left(q) + num_cols + 2

Corners(q) == {top_left(q), top_right(q), bottom_left(q), bottom_right(q)}

\* The three "other corner" functions answer 0 for a node that is no corner.
find_diagonal(q, n) ==
  IF n \in Corners(q) THEN top_left(q) + bottom_right(q) - n ELSE 0

find_vertical(q, n) ==
  CASE n \in {top_left(q), top_right(q)}       -> n + num_cols + 1
    [] n \in {bottom_left(q), bottom_right(q)} -> n - num_cols - 1
    [] OTHER -> 0

find_horizontal(q, n) ==
  CASE n \in {top_left(q), bottom_left(q)}   -> n + 1
    [] n \in {top_right(q), bottom_right(q)} -> n - 1
    [] OTHER -> 0

\* The corner of tile q on the side node n lies on.
find_nearest(q, n) ==
  LET below == NodeRow(n) > q \div num_cols
      right == NodeCol(n) > q % num_cols
  IN  top_left(q) + (IF below THEN num_cols + 1 ELSE 0)
                  + (IF right THEN 1 ELSE 0)

\* Long-edge neighbours: side by side in one row.
are_adjacent(src, dest) ==
  /\ src \div num_cols = dest \div num_cols
  /\ (src % num_cols) - (dest % num_cols) \in {-1, 1}

-----------------------------------------------------------------------------
(* Braids *)

BraidType == [nodes : Seq(Int), links : Seq(SUBSET Int)]

Braid(nodes, links) == [nodes |-> nodes, links |-> links]

braid_merge(b1, b2) == Braid(b1.nodes \o b2.nodes, b1.links \o b2.links)

\* Around tile q, the short (horizontal) side first.
braid_short_L(q, n1) ==
  LET n2 == find_horizontal(q, n1)
      n3 == find_diagonal(q, n1)
  IN  Braid(<<n2, n3>>, <<edge(n1, n2), edge(n2, n3)>>)

\* Through tile q, from a corner to the opposite one.
braid_S(q, n1) ==
  LET n2 == find_diagonal(q, n1)
  IN  Braid(<<n2>>, <<edge(n1, find_vertical(q, n1)),
                      edge(n2, find_horizontal(q, n1))>>)

\* Faulty variant: never leftwards or upwards.
Toward_up(from, to, i) == from + i

\* i steps from one coordinate towards another.
Toward(from, to, i) == IF from < to THEN from + i ELSE from - i
Distance(a, b) == IF a < b THEN b - a ELSE a - b

\* Dimension-ordered routing: the columns first when YX, the rows first
\* otherwise; the start node is not part of the braid.
braid_dor(src, dest, YX) ==
  LET src_row  == NodeRow(src)
      src_col  == NodeCol(src)
      dest_row == NodeRow(dest)
      dest_col == NodeCol(dest)
      rows == Distance(src_row, dest_row)
      cols == Distance(src_col, dest_col)
      Stop(i) ==
        IF YX
        THEN IF i <= cols THEN NodeAt(src_row, Toward(src_col, dest_col, i))
             ELSE NodeAt(Toward(src_row, dest_row, i - cols), dest_col)
        ELSE IF i <= rows THEN NodeAt(Toward(src_row, dest_row, i), src_col)
             ELSE NodeAt(dest_row, Toward(src_col, dest_col, i - rows))
  IN  Braid([i \in 1 .. rows + cols |-> Stop(i)],
            [i \in 1 .. rows + cols |-> edge(Stop(i - 1), Stop(i))])

-----------------------------------------------------------------------------
(* The braids of a CNOT *)

\* The two source corners that host the ancilla.
cnot_ancillas(src, dest) ==
  IF are_adjacent(src, dest)
  THEN IF src < dest THEN [anc1 |-> top_left(src),  anc2 |-> bottom_left(src)]
                     ELSE [anc1 |-> top_right(src), anc2 |-> bottom_right(src)]
  ELSE IF src \div num_cols < dest \div num_cols
       THEN [anc1 |-> top_right(src),   anc2 |-> top_left(src)]
       ELSE [anc1 |-> bottom_left(src), anc2 |-> bottom_right(src)]

adjacent_routes(src, dest, anc1) ==
  LET middle_top    == find_horizontal(src, anc1)
      middle_bottom == find_diagonal(src, anc1)
      dest_bottom   == find_horizontal(dest, middle_bottom)
      l1 == edge(anc1, find_vertical(src, anc1))
      l2 == edge(middle_top, middle_bottom)
      l3 == edge(dest_bottom, find_vertical(dest, dest_bottom))
      l4 == edge(dest_bottom, middle_bottom)
  IN  [route_1 |-> Braid(<<dest_bottom>>, <<l1, l2, l3>>),
       route_2 |-> Braid(<<middle_bottom, find_vertical(src, anc1)>>,
                         <<l4, l2, l1>>)]

distant_routes(src, dest, anc1, YX) ==
  LET diag_anc1     == find_diagonal(src, anc1)
      vertical_anc1 == find_vertical(src, anc1)
      nearest_dest  == find_nearest(dest, diag_anc1)
      diag_nearest_dest == find_diagonal(dest, nearest_dest)
  IN  [route_1 |-> braid_merge(
                     braid_merge(braid_S(src, anc1),
                                 braid_dor(diag_anc1, nearest_dest, YX)),
                     braid_S(dest, nearest_dest)),
       route_2 |-> braid_merge(
                     braid_merge(braid_short_L(dest, diag_nearest_dest),
                                 braid_dor(nearest_dest, vertical_anc1, YX)),
                     braid_S(src, vertical_anc1))]

\* Faulty variant: the YX form starts at the corner across the tile.
cnot_routes_across(src, dest, anc1, YX) ==
  IF are_adjacent(src, dest) THEN adjacent_routes(src, dest, anc1)
  ELSE distant_routes(src, dest, IF YX THEN find_diagonal(src, anc1) ELSE anc1, YX)

cnot_routes(src, dest, anc1, YX) ==
  IF are_adjacent(src, dest) THEN adjacent_routes(src, dest, anc1)
                             ELSE distant_routes(src, dest, anc1, YX)

=============================================================================
