------------------------- MODULE Braidflash_proofs --------------------------
(***************************************************************************)
(* What holds of the routes of braids and of the simulation loop for every *)
(* lattice, module, code distance, policy and threshold.                   *)
(*                                                                         *)
(* The routes come first: which corners they join, that they stay on the   *)
(* mesh, that no link of the ancilla is engaged twice, that both orders of *)
(* dimensions end in one place, and that nodes and links are never missing *)
(* where the events of a CNOT take the last one.  The two routes of a CNOT *)
(* close its loop: Reach is shown to be closed under the links it is       *)
(* given, so that the routes can be walked link by link, those of          *)
(* dimension-ordered routing by induction, the corners of the two tiles    *)
(* one by one.                                                             *)
(*                                                                         *)
(* Then the loop, with three invariants:                                   *)
(*   - IInv: what the event lists and the queues hold, and that no gate    *)
(*     has more than one event in flight;                                  *)
(*   - DagInv: the dependency graph that is left, and the abstract         *)
(*     scheduler of GateDag that the loop implements;                      *)
(*   - MeshInv: which gate holds which nodes and links of the mesh, from   *)
(*     the events it has left.                                             *)
(***************************************************************************)
EXTENDS Braidflash, MCBraidRoutes, SequenceTheorems, FiniteSetTheorems,
        WellFoundedInduction, TLAPS

-----------------------------------------------------------------------------
(* Routes *)

\* Coordinates are integers, and distances count steps.
LEMMA CoordinateType ==
  ASSUME NEW n \in Int
  PROVE  NodeRow(n) \in Int /\ NodeCol(n) \in Int
BY MeshAssumption DEF NodeRow, NodeCol

\* Distances are natural numbers.
LEMMA DistanceType ==
  ASSUME NEW a \in Int, NEW b \in Int
  PROVE  Distance(a, b) \in Nat
BY DEF Distance

\* Corners and the corner functions.
LEMMA CornerType ==
  ASSUME NEW q \in Int
  PROVE  /\ top_left(q) \in Int
         /\ top_right(q) \in Int
         /\ bottom_left(q) \in Int
         /\ bottom_right(q) \in Int
BY MeshAssumption DEF top_left, top_right, bottom_left, bottom_right

\* The corners found from another one are integers too.
LEMMA OtherCornerType ==
  ASSUME NEW q \in Int, NEW n \in Int
  PROVE  /\ find_diagonal(q, n) \in Int
         /\ find_vertical(q, n) \in Int
         /\ find_horizontal(q, n) \in Int
         /\ find_nearest(q, n) \in Int
<1>1. top_left(q) \in Int /\ bottom_right(q) \in Int
  BY CornerType
<1>2. num_cols \in Int
  BY MeshAssumption
<1>3. find_diagonal(q, n) \in Int
  BY <1>1 DEF find_diagonal
<1>4. find_vertical(q, n) \in Int
  BY <1>2 DEF find_vertical
<1>5. find_horizontal(q, n) \in Int
  BY DEF find_horizontal
<1>6. find_nearest(q, n) \in Int
  BY <1>1, <1>2 DEF find_nearest
<1>7. QED
  BY <1>3, <1>4, <1>5, <1>6

\* Both ancillas of a CNOT are nodes.
LEMMA AncillaType ==
  ASSUME NEW src \in Int, NEW dest \in Int
  PROVE  /\ cnot_ancillas(src, dest).anc1 \in Int
         /\ cnot_ancillas(src, dest).anc2 \in Int
BY CornerType DEF cnot_ancillas

\* A link is a set of nodes.
LEMMA EdgeType ==
  ASSUME NEW a \in Int, NEW b \in Int
  PROVE  edge(a, b) \in SUBSET Int
BY DEF edge

-----------------------------------------------------------------------------
(* Braids *)

\* Braids that an event can take the last node and the last link of.
FullBraidType == {b \in BraidType : b.nodes # <<>> /\ b.links # <<>>}

\* Sequences of one and of two elements.
LEMMA PairType ==
  ASSUME NEW S, NEW a \in S, NEW b \in S
  PROVE  /\ <<a>> \in Seq(S)
         /\ <<a, b>> \in Seq(S)
OBVIOUS

\* braid_merge of braids is one; it has a link when its second part does.
LEMMA MergeType ==
  ASSUME NEW b1 \in BraidType, NEW b2 \in BraidType
  PROVE  /\ braid_merge(b1, b2) \in BraidType
         /\ b2 \in FullBraidType => braid_merge(b1, b2) \in FullBraidType
<1>1. /\ b1.nodes \in Seq(Int) /\ b2.nodes \in Seq(Int)
      /\ b1.links \in Seq(SUBSET Int) /\ b2.links \in Seq(SUBSET Int)
  BY DEF BraidType
<1>2. /\ b1.nodes \o b2.nodes \in Seq(Int)
      /\ b1.links \o b2.links \in Seq(SUBSET Int)
  BY <1>1, ConcatProperties
<1>3. braid_merge(b1, b2) \in BraidType
  BY <1>2 DEF braid_merge, Braid, BraidType
<1>4. ASSUME b2 \in FullBraidType
      PROVE  b1.nodes \o b2.nodes # <<>> /\ b1.links \o b2.links # <<>>
  BY <1>1, <1>4, ConcatSimplifications!concIsEmpty DEF FullBraidType
<1>5. QED
  BY <1>3, <1>4 DEF FullBraidType, braid_merge, Braid

\* braid_short_L and braid_S cross one tile.
LEMMA ThroughTileType ==
  ASSUME NEW q \in Int, NEW n1 \in Int
  PROVE  /\ braid_short_L(q, n1) \in BraidType
         /\ braid_S(q, n1) \in FullBraidType
<1>1. /\ find_diagonal(q, n1) \in Int
      /\ find_vertical(q, n1) \in Int
      /\ find_horizontal(q, n1) \in Int
  BY OtherCornerType
<1>2. braid_short_L(q, n1) \in BraidType
  <2>1. /\ edge(n1, find_horizontal(q, n1)) \in SUBSET Int
        /\ edge(find_horizontal(q, n1), find_diagonal(q, n1)) \in SUBSET Int
    BY <1>1, EdgeType
  <2>2. QED
    BY <1>1, <2>1, PairType DEF braid_short_L, Braid, BraidType
<1>3. braid_S(q, n1) \in FullBraidType
  <2>1. /\ edge(n1, find_vertical(q, n1)) \in SUBSET Int
        /\ edge(find_diagonal(q, n1), find_horizontal(q, n1)) \in SUBSET Int
    BY <1>1, EdgeType
  <2>2. braid_S(q, n1) \in BraidType
    BY <1>1, <2>1, PairType DEF braid_S, Braid, BraidType
  <2>3. braid_S(q, n1).nodes # <<>> /\ braid_S(q, n1).links # <<>>
    BY DEF braid_S, Braid
  <2>4. QED
    BY <2>2, <2>3 DEF FullBraidType
<1>4. QED
  BY <1>2, <1>3

\* braid_dor returns a braid, possibly an empty one.
LEMMA DorType ==
  ASSUME NEW src \in Int, NEW dest \in Int, NEW YX \in BOOLEAN
  PROVE  braid_dor(src, dest, YX) \in BraidType
<1> DEFINE rows == Distance(NodeRow(src), NodeRow(dest))
           cols == Distance(NodeCol(src), NodeCol(dest))
           Stop(i) ==
             IF YX
             THEN IF i <= cols
                  THEN NodeAt(NodeRow(src), Toward(NodeCol(src), NodeCol(dest), i))
                  ELSE NodeAt(Toward(NodeRow(src), NodeRow(dest), i - cols),
                              NodeCol(dest))
             ELSE IF i <= rows
                  THEN NodeAt(Toward(NodeRow(src), NodeRow(dest), i), NodeCol(src))
                  ELSE NodeAt(NodeRow(dest),
                              Toward(NodeCol(src), NodeCol(dest), i - rows))
           nodes == [i \in 1 .. rows + cols |-> Stop(i)]
           links == [i \in 1 .. rows + cols |-> edge(Stop(i - 1), Stop(i))]
<1>1. /\ NodeRow(src) \in Int /\ NodeRow(dest) \in Int
      /\ NodeCol(src) \in Int /\ NodeCol(dest) \in Int
  BY CoordinateType
<1>2. rows \in Nat /\ cols \in Nat
  BY <1>1, DistanceType
<1>3. \A from, to, k \in Int : Toward(from, to, k) \in Int
  BY DEF Toward
<1>4. \A row, col \in Int : NodeAt(row, col) \in Int
  BY MeshAssumption DEF NodeAt
<1>5. braid_dor(src, dest, YX) = Braid(nodes, links)
  BY DEF braid_dor
<1> HIDE DEF rows, cols
<1>6. \A i \in Int : Stop(i) \in Int
  <2> SUFFICES ASSUME NEW i \in Int
               PROVE  Stop(i) \in Int
    OBVIOUS
  <2>1. i - cols \in Int /\ i - rows \in Int
    BY <1>2
  <2>2. /\ NodeAt(NodeRow(src), Toward(NodeCol(src), NodeCol(dest), i)) \in Int
        /\ NodeAt(Toward(NodeRow(src), NodeRow(dest), i - cols), NodeCol(dest))
             \in Int
        /\ NodeAt(Toward(NodeRow(src), NodeRow(dest), i), NodeCol(src)) \in Int
        /\ NodeAt(NodeRow(dest), Toward(NodeCol(src), NodeCol(dest), i - rows))
             \in Int
    BY <1>1, <1>3, <1>4, <2>1
  <2>3. QED
    BY <2>2, Zenon
<1> HIDE DEF Stop
<1>7. nodes \in Seq(Int)
  BY <1>2, <1>6, IsASeq
<1>8. links \in Seq(SUBSET Int)
  <2>1. \A i \in 1 .. rows + cols : edge(Stop(i - 1), Stop(i)) \in SUBSET Int
    BY <1>2, <1>6, EdgeType
  <2>2. QED
    BY <1>2, <2>1, IsASeq
<1>9. QED
  BY <1>5, <1>7, <1>8 DEF Braid, BraidType
-----------------------------------------------------------------------------
(* The two routes of a CNOT *)

\* The routes of tiles side by side have nodes and links.
LEMMA AdjacentRoutesType ==
  ASSUME NEW src \in Int, NEW dest \in Int, NEW anc1 \in Int
  PROVE  /\ adjacent_routes(src, dest, anc1).route_1 \in FullBraidType
         /\ adjacent_routes(src, dest, anc1).route_2 \in FullBraidType
<1> DEFINE middle_top    == find_horizontal(src, anc1)
           middle_bottom == find_diagonal(src, anc1)
           dest_bottom   == find_horizontal(dest, middle_bottom)
           l1 == edge(anc1, find_vertical(src, anc1))
           l2 == edge(middle_top, middle_bottom)
           l3 == edge(dest_bottom, find_vertical(dest, dest_bottom))
           l4 == edge(dest_bottom, middle_bottom)
           route_1 == Braid(<<dest_bottom>>, <<l1, l2, l3>>)
           route_2 == Braid(<<middle_bottom, find_vertical(src, anc1)>>,
                            <<l4, l2, l1>>)
<1>1. /\ middle_top \in Int /\ middle_bottom \in Int
      /\ dest_bottom \in Int /\ find_vertical(src, anc1) \in Int
  BY OtherCornerType
<1>2. find_vertical(dest, dest_bottom) \in Int
  BY <1>1, OtherCornerType
<1>3. /\ l1 \in SUBSET Int /\ l2 \in SUBSET Int
      /\ l3 \in SUBSET Int /\ l4 \in SUBSET Int
  BY <1>1, <1>2, EdgeType
<1>4. adjacent_routes(src, dest, anc1) =
        [route_1 |-> route_1, route_2 |-> route_2]
  BY DEF adjacent_routes
<1> HIDE DEF middle_top, middle_bottom, dest_bottom, l1, l2, l3, l4
<1>5. route_1 \in FullBraidType
  <2>1. /\ <<dest_bottom>> \in Seq(Int) /\ <<dest_bottom>> # <<>>
        /\ <<l1, l2, l3>> \in Seq(SUBSET Int) /\ <<l1, l2, l3>> # <<>>
    BY <1>1, <1>3
  <2>2. QED
    BY <2>1 DEF Braid, FullBraidType, BraidType
<1>6. route_2 \in FullBraidType
  <2>1. /\ <<middle_bottom, find_vertical(src, anc1)>> \in Seq(Int)
        /\ <<middle_bottom, find_vertical(src, anc1)>> # <<>>
        /\ <<l4, l2, l1>> \in Seq(SUBSET Int) /\ <<l4, l2, l1>> # <<>>
    BY <1>1, <1>3
  <2>2. QED
    BY <2>1 DEF Braid, FullBraidType, BraidType
<1> HIDE DEF route_1, route_2
<1>7. QED
  BY <1>4, <1>5, <1>6

\* So do those of tiles further apart.
LEMMA DistantRoutesType ==
  ASSUME NEW src \in Int, NEW dest \in Int, NEW anc1 \in Int,
         NEW YX \in BOOLEAN
  PROVE  /\ distant_routes(src, dest, anc1, YX).route_1 \in FullBraidType
         /\ distant_routes(src, dest, anc1, YX).route_2 \in FullBraidType
<1> DEFINE diag_anc1     == find_diagonal(src, anc1)
           vertical_anc1 == find_vertical(src, anc1)
           nearest_dest  == find_nearest(dest, diag_anc1)
           diag_nearest_dest == find_diagonal(dest, nearest_dest)
           to_dest == braid_merge(braid_S(src, anc1),
                                  braid_dor(diag_anc1, nearest_dest, YX))
           to_src  == braid_merge(braid_short_L(dest, diag_nearest_dest),
                                  braid_dor(nearest_dest, vertical_anc1, YX))
           route_1 == braid_merge(to_dest, braid_S(dest, nearest_dest))
           route_2 == braid_merge(to_src, braid_S(src, vertical_anc1))
<1>1. diag_anc1 \in Int /\ vertical_anc1 \in Int
  BY OtherCornerType
<1>2. nearest_dest \in Int
  BY <1>1, OtherCornerType
<1>3. diag_nearest_dest \in Int
  BY <1>2, OtherCornerType
<1>4. distant_routes(src, dest, anc1, YX) =
        [route_1 |-> route_1, route_2 |-> route_2]
  BY DEF distant_routes
<1> HIDE DEF diag_anc1, vertical_anc1, nearest_dest, diag_nearest_dest
<1>5. \A b \in FullBraidType : b \in BraidType
  BY DEF FullBraidType
<1>6. to_dest \in BraidType /\ to_src \in BraidType
  BY <1>1, <1>2, <1>3, <1>5, ThroughTileType, DorType, MergeType
<1> HIDE DEF to_dest, to_src
<1>7. route_1 \in FullBraidType /\ route_2 \in FullBraidType
  BY <1>1, <1>2, <1>5, <1>6, ThroughTileType, MergeType
<1> HIDE DEF route_1, route_2
<1>8. QED
  BY <1>4, <1>7

\* Whatever the tiles, both routes are braids with a last node and a last link.
LEMMA RoutesType ==
  ASSUME NEW src \in Int, NEW dest \in Int, NEW anc1 \in Int,
         NEW YX \in BOOLEAN
  PROVE  /\ cnot_routes(src, dest, anc1, YX).route_1 \in FullBraidType
         /\ cnot_routes(src, dest, anc1, YX).route_2 \in FullBraidType
BY AdjacentRoutesType, DistantRoutesType DEF cnot_routes

\* The width of a row of nodes, as one number.
LEMMA WidthType == num_cols + 1 \in Nat \ {0} /\ num_rows + 1 \in Nat \ {0}
BY MeshAssumption

\* Quotient and remainder.
LEMMA DivMod ==
  ASSUME NEW n \in Int, NEW w \in Nat \ {0}
  PROVE  /\ n \div w \in Int /\ n % w \in 0 .. w - 1
         /\ n = w * (n \div w) + (n % w)
OBVIOUS

\* A multiple of w between -w and w is 0.
LEMMA SmallMultiple ==
  ASSUME NEW w \in Nat \ {0}, NEW d \in Int, -w < w * d, w * d < w
  PROVE  d = 0
<1>1. CASE d >= 1
  <2>1. w * d >= w * 1
    BY <1>1
  <2>2. QED
    BY <2>1
<1>2. CASE d <= -1
  <2>1. w * d <= w * (-1)
    BY <1>2
  <2>2. QED
    BY <2>1
<1>3. QED
  BY <1>1, <1>2

\* A number has one row and one column.
LEMMA RowsAreUnique ==
  ASSUME NEW w \in Nat \ {0}, NEW r \in Int, NEW c \in 0 .. w - 1
  PROVE  (r * w + c) \div w = r /\ (r * w + c) % w = c
<1> DEFINE n == r * w + c
           q == n \div w
           m == n % w
<1>1. n \in Int /\ q \in Int /\ m \in 0 .. w - 1 /\ n = w * q + m
  BY DivMod
<1> HIDE DEF q, m
<1>2. w * (r - q) = w * r - w * q /\ w * r = r * w
  BY <1>1
<1>3. w * (r - q) = m - c
  BY <1>1, <1>2
<1>4. -w < m - c /\ m - c < w
  BY <1>1
<1>5. r - q = 0
  <2>1. r - q \in Int
    BY <1>1
  <2>2. QED
    BY <1>3, <1>4, <2>1, SmallMultiple
<1>6. q = r /\ m = c
  <2>1. q = r
    BY <1>1, <1>5
  <2>2. w * (r - q) = 0
    BY <1>1, <1>5
  <2>3. QED
    BY <1>1, <1>3, <2>1, <2>2
<1>7. QED
  BY <1>6 DEF q, m

\* NodeRow and NodeCol undo NodeAt.
LEMMA RowColOfNode ==
  ASSUME NEW r \in Int, NEW c \in 0 .. num_cols
  PROVE  NodeRow(NodeAt(r, c)) = r /\ NodeCol(NodeAt(r, c)) = c
<1> DEFINE w == num_cols + 1
<1>1. w \in Nat \ {0} /\ c \in 0 .. w - 1
  BY MeshAssumption
<1> HIDE DEF w
<1>2. (r * w + c) \div w = r /\ (r * w + c) % w = c
  BY <1>1, RowsAreUnique
<1>3. QED
  BY <1>2 DEF NodeAt, NodeRow, NodeCol, w

\* Mesh of rows and columns.
Rows == 0 .. num_rows
Cols == 0 .. num_cols

\* The steps of braid_dor: one column on is one node on, one row on a row of
\* nodes.
LEMMA NodeAtProperties ==
  ASSUME NEW r \in Int, NEW c \in Int
  PROVE  /\ NodeAt(r, c) \in Int
         /\ NodeAt(r, c + 1) = NodeAt(r, c) + 1
         /\ NodeAt(r + 1, c) = NodeAt(r, c) + num_cols + 1
<1> DEFINE w == num_cols + 1
<1>1. w \in Int
  BY MeshAssumption
<1> HIDE DEF w
<1>2. (r + 1) * w = r * w + w /\ r * w \in Int
  BY <1>1
<1>3. (r + 1) * w + c = r * w + c + w /\ r * w + (c + 1) = r * w + c + 1
  BY <1>1, <1>2
<1>4. QED
  BY <1>2, <1>3, MeshAssumption DEF NodeAt, w

\* NodeAt of a row and a column of the mesh is one of its nodes.
LEMMA NodesOfMesh ==
  ASSUME NEW r \in Rows, NEW c \in Cols
  PROVE  NodeAt(r, c) \in Nodes
<1> DEFINE w == num_cols + 1
           h == num_rows
<1>1. /\ w \in Nat \ {0} /\ h \in Nat /\ r \in Int /\ 0 <= r /\ r <= h
      /\ c \in Int /\ 0 <= c /\ c < w
  BY MeshAssumption DEF Rows, Cols
<1>2. Nodes = 0 .. (h + 1) * w - 1 /\ NodeAt(r, c) = r * w + c
  BY DEF Nodes, NodeAt
<1> HIDE DEF w, h
<1>3. 0 <= r * w /\ r * w <= h * w
  <2>1. (h - r) * w >= 0 /\ r * w >= 0
    BY <1>1
  <2>2. (h - r) * w = h * w - r * w
    BY <1>1
  <2>3. QED
    BY <1>1, <2>1, <2>2
<1>4. (h + 1) * w = h * w + w /\ r * w \in Int /\ h * w \in Int
  BY <1>1
<1>5. QED
  BY <1>1, <1>2, <1>3, <1>4

\* A step to the right and a step down are links of the mesh.
LEMMA LinksOfMesh ==
  ASSUME NEW r \in Rows, NEW c \in Cols
  PROVE  /\ c # num_cols => edge(NodeAt(r, c), NodeAt(r, c + 1)) \in Links
         /\ r # num_rows => edge(NodeAt(r, c), NodeAt(r + 1, c)) \in Links
<1>1. /\ NodeAt(r, c) \in Nodes
      /\ NodeRow(NodeAt(r, c)) = r /\ NodeCol(NodeAt(r, c)) = c
  BY NodesOfMesh, RowColOfNode DEF Rows, Cols
<1>2. /\ NodeAt(r, c + 1) = NodeAt(r, c) + 1
      /\ NodeAt(r + 1, c) = NodeAt(r, c) + num_cols + 1
  BY NodeAtProperties DEF Rows, Cols
<1>3. QED
  BY <1>1, <1>2 DEF Links

\* The row and the column of a tile.
TileRow(q) == q \div num_cols
TileCol(q) == q % num_cols

\* The row and the column of a tile, and the node at its top left.
LEMMA TilePlace ==
  ASSUME NEW q \in Qubits
  PROVE  /\ TileRow(q) \in 0 .. num_rows - 1
         /\ TileCol(q) \in 0 .. num_cols - 1
         /\ top_left(q) = NodeAt(TileRow(q), TileCol(q))
         /\ q = TileRow(q) * num_cols + TileCol(q)
<1> DEFINE w == num_cols
           h == num_rows
           r == q \div w
           c == q % w
<1>1. w \in Nat \ {0} /\ h \in Nat \ {0} /\ q \in Int /\ 0 <= q /\ q < h * w
  BY MeshAssumption DEF Qubits
<1> HIDE DEF w, h
<1>2. r \in Int /\ c \in 0 .. w - 1 /\ q = w * r + c
  BY <1>1, DivMod
<1> HIDE DEF r, c
<1>3. w * r = r * w /\ r * w \in Int
  BY <1>1, <1>2
<1>4. 0 <= r
  <2>1. r <= -1 => r * w <= (-1) * w
    BY <1>1, <1>2
  <2>2. QED
    BY <1>1, <1>2, <1>3, <2>1
<1>5. r < h
  <2>1. r >= h => r * w >= h * w
    BY <1>1, <1>2
  <2>2. h * w \in Int
    BY <1>1
  <2>3. QED
    BY <1>1, <1>2, <1>3, <2>1, <2>2
<1>6. q + r = r * (w + 1) + c
  <2>1. r * (w + 1) = r * w + r
    BY <1>1, <1>2
  <2>2. QED
    BY <1>1, <1>2, <1>3, <2>1
<1>7. r \in 0 .. h - 1
  BY <1>1, <1>2, <1>4, <1>5
<1>8. QED
  BY <1>2, <1>3, <1>6, <1>7 DEF TileRow, TileCol, top_left, NodeAt, r, c, w, h

\* The corner of a tile, a rows down and b columns to the right.
Corner(q, a, b) == NodeAt(TileRow(q) + a, TileCol(q) + b)

\* Where the corners of a tile are.
LEMMA CornerPlace ==
  ASSUME NEW q \in Qubits, NEW a \in {0, 1}, NEW b \in {0, 1}
  PROVE  /\ TileRow(q) + a \in Rows /\ TileCol(q) + b \in Cols
         /\ Corner(q, a, b) \in Nodes
         /\ NodeRow(Corner(q, a, b)) = TileRow(q) + a
         /\ NodeCol(Corner(q, a, b)) = TileCol(q) + b
<1>1. TileRow(q) + a \in Rows /\ TileCol(q) + b \in Cols
  BY TilePlace, MeshAssumption DEF Rows, Cols
<1>2. QED
  BY <1>1, NodesOfMesh, RowColOfNode DEF Corner, Rows, Cols

\* The four corner functions of the code.
LEMMA CornersAreCorners ==
  ASSUME NEW q \in Qubits
  PROVE  /\ top_left(q) = Corner(q, 0, 0) /\ top_right(q) = Corner(q, 0, 1)
         /\ bottom_left(q) = Corner(q, 1, 0) /\ bottom_right(q) = Corner(q, 1, 1)
<1> DEFINE r == TileRow(q)
           c == TileCol(q)
<1>1. r \in Int /\ c \in Int /\ top_left(q) = NodeAt(r, c)
  BY TilePlace
<1> HIDE DEF r, c
<1>2. /\ NodeAt(r, c) \in Int
      /\ NodeAt(r, c + 1) = NodeAt(r, c) + 1
      /\ NodeAt(r + 1, c) = NodeAt(r, c) + num_cols + 1
      /\ NodeAt(r + 1, c + 1) = NodeAt(r + 1, c) + 1
  BY <1>1, NodeAtProperties
<1>3. r + 0 = r /\ c + 0 = c /\ num_cols \in Int
  BY <1>1, MeshAssumption
<1>4. QED
  BY <1>1, <1>2, <1>3 DEF Corner, top_right, bottom_left, bottom_right, r, c

\* The other corners of a tile.
LEMMA OtherCorners ==
  ASSUME NEW q \in Qubits, NEW a \in {0, 1}, NEW b \in {0, 1}
  PROVE  /\ find_diagonal(q, Corner(q, a, b)) = Corner(q, 1 - a, 1 - b)
         /\ find_vertical(q, Corner(q, a, b)) = Corner(q, 1 - a, b)
         /\ find_horizontal(q, Corner(q, a, b)) = Corner(q, a, 1 - b)
<1> DEFINE t == top_left(q)
           w == num_cols
<1>1. t \in Int /\ w \in Nat \ {0}
  BY CornerType, MeshAssumption DEF Qubits
<1>2. /\ Corner(q, 0, 0) = t /\ Corner(q, 0, 1) = t + 1
      /\ Corner(q, 1, 0) = t + w + 1 /\ Corner(q, 1, 1) = t + w + 2
  BY CornersAreCorners DEF top_right, bottom_left, bottom_right
<1>3. /\ top_right(q) = t + 1 /\ bottom_left(q) = t + w + 1
      /\ bottom_right(q) = t + w + 2
      /\ Corners(q) = {t, t + 1, t + w + 1, t + w + 2}
  BY DEF top_right, bottom_left, bottom_right, Corners
<1>4. \A n : find_diagonal(q, n) = IF n \in {t, t + 1, t + w + 1, t + w + 2}
                                   THEN t + (t + w + 2) - n ELSE 0
  BY <1>3 DEF find_diagonal
<1>5. \A n : find_vertical(q, n) =
               CASE n \in {t, t + 1}             -> n + w + 1
                 [] n \in {t + w + 1, t + w + 2} -> n - w - 1
                 [] OTHER -> 0
  BY <1>3 DEF find_vertical
<1>6. \A n : find_horizontal(q, n) =
               CASE n \in {t, t + w + 1}     -> n + 1
                 [] n \in {t + 1, t + w + 2} -> n - 1
                 [] OTHER -> 0
  BY <1>3 DEF find_horizontal
<1> HIDE DEF t, w
<1>7. 1 - 0 = 1 /\ 1 - 1 = 0
  OBVIOUS
<1>8. CASE a = 0 /\ b = 0
  BY <1>1, <1>2, <1>4, <1>5, <1>6, <1>7, <1>8
<1>9. CASE a = 0 /\ b = 1
  BY <1>1, <1>2, <1>4, <1>5, <1>6, <1>7, <1>9
<1>10. CASE a = 1 /\ b = 0
  BY <1>1, <1>2, <1>4, <1>5, <1>6, <1>7, <1>10
<1>11. CASE a = 1 /\ b = 1
  BY <1>1, <1>2, <1>4, <1>5, <1>6, <1>7, <1>11
<1>12. QED
  BY <1>8, <1>9, <1>10, <1>11

\* find_nearest takes the side of the tile that faces the node, in each
\* dimension.
LEMMA NearestCorner ==
  ASSUME NEW q \in Qubits, NEW n \in Int
  PROVE  find_nearest(q, n) = Corner(q, IF NodeRow(n) > TileRow(q) THEN 1 ELSE 0,
                                        IF NodeCol(n) > TileCol(q) THEN 1 ELSE 0)
<1> DEFINE t == top_left(q)
           w == num_cols
<1>1. t \in Int /\ w \in Nat \ {0}
  BY CornerType, MeshAssumption DEF Qubits
<1>2. /\ Corner(q, 0, 0) = t /\ Corner(q, 0, 1) = t + 1
      /\ Corner(q, 1, 0) = t + w + 1 /\ Corner(q, 1, 1) = t + w + 2
  BY CornersAreCorners DEF top_right, bottom_left, bottom_right
<1> DEFINE below == NodeRow(n) > TileRow(q)
           right == NodeCol(n) > TileCol(q)
<1>3. find_nearest(q, n) = t + (IF below THEN w + 1 ELSE 0) + (IF right THEN 1 ELSE 0)
  BY DEF find_nearest, TileRow, TileCol
<1> HIDE DEF t, w, below, right
<1>4. CASE below /\ right
  <2>1. find_nearest(q, n) = t + (w + 1) + 1
    BY <1>3, <1>4
  <2>2. QED
    BY <1>1, <1>2, <1>4, <2>1 DEF below, right
<1>5. CASE below /\ ~right
  <2>1. find_nearest(q, n) = t + (w + 1) + 0
    BY <1>3, <1>5
  <2>2. QED
    BY <1>1, <1>2, <1>5, <2>1 DEF below, right
<1>6. CASE ~below /\ right
  <2>1. find_nearest(q, n) = t + 0 + 1
    BY <1>3, <1>6
  <2>2. QED
    BY <1>1, <1>2, <1>6, <2>1 DEF below, right
<1>7. CASE ~below /\ ~right
  <2>1. find_nearest(q, n) = t + 0 + 0
    BY <1>3, <1>7
  <2>2. QED
    BY <1>1, <1>2, <1>7, <2>1 DEF below, right
<1>8. QED
  BY <1>4, <1>5, <1>6, <1>7

\* Nodes are told apart by their rows and columns.
LEMMA NodesDiffer ==
  ASSUME NEW r1 \in Int, NEW c1 \in Cols, NEW r2 \in Int, NEW c2 \in Cols,
         NodeAt(r1, c1) = NodeAt(r2, c2)
  PROVE  r1 = r2 /\ c1 = c2
BY RowColOfNode DEF Cols

\* The four sides of a tile are links of the mesh.
LEMMA SidesOfTile ==
  ASSUME NEW q \in Qubits, NEW a \in {0, 1}, NEW b \in {0, 1}
  PROVE  /\ edge(Corner(q, a, b), Corner(q, 1 - a, b)) \in Links
         /\ edge(Corner(q, a, b), Corner(q, a, 1 - b)) \in Links
<1> DEFINE r == TileRow(q)
           c == TileCol(q)
<1>1. /\ r \in 0 .. num_rows - 1 /\ c \in 0 .. num_cols - 1
      /\ r + a \in Rows /\ c + b \in Cols /\ r \in Rows /\ c \in Cols
  BY TilePlace, CornerPlace, MeshAssumption DEF Rows, Cols
<1>2. r # num_rows /\ c # num_cols
  BY <1>1, MeshAssumption
<1> HIDE DEF r, c
<1>3. /\ edge(NodeAt(r, c + b), NodeAt(r + 1, c + b)) \in Links
      /\ edge(NodeAt(r + a, c), NodeAt(r + a, c + 1)) \in Links
  BY <1>1, <1>2, LinksOfMesh
<1>4. r + 0 = r /\ c + 0 = c /\ 1 - 0 = 1 /\ 1 - 1 = 0
  BY <1>1
<1>5. \A x, y : edge(x, y) = edge(y, x)
  BY DEF edge
<1>6. edge(Corner(q, a, b), Corner(q, 1 - a, b)) \in Links
  BY <1>3, <1>4, <1>5 DEF Corner, r, c
<1>7. edge(Corner(q, a, b), Corner(q, a, 1 - b)) \in Links
  BY <1>3, <1>4, <1>5 DEF Corner, r, c
<1>8. QED
  BY <1>6, <1>7

\* From one coordinate to another, step by step.
LEMMA TowardSteps ==
  ASSUME NEW a \in Int, NEW b \in Int
  PROVE  /\ Distance(a, b) \in Nat
         /\ Toward(a, b, 0) = a /\ Toward(a, b, Distance(a, b)) = b
         /\ \A i \in 0 .. Distance(a, b) :
              /\ Toward(a, b, i) \in Int
              /\ \A lo, hi \in Int : a \in lo .. hi /\ b \in lo .. hi =>
                   Toward(a, b, i) \in lo .. hi
         /\ \A i \in 1 .. Distance(a, b) :
              Toward(a, b, i) - Toward(a, b, i - 1) \in {-1, 1}
BY DEF Toward, Distance

\* Two neighbours in a row, and two in a column, are linked.
LEMMA NeighboursLinked ==
  ASSUME NEW r \in Rows, NEW c \in Cols
  PROVE  /\ \A d \in Cols : d - c \in {-1, 1} => edge(NodeAt(r, c), NodeAt(r, d)) \in Links
         /\ \A s \in Rows : s - r \in {-1, 1} => edge(NodeAt(r, c), NodeAt(s, c)) \in Links
<1>1. \A x, y : edge(x, y) = edge(y, x)
  BY DEF edge
<1>2. ASSUME NEW d \in Cols, d - c \in {-1, 1}
      PROVE  edge(NodeAt(r, c), NodeAt(r, d)) \in Links
  <2>1. CASE d = c + 1
    <3>1. c # num_cols
      BY <2>1, MeshAssumption DEF Cols
    <3>2. QED
      BY <2>1, <3>1, LinksOfMesh
  <2>2. CASE c = d + 1
    <3>1. d # num_cols
      BY <2>2, MeshAssumption DEF Cols
    <3>2. edge(NodeAt(r, d), NodeAt(r, d + 1)) \in Links
      BY <3>1, LinksOfMesh
    <3>3. QED
      BY <1>1, <2>2, <3>2
  <2>3. QED
    BY <1>2, <2>1, <2>2 DEF Cols
<1>3. ASSUME NEW s \in Rows, s - r \in {-1, 1}
      PROVE  edge(NodeAt(r, c), NodeAt(s, c)) \in Links
  <2>1. CASE s = r + 1
    <3>1. r # num_rows
      BY <2>1, MeshAssumption DEF Rows
    <3>2. QED
      BY <2>1, <3>1, LinksOfMesh
  <2>2. CASE r = s + 1
    <3>1. s # num_rows
      BY <2>2, MeshAssumption DEF Rows
    <3>2. edge(NodeAt(s, c), NodeAt(s + 1, c)) \in Links
      BY <3>1, LinksOfMesh
    <3>3. QED
      BY <1>1, <2>2, <3>2
  <2>3. QED
    BY <1>3, <2>1, <2>2 DEF Rows
<1>4. QED
  BY <1>2, <1>3

\* A braid that follows the stops f[0], f[1] .. f[k] over the mesh.
Follows(b, f, k) ==
  /\ b.nodes = [i \in 1 .. k |-> f[i]]
  /\ b.links = [i \in 1 .. k |-> edge(f[i - 1], f[i])]
  /\ \A i \in 0 .. k : f[i] \in Nodes
  /\ \A i \in 1 .. k : edge(f[i - 1], f[i]) \in Links

\* A braid that follows stops from one place to another, between their rows.
Leads(b, r1, c1, r2, c2) ==
  \E k \in Nat : \E f :
    /\ Follows(b, f, k)
    /\ f[0] = NodeAt(r1, c1) /\ f[k] = NodeAt(r2, c2)
    /\ \A lo, hi \in Int : r1 \in lo .. hi /\ r2 \in lo .. hi =>
         \A i \in 0 .. k : NodeRow(f[i]) \in lo .. hi

\* braid_dor leads from one node to the other along one row and one column.
LEMMA DorFollows ==
  ASSUME NEW r1 \in Rows, NEW c1 \in Cols, NEW r2 \in Rows, NEW c2 \in Cols,
         NEW YX
  PROVE  Leads(braid_dor(NodeAt(r1, c1), NodeAt(r2, c2), YX), r1, c1, r2, c2)
<1> DEFINE rows == Distance(r1, r2)
           cols == Distance(c1, c2)
           k    == rows + cols
           row(i) == IF YX THEN IF i <= cols THEN r1 ELSE Toward(r1, r2, i - cols)
                           ELSE IF i <= rows THEN Toward(r1, r2, i) ELSE r2
           col(i) == IF YX THEN IF i <= cols THEN Toward(c1, c2, i) ELSE c2
                           ELSE IF i <= rows THEN c1 ELSE Toward(c1, c2, i - rows)
           Stop(i) ==
             IF YX
             THEN IF i <= cols THEN NodeAt(r1, Toward(c1, c2, i))
                  ELSE NodeAt(Toward(r1, r2, i - cols), c2)
             ELSE IF i <= rows THEN NodeAt(Toward(r1, r2, i), c1)
                  ELSE NodeAt(r2, Toward(c1, c2, i - rows))
           f == [i \in 0 .. k |-> Stop(i)]
           b == braid_dor(NodeAt(r1, c1), NodeAt(r2, c2), YX)
<1>1. /\ NodeRow(NodeAt(r1, c1)) = r1 /\ NodeCol(NodeAt(r1, c1)) = c1
      /\ NodeRow(NodeAt(r2, c2)) = r2 /\ NodeCol(NodeAt(r2, c2)) = c2
  BY RowColOfNode DEF Rows, Cols
<1>2. b = Braid([i \in 1 .. k |-> Stop(i)],
                [i \in 1 .. k |-> edge(Stop(i - 1), Stop(i))])
  BY <1>1 DEF braid_dor
<1>3. /\ r1 \in Int /\ r2 \in Int /\ c1 \in Int /\ c2 \in Int
      /\ num_rows \in Int /\ num_cols \in Int /\ 0 \in Int
      /\ r1 \in 0 .. num_rows /\ r2 \in 0 .. num_rows
      /\ c1 \in 0 .. num_cols /\ c2 \in 0 .. num_cols
  BY MeshAssumption DEF Rows, Cols
<1>4. rows \in Nat /\ cols \in Nat
  BY <1>3, TowardSteps
<1>5. /\ \A i \in 0 .. rows :
           /\ Toward(r1, r2, i) \in Int
           /\ \A lo, hi \in Int : r1 \in lo .. hi /\ r2 \in lo .. hi =>
                Toward(r1, r2, i) \in lo .. hi
      /\ \A i \in 0 .. cols :
           /\ Toward(c1, c2, i) \in Int
           /\ Toward(c1, c2, i) \in 0 .. num_cols
      /\ \A i \in 1 .. rows : Toward(r1, r2, i) - Toward(r1, r2, i - 1) \in {-1, 1}
      /\ \A i \in 1 .. cols : Toward(c1, c2, i) - Toward(c1, c2, i - 1) \in {-1, 1}
      /\ Toward(r1, r2, 0) = r1 /\ Toward(r1, r2, rows) = r2
      /\ Toward(c1, c2, 0) = c1 /\ Toward(c1, c2, cols) = c2
  BY <1>3, TowardSteps
<1> HIDE DEF rows, cols
<1>6. k \in Nat
  BY <1>4
<1>7. \A i : Stop(i) = NodeAt(row(i), col(i))
  OBVIOUS
<1>8. ASSUME NEW i \in 0 .. k
      PROVE  /\ row(i) \in Int /\ col(i) \in Cols
             /\ \A lo, hi \in Int : r1 \in lo .. hi /\ r2 \in lo .. hi => row(i) \in lo .. hi
  <2>1. CASE YX
    <3>1. CASE i <= cols
      <4>1. i \in 0 .. cols
        BY <1>4, <3>1
      <4>2. row(i) = r1 /\ col(i) = Toward(c1, c2, i)
        BY <2>1, <3>1
      <4>3. QED
        BY <1>3, <1>5, <4>1, <4>2 DEF Cols
    <3>2. CASE ~(i <= cols)
      <4>1. i - cols \in 0 .. rows
        BY <1>4, <3>2
      <4>2. row(i) = Toward(r1, r2, i - cols) /\ col(i) = c2
        BY <2>1, <3>2
      <4>3. QED
        BY <1>3, <1>5, <4>1, <4>2 DEF Cols
    <3>3. QED
      BY <3>1, <3>2
  <2>2. CASE ~YX
    <3>1. CASE i <= rows
      <4>1. i \in 0 .. rows
        BY <1>4, <3>1
      <4>2. row(i) = Toward(r1, r2, i) /\ col(i) = c1
        BY <2>2, <3>1
      <4>3. QED
        BY <1>3, <1>5, <4>1, <4>2 DEF Cols
    <3>2. CASE ~(i <= rows)
      <4>1. i - rows \in 0 .. cols
        BY <1>4, <3>2
      <4>2. row(i) = r2 /\ col(i) = Toward(c1, c2, i - rows)
        BY <2>2, <3>2
      <4>3. QED
        BY <1>3, <1>5, <4>1, <4>2 DEF Cols
    <3>3. QED
      BY <3>1, <3>2
  <2>3. QED
    BY <2>1, <2>2
<1>9. \A i \in 0 .. k : row(i) \in Rows
  BY <1>3, <1>8 DEF Rows
<1>10. /\ row(0) = r1 /\ col(0) = c1
       /\ row(k) = r2 /\ col(k) = c2
  <2>1. CASE YX
    <3>1. row(0) = r1 /\ col(0) = c1
      BY <1>4, <1>5, <2>1
    <3>2. CASE rows = 0
      <4>1. k = cols /\ k <= cols /\ r1 = r2
        BY <1>4, <1>5, <3>2
      <4>2. row(k) = r1 /\ col(k) = Toward(c1, c2, k)
        BY <2>1, <4>1
      <4>3. QED
        BY <1>5, <3>1, <4>1, <4>2
    <3>3. CASE rows # 0
      <4>1. ~(k <= cols) /\ k - cols = rows
        BY <1>4, <3>3
      <4>2. row(k) = Toward(r1, r2, k - cols) /\ col(k) = c2
        BY <2>1, <4>1
      <4>3. QED
        BY <1>5, <3>1, <4>1, <4>2
    <3>4. QED
      BY <3>2, <3>3
  <2>2. CASE ~YX
    <3>1. row(0) = r1 /\ col(0) = c1
      BY <1>4, <1>5, <2>2
    <3>2. CASE cols = 0
      <4>1. k = rows /\ k <= rows /\ c1 = c2
        BY <1>4, <1>5, <3>2
      <4>2. row(k) = Toward(r1, r2, k) /\ col(k) = c1
        BY <2>2, <4>1
      <4>3. QED
        BY <1>5, <3>1, <4>1, <4>2
    <3>3. CASE cols # 0
      <4>1. ~(k <= rows) /\ k - rows = cols
        BY <1>4, <3>3
      <4>2. row(k) = r2 /\ col(k) = Toward(c1, c2, k - rows)
        BY <2>2, <4>1
      <4>3. QED
        BY <1>5, <3>1, <4>1, <4>2
    <3>4. QED
      BY <3>2, <3>3
  <2>3. QED
    BY <2>1, <2>2
<1>11. ASSUME NEW i \in 1 .. k
       PROVE  \/ row(i) = row(i - 1) /\ col(i) - col(i - 1) \in {-1, 1}
              \/ col(i) = col(i - 1) /\ row(i) - row(i - 1) \in {-1, 1}
  <2>1. CASE YX
    <3>1. CASE i <= cols
      <4>1. i - 1 <= cols /\ i \in 1 .. cols
        BY <1>4, <3>1
      <4>2. /\ row(i) = r1 /\ row(i - 1) = r1
            /\ col(i) = Toward(c1, c2, i) /\ col(i - 1) = Toward(c1, c2, i - 1)
        BY <2>1, <3>1, <4>1
      <4>3. QED
        BY <1>5, <4>1, <4>2
    <3>2. CASE ~(i <= cols)
      <4>1. /\ i - cols \in 1 .. rows /\ (i - cols) - 1 = (i - 1) - cols
            /\ i - 1 <= cols => i - 1 = cols /\ (i - cols) - 1 = 0
        BY <1>4, <3>2
      <4>2. row(i) = Toward(r1, r2, i - cols) /\ col(i) = c2
        BY <2>1, <3>2
      <4>3. /\ col(i - 1) = c2
            /\ row(i - 1) = Toward(r1, r2, (i - cols) - 1)
        <5>1. CASE i - 1 <= cols
          <6>1. row(i - 1) = r1 /\ col(i - 1) = Toward(c1, c2, i - 1)
            BY <2>1, <5>1
          <6>2. i - 1 = cols /\ (i - cols) - 1 = 0
            BY <4>1, <5>1
          <6>3. QED
            BY <1>5, <6>1, <6>2
        <5>2. CASE ~(i - 1 <= cols)
          <6>1. row(i - 1) = Toward(r1, r2, (i - 1) - cols) /\ col(i - 1) = c2
            BY <2>1, <5>2
          <6>2. QED
            BY <4>1, <6>1
        <5>3. QED
          BY <5>1, <5>2
      <4>4. QED
        BY <1>5, <4>1, <4>2, <4>3
    <3>3. QED
      BY <3>1, <3>2
  <2>2. CASE ~YX
    <3>1. CASE i <= rows
      <4>1. i - 1 <= rows /\ i \in 1 .. rows
        BY <1>4, <3>1
      <4>2. /\ col(i) = c1 /\ col(i - 1) = c1
            /\ row(i) = Toward(r1, r2, i) /\ row(i - 1) = Toward(r1, r2, i - 1)
        BY <2>2, <3>1, <4>1
      <4>3. QED
        BY <1>5, <4>1, <4>2
    <3>2. CASE ~(i <= rows)
      <4>1. /\ i - rows \in 1 .. cols /\ (i - rows) - 1 = (i - 1) - rows
            /\ i - 1 <= rows => i - 1 = rows /\ (i - rows) - 1 = 0
        BY <1>4, <3>2
      <4>2. row(i) = r2 /\ col(i) = Toward(c1, c2, i - rows)
        BY <2>2, <3>2
      <4>3. /\ row(i - 1) = r2
            /\ col(i - 1) = Toward(c1, c2, (i - rows) - 1)
        <5>1. CASE i - 1 <= rows
          <6>1. row(i - 1) = Toward(r1, r2, i - 1) /\ col(i - 1) = c1
            BY <2>2, <5>1
          <6>2. i - 1 = rows /\ (i - rows) - 1 = 0
            BY <4>1, <5>1
          <6>3. QED
            BY <1>5, <6>1, <6>2
        <5>2. CASE ~(i - 1 <= rows)
          <6>1. row(i - 1) = r2 /\ col(i - 1) = Toward(c1, c2, (i - 1) - rows)
            BY <2>2, <5>2
          <6>2. QED
            BY <4>1, <6>1
        <5>3. QED
          BY <5>1, <5>2
      <4>4. QED
        BY <1>5, <4>1, <4>2, <4>3
    <3>3. QED
      BY <3>1, <3>2
  <2>3. QED
    BY <2>1, <2>2
<1> HIDE DEF row, col, Stop
<1>12. \A i \in 1 .. k : i \in 0 .. k /\ i - 1 \in 0 .. k
  BY <1>6
<1>13. \A i \in 1 .. k : edge(Stop(i - 1), Stop(i)) \in Links
  <2> SUFFICES ASSUME NEW i \in 1 .. k PROVE edge(Stop(i - 1), Stop(i)) \in Links
    OBVIOUS
  <2>1. /\ row(i) \in Rows /\ row(i - 1) \in Rows
        /\ col(i) \in Cols /\ col(i - 1) \in Cols
    BY <1>8, <1>9, <1>12
  <2>2. edge(NodeAt(row(i - 1), col(i - 1)), NodeAt(row(i), col(i))) \in Links
    BY <1>11, <2>1, NeighboursLinked
  <2>3. QED
    BY <1>7, <2>2
<1>14. \A i \in 0 .. k : Stop(i) \in Nodes /\ NodeRow(Stop(i)) = row(i)
  BY <1>7, <1>8, <1>9, NodesOfMesh, RowColOfNode DEF Cols
<1>15. 0 \in 0 .. k /\ k \in 0 .. k
  BY <1>6
<1>16. f[0] = NodeAt(r1, c1) /\ f[k] = NodeAt(r2, c2)
  BY <1>7, <1>10, <1>15
<1>17. \A i \in 0 .. k : f[i] = Stop(i)
  OBVIOUS
<1> HIDE DEF f, k
<1>18. Follows(b, f, k)
  <2>1. [i \in 1 .. k |-> Stop(i)] = [i \in 1 .. k |-> f[i]]
    BY <1>12, <1>17
  <2>2. [i \in 1 .. k |-> edge(Stop(i - 1), Stop(i))] = [i \in 1 .. k |-> edge(f[i - 1], f[i])]
    BY <1>12, <1>17
  <2>3. b.nodes = [i \in 1 .. k |-> f[i]] /\ b.links = [i \in 1 .. k |-> edge(f[i - 1], f[i])]
    BY <1>2, <2>1, <2>2 DEF Braid
  <2>4. /\ \A i \in 0 .. k : f[i] \in Nodes
        /\ \A i \in 1 .. k : edge(f[i - 1], f[i]) \in Links
    BY <1>12, <1>13, <1>14, <1>17
  <2>5. QED
    BY <2>3, <2>4 DEF Follows
<1>19. \A lo, hi \in Int : r1 \in lo .. hi /\ r2 \in lo .. hi =>
         \A i \in 0 .. k : NodeRow(f[i]) \in lo .. hi
  BY <1>8, <1>14, <1>17
<1>20. QED
  BY <1>6, <1>16, <1>18, <1>19 DEF Leads

\* The braids around and through a tile, from corner to corner.
LEMMA TileBraids ==
  ASSUME NEW q \in Qubits, NEW a \in {0, 1}, NEW b \in {0, 1}
  PROVE  /\ braid_S(q, Corner(q, a, b)) =
              Braid(<<Corner(q, 1 - a, 1 - b)>>,
                    <<edge(Corner(q, a, b), Corner(q, 1 - a, b)),
                      edge(Corner(q, 1 - a, 1 - b), Corner(q, a, 1 - b))>>)
         /\ braid_short_L(q, Corner(q, a, b)) =
              Braid(<<Corner(q, a, 1 - b), Corner(q, 1 - a, 1 - b)>>,
                    <<edge(Corner(q, a, b), Corner(q, a, 1 - b)),
                      edge(Corner(q, a, 1 - b), Corner(q, 1 - a, 1 - b))>>)
<1>2. /\ find_diagonal(q, Corner(q, a, b)) = Corner(q, 1 - a, 1 - b)
      /\ find_vertical(q, Corner(q, a, b)) = Corner(q, 1 - a, b)
      /\ find_horizontal(q, Corner(q, a, b)) = Corner(q, a, 1 - b)
  BY OtherCorners
<1> DEFINE n == Corner(q, a, b)
<1> HIDE DEF n
<1>3. braid_S(q, n) =
        Braid(<<find_diagonal(q, n)>>,
              <<edge(n, find_vertical(q, n)),
                edge(find_diagonal(q, n), find_horizontal(q, n))>>)
  BY DEF braid_S
<1>4. braid_short_L(q, n) =
        Braid(<<find_horizontal(q, n), find_diagonal(q, n)>>,
              <<edge(n, find_horizontal(q, n)),
                edge(find_horizontal(q, n), find_diagonal(q, n))>>)
  BY DEF braid_short_L
<1>5. QED
  BY <1>2, <1>3, <1>4 DEF n

\* Tiles in one place are one tile.
LEMMA SameTile ==
  ASSUME NEW p \in Qubits, NEW q \in Qubits, TileRow(p) = TileRow(q), TileCol(p) = TileCol(q)
  PROVE  p = q
BY TilePlace

\* The corners between which the routes of two tiles that are not side by side
\* run: u is the row of the ancilla's side, a and b the nearest corner of dest.
Corridor(src, dest, u, a, b) ==
  \/ u = 0 /\ a = 0 /\ TileRow(src) < TileRow(dest)
  \/ u = 1 /\ a = 1 /\ TileRow(dest) < TileRow(src)
  \/ /\ u = 1 /\ a = 0 /\ TileRow(dest) = TileRow(src)
     /\ \/ b = 1 /\ TileCol(dest) + 1 < TileCol(src)
        \/ b = 0 /\ TileCol(src) + 1 < TileCol(dest)

\* The routes of tiles that are not side by side: out through the source, along
\* the corridor, and round the destination.
LEMMA DistantShape ==
  ASSUME NEW src \in Qubits, NEW dest \in Qubits, src # dest,
         ~are_adjacent(src, dest)
  PROVE  \E u, a, b \in {0, 1} :
           LET anc == cnot_ancillas(src, dest)
           IN  /\ Corridor(src, dest, u, a, b)
               /\ anc.anc1 = Corner(src, u, 1 - u) /\ anc.anc2 = Corner(src, u, u)
               /\ find_nearest(dest, find_diagonal(src, anc.anc1)) = Corner(dest, a, b)
               /\ \A YX : distant_routes(src, dest, anc.anc1, YX) =
                    [route_1 |-> braid_merge(
                                   braid_merge(braid_S(src, Corner(src, u, 1 - u)),
                                               braid_dor(Corner(src, 1 - u, u), Corner(dest, a, b), YX)),
                                   braid_S(dest, Corner(dest, a, b))),
                     route_2 |-> braid_merge(
                                   braid_merge(braid_short_L(dest, Corner(dest, 1 - a, 1 - b)),
                                               braid_dor(Corner(dest, a, b), Corner(src, 1 - u, 1 - u), YX)),
                                   braid_S(src, Corner(src, 1 - u, 1 - u)))]
<1> DEFINE anc == cnot_ancillas(src, dest)
           R  == TileRow(src)
           C  == TileCol(src)
           R2 == TileRow(dest)
           C2 == TileCol(dest)
           u  == IF R < R2 THEN 0 ELSE 1
           v  == 1 - u
           a  == IF R + v > R2 THEN 1 ELSE 0
           b  == IF C + u > C2 THEN 1 ELSE 0
<1>1. R \in Int /\ C \in Int /\ R2 \in Int /\ C2 \in Int
  BY TilePlace
<1>2. ~(R = R2 /\ C - C2 \in {-1, 1})
  BY DEF are_adjacent, TileRow, TileCol
<1>3. ~(R = R2 /\ C = C2)
  BY SameTile
<1>4. anc.anc1 = Corner(src, u, 1 - u) /\ anc.anc2 = Corner(src, u, u)
  <2>1. anc = IF R < R2 THEN [anc1 |-> top_right(src),   anc2 |-> top_left(src)]
                        ELSE [anc1 |-> bottom_left(src), anc2 |-> bottom_right(src)]
    BY DEF cnot_ancillas, TileRow
  <2>2. 1 - 0 = 1 /\ 1 - 1 = 0
    OBVIOUS
  <2> HIDE DEF anc, R, R2
  <2>3. QED
    BY <2>1, <2>2, CornersAreCorners
<1> HIDE DEF anc
<1>5. /\ u \in {0, 1} /\ v \in {0, 1} /\ 1 - v = u
      /\ a \in {0, 1} /\ b \in {0, 1} /\ 1 - (1 - u) = u
  OBVIOUS
<1>6. Corridor(src, dest, u, a, b)
  <2> HIDE DEF R, C, R2, C2
  <2>1. \/ u = 0 /\ a = 0 /\ R < R2
        \/ u = 1 /\ a = 1 /\ R2 < R
        \/ u = 1 /\ a = 0 /\ R2 = R /\ ((b = 1 /\ C2 + 1 < C) \/ (b = 0 /\ C + 1 < C2))
    BY <1>1, <1>2, <1>3
  <2>2. QED
    BY <2>1 DEF Corridor, R, C, R2, C2
<1>7. /\ find_diagonal(src, anc.anc1) = Corner(src, v, u)
      /\ find_vertical(src, anc.anc1) = Corner(src, v, v)
  <2> HIDE DEF u
  <2>1. QED
    BY <1>4, <1>5, OtherCorners
<1>8. find_nearest(dest, Corner(src, v, u)) = Corner(dest, a, b)
  <2> HIDE DEF u, v
  <2>1. /\ NodeRow(Corner(src, v, u)) = R + v /\ NodeCol(Corner(src, v, u)) = C + u
        /\ Corner(src, v, u) \in Int
    BY <1>5, CornerPlace, MeshAssumption DEF Nodes
  <2>2. QED
    BY <2>1, NearestCorner
<1>9. find_diagonal(dest, Corner(dest, a, b)) = Corner(dest, 1 - a, 1 - b)
  BY <1>5, OtherCorners
<1> HIDE DEF u, a, b
<1>10. QED
  BY <1>4, <1>5, <1>6, <1>7, <1>8, <1>9 DEF distant_routes, anc, v

\* Tiles side by side: w is 1 when dest is to the right, 0 when it is to the
\* left.
LEMMA AdjacentShape ==
  ASSUME NEW src \in Qubits, NEW dest \in Qubits, are_adjacent(src, dest)
  PROVE  \E w \in {0, 1} :
           LET anc == cnot_ancillas(src, dest)
               l1  == edge(Corner(src, 0, 1 - w), Corner(src, 1, 1 - w))
               l2  == edge(Corner(src, 0, w), Corner(src, 1, w))
               l3  == edge(Corner(dest, 1, w), Corner(dest, 0, w))
               l4  == edge(Corner(dest, 1, w), Corner(dest, 1, 1 - w))
           IN  /\ anc.anc1 = Corner(src, 0, 1 - w) /\ anc.anc2 = Corner(src, 1, 1 - w)
               /\ TileRow(dest) = TileRow(src)
               /\ TileCol(dest) = TileCol(src) + (2 * w) - 1
               /\ Corner(src, 1, w) = Corner(dest, 1, 1 - w)
               /\ adjacent_routes(src, dest, anc.anc1) =
                    [route_1 |-> Braid(<<Corner(dest, 1, w)>>, <<l1, l2, l3>>),
                     route_2 |-> Braid(<<Corner(src, 1, w), Corner(src, 1, 1 - w)>>,
                                       <<l4, l2, l1>>)]
<1> DEFINE anc == cnot_ancillas(src, dest)
           R  == TileRow(src)
           C  == TileCol(src)
           R2 == TileRow(dest)
           C2 == TileCol(dest)
           w  == IF src < dest THEN 1 ELSE 0
<1>1. /\ R \in Int /\ C \in Int /\ R2 \in Int /\ C2 \in Int
      /\ src = R * num_cols + C /\ dest = R2 * num_cols + C2
  BY TilePlace
<1>2. R = R2 /\ C - C2 \in {-1, 1}
  BY DEF are_adjacent, TileRow, TileCol
<1>3. C2 = C + (2 * w) - 1
  <2>1. R * num_cols \in Int
    BY <1>1, MeshAssumption
  <2> HIDE DEF R, C, R2, C2
  <2>2. CASE src < dest
    BY <1>1, <1>2, <2>1, <2>2
  <2>3. CASE ~(src < dest)
    BY <1>1, <1>2, <2>1, <2>3
  <2>4. QED
    BY <2>2, <2>3
<1>4. w \in {0, 1} /\ 1 - w \in {0, 1} /\ 1 - (1 - w) = w /\ 1 - 0 = 1 /\ 1 - 1 = 0
  OBVIOUS
<1>5. anc.anc1 = Corner(src, 0, 1 - w) /\ anc.anc2 = Corner(src, 1, 1 - w)
  BY <1>4, CornersAreCorners DEF cnot_ancillas
<1> HIDE DEF w, anc
<1>6. Corner(src, 1, w) = Corner(dest, 1, 1 - w)
  <2>1. C + w = C2 + (1 - w)
    BY <1>1, <1>3, <1>4
  <2>2. QED
    BY <1>2, <2>1 DEF Corner
<1>7. /\ find_horizontal(src, anc.anc1) = Corner(src, 0, w)
      /\ find_diagonal(src, anc.anc1) = Corner(src, 1, w)
      /\ find_vertical(src, anc.anc1) = Corner(src, 1, 1 - w)
  BY <1>4, <1>5, OtherCorners
<1>8. find_horizontal(dest, Corner(src, 1, w)) = Corner(dest, 1, w)
  BY <1>4, <1>6, OtherCorners
<1>9. find_vertical(dest, Corner(dest, 1, w)) = Corner(dest, 0, w)
  BY <1>4, OtherCorners
<1>10. edge(Corner(dest, 1, w), Corner(src, 1, w)) = edge(Corner(dest, 1, w), Corner(dest, 1, 1 - w))
  BY <1>6
<1>11. QED
  BY <1>2, <1>3, <1>4, <1>5, <1>6, <1>7, <1>8, <1>9, <1>10 DEF adjacent_routes, anc

-----------------------------------------------------------------------------
(* What braids engage *)

\* The last element of a sequence and the sequence before it.
LEMMA LastFrontType ==
  ASSUME NEW S, NEW s \in Seq(S), s # <<>>
  PROVE  /\ Last(s) \in S
         /\ Front(s) \in Seq(S)
<1>1. Len(s) \in Nat \ {0}
  BY EmptySeq
<1>2. Last(s) \in S
  BY <1>1, ElementOfSeq DEF Last
<1>3. Front(s) \in Seq(S)
  <2>1. \A i \in 1 .. Len(s) - 1 : s[i] \in S
    BY <1>1, ElementOfSeq
  <2>2. SubSeq(s, 1, Len(s) - 1) \in Seq(S)
    BY <1>1, <2>1, SubSeqProperties
  <2>3. QED
    BY <2>2 DEF Front
<1>4. QED
  BY <1>2, <1>3

\* Elements and end of two sequences in a row.
LEMMA ConcatEnds ==
  ASSUME NEW S, NEW s \in Seq(S), NEW t \in Seq(S)
  PROVE  /\ Range(s \o t) = Range(s) \union Range(t)
         /\ t # <<>> => /\ Last(s \o t) = Last(t)
                        /\ Range(Front(s \o t)) = Range(s) \union Range(Front(t))
<1> DEFINE c == s \o t
<1>1. /\ Len(s) \in Nat /\ Len(t) \in Nat
      /\ DOMAIN s = 1 .. Len(s) /\ DOMAIN t = 1 .. Len(t)
      /\ c \in Seq(S) /\ Len(c) = Len(s) + Len(t) /\ DOMAIN c = 1 .. Len(c)
      /\ \A i \in 1 .. Len(s) + Len(t) : c[i] = IF i <= Len(s) THEN s[i] ELSE t[i - Len(s)]
  BY ConcatProperties, LenProperties
<1> HIDE DEF c
<1>2. \A i \in 1 .. Len(s) : i \in 1 .. Len(s) + Len(t) /\ i <= Len(s) /\ c[i] = s[i]
  BY <1>1
<1>3. \A i \in 1 .. Len(t) : i + Len(s) \in 1 .. Len(s) + Len(t) /\ c[i + Len(s)] = t[i]
  <2> SUFFICES ASSUME NEW i \in 1 .. Len(t)
               PROVE  i + Len(s) \in 1 .. Len(s) + Len(t) /\ c[i + Len(s)] = t[i]
    OBVIOUS
  <2>1. i + Len(s) \in 1 .. Len(s) + Len(t) /\ ~(i + Len(s) <= Len(s)) /\ (i + Len(s)) - Len(s) = i
    BY <1>1
  <2>2. QED
    BY <1>1, <2>1
<1>4. \A i \in 1 .. Len(s) + Len(t) :
        i \in 1 .. Len(s) \/ (i - Len(s) \in 1 .. Len(t) /\ c[i] = t[i - Len(s)])
  BY <1>1
<1>5. Range(c) = Range(s) \union Range(t)
  <2>1. /\ Range(c) = {c[i] : i \in 1 .. Len(s) + Len(t)}
        /\ Range(s) = {s[i] : i \in 1 .. Len(s)} /\ Range(t) = {t[i] : i \in 1 .. Len(t)}
    BY <1>1 DEF Range
  <2>2. \A x \in Range(c) : x \in Range(s) \/ x \in Range(t)
    BY <1>2, <1>4, <2>1
  <2>3. \A x \in Range(s) : x \in Range(c)
    BY <1>2, <2>1
  <2>4. \A x \in Range(t) : x \in Range(c)
    BY <1>3, <2>1
  <2>5. QED
    BY <2>2, <2>3, <2>4
<1>6. ASSUME t # <<>>
      PROVE  /\ Last(c) = Last(t)
             /\ Range(Front(c)) = Range(s) \union Range(Front(t))
  <2>1. Len(t) > 0 /\ Len(t) \in 1 .. Len(t)
    BY <1>1, <1>6, EmptySeq
  <2>2. Len(c) = Len(t) + Len(s)
    BY <1>1
  <2>3. Last(c) = Last(t)
    BY <1>3, <2>1, <2>2 DEF Last
  <2>4. /\ c # <<>>
        /\ \A i \in 1 .. Len(c) - 1 : c[i] \in S
        /\ \A i \in 1 .. Len(t) - 1 : t[i] \in S
    BY <1>1, <2>1, EmptySeq, ElementOfSeq
  <2>5. /\ Front(c) = SubSeq(c, 1, Len(c) - 1) /\ Front(t) = SubSeq(t, 1, Len(t) - 1)
    BY DEF Front
  <2>6. /\ Len(Front(c)) = Len(c) - 1 /\ Len(Front(t)) = Len(t) - 1
        /\ \A i \in 1 .. Len(c) - 1 : Front(c)[i] = c[i]
        /\ \A i \in 1 .. Len(t) - 1 : Front(t)[i] = t[i]
        /\ Front(c) \in Seq(S) /\ Front(t) \in Seq(S)
    BY <1>1, <1>6, <2>1, <2>4, <2>5, SubSeqProperties, LastFrontType
  <2>7. DOMAIN Front(c) = 1 .. Len(c) - 1 /\ DOMAIN Front(t) = 1 .. Len(t) - 1
    BY <2>6, LenProperties
  <2>8. /\ \A i \in 1 .. Len(s) : i \in 1 .. Len(c) - 1
        /\ \A i \in 1 .. Len(t) - 1 : i + Len(s) \in 1 .. Len(c) - 1 /\ i \in 1 .. Len(t)
        /\ \A i \in 1 .. Len(c) - 1 : i \in 1 .. Len(s) + Len(t)
        /\ \A i \in 1 .. Len(c) - 1 : i \in 1 .. Len(s) \/ i - Len(s) \in 1 .. Len(t) - 1
    BY <1>1, <2>1, <2>2
  <2>9. \A x : x \in Range(Front(c)) <=> x \in Range(s) \/ x \in Range(Front(t))
    <3> SUFFICES ASSUME NEW x
                 PROVE  x \in Range(Front(c)) <=> x \in Range(s) \/ x \in Range(Front(t))
      OBVIOUS
    <3>1. ASSUME NEW i \in 1 .. Len(c) - 1, x = Front(c)[i]
          PROVE  x \in Range(s) \/ x \in Range(Front(t))
      <4>1. x = c[i]
        BY <2>6, <3>1
      <4>2. CASE i \in 1 .. Len(s)
        BY <1>1, <1>2, <4>1, <4>2 DEF Range
      <4>3. CASE i \notin 1 .. Len(s)
        <5>1. i - Len(s) \in 1 .. Len(t) - 1 /\ c[i] = t[i - Len(s)]
          BY <1>4, <2>8, <4>3
        <5>2. QED
          BY <2>6, <2>7, <4>1, <5>1 DEF Range
      <4>4. QED
        BY <4>2, <4>3
    <3>2. ASSUME NEW i \in 1 .. Len(s), x = s[i]
          PROVE  x \in Range(Front(c))
      BY <1>2, <2>6, <2>7, <2>8, <3>2 DEF Range
    <3>3. ASSUME NEW i \in 1 .. Len(t) - 1, x = Front(t)[i]
          PROVE  x \in Range(Front(c))
      <4>1. x = t[i] /\ i \in 1 .. Len(t) /\ i + Len(s) \in 1 .. Len(c) - 1
        BY <2>6, <2>8, <3>3
      <4>2. x = c[i + Len(s)]
        BY <1>3, <4>1
      <4>3. x = Front(c)[i + Len(s)]
        BY <2>6, <4>1, <4>2
      <4>4. QED
        BY <2>7, <4>1, <4>3 DEF Range
    <3>4. QED
      BY <1>1, <2>7, <3>1, <3>2, <3>3 DEF Range
  <2>10. QED
    BY <2>3, <2>9
<1>7. QED
  BY <1>5, <1>6 DEF c

\* Merged braids engage what both engage, and end where the second ends.
LEMMA MergeEnds ==
  ASSUME NEW b1 \in BraidType, NEW b2 \in BraidType
  PROVE  LET b == braid_merge(b1, b2)
         IN  /\ b \in BraidType
             /\ Range(b.nodes) = Range(b1.nodes) \union Range(b2.nodes)
             /\ Range(b.links) = Range(b1.links) \union Range(b2.links)
             /\ b2 \in FullBraidType =>
                  /\ Last(b.nodes) = Last(b2.nodes) /\ Last(b.links) = Last(b2.links)
                  /\ Range(Front(b.links)) = Range(b1.links) \union Range(Front(b2.links))
<1>1. /\ b1.nodes \in Seq(Int) /\ b2.nodes \in Seq(Int)
      /\ b1.links \in Seq(SUBSET Int) /\ b2.links \in Seq(SUBSET Int)
  BY DEF BraidType
<1> DEFINE b == braid_merge(b1, b2)
<1>2. b.nodes = b1.nodes \o b2.nodes /\ b.links = b1.links \o b2.links
  BY DEF braid_merge, Braid
<1>3. b \in BraidType
  BY MergeType
<1> HIDE DEF b
<1>4. /\ Range(b.nodes) = Range(b1.nodes) \union Range(b2.nodes)
      /\ Range(b.links) = Range(b1.links) \union Range(b2.links)
  BY <1>1, <1>2, ConcatEnds
<1>5. ASSUME b2 \in FullBraidType
      PROVE  /\ Last(b.nodes) = Last(b2.nodes) /\ Last(b.links) = Last(b2.links)
             /\ Range(Front(b.links)) = Range(b1.links) \union Range(Front(b2.links))
  <2>1. b2.nodes # <<>> /\ b2.links # <<>>
    BY <1>5 DEF FullBraidType
  <2>2. QED
    BY <1>1, <1>2, <2>1, ConcatEnds
<1>6. QED
  BY <1>3, <1>4, <1>5 DEF b

\* Elements and ends of sequences of one and of two elements.
LEMMA PairEnds ==
  ASSUME NEW x, NEW y
  PROVE  /\ Range(<<x>>) = {x} /\ Last(<<x>>) = x
         /\ Range(<<x, y>>) = {x, y} /\ Last(<<x, y>>) = y /\ Range(Front(<<x, y>>)) = {x}
<1> DEFINE S == {x, y}
<1>0. x \in S /\ y \in S
  OBVIOUS
<1> HIDE DEF S
<1>1. Range(<<x>>) = {x} /\ Range(<<x, y>>) = {x, y}
  BY DEF Range
<1>2. Last(<<x>>) = x /\ Last(<<x, y>>) = y
  BY DEF Last
<1>3. Front(<<x, y>>) = <<x>>
  <2>1. <<x, y>> \in Seq(S) /\ Len(<<x, y>>) = 2 /\ <<x, y>>[1] = x
    BY <1>0
  <2>2. SubSeq(<<x, y>>, 1, 1) = <<x>>
    <3>1. /\ SubSeq(<<x, y>>, 1, 1) \in Seq(S)
          /\ Len(SubSeq(<<x, y>>, 1, 1)) = 1
          /\ SubSeq(<<x, y>>, 1, 1)[1] = x
      <4>1. \A i \in 1 .. 1 : <<x, y>>[i] \in S
        BY <2>1
      <4>2. QED
        BY <2>1, <4>1, SubSeqProperties
    <3>2. <<x>> \in Seq(S) /\ Len(<<x>>) = 1 /\ <<x>>[1] = x
      BY <1>0
    <3>3. \A i \in 1 .. 1 : i = 1
      OBVIOUS
    <3> DEFINE t == SubSeq(<<x, y>>, 1, 1)
               z == <<x>>
    <3>4. t \in Seq(S) /\ z \in Seq(S) /\ Len(t) = 1 /\ Len(z) = 1 /\ t[1] = x /\ z[1] = x
      BY <3>1, <3>2
    <3> HIDE DEF t, z
    <3>5. t = z
      BY <3>3, <3>4, SeqEqual
    <3>6. QED
      BY <3>5 DEF t, z
  <2>3. QED
    BY <2>1, <2>2 DEF Front
<1>4. QED
  BY <1>1, <1>2, <1>3

\* The braid that follows stops engages them, but the first.
LEMMA FollowsRange ==
  ASSUME NEW b, NEW f, NEW k \in Nat, Follows(b, f, k)
  PROVE  /\ Range(b.nodes) = {f[i] : i \in 1 .. k}
         /\ Range(b.nodes) \subseteq Nodes /\ Range(b.links) \subseteq Links
         /\ \A l \in Range(b.links) : \E i, j \in 0 .. k : l = edge(f[i], f[j])
<1>1. /\ b.nodes = [i \in 1 .. k |-> f[i]]
      /\ b.links = [i \in 1 .. k |-> edge(f[i - 1], f[i])]
      /\ \A i \in 0 .. k : f[i] \in Nodes
      /\ \A i \in 1 .. k : edge(f[i - 1], f[i]) \in Links
  BY DEF Follows
<1>2. \A i \in 1 .. k : i \in 0 .. k /\ i - 1 \in 0 .. k
  OBVIOUS
<1>3. /\ DOMAIN b.nodes = 1 .. k /\ DOMAIN b.links = 1 .. k
      /\ \A i \in 1 .. k : b.nodes[i] = f[i] /\ b.links[i] = edge(f[i - 1], f[i])
      /\ \A i \in 1 .. k : f[i] \in Nodes /\ edge(f[i - 1], f[i]) \in Links
      /\ \A i \in 1 .. k : i \in 0 .. k /\ i - 1 \in 0 .. k
  BY <1>1, <1>2
<1>4. Range(b.nodes) = {f[i] : i \in 1 .. k}
  <2>1. Range(b.nodes) = {b.nodes[i] : i \in 1 .. k}
    BY <1>3 DEF Range
  <2>2. \A i \in 1 .. k : b.nodes[i] = f[i]
    BY <1>3
  <2>3. QED
    BY <2>1, <2>2, Zenon
<1>5. Range(b.nodes) \subseteq Nodes
  BY <1>3, <1>4
<1>6. \A l \in Range(b.links) : \E i \in 1 .. k : l = edge(f[i - 1], f[i])
  BY <1>3 DEF Range
<1>7. Range(b.links) \subseteq Links
  BY <1>3, <1>6
<1>8. \A l \in Range(b.links) : \E i, j \in 0 .. k : l = edge(f[i], f[j])
  BY <1>3, <1>6
<1>9. QED
  BY <1>4, <1>5, <1>7, <1>8

\* Where a node is not.
LEMMA Elsewhere ==
  ASSUME NEW q \in Qubits, NEW a \in {0, 1}, NEW b \in {0, 1}, NEW n,
         NodeRow(n) # TileRow(q) + a \/ NodeCol(n) # TileCol(q) + b
  PROVE  n # Corner(q, a, b)
BY CornerPlace

\* The corners of dest that the route back passes, and the way to src, keep off
\* the second ancilla.
LEMMA CornersOffAncilla ==
  ASSUME NEW src \in Qubits, NEW dest \in Qubits,
         NEW u \in {0, 1}, NEW a \in {0, 1}, NEW b \in {0, 1},
         Corridor(src, dest, u, a, b)
  PROVE  /\ Corner(dest, 1 - a, 1 - b) # Corner(src, u, u)
         /\ Corner(dest, 1 - a, b) # Corner(src, u, u)
         /\ Corner(dest, a, b) # Corner(src, u, u)
<1> DEFINE R  == TileRow(src)
           C  == TileCol(src)
           R2 == TileRow(dest)
           C2 == TileCol(dest)
<1>1. R \in Int /\ C \in Int /\ R2 \in Int /\ C2 \in Int
  BY TilePlace
<1>2. \/ u = 0 /\ a = 0 /\ R < R2
      \/ u = 1 /\ a = 1 /\ R2 < R
      \/ u = 1 /\ a = 0 /\ R2 = R /\ ((b = 1 /\ C2 + 1 < C) \/ (b = 0 /\ C + 1 < C2))
  BY DEF Corridor
<1>3. \A c, d \in {0, 1} :
        /\ NodeRow(Corner(dest, c, d)) = R2 + c
        /\ NodeCol(Corner(dest, c, d)) = C2 + d
  BY CornerPlace
<1>4. 1 - a \in {0, 1} /\ 1 - b \in {0, 1}
  OBVIOUS
<1> HIDE DEF R, C, R2, C2
<1>5. \A c, d \in {0, 1} : R2 + c # R + u \/ C2 + d # C + u
  BY <1>1, <1>2
<1>6. \A c, d \in {0, 1} : Corner(dest, c, d) # Corner(src, u, u)
  BY <1>3, <1>5, Elsewhere DEF R, C
<1>7. QED
  BY <1>4, <1>6

\* The rows a way crosses leave out the ancilla's other end.
LEMMA WayOffAncilla ==
  ASSUME NEW src \in Qubits, NEW dest \in Qubits,
         NEW u \in {0, 1}, NEW a \in {0, 1}, NEW b \in {0, 1},
         Corridor(src, dest, u, a, b)
  PROVE  \E lo, hi \in Int :
           /\ TileRow(dest) + a \in lo .. hi /\ TileRow(src) + (1 - u) \in lo .. hi
           /\ \A n : NodeRow(n) \in lo .. hi => n # Corner(src, u, u)
<1> DEFINE R  == TileRow(src)
           R2 == TileRow(dest)
<1>1. R \in Int /\ R2 \in Int
  BY TilePlace
<1>2. \/ u = 0 /\ a = 0 /\ R < R2
      \/ u = 1 /\ a = 1 /\ R2 < R
      \/ u = 1 /\ a = 0 /\ R2 = R
  BY DEF Corridor
<1> HIDE DEF R, R2
<1>3. ASSUME NEW lo \in Int, NEW hi \in Int, R + u \notin lo .. hi
      PROVE  \A n : NodeRow(n) \in lo .. hi => n # Corner(src, u, u)
  BY <1>3, Elsewhere DEF R
<1>4. \E lo, hi \in Int : R2 + a \in lo .. hi /\ R + (1 - u) \in lo .. hi /\ R + u \notin lo .. hi
  <2>1. CASE u = 0 /\ a = 0 /\ R < R2
    <3>1. /\ R + 1 \in Int /\ R2 \in Int
          /\ R2 + a \in R + 1 .. R2 /\ R + (1 - u) \in R + 1 .. R2 /\ R + u \notin R + 1 .. R2
      BY <1>1, <2>1
    <3>2. PICK lo \in Int, hi \in Int : lo = R + 1 /\ hi = R2
      BY <3>1
    <3>3. QED
      BY <3>1, <3>2
  <2>2. CASE u = 1 /\ ((a = 1 /\ R2 < R) \/ (a = 0 /\ R2 = R))
    <3>1. /\ R2 \in Int /\ R \in Int
          /\ R2 + a \in R2 .. R /\ R + (1 - u) \in R2 .. R /\ R + u \notin R2 .. R
      BY <1>1, <2>2
    <3>2. QED
      BY <3>1
  <2>3. QED
    BY <1>2, <2>1, <2>2
<1>5. QED
  BY <1>3, <1>4 DEF R, R2

\* Such a braid is on the mesh, between the rows of its ends.
LEMMA LeadsWithin ==
  ASSUME NEW b, NEW r1, NEW c1, NEW r2, NEW c2, Leads(b, r1, c1, r2, c2),
         NEW lo \in Int, NEW hi \in Int, r1 \in lo .. hi, r2 \in lo .. hi
  PROVE  /\ Range(b.nodes) \subseteq Nodes /\ Range(b.links) \subseteq Links
         /\ \A l \in Range(b.links) : \A x \in l : NodeRow(x) \in lo .. hi
         /\ \A x \in Range(b.nodes) : NodeRow(x) \in lo .. hi
<1>1. PICK k \in Nat : \E f :
        /\ Follows(b, f, k)
        /\ \A i \in 0 .. k : NodeRow(f[i]) \in lo .. hi
  BY DEF Leads
<1>2. PICK f : /\ Follows(b, f, k)
               /\ \A i \in 0 .. k : NodeRow(f[i]) \in lo .. hi
  BY <1>1
<1>3. /\ Range(b.nodes) \subseteq Nodes /\ Range(b.links) \subseteq Links
      /\ \A l \in Range(b.links) : \E i, j \in 0 .. k : l = edge(f[i], f[j])
      /\ Range(b.nodes) = {f[i] : i \in 1 .. k}
  BY <1>2, FollowsRange
<1>4. \A x \in Range(b.nodes) : NodeRow(x) \in lo .. hi
  <2>1. \A i \in 1 .. k : i \in 0 .. k
    OBVIOUS
  <2>2. QED
    BY <1>2, <1>3, <2>1
<1>5. QED
  BY <1>2, <1>3, <1>4 DEF edge

\* What the two routes of distant tiles engage; way is the part over the mesh.
EngagesOut(r, way, src, dest, u, a, b) ==
  /\ Last(r.nodes) = Corner(dest, 1 - a, 1 - b)
  /\ Range(r.nodes) = {Corner(src, 1 - u, u), Corner(dest, 1 - a, 1 - b)}
                        \union Range(way.nodes)
  /\ Range(r.links) = {edge(Corner(src, u, 1 - u), Corner(src, 1 - u, 1 - u)),
                       edge(Corner(src, 1 - u, u), Corner(src, u, u)),
                       edge(Corner(dest, a, b), Corner(dest, 1 - a, b)),
                       edge(Corner(dest, 1 - a, 1 - b), Corner(dest, a, 1 - b))}
                        \union Range(way.links)

EngagesBack(r, way, src, dest, u, a, b) ==
  /\ Range(r.nodes) = {Corner(dest, 1 - a, b), Corner(dest, a, b), Corner(src, u, u)}
                        \union Range(way.nodes)
  /\ Range(r.links) = {edge(Corner(dest, 1 - a, 1 - b), Corner(dest, 1 - a, b)),
                       edge(Corner(dest, 1 - a, b), Corner(dest, a, b)),
                       edge(Corner(src, 1 - u, 1 - u), Corner(src, u, 1 - u)),
                       edge(Corner(src, u, u), Corner(src, 1 - u, u))}
                        \union Range(way.links)

\* The second way round of two distant tiles: over the mesh, and closed by the
\* side of the ancilla, which nothing before it engages.
LEMMA WayBack ==
  ASSUME NEW src \in Qubits, NEW dest \in Qubits,
         NEW u \in {0, 1}, NEW a \in {0, 1}, NEW b \in {0, 1},
         Corridor(src, dest, u, a, b), NEW YX \in BOOLEAN
  PROVE  LET r == braid_merge(
                    braid_merge(braid_short_L(dest, Corner(dest, 1 - a, 1 - b)),
                                braid_dor(Corner(dest, a, b), Corner(src, 1 - u, 1 - u), YX)),
                    braid_S(src, Corner(src, 1 - u, 1 - u)))
         IN  /\ Range(r.links) \subseteq Links
             /\ Range(r.nodes) \subseteq Nodes
             /\ Last(r.links) = edge(Corner(src, u, u), Corner(src, 1 - u, u))
             /\ \A l \in Range(Front(r.links)) : Corner(src, u, u) \notin l
             /\ EngagesBack(r, braid_dor(Corner(dest, a, b), Corner(src, 1 - u, 1 - u), YX),
                            src, dest, u, a, b)
<1> DEFINE around == braid_short_L(dest, Corner(dest, 1 - a, 1 - b))
           way    == braid_dor(Corner(dest, a, b), Corner(src, 1 - u, 1 - u), YX)
           home   == braid_S(src, Corner(src, 1 - u, 1 - u))
           to     == braid_merge(around, way)
           r      == braid_merge(to, home)
           x1     == edge(Corner(dest, 1 - a, 1 - b), Corner(dest, 1 - a, b))
           x2     == edge(Corner(dest, 1 - a, b), Corner(dest, a, b))
           y1     == edge(Corner(src, 1 - u, 1 - u), Corner(src, u, 1 - u))
           y2     == edge(Corner(src, u, u), Corner(src, 1 - u, u))
           n2     == Corner(src, u, u)
<1>1. /\ 1 - a \in {0, 1} /\ 1 - b \in {0, 1} /\ 1 - u \in {0, 1}
      /\ 1 - (1 - a) = a /\ 1 - (1 - b) = b /\ 1 - (1 - u) = u
      /\ 1 - u # u
  OBVIOUS
<1>2. around = Braid(<<Corner(dest, 1 - a, b), Corner(dest, a, b)>>, <<x1, x2>>)
  <2> DEFINE a1 == 1 - a
             b1 == 1 - b
  <2>1. a1 \in {0, 1} /\ b1 \in {0, 1} /\ 1 - a1 = a /\ 1 - b1 = b
    BY <1>1
  <2> HIDE DEF a1, b1
  <2>2. braid_short_L(dest, Corner(dest, a1, b1)) =
          Braid(<<Corner(dest, a1, 1 - b1), Corner(dest, 1 - a1, 1 - b1)>>,
                <<edge(Corner(dest, a1, b1), Corner(dest, a1, 1 - b1)),
                  edge(Corner(dest, a1, 1 - b1), Corner(dest, 1 - a1, 1 - b1))>>)
    BY <2>1, TileBraids
  <2>3. QED
    BY <2>1, <2>2 DEF a1, b1
<1>3. home = Braid(<<n2>>, <<y1, y2>>)
  <2> DEFINE u1 == 1 - u
  <2>1. u1 \in {0, 1} /\ 1 - u1 = u
    BY <1>1
  <2> HIDE DEF u1
  <2>2. braid_S(src, Corner(src, u1, u1)) =
          Braid(<<Corner(src, 1 - u1, 1 - u1)>>,
                <<edge(Corner(src, u1, u1), Corner(src, 1 - u1, u1)),
                  edge(Corner(src, 1 - u1, 1 - u1), Corner(src, u1, 1 - u1))>>)
    BY <2>1, TileBraids
  <2>3. QED
    BY <2>1, <2>2 DEF u1
<1>4. /\ \A c, d \in {0, 1} : Corner(dest, c, d) \in Nodes /\ Corner(src, c, d) \in Nodes
      /\ \A m \in Nodes : m \in Int
      /\ src \in Int /\ dest \in Int
  <2>1. \A c, d \in {0, 1} : Corner(dest, c, d) \in Nodes /\ Corner(src, c, d) \in Nodes
    BY CornerPlace
  <2>2. QED
    BY <2>1 DEF Nodes, Qubits
<1>5. /\ x1 \in Links /\ x2 \in Links /\ y1 \in Links /\ y2 \in Links
  BY <1>1, SidesOfTile
<1>6. around \in BraidType /\ way \in BraidType /\ home \in FullBraidType
  <2>1. /\ Corner(dest, 1 - a, 1 - b) \in Int /\ Corner(src, 1 - u, 1 - u) \in Int
        /\ Corner(dest, a, b) \in Int
    BY <1>1, <1>4
  <2>2. QED
    BY <1>4, <2>1, ThroughTileType, DorType
<1>7. PICK lo \in Int, hi \in Int :
        /\ TileRow(dest) + a \in lo .. hi /\ TileRow(src) + (1 - u) \in lo .. hi
        /\ \A n : NodeRow(n) \in lo .. hi => n # n2
  BY WayOffAncilla
<1>8. /\ Range(way.nodes) \subseteq Nodes /\ Range(way.links) \subseteq Links
      /\ \A l \in Range(way.links) : n2 \notin l
  <2>1. /\ TileRow(dest) + a \in Rows /\ TileCol(dest) + b \in Cols
        /\ TileRow(src) + (1 - u) \in Rows /\ TileCol(src) + (1 - u) \in Cols
    BY <1>1, CornerPlace
  <2> DEFINE r1 == TileRow(dest) + a
             c1 == TileCol(dest) + b
             r2 == TileRow(src) + (1 - u)
             c2 == TileCol(src) + (1 - u)
  <2>2. way = braid_dor(NodeAt(r1, c1), NodeAt(r2, c2), YX)
    BY DEF Corner
  <2>3. /\ r1 \in Rows /\ c1 \in Cols /\ r2 \in Rows /\ c2 \in Cols
        /\ r1 \in lo .. hi /\ r2 \in lo .. hi
    BY <1>7, <2>1
  <2> HIDE DEF r1, c1, r2, c2, way
  <2>4. Leads(way, r1, c1, r2, c2)
    BY <2>2, <2>3, DorFollows
  <2>5. /\ Range(way.nodes) \subseteq Nodes /\ Range(way.links) \subseteq Links
        /\ \A l \in Range(way.links) : \A x \in l : NodeRow(x) \in lo .. hi
    BY <2>3, <2>4, LeadsWithin
  <2>6. QED
    BY <1>7, <2>5
<1>9. /\ n2 \notin x1 /\ n2 \notin x2
  BY CornersOffAncilla DEF edge
<1>10. n2 \notin y1
  <2>1. /\ NodeCol(Corner(src, 1 - u, 1 - u)) = TileCol(src) + (1 - u)
        /\ NodeCol(Corner(src, u, 1 - u)) = TileCol(src) + (1 - u)
    BY <1>1, CornerPlace
  <2>2. TileCol(src) + (1 - u) # TileCol(src) + u
    BY <1>1, TilePlace
  <2>3. Corner(src, 1 - u, 1 - u) # n2 /\ Corner(src, u, 1 - u) # n2
    BY <2>1, <2>2, Elsewhere
  <2>4. QED
    BY <2>3 DEF edge
<1>11. /\ Range(around.links) = {x1, x2}
       /\ Range(around.nodes) = {Corner(dest, 1 - a, b), Corner(dest, a, b)}
       /\ Range(home.links) = {y1, y2} /\ Range(Front(home.links)) = {y1} /\ Last(home.links) = y2
       /\ Range(home.nodes) = {n2}
  <2>1. /\ around.links = <<x1, x2>> /\ around.nodes = <<Corner(dest, 1 - a, b), Corner(dest, a, b)>>
        /\ home.links = <<y1, y2>> /\ home.nodes = <<n2>>
    BY <1>2, <1>3 DEF Braid
  <2>2. Corner(dest, 1 - a, b) \in Nodes /\ Corner(dest, a, b) \in Nodes /\ n2 \in Nodes
    BY <1>1, <1>4
  <2> HIDE DEF x1, x2, y1, y2
  <2>6. Range(<<x1, x2>>) = {x1, x2}
    BY PairEnds
  <2>7. Range(<<y1, y2>>) = {y1, y2} /\ Last(<<y1, y2>>) = y2
    BY PairEnds
  <2>3. Range(Front(<<y1, y2>>)) = {y1}
    BY PairEnds
  <2>4. /\ Range(<<Corner(dest, 1 - a, b), Corner(dest, a, b)>>) =
             {Corner(dest, 1 - a, b), Corner(dest, a, b)}
        /\ Range(<<n2>>) = {n2}
    BY PairEnds
  <2>5. QED
    BY <2>1, <2>3, <2>4, <2>6, <2>7
<1> HIDE DEF around, way, home, x1, x2, y1, y2, n2
<1>12. /\ to \in BraidType
       /\ Range(to.nodes) = Range(around.nodes) \union Range(way.nodes)
       /\ Range(to.links) = Range(around.links) \union Range(way.links)
  BY <1>6, MergeEnds
<1> HIDE DEF to
<1>13. home \in BraidType
  BY <1>6 DEF FullBraidType
<1>14. /\ Range(r.nodes) = Range(to.nodes) \union Range(home.nodes)
       /\ Range(r.links) = Range(to.links) \union Range(home.links)
       /\ Last(r.links) = Last(home.links)
       /\ Range(Front(r.links)) = Range(to.links) \union Range(Front(home.links))
  BY <1>6, <1>12, <1>13, MergeEnds
<1> HIDE DEF r
<1>15. Range(r.links) \subseteq Links
  BY <1>5, <1>8, <1>11, <1>12, <1>14
<1>16. Range(r.nodes) \subseteq Nodes
  <2>1. Corner(dest, 1 - a, b) \in Nodes /\ Corner(dest, a, b) \in Nodes /\ n2 \in Nodes
    BY <1>1, <1>4 DEF n2
  <2>2. QED
    BY <1>8, <1>11, <1>12, <1>14, <2>1
<1>17. \A l \in Range(Front(r.links)) : n2 \notin l
  BY <1>8, <1>9, <1>10, <1>11, <1>12, <1>14
<1>18. /\ Range(r.nodes) = {Corner(dest, 1 - a, b), Corner(dest, a, b), n2} \union Range(way.nodes)
       /\ Range(r.links) = {x1, x2, y1, y2} \union Range(way.links)
  BY <1>11, <1>12, <1>14
<1>19. QED
  BY <1>11, <1>14, <1>15, <1>16, <1>17, <1>18
     DEF EngagesBack, r, to, around, way, home, x1, x2, y1, y2, n2

\* The first way round of two distant tiles is on the mesh.
LEMMA WayOut ==
  ASSUME NEW src \in Qubits, NEW dest \in Qubits,
         NEW u \in {0, 1}, NEW a \in {0, 1}, NEW b \in {0, 1}, NEW YX \in BOOLEAN
  PROVE  LET r == braid_merge(
                    braid_merge(braid_S(src, Corner(src, u, 1 - u)),
                                braid_dor(Corner(src, 1 - u, u), Corner(dest, a, b), YX)),
                    braid_S(dest, Corner(dest, a, b)))
         IN  /\ Range(r.links) \subseteq Links
             /\ Range(r.nodes) \subseteq Nodes
             /\ EngagesOut(r, braid_dor(Corner(src, 1 - u, u), Corner(dest, a, b), YX),
                           src, dest, u, a, b)
<1> DEFINE v    == 1 - u
           out  == braid_S(src, Corner(src, u, v))
           way  == braid_dor(Corner(src, v, u), Corner(dest, a, b), YX)
           into == braid_S(dest, Corner(dest, a, b))
           to   == braid_merge(out, way)
           r    == braid_merge(to, into)
<1>1. v \in {0, 1} /\ 1 - v = u /\ 1 - u = v /\ 1 - a \in {0, 1} /\ 1 - b \in {0, 1}
      /\ 1 - (1 - a) = a /\ 1 - (1 - b) = b
  OBVIOUS
<1> HIDE DEF v
<1>2. ASSUME NEW q \in Qubits, NEW c \in {0, 1}, NEW d \in {0, 1}
      PROVE  LET x == edge(Corner(q, c, d), Corner(q, 1 - c, d))
                 y == edge(Corner(q, 1 - c, 1 - d), Corner(q, c, 1 - d))
                 n == Corner(q, 1 - c, 1 - d)
                 b_S == braid_S(q, Corner(q, c, d))
             IN  /\ b_S \in FullBraidType
                 /\ Range(b_S.links) = {x, y} /\ x \in Links /\ y \in Links
                 /\ Range(b_S.nodes) = {n} /\ n \in Nodes /\ Last(b_S.nodes) = n
  <2> DEFINE c1 == 1 - c
             d1 == 1 - d
             x  == edge(Corner(q, c, d), Corner(q, c1, d))
             y  == edge(Corner(q, c1, d1), Corner(q, c, d1))
             n  == Corner(q, c1, d1)
  <2>1. c1 \in {0, 1} /\ d1 \in {0, 1} /\ 1 - c1 = c
    OBVIOUS
  <2>2. braid_S(q, Corner(q, c, d)) = Braid(<<n>>, <<x, y>>)
    BY TileBraids
  <2>3. x \in Links
    BY SidesOfTile
  <2> HIDE DEF c1, d1
  <2>4. y \in Links
    BY <2>1, SidesOfTile
  <2>5. n \in Nodes /\ q \in Int /\ Corner(q, c, d) \in Int
    BY <2>1, CornerPlace DEF Qubits, Nodes
  <2> HIDE DEF x, y, n
  <2>6. Range(<<x, y>>) = {x, y}
    BY <2>3, <2>4, PairEnds
  <2>7. Range(<<n>>) = {n} /\ Last(<<n>>) = n
    BY <2>5, PairEnds
  <2>8. braid_S(q, Corner(q, c, d)) \in FullBraidType
    BY <2>5, ThroughTileType
  <2>9. QED
    BY <2>2, <2>3, <2>4, <2>5, <2>6, <2>7, <2>8 DEF Braid, x, y, n, c1, d1
<1> DEFINE x1 == edge(Corner(src, u, v), Corner(src, v, v))
           y1 == edge(Corner(src, v, u), Corner(src, u, u))
           x2 == edge(Corner(dest, a, b), Corner(dest, 1 - a, b))
           y2 == edge(Corner(dest, 1 - a, 1 - b), Corner(dest, a, 1 - b))
           n1 == Corner(src, v, u)
           n2 == Corner(dest, 1 - a, 1 - b)
<1>3. /\ out \in FullBraidType /\ into \in FullBraidType
      /\ Range(out.links) = {x1, y1} /\ x1 \in Links /\ y1 \in Links
      /\ Range(out.nodes) = {n1} /\ n1 \in Nodes
      /\ Range(into.links) = {x2, y2} /\ x2 \in Links /\ y2 \in Links
      /\ Range(into.nodes) = {n2} /\ n2 \in Nodes /\ Last(into.nodes) = n2
  <2>1. /\ out \in FullBraidType
        /\ Range(out.links) = {edge(Corner(src, u, v), Corner(src, 1 - u, v)),
                               edge(Corner(src, 1 - u, 1 - v), Corner(src, u, 1 - v))}
        /\ edge(Corner(src, u, v), Corner(src, 1 - u, v)) \in Links
        /\ edge(Corner(src, 1 - u, 1 - v), Corner(src, u, 1 - v)) \in Links
        /\ Range(out.nodes) = {Corner(src, 1 - u, 1 - v)} /\ Corner(src, 1 - u, 1 - v) \in Nodes
    BY <1>1, <1>2
  <2>2. Corner(src, 1 - u, v) = Corner(src, v, v) /\ Corner(src, 1 - u, 1 - v) = Corner(src, v, u)
        /\ Corner(src, u, 1 - v) = Corner(src, u, u)
    BY <1>1
  <2> HIDE DEF out
  <2>3. /\ out \in FullBraidType
        /\ Range(out.links) = {x1, y1} /\ x1 \in Links /\ y1 \in Links
        /\ Range(out.nodes) = {n1} /\ n1 \in Nodes
    BY <2>1, <2>2
  <2>4. /\ into \in FullBraidType
        /\ Range(into.links) = {x2, y2} /\ x2 \in Links /\ y2 \in Links
        /\ Range(into.nodes) = {n2} /\ n2 \in Nodes /\ Last(into.nodes) = n2
    BY <1>2
  <2>5. QED
    BY <2>3, <2>4
<1>4. /\ Corner(src, v, u) \in Int /\ Corner(dest, a, b) \in Int
  BY <1>1, CornerPlace DEF Nodes
<1>5. way \in BraidType
  BY <1>4, DorType
<1>6. Range(way.nodes) \subseteq Nodes /\ Range(way.links) \subseteq Links
  <2> DEFINE ra == TileRow(src) + v
             ca == TileCol(src) + u
             rb == TileRow(dest) + a
             cb == TileCol(dest) + b
  <2>1. way = braid_dor(NodeAt(ra, ca), NodeAt(rb, cb), YX)
    BY DEF Corner
  <2>2. ra \in Rows /\ ca \in Cols /\ rb \in Rows /\ cb \in Cols
    BY <1>1, CornerPlace
  <2> HIDE DEF ra, ca, rb, cb, way
  <2>3. Leads(way, ra, ca, rb, cb)
    BY <2>1, <2>2, DorFollows
  <2>4. 0 \in Int /\ num_rows \in Int /\ ra \in 0 .. num_rows /\ rb \in 0 .. num_rows
    BY <2>2, MeshAssumption DEF Rows
  <2>5. QED
    BY <2>3, <2>4, LeadsWithin
<1> HIDE DEF out, way, into
<1>7. /\ out \in BraidType /\ into \in BraidType
  BY <1>3 DEF FullBraidType
<1>8. /\ to \in BraidType
      /\ Range(to.nodes) = Range(out.nodes) \union Range(way.nodes)
      /\ Range(to.links) = Range(out.links) \union Range(way.links)
  BY <1>5, <1>7, MergeEnds
<1> HIDE DEF to
<1>9. /\ Range(r.nodes) = Range(to.nodes) \union Range(into.nodes)
      /\ Range(r.links) = Range(to.links) \union Range(into.links)
      /\ Last(r.nodes) = Last(into.nodes)
  BY <1>3, <1>7, <1>8, MergeEnds
<1> HIDE DEF r, x1, y1, x2, y2, n1, n2
<1>10. /\ Range(r.nodes) = {n1, n2} \union Range(way.nodes)
       /\ Range(r.links) = {x1, y1, x2, y2} \union Range(way.links)
       /\ Last(r.nodes) = n2
  BY <1>3, <1>8, <1>9
<1>11. Range(r.nodes) \subseteq Nodes /\ Range(r.links) \subseteq Links
  BY <1>3, <1>6, <1>10
<1>12. QED
  BY <1>10, <1>11 DEF EngagesOut, r, to, out, way, into, v, x1, y1, x2, y2, n1, n2

\* The ends of a sequence of three.
LEMMA TripleEnds ==
  ASSUME NEW S, NEW x \in S, NEW y \in S, NEW z \in S
  PROVE  Last(<<x, y, z>>) = z /\ Range(Front(<<x, y, z>>)) = {x, y}
<1> DEFINE s == <<x, y, z>>
<1>1. s \in Seq(S) /\ Len(s) = 3 /\ s[1] = x /\ s[2] = y /\ s[3] = z
  OBVIOUS
<1> HIDE DEF s
<1>2. \A i \in 1 .. 2 : s[i] \in S
  BY <1>1
<1>3. /\ Len(SubSeq(s, 1, 2)) = 2 /\ SubSeq(s, 1, 2) \in Seq(S)
      /\ SubSeq(s, 1, 2)[1] = x /\ SubSeq(s, 1, 2)[2] = y
  BY <1>1, <1>2, SubSeqProperties
<1>4. DOMAIN SubSeq(s, 1, 2) = 1 .. 2
  BY <1>3, LenProperties
<1>5. Range(SubSeq(s, 1, 2)) = {x, y}
  BY <1>3, <1>4 DEF Range
<1>6. QED
  BY <1>1, <1>5 DEF Last, Front, s

\* Both routes of a CNOT are on the mesh, whatever the lattice and the tiles;
\* so is the ancilla, whose link the second route ends with and engages once.
LEMMA RouteFacts ==
  ASSUME NEW src \in Qubits, NEW dest \in Qubits, src # dest, NEW YX \in BOOLEAN
  PROVE  LET anc == cnot_ancillas(src, dest)
             r   == cnot_routes(src, dest, anc.anc1, YX)
         IN  /\ Range(r.route_1.links) \subseteq Links
             /\ Range(r.route_2.links) \subseteq Links
             /\ Range(r.route_1.nodes) \subseteq Nodes
             /\ Range(r.route_2.nodes) \subseteq Nodes
             /\ Last(r.route_2.links) \notin Range(Front(r.route_2.links))
             /\ edge(anc.anc1, anc.anc2) \in Links
<1> DEFINE anc == cnot_ancillas(src, dest)
           r   == cnot_routes(src, dest, anc.anc1, YX)
<1> SUFFICES /\ Range(r.route_1.links) \subseteq Links
             /\ Range(r.route_2.links) \subseteq Links
             /\ Range(r.route_1.nodes) \subseteq Nodes
             /\ Range(r.route_2.nodes) \subseteq Nodes
             /\ Last(r.route_2.links) \notin Range(Front(r.route_2.links))
             /\ edge(anc.anc1, anc.anc2) \in Links
  OBVIOUS
<1>1. CASE ~are_adjacent(src, dest)
  <2> DEFINE out(u, a, b) == braid_merge(
                               braid_merge(braid_S(src, Corner(src, u, 1 - u)),
                                           braid_dor(Corner(src, 1 - u, u), Corner(dest, a, b), YX)),
                               braid_S(dest, Corner(dest, a, b)))
             back(u, a, b) == braid_merge(
                                braid_merge(braid_short_L(dest, Corner(dest, 1 - a, 1 - b)),
                                            braid_dor(Corner(dest, a, b), Corner(src, 1 - u, 1 - u), YX)),
                                braid_S(src, Corner(src, 1 - u, 1 - u)))
  <2>1. r = distant_routes(src, dest, anc.anc1, YX)
    BY <1>1 DEF cnot_routes
  <2> HIDE DEF r
  <2>2. PICK u \in {0, 1}, a \in {0, 1}, b \in {0, 1} :
          /\ Corridor(src, dest, u, a, b)
          /\ anc.anc1 = Corner(src, u, 1 - u) /\ anc.anc2 = Corner(src, u, u)
          /\ r = [route_1 |-> out(u, a, b), route_2 |-> back(u, a, b)]
    BY <1>1, <2>1, DistantShape
  <2> DEFINE r1 == out(u, a, b)
             r2 == back(u, a, b)
  <2>3. /\ Range(r1.links) \subseteq Links /\ Range(r1.nodes) \subseteq Nodes
    BY WayOut
  <2>4. /\ Range(r2.links) \subseteq Links /\ Range(r2.nodes) \subseteq Nodes
        /\ Last(r2.links) = edge(Corner(src, u, u), Corner(src, 1 - u, u))
        /\ \A l \in Range(Front(r2.links)) : Corner(src, u, u) \notin l
    BY <2>2, WayBack
  <2>5. edge(Corner(src, u, 1 - u), Corner(src, u, u)) \in Links
    <3> DEFINE v == 1 - u
    <3>1. v \in {0, 1} /\ 1 - v = u
      OBVIOUS
    <3> HIDE DEF v
    <3>2. edge(Corner(src, u, v), Corner(src, u, u)) \in Links
      BY <3>1, SidesOfTile
    <3>3. QED
      BY <3>2 DEF v
  <2> HIDE DEF r1, r2
  <2>6. Last(r2.links) \notin Range(Front(r2.links))
    BY <2>4 DEF edge
  <2>7. r.route_1 = r1 /\ r.route_2 = r2
    BY <2>2 DEF r1, r2
  <2> HIDE DEF anc
  <2>8. QED
    BY <2>2, <2>3, <2>4, <2>5, <2>6, <2>7
<1>2. CASE are_adjacent(src, dest)
  <2>1. r = adjacent_routes(src, dest, anc.anc1)
    BY <1>2 DEF cnot_routes
  <2> HIDE DEF r
  <2> DEFINE L1(w) == edge(Corner(src, 0, 1 - w), Corner(src, 1, 1 - w))
             L2(w) == edge(Corner(src, 0, w), Corner(src, 1, w))
             L3(w) == edge(Corner(dest, 1, w), Corner(dest, 0, w))
             L4(w) == edge(Corner(dest, 1, w), Corner(dest, 1, 1 - w))
  <2>2. PICK w \in {0, 1} :
          /\ anc.anc1 = Corner(src, 0, 1 - w) /\ anc.anc2 = Corner(src, 1, 1 - w)
          /\ TileRow(dest) = TileRow(src)
          /\ r = [route_1 |-> Braid(<<Corner(dest, 1, w)>>, <<L1(w), L2(w), L3(w)>>),
                  route_2 |-> Braid(<<Corner(src, 1, w), Corner(src, 1, 1 - w)>>,
                                    <<L4(w), L2(w), L1(w)>>)]
    BY <1>2, <2>1, AdjacentShape
  <2> DEFINE l1 == L1(w)
             l2 == L2(w)
             l3 == L3(w)
             l4 == L4(w)
  <2>3. 1 - w \in {0, 1} /\ 1 - 0 = 1 /\ 1 - 1 = 0 /\ 0 \in {0, 1} /\ 1 \in {0, 1}
    OBVIOUS
  <2>4. l1 \in Links /\ l2 \in Links /\ l3 \in Links /\ l4 \in Links
    BY <2>3, SidesOfTile
  <2>5. /\ Corner(src, 0, 1 - w) # Corner(src, 0, w) /\ Corner(src, 0, 1 - w) # Corner(src, 1, w)
        /\ Corner(src, 0, 1 - w) # Corner(dest, 1, w) /\ Corner(src, 0, 1 - w) # Corner(dest, 1, 1 - w)
    <3>1. /\ NodeCol(Corner(src, 0, w)) = TileCol(src) + w
          /\ NodeCol(Corner(src, 1, w)) = TileCol(src) + w
          /\ NodeRow(Corner(dest, 1, w)) = TileRow(src) + 1
          /\ NodeRow(Corner(dest, 1, 1 - w)) = TileRow(src) + 1
      BY <2>2, <2>3, CornerPlace
    <3>2. TileCol(src) + w # TileCol(src) + (1 - w) /\ TileRow(src) + 1 # TileRow(src) + 0
      BY TilePlace
    <3>3. QED
      BY <2>3, <3>1, <3>2, Elsewhere
  <2>6. /\ Corner(src, 0, 1 - w) \in l1 /\ Corner(src, 0, 1 - w) \notin l2
        /\ Corner(src, 0, 1 - w) \notin l4
    BY <2>5 DEF edge
  <2>7. l1 # l2 /\ l1 # l4
    BY <2>6
  <2>8. /\ Corner(dest, 1, w) \in Nodes /\ Corner(src, 1, w) \in Nodes
        /\ Corner(src, 1, 1 - w) \in Nodes
    BY <2>3, CornerPlace
  <2>9. edge(anc.anc1, anc.anc2) = l1
    BY <2>2
  <2>10. /\ r.route_1.links = <<l1, l2, l3>> /\ r.route_2.links = <<l4, l2, l1>>
         /\ r.route_1.nodes = <<Corner(dest, 1, w)>>
         /\ r.route_2.nodes = <<Corner(src, 1, w), Corner(src, 1, 1 - w)>>
    BY <2>2 DEF Braid
  <2> HIDE DEF l1, l2, l3, l4
  <2>11. Range(<<l1, l2, l3>>) \subseteq Links /\ Range(<<l4, l2, l1>>) \subseteq Links
    BY <2>4 DEF Range
  <2>12. Last(<<l4, l2, l1>>) = l1 /\ Range(Front(<<l4, l2, l1>>)) = {l4, l2}
    BY <2>4, TripleEnds
  <2>13. /\ Range(<<Corner(dest, 1, w)>>) \subseteq Nodes
         /\ Range(<<Corner(src, 1, w), Corner(src, 1, 1 - w)>>) \subseteq Nodes
    BY <2>8 DEF Range
  <2> HIDE DEF anc
  <2>14. QED
    BY <2>4, <2>7, <2>9, <2>10, <2>11, <2>12, <2>13
<1>3. QED
  BY <1>1, <1>2

\* Both orders of dimensions end in the same node and the same link.
LEMMA SameEnds ==
  ASSUME NEW src \in Int, NEW dest \in Int, NEW anc1 \in Int, NEW YX \in BOOLEAN
  PROVE  LET xy == cnot_routes(src, dest, anc1, FALSE)
             r  == cnot_routes(src, dest, anc1, YX)
         IN  /\ Last(r.route_1.nodes) = Last(xy.route_1.nodes)
             /\ Last(r.route_2.links) = Last(xy.route_2.links)
             /\ Last(r.route_2.nodes) = Last(xy.route_2.nodes)
<1>1. CASE are_adjacent(src, dest)
  BY <1>1 DEF cnot_routes
<1>2. CASE ~are_adjacent(src, dest)
  <2> DEFINE diag_anc1     == find_diagonal(src, anc1)
             vertical_anc1 == find_vertical(src, anc1)
             nearest_dest  == find_nearest(dest, diag_anc1)
             diag_nearest_dest == find_diagonal(dest, nearest_dest)
             out  == braid_S(src, anc1)
             into == braid_S(dest, nearest_dest)
             back == braid_short_L(dest, diag_nearest_dest)
             home == braid_S(src, vertical_anc1)
             way_1(yx) == braid_dor(diag_anc1, nearest_dest, yx)
             way_2(yx) == braid_dor(nearest_dest, vertical_anc1, yx)
             r1(yx) == braid_merge(braid_merge(out, way_1(yx)), into)
             r2(yx) == braid_merge(braid_merge(back, way_2(yx)), home)
  <2>1. diag_anc1 \in Int /\ vertical_anc1 \in Int
    BY OtherCornerType
  <2>2. nearest_dest \in Int
    BY <2>1, OtherCornerType
  <2>3. diag_nearest_dest \in Int
    BY <2>2, OtherCornerType
  <2>4. \A yx : cnot_routes(src, dest, anc1, yx) = [route_1 |-> r1(yx), route_2 |-> r2(yx)]
    BY <1>2 DEF cnot_routes, distant_routes
  <2> HIDE DEF diag_anc1, vertical_anc1, nearest_dest, diag_nearest_dest
  <2>5. /\ out \in FullBraidType /\ into \in FullBraidType
        /\ back \in BraidType /\ home \in FullBraidType
    BY <2>1, <2>2, <2>3, ThroughTileType
  <2> HIDE DEF out, into, back, home
  <2>6. out \in BraidType /\ into \in BraidType /\ home \in BraidType
    BY <2>5 DEF FullBraidType
  <2>7. ASSUME NEW w1 \in BraidType, NEW w2 \in BraidType
        PROVE  /\ Last(braid_merge(braid_merge(out, w1), into).nodes) = Last(into.nodes)
               /\ Last(braid_merge(braid_merge(back, w2), home).nodes) = Last(home.nodes)
               /\ Last(braid_merge(braid_merge(back, w2), home).links) = Last(home.links)
    <3>1. braid_merge(out, w1) \in BraidType /\ braid_merge(back, w2) \in BraidType
      BY <2>5, <2>6, MergeEnds
    <3>2. QED
      BY <2>5, <2>6, <3>1, MergeEnds
  <2>8. ASSUME NEW yx \in BOOLEAN
        PROVE  way_1(yx) \in BraidType /\ way_2(yx) \in BraidType
    BY <2>1, <2>2, DorType
  <2>9. ASSUME NEW yx \in BOOLEAN
        PROVE  /\ Last(r1(yx).nodes) = Last(into.nodes)
               /\ Last(r2(yx).nodes) = Last(home.nodes)
               /\ Last(r2(yx).links) = Last(home.links)
    <3> DEFINE w1 == way_1(yx)
               w2 == way_2(yx)
    <3>1. w1 \in BraidType /\ w2 \in BraidType
      BY <2>8
    <3> HIDE DEF w1, w2
    <3>2. /\ Last(braid_merge(braid_merge(out, w1), into).nodes) = Last(into.nodes)
          /\ Last(braid_merge(braid_merge(back, w2), home).nodes) = Last(home.nodes)
          /\ Last(braid_merge(braid_merge(back, w2), home).links) = Last(home.links)
      BY <2>7, <3>1
    <3>3. QED
      BY <3>2 DEF w1, w2
  <2>10. ASSUME NEW yx \in BOOLEAN
         PROVE  LET r == cnot_routes(src, dest, anc1, yx)
                IN  /\ Last(r.route_1.nodes) = Last(into.nodes)
                    /\ Last(r.route_2.nodes) = Last(home.nodes)
                    /\ Last(r.route_2.links) = Last(home.links)
    <3> DEFINE x1 == r1(yx)
               x2 == r2(yx)
               r  == cnot_routes(src, dest, anc1, yx)
    <3>1. r = [route_1 |-> x1, route_2 |-> x2]
      BY <2>4
    <3>2. /\ Last(x1.nodes) = Last(into.nodes)
          /\ Last(x2.nodes) = Last(home.nodes)
          /\ Last(x2.links) = Last(home.links)
      BY <2>9
    <3> HIDE DEF x1, x2, r
    <3>3. r.route_1 = x1 /\ r.route_2 = x2
      BY <3>1
    <3>4. QED
      BY <3>2, <3>3 DEF r
  <2>11. /\ Last(cnot_routes(src, dest, anc1, FALSE).route_1.nodes) = Last(into.nodes)
         /\ Last(cnot_routes(src, dest, anc1, FALSE).route_2.nodes) = Last(home.nodes)
         /\ Last(cnot_routes(src, dest, anc1, FALSE).route_2.links) = Last(home.links)
    <3> DEFINE yx == FALSE
    <3>1. yx \in BOOLEAN
      OBVIOUS
    <3> HIDE DEF yx
    <3>2. /\ Last(cnot_routes(src, dest, anc1, yx).route_1.nodes) = Last(into.nodes)
          /\ Last(cnot_routes(src, dest, anc1, yx).route_2.nodes) = Last(home.nodes)
          /\ Last(cnot_routes(src, dest, anc1, yx).route_2.links) = Last(home.links)
      BY <2>10, <3>1
    <3>3. QED
      BY <3>2 DEF yx
  <2>12. /\ Last(cnot_routes(src, dest, anc1, YX).route_1.nodes) = Last(into.nodes)
         /\ Last(cnot_routes(src, dest, anc1, YX).route_2.nodes) = Last(home.nodes)
         /\ Last(cnot_routes(src, dest, anc1, YX).route_2.links) = Last(home.links)
    BY <2>10
  <2>13. QED
    BY <2>11, <2>12
<1>3. QED
  BY <1>1, <1>2

-----------------------------------------------------------------------------
(* Induction over the natural numbers, for sets *)

\* A non-empty set of natural numbers has a least element.
LEMMA LeastNatural ==
  ASSUME NEW T \in SUBSET Nat, T # {}
  PROVE  \E m \in T : \A k \in T : m <= k
<1> DEFINE R == OpToRel(<, Nat)
<1>1. IsWellFoundedOn(R, Nat)
  BY NatLessThanWellFounded
<1>2. \A x, y \in Nat : x < y => <<x, y>> \in R
  BY DEF OpToRel
<1> HIDE DEF R
<1>3. PICK m \in T : \A k \in T : ~(<<k, m>> \in R)
  BY <1>1, WFMin
<1>4. \A k \in T : k \in Nat
  OBVIOUS
<1>5. \A k \in T : ~(k < m)
  BY <1>2, <1>3, <1>4
<1>6. QED
  BY <1>4, <1>5

\* Induction, for a set instead of a property: this form has no operator as a
\* parameter.
LEMMA SetInduction ==
  ASSUME NEW T, 0 \in T, \A n \in Nat : n \in T => n + 1 \in T
  PROVE  Nat \subseteq T
<1> SUFFICES ASSUME Nat \ T # {} PROVE FALSE
  OBVIOUS
<1>1. PICK m \in Nat \ T : \A k \in Nat \ T : m <= k
  BY LeastNatural
<1>2. m # 0 /\ m - 1 \in Nat
  BY <1>1
<1>3. m - 1 \in T
  BY <1>1, <1>2
<1>4. QED
  BY <1>1, <1>2, <1>3

\* What a step function makes of x, taken 0 to n times.
Iterates(g, x, step, n) == g = [k \in 0 .. n |-> IF k = 0 THEN x ELSE step[g[k - 1]]]

\* Iterating a function n times gives a function of the number of times.
LEMMA IteratesExist ==
  ASSUME NEW S, NEW step \in [S -> S], NEW x \in S, NEW n \in Nat
  PROVE  \E g : Iterates(g, x, step, n)
<1> DEFINE Good(g, j) == /\ g \in [0 .. j -> S]
                         /\ g[0] = x
                         /\ \A k \in 1 .. j : g[k] = step[g[k - 1]]
           T == {j \in Nat : \E g : Good(g, j)}
<1>1. 0 \in T
  <2>1. Good([k \in 0 .. 0 |-> x], 0)
    OBVIOUS
  <2>2. QED
    BY <2>1
<1>2. ASSUME NEW j \in Nat, j \in T
      PROVE  j + 1 \in T
  <2>1. PICK g : Good(g, j)
    BY <1>2
  <2> DEFINE h == [k \in 0 .. j + 1 |-> IF k <= j THEN g[k] ELSE step[g[j]]]
  <2>2. /\ g \in [0 .. j -> S] /\ g[0] = x /\ j \in 0 .. j
        /\ \A k \in 1 .. j : g[k] = step[g[k - 1]]
    BY <2>1
  <2>3. step[g[j]] \in S
    BY <2>2
  <2>4. h \in [0 .. j + 1 -> S]
    BY <2>2, <2>3
  <2>5. h[0] = x
    BY <2>2
  <2>6. ASSUME NEW k \in 1 .. j + 1
        PROVE  h[k] = step[h[k - 1]]
    <3>1. k \in 0 .. j + 1 /\ k - 1 \in 0 .. j + 1 /\ k - 1 <= j
      OBVIOUS
    <3>2. h[k - 1] = g[k - 1]
      BY <3>1
    <3>3. CASE k <= j
      <4>1. h[k] = g[k] /\ k \in 1 .. j
        BY <3>1, <3>3
      <4>2. QED
        BY <2>2, <3>2, <4>1
    <3>4. CASE ~(k <= j)
      <4>1. k - 1 = j /\ h[k] = step[g[j]]
        BY <3>1, <3>4
      <4>2. QED
        BY <3>2, <4>1
    <3>5. QED
      BY <3>3, <3>4
  <2> HIDE DEF h
  <2>7. Good(h, j + 1)
    BY <2>4, <2>5, <2>6
  <2>8. QED
    BY <2>7
<1>3. n \in T
  <2> HIDE DEF T
  <2>1. Nat \subseteq T
    BY <1>1, <1>2, SetInduction
  <2>2. QED
    BY <2>1
<1>4. PICK g : Good(g, n)
  BY <1>3
<1>5. \A k \in 0 .. n : g[k] = IF k = 0 THEN x ELSE step[g[k - 1]]
  <2>1. \A k \in 0 .. n : k = 0 \/ k \in 1 .. n
    OBVIOUS
  <2>2. QED
    BY <1>4, <2>1
<1>6. g = [k \in 0 .. n |-> g[k]]
  BY <1>4
<1>7. g = [k \in 0 .. n |-> IF k = 0 THEN x ELSE step[g[k - 1]]]
  BY <1>5, <1>6, Zenon
<1>8. QED
  BY <1>7 DEF Iterates

-----------------------------------------------------------------------------
(* What can be reached *)

\* The links that touch a set of nodes.
Touching(links, at) == {l \in links : l \cap at # {}}

\* Nodes reached step by step, one step for each link.
Spreads(g, n, links) ==
  /\ g[0] = {n}
  /\ Reach(n, links) = g[Cardinality(links)]
  /\ \A k \in 1 .. Cardinality(links) :
       g[k] = g[k - 1] \union UNION Touching(links, g[k - 1])

\* Reach is what its LET definition says: repeated spreading over the links.
LEMMA ReachSteps ==
  ASSUME NEW n, NEW links, IsFiniteSet(links)
  PROVE  \E g : Spreads(g, n, links)
<1> DEFINE N == Cardinality(links)
           M == {n} \union UNION links
           S == SUBSET M
           step == [T \in S |-> T \union UNION Touching(links, T)]
           IsReach(g) == g = [k \in 0 .. N |->
                                IF k = 0 THEN {n}
                                ELSE g[k - 1] \union UNION {l \in links : l \cap g[k - 1] # {}}]
           R == CHOOSE g : IsReach(g)
<1>1. N \in Nat
  BY FS_CardinalityType
<1>2. Reach(n, links) = R[N]
  BY DEF Reach
<1>3. step \in [S -> S] /\ {n} \in S
  <2>1. ASSUME NEW T \in S
        PROVE  T \union UNION Touching(links, T) \in S
    BY DEF Touching
  <2>2. QED
    BY <2>1
<1> HIDE DEF N
<1>4. \E g : Iterates(g, {n}, step, N)
  <2> HIDE DEF S, step
  <2> DEFINE x == {n}
  <2>1. x \in S
    BY <1>3
  <2> HIDE DEF x
  <2>2. \E g : Iterates(g, x, step, N)
    BY <1>1, <1>3, <2>1, IteratesExist
  <2>3. QED
    BY <2>2 DEF x
<1>5. \E g : IsReach(g)
  <2>1. PICK g : g = [k \in 0 .. N |-> IF k = 0 THEN {n} ELSE step[g[k - 1]]]
    BY <1>4 DEF Iterates
  <2>2. /\ DOMAIN g = 0 .. N
        /\ \A k \in 0 .. N : g[k] = IF k = 0 THEN {n} ELSE step[g[k - 1]]
    <3> HIDE DEF step
    <3>1. QED
      BY <2>1
  <2> DEFINE T == {j \in Nat : j <= N => g[j] \in S}
  <2>3. 0 \in T
    <3> HIDE DEF S, step
    <3>1. 0 \in 0 .. N
      BY <1>1
    <3>2. g[0] = {n}
      BY <2>2, <3>1
    <3>3. QED
      BY <1>3, <3>2
  <2>4. ASSUME NEW j \in Nat, j \in T
        PROVE  j + 1 \in T
    <3> SUFFICES ASSUME j + 1 <= N PROVE g[j + 1] \in S
      OBVIOUS
    <3>1. j <= N /\ j + 1 \in 0 .. N /\ j + 1 # 0 /\ (j + 1) - 1 = j
      BY <1>1
    <3>2. g[j] \in S
      BY <2>4, <3>1
    <3> HIDE DEF step, S
    <3>3. g[j + 1] = step[g[j]]
      BY <2>2, <3>1
    <3>4. QED
      BY <1>3, <3>2, <3>3
  <2>5. \A k \in 1 .. N : g[k - 1] \in S
    <3> HIDE DEF T
    <3>1. Nat \subseteq T
      BY <2>3, <2>4, SetInduction
    <3>2. \A k \in 1 .. N : k - 1 \in Nat /\ k - 1 <= N
      BY <1>1
    <3>3. QED
      BY <3>1, <3>2 DEF T
  <2>6. \A k \in 1 .. N : g[k] = g[k - 1] \union UNION {l \in links : l \cap g[k - 1] # {}}
    <3> SUFFICES ASSUME NEW k \in 1 .. N
                 PROVE  g[k] = g[k - 1] \union UNION {l \in links : l \cap g[k - 1] # {}}
      OBVIOUS
    <3>1. k \in 0 .. N /\ k # 0
      BY <1>1
    <3>2. g[k - 1] \in S
      BY <2>5
    <3>3. g[k] = step[g[k - 1]]
      <4> HIDE DEF step, S
      <4>1. QED
        BY <2>2, <3>1
    <3>4. step[g[k - 1]] = g[k - 1] \union UNION Touching(links, g[k - 1])
      <4> HIDE DEF S
      <4>1. QED
        BY <3>2
    <3>5. QED
      BY <3>3, <3>4 DEF Touching
  <2>7. \A k \in 0 .. N : g[k] = IF k = 0 THEN {n}
                                 ELSE g[k - 1] \union UNION {l \in links : l \cap g[k - 1] # {}}
    <3>1. \A k \in 0 .. N : k = 0 \/ k \in 1 .. N
      BY <1>1
    <3>2. 0 \in 0 .. N
      BY <1>1
    <3>3. g[0] = {n}
      <4> HIDE DEF step
      <4>1. QED
        BY <2>2, <3>2
    <3>4. QED
      BY <2>6, <3>1, <3>3
  <2>8. g = [k \in 0 .. N |-> g[k]]
    <3>1. g = [k \in 0 .. N |-> g[k]]
      <4> HIDE DEF step
      <4>1. QED
        BY <2>1
    <3>2. QED
      BY <3>1
  <2>9. IsReach(g)
    BY <2>7, <2>8, Zenon
  <2>10. QED
    BY <2>9
<1>6. IsReach(R)
  <2> HIDE DEF IsReach
  <2>1. QED
    BY <1>5
<1>7. /\ R[0] = {n}
      /\ \A k \in 1 .. N : R[k] = R[k - 1] \union UNION {l \in links : l \cap R[k - 1] # {}}
  <2> HIDE DEF R
  <2>1. 0 \in 0 .. N /\ \A k \in 1 .. N : k \in 0 .. N /\ k # 0
    BY <1>1
  <2>2. QED
    BY <1>6, <2>1
<1>8. QED
  <2> HIDE DEF R
  <2>1. QED
    BY <1>2, <1>7 DEF Spreads, Touching, N

\* One step for each link is enough: what can be reached is closed, for every
\* step that is not the last reaches a link that no earlier one touched.
LEMMA ReachClosed ==
  ASSUME NEW n, NEW links, IsFiniteSet(links)
  PROVE  /\ n \in Reach(n, links)
         /\ \A l \in links : l \cap Reach(n, links) # {} => l \subseteq Reach(n, links)
<1> DEFINE N == Cardinality(links)
<1>8. PICK g : Spreads(g, n, links)
  BY ReachSteps
<1>1. /\ g[0] = {n}
      /\ Reach(n, links) = g[N]
      /\ \A k \in 1 .. N : g[k] = g[k - 1] \union UNION Touching(links, g[k - 1])
  BY <1>8 DEF Spreads
<1>2. N \in Nat
  BY FS_CardinalityType
<1> HIDE DEF N
<1> DEFINE Closed(k) == UNION Touching(links, g[k]) \subseteq g[k]
           Done(k)   == k <= N => /\ n \in g[k]
                                  /\ Closed(k) \/ Cardinality(Touching(links, g[k])) >= k + 1
           T == {k \in Nat : Done(k)}
<1>3. ASSUME NEW k
      PROVE  /\ IsFiniteSet(Touching(links, g[k])) /\ Cardinality(Touching(links, g[k])) \in Nat
             /\ Cardinality(Touching(links, g[k])) <= N
  <2>1. Touching(links, g[k]) \in SUBSET links
    BY DEF Touching
  <2>2. QED
    BY <2>1, FS_Subset, FS_CardinalityType DEF N
<1>4. 0 \in T
  <2>1. n \in g[0]
    BY <1>1
  <2>2. CASE Touching(links, g[0]) = {}
    BY <2>1, <2>2
  <2>3. CASE Touching(links, g[0]) # {}
    <3>1. Cardinality(Touching(links, g[0])) # 0
      BY <1>3, <2>3, FS_EmptySet
    <3>2. Cardinality(Touching(links, g[0])) >= 0 + 1
      BY <1>3, <3>1
    <3>3. QED
      BY <2>1, <3>2
  <2>4. QED
    BY <2>2, <2>3
<1>5. ASSUME NEW k \in Nat, k \in T
      PROVE  k + 1 \in T
  <2> SUFFICES ASSUME k + 1 <= N
               PROVE  /\ n \in g[k + 1]
                      /\ Closed(k + 1) \/ Cardinality(Touching(links, g[k + 1])) >= (k + 1) + 1
    BY <1>5
  <2> DEFINE a == g[k]
             b == g[k + 1]
             ta == Touching(links, a)
             tb == Touching(links, b)
  <2>1. k <= N /\ k + 1 \in 1 .. N /\ (k + 1) - 1 = k
    BY <1>2
  <2>2. n \in a /\ (Closed(k) \/ Cardinality(ta) >= k + 1)
    BY <1>5, <2>1
  <2>3. b = a \union UNION ta
    BY <1>1, <2>1
  <2>4. n \in b
    BY <2>2, <2>3
  <2>5. CASE Closed(k)
    <3>1. b = a
      BY <2>3, <2>5
    <3>2. QED
      BY <2>4, <2>5, <3>1
  <2>6. CASE ~Closed(k) /\ ~Closed(k + 1)
    <3>1. PICK l \in tb : ~(l \subseteq b)
      BY <2>6
    <3>2. l \notin ta
      BY <2>3, <3>1
    <3>3. ta \subseteq tb
      BY <2>3 DEF Touching
    <3>4. /\ IsFiniteSet(ta) /\ IsFiniteSet(tb)
          /\ Cardinality(ta) \in Nat /\ Cardinality(tb) \in Nat
      BY <1>3
    <3>5. Cardinality(ta) >= k + 1
      BY <2>2, <2>6
    <3> HIDE DEF ta, tb, b
    <3>6. ta \in SUBSET tb /\ ta # tb
      BY <3>1, <3>2, <3>3
    <3>7. Cardinality(ta) <= Cardinality(tb) /\ Cardinality(ta) # Cardinality(tb)
      BY <3>4, <3>6, FS_Subset
    <3>8. Cardinality(tb) >= (k + 1) + 1
      BY <3>4, <3>5, <3>7
    <3>9. QED
      BY <2>4, <3>8 DEF tb, b
  <2>7. QED
    BY <2>4, <2>5, <2>6
<1>6. n \in g[N] /\ Closed(N)
  <2>1. N \in T
    <3> HIDE DEF T
    <3>1. Nat \subseteq T
      BY <1>4, <1>5, SetInduction
    <3>2. QED
      BY <1>2, <3>1
  <2>2. n \in g[N] /\ (Closed(N) \/ Cardinality(Touching(links, g[N])) >= N + 1)
    BY <1>2, <2>1
  <2>3. /\ Cardinality(Touching(links, g[N])) \in Nat
        /\ Cardinality(Touching(links, g[N])) <= N
    BY <1>3
  <2>4. ~(Cardinality(Touching(links, g[N])) >= N + 1)
    BY <1>2, <2>3
  <2>5. QED
    BY <2>2, <2>4
<1>7. QED
  BY <1>1, <1>6 DEF Touching

\* A step over a link, and a walk along links.
LEMMA ReachNext ==
  ASSUME NEW n, NEW links, IsFiniteSet(links),
         NEW x, NEW y, x \in Reach(n, links), edge(x, y) \in links
  PROVE  y \in Reach(n, links)
BY ReachClosed DEF edge

\* What is reached along a way is reached link by link.
LEMMA ReachAlong ==
  ASSUME NEW n, NEW links, IsFiniteSet(links), NEW f, NEW k \in Nat,
         f[0] \in Reach(n, links), \A i \in 1 .. k : edge(f[i - 1], f[i]) \in links
  PROVE  f[k] \in Reach(n, links)
<1> DEFINE T == {i \in Nat : i <= k => f[i] \in Reach(n, links)}
<1>1. 0 \in T
  OBVIOUS
<1>2. ASSUME NEW i \in Nat, i \in T
      PROVE  i + 1 \in T
  <2> SUFFICES ASSUME i + 1 <= k PROVE f[i + 1] \in Reach(n, links)
    OBVIOUS
  <2>1. i <= k /\ i + 1 \in 1 .. k /\ (i + 1) - 1 = i
    OBVIOUS
  <2>2. f[i] \in Reach(n, links) /\ edge(f[i], f[i + 1]) \in links
    BY <1>2, <2>1
  <2>3. QED
    BY <2>2, ReachNext
<1> HIDE DEF T
<1>3. Nat \subseteq T
  BY <1>1, <1>2, SetInduction
<1>4. QED
  BY <1>3 DEF T

\* A braid that leads from one place to another carries what is reached along.
LEMMA ReachOver ==
  ASSUME NEW n, NEW links, IsFiniteSet(links),
         NEW b, NEW row1, NEW col1, NEW row2, NEW col2, Leads(b, row1, col1, row2, col2),
         Range(b.links) \subseteq links, NodeAt(row1, col1) \in Reach(n, links)
  PROVE  NodeAt(row2, col2) \in Reach(n, links)
<1>1. PICK k \in Nat : \E f : /\ Follows(b, f, k)
                              /\ f[0] = NodeAt(row1, col1) /\ f[k] = NodeAt(row2, col2)
  BY DEF Leads
<1>2. PICK f : /\ Follows(b, f, k)
               /\ f[0] = NodeAt(row1, col1) /\ f[k] = NodeAt(row2, col2)
  BY <1>1
<1>3. b.links = [i \in 1 .. k |-> edge(f[i - 1], f[i])]
  BY <1>2 DEF Follows
<1>4. \A i \in 1 .. k : edge(f[i - 1], f[i]) \in links
  <2> SUFFICES ASSUME NEW i \in 1 .. k PROVE edge(f[i - 1], f[i]) \in links
    OBVIOUS
  <2>1. i \in DOMAIN b.links /\ b.links[i] = edge(f[i - 1], f[i])
    BY <1>3
  <2>2. b.links[i] \in Range(b.links)
    BY <2>1 DEF Range
  <2>3. QED
    BY <2>1, <2>2
<1>5. f[k] \in Reach(n, links)
  BY <1>2, <1>4, ReachAlong
<1>6. QED
  BY <1>2, <1>5

\* The gap that an S leaves in the border of its tile.
LEMMA ThroughTile ==
  ASSUME NEW q \in Qubits, NEW a \in {0, 1}, NEW b \in {0, 1}
  PROVE  through(q, Corner(q, a, b)) = edge(Corner(q, 1 - a, b), Corner(q, a, 1 - b))
BY OtherCorners DEF through

\* There: from the ancilla through the tile of the source, over the mesh, and
\* through the tile of the destination.
LEMMA ThereIsReached ==
  ASSUME NEW s \in Qubits, NEW d \in Qubits,
         NEW u \in {0, 1}, NEW a \in {0, 1}, NEW b \in {0, 1}, NEW yx \in BOOLEAN,
         NEW links, IsFiniteSet(links),
         {edge(Corner(s, u, 1 - u), Corner(s, 1 - u, 1 - u)),
          edge(Corner(s, 1 - u, u), Corner(s, u, u)),
          edge(Corner(d, a, b), Corner(d, 1 - a, b)),
          edge(Corner(d, 1 - a, 1 - b), Corner(d, a, 1 - b)),
          through(s, Corner(s, u, 1 - u)), through(d, Corner(d, a, b))}
           \union Range(braid_dor(Corner(s, 1 - u, u), Corner(d, a, b), yx).links)
         \subseteq links
  PROVE  Corner(d, 1 - a, 1 - b) \in Reach(Corner(s, u, 1 - u), links)
<1> DEFINE v   == 1 - u
           n   == Corner(s, u, v)
           way == braid_dor(Corner(s, v, u), Corner(d, a, b), yx)
           R   == Reach(n, links)
<1>1. v \in {0, 1} /\ 1 - v = u /\ 1 - u = v /\ 1 - a \in {0, 1} /\ 1 - b \in {0, 1}
  OBVIOUS
<1>2. \A x, y : edge(x, y) = edge(y, x)
  BY DEF edge
<1>3. /\ edge(n, Corner(s, v, v)) \in links
      /\ edge(Corner(s, u, u), Corner(s, v, u)) \in links
      /\ edge(Corner(d, a, b), Corner(d, 1 - a, b)) \in links
      /\ edge(Corner(d, a, 1 - b), Corner(d, 1 - a, 1 - b)) \in links
      /\ Range(way.links) \subseteq links
  BY <1>2
<1>4. edge(Corner(s, v, v), Corner(s, u, u)) \in links
  <2>1. through(s, Corner(s, u, v)) = edge(Corner(s, 1 - u, v), Corner(s, u, 1 - v))
    BY <1>1, ThroughTile
  <2>2. Corner(s, 1 - u, v) = Corner(s, v, v) /\ Corner(s, u, 1 - v) = Corner(s, u, u)
    BY <1>1
  <2>3. QED
    BY <2>1, <2>2
<1>5. edge(Corner(d, 1 - a, b), Corner(d, a, 1 - b)) \in links
  BY ThroughTile
<1>6. Leads(way, TileRow(s) + v, TileCol(s) + u, TileRow(d) + a, TileCol(d) + b)
  <2> DEFINE ra == TileRow(s) + v
             ca == TileCol(s) + u
             rb == TileRow(d) + a
             cb == TileCol(d) + b
  <2>1. way = braid_dor(NodeAt(ra, ca), NodeAt(rb, cb), yx)
    BY DEF Corner
  <2>2. ra \in Rows /\ ca \in Cols /\ rb \in Rows /\ cb \in Cols
    BY <1>1, CornerPlace
  <2> HIDE DEF ra, ca, rb, cb, way
  <2>3. Leads(way, ra, ca, rb, cb)
    BY <2>1, <2>2, DorFollows
  <2>4. QED
    BY <2>3 DEF ra, ca, rb, cb
<1> HIDE DEF v, way
<1>7. n \in R
  BY ReachClosed
<1>8. Corner(s, v, v) \in R
  BY <1>3, <1>7, ReachNext
<1>9. Corner(s, u, u) \in R
  BY <1>4, <1>8, ReachNext
<1>10. Corner(s, v, u) \in R
  BY <1>3, <1>9, ReachNext
<1>11. Corner(d, a, b) \in R
  BY <1>3, <1>6, <1>10, ReachOver DEF Corner
<1>12. Corner(d, 1 - a, b) \in R
  BY <1>3, <1>11, ReachNext
<1>13. Corner(d, a, 1 - b) \in R
  BY <1>5, <1>12, ReachNext
<1>14. Corner(d, 1 - a, 1 - b) \in R
  BY <1>3, <1>13, ReachNext
<1>15. QED
  BY <1>14 DEF v

\* And back: around the destination, over the mesh, and through the source to
\* the other end of the ancilla.
LEMMA BackIsReached ==
  ASSUME NEW s \in Qubits, NEW d \in Qubits,
         NEW u \in {0, 1}, NEW a \in {0, 1}, NEW b \in {0, 1}, NEW yx \in BOOLEAN,
         NEW links, IsFiniteSet(links),
         {edge(Corner(d, 1 - a, 1 - b), Corner(d, 1 - a, b)),
          edge(Corner(d, 1 - a, b), Corner(d, a, b)),
          edge(Corner(s, 1 - u, 1 - u), Corner(s, u, 1 - u)),
          edge(Corner(s, u, u), Corner(s, 1 - u, u)),
          through(s, Corner(s, 1 - u, 1 - u))}
           \union Range(braid_dor(Corner(d, a, b), Corner(s, 1 - u, 1 - u), yx).links)
         \subseteq links
  PROVE  Corner(s, u, u) \in Reach(Corner(d, 1 - a, 1 - b), links)
<1> DEFINE v   == 1 - u
           n   == Corner(d, 1 - a, 1 - b)
           way == braid_dor(Corner(d, a, b), Corner(s, v, v), yx)
           R   == Reach(n, links)
<1>1. v \in {0, 1} /\ 1 - v = u /\ 1 - u = v /\ 1 - a \in {0, 1} /\ 1 - b \in {0, 1}
  OBVIOUS
<1>2. \A x, y : edge(x, y) = edge(y, x)
  BY DEF edge
<1>3. /\ edge(n, Corner(d, 1 - a, b)) \in links
      /\ edge(Corner(d, 1 - a, b), Corner(d, a, b)) \in links
      /\ edge(Corner(s, v, v), Corner(s, u, v)) \in links
      /\ edge(Corner(s, v, u), Corner(s, u, u)) \in links
      /\ Range(way.links) \subseteq links
  BY <1>2
<1>4. edge(Corner(s, u, v), Corner(s, v, u)) \in links
  <2>1. through(s, Corner(s, v, v)) = edge(Corner(s, 1 - v, v), Corner(s, v, 1 - v))
    BY <1>1, ThroughTile
  <2>2. Corner(s, 1 - v, v) = Corner(s, u, v) /\ Corner(s, v, 1 - v) = Corner(s, v, u)
    BY <1>1
  <2>3. QED
    BY <2>1, <2>2
<1>5. Leads(way, TileRow(d) + a, TileCol(d) + b, TileRow(s) + v, TileCol(s) + v)
  <2> DEFINE ra == TileRow(d) + a
             ca == TileCol(d) + b
             rb == TileRow(s) + v
             cb == TileCol(s) + v
  <2>1. way = braid_dor(NodeAt(ra, ca), NodeAt(rb, cb), yx)
    BY DEF Corner
  <2>2. ra \in Rows /\ ca \in Cols /\ rb \in Rows /\ cb \in Cols
    BY <1>1, CornerPlace
  <2> HIDE DEF ra, ca, rb, cb, way
  <2>3. Leads(way, ra, ca, rb, cb)
    BY <2>1, <2>2, DorFollows
  <2>4. QED
    BY <2>3 DEF ra, ca, rb, cb
<1> HIDE DEF v, way
<1>6. n \in R
  BY ReachClosed
<1>7. Corner(d, 1 - a, b) \in R
  BY <1>3, <1>6, ReachNext
<1>8. Corner(d, a, b) \in R
  BY <1>3, <1>7, ReachNext
<1>9. Corner(s, v, v) \in R
  BY <1>3, <1>5, <1>8, ReachOver DEF Corner
<1>10. Corner(s, u, v) \in R
  BY <1>3, <1>9, ReachNext
<1>11. Corner(s, v, u) \in R
  BY <1>4, <1>10, ReachNext
<1>12. Corner(s, u, u) \in R
  BY <1>3, <1>11, ReachNext
<1>13. QED
  BY <1>12

\* A sequence has finitely many elements.
LEMMA RangeIsFinite ==
  ASSUME NEW S, NEW seq \in Seq(S)
  PROVE  IsFiniteSet(Range(seq))
<1>1. Len(seq) \in Nat /\ DOMAIN seq = 1 .. Len(seq) /\ seq \in [1 .. Len(seq) -> S]
  BY LenProperties
<1>2. IsFiniteSet(1 .. Len(seq))
  BY <1>1, FS_Interval
<1>3. seq \in Surjection(1 .. Len(seq), Range(seq))
  <2>1. seq \in [1 .. Len(seq) -> Range(seq)]
    BY <1>1 DEF Range
  <2>2. \A y \in Range(seq) : \E i \in 1 .. Len(seq) : seq[i] = y
    BY <1>1 DEF Range
  <2>3. QED
    BY <2>1, <2>2 DEF Surjection
<1>4. QED
  BY <1>2, <1>3, FS_Surjection

\* The ancilla is on neither route before it is reached, nor is the node where
\* the first route ends.
LEMMA DistantPartsDisjoint ==
  ASSUME NEW s \in Qubits, NEW d \in Qubits,
         NEW u \in {0, 1}, NEW a \in {0, 1}, NEW b \in {0, 1}, NEW yx \in BOOLEAN,
         Corridor(s, d, u, a, b)
  PROVE  /\ Corner(s, u, 1 - u) \notin
              {Corner(s, 1 - u, u), Corner(d, 1 - a, 1 - b)}
                \union Range(braid_dor(Corner(s, 1 - u, u), Corner(d, a, b), yx).nodes)
         /\ Corner(d, 1 - a, 1 - b) \notin
              {Corner(d, 1 - a, b), Corner(d, a, b), Corner(s, u, u)}
                \union Range(braid_dor(Corner(d, a, b), Corner(s, 1 - u, 1 - u), yx).nodes)
<1> DEFINE v  == 1 - u
           Ro == TileRow(s)
           Co == TileCol(s)
           R2 == TileRow(d)
           C2 == TileCol(d)
           there == braid_dor(Corner(s, v, u), Corner(d, a, b), yx)
           back  == braid_dor(Corner(d, a, b), Corner(s, v, v), yx)
           lo == IF Ro + v <= R2 + a THEN Ro + v ELSE R2 + a
           hi == IF Ro + v <= R2 + a THEN R2 + a ELSE Ro + v
<1>1. /\ v \in {0, 1} /\ 1 - v = u /\ 1 - a \in {0, 1} /\ 1 - b \in {0, 1}
      /\ Ro \in Int /\ Co \in Int /\ R2 \in Int /\ C2 \in Int
  BY TilePlace
<1>2. /\ (u = 0 /\ v = 1) \/ (u = 1 /\ v = 0)
      /\ \/ u = 0 /\ a = 0 /\ Ro < R2
         \/ u = 1 /\ a = 1 /\ R2 < Ro
         \/ u = 1 /\ a = 0 /\ R2 = Ro /\ ((b = 1 /\ C2 + 1 < Co) \/ (b = 0 /\ Co + 1 < C2))
  BY DEF Corridor
<1>3. \A i, j \in {0, 1} :
        /\ NodeRow(Corner(s, i, j)) = Ro + i /\ NodeCol(Corner(s, i, j)) = Co + j
        /\ NodeRow(Corner(d, i, j)) = R2 + i /\ NodeCol(Corner(d, i, j)) = C2 + j
        /\ Ro + i \in Rows /\ Co + j \in Cols /\ R2 + i \in Rows /\ C2 + j \in Cols
  BY CornerPlace
<1>4. /\ \A x \in Range(there.nodes) : NodeRow(x) \in lo .. hi
      /\ \A x \in Range(back.nodes) : NodeRow(x) \in lo .. hi
  <2> DEFINE rs == Ro + v
             rd == R2 + a
             cu == Co + u
             cv == Co + v
             cb == C2 + b
  <2>1. /\ there = braid_dor(NodeAt(rs, cu), NodeAt(rd, cb), yx)
        /\ back = braid_dor(NodeAt(rd, cb), NodeAt(rs, cv), yx)
    BY DEF Corner
  <2>2. rs \in Rows /\ cu \in Cols /\ cv \in Cols /\ rd \in Rows /\ cb \in Cols
    BY <1>1, <1>3
  <2>3. /\ lo \in Int /\ hi \in Int /\ rs \in lo .. hi /\ rd \in lo .. hi
    BY <1>1
  <2> HIDE DEF rs, rd, cu, cv, cb, there, back, lo, hi
  <2>4. Leads(there, rs, cu, rd, cb) /\ Leads(back, rd, cb, rs, cv)
    BY <2>1, <2>2, DorFollows
  <2>5. QED
    BY <2>3, <2>4, LeadsWithin
<1>5. /\ Ro + u \notin lo .. hi /\ R2 + (1 - a) \notin lo .. hi
  BY <1>1, <1>2
<1>6. /\ Co + v # Co + u
      /\ Ro + u # R2 + (1 - a) \/ Co + v # C2 + (1 - b)
      /\ Ro + u # R2 + (1 - a) \/ Co + u # C2 + (1 - b)
      /\ C2 + (1 - b) # C2 + b
  BY <1>1, <1>2
<1> HIDE DEF v, Ro, Co, R2, C2, there, back, lo, hi
<1>7. /\ NodeRow(Corner(s, u, v)) = Ro + u /\ NodeCol(Corner(s, u, v)) = Co + v
      /\ NodeCol(Corner(s, v, u)) = Co + u
      /\ NodeRow(Corner(s, u, u)) = Ro + u /\ NodeCol(Corner(s, u, u)) = Co + u
      /\ NodeRow(Corner(d, 1 - a, 1 - b)) = R2 + (1 - a)
      /\ NodeCol(Corner(d, 1 - a, 1 - b)) = C2 + (1 - b)
      /\ NodeCol(Corner(d, 1 - a, b)) = C2 + b /\ NodeCol(Corner(d, a, b)) = C2 + b
  BY <1>1, <1>3
<1>8. Corner(s, u, v) \notin {Corner(s, v, u), Corner(d, 1 - a, 1 - b)} \union Range(there.nodes)
  BY <1>4, <1>5, <1>6, <1>7
<1>9. Corner(d, 1 - a, 1 - b) \notin
        {Corner(d, 1 - a, b), Corner(d, a, b), Corner(s, u, u)} \union Range(back.nodes)
  BY <1>4, <1>5, <1>6, <1>7
<1>10. QED
  BY <1>8, <1>9 DEF there, back, v

\* Two tiles that are not side by side.
LEMMA DistantLoop ==
  ASSUME NEW s \in Qubits, NEW d \in Qubits, s # d, ~are_adjacent(s, d), NEW yx \in BOOLEAN
  PROVE  LET ends == cnot_ancillas(s, d)
             rs   == cnot_routes(s, d, ends.anc1, yx)
             last == Last(rs.route_1.nodes)
         IN  /\ ends.anc1 \notin Range(rs.route_1.nodes) /\ last \notin Range(rs.route_2.nodes)
             /\ last \in Reach(ends.anc1,
                  Range(rs.route_1.links)
                    \union {through(s, ends.anc1),
                            through(d, find_nearest(d, find_diagonal(s, ends.anc1)))})
             /\ ends.anc2 \in Reach(last,
                  Range(rs.route_2.links) \union {through(s, find_vertical(s, ends.anc1))})
<1> DEFINE ends == cnot_ancillas(s, d)
           rs   == cnot_routes(s, d, ends.anc1, yx)
           near == find_nearest(d, find_diagonal(s, ends.anc1))
           far  == find_vertical(s, ends.anc1)
           out(u, a, b) == braid_merge(
                             braid_merge(braid_S(s, Corner(s, u, 1 - u)),
                                         braid_dor(Corner(s, 1 - u, u), Corner(d, a, b), yx)),
                             braid_S(d, Corner(d, a, b)))
           back(u, a, b) == braid_merge(
                              braid_merge(braid_short_L(d, Corner(d, 1 - a, 1 - b)),
                                          braid_dor(Corner(d, a, b), Corner(s, 1 - u, 1 - u), yx)),
                              braid_S(s, Corner(s, 1 - u, 1 - u)))
<1> SUFFICES /\ ends.anc1 \notin Range(rs.route_1.nodes)
             /\ Last(rs.route_1.nodes) \notin Range(rs.route_2.nodes)
             /\ Last(rs.route_1.nodes) \in Reach(ends.anc1,
                  Range(rs.route_1.links) \union {through(s, ends.anc1), through(d, near)})
             /\ ends.anc2 \in Reach(Last(rs.route_1.nodes),
                  Range(rs.route_2.links) \union {through(s, far)})
  OBVIOUS
<1>1. rs = distant_routes(s, d, ends.anc1, yx)
  BY DEF cnot_routes
<1>2. rs.route_1.links \in Seq(SUBSET Int) /\ rs.route_2.links \in Seq(SUBSET Int)
  <2>1. s \in Int /\ d \in Int
    BY DEF Qubits
  <2>2. ends.anc1 \in Int
    BY <2>1, AncillaType
  <2>3. rs.route_1 \in FullBraidType /\ rs.route_2 \in FullBraidType
    BY <2>1, <2>2, RoutesType
  <2>4. QED
    BY <2>3 DEF FullBraidType, BraidType
<1> HIDE DEF rs
<1>3. PICK u \in {0, 1}, a \in {0, 1}, b \in {0, 1} :
        /\ Corridor(s, d, u, a, b)
        /\ ends.anc1 = Corner(s, u, 1 - u) /\ ends.anc2 = Corner(s, u, u)
        /\ near = Corner(d, a, b)
        /\ rs = [route_1 |-> out(u, a, b), route_2 |-> back(u, a, b)]
  BY <1>1, DistantShape
<1>4. far = Corner(s, 1 - u, 1 - u)
  BY <1>3, OtherCorners
<1> HIDE DEF ends, near, far
<1> DEFINE r1_ == out(u, a, b)
           r2_ == back(u, a, b)
           way_1 == braid_dor(Corner(s, 1 - u, u), Corner(d, a, b), yx)
           way_2 == braid_dor(Corner(d, a, b), Corner(s, 1 - u, 1 - u), yx)
           links_1 == Range(r1_.links) \union {through(s, Corner(s, u, 1 - u)), through(d, Corner(d, a, b))}
           links_2 == Range(r2_.links) \union {through(s, Corner(s, 1 - u, 1 - u))}
           n == Corner(d, 1 - a, 1 - b)
<1>5. /\ Last(r1_.nodes) = n
      /\ Range(r1_.nodes) = {Corner(s, 1 - u, u), n} \union Range(way_1.nodes)
      /\ Range(r1_.links) = {edge(Corner(s, u, 1 - u), Corner(s, 1 - u, 1 - u)),
                             edge(Corner(s, 1 - u, u), Corner(s, u, u)),
                             edge(Corner(d, a, b), Corner(d, 1 - a, b)),
                             edge(n, Corner(d, a, 1 - b))}
                              \union Range(way_1.links)
  <2>1. EngagesOut(r1_, way_1, s, d, u, a, b)
    BY WayOut
  <2> HIDE DEF r1_, way_1
  <2>2. QED
    BY <2>1 DEF EngagesOut
<1>6. /\ Range(r2_.nodes) = {Corner(d, 1 - a, b), Corner(d, a, b), Corner(s, u, u)}
                              \union Range(way_2.nodes)
      /\ Range(r2_.links) = {edge(n, Corner(d, 1 - a, b)),
                             edge(Corner(d, 1 - a, b), Corner(d, a, b)),
                             edge(Corner(s, 1 - u, 1 - u), Corner(s, u, 1 - u)),
                             edge(Corner(s, u, u), Corner(s, 1 - u, u))}
                              \union Range(way_2.links)
  <2>1. EngagesBack(r2_, way_2, s, d, u, a, b)
    BY <1>3, WayBack
  <2> HIDE DEF r2_, way_2
  <2>2. QED
    BY <2>1 DEF EngagesBack
<1>7. rs.route_1 = r1_ /\ rs.route_2 = r2_
  BY <1>3
<1> HIDE DEF r1_, r2_
<1>8. IsFiniteSet(links_1) /\ IsFiniteSet(links_2)
  <2>1. IsFiniteSet(Range(r1_.links)) /\ IsFiniteSet(Range(r2_.links))
    BY <1>2, <1>7, RangeIsFinite
  <2> DEFINE x == through(s, Corner(s, u, 1 - u))
             y == through(d, Corner(d, a, b))
  <2>2. {x, y} = {x} \union {y}
    OBVIOUS
  <2> HIDE DEF x, y
  <2>6. IsFiniteSet({x}) /\ IsFiniteSet({y})
    BY FS_Singleton
  <2>7. IsFiniteSet({x} \union {y})
    BY <2>6, FS_Union
  <2>3. IsFiniteSet({through(s, Corner(s, u, 1 - u)), through(d, Corner(d, a, b))})
    BY <2>2, <2>7 DEF x, y
  <2>4. IsFiniteSet({through(s, Corner(s, 1 - u, 1 - u))})
    BY FS_Singleton
  <2>5. QED
    BY <2>1, <2>3, <2>4, FS_Union
<1>9. n \in Reach(Corner(s, u, 1 - u), links_1)
  <2>1. {edge(Corner(s, u, 1 - u), Corner(s, 1 - u, 1 - u)),
         edge(Corner(s, 1 - u, u), Corner(s, u, u)),
         edge(Corner(d, a, b), Corner(d, 1 - a, b)),
         edge(n, Corner(d, a, 1 - b)),
         through(s, Corner(s, u, 1 - u)), through(d, Corner(d, a, b))}
          \union Range(way_1.links) \subseteq links_1
    BY <1>5, Zenon
  <2> HIDE DEF links_1
  <2>2. QED
    BY <1>8, <2>1, ThereIsReached
<1>10. Corner(s, u, u) \in Reach(n, links_2)
  <2>1. {edge(n, Corner(d, 1 - a, b)),
         edge(Corner(d, 1 - a, b), Corner(d, a, b)),
         edge(Corner(s, 1 - u, 1 - u), Corner(s, u, 1 - u)),
         edge(Corner(s, u, u), Corner(s, 1 - u, u)),
         through(s, Corner(s, 1 - u, 1 - u))}
          \union Range(way_2.links) \subseteq links_2
    BY <1>6, Zenon
  <2> HIDE DEF links_2
  <2>2. QED
    BY <1>8, <2>1, BackIsReached
<1>11. /\ Corner(s, u, 1 - u) \notin {Corner(s, 1 - u, u), n} \union Range(way_1.nodes)
       /\ n \notin {Corner(d, 1 - a, b), Corner(d, a, b), Corner(s, u, u)} \union Range(way_2.nodes)
  BY <1>3, DistantPartsDisjoint
<1> HIDE DEF n, way_1, way_2
<1>12. QED
  BY <1>3, <1>4, <1>5, <1>6, <1>7, <1>9, <1>10, <1>11

\* Two tiles side by side.
LEMMA AdjacentPartsDisjoint ==
  ASSUME NEW s \in Qubits, NEW d \in Qubits, are_adjacent(s, d), NEW yx \in BOOLEAN
  PROVE  LET ends == cnot_ancillas(s, d)
             rs   == cnot_routes(s, d, ends.anc1, yx)
         IN  /\ ends.anc1 \notin Range(rs.route_1.nodes)
             /\ Last(rs.route_1.nodes) \notin Range(rs.route_2.nodes)
<1> DEFINE ends == cnot_ancillas(s, d)
           rs   == cnot_routes(s, d, ends.anc1, yx)
<1>1. rs = adjacent_routes(s, d, ends.anc1)
  BY DEF cnot_routes
<1>2. PICK w \in {0, 1} :
        LET l1 == edge(Corner(s, 0, 1 - w), Corner(s, 1, 1 - w))
            l2 == edge(Corner(s, 0, w), Corner(s, 1, w))
            l3 == edge(Corner(d, 1, w), Corner(d, 0, w))
            l4 == edge(Corner(d, 1, w), Corner(d, 1, 1 - w))
        IN  /\ ends.anc1 = Corner(s, 0, 1 - w)
            /\ TileRow(d) = TileRow(s)
            /\ TileCol(d) = TileCol(s) + (2 * w) - 1
            /\ adjacent_routes(s, d, ends.anc1) =
                 [route_1 |-> Braid(<<Corner(d, 1, w)>>, <<l1, l2, l3>>),
                  route_2 |-> Braid(<<Corner(s, 1, w), Corner(s, 1, 1 - w)>>, <<l4, l2, l1>>)]
  BY AdjacentShape
<1> HIDE DEF rs, ends
<1>3. /\ rs.route_1.nodes = <<Corner(d, 1, w)>>
      /\ rs.route_2.nodes = <<Corner(s, 1, w), Corner(s, 1, 1 - w)>>
  BY <1>1, <1>2 DEF Braid
<1>4. 1 - w \in {0, 1} /\ 0 \in {0, 1} /\ 1 \in {0, 1}
  OBVIOUS
<1>5. /\ Corner(d, 1, w) \in Nodes /\ Corner(s, 1, w) \in Nodes /\ Corner(s, 1, 1 - w) \in Nodes
  BY <1>4, CornerPlace
<1>6. /\ Range(rs.route_1.nodes) = {Corner(d, 1, w)} /\ Last(rs.route_1.nodes) = Corner(d, 1, w)
      /\ Range(rs.route_2.nodes) = {Corner(s, 1, w), Corner(s, 1, 1 - w)}
  <2>1. Range(<<Corner(d, 1, w)>>) = {Corner(d, 1, w)}
    BY PairEnds
  <2>2. Last(<<Corner(d, 1, w)>>) = Corner(d, 1, w)
    BY PairEnds
  <2>3. Range(<<Corner(s, 1, w), Corner(s, 1, 1 - w)>>) = {Corner(s, 1, w), Corner(s, 1, 1 - w)}
    BY PairEnds
  <2>4. QED
    BY <1>3, <2>1, <2>2, <2>3
<1>7. /\ NodeRow(Corner(s, 0, 1 - w)) = TileRow(s) + 0
      /\ NodeRow(Corner(d, 1, w)) = TileRow(s) + 1
      /\ NodeCol(Corner(d, 1, w)) = TileCol(d) + w
      /\ NodeCol(Corner(s, 1, w)) = TileCol(s) + w
      /\ NodeCol(Corner(s, 1, 1 - w)) = TileCol(s) + (1 - w)
  BY <1>2, <1>4, CornerPlace
<1>8. TileRow(s) \in Int /\ TileCol(s) \in Int /\ TileCol(d) \in Int
  BY TilePlace
<1>9. /\ TileRow(s) + 0 # TileRow(s) + 1
      /\ TileCol(d) + w # TileCol(s) + w /\ TileCol(d) + w # TileCol(s) + (1 - w)
  BY <1>2, <1>8
<1>10. /\ Corner(s, 0, 1 - w) # Corner(d, 1, w)
       /\ Corner(d, 1, w) # Corner(s, 1, w) /\ Corner(d, 1, w) # Corner(s, 1, 1 - w)
  BY <1>7, <1>9
<1>11. QED
  BY <1>2, <1>6, <1>10 DEF ends, rs

-----------------------------------------------------------------------------
(* The theorems *)

\* The specification asks for the routes of two different tiles only, in one
\* order of dimensions or the other: cnot_routes is called for a CNOT's qubits.
PairOK == /\ src_qbit \in Qubits /\ dest_qbit \in Qubits /\ src_qbit # dest_qbit
          /\ YX_order \in BOOLEAN

\* The pair asked for is always one of different tiles (Turn and AnotherPair).
THEOREM PairIsOK == RouteSpec => []PairOK
<1>1. RouteInit => PairOK
  BY DEF RouteInit, RouteOf, PairOK
<1>2. PairOK /\ [RouteNext]_route_vars => PairOK'
  BY DEF PairOK, RouteNext, Turn, AnotherPair, route_vars
<1>3. QED
  BY <1>1, <1>2, PTL DEF RouteSpec

\* A route and its form with the dimensions crossed in the other order end at
\* the same place: route 1 at the same node, route 2 at the same node over the
\* same link. resolve_cnot replaces one of the two routes and keeps the events
\* built from the other, so the two must still meet (cnot_routes, braid_dor).
THEOREM SameEndsHolds == RouteSpec => []SameEndsBothWays
<1>1. PairOK => SameEndsBothWays
  <2> SUFFICES ASSUME PairOK PROVE SameEndsBothWays
    OBVIOUS
  <2>1. src_qbit \in Int /\ dest_qbit \in Int /\ YX_order \in BOOLEAN
    BY DEF PairOK, Qubits
  <2>2. cnot_ancillas(src_qbit, dest_qbit).anc1 \in Int
    BY <2>1, AncillaType
  <2>3. QED
    BY <2>1, <2>2, SameEnds DEF SameEndsBothWays, ancilla, both_routes, route1, route2, turn_node
<1>2. QED
  BY <1>1, PairIsOK, PTL

\* On a mesh of any size, and for any two different tiles, the routes name only
\* nodes and links of the mesh; tiles that are not side by side get a loop that
\* closes through both tiles and back to the ancilla; and no route takes a node
\* that its own CNOT has engaged before (cnot_routes, braid_S, braid_short_L,
\* braid_dor, through and find_vertical).
THEOREM LoopHolds == RouteSpec => []RoutesCloseTheLoop
<1>1. PairOK => RoutesCloseTheLoop
  <2> SUFFICES ASSUME PairOK PROVE RoutesCloseTheLoop
    OBVIOUS
  <2>1. src_qbit \in Qubits /\ dest_qbit \in Qubits /\ src_qbit # dest_qbit /\ YX_order \in BOOLEAN
    BY DEF PairOK
  <2>2. OnMesh(route1) /\ OnMesh(route2)
    BY <2>1, RouteFacts DEF OnMesh, route1, route2, both_routes, ancilla
  <2>3. CASE are_adjacent(src_qbit, dest_qbit)
    <3>1. PartsDisjoint
      BY <2>1, <2>3, AdjacentPartsDisjoint DEF PartsDisjoint, route1, route2, both_routes, ancilla, turn_node
    <3>2. QED
      BY <2>2, <2>3, <3>1 DEF RoutesCloseTheLoop, LoopClosed
  <2>4. CASE ~are_adjacent(src_qbit, dest_qbit)
    <3>1. PartsDisjoint
      BY <2>1, <2>4, DistantLoop DEF PartsDisjoint, route1, route2, both_routes, ancilla, turn_node
    <3>2. LoopClosed
      BY <2>1, <2>4, DistantLoop
         DEF LoopClosed, route1, route2, both_routes, ancilla, turn_node, near_corner
    <3>3. QED
      BY <2>2, <3>1, <3>2 DEF RoutesCloseTheLoop
  <2>5. QED
    BY <2>3, <2>4
<1>2. QED
  BY <1>1, PairIsOK, PTL

-----------------------------------------------------------------------------
(* The events of a gate *)

\* What is left of the queue of gate g, given what the gate is.
QueueOf(q, g, gate) ==
  /\ Len(q) <= Len(Script(gate))
  /\ \A i \in DOMAIN q :
       /\ q[i].gate = g
       /\ i > 1 => q[i].timer < 0
       /\ q[i].type = Script(gate)[Len(Script(gate)) - Len(q) + i]
       /\ q[i].type \in {"cnot4", "cnot6"} => q[i].braid.nodes # <<>>

\* The queue of a gate that is (re)started: all its events, the first timer
\* running.
FreshQueue(q, g, gate) ==
  /\ q \in Seq(EventType)
  /\ q # <<>>
  /\ Len(q) = Len(Script(gate))
  /\ q[1].timer = 1
  /\ QueueOf(q, g, gate)

\* events_cnot gives the gate its seven events, in order, none with a timer.
LEMMA CnotEventsFresh ==
  ASSUME NEW g \in Gates, NEW src \in Int, NEW dest \in Int,
         NEW gate, gate.op = "CNOT"
  PROVE  FreshQueue(events_cnot(src, dest, g), g, gate)
<1> DEFINE anc     == cnot_ancillas(src, dest)
           routes  == cnot_routes(src, dest, anc.anc1, FALSE)
           anc_braid(links) == Braid(<<anc.anc2, anc.anc1>>, links)
           anc_init == anc_braid(<<edge(anc.anc1, anc.anc2)>>)
           n_last  == Last(routes.route_1.nodes)
           route_1 == Braid(Append(routes.route_1.nodes, anc.anc1),
                            routes.route_1.links)
           nodes_2 == Append(routes.route_2.nodes, n_last)
           links_2 == routes.route_2.links
           opens_2  == Braid(nodes_2, links_2)
           closes_2 == Braid(nodes_2, Front(links_2))
           anc_last == anc_braid(<<Last(links_2)>>)
           e1 == Event(anc_init, TRUE, g, "cnot1", 1)
           e2 == Event(anc_init, FALSE, g, "cnot2", -1)
           e3 == Event(route_1, TRUE, g, "cnot3", -1)
           e4 == Event(route_1, FALSE, g, "cnot4", -1)
           e5 == Event(opens_2, TRUE, g, "cnot5", -1)
           e6 == Event(closes_2, FALSE, g, "cnot6", -1)
           e7 == Event(anc_last, FALSE, g, "cnot7", -1)
           queue == <<e1, e2, e3, e4, e5, e6, e7>>
<1>1. anc.anc1 \in Int /\ anc.anc2 \in Int
  BY AncillaType
<1> HIDE DEF anc
<1>2. routes.route_1 \in FullBraidType /\ routes.route_2 \in FullBraidType
  BY <1>1, RoutesType
<1> HIDE DEF routes
<1>3. /\ routes.route_1.nodes \in Seq(Int) /\ routes.route_1.nodes # <<>>
      /\ routes.route_1.links \in Seq(SUBSET Int)
      /\ routes.route_2.nodes \in Seq(Int)
      /\ links_2 \in Seq(SUBSET Int) /\ links_2 # <<>>
  BY <1>2 DEF FullBraidType, BraidType
<1>4. n_last \in Int
  BY <1>3, LastFrontType
<1>5. Front(links_2) \in Seq(SUBSET Int) /\ Last(links_2) \in SUBSET Int
  BY <1>3, LastFrontType
<1> HIDE DEF n_last, links_2
<1>6. /\ nodes_2 \in Seq(Int) /\ nodes_2 # <<>>
      /\ Append(routes.route_1.nodes, anc.anc1) \in Seq(Int)
      /\ Append(routes.route_1.nodes, anc.anc1) # <<>>
  <2>1. \A sq \in Seq(Int), x \in Int : Append(sq, x) \in Seq(Int) /\ Append(sq, x) # <<>>
    OBVIOUS
  <2> QED
    BY <1>1, <1>3, <1>4, <2>1
<1>7. \A nodes \in Seq(Int), links \in Seq(SUBSET Int) :
        Braid(nodes, links) \in BraidType
  BY DEF Braid, BraidType
<1>8. <<anc.anc2, anc.anc1>> \in Seq(Int)
  BY <1>1, PairType
<1>9. /\ <<edge(anc.anc1, anc.anc2)>> \in Seq(SUBSET Int)
      /\ <<Last(links_2)>> \in Seq(SUBSET Int)
  BY <1>1, <1>5, EdgeType, PairType
<1> HIDE DEF nodes_2
<1>10. /\ anc_init \in BraidType /\ anc_last \in BraidType
       /\ route_1 \in BraidType
       /\ opens_2 \in BraidType /\ closes_2 \in BraidType
  BY <1>3, <1>5, <1>6, <1>7, <1>8, <1>9
<1>11. events_cnot(src, dest, g) = queue
  BY DEF events_cnot, anc, routes, n_last, nodes_2, links_2
<1>12. route_1.nodes # <<>> /\ closes_2.nodes # <<>>
  BY <1>6 DEF Braid
<1> HIDE DEF anc_init, anc_last, route_1, opens_2, closes_2
<1>13. /\ e1 \in EventType /\ e2 \in EventType /\ e3 \in EventType
       /\ e4 \in EventType /\ e5 \in EventType /\ e6 \in EventType
       /\ e7 \in EventType
  <2>1. {"cnot1", "cnot2", "cnot3", "cnot4", "cnot5", "cnot6", "cnot7"}
          \subseteq EventTypes
    BY DEF EventTypes, CnotEvents
  <2>2. QED
    BY <1>10, <2>1 DEF Event, EventType
<1>14. /\ e1.gate = g /\ e2.gate = g /\ e3.gate = g /\ e4.gate = g
       /\ e5.gate = g /\ e6.gate = g /\ e7.gate = g
       /\ e1.timer = 1 /\ e2.timer = -1 /\ e3.timer = -1 /\ e4.timer = -1
       /\ e5.timer = -1 /\ e6.timer = -1 /\ e7.timer = -1
       /\ e1.type = "cnot1" /\ e2.type = "cnot2" /\ e3.type = "cnot3"
       /\ e4.type = "cnot4" /\ e5.type = "cnot5" /\ e6.type = "cnot6"
       /\ e7.type = "cnot7"
       /\ e4.braid.nodes # <<>> /\ e6.braid.nodes # <<>>
  BY <1>12 DEF Event
<1> HIDE DEF e1, e2, e3, e4, e5, e6, e7
<1>15. queue \in Seq(EventType)
  BY <1>13
<1>16. QueueOf(queue, g, gate) /\ Len(queue) = Len(Script(gate))
  BY <1>14 DEF QueueOf, Script
<1>17. QED
  BY <1>11, <1>14, <1>15, <1>16 DEF FreshQueue

\* events_h gives the gate its three events, in order, none with a timer.
LEMMA HEventsFresh ==
  ASSUME NEW g \in Gates, NEW gate, gate.op # "CNOT"
  PROVE  FreshQueue(events_h(g), g, gate)
<1> DEFINE none == Braid(<<>>, <<>>)
           e1 == Event(none, TRUE, g, "h1", 1)
           e2 == Event(none, FALSE, g, "h2", -1)
<1>1. none \in BraidType
  BY EmptySeq DEF Braid, BraidType
<1> HIDE DEF none
<1>2. e1 \in EventType /\ e2 \in EventType
  <2>1. "h1" \in EventTypes /\ "h2" \in EventTypes
    BY DEF EventTypes, HEvents
  <2>2. QED
    BY <1>1, <2>1 DEF Event, EventType
<1>3. /\ e1.gate = g /\ e1.timer = 1
      /\ e2.gate = g /\ e2.timer = -1
      /\ e1.type = "h1" /\ e2.type = "h2"
  BY DEF Event
<1>4. events_h(g) = <<e1, e2>>
  BY DEF events_h, none
<1> HIDE DEF e1, e2
<1>5. QED
  BY <1>2, <1>3, <1>4 DEF FreshQueue, QueueOf, Script

\* Every gate of a module gets a fresh queue when it is ready.
LEMMA EventsOfFresh ==
  ASSUME NEW g \in Gates, IsGate(module_gates[g])
  PROVE  FreshQueue(EventsOf(g), g, module_gates[g])
<1> DEFINE gate == module_gates[g]
<1>1. \A q \in Qubits : q \in Int
  BY MeshAssumption DEF Qubits
<1>2. CASE gate.op = "CNOT"
  <2>1. gate.qid[1] \in Int /\ gate.qid[2] \in Int
    BY <1>1, <1>2, ElementOfSeq DEF IsGate
  <2>2. QED
    BY <1>2, <2>1, CnotEventsFresh DEF EventsOf
<1>3. CASE gate.op # "CNOT"
  BY <1>3, HEventsFresh DEF EventsOf
<1>4. QED
  BY <1>2, <1>3
-----------------------------------------------------------------------------
(* The invariant: one event in flight per gate, in the order of its queue *)

\* A lapsed event is the one that precedes what is left of its gate's queue.
IsNext(type, q, gate) ==
  /\ Len(q) < Len(Script(gate))
  /\ type = Script(gate)[Len(Script(gate)) - Len(q)]

HeadWaits(q) == q # <<>> => q[1].timer < 0

\* An event in ready_events or todo: its gate waits for it alone.
Waits(e) ==
  /\ IsNext(e.type, event_queues[e.gate], module_gates[e.gate])
  /\ HeadWaits(event_queues[e.gate])
  /\ e.gate \notin ready_gates

\* No two events of one gate.
Single(s) == \A i, j \in DOMAIN s : s[i].gate = s[j].gate => i = j
Apart(s, t) == \A i \in DOMAIN s, j \in DOMAIN t : s[i].gate # t[j].gate

\* Outside the event loop there is no iterator, and a module ends with nothing
\* left, so that the next one starts clean.
Quiet == /\ pc # "events" => todo = <<>>
         /\ pc = "idle" => ~WorkLeft

InFlight ==
  /\ \A g \in Gates : QueueOf(event_queues[g], g, module_gates[g])
  /\ \A g \in ready_gates : event_queues[g] = <<>>
  /\ \A i \in DOMAIN ready_events : Waits(ready_events[i])
  /\ \A i \in DOMAIN todo : Waits(todo[i])
  /\ Single(ready_events)
  /\ Single(todo)
  /\ Apart(ready_events, todo)

IInv == TypeOK /\ Quiet /\ InFlight

-----------------------------------------------------------------------------
(* Queues *)

\* A gate whose events have all left the queue keeps the order trivially.
LEMMA EmptyQueueOf ==
  ASSUME NEW g, NEW gate
  PROVE  QueueOf(<<>>, g, gate)
BY DEF QueueOf, Script

\* The event that leaves the front of a queue is the next one of its script.
LEMMA TailQueueOf ==
  ASSUME NEW S, NEW q \in Seq(S), q # <<>>, NEW g, NEW gate,
         QueueOf(q, g, gate)
  PROVE  /\ QueueOf(Tail(q), g, gate)
         /\ HeadWaits(Tail(q))
         /\ IsNext(q[1].type, Tail(q), gate)
<1> DEFINE t == Tail(q)
           n == Len(Script(gate))
<1>1. n \in Nat
  BY DEF Script
<1>2. /\ Len(q) \in Nat /\ Len(q) > 0
      /\ t \in Seq(S)
      /\ Len(t) = Len(q) - 1
      /\ \A i \in 1 .. Len(t) : t[i] = q[i + 1]
      /\ DOMAIN t = 1 .. Len(t) /\ DOMAIN q = 1 .. Len(q)
  BY EmptySeq, HeadTailProperties, LenProperties
<1> HIDE DEF n, t
<1>3. /\ Len(q) <= n
      /\ \A i \in 1 .. Len(q) :
           /\ q[i].gate = g
           /\ i > 1 => q[i].timer < 0
           /\ q[i].type = Script(gate)[n - Len(q) + i]
           /\ q[i].type \in {"cnot4", "cnot6"} => q[i].braid.nodes # <<>>
  BY <1>2 DEF QueueOf, n
<1>4. \A i \in 1 .. Len(t) :
           /\ i + 1 \in 1 .. Len(q)
           /\ t[i] = q[i + 1]
           /\ n - Len(t) + i = n - Len(q) + (i + 1)
  BY <1>1, <1>2
<1>5. /\ Len(t) <= n
      /\ \A i \in 1 .. Len(t) :
           /\ t[i].gate = g
           /\ t[i].timer < 0
           /\ t[i].type = Script(gate)[n - Len(t) + i]
           /\ t[i].type \in {"cnot4", "cnot6"} => t[i].braid.nodes # <<>>
  <2>1. Len(t) <= n
    BY <1>1, <1>2, <1>3
  <2>2. SUFFICES ASSUME NEW i \in 1 .. Len(t)
                 PROVE  /\ t[i].gate = g
                        /\ t[i].timer < 0
                        /\ t[i].type = Script(gate)[n - Len(t) + i]
                        /\ t[i].type \in {"cnot4", "cnot6"} =>
                             t[i].braid.nodes # <<>>
    BY <2>1
  <2>3. i + 1 > 1 /\ i + 1 \in 1 .. Len(q) /\ t[i] = q[i + 1]
    BY <1>2, <1>4
  <2>4. QED
    BY <1>3, <1>4, <2>3
<1>6. QueueOf(t, g, gate)
  BY <1>2, <1>5 DEF QueueOf, n
<1>7. HeadWaits(t)
  BY <1>2, <1>5, EmptySeq DEF HeadWaits
<1>8. IsNext(q[1].type, t, gate)
  <2>1. n - Len(q) + 1 = n - Len(t) /\ Len(t) < n /\ 1 \in 1 .. Len(q)
    BY <1>1, <1>2, <1>3
  <2>2. QED
    BY <1>3, <2>1 DEF IsNext, n
<1>9. QED
  BY <1>6, <1>7, <1>8 DEF t

\* Changing the timer or the braid of the head leaves the rest as it is.
LEMMA HeadUpdate ==
  ASSUME NEW S, NEW q \in Seq(S), q # <<>>, NEW e \in S,
         NEW g, NEW gate, QueueOf(q, g, gate),
         e.gate = q[1].gate, e.type = q[1].type,
         e.type \in {"cnot4", "cnot6"} => e.braid.nodes # <<>>
  PROVE  LET r == [q EXCEPT ![1] = e]
         IN  /\ r \in Seq(S)
             /\ r # <<>>
             /\ r[1] = e
             /\ Len(r) = Len(q)
             /\ QueueOf(r, g, gate)
<1> DEFINE r == [q EXCEPT ![1] = e]
<1>1. Len(q) \in Nat /\ Len(q) > 0 /\ DOMAIN q = 1 .. Len(q)
  BY EmptySeq, LenProperties
<1>2. /\ r \in Seq(S) /\ Len(r) = Len(q)
      /\ \A j \in 1 .. Len(q) : r[j] = IF j = 1 THEN e ELSE q[j]
  BY <1>1, ExceptSeq
<1> HIDE DEF r
<1>3. DOMAIN r = 1 .. Len(q) /\ r # <<>> /\ r[1] = e
  BY <1>1, <1>2, LenProperties, EmptySeq
<1>4. QueueOf(r, g, gate)
  BY <1>1, <1>2, <1>3 DEF QueueOf
<1>5. QED
  BY <1>2, <1>3, <1>4 DEF r
-----------------------------------------------------------------------------
(* The invariant holds at the start and is kept by every step *)

\* Every gate of a module has one of the two operations the model knows.
LEMMA GatesAreGates ==
  ASSUME TypeOK
  PROVE  \A g \in Gates : IsGate(module_gates[g])
BY BraidflashAssumption DEF TypeOK, Gates

\* A code distance is a natural number.
LEMMA DistanceIsNatural ==
  ASSUME TypeOK
  PROVE  code_distance \in Nat
BY BraidflashAssumption DEF TypeOK

\* Events of event lists and queues, by position.
LEMMA ListTypes ==
  ASSUME TypeOK
  PROVE  /\ \A i \in DOMAIN ready_events : ready_events[i] \in EventType
         /\ \A i \in DOMAIN todo : todo[i] \in EventType
         /\ \A g \in Gates : event_queues[g] \in Seq(EventType)
BY ElementOfSeq, LenProperties DEF TypeOK

\* The program starts with empty lists and queues.
LEMMA InitIInv == Init => IInv
<1> SUFFICES ASSUME Init PROVE IInv
  OBVIOUS
<1>1. Gates = {}
  BY DEF Init, Gates
<1>2. TypeOK
  <2>1. event_queues \in [Gates -> Seq(EventType)]
    <3>1. event_queues = [g \in {} |-> <<>>]
      BY DEF Init
    <3>2. QED
      BY <1>1, <3>1
  <2>2. ready_events \in Seq(EventType) /\ todo \in Seq(EventType)
    BY EmptySeq DEF Init
  <2>3. /\ node_owner \in [Nodes -> Gates \union {Free}]
        /\ link_owner \in [Links -> Gates \union {Free}]
    BY DEF Init
  <2>4. /\ module_gates \in Programs \union {<<>>}
        /\ code_distance \in CodeDistances
    BY DEF Init
  <2>5. /\ edges \in SUBSET (Gates \X Gates)
        /\ completed \in SUBSET Gates
        /\ ready_gates \in SUBSET Gates
        /\ prev_remaining \in SUBSET (Gates \X Gates)
    BY DEF Init
  <2>6. /\ pc \in {"idle", "loop", "count", "events", "stuck"}
        /\ sweep \in Nat \ {0} /\ clk \in Nat
    BY DEF Init
  <2>7. YX_flag \in BOOLEAN /\ drop_flag \in BOOLEAN
    BY Zenon DEF Init
  <2>8. QED
    BY <2>1, <2>2, <2>3, <2>4, <2>5, <2>6, <2>7 DEF TypeOK
<1>3. Quiet
  BY <1>1 DEF Init, Quiet, WorkLeft
<1>4. InFlight
  BY <1>1 DEF Init, InFlight, Single, Apart
<1>5. QED
  BY <1>2, <1>3, <1>4 DEF IInv

\* A module starts with empty lists and queues.
LEMMA StartModuleIInv ==
  ASSUME IInv, NEW gates \in Programs, StartModule(gates)
  PROVE  IInv'
<1>1. /\ ready_events = <<>> /\ todo = <<>> /\ ready_gates = {}
      /\ ready_events' = <<>> /\ todo' = <<>>
  BY DEF IInv, Quiet, WorkLeft, StartModule
<1>2. Gates' = DOMAIN gates /\ module_gates' = gates
  BY DEF Gates, StartModule
<1>3. \A g \in Gates' : event_queues'[g] = <<>>
  BY <1>2 DEF StartModule
<1>4. /\ ready_gates' \in SUBSET Gates' /\ edges' \in SUBSET (Gates' \X Gates')
      /\ completed' \in SUBSET Gates'
  BY <1>1, <1>2 DEF StartModule, initial_ready, DependencyEdges
<1>5. event_queues' \in [Gates' -> Seq(EventType')]
  BY <1>2, <1>3, EmptySeq DEF StartModule
<1>6. ready_events' \in Seq(EventType') /\ todo' \in Seq(EventType')
  BY <1>1, EmptySeq
<1>7. /\ node_owner' \in [Nodes -> Gates' \union {Free}]
      /\ link_owner' \in [Links -> Gates' \union {Free}]
  BY DEF StartModule
<1>8. TypeOK'
  BY <1>2, <1>4, <1>5, <1>6, <1>7 DEF IInv, TypeOK, dag, StartModule, flags
<1>9. Quiet'
  BY <1>1 DEF StartModule, Quiet
<1>10. InFlight'
  BY <1>1, <1>2, <1>3, <1>4, EmptyQueueOf DEF InFlight, Single, Apart
<1>11. QED
  BY <1>8, <1>9, <1>10 DEF IInv

\* Steps that only move pc.
LEMMA StillInFlight ==
  ASSUME InFlight,
         UNCHANGED <<module_gates, event_queues, ready_gates, ready_events, todo>>
  PROVE  InFlight'
BY DEF InFlight, Waits, IsNext, HeadWaits, Single, Apart, Gates

\* The steps of main's loop that touch no list.
LEMMA PcStepIInv ==
  ASSUME IInv, EndModule \/ Stuck \/ EndCycle
  PROVE  IInv'
<1>1. UNCHANGED <<code_distance, module_gates, mesh, dag, ready_gates,
                  event_queues, ready_events, todo, flags, sweep, watch>>
  BY DEF EndModule, Stuck, EndCycle
<1>2. TypeOK'
  BY <1>1 DEF EndModule, Stuck, EndCycle, IInv, TypeOK, dag, mesh, flags, watch,
              Gates, EventType
<1>3. InFlight'
  BY <1>1, StillInFlight DEF IInv
<1>4. Quiet'
  BY <1>1 DEF EndModule, Stuck, EndCycle, IInv, Quiet, WorkLeft, dag, Gates
<1>5. QED
  BY <1>2, <1>3, <1>4 DEF IInv

\* The gates that become ready were idle: their fresh queues are the only trace
\* of them.
LEMMA QueueReadyGatesIInv ==
  ASSUME IInv, QueueReadyGates
  PROVE  IInv'
<1>1. /\ UNCHANGED <<code_distance, module_gates, mesh, dag, ready_events,
                     todo, flags>>
      /\ todo = <<>> /\ ready_gates' = {}
      /\ sweep' = 1 /\ pc' = "count"
      /\ prev_remaining' \in {edges, prev_remaining}
      /\ clk' = (clk + 1) % WatchdogPeriod
      /\ event_queues' = [g \in Gates |-> IF g \in ready_gates THEN EventsOf(g)
                                                            ELSE event_queues[g]]
  BY DEF IInv, Quiet, QueueReadyGates, EdgesSeen
<1>2. Gates' = Gates /\ EventType' = EventType
  BY <1>1 DEF Gates, EventType
<1>3. \A g \in Gates : FreshQueue(EventsOf(g), g, module_gates[g])
  BY GatesAreGates, EventsOfFresh DEF IInv
<1>4. \A g \in Gates : /\ event_queues'[g] \in Seq(EventType)
                       /\ QueueOf(event_queues'[g], g, module_gates[g])
  BY <1>1, <1>3, ListTypes DEF IInv, InFlight, FreshQueue
<1>5. TypeOK'
  <2>1. clk' \in Nat
    BY <1>1, BraidflashAssumption DEF IInv, TypeOK
  <2>2. event_queues' \in [Gates -> Seq(EventType)]
    BY <1>1, <1>4
  <2>3. QED
    BY <1>1, <1>2, <2>1, <2>2 DEF IInv, TypeOK, dag, mesh, flags
<1>6. \A g \in Gates : g \notin ready_gates =>
                        event_queues'[g] = event_queues[g]
  BY <1>1
<1>7. \A i \in DOMAIN ready_events : Waits(ready_events[i])'
  <2> SUFFICES ASSUME NEW i \in DOMAIN ready_events
               PROVE  Waits(ready_events[i])'
    OBVIOUS
  <2>1. ready_events[i].gate \in Gates /\ Waits(ready_events[i])
    BY ListTypes DEF IInv, InFlight, EventType
  <2>2. event_queues'[ready_events[i].gate] = event_queues[ready_events[i].gate]
    BY <1>6, <2>1 DEF Waits
  <2>3. QED
    BY <1>1, <2>1, <2>2 DEF Waits
<1>8. InFlight'
  BY <1>1, <1>2, <1>4, <1>7 DEF IInv, InFlight, Single, Apart
<1>9. QED
  BY <1>1, <1>5, <1>8 DEF IInv, Quiet
\* CountDown on a head event with a running timer: no lapsed event of its gate
\* can be there, so one may join.
LEMMA CountDownIInv ==
  ASSUME IInv, CountDown
  PROVE  IInv'
<1> DEFINE g == sweep
           q == event_queues[g]
           timer == HeadTimer(g)
           ticked == [q[1] EXCEPT !.timer = timer - 1]
           lapsed == [q[1] EXCEPT !.timer = 0]
<1>1. /\ g \in Gates /\ g \in Nat
      /\ q \in Seq(EventType)
      /\ QueueOf(q, g, module_gates[g])
      /\ event_queues \in [Gates -> Seq(EventType)]
      /\ ready_events \in Seq(EventType)
      /\ todo = <<>>
  BY DEF IInv, TypeOK, Quiet, InFlight, CountDown
<1>2. /\ UNCHANGED <<code_distance, module_gates, mesh, dag, ready_gates, todo, flags,
                     pc, watch>>
      /\ sweep' = sweep + 1
      /\ \/ timer < 0 /\ UNCHANGED <<event_queues, ready_events>>
         \/ /\ timer > 1
            /\ event_queues' = [event_queues EXCEPT ![g][1].timer = timer - 1]
            /\ ready_events' = ready_events
         \/ /\ timer \in {0, 1}
            /\ ready_events' = Append(ready_events, [Head(q) EXCEPT !.timer = 0])
            /\ event_queues' = [event_queues EXCEPT ![g] = Tail(@)]
  BY DEF CountDown, pop
<1>3. Gates' = Gates /\ EventType' = EventType
  BY <1>2 DEF Gates, EventType
<1>4. /\ timer \in Int
      /\ timer >= 0 => /\ q # <<>> /\ timer = q[1].timer /\ Head(q) = q[1]
                       /\ q[1] \in EventType /\ q[1].gate = g
                       /\ ~HeadWaits(q)
  <2>1. ASSUME q # <<>>
        PROVE  /\ Head(q) = q[1] /\ 1 \in 1 .. Len(q) /\ q[1] \in EventType
               /\ DOMAIN q = 1 .. Len(q)
    BY <1>1, <2>1, EmptySeq, ElementOfSeq, LenProperties
  <2>2. timer = IF q = <<>> THEN -1 ELSE q[1].timer
    BY <2>1 DEF HeadTimer
  <2>3. timer \in Int
    BY <2>1, <2>2 DEF EventType
  <2>4. timer >= 0 => q # <<>> /\ timer = q[1].timer
    BY <2>2
  <2>5. timer >= 0 => q[1].gate = g /\ ~HeadWaits(q)
    BY <1>1, <2>1, <2>3, <2>4 DEF QueueOf, HeadWaits
  <2>6. QED
    BY <2>1, <2>3, <2>4, <2>5
<1>5. ASSUME timer >= 0
      PROVE  /\ g \notin ready_gates
             /\ \A i \in DOMAIN ready_events :
                  /\ ready_events[i] \in EventType
                  /\ ready_events[i].gate \in Gates \ {g}
  <2>1. g \notin ready_gates
    BY <1>4, <1>5 DEF IInv, InFlight
  <2>2. \A i \in DOMAIN ready_events :
          ready_events[i] \in EventType /\ ready_events[i].gate \in Gates
    BY ListTypes DEF IInv, EventType
  <2>3. \A i \in DOMAIN ready_events : ready_events[i].gate # g
    BY <1>4, <1>5 DEF IInv, InFlight, Waits
  <2>4. QED
    BY <2>1, <2>2, <2>3
<1>6. ASSUME event_queues' \in [Gates -> Seq(EventType)],
             ready_events' \in Seq(EventType)
      PROVE  TypeOK' /\ Quiet'
  <2>1. sweep' \in Nat \ {0}
    BY <1>1, <1>2
  <2>2. TypeOK'
    BY <1>2, <1>3, <1>6, <2>1 DEF IInv, TypeOK, dag, mesh, flags, watch
  <2>3. Quiet'
    BY <1>1, <1>2 DEF CountDown, Quiet
  <2>4. QED
    BY <2>2, <2>3
<1>7. CASE timer < 0
  <2>1. UNCHANGED <<event_queues, ready_events>>
    BY <1>2, <1>4, <1>7
  <2>2. InFlight'
    BY <1>2, <2>1, StillInFlight DEF IInv
  <2>3. QED
    BY <1>1, <1>6, <2>1, <2>2 DEF IInv
<1>8. CASE timer > 1
  <2>1. timer >= 0 /\ timer - 1 \in Int
    BY <1>4, <1>8 DEF EventType
  <2>2. /\ event_queues' = [event_queues EXCEPT ![g] = [q EXCEPT ![1] = ticked]]
        /\ ready_events' = ready_events
    BY <1>2, <1>4, <1>8
  <2>3. /\ ticked \in EventType /\ ticked.gate = q[1].gate
        /\ ticked.type = q[1].type /\ ticked.braid = q[1].braid
    BY <1>4, <2>1 DEF EventType
  <2>4. ticked.type \in {"cnot4", "cnot6"} => ticked.braid.nodes # <<>>
    BY <1>1, <1>4, <2>1, <2>3, EmptySeq, LenProperties DEF QueueOf
  <2> HIDE DEF q, timer, ticked
  <2>5. /\ [q EXCEPT ![1] = ticked] \in Seq(EventType)
        /\ QueueOf([q EXCEPT ![1] = ticked], g, module_gates[g])
    BY <1>1, <1>4, <2>1, <2>3, <2>4, HeadUpdate
  <2>6. /\ event_queues' \in [Gates -> Seq(EventType)]
        /\ event_queues'[g] = [q EXCEPT ![1] = ticked]
        /\ \A h \in Gates : h # g => event_queues'[h] = event_queues[h]
    BY <1>1, <2>2, <2>5
  <2>7. \A h \in Gates : QueueOf(event_queues'[h], h, module_gates[h])
    BY <2>5, <2>6 DEF IInv, InFlight
  <2>8. \A i \in DOMAIN ready_events :
          event_queues'[ready_events[i].gate] = event_queues[ready_events[i].gate]
    BY <1>5, <2>1, <2>6
  <2>9. \A i \in DOMAIN ready_events' : Waits(ready_events[i])'
    BY <1>2, <2>2, <2>8 DEF IInv, InFlight, Waits
  <2>10. \A h \in ready_gates : event_queues'[h] = <<>>
    BY <1>5, <2>1, <2>6 DEF IInv, InFlight, TypeOK
  <2>11. Single(ready_events)'
    BY <2>2 DEF IInv, InFlight, Single
  <2>12. InFlight'
    BY <1>1, <1>2, <1>3, <2>7, <2>9, <2>10, <2>11 DEF InFlight, Single, Apart
  <2>13. QED
    BY <1>1, <1>6, <2>2, <2>6, <2>12 DEF IInv
<1>9. CASE timer \in {0, 1}
  <2>1. timer >= 0
    BY <1>9
  <2>2. /\ event_queues' = [event_queues EXCEPT ![g] = Tail(q)]
        /\ ready_events' = Append(ready_events, lapsed)
    BY <1>2, <1>4, <1>9
  <2>3. /\ lapsed \in EventType /\ lapsed.gate = g /\ lapsed.type = q[1].type
    BY <1>4, <2>1 DEF EventType
  <2> HIDE DEF timer, lapsed
  <2>4. /\ Tail(q) \in Seq(EventType)
        /\ QueueOf(Tail(q), g, module_gates[g])
        /\ HeadWaits(Tail(q))
        /\ IsNext(q[1].type, Tail(q), module_gates[g])
    BY <1>1, <1>4, <2>1, TailQueueOf, HeadTailProperties
  <2>5. /\ event_queues' \in [Gates -> Seq(EventType)]
        /\ event_queues'[g] = Tail(q)
        /\ \A h \in Gates : h # g => event_queues'[h] = event_queues[h]
    BY <1>1, <2>2, <2>4
  <2>6. /\ ready_events' \in Seq(EventType)
        /\ Len(ready_events) \in Nat
        /\ DOMAIN ready_events = 1 .. Len(ready_events)
        /\ DOMAIN ready_events' = 1 .. Len(ready_events) + 1
        /\ \A i \in 1 .. Len(ready_events) : ready_events'[i] = ready_events[i]
        /\ ready_events'[Len(ready_events) + 1] = lapsed
    BY <1>1, <2>2, <2>3, AppendProperties, LenProperties
  <2>7. \A h \in Gates : QueueOf(event_queues'[h], h, module_gates[h])
    BY <2>4, <2>5 DEF IInv, InFlight
  <2>8. \A h \in ready_gates : event_queues'[h] = <<>>
    BY <1>5, <2>1, <2>5 DEF IInv, InFlight, TypeOK
  <2>9. \A i \in DOMAIN ready_events' : Waits(ready_events[i])'
    <3> SUFFICES ASSUME NEW i \in DOMAIN ready_events'
                 PROVE  Waits(ready_events[i])'
      OBVIOUS
    <3>1. CASE i = Len(ready_events) + 1
      <4>1. ready_events'[i].gate = g /\ ready_events'[i].type = q[1].type
        BY <2>3, <2>6, <3>1
      <4>2. QED
        BY <1>2, <1>5, <2>1, <2>4, <2>5, <4>1 DEF Waits
    <3>2. CASE i \in DOMAIN ready_events
      BY <1>2, <1>5, <2>1, <2>5, <2>6, <3>2 DEF IInv, InFlight, Waits
    <3>3. QED
      BY <2>6, <3>1, <3>2
  <2>10. Single(ready_events)'
    <3>1. ready_events'[Len(ready_events) + 1].gate = g
      BY <2>3, <2>6
    <3>2. \A i \in 1 .. Len(ready_events) : ready_events'[i].gate # g
      BY <1>5, <2>1, <2>6
    <3>3. Single(ready_events)
      BY DEF IInv, InFlight
    <3>4. QED
      BY <2>6, <3>1, <3>2, <3>3 DEF Single
  <2>11. InFlight'
    BY <1>1, <1>2, <1>3, <2>7, <2>8, <2>9, <2>10 DEF InFlight, Single, Apart
  <2>12. QED
    BY <1>6, <2>5, <2>6, <2>11 DEF IInv
<1>10. QED
  BY <1>4, <1>7, <1>8, <1>9
\* Whatever the policy, todo' holds the events of ready_events, each once.
LEMMA PrioritisePermutes ==
  ASSUME IInv, Prioritise
  PROVE  LET places == 1 .. Len(ready_events)
         IN  \E p \in Bijection(places, places) :
               todo' = [i \in places |-> ready_events[p[i]]]
<1> DEFINE places == 1 .. Len(ready_events)
<1>1. CASE priority_policy = 0
  <2> DEFINE id == [i \in places |-> i]
  <2>1. id \in Bijection(places, places)
    BY DEF Bijection, Injection, Surjection, IsInjective
  <2>2. ready_events \in [places -> EventType] /\ todo' = ready_events
    BY <1>1, LenProperties DEF IInv, TypeOK, Prioritise
  <2>3. todo' = [i \in places |-> ready_events[id[i]]]
    BY <2>2
  <2>4. QED
    BY <2>1, <2>3
<1>2. CASE priority_policy # 0
  BY <1>2 DEF Prioritise
<1>3. QED
  BY <1>1, <1>2

\* ready_events is copied whole, sorted by priority, and emptied.
LEMMA PrioritiseIInv ==
  ASSUME IInv, Prioritise
  PROVE  IInv'
<1> DEFINE places == 1 .. Len(ready_events)
<1>1. PICK p \in Bijection(places, places) :
             todo' = [i \in places |-> ready_events[p[i]]]
  BY PrioritisePermutes
<1>2. /\ \A i \in places : p[i] \in places
      /\ \A i, j \in places : p[i] = p[j] => i = j
  BY DEF Bijection, Injection, IsInjective
<1>3. /\ UNCHANGED <<code_distance, module_gates, mesh, dag, ready_gates,
                     event_queues, sweep, watch>>
      /\ ready_events' = <<>> /\ pc' = "events"
      /\ YX_flag' = FALSE /\ drop_flag' = FALSE
  BY DEF Prioritise
<1>4. /\ Len(ready_events) \in Nat /\ DOMAIN ready_events = places
      /\ \A i \in places : ready_events[i] \in EventType
  BY LenProperties, ElementOfSeq DEF IInv, TypeOK
<1>5. /\ DOMAIN todo' = places
      /\ \A i \in places : todo'[i] = ready_events[p[i]]
  BY <1>1
<1>6. todo' \in Seq(EventType)
  <2>1. \A i \in places : ready_events[p[i]] \in EventType
    BY <1>2, <1>4
  <2>2. QED
    BY <1>1, <1>4, <2>1, IsASeq
<1>7. Gates' = Gates /\ EventType' = EventType
  BY <1>3 DEF Gates, EventType
<1>8. TypeOK'
  <2>1. ready_events' \in Seq(EventType)
    BY <1>3, EmptySeq
  <2>2. YX_flag' \in BOOLEAN /\ drop_flag' \in BOOLEAN
    BY <1>3, Zenon
  <2>3. QED
    BY <1>3, <1>6, <1>7, <2>1, <2>2 DEF IInv, TypeOK, dag, mesh, watch
<1> HIDE DEF places
<1>9. \A i \in DOMAIN todo' : Waits(todo[i])'
  BY <1>2, <1>3, <1>4, <1>5 DEF IInv, InFlight, Waits
<1>10. Single(todo)'
  BY <1>2, <1>4, <1>5 DEF IInv, InFlight, Single
<1>11. InFlight'
  <2>1. DOMAIN ready_events' = {}
    BY <1>3
  <2>2. \A g \in Gates : QueueOf(event_queues'[g], g, module_gates'[g])
    BY <1>3 DEF IInv, InFlight
  <2>3. \A g \in ready_gates' : event_queues'[g] = <<>>
    BY <1>3 DEF IInv, InFlight
  <2>4. QED
    BY <1>7, <1>9, <1>10, <2>1, <2>2, <2>3 DEF InFlight, Single, Apart
<1>12. Quiet'
  BY <1>3 DEF Quiet
<1>13. QED
  BY <1>8, <1>11, <1>12 DEF IInv

-----------------------------------------------------------------------------
(* The event at the iterator *)

InList(s, g) == \E i \in DOMAIN s : s[i].gate = g

\* Gate g is in none of the places where gates wait.
Idle(g) ==
  /\ event_queues[g] = <<>>
  /\ g \notin ready_gates
  /\ ~InList(ready_events, g)
  /\ ~InList(todo, g)

\* What is known of the event the iterator stands at: its gate has no other
\* event in flight, and its queue waits for it.
LEMMA HeadOfTodo ==
  ASSUME IInv, todo # <<>>
  PROVE  LET e == Head(todo)
         IN  /\ e \in EventType /\ e.gate \in Gates
             /\ e = todo[1] /\ 1 \in DOMAIN todo
             /\ IsNext(e.type, event_queues[e.gate], module_gates[e.gate])
             /\ HeadWaits(event_queues[e.gate])
             /\ e.gate \notin ready_gates
             /\ \A i \in DOMAIN ready_events : ready_events[i].gate # e.gate
             /\ \A i \in DOMAIN Tail(todo) :
                  /\ i + 1 \in DOMAIN todo
                  /\ Tail(todo)[i] = todo[i + 1]
                  /\ Tail(todo)[i].gate # e.gate
             /\ Tail(todo) \in Seq(EventType)
             /\ \A i \in DOMAIN todo : i = 1 \/ i - 1 \in DOMAIN Tail(todo)
<1> DEFINE e == Head(todo)
<1>1. /\ todo \in Seq(EventType)
      /\ Len(todo) \in Nat /\ Len(todo) > 0
      /\ DOMAIN todo = 1 .. Len(todo)
  BY EmptySeq, LenProperties DEF IInv, TypeOK
<1>2. /\ e \in EventType /\ e = todo[1] /\ 1 \in DOMAIN todo
  BY <1>1, HeadTailProperties
<1>3. /\ Tail(todo) \in Seq(EventType)
      /\ DOMAIN Tail(todo) = 1 .. Len(todo) - 1
      /\ \A i \in 1 .. Len(todo) - 1 : Tail(todo)[i] = todo[i + 1]
  BY <1>1, HeadTailProperties, LenProperties
<1>4. \A i \in DOMAIN Tail(todo) : i + 1 \in DOMAIN todo /\ i + 1 # 1
  BY <1>1, <1>3
<1>5. \A i \in DOMAIN Tail(todo) : Tail(todo)[i].gate # e.gate
  BY <1>2, <1>3, <1>4 DEF IInv, InFlight, Single
<1>6. Waits(todo[1]) /\ \A i \in DOMAIN ready_events :
                          ready_events[i].gate # todo[1].gate
  BY <1>2 DEF IInv, InFlight, Apart
<1>7. e.gate \in Gates
  BY <1>2 DEF EventType
<1>8. \A i \in DOMAIN todo : i = 1 \/ i - 1 \in DOMAIN Tail(todo)
  BY <1>1, <1>3
<1>9. QED
  BY <1>2, <1>3, <1>4, <1>5, <1>6, <1>7, <1>8 DEF Waits

\* A step on the event at the iterator leaves the other lapsed events waiting,
\* if it touches no other queue and readies no gate that has a lapsed event.
LEMMA OthersWait ==
  ASSUME IInv, todo # <<>>, todo' = Tail(todo), UNCHANGED module_gates,
         \A h \in Gates : h # Head(todo).gate =>
           event_queues'[h] = event_queues[h],
         \A h \in ready_gates' : h \in ready_gates \/ h = Head(todo).gate \/ Idle(h)
  PROVE  /\ \A i \in DOMAIN todo' : Waits(todo[i])'
         /\ Single(todo)'
         /\ Apart(ready_events, todo')
         /\ \A i \in DOMAIN ready_events :
              LET e == ready_events[i]
              IN  /\ IsNext(e.type, event_queues'[e.gate], module_gates'[e.gate])
                  /\ HeadWaits(event_queues'[e.gate])
                  /\ e.gate \notin ready_gates'
<1>1. \A i \in DOMAIN todo' : /\ i + 1 \in DOMAIN todo
                             /\ todo'[i] = todo[i + 1]
                             /\ todo'[i].gate # Head(todo).gate
                             /\ i \in Int
  <2>1. DOMAIN Tail(todo) \subseteq Int
    BY HeadOfTodo, LenProperties
  <2>2. QED
    BY <2>1, HeadOfTodo
<1>2. \A i \in DOMAIN todo : todo[i].gate \in Gates /\ Waits(todo[i])
  BY ListTypes DEF IInv, InFlight, EventType
<1>3. \A i \in DOMAIN ready_events : /\ ready_events[i].gate \in Gates
                                    /\ ready_events[i].gate # Head(todo).gate
                                    /\ Waits(ready_events[i])
  BY ListTypes, HeadOfTodo DEF IInv, InFlight, EventType
<1>4. \A i \in DOMAIN todo' : Waits(todo[i])'
  <2> SUFFICES ASSUME NEW i \in DOMAIN todo' PROVE Waits(todo[i])'
    OBVIOUS
  <2>1. event_queues'[todo'[i].gate] = event_queues[todo[i + 1].gate]
    BY <1>1, <1>2
  <2>2. todo'[i].gate \notin ready_gates'
    BY <1>1, <1>2 DEF Waits, Idle, InList
  <2>3. QED
    BY <1>1, <1>2, <2>1, <2>2 DEF Waits
<1>5. Single(todo)'
  BY <1>1 DEF IInv, InFlight, Single
<1>6. Apart(ready_events, todo')
  BY <1>1 DEF IInv, InFlight, Apart
<1>7. \A i \in DOMAIN ready_events :
        LET e == ready_events[i]
        IN  /\ IsNext(e.type, event_queues'[e.gate], module_gates'[e.gate])
            /\ HeadWaits(event_queues'[e.gate])
            /\ e.gate \notin ready_gates'
  BY <1>3 DEF Waits, Idle, InList
<1>8. QED
  BY <1>4, <1>5, <1>6, <1>7
\* The event fails and stays, with a queue of the same length.
LEMMA KeptInFlight ==
  ASSUME IInv, todo # <<>>, todo' = Tail(todo),
         UNCHANGED <<module_gates, ready_gates>>,
         \A h \in Gates : h # Head(todo).gate =>
           event_queues'[h] = event_queues[h],
         QueueOf(event_queues'[Head(todo).gate], Head(todo).gate,
                 module_gates[Head(todo).gate]),
         HeadWaits(event_queues'[Head(todo).gate]),
         Len(event_queues'[Head(todo).gate]) = Len(event_queues[Head(todo).gate]),
         \E e \in EventType :
           /\ e.gate = Head(todo).gate
           /\ e.type = Head(todo).type
           /\ ready_events' = Append(ready_events, e)
  PROVE  /\ InFlight'
         /\ ready_events' \in Seq(EventType)
         /\ todo' \in Seq(EventType)
<1> DEFINE g == Head(todo).gate
           n == Len(ready_events)
<1>1. PICK e \in EventType : /\ e.gate = Head(todo).gate
                            /\ e.type = Head(todo).type
                            /\ ready_events' = Append(ready_events, e)
  OBVIOUS
<1>2. /\ n \in Nat
      /\ DOMAIN ready_events = 1 .. n
      /\ ready_events' \in Seq(EventType)
      /\ DOMAIN ready_events' = 1 .. n + 1
      /\ \A i \in 1 .. n : ready_events'[i] = ready_events[i]
      /\ ready_events'[n + 1] = e
  <2>1. ready_events \in Seq(EventType)
    BY DEF IInv, TypeOK
  <2>2. QED
    BY <1>1, <2>1, AppendProperties, LenProperties
<1>3. /\ g \in Gates /\ g \notin ready_gates
      /\ IsNext(Head(todo).type, event_queues[g], module_gates[g])
      /\ \A i \in DOMAIN ready_events : ready_events[i].gate # g
      /\ \A i \in DOMAIN todo' : todo'[i].gate # g
      /\ todo' \in Seq(EventType)
  BY HeadOfTodo
<1>4. /\ \A i \in DOMAIN todo' : Waits(todo[i])'
      /\ Single(todo)'
      /\ Apart(ready_events, todo')
      /\ \A i \in DOMAIN ready_events :
           /\ IsNext(ready_events[i].type, event_queues'[ready_events[i].gate],
                     module_gates'[ready_events[i].gate])
           /\ HeadWaits(event_queues'[ready_events[i].gate])
           /\ ready_events[i].gate \notin ready_gates'
  <2>1. \A h \in ready_gates' :
          h \in ready_gates \/ h = Head(todo).gate \/ Idle(h)
    OBVIOUS
  <2>2. QED
    BY <2>1, OthersWait
<1>5. IsNext(Head(todo).type, event_queues'[g], module_gates'[g])
  BY <1>3 DEF IsNext
<1> HIDE DEF g, n
<1>6. \A i \in DOMAIN ready_events' : Waits(ready_events[i])'
  <2> SUFFICES ASSUME NEW i \in DOMAIN ready_events'
               PROVE  Waits(ready_events[i])'
    OBVIOUS
  <2>1. CASE i = n + 1
    <3>1. ready_events'[i].gate = g /\ ready_events'[i].type = Head(todo).type
      BY <1>1, <1>2, <2>1 DEF g
    <3>2. HeadWaits(event_queues'[g]) /\ g \notin ready_gates'
      BY <1>3 DEF g
    <3>3. QED
      BY <1>5, <3>1, <3>2 DEF Waits
  <2>2. CASE i \in 1 .. n
    BY <1>2, <1>4, <2>2 DEF Waits
  <2>3. QED
    BY <1>2, <2>1, <2>2
<1>7. Single(ready_events)'
  <2>1. ready_events'[n + 1].gate = g
    BY <1>1, <1>2 DEF g
  <2>2. Single(ready_events)
    BY DEF IInv, InFlight
  <2>3. QED
    BY <1>2, <1>3, <2>1, <2>2 DEF Single
<1>8. Apart(ready_events, todo)'
  <2>1. ready_events'[n + 1].gate = g
    BY <1>1, <1>2 DEF g
  <2>2. QED
    BY <1>2, <1>3, <1>4, <2>1 DEF Apart
<1>9. /\ \A h \in Gates' : QueueOf(event_queues'[h], h, module_gates'[h])
      /\ \A h \in ready_gates' : event_queues'[h] = <<>>
  <2>1. Gates' = Gates
    BY DEF Gates
  <2>2. \A h \in ready_gates : h \in Gates /\ h # g
    BY <1>3 DEF IInv, TypeOK
  <2>3. QED
    BY <2>1, <2>2 DEF IInv, InFlight, g
<1>10. QED
  BY <1>2, <1>3, <1>4, <1>6, <1>7, <1>8, <1>9 DEF InFlight

\* Counting an attempt changes neither the gate of an event nor its type.
LEMMA RetriedIsTyped ==
  ASSUME NEW e \in EventType
  PROVE  /\ Retried(e) \in EventType
         /\ Retried(e).gate = e.gate
         /\ Retried(e).type = e.type
BY DEF Retried, EventType

\* An event that conflicts goes back to ready_events, alone for its gate.
LEMMA RetryIInv ==
  ASSUME IInv, Retry
  PROVE  IInv'
<1> DEFINE e == Head(todo)
           g == e.gate
<1>1. /\ pc = "events" /\ todo # <<>> /\ todo' = Tail(todo)
      /\ ready_events' = Append(ready_events, Retried(e))
      /\ UNCHANGED <<code_distance, module_gates, mesh, dag, ready_gates, event_queues,
                     flags, pc, sweep, watch>>
  BY DEF Retry
<1>2. e \in EventType /\ g \in Gates /\ HeadWaits(event_queues[g])
  BY <1>1, HeadOfTodo
<1>3. QueueOf(event_queues'[g], g, module_gates[g]) /\ HeadWaits(event_queues'[g])
  BY <1>1, <1>2 DEF IInv, InFlight
<1>4. \E d \in EventType : /\ d.gate = g /\ d.type = e.type
                          /\ ready_events' = Append(ready_events, d)
  BY <1>1, <1>2, RetriedIsTyped
<1>5. /\ InFlight'
      /\ ready_events' \in Seq(EventType) /\ todo' \in Seq(EventType)
  BY <1>1, <1>3, <1>4, KeptInFlight
<1>6. TypeOK'
  BY <1>1, <1>5 DEF IInv, TypeOK, dag, mesh, flags, watch, Gates, EventType
<1>7. Quiet'
  BY <1>1 DEF Quiet
<1>8. QED
  BY <1>5, <1>6, <1>7 DEF IInv
\* The braids resolve_cnot() makes for a CNOT's event and the event after it.
LEMMA ResolveType ==
  ASSUME NEW e \in EventType, IsGate(module_gates[e.gate]),
         e.type \in {"cnot3", "cnot5"}, module_gates[e.gate].op = "CNOT",
         NEW hold \in Int
  PROVE  /\ resolve_cnot(e, hold).open \in BraidType
         /\ resolve_cnot(e, hold).close \in BraidType
         /\ resolve_cnot(e, hold).close.nodes # <<>>
<1> DEFINE qid    == module_gates[e.gate].qid
           anc1   == cnot_ancillas(qid[1], qid[2]).anc1
           routes == cnot_routes(qid[1], qid[2], anc1, TRUE)
           r1     == routes.route_1
           r2     == routes.route_2
<1>1. qid[1] \in Int /\ qid[2] \in Int
  <2>1. \A q \in Qubits : q \in Int
    BY MeshAssumption DEF Qubits
  <2>2. QED
    BY <2>1, ElementOfSeq DEF IsGate
<1>2. anc1 \in Int
  BY <1>1, AncillaType
<1> HIDE DEF anc1
<1>3. r1 \in FullBraidType /\ r2 \in FullBraidType
  <2>1. TRUE \in BOOLEAN
    OBVIOUS
  <2>2. QED
    BY <1>1, <1>2, <2>1, RoutesType
<1> HIDE DEF routes
<1>4. /\ r1.nodes \in Seq(Int) /\ r1.nodes # <<>>
      /\ r2.nodes \in Seq(Int) /\ r2.nodes # <<>>
      /\ r1.links \in Seq(SUBSET Int)
      /\ r2.links \in Seq(SUBSET Int) /\ r2.links # <<>>
  BY <1>3 DEF FullBraidType, BraidType
<1>5. /\ Front(r1.nodes) \in Seq(Int) /\ Front(r2.nodes) \in Seq(Int)
      /\ Front(r2.links) \in Seq(SUBSET Int)
  BY <1>4, LastFrontType
<1>6. /\ Append(Front(r1.nodes), anc1) \in Seq(Int)
      /\ Append(Front(r1.nodes), anc1) # <<>>
      /\ Append(Front(r2.nodes), hold) \in Seq(Int)
      /\ Append(Front(r2.nodes), hold) # <<>>
  BY <1>2, <1>5, AppendProperties, EmptySeq
<1>7. CASE e.type = "cnot3"
  <2>1. resolve_cnot(e, hold) =
          [open |-> r1, close |-> Braid(Append(Front(r1.nodes), anc1), r1.links)]
    BY <1>7 DEF resolve_cnot, anc1, routes
  <2>2. r1 \in BraidType
    BY <1>3 DEF FullBraidType
  <2>3. QED
    BY <1>4, <1>6, <2>1, <2>2 DEF Braid, BraidType
<1>8. CASE e.type # "cnot3"
  <2>1. resolve_cnot(e, hold) =
          [open  |-> Braid(Front(r2.nodes), r2.links),
           close |-> Braid(Append(Front(r2.nodes), hold), Front(r2.links))]
    BY <1>8 DEF resolve_cnot, anc1, routes
  <2>2. QED
    BY <1>4, <1>5, <1>6, <2>1 DEF Braid, BraidType
<1>9. QED
  BY <1>7, <1>8

\* A waiting event that can be rerouted belongs to a CNOT and its queue goes on
\* with the event that closes its braid.
LEMMA ReroutableNext ==
  ASSUME NEW type \in {"cnot3", "cnot5"}, NEW q, NEW g, NEW gate,
         NEW S, q \in Seq(S), QueueOf(q, g, gate), IsNext(type, q, gate)
  PROVE  /\ gate.op = "CNOT"
         /\ q # <<>>
         /\ q[1].type \in {"cnot4", "cnot6"}
         /\ q[1].braid.nodes # <<>>
<1>1. Len(q) \in Nat /\ DOMAIN q = 1 .. Len(q)
  BY LenProperties
<1>2. gate.op = "CNOT"
  <2>1. CASE gate.op # "CNOT"
    BY <1>1, <2>1 DEF IsNext, Script
  <2>2. QED
    BY <2>1
<1>3. Script(gate) = <<"cnot1", "cnot2", "cnot3", "cnot4", "cnot5", "cnot6", "cnot7">>
  BY <1>2 DEF Script
<1>4. Len(q) \in {4, 2}
  BY <1>1, <1>3 DEF IsNext
<1>5. 1 \in DOMAIN q
  BY <1>1, <1>4
<1>6. q[1].type \in {"cnot4", "cnot6"}
  <2>1. q[1].type = Script(gate)[Len(Script(gate)) - Len(q) + 1]
    BY <1>5 DEF QueueOf
  <2>2. Len(Script(gate)) = 7 /\ Script(gate)[4] = "cnot4"
                             /\ Script(gate)[6] = "cnot6"
    BY <1>3
  <2>3. 7 - 4 + 1 = 4 /\ 7 - 2 + 1 = 6
    OBVIOUS
  <2>4. QED
    BY <1>4, <2>1, <2>2, <2>3
<1>7. QED
  BY <1>2, <1>4, <1>5, <1>6 DEF QueueOf

\* A reroute keeps the event, with the same or another braid, and may change the
\* braid of the event that follows it.
LEMMA RerouteShape ==
  ASSUME IInv, Reroute
  PROVE  LET k == Head(todo).gate
         IN  /\ k \in Gates
             /\ event_queues' \in [Gates -> Seq(EventType)]
             /\ \A h \in Gates : h # k => event_queues'[h] = event_queues[h]
             /\ QueueOf(event_queues'[k], k, module_gates[k])
             /\ HeadWaits(event_queues'[k])
             /\ Len(event_queues'[k]) = Len(event_queues[k])
             /\ \E d \in EventType : /\ d.gate = k /\ d.type = Head(todo).type
                                     /\ ready_events' = Append(ready_events, d)
<1> DEFINE e0  == Head(todo)
           e   == Retried(e0)
           g   == e.gate
           q   == event_queues[g]
           new == resolve_cnot(e, Last(Head(q).braid.nodes))
           adjacent == are_adjacent(module_gates[g].qid[1], module_gates[g].qid[2])
           head == [q[1] EXCEPT !.braid = new.close]
<1>1. /\ pc = "events" /\ todo # <<>> /\ todo' = Tail(todo)
      /\ YX_flag' = TRUE
      /\ e.type \in {"cnot3", "cnot5"}
      /\ IF adjacent
         THEN /\ ready_events' = Append(ready_events, e)
              /\ UNCHANGED event_queues
         ELSE /\ ready_events' = Append(ready_events, [e EXCEPT !.braid = new.open])
              /\ event_queues' = [event_queues EXCEPT ![g][1].braid = new.close]
      /\ UNCHANGED <<code_distance, module_gates, mesh, dag, ready_gates, drop_flag, pc,
                     sweep, watch>>
  BY DEF Reroute, MustReroute
<1>2. /\ e0 \in EventType
      /\ e \in EventType /\ g = e0.gate /\ e.type = e0.type /\ g \in Gates
  BY <1>1, HeadOfTodo, RetriedIsTyped
<1>3. /\ q \in Seq(EventType) /\ QueueOf(q, g, module_gates[g])
      /\ IsNext(e.type, q, module_gates[g]) /\ HeadWaits(q)
  BY <1>1, <1>2, HeadOfTodo, ListTypes DEF IInv, InFlight
<1> HIDE DEF e0, e, q
<1>4. /\ module_gates[g].op = "CNOT" /\ q # <<>>
      /\ q[1].type \in {"cnot4", "cnot6"} /\ q[1].braid.nodes # <<>>
  BY <1>1, <1>3, ReroutableNext
<1>5. /\ Head(q) = q[1] /\ q[1] \in EventType /\ q[1].timer < 0
      /\ Last(Head(q).braid.nodes) \in Int
  <2>1. Head(q) = q[1] /\ q[1] \in EventType
    BY <1>3, <1>4, HeadTailProperties
  <2>2. q[1].braid.nodes \in Seq(Int)
    BY <2>1 DEF EventType, BraidType
  <2>3. QED
    BY <1>3, <1>4, <2>1, <2>2, LastFrontType DEF HeadWaits
<1>6. /\ new.open \in BraidType /\ new.close \in BraidType
      /\ new.close.nodes # <<>>
  BY <1>1, <1>2, <1>4, <1>5, GatesAreGates, ResolveType DEF IInv
<1> HIDE DEF new
<1>7. /\ head \in EventType /\ head.gate = q[1].gate /\ head.type = q[1].type
      /\ head.timer < 0 /\ head.braid.nodes # <<>>
  BY <1>5, <1>6 DEF EventType
<1>8. /\ [e EXCEPT !.braid = new.open] \in EventType
      /\ [e EXCEPT !.braid = new.open].gate = g
      /\ [e EXCEPT !.braid = new.open].type = e.type
  BY <1>2, <1>6 DEF EventType
<1> HIDE DEF head
<1>9. LET r == [q EXCEPT ![1] = head]
      IN  /\ r \in Seq(EventType) /\ r # <<>> /\ r[1] = head
          /\ Len(r) = Len(q) /\ QueueOf(r, g, module_gates[g])
  BY <1>3, <1>4, <1>7, HeadUpdate
<1>10. /\ event_queues' \in [Gates -> Seq(EventType)]
       /\ \A h \in Gates : h # g => event_queues'[h] = event_queues[h]
       /\ QueueOf(event_queues'[g], g, module_gates[g])
       /\ HeadWaits(event_queues'[g])
       /\ Len(event_queues'[g]) = Len(event_queues[g])
  <2>1. event_queues \in [Gates -> Seq(EventType)]
    BY DEF IInv, TypeOK
  <2>2. CASE adjacent
    BY <1>1, <1>3, <2>1, <2>2 DEF q
  <2>3. CASE ~adjacent
    <3>1. event_queues' = [event_queues EXCEPT ![g] = [q EXCEPT ![1] = head]]
      BY <1>1, <2>3 DEF q, head
    <3>2. HeadWaits([q EXCEPT ![1] = head])
      BY <1>7, <1>9 DEF HeadWaits
    <3>3. QED
      BY <1>2, <1>9, <2>1, <3>1, <3>2 DEF q
  <2>4. QED
    BY <2>2, <2>3
<1>11. \E d \in EventType : /\ d.gate = g /\ d.type = e.type
                           /\ ready_events' = Append(ready_events, d)
  <2>1. CASE adjacent
    BY <1>1, <1>2, <2>1
  <2>2. CASE ~adjacent
    BY <1>1, <1>8, <2>2
  <2>3. QED
    BY <2>1, <2>2
<1>12. QED
  BY <1>2, <1>10, <1>11 DEF e0

\* A replanned event goes back to ready_events, its partner stays in the queue.
LEMMA RerouteIInv ==
  ASSUME IInv, Reroute
  PROVE  IInv'
<1> DEFINE k == Head(todo).gate
<1>1. /\ pc = "events" /\ todo # <<>> /\ todo' = Tail(todo)
      /\ YX_flag' = TRUE
      /\ UNCHANGED <<code_distance, module_gates, mesh, dag, ready_gates, drop_flag, pc,
                     sweep, watch>>
  BY DEF Reroute
<1>2. /\ k \in Gates
      /\ event_queues' \in [Gates -> Seq(EventType)]
      /\ \A h \in Gates : h # k => event_queues'[h] = event_queues[h]
      /\ QueueOf(event_queues'[k], k, module_gates[k])
      /\ HeadWaits(event_queues'[k])
      /\ Len(event_queues'[k]) = Len(event_queues[k])
      /\ \E d \in EventType : /\ d.gate = k /\ d.type = Head(todo).type
                              /\ ready_events' = Append(ready_events, d)
  BY RerouteShape
<1>3. /\ InFlight'
      /\ ready_events' \in Seq(EventType) /\ todo' \in Seq(EventType)
  BY <1>1, <1>2, KeptInFlight
<1>4. TypeOK'
  <2>1. YX_flag' \in BOOLEAN
    BY <1>1, Zenon
  <2>2. Gates' = Gates /\ EventType' = EventType
    BY <1>1 DEF Gates, EventType
  <2>3. QED
    BY <1>1, <1>2, <1>3, <2>1, <2>2 DEF IInv, TypeOK, dag, mesh, watch
<1>5. Quiet'
  BY <1>1 DEF Quiet
<1>6. QED
  BY <1>3, <1>4, <1>5 DEF IInv

\* do_event() and purge_gate_from_mesh() hand nodes and links to gates or free
\* them.
LEMMA MeshTypes ==
  ASSUME TypeOK, NEW e \in EventType, NEW g,
         do_event(e) \/ purge_gate_from_mesh(g)
  PROVE  /\ node_owner' \in [Nodes -> Gates \union {Free}]
         /\ link_owner' \in [Links -> Gates \union {Free}]
<1>1. e.gate \in Gates
  BY DEF EventType
<1>2. CASE do_event(e)
  BY <1>1, <1>2 DEF TypeOK, do_event
<1>3. CASE purge_gate_from_mesh(g)
  BY <1>3 DEF TypeOK, purge_gate_from_mesh
<1>4. QED
  BY <1>2, <1>3

\* The event has happened: the next one gets its timer.
LEMMA AdvanceGateIInv ==
  ASSUME IInv, AdvanceGate
  PROVE  IInv'
<1> DEFINE e == Head(todo)
           g == e.gate
           q == event_queues[g]
           t == event_timers(Head(q).type)
           head == [q[1] EXCEPT !.timer = t]
<1>1. /\ pc = "events" /\ todo # <<>> /\ todo' = Tail(todo)
      /\ q # <<>>
      /\ do_event(e)
      /\ event_queues' = [event_queues EXCEPT ![g][1].timer = t]
      /\ UNCHANGED <<code_distance, module_gates, dag, ready_gates, ready_events, flags,
                     pc, sweep, watch>>
  BY DEF AdvanceGate
<1>2. /\ e \in EventType /\ g \in Gates
      /\ q \in Seq(EventType) /\ QueueOf(q, g, module_gates[g])
      /\ g \notin ready_gates
      /\ todo' \in Seq(EventType)
      /\ \A i \in DOMAIN ready_events : ready_events[i].gate # g
  BY <1>1, HeadOfTodo, ListTypes DEF IInv, InFlight
<1>3. t \in Int
  BY DistanceIsNatural DEF IInv, event_timers
<1>4. /\ Gates' = Gates /\ EventType' = EventType
      /\ node_owner' \in [Nodes -> Gates \union {Free}]
      /\ link_owner' \in [Links -> Gates \union {Free}]
  BY <1>1, <1>2, MeshTypes DEF IInv, Gates, EventType
<1> HIDE DEF e, q, t
<1>5. /\ q[1] \in EventType /\ Len(q) \in Nat /\ Len(q) > 0
      /\ DOMAIN q = 1 .. Len(q)
  BY <1>1, <1>2, HeadTailProperties, EmptySeq, LenProperties, ElementOfSeq
<1>6. /\ head \in EventType /\ head.gate = q[1].gate /\ head.type = q[1].type
      /\ head.braid = q[1].braid
      /\ q[1].type \in {"cnot4", "cnot6"} => q[1].braid.nodes # <<>>
  <2>1. /\ head \in EventType /\ head.gate = q[1].gate
        /\ head.type = q[1].type /\ head.braid = q[1].braid
    BY <1>3, <1>5 DEF EventType
  <2>2. 1 \in DOMAIN q
    BY <1>5
  <2>3. q[1].type \in {"cnot4", "cnot6"} => q[1].braid.nodes # <<>>
    BY <1>2, <2>2 DEF QueueOf
  <2>4. QED
    BY <2>1, <2>3
<1> HIDE DEF head
<1>7. LET r == [q EXCEPT ![1] = head]
      IN  /\ r \in Seq(EventType) /\ r # <<>>
          /\ QueueOf(r, g, module_gates[g])
  BY <1>1, <1>2, <1>6, HeadUpdate
<1>8. /\ event_queues' \in [Gates -> Seq(EventType)]
      /\ \A h \in Gates : h # g => event_queues'[h] = event_queues[h]
      /\ QueueOf(event_queues'[g], g, module_gates[g])
  <2>1. event_queues \in [Gates -> Seq(EventType)]
    BY DEF IInv, TypeOK
  <2>2. event_queues' = [event_queues EXCEPT ![g] = [q EXCEPT ![1] = head]]
    BY <1>1 DEF q, head
  <2>3. QED
    BY <1>2, <1>7, <2>1, <2>2
<1>9. /\ \A i \in DOMAIN todo' : Waits(todo[i])'
      /\ Single(todo)'
      /\ Apart(ready_events, todo')
      /\ \A i \in DOMAIN ready_events :
           /\ IsNext(ready_events[i].type, event_queues'[ready_events[i].gate],
                     module_gates'[ready_events[i].gate])
           /\ HeadWaits(event_queues'[ready_events[i].gate])
           /\ ready_events[i].gate \notin ready_gates'
  <2>1. \A h \in ready_gates' :
          h \in ready_gates \/ h = Head(todo).gate \/ Idle(h)
    BY <1>1
  <2>2. QED
    BY <1>1, <1>8, <2>1, OthersWait DEF e
<1>10. \A i \in DOMAIN ready_events' : Waits(ready_events[i])'
  BY <1>1, <1>9 DEF Waits
<1>11. \A h \in Gates' : QueueOf(event_queues'[h], h, module_gates'[h])
  BY <1>1, <1>4, <1>8 DEF IInv, InFlight
<1>12. \A h \in ready_gates' : event_queues'[h] = <<>>
  <2>1. \A h \in ready_gates : h \in Gates /\ h # g
    BY <1>2 DEF IInv, TypeOK
  <2>2. QED
    BY <1>1, <1>8, <2>1 DEF IInv, InFlight
<1>13. Single(ready_events)' /\ Apart(ready_events, todo)'
  BY <1>1, <1>9 DEF IInv, InFlight, Single, Apart
<1>14. InFlight'
  BY <1>9, <1>10, <1>11, <1>12, <1>13 DEF InFlight
<1>15. TypeOK'
  BY <1>1, <1>2, <1>4, <1>8 DEF IInv, TypeOK, dag, flags, watch
<1>16. Quiet'
  BY <1>1 DEF Quiet
<1>17. QED
  BY <1>14, <1>15, <1>16 DEF IInv

\* A dropped gate is idle again, with an empty queue.
LEMMA DropGateIInv ==
  ASSUME IInv, DropGate
  PROVE  IInv'
<1> DEFINE e == Head(todo)
           g == Retried(e).gate
<1>1. /\ pc = "events" /\ todo # <<>> /\ todo' = Tail(todo)
      /\ YX_flag' = (YX_flag \/ MustReroute(Retried(e)))
      /\ drop_flag' = TRUE
      /\ purge_gate_from_mesh(g)
      /\ ready_gates' = ready_gates \union {g}
      /\ event_queues' = [event_queues EXCEPT ![g] = <<>>]
      /\ UNCHANGED <<code_distance, module_gates, dag, ready_events, pc, sweep,
                     watch>>
  BY DEF DropGate, erase
<1>2. /\ e \in EventType /\ e.gate \in Gates /\ g = e.gate
      /\ todo' \in Seq(EventType)
      /\ \A i \in DOMAIN ready_events : ready_events[i].gate # g
  BY <1>1, HeadOfTodo, RetriedIsTyped
<1>3. /\ Gates' = Gates /\ EventType' = EventType
      /\ node_owner' \in [Nodes -> Gates \union {Free}]
      /\ link_owner' \in [Links -> Gates \union {Free}]
  BY <1>1, <1>2, MeshTypes DEF IInv, Gates, EventType
<1> HIDE DEF e, g
<1>4. /\ event_queues' \in [Gates -> Seq(EventType)]
      /\ \A h \in Gates : h # g => event_queues'[h] = event_queues[h]
      /\ event_queues'[g] = <<>>
  <2>1. event_queues \in [Gates -> Seq(EventType)] /\ <<>> \in Seq(EventType)
    BY EmptySeq DEF IInv, TypeOK
  <2>2. QED
    BY <1>1, <1>2, <2>1
<1>5. QueueOf(event_queues'[g], g, module_gates[g])
  BY <1>4, EmptyQueueOf
<1>6. /\ \A i \in DOMAIN todo' : Waits(todo[i])'
      /\ Single(todo)'
      /\ Apart(ready_events, todo')
      /\ \A i \in DOMAIN ready_events :
           /\ IsNext(ready_events[i].type, event_queues'[ready_events[i].gate],
                     module_gates'[ready_events[i].gate])
           /\ HeadWaits(event_queues'[ready_events[i].gate])
           /\ ready_events[i].gate \notin ready_gates'
  <2>1. \A h \in ready_gates' :
          h \in ready_gates \/ h = Head(todo).gate \/ Idle(h)
    BY <1>1, <1>2 DEF e
  <2>2. QED
    BY <1>1, <1>2, <1>4, <2>1, OthersWait DEF e
<1>7. \A i \in DOMAIN ready_events' : Waits(ready_events[i])'
  BY <1>1, <1>6 DEF Waits
<1>8. \A h \in Gates' : QueueOf(event_queues'[h], h, module_gates'[h])
  BY <1>1, <1>3, <1>4, <1>5 DEF IInv, InFlight
<1>9. \A h \in ready_gates' : event_queues'[h] = <<>>
  <2>1. \A h \in ready_gates : h \in Gates
    BY DEF IInv, TypeOK
  <2>2. QED
    BY <1>1, <1>4, <2>1 DEF IInv, InFlight
<1>10. Single(ready_events)' /\ Apart(ready_events, todo)'
  BY <1>1, <1>6 DEF IInv, InFlight, Single, Apart
<1>11. InFlight'
  BY <1>6, <1>7, <1>8, <1>9, <1>10 DEF InFlight
<1>12. TypeOK'
  <2>1. YX_flag' \in BOOLEAN /\ drop_flag' \in BOOLEAN
    BY <1>1, Zenon
  <2>2. ready_gates' \in SUBSET Gates
    BY <1>1, <1>2 DEF IInv, TypeOK
  <2>3. QED
    BY <1>1, <1>2, <1>3, <1>4, <2>1, <2>2 DEF IInv, TypeOK, dag, watch
<1>13. Quiet'
  BY <1>1 DEF Quiet
<1>14. QED
  BY <1>11, <1>12, <1>13 DEF IInv
\* A completed gate readies only gates that are idle: those an edge led to.
EdgesLeadToIdle == \A d \in edges : Idle(d[2])

\* The last event of a gate leaves nothing of the gate behind.
LEMMA CompleteGateIInv ==
  ASSUME IInv, EdgesLeadToIdle, CompleteGate
  PROVE  IInv'
<1> DEFINE e == Head(todo)
           g == e.gate
           freed == {c \in Gates : Predecessors(edges, c) = {g}}
<1>1. /\ pc = "events" /\ todo # <<>> /\ todo' = Tail(todo)
      /\ event_queues[g] = <<>>
      /\ do_event(e)
      /\ ready_gates' = ready_gates \union freed
      /\ edges' = {d \in edges : d[1] # g}
      /\ completed' = completed \union {g}
      /\ UNCHANGED <<code_distance, module_gates, event_queues, ready_events, flags, pc,
                     sweep, watch>>
  BY DEF CompleteGate, NextReady
<1>2. /\ e \in EventType /\ g \in Gates
      /\ todo' \in Seq(EventType)
  BY <1>1, HeadOfTodo
<1>3. /\ Gates' = Gates /\ EventType' = EventType
      /\ node_owner' \in [Nodes -> Gates \union {Free}]
      /\ link_owner' \in [Links -> Gates \union {Free}]
  BY <1>1, <1>2, MeshTypes DEF IInv, Gates, EventType
<1>4. \A c \in freed : Idle(c)
  <2> SUFFICES ASSUME NEW c \in freed PROVE Idle(c)
    OBVIOUS
  <2>1. <<g, c>> \in edges
    BY DEF Predecessors
  <2>2. QED
    BY <2>1 DEF EdgesLeadToIdle
<1> HIDE DEF e, g, freed
<1>5. /\ \A i \in DOMAIN todo' : Waits(todo[i])'
      /\ Single(todo)'
      /\ Apart(ready_events, todo')
      /\ \A i \in DOMAIN ready_events :
           /\ IsNext(ready_events[i].type, event_queues'[ready_events[i].gate],
                     module_gates'[ready_events[i].gate])
           /\ HeadWaits(event_queues'[ready_events[i].gate])
           /\ ready_events[i].gate \notin ready_gates'
  <2>1. \A h \in ready_gates' :
          h \in ready_gates \/ h = Head(todo).gate \/ Idle(h)
    BY <1>1, <1>4
  <2>2. QED
    BY <1>1, <2>1, OthersWait
<1>6. \A i \in DOMAIN ready_events' : Waits(ready_events[i])'
  BY <1>1, <1>5 DEF Waits
<1>7. \A h \in Gates' : QueueOf(event_queues'[h], h, module_gates'[h])
  BY <1>1, <1>3 DEF IInv, InFlight
<1>8. \A h \in ready_gates' : event_queues'[h] = <<>>
  BY <1>1, <1>4 DEF IInv, InFlight, Idle
<1>9. Single(ready_events)' /\ Apart(ready_events, todo)'
  BY <1>1, <1>5 DEF IInv, InFlight, Single, Apart
<1>10. InFlight'
  BY <1>5, <1>6, <1>7, <1>8, <1>9 DEF InFlight
<1>11. TypeOK'
  <2>1. ready_gates' \in SUBSET Gates
    BY <1>1 DEF IInv, TypeOK, freed
  <2>2. edges' \in SUBSET (Gates \X Gates) /\ completed' \in SUBSET Gates
    BY <1>1, <1>2 DEF IInv, TypeOK
  <2>3. QED
    BY <1>1, <1>2, <1>3, <2>1, <2>2 DEF IInv, TypeOK, dag, flags, watch
<1>12. Quiet'
  BY <1>1 DEF Quiet
<1>13. QED
  BY <1>10, <1>11, <1>12 DEF IInv
-----------------------------------------------------------------------------
(* Which gates are idle *)

\* Of which gates a list holds an event, after one is appended.
LEMMA AppendInList ==
  ASSUME NEW S, NEW s \in Seq(S), NEW e \in S, NEW g
  PROVE  InList(Append(s, e), g) <=> InList(s, g) \/ e.gate = g
<1>1. /\ Len(s) \in Nat /\ DOMAIN s = 1 .. Len(s)
      /\ DOMAIN Append(s, e) = 1 .. Len(s) + 1
      /\ \A i \in 1 .. Len(s) : Append(s, e)[i] = s[i]
      /\ Append(s, e)[Len(s) + 1] = e
  BY AppendProperties, LenProperties
<1>2. \A i \in 1 .. Len(s) : i \in 1 .. Len(s) + 1
  BY <1>1
<1>3. Len(s) + 1 \in 1 .. Len(s) + 1
  BY <1>1
<1>4. \A i \in 1 .. Len(s) + 1 : i \in 1 .. Len(s) \/ i = Len(s) + 1
  BY <1>1
<1>5. QED
  BY <1>1, <1>2, <1>3, <1>4 DEF InList

\* The iterator moves on: only the gate of its event leaves the list.
LEMMA TailInList ==
  ASSUME IInv, todo # <<>>, NEW g
  PROVE  InList(Tail(todo), g) <=> InList(todo, g) /\ g # Head(todo).gate
<1>1. /\ Head(todo) = todo[1] /\ 1 \in DOMAIN todo
      /\ \A i \in DOMAIN Tail(todo) : /\ i + 1 \in DOMAIN todo
                                      /\ Tail(todo)[i] = todo[i + 1]
                                      /\ Tail(todo)[i].gate # Head(todo).gate
      /\ \A i \in DOMAIN todo : i = 1 \/ i - 1 \in DOMAIN Tail(todo)
  BY HeadOfTodo
<1>2. \A i \in DOMAIN todo : i \in Int /\ (i - 1) + 1 = i
  <2>1. DOMAIN todo = 1 .. Len(todo) /\ Len(todo) \in Nat
    BY LenProperties DEF IInv, TypeOK
  <2>2. QED
    BY <2>1
<1>3. ASSUME NEW i \in DOMAIN Tail(todo), Tail(todo)[i].gate = g
      PROVE  InList(todo, g) /\ g # Head(todo).gate
  BY <1>1, <1>3 DEF InList
<1>4. ASSUME NEW i \in DOMAIN todo, todo[i].gate = g, g # Head(todo).gate
      PROVE  InList(Tail(todo), g)
  <2>1. i - 1 \in DOMAIN Tail(todo)
    BY <1>1, <1>4
  <2>2. Tail(todo)[i - 1].gate = g
    BY <1>1, <1>2, <1>4, <2>1
  <2>3. QED
    BY <2>1, <2>2 DEF InList
<1>5. QED
  BY <1>3, <1>4 DEF InList

\* Queueing ready gates makes none idle that was not, and none busy.
LEMMA QueueReadyGatesIdle ==
  ASSUME IInv, QueueReadyGates, NEW g \in Gates
  PROVE  Idle(g)' <=> Idle(g)
<1>1. /\ UNCHANGED <<ready_events, todo>> /\ ready_gates' = {}
      /\ event_queues'[g] = IF g \in ready_gates THEN EventsOf(g)
                                                 ELSE event_queues[g]
  BY DEF QueueReadyGates
<1>2. EventsOf(g) # <<>>
  BY GatesAreGates, EventsOfFresh DEF IInv, FreshQueue
<1>3. QED
  BY <1>1, <1>2 DEF Idle, InList

\* An event whose timer runs out moves from the queue to ready_events.
LEMMA CountDownIdle ==
  ASSUME IInv, CountDown, NEW g \in Gates
  PROVE  Idle(g)' <=> Idle(g)
<1> DEFINE q == event_queues[sweep]
           timer == HeadTimer(sweep)
           lapsed == [Head(q) EXCEPT !.timer = 0]
<1>1. /\ sweep \in Gates /\ q \in Seq(EventType)
      /\ event_queues \in [Gates -> Seq(EventType)]
      /\ ready_events \in Seq(EventType)
      /\ QueueOf(q, sweep, module_gates[sweep])
  BY DEF IInv, TypeOK, InFlight, CountDown
<1>2. /\ UNCHANGED <<ready_gates, todo>>
      /\ \/ UNCHANGED <<event_queues, ready_events>>
         \/ /\ timer > 1
            /\ event_queues' = [event_queues EXCEPT ![sweep][1].timer = timer - 1]
            /\ UNCHANGED ready_events
         \/ /\ timer \in {0, 1}
            /\ ready_events' = Append(ready_events, lapsed)
            /\ event_queues' = [event_queues EXCEPT ![sweep] = Tail(q)]
  BY DEF CountDown, pop
<1>3. timer >= 0 => q # <<>>
  BY DEF HeadTimer
<1>4. q # <<>> => /\ Head(q) \in EventType /\ Head(q).gate = sweep
                  /\ [q EXCEPT ![1] = [q[1] EXCEPT !.timer = timer - 1]] # <<>>
  <2> SUFFICES ASSUME q # <<>>
               PROVE  /\ Head(q) \in EventType /\ Head(q).gate = sweep
                      /\ [q EXCEPT ![1] = [q[1] EXCEPT !.timer = timer - 1]] # <<>>
    OBVIOUS
  <2>1. /\ Head(q) \in EventType /\ Head(q) = q[1]
        /\ DOMAIN q = 1 .. Len(q) /\ Len(q) \in Nat /\ Len(q) > 0
    BY <1>1, HeadTailProperties, LenProperties, EmptySeq
  <2>2. 1 \in DOMAIN q
    BY <2>1
  <2>3. Head(q).gate = sweep
    BY <1>1, <2>1, <2>2 DEF QueueOf
  <2>4. DOMAIN [q EXCEPT ![1] = [q[1] EXCEPT !.timer = timer - 1]] = DOMAIN q
    OBVIOUS
  <2>5. DOMAIN <<>> = {}
    OBVIOUS
  <2>6. QED
    BY <2>1, <2>2, <2>3, <2>4, <2>5
<1>5. CASE UNCHANGED <<event_queues, ready_events>>
  BY <1>2, <1>5 DEF Idle, InList
<1>6. CASE /\ timer > 1
           /\ event_queues' = [event_queues EXCEPT ![sweep][1].timer = timer - 1]
           /\ UNCHANGED ready_events
  <2>1. q # <<>>
    BY <1>3, <1>6 DEF HeadTimer
  <2>2. event_queues'[sweep] # <<>>
    BY <1>1, <1>4, <1>6, <2>1
  <2>3. g # sweep => event_queues'[g] = event_queues[g]
    BY <1>1, <1>6
  <2>4. QED
    BY <1>2, <1>6, <2>1, <2>2, <2>3 DEF Idle, InList
<1>7. CASE /\ timer \in {0, 1}
           /\ ready_events' = Append(ready_events, lapsed)
           /\ event_queues' = [event_queues EXCEPT ![sweep] = Tail(q)]
  <2>1. q # <<>>
    BY <1>3, <1>7
  <2>2. lapsed \in EventType /\ lapsed.gate = sweep
    BY <1>4, <2>1 DEF EventType
  <2> HIDE DEF lapsed
  <2>3. InList(ready_events, g)' <=> InList(ready_events, g) \/ g = sweep
    <3>1. InList(Append(ready_events, lapsed), g) <=>
            InList(ready_events, g) \/ lapsed.gate = g
      BY <1>1, <2>2, AppendInList
    <3>2. QED
      BY <1>7, <2>2, <3>1 DEF InList
  <2>4. g # sweep => event_queues'[g] = event_queues[g]
    BY <1>1, <1>7
  <2>5. InList(todo, g)' <=> InList(todo, g)
    BY <1>2 DEF InList
  <2>6. QED
    BY <1>2, <2>1, <2>3, <2>4, <2>5 DEF Idle
<1>8. QED
  BY <1>2, <1>5, <1>6, <1>7

\* The sort moves every lapsed event to the list the iterator walks.
LEMMA PrioritiseLists ==
  ASSUME IInv, Prioritise, NEW g
  PROVE  /\ InList(todo, g)' <=> InList(ready_events, g)
         /\ ~InList(ready_events, g)' /\ ~InList(todo, g)
<1> DEFINE places == 1 .. Len(ready_events)
<1>1. PICK p \in Bijection(places, places) :
             todo' = [i \in places |-> ready_events[p[i]]]
  BY PrioritisePermutes
<1>2. /\ \A i \in places : p[i] \in places
      /\ \A j \in places : \E i \in places : p[i] = j
  BY DEF Bijection, Injection, Surjection
<1>3. DOMAIN ready_events = places
  BY LenProperties DEF IInv, TypeOK
<1>4. DOMAIN todo' = places /\ \A i \in places : todo'[i] = ready_events[p[i]]
  BY <1>1
<1>5. ready_events' = <<>> /\ todo = <<>>
  BY DEF Prioritise, IInv, Quiet
<1> HIDE DEF places
<1>6. InList(todo, g)' <=> InList(ready_events, g)
  BY <1>2, <1>3, <1>4 DEF InList
<1>7. ~InList(ready_events, g)' /\ ~InList(todo, g)
  BY <1>5 DEF InList
<1>8. QED
  BY <1>6, <1>7

\* Every event of ready_events is one of the sorted list.
LEMMA PrioritiseIdle ==
  ASSUME IInv, Prioritise, NEW g \in Gates
  PROVE  Idle(g)' <=> Idle(g)
<1>1. UNCHANGED <<ready_gates, event_queues>>
  BY DEF Prioritise
<1>2. /\ InList(todo, g)' <=> InList(ready_events, g)
      /\ ~InList(ready_events, g)' /\ ~InList(todo, g)
  BY PrioritiseLists
<1>3. QED
  BY <1>1, <1>2 DEF Idle

\* A step that takes the event at the iterator, keeps its gate in one of the
\* places and touches no other gate.
LEMMA StaysActive ==
  ASSUME IInv, todo # <<>>, todo' = Tail(todo), NEW g \in Gates,
         NEW k \in Gates, k = Head(todo).gate,
         \A h \in Gates : h # k =>
           /\ event_queues'[h] = event_queues[h]
           /\ h \in ready_gates' <=> h \in ready_gates
           /\ InList(ready_events, h)' <=> InList(ready_events, h),
         ~Idle(k)'
  PROVE  Idle(g)' <=> Idle(g)
<1>1. InList(todo, g)' <=> InList(todo, g) /\ g # k
  <2>1. InList(Tail(todo), g) <=> InList(todo, g) /\ g # k
    BY TailInList
  <2>2. QED
    BY <2>1 DEF InList
<1>2. ~Idle(k)
  <2>1. InList(todo, k)
    BY HeadOfTodo DEF InList
  <2>2. QED
    BY <2>1 DEF Idle
<1>3. CASE g = k
  BY <1>2, <1>3
<1>4. CASE g # k
  BY <1>1, <1>4 DEF Idle
<1>5. QED
  BY <1>3, <1>4

\* Of which gates ready_events holds an event, after one is appended.
LEMMA AppendedInList ==
  ASSUME IInv, NEW k \in Gates, NEW h \in Gates,
         \E e \in EventType : e.gate = k /\ ready_events' = Append(ready_events, e)
  PROVE  InList(ready_events, h)' <=> InList(ready_events, h) \/ h = k
<1>1. PICK e \in EventType : /\ e.gate = k
                            /\ ready_events' = Append(ready_events, e)
  OBVIOUS
<1>2. InList(Append(ready_events, e), h) <=> InList(ready_events, h) \/ e.gate = h
  BY AppendInList DEF IInv, TypeOK
<1>3. QED
  BY <1>1, <1>2 DEF InList

\* No event of the loop but a completion changes which gates are idle; a
\* dropped gate is queued again.
LEMMA EventStepIdle ==
  ASSUME IInv, AdvanceGate \/ Retry \/ Reroute \/ DropGate, NEW g \in Gates
  PROVE  Idle(g)' <=> Idle(g)
<1>1. todo # <<>> /\ todo' = Tail(todo)
  BY DEF AdvanceGate, Retry, Reroute, DropGate
<1>2. PICK k \in Gates : k = Head(todo).gate
  BY <1>1, HeadOfTodo
<1>3. /\ Head(todo) \in EventType
      /\ Retried(Head(todo)) \in EventType /\ Retried(Head(todo)).gate = k
  BY <1>1, <1>2, HeadOfTodo, RetriedIsTyped
<1>4. event_queues \in [Gates -> Seq(EventType)]
  BY DEF IInv, TypeOK
<1>5. CASE AdvanceGate
  <2>1. /\ event_queues[k] # <<>>
        /\ UNCHANGED <<ready_gates, ready_events>>
        /\ \E t : event_queues' = [event_queues EXCEPT ![k][1].timer = t]
    BY <1>2, <1>5 DEF AdvanceGate
  <2>2. PICK t : event_queues' = [event_queues EXCEPT ![k][1].timer = t]
    BY <2>1
  <2>3. /\ event_queues'[k] =
             [event_queues[k] EXCEPT ![1] = [event_queues[k][1] EXCEPT !.timer = t]]
        /\ \A h \in Gates : h # k => event_queues'[h] = event_queues[h]
    BY <1>4, <2>2
  <2>4. DOMAIN event_queues'[k] = DOMAIN event_queues[k]
    BY <2>3
  <2>5. DOMAIN event_queues[k] # {}
    BY <1>4, <2>1, EmptySeq, LenProperties
  <2>6. ~Idle(k)'
    BY <2>4, <2>5 DEF Idle
  <2>7. QED
    BY <1>1, <1>2, <2>1, <2>3, <2>6, StaysActive DEF InList
<1>6. CASE Retry
  <2>1. /\ ready_events' = Append(ready_events, Retried(Head(todo)))
        /\ UNCHANGED <<ready_gates, event_queues>>
    BY <1>6 DEF Retry
  <2>2. \A h \in Gates : InList(ready_events, h)' <=>
                          InList(ready_events, h) \/ h = k
    BY <1>3, <2>1, AppendedInList
  <2>3. ~Idle(k)'
    BY <2>2 DEF Idle
  <2>4. QED
    BY <1>1, <1>2, <2>1, <2>2, <2>3, StaysActive
<1>7. CASE DropGate
  <2>1. /\ ready_gates' = ready_gates \union {k}
        /\ event_queues' = [event_queues EXCEPT ![k] = <<>>]
        /\ UNCHANGED ready_events
    BY <1>3, <1>7 DEF DropGate, erase
  <2>2. ~Idle(k)'
    BY <2>1 DEF Idle
  <2>3. \A h \in Gates : h # k =>
          /\ event_queues'[h] = event_queues[h]
          /\ h \in ready_gates' <=> h \in ready_gates
          /\ InList(ready_events, h)' <=> InList(ready_events, h)
    BY <1>4, <2>1 DEF InList
  <2>4. QED
    BY <1>1, <1>2, <2>2, <2>3, StaysActive
<1>8. CASE Reroute
  <2>1. /\ ready_gates' = ready_gates
        /\ \A h \in Gates : h # k => event_queues'[h] = event_queues[h]
        /\ \E d \in EventType : /\ d.gate = k
                                /\ ready_events' = Append(ready_events, d)
    BY <1>2, <1>8, RerouteShape DEF Reroute
  <2>2. \A h \in Gates : InList(ready_events, h)' <=>
                          InList(ready_events, h) \/ h = k
    BY <2>1, AppendedInList
  <2>3. ~Idle(k)'
    BY <2>2 DEF Idle
  <2>4. QED
    BY <1>1, <1>2, <2>1, <2>2, <2>3, StaysActive
<1>9. QED
  BY <1>5, <1>6, <1>7, <1>8

-----------------------------------------------------------------------------
(* The dependency graph *)

\* A gate with nothing left to do and nothing to wait for.
Finished(g) == Idle(g) /\ Predecessors(edges, g) = {}

Dependencies == DependencyEdges(module_gates)

\* The edges that have been removed are those from finished gates, and a gate
\* stays idle as long as an edge leads to it.
DagInv ==
  /\ edges \subseteq Dependencies
  /\ \A d \in Dependencies \ edges : Finished(d[1])
  /\ \A d \in edges : ~Finished(d[1])
  /\ EdgesLeadToIdle
  /\ completed = {g \in Gates : Finished(g)}

\* Dependencies join different gates of the module.
LEMMA DependenciesForward ==
  ASSUME IInv
  PROVE  \A d \in Dependencies : d \in Gates \X Gates /\ d[1] # d[2]
<1> SUFFICES ASSUME NEW d \in Dependencies
             PROVE  d \in Gates \X Gates /\ d[1] # d[2]
  OBVIOUS
<1>1. d \in Gates \X Gates /\ d[1] < d[2]
  BY DEF Dependencies, DependencyEdges, Gates
<1>2. Gates \subseteq Int
  <2>1. module_gates = <<>> \/ module_gates \in Seq(Range(module_gates))
    BY BraidflashAssumption DEF IInv, TypeOK
  <2>2. QED
    BY <2>1, LenProperties DEF Gates
<1>3. d[1] \in Int /\ d[2] \in Int
  BY <1>1, <1>2
<1>4. d[1] # d[2]
  BY <1>1, <1>3
<1>5. QED
  BY <1>1, <1>4

\* The program starts with an empty graph.
LEMMA InitDagInv == Init => DagInv
<1> SUFFICES ASSUME Init PROVE DagInv
  OBVIOUS
<1>1. Gates = {} /\ edges = {} /\ completed = {}
  BY DEF Init, Gates
<1>2. QED
  BY <1>1, InitIInv, DependenciesForward DEF DagInv, EdgesLeadToIdle

\* A module starts with its source gates ready and nothing finished.
LEMMA StartModuleUnfinished ==
  ASSUME IInv, NEW gates \in Programs, StartModule(gates)
  PROVE  /\ module_gates' = gates /\ Gates' = DOMAIN gates
         /\ edges' = Dependencies' /\ completed' = {}
         /\ \A g \in Gates' : ~Finished(g)'
         /\ \A g \in Gates' : Predecessors(edges, g)' # {} => Idle(g)'
<1>1. /\ ready_events = <<>> /\ todo = <<>> /\ ready_gates = {}
      /\ ready_events' = <<>> /\ todo' = <<>>
  BY DEF IInv, Quiet, WorkLeft, StartModule
<1>2. /\ Gates' = DOMAIN gates /\ module_gates' = gates
      /\ edges' = Dependencies' /\ completed' = {}
  BY DEF Gates, StartModule, Dependencies
<1>3. \A g \in Gates' : g \in ready_gates' <=> Predecessors(edges, g)' = {}
  BY <1>1, <1>2 DEF StartModule, initial_ready, Predecessors, Dependencies
<1>4. \A g \in Gates' : event_queues'[g] = <<>>
  BY <1>2 DEF StartModule
<1>5. \A g \in Gates' : Idle(g)' <=> Predecessors(edges, g)' # {}
  BY <1>1, <1>3, <1>4 DEF Idle, InList
<1>6. QED
  BY <1>2, <1>5 DEF Finished

\* A module starts with the whole graph and its sources ready.
LEMMA StartModuleDagInv ==
  ASSUME IInv, NEW gates \in Programs, StartModule(gates)
  PROVE  DagInv'
<1>1. /\ edges' = Dependencies' /\ completed' = {}
      /\ \A g \in Gates' : ~Finished(g)'
      /\ \A g \in Gates' : Predecessors(edges, g)' # {} => Idle(g)'
  BY StartModuleUnfinished
<1>2. \A d \in edges' : d \in Gates' \X Gates'
  BY <1>1 DEF Dependencies, DependencyEdges, Gates
<1>3. \A d \in edges' : Predecessors(edges, d[2])' # {}
  BY <1>2 DEF Predecessors
<1>4. \A d \in edges' : Idle(d[2])'
  BY <1>1, <1>2, <1>3
<1>5. \A d \in edges' : ~Finished(d[1])'
  BY <1>1, <1>2
<1>6. QED
  BY <1>1, <1>4, <1>5 DEF DagInv, EdgesLeadToIdle

\* Only a completion changes which gates are idle within a module.
LEMMA OtherStepsIdle ==
  ASSUME IInv, NEW g \in Gates,
         \/ EndModule \/ Stuck \/ QueueReadyGates \/ CountDown \/ Prioritise
         \/ AdvanceGate \/ Retry \/ Reroute \/ DropGate \/ EndCycle
         \/ UNCHANGED vars
  PROVE  /\ UNCHANGED <<module_gates, dag>>
         /\ Idle(g)' <=> Idle(g)
<1>1. CASE EndModule \/ Stuck \/ EndCycle \/ UNCHANGED vars
  BY <1>1 DEF EndModule, Stuck, EndCycle, vars, dag, Idle, InList
<1>2. CASE QueueReadyGates
  BY <1>2, QueueReadyGatesIdle DEF QueueReadyGates
<1>3. CASE CountDown
  BY <1>3, CountDownIdle DEF CountDown
<1>4. CASE Prioritise
  BY <1>4, PrioritiseIdle DEF Prioritise
<1>5. CASE AdvanceGate \/ Retry \/ Reroute \/ DropGate
  BY <1>5, EventStepIdle DEF AdvanceGate, Retry, Reroute, DropGate
<1>6. QED
  BY <1>1, <1>2, <1>3, <1>4, <1>5

\* A step that keeps the graph and the idle gates finishes none.
LEMMA OtherStepsFinished ==
  ASSUME IInv, UNCHANGED <<module_gates, dag>>,
         \A g \in Gates : Idle(g)' <=> Idle(g)
  PROVE  \A g \in Gates : Finished(g)' <=> Finished(g)
<1>1. \A g \in Gates : Predecessors(edges, g)' = Predecessors(edges, g)
  BY DEF dag, Predecessors, Gates
<1>2. QED
  BY <1>1 DEF Finished

\* Such a step keeps the invariant of the graph.
LEMMA OtherStepsDagInv ==
  ASSUME IInv, DagInv, UNCHANGED <<module_gates, dag>>,
         \A g \in Gates : Idle(g)' <=> Idle(g)
  PROVE  DagInv'
<1>1. \A g \in Gates : Finished(g)' <=> Finished(g)
  BY OtherStepsFinished
<1>2. Dependencies' = Dependencies /\ Gates' = Gates
  BY DEF Dependencies, Gates
<1>3. \A d \in Dependencies : d[1] \in Gates /\ d[2] \in Gates
  BY DependenciesForward
<1>4. edges' \subseteq Dependencies' /\ edges' = edges /\ completed' = completed
  BY <1>2 DEF DagInv, dag
<1>5. \A d \in Dependencies' \ edges' : Finished(d[1])'
  BY <1>1, <1>2, <1>3, <1>4 DEF DagInv
<1>6. \A d \in edges' : ~Finished(d[1])'
  BY <1>1, <1>2, <1>3, <1>4 DEF DagInv
<1>7. EdgesLeadToIdle'
  BY <1>2, <1>3, <1>4 DEF DagInv, EdgesLeadToIdle
<1>8. completed' = {g \in Gates' : Finished(g)'}
  BY <1>1, <1>2, <1>4 DEF DagInv
<1>9. QED
  BY <1>4, <1>5, <1>6, <1>7, <1>8 DEF DagInv

-----------------------------------------------------------------------------
(* A completion *)

\* The gate that completes finishes, and no other gate becomes finished or
\* stops being it.
LEMMA CompleteGateFinishes ==
  ASSUME IInv, DagInv, CompleteGate, NEW k, k = Head(todo).gate
  PROVE  /\ k \in Gates /\ ~Finished(k)
         /\ Predecessors(edges, k) = {}
         /\ edges' = {d \in edges : d[1] # k}
         /\ completed' = completed \union {k}
         /\ UNCHANGED module_gates
         /\ \A g \in Gates : Finished(g)' <=> Finished(g) \/ g = k
         /\ \A d \in edges' : Idle(d[2])'
<1> DEFINE freed == {c \in Gates : Predecessors(edges, c) = {k}}
<1>1. /\ todo # <<>> /\ todo' = Tail(todo) /\ event_queues[k] = <<>>
      /\ ready_gates' = ready_gates \union freed
      /\ edges' = {d \in edges : d[1] # k}
      /\ completed' = completed \union {k}
      /\ UNCHANGED <<module_gates, event_queues, ready_events>>
  BY DEF CompleteGate, NextReady
<1>2. /\ k \in Gates /\ k \notin ready_gates
      /\ ~InList(ready_events, k) /\ InList(todo, k)
  BY <1>1, HeadOfTodo DEF InList
<1>3. ~Idle(k)
  BY <1>2 DEF Idle
<1>4. \A d \in edges : d \in Gates \X Gates /\ d[1] # d[2] /\ Idle(d[2])
  BY DependenciesForward DEF DagInv, EdgesLeadToIdle
<1>5. \A p, g \in Gates : p \in Predecessors(edges, g) <=> <<p, g>> \in edges
  BY DEF Predecessors
<1>6. Predecessors(edges, k) = {}
  <2>1. \A p \in Gates : <<p, k>> \notin edges
    BY <1>3, <1>4
  <2>2. QED
    BY <2>1 DEF Predecessors
<1>7. Gates' = Gates /\ \A g \in Gates :
        Predecessors(edges, g)' = Predecessors(edges, g) \ {k}
  BY <1>1, <1>4 DEF Predecessors, Gates
<1>8. \A g \in Gates : Idle(g)' <=> (Idle(g) \/ g = k) /\ g \notin freed
  <2> SUFFICES ASSUME NEW g \in Gates
               PROVE  Idle(g)' <=> (Idle(g) \/ g = k) /\ g \notin freed
    OBVIOUS
  <2>1. InList(todo, g)' <=> InList(todo, g) /\ g # k
    <3>1. InList(Tail(todo), g) <=> InList(todo, g) /\ g # k
      BY <1>1, TailInList
    <3>2. QED
      BY <1>1, <3>1 DEF InList
  <2>2. InList(ready_events, g)' <=> InList(ready_events, g)
    BY <1>1 DEF InList
  <2>3. g \in ready_gates' <=> g \in ready_gates \/ g \in freed
    BY <1>1
  <2> HIDE DEF freed
  <2>4. CASE g = k
    BY <1>1, <1>2, <2>1, <2>2, <2>3, <2>4 DEF Idle
  <2>5. CASE g # k
    BY <1>1, <2>1, <2>2, <2>3, <2>5 DEF Idle
  <2>6. QED
    BY <2>4, <2>5
<1>9. \A g \in Gates : Finished(g)' <=> Finished(g) \/ g = k
  <2> SUFFICES ASSUME NEW g \in Gates
               PROVE  Finished(g)' <=> Finished(g) \/ g = k
    OBVIOUS
  <2>1. Predecessors(edges, g)' = {} <=>
          Predecessors(edges, g) = {} \/ g \in freed
    BY <1>7
  <2>2. g \in freed => Predecessors(edges, g) # {}
    OBVIOUS
  <2>3. g = k => g \notin freed
    BY <1>6
  <2> HIDE DEF freed
  <2>4. QED
    BY <1>6, <1>8, <2>1, <2>2, <2>3 DEF Finished
<1>10. \A d \in edges' : Idle(d[2])'
  <2> SUFFICES ASSUME NEW d \in edges, d[1] # k PROVE Idle(d[2])'
    BY <1>1
  <2>1. d[1] \in Predecessors(edges, d[2]) /\ d[2] \in Gates /\ Idle(d[2])
    BY <1>4 DEF Predecessors
  <2>2. d[2] \notin freed
    BY <2>1
  <2>3. QED
    BY <1>8, <2>1, <2>2
<1>11. QED
  BY <1>1, <1>2, <1>3, <1>6, <1>9, <1>10 DEF Finished

\* A completion takes its gate off the graph and queues the successors that
\* wait for no other.
LEMMA CompleteGateDagInv ==
  ASSUME IInv, DagInv, CompleteGate
  PROVE  DagInv'
<1>1. PICK k : k = Head(todo).gate
  OBVIOUS
<1>2. /\ edges' = {d \in edges : d[1] # k}
      /\ completed' = completed \union {k} /\ k \in Gates
      /\ UNCHANGED module_gates
      /\ \A g \in Gates : Finished(g)' <=> Finished(g) \/ g = k
      /\ \A d \in edges' : Idle(d[2])'
  BY <1>1, CompleteGateFinishes
<1>3. Dependencies' = Dependencies /\ Gates' = Gates
  BY <1>2 DEF Dependencies, Gates
<1>4. \A d \in Dependencies : d[1] \in Gates
  BY DependenciesForward
<1>5. edges' \subseteq Dependencies'
  BY <1>2, <1>3 DEF DagInv
<1>6. \A d \in Dependencies' \ edges' : Finished(d[1])'
  BY <1>2, <1>3, <1>4 DEF DagInv
<1>7. \A d \in edges' : ~Finished(d[1])'
  BY <1>2, <1>4 DEF DagInv
<1>8. completed' = {g \in Gates' : Finished(g)'}
  BY <1>2, <1>3 DEF DagInv
<1>9. QED
  BY <1>2, <1>5, <1>6, <1>7, <1>8 DEF DagInv, EdgesLeadToIdle

-----------------------------------------------------------------------------
(* The invariant of the specification *)

\* Both invariants are kept by every step.
LEMMA NextInv ==
  ASSUME IInv, DagInv, [Next]_vars
  PROVE  IInv' /\ DagInv'
<1>1. CASE \E gates \in Programs : StartModule(gates)
  BY <1>1, StartModuleIInv, StartModuleDagInv
<1>2. CASE CompleteGate
  BY <1>2, CompleteGateIInv, CompleteGateDagInv DEF DagInv
<1>3. ASSUME \/ EndModule \/ Stuck \/ QueueReadyGates \/ CountDown
             \/ Prioritise \/ AdvanceGate \/ Retry \/ Reroute \/ DropGate
             \/ EndCycle \/ UNCHANGED vars
      PROVE  IInv' /\ DagInv'
  <2>1. IInv'
    <3>1. CASE UNCHANGED vars
      BY <3>1, StillInFlight DEF vars, dag, IInv, TypeOK, Quiet, WorkLeft, Gates,
                                 EventType, mesh, flags, watch
    <3>2. CASE EndModule \/ Stuck \/ EndCycle
      BY <3>2, PcStepIInv
    <3>3. QED
      BY <1>3, <3>1, <3>2, QueueReadyGatesIInv, CountDownIInv, PrioritiseIInv,
         AdvanceGateIInv, RetryIInv, RerouteIInv, DropGateIInv
  <2>2. UNCHANGED <<module_gates, dag>>
    BY <1>3 DEF EndModule, Stuck, QueueReadyGates, CountDown, Prioritise,
                AdvanceGate, Retry, Reroute, DropGate, EndCycle, vars
  <2>3. \A g \in Gates : Idle(g)' <=> Idle(g)
    BY <1>3, OtherStepsIdle
  <2>4. QED
    BY <2>1, <2>2, <2>3, OtherStepsDagInv
<1>4. QED
  BY <1>1, <1>2, <1>3 DEF Next

\* The strengthening all the theorems rest on: types, one event in flight per
\* gate in the order of its queue, and a dependency graph that agrees with it.
THEOREM SpecInv == Spec => [](IInv /\ DagInv)
<1>1. Init => IInv /\ DagInv
  BY InitIInv, InitDagInv
<1>2. IInv /\ DagInv /\ [Next]_vars => (IInv /\ DagInv)'
  BY NextInv
<1>3. QED
  BY <1>1, <1>2, PTL DEF Spec

\* Every step of the loop keeps the types of its variables (main's loop and the
\* functions it calls).
THEOREM TypesHold == Spec => []TypeOK
<1>1. IInv /\ DagInv => TypeOK
  BY DEF IInv
<1>2. QED
  BY <1>1, SpecInv, PTL

-----------------------------------------------------------------------------
(* One event in flight, in order *)

\* The places where a gate waits, as the properties name them.
LEMMA LapsedInLists ==
  ASSUME NEW g
  PROVE  /\ Lapsed(g) # {} <=> InList(ready_events, g) \/ InList(todo, g)
         /\ Active(g) <=> ~Idle(g)
<1>1. Lapsed(g) # {} <=> InList(ready_events, g) \/ InList(todo, g)
  BY DEF Lapsed, Range, InList
<1>2. QED
  BY <1>1 DEF Active, Idle

\* A gate is active when it is not idle.
LEMMA ActiveIsNotIdle == \A g : Active(g) <=> ~Idle(g)
BY LapsedInLists

\* The same, in the state after a step.
LEMMA ActiveLater == (\A g : Active(g) <=> ~Idle(g))'
BY ActiveIsNotIdle, PTL

\* The timer of a gate is that of the event at the front of its queue.
LEMMA HeadTimerOfQueue ==
  ASSUME IInv, NEW g \in Gates
  PROVE  /\ event_queues[g] = <<>> => HeadTimer(g) = -1
         /\ event_queues[g] # <<>> =>
              /\ HeadTimer(g) = event_queues[g][1].timer
              /\ HeadTimer(g) \in Int
<1>1. event_queues[g] \in Seq(EventType)
  BY ListTypes DEF IInv
<1>2. event_queues[g] # <<>> => /\ Head(event_queues[g]) = event_queues[g][1]
                               /\ event_queues[g][1] \in EventType
  BY <1>1, HeadTailProperties
<1>3. QED
  BY <1>2 DEF HeadTimer, EventType

\* A gate is queued, waits for its timer or waits for the mesh, never two of
\* these, through every retry, reroute, drop and reinjection.
THEOREM OneEventInFlightHolds == Spec => []OneEventInFlight
<1>1. ASSUME IInv PROVE OneEventInFlight
  <2>1. \A g \in ready_gates : event_queues[g] = <<>> /\ Lapsed(g) = {}
    BY <1>1, LapsedInLists DEF IInv, InFlight, Waits, InList
  <2>2. \A g \in Gates : Lapsed(g) # {} => ~HeadRuns(g)
    <3> SUFFICES ASSUME NEW g \in Gates, Lapsed(g) # {} PROVE ~HeadRuns(g)
      OBVIOUS
    <3>1. HeadWaits(event_queues[g])
      BY <1>1, LapsedInLists DEF IInv, InFlight, Waits, InList
    <3>2. QED
      BY <1>1, <3>1, HeadTimerOfQueue DEF HeadRuns, HeadWaits
  <2>3. \A g \in Gates : \A i \in DOMAIN event_queues[g] :
          i > 1 => event_queues[g][i].timer < 0
    BY <1>1 DEF IInv, InFlight, QueueOf
  <2>4. QED
    BY <1>1, <2>1, <2>2, <2>3 DEF OneEventInFlight, IInv, InFlight, Single, Apart
<1>2. QED
  BY <1>1, SpecInv, PTL

\* No event of a gate is skipped, repeated or kept from before a drop.
THEOREM EventsInOrderHolds == Spec => []EventsInOrder
<1>1. ASSUME IInv PROVE EventsInOrder
  <2>1. \A g \in Gates :
          /\ Len(event_queues[g]) <= Len(Script(module_gates[g]))
          /\ \A i \in DOMAIN event_queues[g] :
               event_queues[g][i].type =
                 Script(module_gates[g])[Len(Script(module_gates[g]))
                                         - Len(event_queues[g]) + i]
    BY <1>1 DEF IInv, InFlight, QueueOf
  <2>2. \A e \in Range(ready_events) \union Range(todo) :
          IsNext(e.type, event_queues[e.gate], module_gates[e.gate])
    BY <1>1 DEF IInv, InFlight, Waits, Range
  <2>3. QED
    BY <2>1, <2>2 DEF EventsInOrder, IsNext
<1>2. QED
  BY <1>1, SpecInv, PTL

-----------------------------------------------------------------------------
(* The order of the gates *)

\* A gate has events only after every gate it depends on has completed.
THEOREM DependencyOrderHolds == Spec => []DependencyOrder
<1>1. ASSUME IInv, DagInv PROVE DependencyOrder
  <2> SUFFICES ASSUME NEW g \in Gates, Active(g),
                      NEW p \in Predecessors(Dependencies, g)
               PROVE  Completed(p)
    BY DEF DependencyOrder, Dependencies
  <2>1. <<p, g>> \in Dependencies /\ ~Idle(g)
    BY LapsedInLists DEF Predecessors
  <2>2. <<p, g>> \notin edges
    BY <1>1, <2>1 DEF DagInv, EdgesLeadToIdle
  <2>3. Finished(p)
    BY <1>1, <2>1, <2>2 DEF DagInv
  <2>4. p \in Gates
    BY DEF Predecessors
  <2>5. QED
    BY <1>1, <2>3, <2>4 DEF DagInv, Completed
<1>2. QED
  BY <1>1, SpecInv, PTL

\* What a step does to the finished gates: nothing outside a completion and the
\* start of a module.
LEMMA FinishedSteps ==
  ASSUME IInv, DagInv, [Next]_vars,
         ~\E gates \in Programs : StartModule(gates), ~CompleteGate
  PROVE  /\ UNCHANGED <<module_gates, dag>>
         /\ \A g \in Gates : Finished(g)' <=> Finished(g)
<1>1. \/ EndModule \/ Stuck \/ QueueReadyGates \/ CountDown
      \/ Prioritise \/ AdvanceGate \/ Retry \/ Reroute \/ DropGate
      \/ EndCycle \/ UNCHANGED vars
  BY DEF Next
<1>2. UNCHANGED <<module_gates, dag>>
  BY <1>1 DEF EndModule, Stuck, QueueReadyGates, CountDown, Prioritise,
              AdvanceGate, Retry, Reroute, DropGate, EndCycle, vars, dag
<1>3. \A g \in Gates : Idle(g)' <=> Idle(g)
  BY <1>1, OtherStepsIdle
<1>4. QED
  BY <1>2, <1>3, OtherStepsFinished

\* Within a module a completed gate stays completed and gets no events again:
\* neither a later completion nor a drop brings it back.
THEOREM CompletedForGoodHolds == Spec => CompletedForGood
<1>1. ASSUME IInv, DagInv, DagInv', [Next]_vars
      PROVE  [pc # "idle" => \A g \in Gates :
                Completed(g) => Completed(g)' /\ ~Active(g)']_vars
  <2> SUFFICES ASSUME pc # "idle", NEW g \in Gates, Completed(g)
               PROVE  Completed(g)' /\ ~Active(g)'
    OBVIOUS
  <2>1. ~\E gates \in Programs : StartModule(gates)
    BY DEF StartModule
  <2>2. completed \subseteq completed'
    <3>1. CASE CompleteGate
      BY <3>1 DEF CompleteGate
    <3>2. CASE ~CompleteGate
      BY <1>1, <2>1, <3>2, FinishedSteps DEF dag
    <3>3. QED
      BY <3>1, <3>2
  <2>3. g \in completed'
    BY <2>2 DEF Completed
  <2>4. Idle(g)'
    BY <1>1, <2>3 DEF DagInv, Finished
  <2>5. Active(g)' <=> ~Idle(g)'
    BY ActiveLater
  <2>6. QED
    BY <2>3, <2>4, <2>5 DEF Completed
<1>2. QED
  BY <1>1, SpecInv, PTL DEF Spec, CompletedForGood

\* Seen through its gates the loop schedules the dependency graph: StartModule
\* loads a graph once the last one is finished, CompleteGate finishes a gate
\* whose predecessors are finished, all other steps stutter.
THEOREM ImplementsGateDag == Spec => SchedulesTheDag
<1>1. Init => Abs!Init
  <2> SUFFICES ASSUME Init PROVE Abs!Init
    OBVIOUS
  <2>1. Gates = {} /\ DependencyEdges(module_gates) = {}
    BY DEF Init, Gates, DependencyEdges
  <2>2. QED
    BY <2>1 DEF Init, Abs!Init
<1>2. ASSUME IInv, DagInv, [Next]_vars PROVE [Abs!Next]_Abs!vars
  <2>1. CASE \E gates \in Programs : StartModule(gates)
    <3>1. PICK gates \in Programs : StartModule(gates)
      BY <2>1
    <3>2. completed = Gates
      <4>1. pc = "idle" /\ ~WorkLeft /\ todo = <<>>
        BY <1>2, <3>1 DEF StartModule, IInv, Quiet
      <4>2. \A g \in Gates : Finished(g)
        BY <4>1 DEF WorkLeft, Finished, Idle, InList, Predecessors
      <4>3. QED
        BY <1>2, <4>2 DEF DagInv
    <3>3. completed' = {}
      BY <3>1 DEF StartModule
    <3>4. DependencyEdges(module_gates)' \subseteq Gates' \X Gates'
      BY DEF DependencyEdges, Gates
    <3>5. Abs!Load
      BY <3>2, <3>3, <3>4 DEF Abs!Load
    <3>6. QED
      BY <3>5 DEF Abs!Next
  <2>2. CASE CompleteGate
    <3>1. PICK k : k = Head(todo).gate
      OBVIOUS
    <3>2. /\ k \in Gates /\ ~Finished(k)
          /\ Predecessors(edges, k) = {}
          /\ UNCHANGED module_gates
          /\ completed' = completed \union {k}
      BY <1>2, <2>2, <3>1, CompleteGateFinishes
    <3>3. Gates' = Gates /\ UNCHANGED DependencyEdges(module_gates)
      BY <3>2 DEF Gates
    <3>4. k \notin completed
      BY <1>2, <3>2 DEF DagInv
    <3>5. ASSUME NEW p \in Gates, <<p, k>> \in DependencyEdges(module_gates)
          PROVE  p \in completed
      <4>1. <<p, k>> \notin edges
        BY <3>2 DEF Predecessors
      <4>2. Finished(p)
        BY <1>2, <3>5, <4>1 DEF DagInv, Dependencies
      <4>3. QED
        BY <1>2, <3>5, <4>2 DEF DagInv
    <3>6. Abs!Finish(k)
      BY <3>2, <3>3, <3>4, <3>5 DEF Abs!Finish
    <3>7. QED
      BY <3>2, <3>6 DEF Abs!Next
  <2>3. CASE /\ ~\E gates \in Programs : StartModule(gates)
             /\ ~CompleteGate
    <3>1. UNCHANGED <<module_gates, completed>>
      BY <1>2, <2>3, FinishedSteps DEF dag
    <3>2. Gates' = Gates /\ UNCHANGED DependencyEdges(module_gates)
      BY <3>1 DEF Gates
    <3>3. QED
      BY <3>1, <3>2 DEF Abs!vars
  <2>4. QED
    BY <2>1, <2>2, <2>3
<1>3. QED
  BY <1>1, <1>2, SpecInv, PTL DEF Spec, SchedulesTheDag, Abs!Spec

-----------------------------------------------------------------------------
(* The mesh *)

\* do_event() refuses what another gate engages and purge_gate_from_mesh()
\* frees only its own gate's nodes and links.
THEOREM OwnerReleasesHolds == Spec => OwnerReleases
<1> DEFINE k == Head(todo).gate
           OnlyTheOwner ==
             /\ \A n \in Nodes : node_owner[n] # Free /\ node_owner'[n] # node_owner[n]
                  => node_owner'[n] = Free /\ node_owner[n] = k
             /\ \A l \in Links : link_owner[l] # Free /\ link_owner'[l] # link_owner[l]
                  => link_owner'[l] = Free /\ link_owner[l] = k
<1>1. ASSUME IInv, [Next]_vars, pc = "events", todo # <<>>
      PROVE  OnlyTheOwner
  <2>1. CASE CompleteGate \/ AdvanceGate
    <3>1. ~Conflict(Head(todo)) /\ do_event(Head(todo))
      BY <2>1 DEF CompleteGate, AdvanceGate
    <3>2. ASSUME NEW n \in Nodes, node_owner[n] # Free,
                 node_owner'[n] # node_owner[n]
          PROVE  node_owner'[n] = Free /\ node_owner[n] = k
      <4>1. n \in Range(Head(todo).braid.nodes)
        BY <3>1, <3>2 DEF do_event
      <4>2. ~Refuses(node_owner[n], Head(todo))
        BY <3>1, <4>1 DEF Conflict, Range
      <4>3. QED
        BY <3>1, <3>2, <4>1, <4>2 DEF do_event, Refuses
    <3>3. ASSUME NEW l \in Links, link_owner[l] # Free,
                 link_owner'[l] # link_owner[l]
          PROVE  link_owner'[l] = Free /\ link_owner[l] = k
      <4>1. l \in Range(Head(todo).braid.links)
        BY <3>1, <3>3 DEF do_event
      <4>2. ~Refuses(link_owner[l], Head(todo))
        BY <3>1, <4>1 DEF Conflict, Range
      <4>3. QED
        BY <3>1, <3>3, <4>1, <4>2 DEF do_event, Refuses
    <3>4. QED
      BY <3>2, <3>3
  <2>2. CASE DropGate
    <3>1. Retried(Head(todo)).gate = k
      BY <1>1, HeadOfTodo, RetriedIsTyped
    <3>2. purge_gate_from_mesh(k)
      BY <2>2, <3>1 DEF DropGate
    <3>3. QED
      BY <3>2 DEF purge_gate_from_mesh
  <2>3. CASE Retry \/ Reroute \/ UNCHANGED vars
    BY <2>3 DEF Retry, Reroute, vars, mesh
  <2>4. QED
    BY <1>1, <2>1, <2>2, <2>3 DEF Next, StartModule, EndModule, Stuck,
                     QueueReadyGates, CountDown, Prioritise, EndCycle
<1>2. IInv /\ [Next]_vars =>
        [pc = "events" /\ todo # <<>> => OnlyTheOwner]_vars
  BY <1>1
<1>3. QED
  BY <1>2, SpecInv, PTL DEF Spec, OwnerReleases

-----------------------------------------------------------------------------
(* Progress of the timers *)

\* The events of a gate are moving: the first of its queue counts down, or the
\* one before it has lapsed, or it is the one event that never runs.
Moving(g) ==
  \/ event_queues[g] = <<>>
  \/ event_queues[g][1].timer >= 0
  \/ InList(ready_events, g)
  \/ InList(todo, g)
  \/ code_distance = 0 /\ event_queues[g][1].type = "cnot5"

\* At code distance 0 a CNOT does not get past its cnot5: it has nothing, or
\* three events and more, and with three the first one stands still.
StopsEarly(g) ==
  code_distance = 0 /\ module_gates[g].op = "CNOT" =>
    \/ event_queues[g] = <<>> /\ ~InList(ready_events, g) /\ ~InList(todo, g)
    \/ Len(event_queues[g]) > 3
    \/ Len(event_queues[g]) = 3 /\ HeadWaits(event_queues[g])

Timely(g) == Moving(g) /\ StopsEarly(g)

\* A module starts with empty queues and lists.
LEMMA StartTimers ==
  ASSUME IInv, NEW gates \in Programs, StartModule(gates)
  PROVE  \A g \in Gates' : Timely(g)'
<1>1. ready_events' = <<>> /\ todo' = <<>>
  BY DEF IInv, Quiet, WorkLeft, StartModule
<1>2. \A g \in Gates' : event_queues'[g] = <<>>
  BY DEF StartModule, Gates
<1>3. \A g : ~InList(ready_events, g)' /\ ~InList(todo, g)'
  BY <1>1 DEF InList
<1>4. QED
  BY <1>2, <1>3 DEF Timely, Moving, StopsEarly

\* A gate that becomes ready gets all its events and the timer of the first.
LEMMA QueueingTimers ==
  ASSUME IInv, QueueReadyGates, NEW g \in Gates, Timely(g)
  PROVE  Timely(g)'
<1>1. /\ UNCHANGED <<code_distance, module_gates, ready_events, todo>>
      /\ event_queues'[g] = IF g \in ready_gates THEN EventsOf(g)
                                                 ELSE event_queues[g]
  BY DEF QueueReadyGates
<1>2. CASE g \in ready_gates
  <2>1. /\ EventsOf(g)[1].timer = 1
        /\ Len(EventsOf(g)) = Len(Script(module_gates[g]))
    BY GatesAreGates, EventsOfFresh DEF IInv, FreshQueue
  <2>2. module_gates[g].op = "CNOT" => Len(EventsOf(g)) > 3
    BY <2>1 DEF Script
  <2>3. QED
    BY <1>1, <1>2, <2>1, <2>2 DEF Timely, Moving, StopsEarly
<1>3. CASE g \notin ready_gates
  BY <1>1, <1>3 DEF Timely, Moving, StopsEarly, InList
<1>4. QED
  BY <1>2, <1>3

\* A timer counts down to the cycle it lapses in, and then its event is in
\* ready_events.
LEMMA CountDownTimers ==
  ASSUME IInv, CountDown, NEW g \in Gates, Timely(g)
  PROVE  Timely(g)'
<1> DEFINE q == event_queues[sweep]
           timer == HeadTimer(sweep)
           lapsed == [Head(q) EXCEPT !.timer = 0]
<1>1. /\ sweep \in Gates /\ q \in Seq(EventType)
      /\ event_queues \in [Gates -> Seq(EventType)]
      /\ ready_events \in Seq(EventType)
      /\ QueueOf(q, sweep, module_gates[sweep])
      /\ UNCHANGED <<code_distance, module_gates, todo>>
  BY DEF IInv, TypeOK, InFlight, CountDown
<1>2. \/ UNCHANGED <<event_queues, ready_events>>
      \/ /\ timer > 1
         /\ event_queues' = [event_queues EXCEPT ![sweep][1].timer = timer - 1]
         /\ UNCHANGED ready_events
      \/ /\ timer \in {0, 1}
         /\ ready_events' = Append(ready_events, lapsed)
         /\ event_queues' = [event_queues EXCEPT ![sweep] = Tail(q)]
  BY DEF CountDown, pop
<1>3. CASE UNCHANGED <<event_queues, ready_events>>
  BY <1>1, <1>3 DEF Timely, Moving, StopsEarly, InList
<1>4. CASE /\ timer > 1
           /\ event_queues' = [event_queues EXCEPT ![sweep][1].timer = timer - 1]
           /\ UNCHANGED ready_events
  <2> DEFINE head == [q[1] EXCEPT !.timer = timer - 1]
  <2>1. /\ q # <<>> /\ timer \in Int /\ Head(q) = q[1] /\ q[1] \in EventType
        /\ 1 \in DOMAIN q /\ timer = q[1].timer
    BY <1>1, <1>4, HeadTimerOfQueue, HeadTailProperties, EmptySeq, LenProperties
  <2>2. event_queues'[sweep] = [q EXCEPT ![1] = head]
    BY <1>1, <1>4
  <2>3. head \in EventType /\ head.timer = timer - 1
    BY <2>1 DEF EventType
  <2>4. g # sweep => event_queues'[g] = event_queues[g]
    BY <1>1, <1>4
  <2>5. timer - 1 >= 0 /\ ~HeadWaits(q)
    BY <1>4, <2>1 DEF HeadWaits
  <2> HIDE DEF timer, head, q
  <2>6. Len(event_queues'[sweep]) = Len(q) /\ event_queues'[sweep][1] = head
    BY <1>1, <2>1, <2>2, <2>3, ExceptSeq, LenProperties
  <2>7. InList(ready_events, g)' = InList(ready_events, g)
          /\ InList(todo, g)' = InList(todo, g)
    BY <1>1, <1>4 DEF InList
  <2>8. CASE g = sweep
    <3>1. Moving(g)'
      BY <2>3, <2>5, <2>6, <2>8 DEF Moving
    <3>2. code_distance = 0 /\ module_gates[g].op = "CNOT" => Len(q) > 3
      BY <2>1, <2>5, <2>8 DEF Timely, StopsEarly, q
    <3>3. QED
      BY <1>1, <2>6, <2>8, <3>1, <3>2 DEF Timely, StopsEarly
  <2>9. CASE g # sweep
    BY <1>1, <2>4, <2>7, <2>9 DEF Timely, Moving, StopsEarly
  <2>10. QED
    BY <2>8, <2>9
<1>5. CASE /\ timer \in {0, 1}
           /\ ready_events' = Append(ready_events, lapsed)
           /\ event_queues' = [event_queues EXCEPT ![sweep] = Tail(q)]
  <2>1. q # <<>>
    BY <1>5 DEF HeadTimer
  <2>2. /\ Head(q) \in EventType /\ Head(q) = q[1] /\ 1 \in DOMAIN q
        /\ Len(Tail(q)) = Len(q) - 1 /\ Len(q) \in Nat
        /\ timer = q[1].timer
    BY <1>1, <2>1, HeadTimerOfQueue, HeadTailProperties, EmptySeq, LenProperties
  <2>3. lapsed \in EventType /\ lapsed.gate = sweep
    <3>1. q[1].gate = sweep
      BY <1>1, <2>2 DEF QueueOf
    <3>2. QED
      BY <2>2, <3>1 DEF EventType
  <2>4. HeadWaits(Tail(q)) /\ ~HeadWaits(q)
    <3>1. HeadWaits(Tail(q))
      BY <1>1, <2>1, TailQueueOf
    <3>2. ~HeadWaits(q)
      BY <1>5, <2>1, <2>2 DEF HeadWaits
    <3>3. QED
      BY <3>1, <3>2
  <2> HIDE DEF lapsed, timer
  <2>5. InList(ready_events, g)' <=> InList(ready_events, g) \/ g = sweep
    BY <1>1, <1>5, <2>3, AppendedInList
  <2>6. /\ g # sweep => event_queues'[g] = event_queues[g]
        /\ event_queues'[sweep] = Tail(q)
    BY <1>1, <1>5
  <2>7. InList(todo, g)' = InList(todo, g)
    BY <1>1 DEF InList
  <2>8. CASE g = sweep
    <3>1. Moving(g)'
      BY <2>5, <2>8 DEF Moving
    <3>2. code_distance = 0 /\ module_gates[g].op = "CNOT" => Len(q) > 3
      BY <2>1, <2>4, <2>8 DEF Timely, StopsEarly
    <3>3. \A n \in Nat : n > 3 => n - 1 > 3 \/ n - 1 = 3
      OBVIOUS
    <3>4. code_distance = 0 /\ module_gates[g].op = "CNOT" =>
            Len(Tail(q)) > 3 \/ Len(Tail(q)) = 3
      BY <2>2, <3>2, <3>3
    <3>5. QED
      BY <1>1, <2>4, <2>6, <2>8, <3>1, <3>4 DEF Timely, StopsEarly, HeadWaits
  <2>9. CASE g # sweep
    BY <1>1, <2>5, <2>6, <2>7, <2>9 DEF Timely, Moving, StopsEarly
  <2>10. QED
    BY <2>8, <2>9
<1>6. QED
  BY <1>2, <1>3, <1>4, <1>5

\* A step on the event at the iterator: only its own gate needs a look.
LEMMA EventStepTimers ==
  ASSUME IInv, todo # <<>>, todo' = Tail(todo), NEW g \in Gates, Timely(g),
         UNCHANGED <<code_distance, module_gates>>,
         NEW k \in Gates, k = Head(todo).gate,
         \A h \in Gates : h # k =>
           /\ event_queues'[h] = event_queues[h]
           /\ InList(ready_events, h)' <=> InList(ready_events, h),
         Timely(k)'
  PROVE  Timely(g)'
<1>1. InList(todo, g)' <=> InList(todo, g) /\ g # k
  <2>1. InList(Tail(todo), g) <=> InList(todo, g) /\ g # k
    BY TailInList
  <2>2. QED
    BY <2>1 DEF InList
<1>2. CASE g = k
  BY <1>2
<1>3. CASE g # k
  BY <1>1, <1>3 DEF Timely, Moving, StopsEarly
<1>4. QED
  BY <1>2, <1>3

\* The next event of a gate gets its timer; that of cnot5 never runs at code
\* distance 0, and there is no cnot7 to come.
LEMMA AdvancedTimer ==
  ASSUME IInv, AdvanceGate, \A g \in Gates : Timely(g),
         NEW k \in Gates, k = Head(todo).gate
  PROVE  /\ \A h \in Gates : h # k => event_queues'[h] = event_queues[h]
         /\ UNCHANGED ready_events
         /\ Timely(k)'
<1> DEFINE q == event_queues[k]
           t == event_timers(Head(q).type)
           head == [q[1] EXCEPT !.timer = t]
           n == Len(Script(module_gates[k]))
<1>1. /\ q # <<>> /\ todo # <<>>
      /\ UNCHANGED <<code_distance, module_gates, ready_events>>
      /\ event_queues' = [event_queues EXCEPT ![k][1].timer = t]
  BY DEF AdvanceGate
<1>2. /\ q \in Seq(EventType) /\ event_queues \in [Gates -> Seq(EventType)]
      /\ QueueOf(q, k, module_gates[k])
      /\ InList(todo, k)
  BY <1>1, HeadOfTodo DEF IInv, TypeOK, InFlight, InList
<1>3. /\ q[1] \in EventType /\ 1 \in DOMAIN q /\ Head(q) = q[1]
      /\ Len(q) \in Nat /\ Len(q) > 0
  BY <1>1, <1>2, EmptySeq, LenProperties, ElementOfSeq, HeadTailProperties
<1>4. /\ q[1].type = Script(module_gates[k])[n - Len(q) + 1]
      /\ \/ n = 7 /\ module_gates[k].op = "CNOT"
         \/ n = 2 /\ q[1].type \in HEvents
  <2>1. q[1].type = Script(module_gates[k])[n - Len(q) + 1] /\ Len(q) <= n
    BY <1>2, <1>3 DEF QueueOf
  <2>2. CASE module_gates[k].op = "CNOT"
    <3>1. n = 7
      BY <2>2 DEF Script
    <3>2. QED
      BY <2>1, <2>2, <3>1
  <2>3. CASE module_gates[k].op # "CNOT"
    <3>1. Script(module_gates[k]) = <<"h1", "h2">> /\ n = 2
      BY <2>3 DEF Script
    <3>2. 2 - Len(q) + 1 \in {1, 2}
      BY <1>3, <2>1, <3>1
    <3>3. QED
      BY <2>1, <3>1, <3>2 DEF HEvents
  <2>4. QED
    BY <2>1, <2>2, <2>3
<1>5. t \in Int
  BY DistanceIsNatural DEF IInv, event_timers
<1>6. /\ event_queues'[k] = [q EXCEPT ![1] = head]
      /\ \A h \in Gates : h # k => event_queues'[h] = event_queues[h]
  BY <1>1, <1>2
<1>7. head \in EventType /\ head.timer = t /\ head.type = q[1].type
  BY <1>3, <1>5 DEF EventType
<1>8. Len(event_queues'[k]) = Len(q) /\ event_queues'[k][1] = head
  <2> HIDE DEF head
  <2>1. QED
    BY <1>2, <1>3, <1>6, <1>7, ExceptSeq, LenProperties
<1>9. code_distance = 0 /\ module_gates[k].op = "CNOT" =>
        Len(q) > 3 \/ Len(q) = 3
  BY <1>1, <1>2 DEF Timely, StopsEarly
<1>10. Moving(k)'
  <2>1. CASE t >= 0
    BY <1>7, <1>8, <2>1 DEF Moving
  <2>2. CASE t < 0
    <3>1. q[1].type \in {"cnot5", "cnot7"} /\ code_distance = 0
      BY <1>3, <2>2, DistanceIsNatural DEF IInv, event_timers
    <3>2. n = 7 /\ module_gates[k].op = "CNOT"
      BY <1>4, <3>1 DEF HEvents
    <3>3. Len(q) <= 7 /\ (Len(q) > 3 \/ Len(q) = 3)
      BY <1>2, <1>9, <3>1, <3>2 DEF QueueOf
    <3>4. 7 - Len(q) + 1 \in 1 .. 5
      <4> HIDE DEF q
      <4>1. \A m \in Nat : m <= 7 /\ (m > 3 \/ m = 3) => 7 - m + 1 \in 1 .. 5
        OBVIOUS
      <4>2. QED
        BY <1>3, <3>3, <4>1
    <3>5. \A i \in 1 .. 5 : Script(module_gates[k])[i] # "cnot7"
      BY <3>2 DEF Script
    <3>6. q[1].type # "cnot7"
      <4> HIDE DEF q
      <4>1. QED
        BY <1>4, <3>2, <3>4, <3>5
    <3>7. QED
      BY <1>1, <1>7, <1>8, <3>1, <3>6 DEF Moving
  <2>3. QED
    BY <1>5, <2>1, <2>2
<1>11. StopsEarly(k)'
  <2> SUFFICES ASSUME code_distance = 0, module_gates[k].op = "CNOT",
                      Len(q) = 3
               PROVE  HeadWaits(event_queues'[k])
    BY <1>1, <1>8, <1>9 DEF StopsEarly, HeadWaits
  <2>1. n = 7 /\ Script(module_gates[k])[7 - 3 + 1] = "cnot5"
    BY DEF Script
  <2>2. q[1].type = "cnot5"
    BY <1>4, <2>1
  <2>3. t = -1
    BY <1>3, <2>2 DEF event_timers
  <2>4. QED
    BY <1>7, <1>8, <2>3 DEF HeadWaits
<1>12. QED
  BY <1>1, <1>6, <1>10, <1>11 DEF Timely

\* Every active gate has a timer that runs, an event in a list, or the one
\* event that never runs.
LEMMA NextTimers ==
  ASSUME IInv, [Next]_vars, \A g \in Gates : Timely(g)
  PROVE  \A g \in Gates' : Timely(g)'
<1>1. CASE \E gates \in Programs : StartModule(gates)
  BY <1>1, StartTimers
<1>2. ASSUME ~\E gates \in Programs : StartModule(gates)
      PROVE  UNCHANGED <<code_distance, module_gates>> /\ Gates' = Gates
  BY <1>2 DEF Next, EndModule, Stuck, QueueReadyGates, CountDown, Prioritise,
              CompleteGate, AdvanceGate, Retry, Reroute, DropGate, EndCycle,
              vars, Gates
<1>3. ASSUME ~\E gates \in Programs : StartModule(gates), NEW g \in Gates
      PROVE  Timely(g)'
  <2>1. CASE EndModule \/ Stuck \/ EndCycle \/ UNCHANGED vars
    BY <2>1 DEF EndModule, Stuck, EndCycle, vars, Timely, Moving, StopsEarly,
                InList
  <2>2. CASE QueueReadyGates \/ CountDown
    BY <2>2, QueueingTimers, CountDownTimers
  <2>3. CASE Prioritise
    BY <2>3, PrioritiseLists DEF Prioritise, Timely, Moving, StopsEarly
  <2>4. ASSUME CompleteGate \/ AdvanceGate \/ Retry \/ Reroute \/ DropGate
        PROVE  Timely(g)'
    <3>1. todo # <<>> /\ todo' = Tail(todo)
      BY <2>4 DEF CompleteGate, AdvanceGate, Retry, Reroute, DropGate
    <3>2. PICK k \in Gates : k = Head(todo).gate
      BY <3>1, HeadOfTodo
    <3>3. /\ Retried(Head(todo)) \in EventType /\ Retried(Head(todo)).gate = k
          /\ event_queues \in [Gates -> Seq(EventType)]
          /\ HeadWaits(event_queues[k])
          /\ UNCHANGED <<code_distance, module_gates>>
          /\ Timely(k)
      BY <1>2, <1>3, <3>1, <3>2, HeadOfTodo, RetriedIsTyped DEF IInv, TypeOK
    <3>4. InList(todo, k) /\ ~InList(todo, k)' /\ ~InList(ready_events, k)
      <4>1. InList(todo, k) /\ ~InList(ready_events, k)
        BY <3>1, <3>2, HeadOfTodo DEF InList
      <4>2. ~InList(Tail(todo), k)
        BY <3>1, <3>2, TailInList
      <4>3. QED
        BY <3>1, <4>1, <4>2 DEF InList
    <3>5. CASE CompleteGate
      <4>1. event_queues[k] = <<>> /\ UNCHANGED <<event_queues, ready_events>>
        BY <3>2, <3>5 DEF CompleteGate
      <4>2. ~(code_distance = 0 /\ module_gates[k].op = "CNOT")
        BY <3>3, <3>4, <4>1, EmptySeq DEF Timely, StopsEarly
      <4>3. Timely(k)'
        BY <3>3, <4>1, <4>2 DEF Timely, Moving, StopsEarly
      <4>4. QED
        BY <1>3, <3>1, <3>2, <3>3, <4>1, <4>3, EventStepTimers DEF InList
    <3>6. CASE AdvanceGate
      <4>1. /\ \A h \in Gates : h # k => event_queues'[h] = event_queues[h]
            /\ UNCHANGED ready_events
            /\ Timely(k)'
        BY <3>2, <3>6, AdvancedTimer
      <4>2. QED
        BY <1>3, <3>1, <3>2, <3>3, <4>1, EventStepTimers DEF InList
    <3>7. CASE Retry \/ Reroute
      <4>1. /\ \A h \in Gates : h # k => event_queues'[h] = event_queues[h]
            /\ HeadWaits(event_queues'[k])
            /\ Len(event_queues'[k]) = Len(event_queues[k])
            /\ \E d \in EventType : /\ d.gate = k
                                    /\ ready_events' = Append(ready_events, d)
        BY <3>2, <3>3, <3>7, RerouteShape DEF Retry
      <4>2. \A h \in Gates : InList(ready_events, h)' <=>
                              InList(ready_events, h) \/ h = k
        BY <4>1, AppendedInList
      <4>3. Timely(k)'
        <5>1. Moving(k)'
          BY <4>2 DEF Moving
        <5>2. code_distance = 0 /\ module_gates[k].op = "CNOT" =>
                Len(event_queues[k]) > 3 \/ Len(event_queues[k]) = 3
          BY <3>3, <3>4 DEF Timely, StopsEarly
        <5>3. StopsEarly(k)'
          BY <3>3, <4>1, <5>2 DEF StopsEarly, HeadWaits
        <5>4. QED
          BY <5>1, <5>3 DEF Timely
      <4>4. QED
        BY <1>3, <3>1, <3>2, <3>3, <4>1, <4>2, <4>3, EventStepTimers
    <3>8. CASE DropGate
      <4>1. /\ event_queues' = [event_queues EXCEPT ![k] = <<>>]
            /\ UNCHANGED ready_events
        BY <3>3, <3>8 DEF DropGate, erase
      <4>2. /\ event_queues'[k] = <<>>
            /\ \A h \in Gates : h # k => event_queues'[h] = event_queues[h]
        BY <3>3, <4>1
      <4>3. Timely(k)'
        BY <3>4, <4>1, <4>2 DEF Timely, Moving, StopsEarly, InList
      <4>4. QED
        BY <1>3, <3>1, <3>2, <3>3, <4>1, <4>2, <4>3, EventStepTimers DEF InList
    <3>9. QED
      BY <2>4, <3>5, <3>6, <3>7, <3>8
  <2>5. QED
    BY <1>3, <2>1, <2>2, <2>3, <2>4 DEF Next
<1>4. QED
  BY <1>1, <1>2, <1>3

\* No gate is left in a queue that nothing moves, whatever the code distance
\* is, but one that waits for its cnot5 at distance 0.
THEOREM NoGateForgottenHolds == Spec => []NoGateForgotten
<1>1. Init => \A g \in Gates : Timely(g)
  BY DEF Init, Gates
<1>2. IInv /\ [Next]_vars /\ (\A g \in Gates : Timely(g))
        => (\A g \in Gates : Timely(g))'
  BY NextTimers
<1>3. ASSUME IInv, \A g \in Gates : Timely(g) PROVE NoGateForgotten
  <2> SUFFICES ASSUME NEW g \in Gates, Active(g), g \notin ready_gates,
                      Lapsed(g) = {}
               PROVE  HeadRuns(g) \/ Stalled(g)
    BY DEF NoGateForgotten
  <2>1. event_queues[g] # <<>>
    BY DEF Active
  <2>2. \/ event_queues[g][1].timer >= 0
        \/ code_distance = 0 /\ event_queues[g][1].type = "cnot5"
    BY <1>3, <2>1, LapsedInLists DEF Timely, Moving
  <2>3. Head(event_queues[g]) = event_queues[g][1]
    BY <1>3, <2>1, ListTypes, HeadTailProperties DEF IInv
  <2>4. QED
    BY <1>3, <2>1, <2>2, <2>3, HeadTimerOfQueue DEF HeadRuns, Stalled
<1>4. QED
  BY <1>1, <1>2, <1>3, SpecInv, PTL DEF Spec

-----------------------------------------------------------------------------
(* What the events a gate has left say of the mesh *)

\* An event without its clockwork.
Plan(e) == [type |-> e.type, open |-> e.open, braid |-> e.braid]

\* The plans of the events of gate g in a list.
PlansIn(s, g) == {Plan(s[i]) : i \in {j \in DOMAIN s : s[j].gate = g}}

\* What gate g has left to do.
Left(g) == PlansIn(ready_events, g) \union PlansIn(todo, g)
             \union PlansIn(event_queues[g], g)

Rank == [cnot1 |-> 1, cnot2 |-> 2, cnot3 |-> 3, cnot4 |-> 4, cnot5 |-> 5,
         cnot6 |-> 6, cnot7 |-> 7, h1 |-> 1, h2 |-> 2]

Opens == {"cnot1", "cnot3", "cnot5", "h1"}

\* The event that opens what an event of this type closes.
Opener(type) ==
  CASE type = "cnot2" -> "cnot1"
    [] type = "cnot4" -> "cnot3"
    [] type \in {"cnot6", "cnot7"} -> "cnot5"
    [] type = "h2" -> "h1"
    [] OTHER -> "none"

Comes(L, type) == \E p \in L : p.type = type

\* A closing event whose opening event is over.
Opened(L, c) == ~c.open /\ ~Comes(L, Opener(c.type))

\* Where the two routes of a CNOT meet, and the link of the ancilla that cnot7
\* closes: the same in the XY and in the YX routes.
XY_routes(g) ==
  LET qid == module_gates[g].qid
  IN  cnot_routes(qid[1], qid[2], cnot_ancillas(qid[1], qid[2]).anc1, FALSE)
meeting_node(g) == Last(XY_routes(g).route_1.nodes)
ancilla_link(g) == Last(XY_routes(g).route_2.links)

\* The single events.
Shaped(L, m, a) ==
  \A p \in L :
    /\ p.type \in EventTypes
    /\ p.open <=> p.type \in Opens
    /\ Range(p.braid.links) \subseteq Links
    /\ p.type = "cnot6" => /\ m \in Range(p.braid.nodes)
                           /\ Last(p.braid.nodes) = m
                           /\ a \notin Range(p.braid.links)
    /\ p.type = "cnot7" => Range(p.braid.links) = {a}

\* Every opening event is closed by events still to come, except that cnot6
\* closes the meeting node when a YX cnot3 has engaged it.
Covered(L, m) ==
  \A o \in L : o.open =>
    /\ \A n \in Range(o.braid.nodes) :
         \/ o.type = "cnot3" /\ n = m
         \/ \E c \in L : Opener(c.type) = o.type /\ n \in Range(c.braid.nodes)
    /\ \A l \in Range(o.braid.links) :
         \E c \in L : Opener(c.type) = o.type /\ l \in Range(c.braid.links)

\* Closing events close only links that their opening event engages, and stand
\* behind it.
Matched(L) ==
  /\ \A o, c \in L : Opener(c.type) = o.type =>
       Range(c.braid.links) \subseteq Range(o.braid.links)
  /\ \A c, d \in L : ~c.open /\ ~d.open /\ Rank[d.type] < Rank[c.type]
                     /\ Opener(c.type) # Opener(d.type) =>
       Comes(L, Opener(c.type))
  /\ Comes(L, "cnot3") => Comes(L, "cnot6")
  /\ Comes(L, "cnot5") => Comes(L, "cnot7")

\* What is engaged is closed by an event whose opening event is over ...
Bounded(L, m, nodes, links) ==
  /\ \A n \in nodes :
       \/ n = m /\ ~Comes(L, "cnot3") /\ Comes(L, "cnot6")
       \/ \E c \in L : Opened(L, c) /\ n \in Range(c.braid.nodes)
  /\ \A l \in links :
       \E c \in L : Opened(L, c) /\ l \in Range(c.braid.links)

\* ... and the links such an event closes are engaged.
Held(L, links) ==
  \A c \in L : Opened(L, c) => Range(c.braid.links) \subseteq links

Fits(L, m, a) == Shaped(L, m, a) /\ Covered(L, m) /\ Matched(L)

Engages(L, m, nodes, links) == Bounded(L, m, nodes, links) /\ Held(L, links)

\* The first event of the plans.
First(L, e) == e \in L /\ \A p \in L \ {e} : Rank[e.type] < Rank[p.type]

-----------------------------------------------------------------------------
(* An event happens *)

\* The event that opens a braid comes before the one that closes it.
LEMMA RankOfOpener ==
  ASSUME NEW t \in EventTypes, t \notin Opens
  PROVE  /\ Opener(t) \in Opens
         /\ Rank[Opener(t)] < Rank[t]
BY DEF EventTypes, CnotEvents, HEvents, Opens, Opener, Rank

\* An event that opens a braid has no opener of its own.
LEMMA OpenersHaveNone ==
  ASSUME NEW t \in Opens
  PROVE  Opener(t) = "none" /\ "none" \notin EventTypes
BY DEF EventTypes, CnotEvents, HEvents, Opens, Opener

\* Ranks are integers.
LEMMA RankInt == \A t \in EventTypes : Rank[t] \in Int
BY DEF EventTypes, CnotEvents, HEvents, Rank

\* The events of a gate keep fitting together when the first is over.
LEMMA FitsRest ==
  ASSUME NEW L, NEW m, NEW a, NEW e, Fits(L, m, a), First(L, e)
  PROVE  Fits(L \ {e}, m, a)
<1> DEFINE R == L \ {e}
<1>1. /\ \A p \in L : p.type \in EventTypes /\ (p.open <=> p.type \in Opens)
      /\ \A p \in R : Rank[e.type] < Rank[p.type]
      /\ e \in L
  BY DEF Fits, Shaped, First
<1>2. Shaped(R, m, a)
  BY DEF Fits, Shaped
<1>3. \A o \in R, c \in L : Opener(c.type) = o.type => c \in R
  <2> SUFFICES ASSUME NEW o \in R, Opener(e.type) = o.type PROVE FALSE
    OBVIOUS
  <2>1. CASE e.type \in Opens
    BY <1>1, <2>1, OpenersHaveNone
  <2>2. CASE e.type \notin Opens
    <3>1. Rank[o.type] < Rank[e.type] /\ Rank[e.type] < Rank[o.type]
      BY <1>1, <2>2, RankOfOpener
    <3>2. Rank[o.type] \in Int /\ Rank[e.type] \in Int
      BY <1>1, RankInt
    <3>3. QED
      BY <3>1, <3>2
  <2>3. QED
    BY <2>1, <2>2
<1>4. Covered(R, m)
  BY <1>3 DEF Fits, Covered
<1>5. Matched(R)
  <2>1. \A o, c \in R : Opener(c.type) = o.type =>
          Range(c.braid.links) \subseteq Range(o.braid.links)
    BY DEF Fits, Matched
  <2>2. ASSUME NEW c \in R, NEW d \in R, ~c.open, ~d.open,
               Rank[d.type] < Rank[c.type], Opener(c.type) # Opener(d.type)
        PROVE  Comes(R, Opener(c.type))
    <3>1. PICK p \in L : p.type = Opener(c.type)
      BY <2>2 DEF Fits, Matched, Comes
    <3>2. CASE p = e
      <4>1. /\ Rank[Opener(c.type)] < Rank[d.type]
            /\ d.type \in EventTypes \ Opens /\ c.type \in EventTypes \ Opens
        BY <1>1, <2>2, <3>1, <3>2
      <4>2. QED
        BY <2>2, <4>1 DEF EventTypes, CnotEvents, HEvents, Opens, Opener, Rank
    <3>3. CASE p # e
      BY <3>1, <3>3 DEF Comes
    <3>4. QED
      BY <3>2, <3>3
  <2>3. ASSUME Comes(R, "cnot3")
        PROVE  Comes(R, "cnot6")
    <3>1. PICK p \in L : p.type = "cnot6"
      BY <2>3 DEF Fits, Matched, Comes
    <3>2. Rank["cnot3"] = 3 /\ Rank["cnot6"] = 6
      BY DEF Rank
    <3>3. p # e
      BY <1>1, <2>3, <3>1, <3>2 DEF Comes
    <3>4. QED
      BY <3>1, <3>3 DEF Comes
  <2>4. ASSUME Comes(R, "cnot5")
        PROVE  Comes(R, "cnot7")
    <3>1. PICK p \in L : p.type = "cnot7"
      BY <2>4 DEF Fits, Matched, Comes
    <3>2. Rank["cnot5"] = 5 /\ Rank["cnot7"] = 7
      BY DEF Rank
    <3>3. p # e
      BY <1>1, <2>4, <3>1, <3>2 DEF Comes
    <3>4. QED
      BY <3>1, <3>3 DEF Comes
  <2>5. QED
    BY <2>1, <2>2, <2>3, <2>4 DEF Matched
<1>6. QED
  BY <1>2, <1>4, <1>5 DEF Fits

\* The first event opens its braid.
LEMMA OpenEngages ==
  ASSUME NEW L, NEW m, NEW a, NEW e, Fits(L, m, a), First(L, e), e.open,
         NEW nodes, NEW links, Engages(L, m, nodes, links)
  PROVE  Engages(L \ {e}, m, nodes \union Range(e.braid.nodes),
                 links \union Range(e.braid.links))
<1> DEFINE R == L \ {e}
<1>1. /\ \A p \in L : p.type \in EventTypes /\ (p.open <=> p.type \in Opens)
      /\ \A p \in R : Rank[e.type] < Rank[p.type]
      /\ e \in L /\ e.type \in Opens
  BY DEF Fits, Shaped, First
<1>2. ~Comes(R, e.type)
  <2>1. Rank[e.type] \in Int
    BY <1>1, RankInt
  <2>2. QED
    BY <1>1, <2>1 DEF Comes
<1>3. \A c \in L : Opener(c.type) = e.type => c \in R /\ ~c.open
  BY <1>1, OpenersHaveNone
<1>4. \A c \in R : Opener(c.type) = e.type => Opened(R, c)
  BY <1>2, <1>3 DEF Opened
<1>5. \A c \in L : Opened(L, c) => c \in R /\ Opened(R, c)
  BY DEF Opened, Comes
<1>6. ASSUME NEW n \in nodes \union Range(e.braid.nodes)
      PROVE  \/ n = m /\ ~Comes(R, "cnot3") /\ Comes(R, "cnot6")
             \/ \E c \in R : Opened(R, c) /\ n \in Range(c.braid.nodes)
  <2>1. CASE n \in nodes
    <3>1. e.type # "cnot6"
      BY <1>1 DEF Opens
    <3>2. /\ ~Comes(L, "cnot3") => ~Comes(R, "cnot3")
          /\ Comes(L, "cnot6") => Comes(R, "cnot6")
      BY <3>1 DEF Comes
    <3>3. QED
      BY <1>5, <2>1, <3>2 DEF Engages, Bounded
  <2>2. CASE n \in Range(e.braid.nodes)
    <3>1. \/ e.type = "cnot3" /\ n = m
          \/ \E c \in L : Opener(c.type) = e.type /\ n \in Range(c.braid.nodes)
      BY <1>1, <2>2 DEF Fits, Covered
    <3>2. CASE e.type = "cnot3" /\ n = m
      <4>1. Comes(L, "cnot6")
        BY <1>1, <3>2 DEF Fits, Matched, Comes
      <4>2. Comes(R, "cnot6")
        BY <3>2, <4>1 DEF Comes
      <4>3. QED
        BY <1>2, <3>2, <4>2
    <3>3. QED
      BY <1>3, <1>4, <3>1, <3>2
  <2>3. QED
    BY <1>6, <2>1, <2>2
<1>7. ASSUME NEW l \in links \union Range(e.braid.links)
      PROVE  \E c \in R : Opened(R, c) /\ l \in Range(c.braid.links)
  <2>1. CASE l \in links
    BY <1>5, <2>1 DEF Engages, Bounded
  <2>2. CASE l \in Range(e.braid.links)
    <3>1. \E c \in L : Opener(c.type) = e.type /\ l \in Range(c.braid.links)
      BY <1>1, <2>2 DEF Fits, Covered
    <3>2. QED
      BY <1>3, <1>4, <3>1
  <2>3. QED
    BY <1>7, <2>1, <2>2
<1>8. ASSUME NEW c \in R, Opened(R, c)
      PROVE  Range(c.braid.links) \subseteq links \union Range(e.braid.links)
  <2>1. CASE Opened(L, c)
    BY <2>1 DEF Engages, Held
  <2>2. CASE ~Opened(L, c)
    <3>1. Opener(c.type) = e.type
      BY <1>8, <2>2 DEF Opened, Comes
    <3>2. QED
      BY <1>1, <3>1 DEF Fits, Matched
  <2>3. QED
    BY <2>1, <2>2
<1>9. QED
  BY <1>6, <1>7, <1>8 DEF Engages, Bounded, Held

\* The first event closes its braid.
LEMMA CloseEngages ==
  ASSUME NEW L, NEW m, NEW a, NEW e, Fits(L, m, a), First(L, e), ~e.open,
         NEW nodes, NEW links, Engages(L, m, nodes, links)
  PROVE  Engages(L \ {e}, m, nodes \ Range(e.braid.nodes),
                 links \ Range(e.braid.links))
<1> DEFINE R == L \ {e}
<1>1. /\ \A p \in L : p.type \in EventTypes /\ (p.open <=> p.type \in Opens)
      /\ \A p \in R : Rank[e.type] < Rank[p.type]
      /\ e \in L /\ e.type \notin Opens
  BY DEF Fits, Shaped, First
<1>2. \A c \in L : Opened(L, c) /\ c # e => c \in R /\ Opened(R, c)
  BY DEF Opened, Comes
<1>3. ASSUME NEW n \in nodes \ Range(e.braid.nodes)
      PROVE  \/ n = m /\ ~Comes(R, "cnot3") /\ Comes(R, "cnot6")
             \/ \E c \in R : Opened(R, c) /\ n \in Range(c.braid.nodes)
  <2>1. CASE n = m /\ ~Comes(L, "cnot3") /\ Comes(L, "cnot6")
    <3>1. e.type # "cnot6"
      BY <1>1, <1>3, <2>1 DEF Fits, Shaped
    <3>2. QED
      BY <2>1, <3>1 DEF Comes
  <2>2. CASE \E c \in L : Opened(L, c) /\ n \in Range(c.braid.nodes)
    BY <1>2, <1>3, <2>2
  <2>3. QED
    BY <1>3, <2>1, <2>2 DEF Engages, Bounded
<1>4. ASSUME NEW l \in links \ Range(e.braid.links)
      PROVE  \E c \in R : Opened(R, c) /\ l \in Range(c.braid.links)
  BY <1>2, <1>4 DEF Engages, Bounded
<1>5. ASSUME NEW c \in R, Opened(R, c)
      PROVE  Range(c.braid.links) \subseteq links \ Range(e.braid.links)
  <2>1. c.type \in EventTypes \ Opens /\ e.type \in EventTypes \ Opens
    BY <1>1, <1>5 DEF Opened
  <2>2. Opener(c.type) # e.type
    BY <2>1, RankOfOpener
  <2>3. Opened(L, c)
    BY <1>5, <2>2 DEF Opened, Comes
  <2>4. Range(c.braid.links) \subseteq links
    BY <2>3 DEF Engages, Held
  <2>5. Opener(c.type) = Opener(e.type)
    BY <1>1, <1>5, <2>3 DEF Fits, Matched, Opened
  <2>6. e.type = "cnot6" /\ c.type = "cnot7"
    BY <1>1, <2>1, <2>5 DEF EventTypes, CnotEvents, HEvents, Opens, Opener, Rank
  <2>7. Range(c.braid.links) \intersect Range(e.braid.links) = {}
    BY <1>1, <2>6 DEF Fits, Shaped
  <2>8. QED
    BY <2>4, <2>7
<1>6. QED
  BY <1>3, <1>4, <1>5 DEF Engages, Bounded, Held
-----------------------------------------------------------------------------
(* The plans in a list *)

\* Which plans a list holds for a gate.
LEMMA InPlans ==
  ASSUME NEW s, NEW g
  PROVE  \A p : p \in PlansIn(s, g) <=>
                  \E i \in DOMAIN s : s[i].gate = g /\ p = Plan(s[i])
BY DEF PlansIn

\* An empty list holds none.
LEMMA EmptyPlans ==
  ASSUME NEW g
  PROVE  PlansIn(<<>>, g) = {}
BY DEF PlansIn

\* A list holds no plan of a gate exactly when it holds no event of it.
LEMMA NoPlans ==
  ASSUME NEW s, NEW g
  PROVE  PlansIn(s, g) = {} <=> ~InList(s, g)
BY DEF PlansIn, InList

\* The plans of a list after an event is appended.
LEMMA AppendPlans ==
  ASSUME NEW S, NEW s \in Seq(S), NEW e \in S, NEW g
  PROVE  PlansIn(Append(s, e), g) =
           PlansIn(s, g) \union (IF e.gate = g THEN {Plan(e)} ELSE {})
<1>1. /\ Len(s) \in Nat /\ DOMAIN s = 1 .. Len(s)
      /\ DOMAIN Append(s, e) = 1 .. Len(s) + 1
      /\ \A i \in 1 .. Len(s) : Append(s, e)[i] = s[i]
      /\ Append(s, e)[Len(s) + 1] = e
  BY AppendProperties, LenProperties
<1>2. \A i \in 1 .. Len(s) : i \in 1 .. Len(s) + 1
  BY <1>1
<1>3. Len(s) + 1 \in 1 .. Len(s) + 1
  BY <1>1
<1>4. \A i \in 1 .. Len(s) + 1 : i \in 1 .. Len(s) \/ i = Len(s) + 1
  BY <1>1
<1>5. \A p : p \in PlansIn(Append(s, e), g) <=>
               p \in PlansIn(s, g) \/ (e.gate = g /\ p = Plan(e))
  <2> DEFINE t == Append(s, e)
  <2> SUFFICES ASSUME NEW p
               PROVE  p \in PlansIn(t, g) <=>
                        p \in PlansIn(s, g) \/ (e.gate = g /\ p = Plan(e))
    OBVIOUS
  <2> HIDE DEF t
  <2>1. /\ p \in PlansIn(t, g) <=> \E i \in DOMAIN t : t[i].gate = g /\ p = Plan(t[i])
        /\ p \in PlansIn(s, g) <=> \E i \in DOMAIN s : s[i].gate = g /\ p = Plan(s[i])
    BY InPlans
  <2>2. QED
    BY <1>1, <1>2, <1>3, <1>4, <2>1 DEF t
<1>6. QED
  BY <1>5, Zenon

\* The plans of a list are those of its first event and of the others.
LEMMA HeadTailPlans ==
  ASSUME NEW S, NEW s \in Seq(S), s # <<>>, NEW g
  PROVE  PlansIn(s, g) =
           PlansIn(Tail(s), g) \union (IF Head(s).gate = g THEN {Plan(Head(s))}
                                                          ELSE {})
<1>1. /\ Len(s) \in Nat /\ Len(s) > 0 /\ DOMAIN s = 1 .. Len(s)
      /\ Head(s) = s[1]
      /\ DOMAIN Tail(s) = 1 .. Len(s) - 1
      /\ \A i \in 1 .. Len(s) - 1 : Tail(s)[i] = s[i + 1]
  BY EmptySeq, HeadTailProperties, LenProperties
<1>2. \A i \in 1 .. Len(s) - 1 : i + 1 \in 1 .. Len(s)
  BY <1>1
<1>3. \A i \in 1 .. Len(s) : i = 1 \/ (i - 1 \in 1 .. Len(s) - 1 /\ (i - 1) + 1 = i)
  BY <1>1
<1>4. 1 \in 1 .. Len(s)
  BY <1>1
<1>5. \A p : p \in PlansIn(s, g) <=>
               p \in PlansIn(Tail(s), g) \/ (Head(s).gate = g /\ p = Plan(Head(s)))
  <2> SUFFICES ASSUME NEW p
               PROVE  p \in PlansIn(s, g) <=>
                        p \in PlansIn(Tail(s), g)
                        \/ (Head(s).gate = g /\ p = Plan(Head(s)))
    OBVIOUS
  <2>1. ASSUME NEW i \in DOMAIN s, s[i].gate = g, p = Plan(s[i])
        PROVE  p \in PlansIn(Tail(s), g) \/ (Head(s).gate = g /\ p = Plan(Head(s)))
    <3>1. CASE i = 1
      BY <1>1, <2>1, <3>1
    <3>2. CASE i # 1
      <4>1. i - 1 \in DOMAIN Tail(s) /\ Tail(s)[i - 1] = s[i]
        BY <1>1, <1>3, <3>2
      <4>2. QED
        BY <2>1, <4>1, InPlans
    <3>3. QED
      BY <3>1, <3>2
  <2>2. ASSUME NEW i \in DOMAIN Tail(s), Tail(s)[i].gate = g, p = Plan(Tail(s)[i])
        PROVE  p \in PlansIn(s, g)
    BY <1>1, <1>2, <2>2, InPlans
  <2>3. QED
    BY <1>1, <1>4, <2>1, <2>2, InPlans, ZenonT(40)
<1>6. QED
  BY <1>5

\* A new head for a list.
LEMMA NewHeadPlans ==
  ASSUME NEW S, NEW s \in Seq(S), s # <<>>, NEW e \in S, NEW g
  PROVE  PlansIn([s EXCEPT ![1] = e], g) =
           PlansIn(Tail(s), g) \union (IF e.gate = g THEN {Plan(e)} ELSE {})
<1> DEFINE r == [s EXCEPT ![1] = e]
<1>1. /\ Len(s) \in Nat /\ Len(s) > 0
      /\ Tail(s) \in Seq(S) /\ Len(Tail(s)) = Len(s) - 1
      /\ \A i \in 1 .. Len(s) - 1 : Tail(s)[i] = s[i + 1]
  BY EmptySeq, HeadTailProperties
<1>2. /\ r \in Seq(S) /\ Len(r) = Len(s)
      /\ \A j \in 1 .. Len(s) : r[j] = IF j = 1 THEN e ELSE s[j]
  BY <1>1, ExceptSeq
<1> HIDE DEF r
<1>3. r # <<>> /\ r[1] = e
  BY <1>1, <1>2, EmptySeq
<1>4. /\ Head(r) = e /\ Tail(r) \in Seq(S) /\ Len(Tail(r)) = Len(r) - 1
      /\ \A i \in 1 .. Len(r) - 1 : Tail(r)[i] = r[i + 1]
  BY <1>2, <1>3, HeadTailProperties
<1>5. Tail(r) = Tail(s)
  <2>1. \A i \in 1 .. Len(s) - 1 : Tail(r)[i] = Tail(s)[i]
    BY <1>1, <1>2, <1>4
  <2>2. QED
    BY <1>1, <1>2, <1>4, <2>1, SeqEqual
<1>6. PlansIn(r, g) = PlansIn(Tail(r), g)
                        \union (IF Head(r).gate = g THEN {Plan(Head(r))} ELSE {})
  BY <1>2, <1>3, HeadTailPlans
<1>7. QED
  BY <1>4, <1>5, <1>6 DEF r
-----------------------------------------------------------------------------
(* The invariant of the mesh *)

NodesOf(g) == {n \in Nodes : node_owner[n] = g}
LinksOf(g) == {l \in Links : link_owner[l] = g}

\* The events of a gate fit together, and the gate engages what they say.
GateInv(g) ==
  /\ Fits(Left(g), meeting_node(g), ancilla_link(g))
  /\ Engages(Left(g), meeting_node(g), NodesOf(g), LinksOf(g))

MeshInv == \A g \in Gates : GateInv(g)

\* Gates are numbered from 1, so that no gate is the owner 0 of a free node.
LEMMA GatesAreNumbers ==
  ASSUME TypeOK
  PROVE  Gates \subseteq Nat \ {0}
<1>1. module_gates = <<>> \/ module_gates \in Seq(Range(module_gates))
  BY BraidflashAssumption DEF TypeOK
<1>2. QED
  BY <1>1, LenProperties DEF Gates

\* A gate with no event left engages nothing.
LEMMA NothingFits ==
  ASSUME NEW m, NEW a
  PROVE  Fits({}, m, a) /\ Engages({}, m, {}, {})
BY DEF Fits, Shaped, Covered, Matched, Comes, Engages, Bounded, Held

\* Nothing is left to do and nothing is engaged.
LEMMA NothingLeft ==
  ASSUME NEW g, Left(g) = {}, NodesOf(g) = {}, LinksOf(g) = {}
  PROVE  GateInv(g)
BY NothingFits DEF GateInv

\* The same, read from the mesh.
LEMMA NothingEngaged ==
  ASSUME NEW g, GateInv(g), Left(g) = {}
  PROVE  NodesOf(g) = {} /\ LinksOf(g) = {}
BY DEF GateInv, Engages, Bounded, Comes

\* Fewer engaged nodes are closed as well.
LEMMA FewerNodes ==
  ASSUME NEW L, NEW m, NEW nodes, NEW links, NEW some \in SUBSET nodes,
         Engages(L, m, nodes, links)
  PROVE  Engages(L, m, some, links)
BY DEF Engages, Bounded, Held

\* A step that changes only gate k.
LEMMA OnlyGate ==
  ASSUME MeshInv, UNCHANGED module_gates, NEW k,
         \A h \in Gates : h # k => /\ Left(h)' = Left(h)
                                   /\ NodesOf(h)' = NodesOf(h)
                                   /\ LinksOf(h)' = LinksOf(h),
         k \in Gates => GateInv(k)'
  PROVE  MeshInv'
<1>1. Gates' = Gates
  BY DEF Gates
<1>2. \A h : meeting_node(h)' = meeting_node(h) /\ ancilla_link(h)' = ancilla_link(h)
  BY DEF meeting_node, ancilla_link, XY_routes
<1>3. ASSUME NEW h \in Gates, h # k
      PROVE  GateInv(h)'
  <2>1. GateInv(h)
    BY DEF MeshInv
  <2>2. QED
    BY <1>2, <1>3, <2>1 DEF GateInv
<1>4. QED
  BY <1>1, <1>3 DEF MeshInv

\* Steps that touch neither the plans nor the mesh.
LEMMA SameLeft ==
  ASSUME MeshInv, UNCHANGED <<module_gates, mesh>>,
         \A g \in Gates : Left(g)' = Left(g)
  PROVE  MeshInv'
<1>1. Gates' = Gates
  BY DEF Gates
<1>2. \A h : meeting_node(h)' = meeting_node(h) /\ ancilla_link(h)' = ancilla_link(h)
  BY DEF meeting_node, ancilla_link, XY_routes
<1>3. \A h : NodesOf(h)' = NodesOf(h) /\ LinksOf(h)' = LinksOf(h)
  BY DEF NodesOf, LinksOf, mesh
<1>4. ASSUME NEW h \in Gates
      PROVE  GateInv(h)'
  <2>1. GateInv(h)
    BY DEF MeshInv
  <2>2. QED
    BY <1>2, <1>3, <2>1 DEF GateInv
<1>5. QED
  BY <1>1, <1>4 DEF MeshInv

-----------------------------------------------------------------------------
(* The order of the plans *)

\* The rank of an event is its place in its gate's script.
LEMMA ScriptRanks ==
  ASSUME NEW gate, NEW k \in 1 .. Len(Script(gate))
  PROVE  Rank[Script(gate)[k]] = k
BY DEF Script, Rank

\* The events of a queue have consecutive ranks, and the event in flight the
\* one before.
LEMMA QueueRanks ==
  ASSUME NEW S, NEW q \in Seq(S), NEW g, NEW gate, QueueOf(q, g, gate)
  PROVE  /\ \A i \in DOMAIN q :
              Rank[q[i].type] = Len(Script(gate)) - Len(q) + i
         /\ \A type : IsNext(type, q, gate) =>
              Rank[type] = Len(Script(gate)) - Len(q)
<1> DEFINE n == Len(Script(gate))
<1>1. n \in Nat
  BY DEF Script
<1>2. Len(q) \in Nat /\ DOMAIN q = 1 .. Len(q)
  BY LenProperties
<1>3. /\ Len(q) <= n
      /\ \A i \in DOMAIN q : q[i].type = Script(gate)[n - Len(q) + i]
  BY DEF QueueOf
<1>4. \A type : IsNext(type, q, gate) =>
        Len(q) < n /\ type = Script(gate)[n - Len(q)]
  BY DEF IsNext
<1>5. \A k \in 1 .. n : Rank[Script(gate)[k]] = k
  BY ScriptRanks
<1> HIDE DEF n
<1>6. \A i \in DOMAIN q : n - Len(q) + i \in 1 .. n
  BY <1>1, <1>2, <1>3
<1>7. Len(q) < n => n - Len(q) \in 1 .. n
  BY <1>1, <1>2
<1>8. \A i \in DOMAIN q : Rank[q[i].type] = n - Len(q) + i
  BY <1>3, <1>5, <1>6
<1>9. \A type : IsNext(type, q, gate) => Rank[type] = n - Len(q)
  BY <1>4, <1>5, <1>7
<1>10. QED
  BY <1>8, <1>9 DEF n

\* The lapsed event at the iterator is the first of its gate, the others are in
\* the gate's queue, and other gates do not see it leave.
LEMMA FirstLeft ==
  ASSUME IInv, todo # <<>>, NEW k, k = Head(todo).gate
  PROVE  /\ First(Left(k), Plan(Head(todo)))
         /\ Left(k) \ {Plan(Head(todo))} = PlansIn(event_queues[k], k)
         /\ PlansIn(ready_events, k) = {}
         /\ PlansIn(Tail(todo), k) = {}
         /\ \A h : h # k => PlansIn(Tail(todo), h) = PlansIn(todo, h)
<1> DEFINE e == Head(todo)
           q == event_queues[k]
<1>1. /\ e \in EventType /\ k \in Gates
      /\ IsNext(e.type, q, module_gates[k])
      /\ ~InList(ready_events, k) /\ ~InList(Tail(todo), k)
  BY HeadOfTodo DEF InList
<1>2. q \in Seq(EventType) /\ QueueOf(q, k, module_gates[k])
  BY <1>1, ListTypes DEF IInv, InFlight
<1>3. PlansIn(ready_events, k) = {} /\ PlansIn(Tail(todo), k) = {}
  BY <1>1, NoPlans
<1>4. \A h : PlansIn(todo, h) = PlansIn(Tail(todo), h)
                                  \union (IF e.gate = h THEN {Plan(e)} ELSE {})
  BY HeadTailPlans DEF IInv, TypeOK
<1>5. Left(k) = {Plan(e)} \union PlansIn(q, k)
  BY <1>3, <1>4 DEF Left
<1> HIDE DEF e, q
<1>6. \A p \in PlansIn(q, k) : Rank[e.type] < Rank[p.type]
  <2> SUFFICES ASSUME NEW i \in DOMAIN q
               PROVE  Rank[e.type] < Rank[Plan(q[i]).type]
    BY InPlans
  <2>1. /\ Rank[q[i].type] = Len(Script(module_gates[k])) - Len(q) + i
        /\ Rank[e.type] = Len(Script(module_gates[k])) - Len(q)
    BY <1>1, <1>2, QueueRanks
  <2>2. Len(Script(module_gates[k])) \in Nat
    BY DEF Script
  <2>3. i \in Nat /\ i > 0 /\ Len(q) \in Nat
    BY <1>2, LenProperties
  <2>4. Plan(q[i]).type = q[i].type
    BY DEF Plan
  <2>5. QED
    BY <2>1, <2>2, <2>3, <2>4
<1>7. Plan(e).type = e.type /\ e.type \in EventTypes
  BY <1>1 DEF Plan, EventType
<1>8. Plan(e) \notin PlansIn(q, k)
  BY <1>6, <1>7, RankInt
<1>9. QED
  BY <1>3, <1>4, <1>5, <1>6, <1>7, <1>8, ZenonT(40) DEF First, e, q
-----------------------------------------------------------------------------
(* The steps before the lapsed events *)

\* A module starts on a free mesh.
LEMMA StartModuleMesh ==
  ASSUME IInv, NEW gates \in Programs, StartModule(gates)
  PROVE  MeshInv'
<1>1. ready_events' = <<>> /\ todo' = <<>>
  BY DEF IInv, Quiet, WorkLeft, StartModule
<1>2. Gates' = DOMAIN gates
  BY DEF Gates, StartModule
<1>3. Gates' \subseteq Nat \ {0}
  <2>1. gates \in Seq(Range(gates))
    BY BraidflashAssumption
  <2>2. QED
    BY <1>2, <2>1, LenProperties
<1>4. ASSUME NEW g \in Gates'
      PROVE  GateInv(g)'
  <2>1. event_queues'[g] = <<>>
    BY <1>2 DEF StartModule
  <2>2. Left(g)' = {}
    BY <1>1, <2>1, EmptyPlans DEF Left
  <2>3. g # Free
    BY <1>3 DEF Free
  <2>4. NodesOf(g)' = {} /\ LinksOf(g)' = {}
    BY <2>3 DEF StartModule, NodesOf, LinksOf
  <2>5. QED
    BY <2>2, <2>4, NothingFits DEF GateInv
<1>5. QED
  BY <1>4 DEF MeshInv

\* Counting down moves events between the lists and changes no plan.
LEMMA CountDownMesh ==
  ASSUME IInv, MeshInv, CountDown
  PROVE  MeshInv'
<1> DEFINE g == sweep
           q == event_queues[g]
           timer == HeadTimer(g)
           ticked == [Head(q) EXCEPT !.timer = timer - 1]
           lapsed == [Head(q) EXCEPT !.timer = 0]
<1>1. /\ g \in Gates /\ q \in Seq(EventType)
      /\ event_queues \in [Gates -> Seq(EventType)]
      /\ ready_events \in Seq(EventType)
      /\ QueueOf(q, g, module_gates[g])
  BY DEF IInv, TypeOK, InFlight, CountDown
<1>2. /\ UNCHANGED <<module_gates, mesh, todo>>
      /\ \/ UNCHANGED <<event_queues, ready_events>>
         \/ /\ timer > 1
            /\ event_queues' = [event_queues EXCEPT ![g][1].timer = timer - 1]
            /\ UNCHANGED ready_events
         \/ /\ timer \in {0, 1}
            /\ ready_events' = Append(ready_events, lapsed)
            /\ event_queues' = [event_queues EXCEPT ![g] = Tail(q)]
  BY DEF CountDown, pop
<1>3. timer > 1 \/ timer \in {0, 1} => q # <<>>
  BY DEF HeadTimer
<1>4. ASSUME q # <<>>
      PROVE  /\ timer \in Int
             /\ Head(q) = q[1] /\ Head(q).gate = g
             /\ lapsed \in EventType /\ lapsed.gate = g /\ Plan(lapsed) = Plan(Head(q))
             /\ ticked \in EventType /\ ticked.gate = g /\ Plan(ticked) = Plan(Head(q))
  <2>1. /\ Head(q) = q[1] /\ Head(q) \in EventType /\ 1 \in DOMAIN q
    BY <1>1, <1>4, HeadTailProperties, EmptySeq, LenProperties
  <2>2. Head(q).gate = g
    BY <1>1, <2>1 DEF QueueOf
  <2>3. timer \in Int
    BY <1>1, <1>4, HeadTimerOfQueue
  <2> HIDE DEF timer
  <2>4. /\ ticked \in EventType /\ ticked.gate = g
        /\ lapsed \in EventType /\ lapsed.gate = g
    BY <2>1, <2>2, <2>3 DEF EventType
  <2>5. Plan(ticked) = Plan(Head(q)) /\ Plan(lapsed) = Plan(Head(q))
    BY <2>1 DEF EventType, Plan
  <2>6. QED
    BY <2>1, <2>2, <2>3, <2>4, <2>5 DEF timer
<1>5. \A h \in Gates : Left(h)' = Left(h)
  <2>1. CASE UNCHANGED <<event_queues, ready_events>>
    BY <1>2, <2>1 DEF Left
  <2>2. CASE /\ timer > 1
             /\ event_queues' = [event_queues EXCEPT ![g][1].timer = timer - 1]
             /\ UNCHANGED ready_events
    <3>1. q # <<>>
      BY <1>3, <2>2
    <3>2. event_queues' = [event_queues EXCEPT ![g] = [q EXCEPT ![1] = ticked]]
      BY <1>1, <1>4, <2>2, <3>1
    <3> HIDE DEF timer, ticked, lapsed, q
    <3>3. PlansIn([q EXCEPT ![1] = ticked], g) = PlansIn(Tail(q), g) \union {Plan(ticked)}
      <4>1. ticked \in EventType /\ ticked.gate = g
        BY <1>4, <3>1
      <4>2. PlansIn([q EXCEPT ![1] = ticked], g) = PlansIn(Tail(q), g)
              \union (IF ticked.gate = g THEN {Plan(ticked)} ELSE {})
        BY <1>1, <3>1, <4>1, NewHeadPlans
      <4>3. QED
        BY <4>1, <4>2
    <3>4. PlansIn(q, g) = PlansIn(Tail(q), g) \union {Plan(Head(q))}
      BY <1>1, <1>4, <3>1, HeadTailPlans
    <3>5. \A h \in Gates : PlansIn(event_queues'[h], h) = PlansIn(event_queues[h], h)
      BY <1>1, <1>4, <3>1, <3>2, <3>3, <3>4 DEF q
    <3>6. QED
      BY <1>2, <2>2, <3>5 DEF Left
  <2>3. CASE /\ timer \in {0, 1}
             /\ ready_events' = Append(ready_events, lapsed)
             /\ event_queues' = [event_queues EXCEPT ![g] = Tail(q)]
    <3>1. q # <<>>
      BY <1>3, <2>3
    <3> HIDE DEF timer, lapsed, q
    <3>2. PlansIn(q, g) = PlansIn(Tail(q), g) \union {Plan(Head(q))}
      BY <1>1, <1>4, <3>1, HeadTailPlans
    <3>3. \A h : PlansIn(ready_events', h) = PlansIn(ready_events, h)
                   \union (IF g = h THEN {Plan(Head(q))} ELSE {})
      BY <1>1, <1>4, <2>3, <3>1, AppendPlans
    <3>4. ASSUME NEW h \in Gates
          PROVE  Left(h)' = Left(h)
      <4>1. CASE h = g
        <5>1. event_queues'[h] = Tail(q) /\ event_queues[h] = q
          BY <1>1, <2>3, <4>1 DEF q
        <5>2. QED
          BY <1>2, <3>2, <3>3, <4>1, <5>1 DEF Left
      <4>2. CASE h # g
        <5>1. event_queues'[h] = event_queues[h]
          BY <1>1, <2>3, <4>2
        <5>2. PlansIn(ready_events', h) = PlansIn(ready_events, h)
          BY <3>3, <4>2
        <5>3. QED
          BY <1>2, <5>1, <5>2 DEF Left
      <4>3. QED
        BY <4>1, <4>2
    <3>5. QED
      BY <3>4
  <2>4. QED
    BY <1>2, <2>1, <2>2, <2>3
<1>6. QED
  BY <1>2, <1>5, SameLeft

\* Sorting changes no plan.
LEMMA PrioritiseMesh ==
  ASSUME IInv, MeshInv, Prioritise
  PROVE  MeshInv'
<1> DEFINE places == 1 .. Len(ready_events)
<1>1. PICK p \in Bijection(places, places) :
             todo' = [i \in places |-> ready_events[p[i]]]
  BY PrioritisePermutes
<1>2. /\ \A i \in places : p[i] \in places
      /\ \A j \in places : \E i \in places : p[i] = j
  BY DEF Bijection, Injection, Surjection
<1>3. DOMAIN ready_events = places
  BY LenProperties DEF IInv, TypeOK
<1>4. DOMAIN todo' = places /\ \A i \in places : todo'[i] = ready_events[p[i]]
  BY <1>1
<1>5. /\ ready_events' = <<>> /\ todo = <<>>
      /\ UNCHANGED <<module_gates, mesh, event_queues>>
  BY DEF Prioritise, IInv, Quiet
<1> HIDE DEF places
<1>6. ASSUME NEW g \in Gates
      PROVE  Left(g)' = Left(g)
  <2>1. \A x : x \in PlansIn(todo', g) <=> x \in PlansIn(ready_events, g)
    BY <1>2, <1>3, <1>4, InPlans
  <2>2. PlansIn(todo', g) = PlansIn(ready_events, g)
    BY <2>1, Zenon DEF PlansIn
  <2>3. PlansIn(ready_events', g) = {} /\ PlansIn(todo, g) = {}
    BY <1>5, EmptyPlans
  <2>4. QED
    BY <1>5, <2>2, <2>3 DEF Left
<1>7. QED
  BY <1>5, <1>6, SameLeft

-----------------------------------------------------------------------------
(* The lapsed event at the iterator *)

\* What do_event() does to the gates' nodes and links.
LEMMA DoEvent ==
  ASSUME IInv, NEW e \in EventType, NEW k, k = e.gate, ~Conflict(e), do_event(e)
  PROVE  /\ \A h \in Gates : h # k => /\ NodesOf(h)' = NodesOf(h)
                                      /\ LinksOf(h)' = LinksOf(h)
         /\ e.open =>
              /\ NodesOf(k)' = NodesOf(k) \union (Range(e.braid.nodes) \intersect Nodes)
              /\ LinksOf(k)' = LinksOf(k) \union (Range(e.braid.links) \intersect Links)
         /\ ~e.open =>
              /\ NodesOf(k)' = NodesOf(k) \ Range(e.braid.nodes)
              /\ LinksOf(k)' = LinksOf(k) \ Range(e.braid.links)
<1> DEFINE owner == IF e.open THEN k ELSE Free
<1>1. k \in Gates /\ Free \notin Gates
  BY GatesAreNumbers DEF IInv, EventType, Free
<1>2. /\ \A n \in Nodes : node_owner'[n] = IF n \in Range(e.braid.nodes)
                                           THEN owner ELSE node_owner[n]
      /\ \A l \in Links : link_owner'[l] = IF l \in Range(e.braid.links)
                                           THEN owner ELSE link_owner[l]
  BY DEF do_event
<1>3. /\ \A n \in Range(e.braid.nodes) :
           node_owner[n] = Free \/ (~e.open /\ node_owner[n] = k)
      /\ \A l \in Range(e.braid.links) :
           link_owner[l] = Free \/ (~e.open /\ link_owner[l] = k)
  BY DEF Conflict, Refuses, Range
<1>4. ASSUME NEW h \in Gates, h # k
      PROVE  NodesOf(h)' = NodesOf(h) /\ LinksOf(h)' = LinksOf(h)
  BY <1>1, <1>2, <1>3, <1>4 DEF NodesOf, LinksOf
<1>5. CASE e.open
  BY <1>1, <1>2, <1>3, <1>4, <1>5 DEF NodesOf, LinksOf
<1>6. CASE ~e.open
  BY <1>1, <1>2, <1>3, <1>4, <1>6 DEF NodesOf, LinksOf
<1>7. QED
  BY <1>4, <1>5, <1>6

\* After its first event a gate has the rest of its events left.
LEMMA EventDone ==
  ASSUME IInv, MeshInv, todo # <<>>, NEW k, k = Head(todo).gate,
         UNCHANGED module_gates, ~Conflict(Head(todo)), do_event(Head(todo)),
         Left(k)' = Left(k) \ {Plan(Head(todo))}
  PROVE  GateInv(k)'
<1> DEFINE e == Head(todo)
           m == meeting_node(k)
           a == ancilla_link(k)
           p == Plan(e)
           rest == Left(k) \ {p}
<1>1. e \in EventType /\ k \in Gates /\ k = e.gate
  BY HeadOfTodo
<1>2. /\ First(Left(k), p)
      /\ Fits(Left(k), m, a)
      /\ Engages(Left(k), m, NodesOf(k), LinksOf(k))
  BY <1>1, FirstLeft DEF MeshInv, GateInv
<1>3. m' = m /\ a' = a
  BY DEF meeting_node, ancilla_link, XY_routes
<1>4. p.open = e.open /\ p.braid = e.braid
  BY DEF Plan
<1>5. Range(e.braid.links) \subseteq Links
  BY <1>2, <1>4 DEF Fits, Shaped, First
<1> HIDE DEF e, m, a, p
<1>6. Fits(rest, m, a)
  BY <1>2, FitsRest
<1>7. CASE e.open
  <2>1. Engages(rest, m, NodesOf(k) \union Range(e.braid.nodes),
                LinksOf(k) \union Range(e.braid.links))
    BY <1>2, <1>4, <1>7, OpenEngages
  <2>2. /\ NodesOf(k)' = NodesOf(k) \union (Range(e.braid.nodes) \intersect Nodes)
        /\ LinksOf(k)' = LinksOf(k) \union (Range(e.braid.links) \intersect Links)
    BY <1>1, <1>7, DoEvent DEF e
  <2>3. LinksOf(k)' = LinksOf(k) \union Range(e.braid.links)
    BY <1>5, <2>2
  <2>4. \A some \in SUBSET (NodesOf(k) \union Range(e.braid.nodes)) :
          Engages(rest, m, some, LinksOf(k) \union Range(e.braid.links))
    BY <2>1, FewerNodes
  <2>5. Engages(rest, m, NodesOf(k)', LinksOf(k)')
    BY <2>2, <2>3, <2>4
  <2>6. QED
    BY <1>3, <1>6, <2>5 DEF GateInv, e, m, a, p
<1>8. CASE ~e.open
  <2>1. Engages(rest, m, NodesOf(k) \ Range(e.braid.nodes),
                LinksOf(k) \ Range(e.braid.links))
    BY <1>2, <1>4, <1>8, CloseEngages
  <2>2. /\ NodesOf(k)' = NodesOf(k) \ Range(e.braid.nodes)
        /\ LinksOf(k)' = LinksOf(k) \ Range(e.braid.links)
    BY <1>1, <1>8, DoEvent DEF e
  <2>3. QED
    BY <1>3, <1>6, <2>1, <2>2 DEF GateInv, e, m, a, p
<1>9. QED
  BY <1>7, <1>8

\* The events that fail, and those of other gates, stay as they are.
LEMMA RetriedPlans ==
  ASSUME IInv, todo # <<>>, NEW k, k = Head(todo).gate, todo' = Tail(todo),
         NEW d \in EventType, d.gate = k, ready_events' = Append(ready_events, d)
  PROVE  /\ \A h : h # k =>
              PlansIn(ready_events', h) \union PlansIn(todo', h)
                = PlansIn(ready_events, h) \union PlansIn(todo, h)
         /\ PlansIn(ready_events', k) \union PlansIn(todo', k) = {Plan(d)}
<1>1. \A h : PlansIn(ready_events', h) =
               PlansIn(ready_events, h) \union (IF k = h THEN {Plan(d)} ELSE {})
  BY AppendPlans DEF IInv, TypeOK
<1>2. /\ PlansIn(ready_events, k) = {} /\ PlansIn(todo', k) = {}
      /\ \A h : h # k => PlansIn(todo', h) = PlansIn(todo, h)
  BY FirstLeft
<1>3. QED
  BY <1>1, <1>2

\* An event that happens engages or releases what its plan says, and leaves the
\* gate's events.
LEMMA AdvanceGateMesh ==
  ASSUME IInv, MeshInv, AdvanceGate
  PROVE  MeshInv'
<1>0. PICK k \in Gates : todo # <<>> /\ k = Head(todo).gate
  BY HeadOfTodo DEF AdvanceGate
<1> DEFINE e == Head(todo)
           q == event_queues[k]
           t == event_timers(Head(q).type)
           head == [q[1] EXCEPT !.timer = t]
<1>1. /\ todo # <<>> /\ todo' = Tail(todo)
      /\ q # <<>> /\ ~Conflict(e) /\ do_event(e)
      /\ event_queues' = [event_queues EXCEPT ![k][1].timer = t]
      /\ UNCHANGED <<module_gates, ready_events>>
  BY <1>0 DEF AdvanceGate
<1>2. /\ e \in EventType /\ k \in Gates /\ q \in Seq(EventType)
      /\ QueueOf(q, k, module_gates[k])
      /\ event_queues \in [Gates -> Seq(EventType)]
  BY <1>0, <1>1, HeadOfTodo, ListTypes DEF IInv, InFlight, TypeOK
<1>3. t \in Int
  BY DistanceIsNatural DEF IInv, event_timers
<1>4. Head(q) = q[1] /\ q[1] \in EventType /\ 1 \in DOMAIN q
  BY <1>1, <1>2, HeadTailProperties, EmptySeq, LenProperties
<1>5. q[1].gate = k
  BY <1>2, <1>4 DEF QueueOf
<1> HIDE DEF t
<1>6. /\ head \in EventType /\ head.gate = k /\ Plan(head) = Plan(q[1])
  BY <1>3, <1>4, <1>5 DEF EventType, Plan
<1>7. event_queues' = [event_queues EXCEPT ![k] = [q EXCEPT ![1] = head]]
  BY <1>1
<1>8. /\ event_queues'[k] = [q EXCEPT ![1] = head]
      /\ \A h \in Gates : h # k => event_queues'[h] = event_queues[h]
  BY <1>2, <1>7
<1> HIDE DEF head, q
<1>9. PlansIn([q EXCEPT ![1] = head], k) = PlansIn(q, k)
  <2>1. PlansIn([q EXCEPT ![1] = head], k) = PlansIn(Tail(q), k)
          \union (IF head.gate = k THEN {Plan(head)} ELSE {})
    <3>1. q \in Seq(EventType) /\ q # <<>> /\ head \in EventType
      BY <1>1, <1>2, <1>6 DEF q, head
    <3>2. QED
      BY ONLY <3>1, NewHeadPlans
  <2>2. PlansIn(q, k) = PlansIn(Tail(q), k)
          \union (IF Head(q).gate = k THEN {Plan(Head(q))} ELSE {})
    BY <1>1, <1>2, HeadTailPlans
  <2>3. QED
    BY <1>4, <1>5, <1>6, <2>1, <2>2
<1>10. /\ Left(k) \ {Plan(e)} = PlansIn(event_queues[k], k)
       /\ PlansIn(ready_events, k) = {} /\ PlansIn(todo', k) = {}
       /\ \A h : h # k => PlansIn(todo', h) = PlansIn(todo, h)
  BY <1>0, <1>1, FirstLeft
<1>11. Left(k)' = Left(k) \ {Plan(e)}
  BY <1>1, <1>8, <1>9, <1>10 DEF Left, q
<1>12. GateInv(k)'
  BY <1>0, <1>1, <1>11, EventDone
<1>13. \A h \in Gates : h # k => Left(h)' = Left(h)
  BY <1>1, <1>8, <1>10 DEF Left
<1>14. \A h \in Gates : h # k => NodesOf(h)' = NodesOf(h) /\ LinksOf(h)' = LinksOf(h)
  BY <1>0, <1>1, <1>2, DoEvent
<1>15. QED
  BY <1>1, <1>12, <1>13, <1>14, OnlyGate

\* The last event of a gate releases all the gate still held.
LEMMA CompleteGateMesh ==
  ASSUME IInv, MeshInv, CompleteGate
  PROVE  MeshInv'
<1>0. PICK k \in Gates : todo # <<>> /\ k = Head(todo).gate
  BY HeadOfTodo DEF CompleteGate
<1> DEFINE e == Head(todo)
<1>1. /\ todo # <<>> /\ todo' = Tail(todo)
      /\ event_queues[k] = <<>> /\ ~Conflict(e) /\ do_event(e)
      /\ UNCHANGED <<module_gates, ready_events, event_queues>>
  BY <1>0 DEF CompleteGate
<1>2. e \in EventType
  BY <1>1, HeadOfTodo
<1>3. /\ Left(k) \ {Plan(e)} = PlansIn(event_queues[k], k)
      /\ PlansIn(ready_events, k) = {} /\ PlansIn(todo', k) = {}
      /\ \A h : h # k => PlansIn(todo', h) = PlansIn(todo, h)
  BY <1>0, <1>1, FirstLeft
<1>4. Left(k)' = Left(k) \ {Plan(e)}
  BY <1>1, <1>3 DEF Left
<1>5. GateInv(k)'
  BY <1>0, <1>1, <1>4, EventDone
<1>6. \A h \in Gates : h # k => Left(h)' = Left(h)
  BY <1>1, <1>3 DEF Left
<1>7. \A h \in Gates : h # k => NodesOf(h)' = NodesOf(h) /\ LinksOf(h)' = LinksOf(h)
  BY <1>0, <1>1, <1>2, DoEvent
<1>8. QED
  BY <1>1, <1>5, <1>6, <1>7, OnlyGate

\* An event that conflicts leaves the mesh as it is.
LEMMA RetryMesh ==
  ASSUME IInv, MeshInv, Retry
  PROVE  MeshInv'
<1> DEFINE e == Head(todo)
           k == e.gate
           d == Retried(e)
<1>1. /\ todo # <<>> /\ todo' = Tail(todo)
      /\ ready_events' = Append(ready_events, d)
      /\ UNCHANGED <<module_gates, mesh, event_queues>>
  BY DEF Retry
<1>2. /\ e \in EventType /\ d \in EventType /\ d.gate = k
  BY <1>1, HeadOfTodo, RetriedIsTyped
<1>3. Plan(d) = Plan(e)
  BY <1>2 DEF Retried, EventType, Plan
<1>4. /\ First(Left(k), Plan(e))
      /\ Left(k) \ {Plan(e)} = PlansIn(event_queues[k], k)
  BY <1>1, FirstLeft
<1> HIDE DEF d, k
<1>5. /\ \A h : h # k =>
           PlansIn(ready_events', h) \union PlansIn(todo', h)
             = PlansIn(ready_events, h) \union PlansIn(todo, h)
      /\ PlansIn(ready_events', k) \union PlansIn(todo', k) = {Plan(d)}
  <2>1. k = Head(todo).gate
    BY DEF k
  <2>2. QED
    BY <1>1, <1>2, <2>1, RetriedPlans
<1>6. \A h \in Gates : Left(h)' = Left(h)
  BY <1>1, <1>3, <1>4, <1>5 DEF Left, First
<1>7. QED
  BY <1>1, <1>6, SameLeft

\* purge_gate_from_mesh frees all the gate held.
LEMMA DropGateMesh ==
  ASSUME IInv, MeshInv, DropGate
  PROVE  MeshInv'
<1>0. PICK k \in Gates : todo # <<>> /\ k = Head(todo).gate
  BY HeadOfTodo DEF DropGate
<1>1. Retried(Head(todo)).gate = k /\ k \in Gates
  BY <1>0, HeadOfTodo, RetriedIsTyped
<1>2. /\ todo # <<>> /\ todo' = Tail(todo)
      /\ purge_gate_from_mesh(k)
      /\ event_queues' = [event_queues EXCEPT ![k] = <<>>]
      /\ UNCHANGED <<module_gates, ready_events>>
  BY <1>1 DEF DropGate, erase
<1>3. /\ PlansIn(ready_events, k) = {} /\ PlansIn(todo', k) = {}
      /\ \A h : h # k => PlansIn(todo', h) = PlansIn(todo, h)
  BY <1>0, <1>2, FirstLeft
<1>4. /\ event_queues'[k] = <<>>
      /\ \A h \in Gates : h # k => event_queues'[h] = event_queues[h]
  BY <1>1, <1>2 DEF IInv, TypeOK
<1>5. Left(k)' = {}
  BY <1>2, <1>3, <1>4, EmptyPlans DEF Left
<1>6. \A h \in Gates : h # k => Left(h)' = Left(h)
  BY <1>2, <1>3, <1>4 DEF Left
<1>7. Free \notin Gates
  BY GatesAreNumbers DEF IInv, Free
<1>8. /\ NodesOf(k)' = {} /\ LinksOf(k)' = {}
      /\ \A h \in Gates : h # k => NodesOf(h)' = NodesOf(h) /\ LinksOf(h)' = LinksOf(h)
  BY <1>1, <1>2, <1>7 DEF purge_gate_from_mesh, NodesOf, LinksOf
<1>9. GateInv(k)'
  BY <1>5, <1>8, NothingFits DEF GateInv
<1>10. QED
  BY <1>2, <1>6, <1>8, <1>9, OnlyGate

-----------------------------------------------------------------------------
(* The reroute *)

\* A sequence is its front and its last element.
LEMMA LastAndFront ==
  ASSUME NEW S, NEW s \in Seq(S), s # <<>>
  PROVE  /\ Range(s) = Range(Front(s)) \union {Last(s)}
         /\ Front(s) \in Seq(S) /\ Last(s) \in S
<1>1. /\ Len(s) \in Nat \ {0} /\ DOMAIN s = 1 .. Len(s)
      /\ Front(s) \in Seq(S) /\ Last(s) \in S
  BY EmptySeq, LenProperties, LastFrontType
<1>2. \A i \in 1 .. Len(s) - 1 : s[i] \in S
  BY <1>1, ElementOfSeq
<1>3. /\ Front(s) = SubSeq(s, 1, Len(s) - 1)
      /\ Len(Front(s)) = Len(s) - 1
      /\ \A i \in 1 .. Len(s) - 1 : Front(s)[i] = s[i]
  BY <1>1, <1>2, SubSeqProperties DEF Front
<1>4. DOMAIN Front(s) = 1 .. Len(s) - 1
  BY <1>1, <1>3, LenProperties
<1>5. \A i \in 1 .. Len(s) : i \in 1 .. Len(s) - 1 \/ i = Len(s)
  <2>1. Len(s) \in Nat
    BY <1>1
  <2>2. QED
    BY <2>1
<1>6. \A i \in 1 .. Len(s) - 1 : i \in 1 .. Len(s)
  BY <1>1
<1>7. Len(s) \in 1 .. Len(s) /\ Last(s) = s[Len(s)]
  BY <1>1 DEF Last
<1>8. Range(s) = Range(Front(s)) \union {Last(s)}
  BY <1>1, <1>3, <1>4, <1>5, <1>6, <1>7 DEF Range
<1>9. QED
  BY <1>1, <1>8

\* The elements of a sequence after one is appended.
LEMMA AppendedRange ==
  ASSUME NEW S, NEW s \in Seq(S), NEW x \in S
  PROVE  /\ Range(Append(s, x)) = Range(s) \union {x}
         /\ Last(Append(s, x)) = x
<1>1. /\ Len(s) \in Nat /\ DOMAIN s = 1 .. Len(s)
      /\ Append(s, x) \in Seq(S)
      /\ Len(Append(s, x)) = Len(s) + 1
      /\ DOMAIN Append(s, x) = 1 .. Len(s) + 1
      /\ \A i \in 1 .. Len(s) : Append(s, x)[i] = s[i]
      /\ Append(s, x)[Len(s) + 1] = x
  BY AppendProperties, LenProperties
<1>2. \A i \in 1 .. Len(s) + 1 : i \in 1 .. Len(s) \/ i = Len(s) + 1
  BY <1>1
<1>3. \A i \in 1 .. Len(s) : i \in 1 .. Len(s) + 1
  BY <1>1
<1>4. Len(s) + 1 \in 1 .. Len(s) + 1
  BY <1>1
<1>5. Range(Append(s, x)) = Range(s) \union {x}
  BY <1>1, <1>2, <1>3, <1>4 DEF Range
<1>6. QED
  BY <1>1, <1>5 DEF Last

\* Another braid for an event and for the event that closes it.
Swaps(p, c, p2, c2, m, a) ==
  /\ p2.type = p.type /\ p2.open = p.open
  /\ c2.type = c.type /\ c2.open = c.open
  /\ Range(p2.braid.links) \subseteq Links
  /\ Range(c2.braid.links) \subseteq Range(p2.braid.links)
  /\ \/ /\ p.type = "cnot3" /\ c.type = "cnot4"
        /\ Range(p2.braid.nodes) \subseteq Range(c2.braid.nodes) \union {m}
        /\ Range(p2.braid.links) \subseteq Range(c2.braid.links)
     \/ /\ p.type = "cnot5" /\ c.type = "cnot6"
        /\ Range(p2.braid.nodes) \subseteq Range(c2.braid.nodes)
        /\ Range(p2.braid.links) = Range(c2.braid.links) \union {a}
        /\ a \notin Range(c2.braid.links)
        /\ m \in Range(c2.braid.nodes) /\ Last(c2.braid.nodes) = m

\* Replacing the plans of an opening and of the event that closes it keeps the
\* plans of the gate together ...
LEMMA SwapFits ==
  ASSUME NEW rest, NEW p, NEW c, NEW p2, NEW c2, NEW m, NEW a,
         Fits({p, c} \union rest, m, a), Swaps(p, c, p2, c2, m, a),
         \A r \in rest : Rank[c.type] < Rank[r.type]
  PROVE  Fits({p2, c2} \union rest, m, a)
<1> DEFINE L  == {p, c} \union rest
           L2 == {p2, c2} \union rest
<1>1. \A r \in L : r.type \in EventTypes /\ (r.open <=> r.type \in Opens)
  BY DEF Fits, Shaped
<1>2. /\ p2.type = p.type /\ p2.open = p.open
      /\ c2.type = c.type /\ c2.open = c.open
      /\ \/ p.type = "cnot3" /\ c.type = "cnot4"
         \/ p.type = "cnot5" /\ c.type = "cnot6"
      /\ p.open /\ ~c.open
      /\ Opener(c.type) = p.type
  BY <1>1 DEF Swaps, Opens, Opener
<1>3. /\ \A r \in L : \E r2 \in L2 : r2.type = r.type /\ r2.open = r.open
      /\ \A r2 \in L2 : \E r \in L : r2.type = r.type /\ r2.open = r.open
  BY <1>2
<1>4. \A type : Comes(L, type) <=> Comes(L2, type)
  BY <1>3 DEF Comes
<1>5. \A r \in rest : r.type # p.type /\ r.type # c.type /\ r.type # "cnot4"
  BY <1>1, <1>2 DEF Rank
<1>6. Shaped(L2, m, a)
  BY <1>1, <1>2 DEF Fits, Shaped, Swaps
<1>7. Comes(rest, "cnot7") \/ p.type = "cnot3"
  <2>1. p.type = "cnot5" => Comes(L, "cnot7")
    BY DEF Fits, Matched, Comes
  <2>2. QED
    BY <1>2, <2>1 DEF Comes
<1>8. \A o \in rest : o.open => Opener(c.type) # o.type
  BY <1>2, <1>5
<1>9. Covered(L2, m)
  <2>1. ASSUME NEW n \in Range(p2.braid.nodes)
        PROVE  \/ p2.type = "cnot3" /\ n = m
               \/ \E d \in L2 : Opener(d.type) = p2.type /\ n \in Range(d.braid.nodes)
    BY <1>2 DEF Swaps
  <2>2. ASSUME NEW l \in Range(p2.braid.links)
        PROVE  \E d \in L2 : Opener(d.type) = p2.type /\ l \in Range(d.braid.links)
    <3>1. CASE l \in Range(c2.braid.links)
      BY <1>2, <3>1
    <3>2. CASE l \notin Range(c2.braid.links)
      <4>1. p.type = "cnot5" /\ l = a
        BY <2>2, <3>2 DEF Swaps
      <4>2. PICK d \in rest : d.type = "cnot7"
        BY <1>7, <4>1 DEF Comes
      <4>3. l \in Range(d.braid.links)
        BY <4>1, <4>2 DEF Fits, Shaped
      <4>4. Opener(d.type) = p2.type
        BY <1>2, <4>1, <4>2 DEF Opener
      <4>5. QED
        BY <4>2, <4>3, <4>4
    <3>3. QED
      BY <3>1, <3>2
  <2>3. ASSUME NEW o \in rest, o.open
        PROVE  /\ \A n \in Range(o.braid.nodes) :
                    \/ o.type = "cnot3" /\ n = m
                    \/ \E d \in L2 : Opener(d.type) = o.type /\ n \in Range(d.braid.nodes)
               /\ \A l \in Range(o.braid.links) :
                    \E d \in L2 : Opener(d.type) = o.type /\ l \in Range(d.braid.links)
    <3>1. \A d \in L : Opener(d.type) = o.type => d \in rest
      <4>1. Opener(c.type) # o.type
        BY <1>8, <2>3
      <4>2. Opener(p.type) # o.type
        BY <1>1, <1>2, OpenersHaveNone
      <4>3. QED
        BY <4>1, <4>2
    <3>2. QED
      BY <2>3, <3>1 DEF Fits, Covered
  <2>4. QED
    BY <1>2, <2>1, <2>2, <2>3 DEF Covered
<1>10. Matched(L2)
  <2>1. ASSUME NEW o \in L2, NEW d \in L2, Opener(d.type) = o.type
        PROVE  Range(d.braid.links) \subseteq Range(o.braid.links)
    <3>1. d.type \in EventTypes \ Opens /\ o.type \in Opens /\ d # p2 /\ o # c2
      <4>1. d.type \in EventTypes /\ o.type \in EventTypes
        BY <1>6 DEF Shaped
      <4>2. d.type \notin Opens
        BY <2>1, <4>1, OpenersHaveNone
      <4>3. o.type \in Opens
        BY <2>1, <4>1, <4>2, RankOfOpener
      <4>4. QED
        BY <1>1, <1>2, <4>1, <4>2, <4>3
    <3>2. CASE o = p2 /\ d = c2
      BY <3>2 DEF Swaps
    <3>3. CASE o = p2 /\ d \in rest
      <4>1. p.type = "cnot5" /\ d.type = "cnot7"
        BY <1>2, <1>5, <2>1, <3>1, <3>3 DEF Opener, EventTypes, CnotEvents, HEvents
      <4>2. Range(d.braid.links) = {a}
        BY <3>3, <4>1 DEF Fits, Shaped
      <4>3. QED
        BY <3>3, <4>1, <4>2 DEF Swaps
    <3>4. CASE o \in rest /\ d = c2
      BY <1>2, <1>5, <2>1, <3>4
    <3>5. CASE o \in rest /\ d \in rest
      BY <2>1, <3>5 DEF Fits, Matched
    <3>6. QED
      BY <3>1, <3>2, <3>3, <3>4, <3>5
  <2>2. ASSUME NEW c1 \in L2, NEW d1 \in L2, ~c1.open, ~d1.open,
               Rank[d1.type] < Rank[c1.type], Opener(c1.type) # Opener(d1.type)
        PROVE  Comes(L2, Opener(c1.type))
    <3>1. PICK c0 \in L : c0.type = c1.type /\ c0.open = c1.open
      BY <1>3
    <3>2. PICK d0 \in L : d0.type = d1.type /\ d0.open = d1.open
      BY <1>3
    <3>3. Comes(L, Opener(c0.type))
      BY <2>2, <3>1, <3>2 DEF Fits, Matched
    <3>4. QED
      BY <1>4, <3>1, <3>3
  <2>3. /\ Comes(L2, "cnot3") => Comes(L2, "cnot6")
        /\ Comes(L2, "cnot5") => Comes(L2, "cnot7")
    BY <1>4 DEF Fits, Matched
  <2>4. QED
    BY <2>1, <2>2, <2>3 DEF Matched
<1>11. QED
  BY <1>6, <1>9, <1>10 DEF Fits

\* ... and, while the braid is not open, what they say of the mesh.
LEMMA SwapEngages ==
  ASSUME NEW rest, NEW p, NEW c, NEW p2, NEW c2, NEW m, NEW a, NEW nodes, NEW links,
         Fits({p, c} \union rest, m, a), Swaps(p, c, p2, c2, m, a),
         Engages({p, c} \union rest, m, nodes, links)
  PROVE  Engages({p2, c2} \union rest, m, nodes, links)
<1> DEFINE L  == {p, c} \union rest
           L2 == {p2, c2} \union rest
<1>1. \A r \in L : r.type \in EventTypes /\ (r.open <=> r.type \in Opens)
  BY DEF Fits, Shaped
<1>2. /\ p2.type = p.type /\ p2.open = p.open
      /\ c2.type = c.type /\ c2.open = c.open
      /\ p.open /\ Opener(c.type) = p.type
  BY <1>1 DEF Swaps, Opens, Opener
<1>3. \A type : Comes(L, type) <=> Comes(L2, type)
  BY <1>2 DEF Comes
<1>4. Comes(L, p.type)
  BY DEF Comes
<1>5. \A r \in L : Opened(L, r) => r \in rest /\ Opened(L2, r)
  BY <1>2, <1>3, <1>4 DEF Opened
<1>6. \A r \in L2 : Opened(L2, r) => r \in rest /\ Opened(L, r)
  BY <1>2, <1>3, <1>4 DEF Opened
<1>7. Bounded(L2, m, nodes, links)
  BY <1>3, <1>5 DEF Engages, Bounded
<1>8. Held(L2, links)
  BY <1>6 DEF Engages, Held
<1>9. QED
  BY <1>7, <1>8 DEF Engages

\* The operands of a CNOT of the module.
LEMMA Operands ==
  ASSUME TypeOK, NEW g \in Gates, module_gates[g].op = "CNOT"
  PROVE  LET qid == module_gates[g].qid
         IN  qid[1] \in Qubits /\ qid[2] \in Qubits /\ qid[1] # qid[2]
<1> DEFINE qid == module_gates[g].qid
<1>1. qid \in Seq(Qubits) /\ Len(qid) = 2 /\ qid[1] # qid[2]
  BY GatesAreGates DEF IsGate
<1>2. QED
  BY <1>1, ElementOfSeq

\* Tiles are numbered.
LEMMA QubitsAreInts == \A q \in Qubits : q \in Int
BY MeshAssumption DEF Qubits

\* Where cnot3 or cnot5 has lapsed, the event that closes its braid is next.
LEMMA CloserNext ==
  ASSUME NEW type \in {"cnot3", "cnot5"}, NEW q, NEW g, NEW gate,
         NEW S, q \in Seq(S), QueueOf(q, g, gate), IsNext(type, q, gate)
  PROVE  \/ type = "cnot3" /\ q[1].type = "cnot4"
         \/ type = "cnot5" /\ q[1].type = "cnot6"
<1>1. q # <<>> /\ q[1].type \in {"cnot4", "cnot6"}
  BY ReroutableNext
<1>2. Len(q) \in Nat /\ 1 \in DOMAIN q
  BY <1>1, EmptySeq, LenProperties
<1>3. /\ Rank[q[1].type] = Len(Script(gate)) - Len(q) + 1
      /\ Rank[type] = Len(Script(gate)) - Len(q)
  BY <1>2, QueueRanks
<1>4. Len(Script(gate)) \in Nat
  BY DEF Script
<1>5. Rank[q[1].type] = Rank[type] + 1
  BY <1>2, <1>3, <1>4
<1>6. QED
  BY <1>1, <1>5 DEF Rank

\* The YX braids of resolve_cnot() for the lapsed event and the next one.
LEMMA ResolveSwaps ==
  ASSUME TypeOK, NEW e \in EventType, NEW h \in EventType, NEW k \in Gates, e.gate = k,
         module_gates[k].op = "CNOT",
         ~are_adjacent(module_gates[k].qid[1], module_gates[k].qid[2]),
         \/ e.type = "cnot3" /\ h.type = "cnot4"
         \/ e.type = "cnot5" /\ h.type = "cnot6",
         NEW hold \in Int, h.type = "cnot6" => hold = meeting_node(k),
         NEW new, new = resolve_cnot(e, hold)
  PROVE  /\ new.open \in BraidType /\ new.close \in BraidType
         /\ Swaps(Plan(e), Plan(h), Plan([e EXCEPT !.braid = new.open]),
                  Plan([h EXCEPT !.braid = new.close]),
                  meeting_node(k), ancilla_link(k))
<1> DEFINE qid  == module_gates[k].qid
           anc1 == cnot_ancillas(qid[1], qid[2]).anc1
           xy   == cnot_routes(qid[1], qid[2], anc1, FALSE)
           r    == cnot_routes(qid[1], qid[2], anc1, TRUE)
           r1   == r.route_1
           r2   == r.route_2
           p2   == Plan([e EXCEPT !.braid = new.open])
           c2   == Plan([h EXCEPT !.braid = new.close])
           m    == meeting_node(k)
           a    == ancilla_link(k)
<1>1. qid[1] \in Qubits /\ qid[2] \in Qubits /\ qid[1] # qid[2]
  BY Operands
<1>2. anc1 \in Int
  BY <1>1, QubitsAreInts, AncillaType
<1>3. r1 \in FullBraidType /\ r2 \in FullBraidType
  BY <1>1, <1>2, QubitsAreInts, RoutesType
<1>4. m = Last(r1.nodes) /\ a = Last(r2.links)
  <2>1. m = Last(xy.route_1.nodes) /\ a = Last(xy.route_2.links)
    BY DEF meeting_node, ancilla_link, XY_routes
  <2>2. qid[1] \in Int /\ qid[2] \in Int /\ TRUE \in BOOLEAN
    BY <1>1, QubitsAreInts
  <2> HIDE DEF qid, anc1
  <2>3. QED
    BY <1>2, <2>1, <2>2, SameEnds
<1>5. /\ Range(r1.links) \subseteq Links /\ Range(r2.links) \subseteq Links
      /\ a \notin Range(Front(r2.links))
  BY <1>1, <1>4, RouteFacts
<1>6. new = IF e.type = "cnot3"
            THEN [open  |-> r1,
                  close |-> Braid(Append(Front(r1.nodes), anc1), r1.links)]
            ELSE [open  |-> Braid(Front(r2.nodes), r2.links),
                  close |-> Braid(Append(Front(r2.nodes), hold), Front(r2.links))]
  BY DEF resolve_cnot
<1> HIDE DEF qid, anc1, r, r1, r2, m, a
<1>7. /\ r1.nodes \in Seq(Int) /\ r1.nodes # <<>>
      /\ r2.nodes \in Seq(Int) /\ r2.nodes # <<>>
      /\ r1.links \in Seq(SUBSET Int)
      /\ r2.links \in Seq(SUBSET Int) /\ r2.links # <<>>
  BY <1>3 DEF FullBraidType, BraidType
<1>8. /\ Front(r1.nodes) \in Seq(Int) /\ Front(r2.nodes) \in Seq(Int)
      /\ Front(r2.links) \in Seq(SUBSET Int)
      /\ Range(r1.nodes) = Range(Front(r1.nodes)) \union {m}
      /\ Range(r2.links) = Range(Front(r2.links)) \union {a}
  BY <1>4, <1>7, LastAndFront
<1>9. /\ Append(Front(r1.nodes), anc1) \in Seq(Int)
      /\ Append(Front(r2.nodes), hold) \in Seq(Int)
      /\ Range(Append(Front(r1.nodes), anc1)) = Range(Front(r1.nodes)) \union {anc1}
      /\ Range(Append(Front(r2.nodes), hold)) = Range(Front(r2.nodes)) \union {hold}
      /\ Last(Append(Front(r2.nodes), hold)) = hold
  <2> DEFINE f1 == Front(r1.nodes)
             f2 == Front(r2.nodes)
  <2>1. f1 \in Seq(Int) /\ f2 \in Seq(Int) /\ anc1 \in Int /\ hold \in Int
    BY <1>2, <1>8
  <2> HIDE DEF f1, f2
  <2>2. Append(f1, anc1) \in Seq(Int) /\ Append(f2, hold) \in Seq(Int)
    BY <2>1, AppendProperties
  <2>3. Range(Append(f1, anc1)) = Range(f1) \union {anc1}
    BY <2>1, AppendedRange
  <2>4. /\ Range(Append(f2, hold)) = Range(f2) \union {hold}
        /\ Last(Append(f2, hold)) = hold
    BY <2>1, AppendedRange
  <2>5. QED
    BY <2>2, <2>3, <2>4 DEF f1, f2
<1>10. new.open \in BraidType /\ new.close \in BraidType
  <2>1. CASE e.type = "cnot3"
    <3>1. /\ new.open = r1
          /\ new.close = Braid(Append(Front(r1.nodes), anc1), r1.links)
      BY <1>6, <2>1
    <3>2. QED
      BY <1>3, <1>7, <1>9, <3>1 DEF Braid, BraidType, FullBraidType
  <2>2. CASE e.type = "cnot5"
    <3>1. /\ new.open = Braid(Front(r2.nodes), r2.links)
          /\ new.close = Braid(Append(Front(r2.nodes), hold), Front(r2.links))
      BY <1>6, <2>2
    <3>2. QED
      BY <1>7, <1>8, <1>9, <3>1 DEF Braid, BraidType
  <2>3. QED
    BY <2>1, <2>2
<1>11. /\ p2.type = e.type /\ p2.open = e.open /\ p2.braid = new.open
       /\ c2.type = h.type /\ c2.open = h.open /\ c2.braid = new.close
       /\ Plan(e).type = e.type /\ Plan(e).open = e.open
       /\ Plan(h).type = h.type /\ Plan(h).open = h.open
  BY DEF Plan, EventType
<1> HIDE DEF p2, c2
<1>12. CASE e.type = "cnot3"
  <2>1. /\ new.open = r1 /\ new.close.links = r1.links
        /\ new.close.nodes = Append(Front(r1.nodes), anc1)
    BY <1>6, <1>12 DEF Braid
  <2>2. Swaps(Plan(e), Plan(h), p2, c2, m, a)
    BY <1>5, <1>8, <1>9, <1>11, <1>12, <2>1 DEF Swaps
  <2>3. QED
    BY <1>10, <2>2 DEF p2, c2, m, a
<1>13. CASE e.type = "cnot5"
  <2>1. /\ new.open.nodes = Front(r2.nodes) /\ new.open.links = r2.links
        /\ new.close.nodes = Append(Front(r2.nodes), hold)
        /\ new.close.links = Front(r2.links)
    BY <1>6, <1>13 DEF Braid
  <2>2. hold = m
    BY <1>13 DEF m
  <2>3. Swaps(Plan(e), Plan(h), p2, c2, m, a)
    BY <1>5, <1>8, <1>9, <1>11, <1>13, <2>1, <2>2 DEF Swaps
  <2>4. QED
    BY <1>10, <2>3 DEF p2, c2, m, a
<1>14. QED
  BY <1>12, <1>13

\* resolve_cnot replaces the plan of the event at the iterator and of the one
\* that will close the same braid: neither has engaged anything yet.
LEMMA RerouteMesh ==
  ASSUME IInv, MeshInv, Reroute
  PROVE  MeshInv'
<1>0. PICK k \in Gates : todo # <<>> /\ k = Head(todo).gate
  BY HeadOfTodo DEF Reroute
<1> DEFINE e0  == Head(todo)
           e   == Retried(e0)
           q   == event_queues[k]
           m   == meeting_node(k)
           a   == ancilla_link(k)
           qid == module_gates[k].qid
           hold == Last(Head(q).braid.nodes)
           new == resolve_cnot(e, hold)
           adjacent == are_adjacent(qid[1], qid[2])
           d    == [e EXCEPT !.braid = new.open]
           head == [q[1] EXCEPT !.braid = new.close]
           rest == PlansIn(Tail(q), k)
<1>1. /\ todo' = Tail(todo)
      /\ e.gate = k /\ e \in EventType /\ e.type = e0.type /\ e0 \in EventType
      /\ e.type \in {"cnot3", "cnot5"}
      /\ IF adjacent
         THEN /\ ready_events' = Append(ready_events, e)
              /\ UNCHANGED event_queues
         ELSE /\ ready_events' = Append(ready_events, d)
              /\ event_queues' = [event_queues EXCEPT ![k][1].braid = new.close]
      /\ UNCHANGED <<module_gates, mesh>>
  BY <1>0, HeadOfTodo, RetriedIsTyped DEF Reroute, MustReroute
<1>2. /\ q \in Seq(EventType) /\ QueueOf(q, k, module_gates[k])
      /\ IsNext(e.type, q, module_gates[k])
      /\ event_queues \in [Gates -> Seq(EventType)]
  BY <1>0, <1>1, HeadOfTodo, ListTypes DEF IInv, InFlight, TypeOK
<1>3. Plan(e) = Plan(e0)
  BY <1>1 DEF Retried, EventType, Plan
<1>4. /\ First(Left(k), Plan(e0))
      /\ Left(k) \ {Plan(e0)} = PlansIn(q, k)
      /\ PlansIn(ready_events, k) = {} /\ PlansIn(todo', k) = {}
      /\ \A h : h # k => PlansIn(todo', h) = PlansIn(todo, h)
  BY <1>0, <1>1, FirstLeft
<1>5. CASE adjacent
  <2>1. /\ \A h : h # k =>
             PlansIn(ready_events', h) \union PlansIn(todo', h)
               = PlansIn(ready_events, h) \union PlansIn(todo, h)
        /\ PlansIn(ready_events', k) \union PlansIn(todo', k) = {Plan(e)}
    BY <1>0, <1>1, <1>5, RetriedPlans
  <2>2. Left(k)' = Left(k)
    BY <1>1, <1>3, <1>4, <1>5, <2>1 DEF Left, First
  <2>3. \A h \in Gates : h # k => Left(h)' = Left(h)
    BY <1>1, <1>5, <2>1 DEF Left
  <2>4. QED
    BY <1>1, <2>2, <2>3, SameLeft
<1>6. CASE ~adjacent
  <2>1. /\ module_gates[k].op = "CNOT" /\ q # <<>>
        /\ q[1].braid.nodes # <<>>
    BY <1>1, <1>2, ReroutableNext
  <2>2. /\ Head(q) = q[1] /\ q[1] \in EventType /\ 1 \in DOMAIN q
    BY <1>2, <2>1, HeadTailProperties, EmptySeq, LenProperties
  <2>3. q[1].gate = k
    BY <1>2, <2>2 DEF QueueOf
  <2> DEFINE p  == Plan(e0)
             c  == Plan(q[1])
             p2 == Plan(d)
             c2 == Plan(head)
  <2>4. Left(k) = {p, c} \union rest
    <3>1. PlansIn(q, k) = rest \union {c}
      BY <1>2, <2>1, <2>2, <2>3, HeadTailPlans
    <3>2. QED
      BY <1>4, <3>1 DEF First
  <2>5. \A r \in rest : Rank[c.type] < Rank[r.type]
    <3> DEFINE t == Tail(q)
    <3>1. /\ Len(q) \in Nat /\ Len(q) > 0 /\ DOMAIN q = 1 .. Len(q)
          /\ DOMAIN t = 1 .. Len(q) - 1
          /\ \A i \in 1 .. Len(q) - 1 : t[i] = q[i + 1]
      BY <1>2, <2>1, EmptySeq, HeadTailProperties, LenProperties
    <3> SUFFICES ASSUME NEW r \in PlansIn(t, k)
                 PROVE  Rank[c.type] < Rank[r.type]
      OBVIOUS
    <3> HIDE DEF q, t
    <3>0. PICK i \in DOMAIN t : r = Plan(t[i])
      BY InPlans
    <3>2. i + 1 \in DOMAIN q /\ 1 \in DOMAIN q /\ i \in Nat /\ i > 0
      BY <3>0, <3>1
    <3>3. /\ Rank[q[i + 1].type] = Len(Script(module_gates[k])) - Len(q) + (i + 1)
          /\ Rank[q[1].type] = Len(Script(module_gates[k])) - Len(q) + 1
      BY <1>2, <3>2, QueueRanks
    <3>4. Len(Script(module_gates[k])) \in Nat
      BY DEF Script
    <3>5. r.type = q[i + 1].type /\ c.type = q[1].type
      BY <3>0, <3>1 DEF Plan
    <3> HIDE DEF c
    <3>6. QED
      BY <3>1, <3>2, <3>3, <3>4, <3>5
  <2>6. \/ e0.type = "cnot3" /\ q[1].type = "cnot4"
        \/ e0.type = "cnot5" /\ q[1].type = "cnot6"
    BY <1>1, <1>2, CloserNext
  <2>7. /\ Fits(Left(k), m, a) /\ Engages(Left(k), m, NodesOf(k), LinksOf(k))
    BY <1>0 DEF MeshInv, GateInv
  <2>8. hold \in Int /\ (q[1].type = "cnot6" => hold = m)
    <3>1. Head(q).braid.nodes \in Seq(Int) /\ Head(q).braid.nodes # <<>>
      BY <2>1, <2>2 DEF EventType, BraidType
    <3>2. hold \in Int
      BY <3>1, LastAndFront
    <3>3. c \in Left(k) /\ c.type = q[1].type /\ Last(c.braid.nodes) = hold
      BY <2>2, <2>4 DEF Plan
    <3>4. q[1].type = "cnot6" => hold = m
      BY <2>7, <3>3 DEF Fits, Shaped
    <3>5. QED
      BY <3>2, <3>4
  <2>9. /\ new.open \in BraidType /\ new.close \in BraidType
        /\ Swaps(Plan(e), c, p2, c2, m, a)
    <3> HIDE DEF e, hold, new
    <3>1. new = resolve_cnot(e, hold)
      BY DEF new
    <3>2. /\ e.gate = k /\ e \in EventType /\ e.type = e0.type
      BY <1>1
    <3>3. QED
      BY <1>0, <1>6, <2>1, <2>2, <2>6, <2>8, <3>1, <3>2, ResolveSwaps DEF IInv
  <2> HIDE DEF new, hold, e
  <2>10. Left(k)' = {p2, c2} \union rest
    <3>1. /\ d \in EventType /\ d.gate = k
          /\ head \in EventType /\ head.gate = k
      BY <1>1, <2>2, <2>3, <2>9 DEF EventType
    <3>2. /\ ready_events' = Append(ready_events, d)
          /\ event_queues' = [event_queues EXCEPT ![k] = [q EXCEPT ![1] = head]]
      BY <1>1, <1>6
    <3> HIDE DEF d, head
    <3>3. PlansIn(ready_events', k) \union PlansIn(todo', k) = {p2}
      BY <1>0, <1>1, <3>1, <3>2, RetriedPlans
    <3>4. event_queues'[k] = [q EXCEPT ![1] = head]
      BY <1>0, <1>2, <3>2
    <3> HIDE DEF q
    <3>5. PlansIn([q EXCEPT ![1] = head], k) = PlansIn(Tail(q), k)
            \union (IF head.gate = k THEN {Plan(head)} ELSE {})
      BY <1>2, <2>1, <3>1, NewHeadPlans
    <3>6. PlansIn(event_queues'[k], k) = rest \union {c2}
      BY <3>1, <3>4, <3>5
    <3>7. QED
      BY <3>3, <3>6 DEF Left
  <2>11. \A h \in Gates : h # k => Left(h)' = Left(h)
    <3>1. d \in EventType /\ d.gate = k
      BY <1>1, <2>9 DEF EventType
    <3>2. \A h \in Gates : h # k => event_queues'[h] = event_queues[h]
      BY <1>1, <1>2, <1>6
    <3>3. ready_events' = Append(ready_events, d)
      BY <1>1, <1>6
    <3> HIDE DEF d
    <3>4. \A h : h # k =>
             PlansIn(ready_events', h) \union PlansIn(todo', h)
               = PlansIn(ready_events, h) \union PlansIn(todo, h)
      BY <1>0, <1>1, <3>1, <3>3, RetriedPlans
    <3>5. QED
      BY <3>2, <3>4 DEF Left
  <2>12. m' = m /\ a' = a /\ NodesOf(k)' = NodesOf(k) /\ LinksOf(k)' = LinksOf(k)
    BY <1>1 DEF meeting_node, ancilla_link, XY_routes, NodesOf, LinksOf, mesh
  <2>13. p = Plan(e)
    BY <1>3
  <2> HIDE DEF p, c, p2, c2, rest, m, a
  <2>14. Fits({p2, c2} \union rest, m, a)
    <3>1. Fits({p, c} \union rest, m, a) /\ Swaps(p, c, p2, c2, m, a)
      BY <2>4, <2>7, <2>9, <2>13
    <3>2. QED
      BY <2>5, <3>1, SwapFits
  <2>15. Engages({p2, c2} \union rest, m, NodesOf(k), LinksOf(k))
    <3>1. Fits({p, c} \union rest, m, a) /\ Swaps(p, c, p2, c2, m, a)
      BY <2>4, <2>7, <2>9, <2>13
    <3>2. Engages({p, c} \union rest, m, NodesOf(k), LinksOf(k))
      BY <2>4, <2>7
    <3>3. QED
      BY <3>1, <3>2, SwapEngages
  <2>16. GateInv(k)'
    BY <2>10, <2>12, <2>14, <2>15 DEF GateInv, m, a
  <2>17. \A h \in Gates : NodesOf(h)' = NodesOf(h) /\ LinksOf(h)' = LinksOf(h)
    BY <1>1 DEF NodesOf, LinksOf, mesh
  <2>18. QED
    BY <1>1, <2>11, <2>16, <2>17, OnlyGate
<1>7. QED
  BY <1>5, <1>6

-----------------------------------------------------------------------------
(* Fresh queues *)

\* A braid's plan for an event of this type.
PlanOf(type, open, braid) == [type |-> type, open |-> open, braid |-> braid]

\* Seven events whose braids are related as those of events_cnot().
LEMMA SevenFit ==
  ASSUME NEW b1, NEW b3, NEW b5, NEW b6, NEW b7, NEW m, NEW a,
         Range(b1.links) \subseteq Links,
         Range(b3.links) \subseteq Links,
         Range(b5.links) \subseteq Links,
         Range(b6.nodes) = Range(b5.nodes),
         Range(b5.links) = Range(b6.links) \union {a},
         a \notin Range(b6.links),
         Range(b7.links) = {a},
         m \in Range(b6.nodes), Last(b6.nodes) = m,
         NEW L,
         L = {PlanOf("cnot1", TRUE, b1), PlanOf("cnot2", FALSE, b1),
              PlanOf("cnot3", TRUE, b3), PlanOf("cnot4", FALSE, b3),
              PlanOf("cnot5", TRUE, b5), PlanOf("cnot6", FALSE, b6),
              PlanOf("cnot7", FALSE, b7)}
  PROVE  Fits(L, m, a) /\ Engages(L, m, {}, {})
<1> DEFINE p1 == PlanOf("cnot1", TRUE, b1)
           p2 == PlanOf("cnot2", FALSE, b1)
           p3 == PlanOf("cnot3", TRUE, b3)
           p4 == PlanOf("cnot4", FALSE, b3)
           p5 == PlanOf("cnot5", TRUE, b5)
           p6 == PlanOf("cnot6", FALSE, b6)
           p7 == PlanOf("cnot7", FALSE, b7)
<1>1. L = {p1, p2, p3, p4, p5, p6, p7}
  OBVIOUS
<1>2. /\ p1.type = "cnot1" /\ p1.open = TRUE  /\ p1.braid = b1
      /\ p2.type = "cnot2" /\ p2.open = FALSE /\ p2.braid = b1
      /\ p3.type = "cnot3" /\ p3.open = TRUE  /\ p3.braid = b3
      /\ p4.type = "cnot4" /\ p4.open = FALSE /\ p4.braid = b3
      /\ p5.type = "cnot5" /\ p5.open = TRUE  /\ p5.braid = b5
      /\ p6.type = "cnot6" /\ p6.open = FALSE /\ p6.braid = b6
      /\ p7.type = "cnot7" /\ p7.open = FALSE /\ p7.braid = b7
  BY DEF PlanOf
<1> HIDE DEF p1, p2, p3, p4, p5, p6, p7
<1>3. Shaped(L, m, a)
  <2>1. \A p \in L : p.type \in EventTypes /\ (p.open <=> p.type \in Opens)
    BY <1>1, <1>2 DEF EventTypes, CnotEvents, HEvents, Opens
  <2>2. \A p \in L : Range(p.braid.links) \subseteq Links
    BY <1>1, <1>2
  <2>3. \A p \in L : p.type = "cnot6" => p = p6
    BY <1>1, <1>2
  <2>4. \A p \in L : p.type = "cnot7" => p = p7
    BY <1>1, <1>2
  <2>5. QED
    BY <1>2, <2>1, <2>2, <2>3, <2>4 DEF Shaped
<1>4. /\ Opener(p2.type) = p1.type /\ Opener(p4.type) = p3.type
      /\ Opener(p6.type) = p5.type /\ Opener(p7.type) = p5.type
      /\ Opener(p1.type) = "none" /\ Opener(p3.type) = "none" /\ Opener(p5.type) = "none"
  BY <1>2 DEF Opener
<1>5. Covered(L, m)
  <2>1. \A o \in L : o.open => o \in {p1, p3, p5}
    BY <1>1, <1>2
  <2>2. \A n \in Range(b1.nodes) : p2 \in L /\ n \in Range(p2.braid.nodes)
    BY <1>1, <1>2
  <2>3. \A n \in Range(b3.nodes) : p4 \in L /\ n \in Range(p4.braid.nodes)
    BY <1>1, <1>2
  <2>4. \A n \in Range(b5.nodes) : p6 \in L /\ n \in Range(p6.braid.nodes)
    BY <1>1, <1>2
  <2>5. \A l \in Range(b1.links) : p2 \in L /\ l \in Range(p2.braid.links)
    BY <1>1, <1>2
  <2>6. \A l \in Range(b3.links) : p4 \in L /\ l \in Range(p4.braid.links)
    BY <1>1, <1>2
  <2>7. \A l \in Range(b5.links) : \/ p6 \in L /\ l \in Range(p6.braid.links)
                                   \/ p7 \in L /\ l \in Range(p7.braid.links)
    BY <1>1, <1>2
  <2>8. ASSUME NEW o \in L, o.open
        PROVE  /\ \A n \in Range(o.braid.nodes) :
                    \/ o.type = "cnot3" /\ n = m
                    \/ \E c \in L : Opener(c.type) = o.type /\ n \in Range(c.braid.nodes)
               /\ \A l \in Range(o.braid.links) :
                    \E c \in L : Opener(c.type) = o.type /\ l \in Range(c.braid.links)
    <3>1. CASE o = p1
      BY <1>2, <1>4, <2>2, <2>5, <3>1
    <3>2. CASE o = p3
      BY <1>2, <1>4, <2>3, <2>6, <3>2
    <3>3. CASE o = p5
      BY <1>2, <1>4, <2>4, <2>7, <3>3
    <3>4. QED
      BY <2>1, <2>8, <3>1, <3>2, <3>3
  <2>9. QED
    BY <2>8 DEF Covered
<1>6. \A c \in L : ~c.open => Comes(L, Opener(c.type))
  BY <1>1, <1>2, <1>4 DEF Comes
<1>7. Matched(L)
  <2>1. ASSUME NEW o \in L, NEW c \in L, Opener(c.type) = o.type
        PROVE  Range(c.braid.links) \subseteq Range(o.braid.links)
    <3>1. c \in {p2, p4, p6, p7}
      BY <1>1, <1>2, <1>4, <2>1
    <3>2. CASE c = p2
      <4>1. o = p1
        BY <1>1, <1>2, <1>4, <2>1, <3>2
      <4>2. QED
        BY <1>2, <3>2, <4>1
    <3>3. CASE c = p4
      <4>1. o = p3
        BY <1>1, <1>2, <1>4, <2>1, <3>3
      <4>2. QED
        BY <1>2, <3>3, <4>1
    <3>4. CASE c = p6
      <4>1. o = p5
        BY <1>1, <1>2, <1>4, <2>1, <3>4
      <4>2. QED
        BY <1>2, <3>4, <4>1
    <3>5. CASE c = p7
      <4>1. o = p5
        BY <1>1, <1>2, <1>4, <2>1, <3>5
      <4>2. QED
        BY <1>2, <3>5, <4>1
    <3>6. QED
      BY <3>1, <3>2, <3>3, <3>4, <3>5
  <2>2. Comes(L, "cnot6") /\ Comes(L, "cnot7")
    BY <1>1, <1>2 DEF Comes
  <2>3. QED
    BY <1>6, <2>1, <2>2 DEF Matched
<1>8. Engages(L, m, {}, {})
  BY <1>6 DEF Engages, Bounded, Held, Opened
<1>9. QED
  BY <1>3, <1>5, <1>7, <1>8 DEF Fits

\* The events of a CNOT.
LEMMA CnotEventsFit ==
  ASSUME TypeOK, NEW g \in Gates, module_gates[g].op = "CNOT"
  PROVE  LET L == PlansIn(EventsOf(g), g)
         IN  /\ Fits(L, meeting_node(g), ancilla_link(g))
             /\ Engages(L, meeting_node(g), {}, {})
<1> DEFINE src     == module_gates[g].qid[1]
           dest    == module_gates[g].qid[2]
           anc     == cnot_ancillas(src, dest)
           routes  == cnot_routes(src, dest, anc.anc1, FALSE)
           r1      == routes.route_1
           r2      == routes.route_2
           n_last  == Last(r1.nodes)
           last    == Last(r2.links)
           nodes_2 == Append(r2.nodes, n_last)
           anc_edge == edge(anc.anc1, anc.anc2)
           b1 == Braid(<<anc.anc2, anc.anc1>>, <<anc_edge>>)
           b3 == Braid(Append(r1.nodes, anc.anc1), r1.links)
           b5 == Braid(nodes_2, r2.links)
           b6 == Braid(nodes_2, Front(r2.links))
           b7 == Braid(<<anc.anc2, anc.anc1>>, <<last>>)
           ev == << Event(b1, TRUE, g, "cnot1", 1),
                    Event(b1, FALSE, g, "cnot2", -1),
                    Event(b3, TRUE, g, "cnot3", -1),
                    Event(b3, FALSE, g, "cnot4", -1),
                    Event(b5, TRUE, g, "cnot5", -1),
                    Event(b6, FALSE, g, "cnot6", -1),
                    Event(b7, FALSE, g, "cnot7", -1) >>
           L  == PlansIn(ev, g)
<1>1. src \in Qubits /\ dest \in Qubits /\ src # dest
  BY Operands
<1>2. src \in Int /\ dest \in Int
  BY <1>1, QubitsAreInts
<1>3. EventsOf(g) = ev
  BY DEF EventsOf, events_cnot
<1>4. n_last = meeting_node(g) /\ last = ancilla_link(g)
  BY DEF meeting_node, ancilla_link, XY_routes
<1> HIDE DEF src, dest
<1>5. anc.anc1 \in Int /\ anc.anc2 \in Int
  BY <1>2, AncillaType
<1>6. r1 \in FullBraidType /\ r2 \in FullBraidType
  <2> HIDE DEF anc
  <2>1. FALSE \in BOOLEAN
    OBVIOUS
  <2>2. QED
    BY <1>2, <1>5, <2>1, RoutesType
<1>7. /\ Range(r1.links) \subseteq Links
      /\ Range(r2.links) \subseteq Links
      /\ last \notin Range(Front(r2.links))
      /\ anc_edge \in Links
  <2>1. FALSE \in BOOLEAN
    OBVIOUS
  <2>2. QED
    BY <1>1, <2>1, RouteFacts
<1> HIDE DEF routes, anc
<1>8. /\ r1.nodes \in Seq(Int) /\ r1.nodes # <<>>
      /\ r2.nodes \in Seq(Int)
      /\ r2.links \in Seq(SUBSET Int) /\ r2.links # <<>>
  BY <1>6 DEF FullBraidType, BraidType
<1> HIDE DEF r1, r2, anc_edge
<1>9. n_last \in Int /\ Range(r2.links) = Range(Front(r2.links)) \union {last}
  BY <1>8, LastAndFront
<1> HIDE DEF n_last
<1>10. /\ Range(nodes_2) = Range(r2.nodes) \union {n_last}
       /\ Last(nodes_2) = n_last
  BY <1>8, <1>9, AppendedRange
<1> HIDE DEF nodes_2, last
<1>11. Range(<<anc_edge>>) = {anc_edge} /\ Range(<<last>>) = {last}
  BY DEF Range
<1>12. /\ b1.links = <<anc_edge>> /\ b3.links = r1.links
       /\ b5.links = r2.links /\ b5.nodes = nodes_2
       /\ b6.links = Front(r2.links) /\ b6.nodes = nodes_2
       /\ b7.links = <<last>>
  BY DEF Braid
<1> HIDE DEF b1, b3, b5, b6, b7
<1>13. L = {PlanOf("cnot1", TRUE, b1), PlanOf("cnot2", FALSE, b1),
            PlanOf("cnot3", TRUE, b3), PlanOf("cnot4", FALSE, b3),
            PlanOf("cnot5", TRUE, b5), PlanOf("cnot6", FALSE, b6),
            PlanOf("cnot7", FALSE, b7)}
  <2> DEFINE e1 == Event(b1, TRUE, g, "cnot1", 1)
             e2 == Event(b1, FALSE, g, "cnot2", -1)
             e3 == Event(b3, TRUE, g, "cnot3", -1)
             e4 == Event(b3, FALSE, g, "cnot4", -1)
             e5 == Event(b5, TRUE, g, "cnot5", -1)
             e6 == Event(b6, FALSE, g, "cnot6", -1)
             e7 == Event(b7, FALSE, g, "cnot7", -1)
  <2>0. /\ e1.gate = g /\ Plan(e1) = PlanOf("cnot1", TRUE, b1)
        /\ e2.gate = g /\ Plan(e2) = PlanOf("cnot2", FALSE, b1)
        /\ e3.gate = g /\ Plan(e3) = PlanOf("cnot3", TRUE, b3)
        /\ e4.gate = g /\ Plan(e4) = PlanOf("cnot4", FALSE, b3)
        /\ e5.gate = g /\ Plan(e5) = PlanOf("cnot5", TRUE, b5)
        /\ e6.gate = g /\ Plan(e6) = PlanOf("cnot6", FALSE, b6)
        /\ e7.gate = g /\ Plan(e7) = PlanOf("cnot7", FALSE, b7)
    BY DEF Event, Plan, PlanOf
  <2>8. ev = <<e1, e2, e3, e4, e5, e6, e7>>
    OBVIOUS
  <2> HIDE DEF e1, e2, e3, e4, e5, e6, e7
  <2>1. /\ ev[1].gate = g /\ ev[2].gate = g /\ ev[3].gate = g /\ ev[4].gate = g
        /\ ev[5].gate = g /\ ev[6].gate = g /\ ev[7].gate = g
        /\ Plan(ev[1]) = PlanOf("cnot1", TRUE, b1)
        /\ Plan(ev[2]) = PlanOf("cnot2", FALSE, b1)
        /\ Plan(ev[3]) = PlanOf("cnot3", TRUE, b3)
        /\ Plan(ev[4]) = PlanOf("cnot4", FALSE, b3)
        /\ Plan(ev[5]) = PlanOf("cnot5", TRUE, b5)
        /\ Plan(ev[6]) = PlanOf("cnot6", FALSE, b6)
        /\ Plan(ev[7]) = PlanOf("cnot7", FALSE, b7)
    <3> HIDE DEF ev
    <3>1. QED
      BY <2>0, <2>8
  <2>2. DOMAIN ev = 1 .. 7
    OBVIOUS
  <2> HIDE DEF ev
  <2>3. \A p : p \in L <=> \E i \in 1 .. 7 : p = Plan(ev[i])
    <3>1. \A i \in 1 .. 7 : ev[i].gate = g
      BY <2>1
    <3>2. QED
      BY <2>2, <3>1, InPlans
  <2>4. L = {Plan(ev[1]), Plan(ev[2]), Plan(ev[3]), Plan(ev[4]), Plan(ev[5]),
             Plan(ev[6]), Plan(ev[7])}
    <3> HIDE DEF L
    <3>1. \A i \in 1 .. 7 : i \in {1, 2, 3, 4, 5, 6, 7}
      OBVIOUS
    <3>2. \A i \in {1, 2, 3, 4, 5, 6, 7} : i \in 1 .. 7
      OBVIOUS
    <3>3. QED
      BY <2>3, <3>1, <3>2
  <2>5. QED
    BY <2>1, <2>4
<1> HIDE DEF ev, L
<1>14. Fits(L, n_last, last) /\ Engages(L, n_last, {}, {})
  <2>1. /\ Range(b1.links) \subseteq Links
        /\ Range(b3.links) \subseteq Links
        /\ Range(b5.links) \subseteq Links
        /\ Range(b6.nodes) = Range(b5.nodes)
        /\ Range(b5.links) = Range(b6.links) \union {last}
        /\ last \notin Range(b6.links)
        /\ Range(b7.links) = {last}
        /\ n_last \in Range(b6.nodes) /\ Last(b6.nodes) = n_last
    BY <1>7, <1>9, <1>10, <1>11, <1>12
  <2>2. QED
    BY <1>13, <2>1, SevenFit
<1>15. QED
  BY <1>3, <1>4, <1>14 DEF L

\* The events of an H engage nothing.
LEMMA HEventsFit ==
  ASSUME NEW g \in Gates, module_gates[g].op # "CNOT", NEW m, NEW a
  PROVE  LET L == PlansIn(EventsOf(g), g)
         IN  Fits(L, m, a) /\ Engages(L, m, {}, {})
<1> DEFINE b  == Braid(<<>>, <<>>)
           ev == << Event(b, TRUE, g, "h1", 1), Event(b, FALSE, g, "h2", -1) >>
           L  == PlansIn(ev, g)
           p1 == PlanOf("h1", TRUE, b)
           p2 == PlanOf("h2", FALSE, b)
<1>1. EventsOf(g) = ev
  BY DEF EventsOf, events_h
<1>2. L = {p1, p2}
  <2>1. /\ ev[1].gate = g /\ ev[2].gate = g
        /\ Plan(ev[1]) = p1 /\ Plan(ev[2]) = p2
    BY DEF Event, Plan, PlanOf
  <2>2. DOMAIN ev = {1, 2}
    OBVIOUS
  <2> HIDE DEF ev, p1, p2
  <2>3. \A p : p \in L <=> p \in {p1, p2}
    BY <2>1, <2>2, InPlans
  <2>4. QED
    BY <2>3, Zenon
<1>3. Range(b.nodes) = {} /\ Range(b.links) = {}
  BY DEF Braid, Range
<1>4. /\ p1.type = "h1" /\ p1.open = TRUE /\ p1.braid = b
      /\ p2.type = "h2" /\ p2.open = FALSE /\ p2.braid = b
  BY DEF PlanOf
<1> HIDE DEF b, L, p1, p2
<1>5. Shaped(L, m, a)
  BY <1>2, <1>3, <1>4 DEF Shaped, EventTypes, CnotEvents, HEvents, Opens
<1>6. Covered(L, m)
  BY <1>2, <1>3, <1>4 DEF Covered
<1>7. \A c \in L : ~c.open => Comes(L, Opener(c.type))
  BY <1>2, <1>4 DEF Comes, Opener
<1>8. Matched(L)
  BY <1>2, <1>3, <1>4, <1>7 DEF Matched, Comes
<1>9. Engages(L, m, {}, {})
  BY <1>7 DEF Engages, Bounded, Held, Opened
<1>10. QED
  BY <1>1, <1>5, <1>6, <1>8, <1>9 DEF Fits, L

\* A gate gets its events with nothing engaged.
LEMMA QueueReadyGatesMesh ==
  ASSUME IInv, MeshInv, QueueReadyGates
  PROVE  MeshInv'
<1>1. /\ UNCHANGED <<module_gates, mesh, ready_events, todo>>
      /\ \A g \in Gates : event_queues'[g] = IF g \in ready_gates THEN EventsOf(g)
                                                                  ELSE event_queues[g]
  BY DEF QueueReadyGates
<1>2. Gates' = Gates
  BY <1>1 DEF Gates
<1>3. ASSUME NEW g \in Gates
      PROVE  GateInv(g)'
  <2>1. meeting_node(g)' = meeting_node(g) /\ ancilla_link(g)' = ancilla_link(g)
    BY <1>1 DEF meeting_node, ancilla_link, XY_routes
  <2>2. NodesOf(g)' = NodesOf(g) /\ LinksOf(g)' = LinksOf(g)
    BY <1>1 DEF NodesOf, LinksOf, mesh
  <2>3. GateInv(g)
    BY DEF MeshInv
  <2>4. CASE g \notin ready_gates
    <3>1. Left(g)' = Left(g)
      BY <1>1, <2>4 DEF Left
    <3>2. QED
      BY <2>1, <2>2, <2>3, <3>1 DEF GateInv
  <2>5. CASE g \in ready_gates
    <3>1. PlansIn(ready_events, g) = {} /\ PlansIn(todo, g) = {}
      BY <2>5, NoPlans DEF IInv, InFlight, Waits, InList
    <3>2. Left(g) = {}
      BY <2>5, <3>1, EmptyPlans DEF Left, IInv, InFlight
    <3>3. NodesOf(g) = {} /\ LinksOf(g) = {}
      BY <2>3, <3>2, NothingEngaged
    <3>4. Left(g)' = PlansIn(EventsOf(g), g)
      BY <1>1, <2>5, <3>1 DEF Left
    <3>5. /\ Fits(PlansIn(EventsOf(g), g), meeting_node(g), ancilla_link(g))
          /\ Engages(PlansIn(EventsOf(g), g), meeting_node(g), {}, {})
      BY CnotEventsFit, HEventsFit DEF IInv
    <3>6. QED
      BY <2>1, <2>2, <3>3, <3>4, <3>5 DEF GateInv
  <2>6. QED
    BY <2>4, <2>5
<1>4. QED
  BY <1>2, <1>3 DEF MeshInv

-----------------------------------------------------------------------------
(* The mesh, always *)

\* The program starts on a free mesh.
LEMMA InitMesh == Init => MeshInv
BY DEF Init, MeshInv, Gates

\* Every step keeps the agreement of events and mesh.
LEMMA NextMesh ==
  ASSUME IInv, MeshInv, [Next]_vars
  PROVE  MeshInv'
<1>1. CASE \E gates \in Programs : StartModule(gates)
  BY <1>1, StartModuleMesh
<1>2. CASE EndModule \/ Stuck \/ EndCycle \/ UNCHANGED vars
  <2>1. /\ UNCHANGED <<module_gates, mesh>>
        /\ UNCHANGED <<event_queues, ready_events, todo>>
    BY <1>2 DEF EndModule, Stuck, EndCycle, vars
  <2>2. \A g \in Gates : Left(g)' = Left(g)
    BY <2>1 DEF Left
  <2>3. QED
    BY <2>1, <2>2, SameLeft
<1>3. CASE QueueReadyGates
  BY <1>3, QueueReadyGatesMesh
<1>4. CASE CountDown
  BY <1>4, CountDownMesh
<1>5. CASE Prioritise
  BY <1>5, PrioritiseMesh
<1>6. CASE CompleteGate
  BY <1>6, CompleteGateMesh
<1>7. CASE AdvanceGate
  BY <1>7, AdvanceGateMesh
<1>8. CASE Retry
  BY <1>8, RetryMesh
<1>9. CASE Reroute
  BY <1>9, RerouteMesh
<1>10. CASE DropGate
  BY <1>10, DropGateMesh
<1>11. QED
  BY <1>1, <1>2, <1>3, <1>4, <1>5, <1>6, <1>7, <1>8, <1>9, <1>10 DEF Next

\* In every state the mesh is engaged as the events that the gates have left say
\* (do_event, resolve_cnot, purge_gate_from_mesh, initialize_ready_list).
THEOREM MeshAgrees == Spec => [](IInv /\ DagInv /\ MeshInv)
<1>1. Init => MeshInv
  BY InitMesh
<1>2. IInv /\ MeshInv /\ [Next]_vars => MeshInv'
  BY NextMesh
<1>3. IInv /\ DagInv => IInv
  OBVIOUS
<1>4. QED
  BY <1>1, <1>2, SpecInv, PTL DEF Spec

\* What a gate engages it engages for events that are still to come.
LEMMA OwnersHaveEvents ==
  ASSUME IInv, MeshInv, NEW g \in Owners, g # Free
  PROVE  g \in Gates /\ Left(g) # {}
<1>1. /\ node_owner \in [Nodes -> Gates \union {Free}]
      /\ link_owner \in [Links -> Gates \union {Free}]
  BY DEF IInv, TypeOK
<1>2. g \in Gates /\ (NodesOf(g) # {} \/ LinksOf(g) # {})
  BY <1>1 DEF Owners, Range, NodesOf, LinksOf
<1>3. QED
  BY <1>2, NothingEngaged DEF MeshInv

\* A node or link that is engaged belongs to a gate with events left to do, on
\* every lattice, for every program and threshold (do_event, resolve_cnot and
\* purge_gate_from_mesh).
THEOREM NoLeakHolds == Spec => []NoLeak
<1>1. ASSUME IInv, MeshInv PROVE NoLeak
  <2> SUFFICES ASSUME NEW g \in Owners, g # Free
               PROVE  Active(g) /\ g \notin ready_gates
    BY DEF NoLeak
  <2>1. g \in Gates /\ Left(g) # {}
    BY <1>1, OwnersHaveEvents
  <2>2. PICK p : \/ p \in PlansIn(ready_events, g) \/ p \in PlansIn(todo, g)
                 \/ p \in PlansIn(event_queues[g], g)
    BY <2>1 DEF Left
  <2>3. InList(ready_events, g) \/ InList(todo, g) \/ event_queues[g] # <<>>
    BY <2>2, NoPlans, EmptyPlans
  <2>4. Active(g)
    BY <2>3, LapsedInLists DEF Active
  <2>5. g \notin ready_gates
    BY <1>1, <2>3 DEF IInv, InFlight, Waits, InList
  <2>6. QED
    BY <2>4, <2>5
<1>2. QED
  BY <1>1, MeshAgrees, PTL

\* A module ends with a free mesh, no event in a list or queue and all its gates
\* completed: nothing is left over for the next module of main's loop.
THEOREM CleanEndHolds == Spec => []CleanEnd
<1>1. ASSUME IInv, DagInv, MeshInv PROVE CleanEnd
  <2> SUFFICES ASSUME pc = "idle"
               PROVE  /\ Owners = {Free}
                      /\ \A g \in Gates : Completed(g)
                      /\ ready_events = <<>> /\ todo = <<>>
    BY DEF CleanEnd
  <2>1. /\ todo = <<>> /\ ready_events = <<>> /\ edges = {} /\ ready_gates = {}
        /\ \A g \in Gates : event_queues[g] = <<>>
    BY <1>1 DEF IInv, Quiet, WorkLeft
  <2>2. \A g \in Gates : Completed(g)
    BY <1>1, <2>1 DEF DagInv, Finished, Idle, InList, Predecessors, Completed
  <2>3. \A g \in Gates : Left(g) = {}
    BY <2>1, EmptyPlans DEF Left
  <2>4. \A g \in Owners : g = Free
    BY <1>1, <2>3, OwnersHaveEvents
  <2>5. 0 \in Nodes
    <3>1. num_rows + 1 \in Nat \ {0} /\ num_cols + 1 \in Nat \ {0}
      BY MeshAssumption
    <3>2. \A x, y \in Nat \ {0} : x * y \in Nat \ {0}
      OBVIOUS
    <3>3. (num_rows + 1) * (num_cols + 1) \in Nat \ {0}
      BY <3>1, <3>2
    <3>4. QED
      BY <3>3 DEF Nodes
  <2>6. node_owner[0] \in Owners
    BY <1>1, <2>5 DEF IInv, TypeOK, Owners, Range
  <2>7. Owners = {Free}
    BY <2>4, <2>6
  <2>8. QED
    BY <2>1, <2>2, <2>7
<1>2. QED
  BY <1>1, MeshAgrees, PTL

\* The pending event of a gate is the first of those it has left.
LEMMA PendingFirst ==
  ASSUME IInv, NEW g \in Gates, NEW e \in Pending(g)
  PROVE  /\ Plan(e) \in Left(g)
         /\ \A p \in Left(g) : Rank[e.type] <= Rank[p.type]
<1> DEFINE q == event_queues[g]
           n == Len(Script(module_gates[g]))
<1>1. /\ q \in Seq(EventType) /\ QueueOf(q, g, module_gates[g])
      /\ ready_events \in Seq(EventType) /\ todo \in Seq(EventType)
  BY DEF IInv, InFlight, TypeOK
<1>2. n \in Nat /\ Len(q) \in Nat /\ DOMAIN q = 1 .. Len(q)
  BY <1>1, LenProperties DEF Script
<1>3. \A p \in PlansIn(q, g) : \E i \in DOMAIN q : Rank[p.type] = n - Len(q) + i
  <2>1. \A i \in DOMAIN q : Rank[q[i].type] = n - Len(q) + i
    BY <1>1, QueueRanks
  <2>2. \A x : Plan(x).type = x.type
    BY DEF Plan
  <2> HIDE DEF q, n
  <2>3. QED
    BY <2>1, <2>2, InPlans
<1>4. CASE Lapsed(g) # {}
  <2>1. e \in Lapsed(g)
    BY <1>4 DEF Pending
  <2>2. \/ \E i \in DOMAIN ready_events : e = ready_events[i]
        \/ \E i \in DOMAIN todo : e = todo[i]
    BY <2>1 DEF Lapsed, Range
  <2>3. e.gate = g
    BY <2>1 DEF Lapsed
  <2>4. /\ IsNext(e.type, q, module_gates[g])
        /\ \A p \in PlansIn(ready_events, g) \union PlansIn(todo, g) : p = Plan(e)
        /\ Plan(e) \in PlansIn(ready_events, g) \union PlansIn(todo, g)
    <3>1. CASE \E i \in DOMAIN ready_events : e = ready_events[i]
      <4>1. PICK i \in DOMAIN ready_events : e = ready_events[i]
        BY <3>1
      <4>2. /\ Waits(e)
            /\ \A j \in DOMAIN ready_events : ready_events[j].gate = g => j = i
            /\ \A j \in DOMAIN todo : todo[j].gate # g
        BY <2>3, <4>1 DEF IInv, InFlight, Single, Apart
      <4>3. QED
        BY <2>3, <4>1, <4>2, InPlans DEF Waits
    <3>2. CASE \E i \in DOMAIN todo : e = todo[i]
      <4>1. PICK i \in DOMAIN todo : e = todo[i]
        BY <3>2
      <4>2. /\ Waits(e)
            /\ \A j \in DOMAIN todo : todo[j].gate = g => j = i
            /\ \A j \in DOMAIN ready_events : ready_events[j].gate # g
        BY <2>3, <4>1 DEF IInv, InFlight, Single, Apart
      <4>3. QED
        BY <2>3, <4>1, <4>2, InPlans DEF Waits
    <3>3. QED
      BY <2>2, <3>1, <3>2
  <2>5. Rank[e.type] = n - Len(q)
    BY <1>1, <2>4, QueueRanks
  <2>6. Plan(e).type = e.type
    BY DEF Plan
  <2> HIDE DEF q, n
  <2>7. \A i \in DOMAIN q : n - Len(q) <= n - Len(q) + i
    BY <1>2
  <2>8. n - Len(q) <= n - Len(q)
    BY <1>2
  <2>9. \A p \in PlansIn(q, g) : Rank[e.type] <= Rank[p.type]
    BY <1>3, <2>5, <2>7
  <2>10. Rank[e.type] <= Rank[Plan(e).type]
    BY <2>5, <2>6, <2>8
  <2>11. QED
    BY <2>4, <2>9, <2>10 DEF Left, q
<1>5. CASE Lapsed(g) = {}
  <2>1. q # <<>> /\ e = Head(q)
    BY <1>5 DEF Pending
  <2>2. e = q[1] /\ 1 \in DOMAIN q
    BY <1>1, <1>2, <2>1, EmptySeq, HeadTailProperties
  <2>3. e.gate = g
    BY <1>1, <2>2 DEF QueueOf
  <2>4. Rank[e.type] = n - Len(q) + 1
    BY <1>1, <2>2, QueueRanks
  <2>5. PlansIn(ready_events, g) = {} /\ PlansIn(todo, g) = {}
    BY <1>5, LapsedInLists, NoPlans
  <2>6. Plan(e) \in PlansIn(q, g)
    BY <2>2, <2>3, InPlans
  <2> HIDE DEF q, n
  <2>7. \A i \in DOMAIN q : n - Len(q) + 1 <= n - Len(q) + i
    BY <1>2
  <2>8. \A p \in PlansIn(q, g) : Rank[e.type] <= Rank[p.type]
    BY <1>3, <2>4, <2>7
  <2>9. QED
    BY <2>5, <2>6, <2>8 DEF Left, q
<1>6. QED
  BY <1>4, <1>5

\* From the event that opens a braid to the one that closes it, the braid's links
\* belong to the gate, through conflicts, reroutes and drops of other gates.
THEOREM HeldUntilClosedHolds == Spec => []HeldUntilClosed
<1>1. ASSUME IInv, MeshInv PROVE HeldUntilClosed
  <2> SUFFICES ASSUME NEW g \in Gates, NEW e \in Pending(g), ~e.open,
                      NEW i \in DOMAIN e.braid.links
               PROVE  link_owner[e.braid.links[i]] = g
    BY DEF HeldUntilClosed
  <2> DEFINE L == Left(g)
             c == Plan(e)
  <2>1. /\ c \in L /\ c.type = e.type /\ c.open = e.open /\ c.braid = e.braid
        /\ \A p \in L : Rank[e.type] <= Rank[p.type]
    BY <1>1, PendingFirst DEF Plan
  <2>2. /\ Fits(L, meeting_node(g), ancilla_link(g))
        /\ Held(L, LinksOf(g))
    BY <1>1 DEF MeshInv, GateInv, Engages
  <2> HIDE DEF L, c
  <2>3. \A p \in L : p.type \in EventTypes /\ (p.open <=> p.type \in Opens)
    BY <2>2 DEF Fits, Shaped
  <2>4. ~Comes(L, Opener(e.type))
    <3>1. e.type \in EventTypes /\ e.type \notin Opens
      BY <2>1, <2>3
    <3>2. Opener(e.type) \in Opens /\ Rank[Opener(e.type)] < Rank[e.type]
      BY <3>1, RankOfOpener
    <3>3. Rank[Opener(e.type)] \in Int /\ Rank[e.type] \in Int
      BY <3>1, <3>2, RankInt DEF Opens, EventTypes, CnotEvents, HEvents
    <3>4. QED
      BY <2>1, <3>2, <3>3 DEF Comes
  <2>5. Opened(L, c)
    BY <2>1, <2>4 DEF Opened
  <2>6. Range(c.braid.links) \subseteq LinksOf(g)
    BY <2>1, <2>2, <2>5 DEF Held
  <2>7. e.braid.links[i] \in LinksOf(g)
    BY <2>1, <2>6 DEF Range
  <2>8. QED
    BY <2>7 DEF LinksOf
<1>2. QED
  BY <1>1, MeshAgrees, PTL

=============================================================================
