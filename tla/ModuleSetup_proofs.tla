------------------------- MODULE ModuleSetup_proofs -------------------------
(***************************************************************************)
(* Proofs about ModuleSetup: for every module, layout, pair of ratios and  *)
(* list of factories, SetupInv is inductive.  It says how far the ports    *)
(* have been placed and where (PlacedInv), and that the gates updated so   *)
(* far are on tiles of data qubits and ports and are numbered apart        *)
(* (GatesInv).  TilesApart and GatesSimulable follow from it.              *)
(* The lattice is the arithmetic of the proof: the least square with room  *)
(* for the qubits (GridFacts), a tile has one row and one column (OneRow), *)
(* renumbering on a wider lattice keeps row and column (WiderLattice), and *)
(* counting the tiles that are no factory's reaches every number of a      *)
(* qubit first at one tile (MiddleLattice).                                *)
(***************************************************************************)
EXTENDS ModuleSetup, FiniteSetTheorems, WellFoundedInduction, TLAPS

-----------------------------------------------------------------------------
(* Numbers.                                                                *)

\* A set of natural numbers has a least one.
LEMMA LeastExists ==
  ASSUME NEW S \in SUBSET Nat, S # {}
  PROVE  \E m \in S : \A k \in S : m <= k
<1>1. PICK m \in S : \A k \in S : ~(<<k, m>> \in OpToRel(<, Nat))
  BY NatLessThanWellFounded, WFMin
<1>2. \A p, q \in Nat : p < q => <<p, q>> \in OpToRel(<, Nat)
  BY Zenon DEF OpToRel
<1>3. ASSUME NEW k \in S PROVE m <= k
  <2>1. ~(k < m)
    BY <1>1, <1>2, Zenon
  <2> QED
    BY <2>1
<1> QED
  BY <1>3

\* A product of a sum.
LEMMA Distribute ==
  ASSUME NEW a \in Int, NEW b \in Int, NEW c \in Int
  PROVE  (a + b) * c = a * c + b * c /\ a * c \in Int /\ 1 * c = c /\ 0 * c = 0
OBVIOUS

\* Products of natural numbers.
LEMMA MulNat == ASSUME NEW a \in Nat, NEW b \in Nat PROVE a * b \in Nat
OBVIOUS

\* More rows hold more tiles.
LEMMA MoreRows ==
  ASSUME NEW a \in Int, NEW b \in Int, NEW c \in Nat, a <= b
  PROVE  a * c <= b * c
<1> DEFINE d == b - a
<1>1. d \in Nat /\ b = a + d
  OBVIOUS
<1> HIDE DEF d
<1>2. (a + d) * c = a * c + d * c /\ a * c \in Int
  BY <1>1, Distribute
<1>3. d * c \in Nat
  BY <1>1, MulNat
<1> QED
  BY <1>1, <1>2, <1>3

\* Division with remainder.
LEMMA DivMod ==
  ASSUME NEW n \in Int, NEW w \in Nat \ {0}
  PROVE  /\ n \div w \in Int /\ n % w \in 0 .. w - 1
         /\ n = w * (n \div w) + (n % w)
OBVIOUS

\* A tile has one row and one column.
LEMMA OneRow ==
  ASSUME NEW w \in Nat \ {0}, NEW r \in Int, NEW s \in Int,
         NEW c \in 0 .. w - 1, NEW d \in 0 .. w - 1, r * w + c = s * w + d
  PROVE  r = s /\ c = d
<1>1. r * w \in Int /\ s * w \in Int
  OBVIOUS
<1>2. ~(r < s)
  <2> SUFFICES ASSUME r < s PROVE FALSE
    OBVIOUS
  <2>1. (r + 1) * w <= s * w
    BY MoreRows
  <2>2. (r + 1) * w = r * w + w
    BY Distribute
  <2> QED
    BY <1>1, <2>1, <2>2
<1>3. ~(s < r)
  <2> SUFFICES ASSUME s < r PROVE FALSE
    OBVIOUS
  <2>1. (s + 1) * w <= r * w
    BY MoreRows
  <2>2. (s + 1) * w = s * w + w
    BY Distribute
  <2> QED
    BY <1>1, <2>1, <2>2
<1>4. r = s
  BY <1>2, <1>3
<1> QED
  BY <1>1, <1>4

\* A tile of a row and a column of the lattice.
LEMMA TileOf ==
  ASSUME NEW w \in Nat \ {0}, NEW n \in Nat, NEW r \in 0 .. n - 1, NEW c \in 0 .. w - 1
  PROVE  r * w + c \in 0 .. n * w - 1
<1>1. (r + 1) * w <= n * w
  BY MoreRows
<1>2. (r + 1) * w = r * w + w
  BY Distribute
<1>3. r * w \in Nat /\ n * w \in Nat
  BY MulNat
<1> QED
  BY <1>1, <1>2, <1>3

-----------------------------------------------------------------------------
(* Lattices.                                                               *)

\* The smallest square that holds q tiles.
LEMMA GridRowsFacts ==
  ASSUME NEW q \in Nat
  PROVE  LET r == GridRows(q) IN
         /\ r \in 0 .. q /\ r * r >= q /\ \A s \in 0 .. r - 1 : s * s < q
<1> DEFINE S == {r \in 0 .. q : r * r >= q}
<1>1. q \in S
  <2>1. q * q >= q
    <3>1. CASE q = 0
      BY <3>1
    <3>2. CASE q # 0
      <4>1. 1 * q <= q * q
        BY <3>2, MoreRows
      <4> QED
        BY <4>1
    <3> QED
      BY <3>1, <3>2
  <2> QED
    BY <2>1
<1>2. PICK r \in S : \A k \in S : r <= k
  <2>1. S \in SUBSET Nat /\ S # {}
    BY <1>1
  <2> HIDE DEF S
  <2> QED
    BY <2>1, LeastExists
<1>3. r \in 0 .. q /\ r * r >= q /\ \A s \in 0 .. r - 1 : s * s < q
  <2>1. ASSUME NEW s \in 0 .. r - 1 PROVE s * s < q
    <3>1. s \notin S
      BY <1>2
    <3>2. s \in 0 .. q /\ s * s \in Nat
      BY MulNat
    <3> QED
      BY <3>1, <3>2
  <2> QED
    BY <1>2, <2>1
<1> QED
  BY <1>3 DEF GridRows

\* Rows and columns of a lattice that holds q tiles.
LEMMA GridFacts ==
  ASSUME NEW q \in Nat
  PROVE  /\ GridRows(q) \in Nat /\ GridCols(q) \in Int
         /\ GridRows(q) * GridCols(q) >= q
         /\ q >= 1 => GridRows(q) >= 1 /\ GridCols(q) >= 1
         /\ q >= 2 => GridRows(q) >= 2
         /\ q >= 3 => GridCols(q) >= 2
<1> DEFINE r == GridRows(q)
<1>1. r \in Nat /\ r * r >= q /\ \A s \in 0 .. r - 1 : s * s < q
  BY GridRowsFacts
<1>2. GridCols(q) = IF r * (r - 1) < q THEN r ELSE r - 1
  BY DEF GridCols
<1> HIDE DEF r
<1>3. r * (r - 1) \in Int /\ r * r \in Nat
  BY <1>1
<1>4. GridCols(q) \in Int /\ r * GridCols(q) >= q
  BY <1>1, <1>2, <1>3
<1>5. q >= 1 => r # 0
  BY <1>1
<1>6. q >= 2 => r # 1
  BY <1>1
<1>7. q >= 1 => GridCols(q) >= 1
  <2>1. CASE r = 1
    <3>1. r * (r - 1) = 0
      BY <2>1
    <3> QED
      BY <1>2, <2>1, <3>1
  <2>2. CASE r # 1
    BY <1>1, <1>2, <1>5, <2>2
  <2> QED
    BY <2>1, <2>2
<1>8. q >= 3 => GridCols(q) >= 2
  <2>1. CASE r = 2
    <3>1. r * (r - 1) = 2
      BY <2>1
    <3> QED
      BY <1>2, <2>1, <3>1
  <2>2. CASE r # 2
    BY <1>1, <1>2, <1>5, <1>6, <2>2
  <2> QED
    BY <2>1, <2>2
<1> QED
  BY <1>1, <1>4, <1>5, <1>6, <1>7, <1>8 DEF r

-----------------------------------------------------------------------------
(* Renumbering.                                                            *)

\* The tiles that the middle layout is given room for.
TilesNeeded == module.q_count + factories.Y_area * factories.num_Y
                              + factories.A_area * factories.num_A

\* The inputs, and the lattice that Init chooses for them.
Lattice ==
  /\ module \in Modules /\ factories \in Factories /\ periphery \in BOOLEAN
  /\ num_rows = IF periphery THEN GridRows(module.q_count) + 2 ELSE GridRows(TilesNeeded)
  /\ num_cols = IF periphery THEN GridCols(module.q_count) + 2 ELSE GridCols(TilesNeeded)

\* How large the lattice is at least.
LEMMA LatticeFacts ==
  ASSUME Lattice
  PROVE  /\ module.q_count \in Nat \ {0, 1}
         /\ num_rows \in Nat \ {0, 1} /\ num_cols \in Nat \ {0}
         /\ periphery => /\ num_rows >= 4 /\ num_cols >= 3
                         /\ (num_rows - 2) * (num_cols - 2) >= module.q_count
         /\ ~periphery => /\ num_rows * num_cols >= module.q_count
                          /\ module.q_count >= 3 => num_cols >= 2
<1>1. module.q_count \in Nat \ {0, 1}
  BY ModulesAssumption DEF Lattice
<1>2. CASE periphery
  <2> DEFINE r == GridRows(module.q_count)
             c == GridCols(module.q_count)
  <2>1. r \in Nat /\ c \in Int /\ r * c >= module.q_count /\ r >= 2 /\ c >= 1
    BY <1>1, GridFacts
  <2>2. num_rows = r + 2 /\ num_cols = c + 2
    BY <1>2 DEF Lattice
  <2> HIDE DEF r, c
  <2>3. num_rows - 2 = r /\ num_cols - 2 = c
    BY <2>1, <2>2
  <2>4. num_rows >= 4 /\ num_cols >= 3 /\ num_rows \in Nat /\ num_cols \in Nat
    BY <2>1, <2>2
  <2> QED
    BY <1>1, <1>2, <2>1, <2>3, <2>4
<1>3. CASE ~periphery
  <2> DEFINE t == TilesNeeded
  <2>1. t \in Nat /\ t >= module.q_count
    <3>1. /\ factories.Y_area \in Nat /\ factories.num_Y \in Nat
          /\ factories.A_area \in Nat /\ factories.num_A \in Nat
      BY LayoutAssumption DEF Lattice
    <3>2. factories.Y_area * factories.num_Y \in Nat /\ factories.A_area * factories.num_A \in Nat
      BY <3>1, MulNat
    <3> QED
      BY <1>1, <3>2 DEF TilesNeeded
  <2>2. num_rows = GridRows(t) /\ num_cols = GridCols(t)
    BY <1>3 DEF Lattice
  <2> HIDE DEF t
  <2>3. /\ num_rows \in Nat /\ num_cols \in Int /\ num_rows * num_cols >= t
        /\ t >= 1 => num_cols >= 1
        /\ t >= 2 => num_rows >= 2
        /\ t >= 3 => num_cols >= 2
    BY <2>1, <2>2, GridFacts
  <2>4. num_rows * num_cols \in Int
    BY <2>3
  <2>5. num_rows >= 2 /\ num_cols >= 1 /\ (module.q_count >= 3 => num_cols >= 2)
    BY <1>1, <2>1, <2>3
  <2>6. num_rows * num_cols >= module.q_count
    BY <1>1, <2>1, <2>3, <2>4
  <2> QED
    BY <1>3, <1>1, <2>3, <2>5, <2>6
<1> QED
  BY <1>2, <1>3

\* With --periphery a qubit keeps its row and column, one further in.
LEMMA WiderLattice ==
  ASSUME Lattice, periphery, NEW q \in 0 .. module.q_count - 1
  PROVE  \E r \in 1 .. num_rows - 2, c \in 1 .. num_cols - 2 :
           /\ q = (r - 1) * (num_cols - 2) + (c - 1)
           /\ Renumbered(q) = r * num_cols + c
<1> DEFINE w == num_cols - 2
           a == q \div w
           b == q % w
<1>1. /\ w \in Nat \ {0} /\ q \in Nat /\ num_rows - 2 \in Nat /\ num_cols \in Nat
      /\ (num_rows - 2) * w >= module.q_count /\ module.q_count \in Nat
  BY LatticeFacts
<1>2. a \in Int /\ b \in 0 .. w - 1 /\ q = w * a + b
  <2>1. q \in Int /\ w \in Nat \ {0}
    BY <1>1
  <2> HIDE DEF w
  <2>2. q \div w \in Int /\ q % w \in 0 .. w - 1 /\ q = w * (q \div w) + (q % w)
    BY <2>1, DivMod
  <2> QED
    BY <2>2
<1>3. Renumbered(q) = q + num_cols + 2 * a + 1
  BY DEF Renumbered
<1>4. num_cols = w + 2
  BY <1>1
<1> HIDE DEF a, b, w
<1>5. w * a = a * w /\ a * w \in Int
  BY <1>1, <1>2
<1>6. a \in 0 .. num_rows - 3
  <2>1. ~(a < 0)
    <3> SUFFICES ASSUME a < 0 PROVE FALSE
      OBVIOUS
    <3>1. (a + 1) * w <= 0 * w
      BY <1>1, <1>2, MoreRows
    <3>2. (a + 1) * w = a * w + w /\ 0 * w = 0
      BY <1>1, <1>2, Distribute
    <3> QED
      BY <1>1, <1>2, <1>5, <3>1, <3>2
  <2>2. ~(a >= num_rows - 2)
    <3> SUFFICES ASSUME a >= num_rows - 2 PROVE FALSE
      OBVIOUS
    <3>1. (num_rows - 2) * w <= a * w
      BY <1>1, <1>2, MoreRows
    <3>2. (num_rows - 2) * w \in Int
      BY <1>1
    <3> QED
      BY <1>1, <1>2, <1>5, <3>1, <3>2
  <2>3. num_rows \in Int
    BY LatticeFacts
  <2> QED
    BY <1>2, <2>1, <2>2, <2>3
<1>7. (a + 1) * num_cols = a * w + w + 2 * a + 2
  <2>1. (a + 1) * (w + 2) = a * w + w + 2 * a + 2
    BY <1>1, <1>2
  <2> QED
    BY <1>4, <2>1
<1>8. a + 1 \in 1 .. num_rows - 2 /\ b + 1 \in 1 .. w
  BY <1>1, <1>2, <1>6
<1>9. q = a * w + b
  BY <1>2, <1>5
<1>10. Renumbered(q) = (a + 1) * num_cols + (b + 1)
  BY <1>1, <1>2, <1>3, <1>4, <1>5, <1>7, <1>9
<1>11. (a + 1) - 1 = a /\ (b + 1) - 1 = b
  BY <1>2
<1> QED
  BY <1>8, <1>9, <1>10, <1>11 DEF w

\* Tiles before t that are no factory's.
Counted(t) == Cardinality((0 .. t - 1) \ factory_block)

\* The count of tiles that are no factory's grows by at most one.
LEMMA CountedFacts ==
  ASSUME NEW t \in Nat
  PROVE  /\ Counted(t) \in Nat /\ Counted(0) = 0
         /\ Counted(t + 1) \in {Counted(t), Counted(t) + 1}
<1>1. IsFiniteSet((0 .. t - 1) \ factory_block)
  <2>1. IsFiniteSet(0 .. t - 1)
    BY FS_Interval
  <2> QED
    BY <2>1, FS_Subset
<1>2. Counted(t) \in Nat
  BY <1>1, FS_CardinalityType DEF Counted
<1>3. Counted(0) = 0
  <2>1. (0 .. 0 - 1) \ factory_block = {}
    OBVIOUS
  <2> QED
    BY <2>1, FS_EmptySet DEF Counted
<1>4. Counted(t + 1) \in {Counted(t), Counted(t) + 1}
  <2>1. 0 .. (t + 1) - 1 = (0 .. t - 1) \cup {t} /\ t \notin 0 .. t - 1
    OBVIOUS
  <2>2. CASE t \in factory_block
    <3>1. (0 .. (t + 1) - 1) \ factory_block = (0 .. t - 1) \ factory_block
      BY <2>1, <2>2
    <3> QED
      BY <3>1 DEF Counted
  <2>3. CASE t \notin factory_block
    <3>1. (0 .. (t + 1) - 1) \ factory_block = ((0 .. t - 1) \ factory_block) \cup {t}
      BY <2>1, <2>3
    <3> QED
      BY <1>1, <2>1, <3>1, FS_AddElement DEF Counted
  <2> QED
    BY <2>2, <2>3
<1> QED
  BY <1>2, <1>3, <1>4

\* Enough tiles, whatever the block takes.
LEMMA CountedEnough ==
  ASSUME IsFiniteSet(factory_block), NEW n \in Nat
  PROVE  Counted(n + Cardinality(factory_block)) >= n
         /\ Cardinality(factory_block) \in Nat
<1> DEFINE b == Cardinality(factory_block)
           S == 0 .. (n + b) - 1
<1>1. b \in Nat
  BY FS_CardinalityType
<1>2. IsFiniteSet(S) /\ Cardinality(S) = n + b
  <2>1. 0 \in Int /\ (n + b) - 1 \in Int
    BY <1>1
  <2>2. IsFiniteSet(S) /\ Cardinality(S) = IF 0 > (n + b) - 1 THEN 0 ELSE ((n + b) - 1) - 0 + 1
    BY <2>1, FS_Interval
  <2> HIDE DEF b, S
  <2> QED
    BY <1>1, <2>2
<1>3. Cardinality(S \cap factory_block) <= b /\ IsFiniteSet(S \cap factory_block)
  BY FS_Subset
<1>4. Cardinality(S \ factory_block) = Cardinality(S) - Cardinality(S \cap factory_block)
  BY <1>2, FS_Difference
<1>5. Cardinality(S \cap factory_block) \in Nat
  BY <1>3, FS_CardinalityType
<1> QED
  BY <1>1, <1>2, <1>3, <1>4, <1>5 DEF Counted

\* The tile of a qubit in the middle layout: the first with so many before it.
LEMMA MiddleLattice ==
  ASSUME ~periphery, IsFiniteSet(factory_block), NEW q \in Nat
  PROVE  LET t == Renumbered(q) IN
         t \in Nat /\ Counted(t) = q /\ \A s \in 0 .. t - 1 : Counted(s) < q
<1> DEFINE b == Cardinality(factory_block)
           S == {t \in 0 .. q + b : Counted(t) >= q}
<1>1. b \in Nat /\ Counted(q + b) >= q
  BY CountedEnough
<1>2. PICK t \in S : \A k \in S : t <= k
  <2>1. q + b \in S /\ S \in SUBSET Nat
    BY <1>1
  <2> HIDE DEF S
  <2> QED
    BY <2>1, LeastExists
<1>3. t \in 0 .. q + b /\ t \in Nat /\ Counted(t) >= q
  BY <1>1, <1>2
<1>4. ASSUME NEW s \in 0 .. t - 1 PROVE Counted(s) < q
  <2>1. s \notin S /\ s \in 0 .. q + b /\ Counted(s) \in Nat
    BY <1>1, <1>2, <1>3, CountedFacts
  <2> QED
    BY <2>1
<1>5. Counted(t) = q
  <2>1. CASE t = 0
    BY <1>3, <2>1, CountedFacts
  <2>2. CASE t # 0
    <3> DEFINE s == t - 1
    <3>1. s \in Nat /\ t = s + 1 /\ s \in 0 .. t - 1
      BY <1>3, <2>2
    <3> HIDE DEF s
    <3>2. Counted(s) < q /\ Counted(s) \in Nat /\ Counted(t) \in {Counted(s), Counted(s) + 1}
      BY <1>4, <3>1, CountedFacts
    <3> QED
      BY <1>3, <3>2
  <2> QED
    BY <2>1, <2>2
<1>6. Renumbered(q) = CHOOSE u \in 0 .. q + b :
                        Counted(u) = q /\ \A s \in 0 .. u - 1 : Counted(s) < q
  BY DEF Renumbered, Counted
<1> HIDE DEF b, S
<1>7. \E u \in 0 .. q + b : Counted(u) = q /\ \A s \in 0 .. u - 1 : Counted(s) < q
  BY <1>3, <1>4, <1>5
<1>8. /\ Renumbered(q) \in 0 .. q + b /\ Counted(Renumbered(q)) = q
      /\ \A s \in 0 .. Renumbered(q) - 1 : Counted(s) < q
  BY <1>6, <1>7
<1> QED
  BY <1>1, <1>8

\* A block is finite, wherever it starts.
LEMMA BlockFinite ==
  ASSUME Lattice, NEW area \in Nat
  PROVE  Block(area) \subseteq Int /\ IsFiniteSet(Block(area))
<1> DEFINE R == GridRows(area)
           C == GridCols(area)
           S == StartRow(area)
           T == StartCol(area)
           lo == S * num_cols + T
           hi == (S + R) * num_cols + T + C
<1>1. R \in Nat /\ C \in Int /\ num_rows \in Nat /\ num_cols \in Nat \ {0}
  BY GridFacts, LatticeFacts
<1>2. S \in Int /\ T \in Int
  BY <1>1, DivMod DEF StartRow, StartCol
<1> HIDE DEF R, C, S, T
<1>3. S * num_cols \in Int /\ (S + R) * num_cols \in Int
  BY <1>1, <1>2
<1>4. ASSUME NEW r \in 0 .. R - 1, NEW c \in 0 .. C - 1
      PROVE  (S + r) * num_cols + T + c \in lo .. hi
  <2>1. S * num_cols <= (S + r) * num_cols /\ (S + r) * num_cols <= (S + R) * num_cols
    BY <1>1, <1>2, MoreRows
  <2>2. (S + r) * num_cols \in Int
    BY <1>1, <1>2
  <2> HIDE DEF lo, hi
  <2>3. lo = S * num_cols + T /\ hi = (S + R) * num_cols + T + C
    BY DEF lo, hi
  <2> QED
    BY <1>1, <1>2, <1>3, <2>1, <2>2, <2>3
<1>5. lo \in Int /\ hi \in Int
  BY <1>1, <1>2, <1>3
<1>6. Block(area) \in SUBSET (lo .. hi)
  <2> HIDE DEF lo, hi
  <2>1. Block(area) = {(S + r) * num_cols + T + c : r \in 0 .. R - 1, c \in 0 .. C - 1}
    BY DEF Block, S, T, R, C
  <2> QED
    BY <1>4, <2>1
<1> HIDE DEF lo, hi
<1>7. lo .. hi \subseteq Int /\ IsFiniteSet(lo .. hi)
  BY <1>5, FS_Interval
<1>8. IsFiniteSet(Block(area))
  BY <1>6, <1>7, FS_Subset
<1>9. Block(area) \subseteq Int
  BY <1>6, <1>7
<1> QED
  BY <1>8, <1>9

\* The tile of a qubit is a natural number.
LEMMA RenumberedType ==
  ASSUME Lattice, ~periphery => IsFiniteSet(factory_block),
         NEW q \in 0 .. module.q_count - 1
  PROVE  Renumbered(q) \in Nat
<1>1. CASE periphery
  <2>1. PICK r \in 1 .. num_rows - 2, c \in 1 .. num_cols - 2 : Renumbered(q) = r * num_cols + c
    BY <1>1, WiderLattice
  <2>2. num_cols \in Nat /\ r \in Nat /\ c \in Nat
    BY LatticeFacts
  <2>3. r * num_cols \in Nat
    BY <2>2, MulNat
  <2> QED
    BY <2>1, <2>2, <2>3
<1>2. CASE ~periphery
  BY <1>2, MiddleLattice
<1> QED
  BY <1>1, <1>2

\* No two qubits share a tile.
LEMMA DataApart ==
  ASSUME Lattice, ~periphery => IsFiniteSet(factory_block),
         NEW p \in 0 .. module.q_count - 1, NEW q \in 0 .. module.q_count - 1,
         Renumbered(p) = Renumbered(q)
  PROVE  p = q
<1>1. CASE periphery
  <2>1. PICK r \in 1 .. num_rows - 2, c \in 1 .. num_cols - 2 :
          p = (r - 1) * (num_cols - 2) + (c - 1) /\ Renumbered(p) = r * num_cols + c
    BY <1>1, WiderLattice
  <2>2. PICK s \in 1 .. num_rows - 2, d \in 1 .. num_cols - 2 :
          q = (s - 1) * (num_cols - 2) + (d - 1) /\ Renumbered(q) = s * num_cols + d
    BY <1>1, WiderLattice
  <2>3. /\ num_cols \in Nat \ {0} /\ r \in Int /\ s \in Int
        /\ c \in 0 .. num_cols - 1 /\ d \in 0 .. num_cols - 1
    BY LatticeFacts
  <2>4. r * num_cols + c = s * num_cols + d
    BY <2>1, <2>2
  <2>5. r = s /\ c = d
    BY <2>3, <2>4, OneRow
  <2> QED
    BY <2>1, <2>2, <2>5
<1>2. CASE ~periphery
  <2>1. Counted(Renumbered(p)) = p /\ Counted(Renumbered(q)) = q
    BY <1>2, MiddleLattice
  <2> QED
    BY <2>1
<1> QED
  BY <1>1, <1>2

\* Where there is room a qubit's tile is in the lattice.
LEMMA DataInside ==
  ASSUME Lattice, ~periphery => IsFiniteSet(factory_block), Fits,
         NEW q \in 0 .. module.q_count - 1
  PROVE  Renumbered(q) \in Tiles
<1>1. CASE periphery
  <2>1. PICK r \in 1 .. num_rows - 2, c \in 1 .. num_cols - 2 : Renumbered(q) = r * num_cols + c
    BY <1>1, WiderLattice
  <2>2. /\ num_cols \in Nat \ {0} /\ num_rows \in Nat
        /\ r \in 0 .. num_rows - 1 /\ c \in 0 .. num_cols - 1
    BY LatticeFacts
  <2> QED
    BY <2>1, <2>2, TileOf DEF Tiles
<1>2. CASE ~periphery
  <2> DEFINE n == num_rows * num_cols
             t == Renumbered(q)
  <2>1. n \in Nat /\ module.q_count \in Nat
    BY LatticeFacts, MulNat
  <2>2. module.q_count <= Counted(n) /\ Counted(n) \in Nat
    BY <1>2, <2>1, CountedFacts DEF Fits, Tiles, Counted
  <2>3. t \in Nat /\ Counted(t) = q /\ \A s \in 0 .. t - 1 : Counted(s) < q
    BY <1>2, MiddleLattice
  <2>4. n \notin 0 .. t - 1 /\ t # n
    <3> HIDE DEF n, t
    <3> QED
      BY <2>1, <2>2, <2>3
  <2>5. t \in 0 .. n - 1
    <3> HIDE DEF n, t
    <3> QED
      BY <2>1, <2>3, <2>4
  <2> QED
    BY <2>5 DEF Tiles
<1> QED
  BY <1>1, <1>2

-----------------------------------------------------------------------------
(* Ports.                                                                  *)

\* Tiles of the first and last column, in the rows between the others' and
\* before row n; tiles of the first and last row, in the columns before n.
YTile(rows, cols, t, n) ==
  \E r \in 1 .. rows - 2, c \in {0, cols - 1} : r < n /\ t = r * cols + c
ATile(rows, cols, t, n) ==
  \E r \in {0, rows - 1}, c \in 0 .. cols - 1 : c < n /\ t = r * cols + c

\* With a ratio of 0 the loops never leave the first row and column.
SidePorts ==
  /\ Y_state_ids \in Seq(Int) /\ A_state_ids \in Seq(Int)
  /\ i \in Nat
  /\ \A k \in DOMAIN Y_state_ids : YTile(num_rows, num_cols, Y_state_ids[k], num_rows)
  /\ \A k \in DOMAIN A_state_ids : ATile(num_rows, num_cols, A_state_ids[k], num_cols)
  /\ pc = "Y" =>
       /\ A_state_ids = <<>>
       /\ i # 0
       /\ i = 1 \/ Y_state_ids # <<>>
       /\ \/ rows_to_Y_factory_ratio = 0 /\ i = 1
          \/ /\ rows_to_Y_factory_ratio # 0 /\ IsInjective(Y_state_ids)
             /\ \A k \in DOMAIN Y_state_ids : YTile(num_rows, num_cols, Y_state_ids[k], i)
  /\ pc # "Y" => IsInjective(Y_state_ids) /\ Y_state_ids # <<>>
  /\ pc = "A" =>
       /\ i = 0 \/ A_state_ids # <<>>
       /\ \/ cols_to_A_factory_ratio = 0 /\ i = 0
          \/ /\ cols_to_A_factory_ratio # 0 /\ IsInjective(A_state_ids)
             /\ \A k \in DOMAIN A_state_ids : ATile(num_rows, num_cols, A_state_ids[k], i)
  /\ Placed => IsInjective(A_state_ids) /\ A_state_ids # <<>>

\* Blocks and ports are placed in one step.
MiddlePorts ==
  /\ pc = "blocks" => Y_state_ids = <<>> /\ A_state_ids = <<>> /\ factory_block = {}
  /\ Placed =>
       /\ factory_block = Block(factories.Y_area) \union Block(factories.A_area)
       /\ Y_state_ids = [k \in 1 .. factories.Y_ports |->
                           BlockPort(factories.Y_area, factories.A_area, k)]
       /\ A_state_ids = [k \in 1 .. factories.A_ports |->
                           BlockPort(factories.A_area, factories.A_area, k)]

\* Lattice and ports, at every point of the placement.
PlacedInv ==
  /\ Lattice
  /\ IF periphery THEN pc \in {"Y", "A"} \/ Placed ELSE pc = "blocks" \/ Placed
  /\ periphery => SidePorts
  /\ ~periphery => MiddlePorts

\* A pair of new elements.
LEMMA PairAdded ==
  ASSUME NEW s \in Seq(Int), NEW x \in Int, NEW y \in Int
  PROVE  /\ s \o <<x, y>> \in Seq(Int) /\ s \o <<x, y>> # <<>>
         /\ DOMAIN (s \o <<x, y>>) = 1 .. Len(s) + 2
         /\ \A k \in 1 .. Len(s) : (s \o <<x, y>>)[k] = s[k]
         /\ (s \o <<x, y>>)[Len(s) + 1] = x /\ (s \o <<x, y>>)[Len(s) + 2] = y
OBVIOUS

\* Two new elements leave a list without repetition.
LEMMA PairApart ==
  ASSUME NEW s \in Seq(Int), NEW x \in Int, NEW y \in Int, x # y,
         IsInjective(s), \A k \in DOMAIN s : s[k] # x /\ s[k] # y
  PROVE  IsInjective(s \o <<x, y>>)
<1> DEFINE t == s \o <<x, y>>
           n == Len(s)
<1>1. /\ n \in Nat /\ DOMAIN s = 1 .. n /\ DOMAIN t = 1 .. n + 2
      /\ \A k \in 1 .. n : t[k] = s[k]
      /\ t[n + 1] = x /\ t[n + 2] = y
  BY PairAdded
<1> HIDE DEF t, n
<1>2. ASSUME NEW j \in 1 .. n + 2, NEW k \in 1 .. n + 2, j < k PROVE t[j] # t[k]
  <2>1. CASE k \in 1 .. n
    BY <1>1, <1>2, <2>1 DEF IsInjective
  <2>2. CASE k = n + 1
    <3>1. j \in 1 .. n
      BY <1>1, <1>2, <2>2
    <3> QED
      BY <1>1, <2>2, <3>1
  <2>3. CASE k = n + 2
    <3>1. j \in 1 .. n \/ j = n + 1
      BY <1>1, <1>2, <2>3
    <3> QED
      BY <1>1, <2>3, <3>1
  <2> QED
    BY <1>1, <2>1, <2>2, <2>3
<1>3. \A j, k \in 1 .. n + 2 : t[j] = t[k] => j = k
  <2> SUFFICES ASSUME NEW j \in 1 .. n + 2, NEW k \in 1 .. n + 2, j # k
               PROVE  t[j] # t[k]
    OBVIOUS
  <2>1. j < k \/ k < j
    BY <1>1
  <2> QED
    BY <1>2, <2>1
<1> QED
  BY <1>1, <1>3 DEF IsInjective, t

\* What the placement loops start with.
LEMMA InitPlaced == Init => PlacedInv
<1> SUFFICES ASSUME Init PROVE PlacedInv
  OBVIOUS
<1>1. Lattice
  <2>1. periphery \in BOOLEAN
    BY LayoutAssumption DEF Init
  <2> QED
    BY <2>1 DEF Init, Lattice, TilesNeeded
<1>2. /\ Y_state_ids = <<>> /\ A_state_ids = <<>> /\ factory_block = {} /\ i = 1
      /\ pc = IF periphery THEN "Y" ELSE "blocks"
  BY DEF Init
<1>3. IsInjective(<<>>) /\ DOMAIN <<>> = {} /\ <<>> \in Seq(Int)
  BY DEF IsInjective
<1>4. periphery => SidePorts
  BY <1>2, <1>3 DEF SidePorts, Placed
<1>5. ~periphery => MiddlePorts
  BY <1>2 DEF MiddlePorts, Placed
<1> QED
  BY <1>1, <1>2, <1>4, <1>5 DEF PlacedInv

\* The lattice and the tiles named in it stay.
LEMMA SameLattice ==
  ASSUME inputs' = inputs
  PROVE  /\ Lattice => Lattice'
         /\ module' = module /\ periphery' = periphery /\ factories' = factories
         /\ num_rows' = num_rows /\ num_cols' = num_cols
BY DEF inputs, Lattice, TilesNeeded

\* Further rows and columns may be used later on.
LEMMA LaterTiles ==
  ASSUME NEW n \in Int, NEW m \in Int, n <= m, num_rows \in Nat, num_cols \in Nat \ {0}, NEW t
  PROVE  (YTile(num_rows, num_cols, t, n) => YTile(num_rows, num_cols, t, m)) /\ (ATile(num_rows, num_cols, t, n) => ATile(num_rows, num_cols, t, m))
<1>1. ASSUME YTile(num_rows, num_cols, t, n) PROVE YTile(num_rows, num_cols, t, m)
  <2>1. PICK r \in 1 .. num_rows - 2, c \in {0, num_cols - 1} : r < n /\ t = r * num_cols + c
    BY <1>1 DEF YTile
  <2>2. r < m
    BY <2>1
  <2> QED
    BY <2>1, <2>2 DEF YTile
<1>2. ASSUME ATile(num_rows, num_cols, t, n) PROVE ATile(num_rows, num_cols, t, m)
  <2>1. PICK r \in {0, num_rows - 1}, c \in 0 .. num_cols - 1 : c < n /\ t = r * num_cols + c
    BY <1>2 DEF ATile
  <2>2. c < m
    BY <2>1
  <2> QED
    BY <2>1, <2>2 DEF ATile
<1> QED
  BY <1>1, <1>2

\* The two Y ports of a row.
LEMMA YPair ==
  ASSUME Lattice, periphery, NEW r \in 1 .. num_rows - 2
  PROVE  LET x == r * num_cols
             y == (r + 1) * num_cols - 1
         IN  /\ x \in Int /\ y \in Int /\ x # y
             /\ YTile(num_rows, num_cols, x, r + 1) /\ YTile(num_rows, num_cols, y, r + 1) /\ YTile(num_rows, num_cols, x, num_rows) /\ YTile(num_rows, num_cols, y, num_rows)
             /\ \A t : YTile(num_rows, num_cols, t, r) => t # x /\ t # y
<1> DEFINE x == r * num_cols
           y == (r + 1) * num_cols - 1
<1>1. num_rows \in Nat /\ num_cols \in Nat \ {0, 1} /\ r \in Int
  BY LatticeFacts
<1>2. x \in Int /\ x = r * num_cols + 0 /\ y = r * num_cols + (num_cols - 1)
  <2>1. (r + 1) * num_cols = r * num_cols + num_cols /\ r * num_cols \in Int
    BY <1>1, Distribute
  <2> QED
    BY <1>1, <2>1
<1> HIDE DEF x, y
<1>3. y \in Int /\ x # y
  BY <1>1, <1>2
<1>4. 0 \in {0, num_cols - 1} /\ num_cols - 1 \in {0, num_cols - 1} /\ r < r + 1 /\ r < num_rows
  BY <1>1
<1>5. YTile(num_rows, num_cols, x, r + 1) /\ YTile(num_rows, num_cols, x, num_rows)
  BY <1>2, <1>4 DEF YTile
<1>6. YTile(num_rows, num_cols, y, r + 1) /\ YTile(num_rows, num_cols, y, num_rows)
  BY <1>2, <1>4 DEF YTile
<1>7. ASSUME NEW t, YTile(num_rows, num_cols, t, r) PROVE t # x /\ t # y
  <2>1. PICK s \in 1 .. num_rows - 2, c \in {0, num_cols - 1} : s < r /\ t = s * num_cols + c
    BY <1>7 DEF YTile
  <2>2. s \in Int /\ c \in 0 .. num_cols - 1 /\ 0 \in 0 .. num_cols - 1 /\ num_cols - 1 \in 0 .. num_cols - 1
    BY <1>1, <2>1
  <2>3. t # r * num_cols + 0
    BY <1>1, <2>1, <2>2, OneRow
  <2>4. t # r * num_cols + (num_cols - 1)
    BY <1>1, <2>1, <2>2, OneRow
  <2> QED
    BY <1>2, <2>3, <2>4
<1> QED
  BY <1>2, <1>3, <1>5, <1>6, <1>7 DEF x, y

\* The two A ports of a column.
LEMMA APair ==
  ASSUME Lattice, periphery, NEW c \in 0 .. num_cols - 1
  PROVE  LET x == c
             y == (num_rows - 1) * num_cols + c
         IN  /\ x \in Int /\ y \in Int /\ x # y
             /\ ATile(num_rows, num_cols, x, c + 1) /\ ATile(num_rows, num_cols, y, c + 1) /\ ATile(num_rows, num_cols, x, num_cols) /\ ATile(num_rows, num_cols, y, num_cols)
             /\ \A t : ATile(num_rows, num_cols, t, c) => t # x /\ t # y
<1> DEFINE y == (num_rows - 1) * num_cols + c
           n == num_rows - 1
<1>1. num_rows \in Nat /\ n \in Nat \ {0} /\ num_cols \in Nat \ {0, 1} /\ c \in Int
  BY LatticeFacts
<1>2. c = 0 * num_cols + c /\ y = n * num_cols + c
  BY <1>1, Distribute
<1>3. n * num_cols \in Int /\ y \in Int
  BY <1>1
<1> HIDE DEF y
<1>4. c # y
  <2> HIDE DEF n
  <2> SUFFICES ASSUME c = y PROVE FALSE
    OBVIOUS
  <2>1. 0 * num_cols + c = n * num_cols + c
    BY <1>2
  <2>2. 0 = n
    BY <1>1, <2>1, OneRow
  <2> QED
    BY <1>1, <2>2
<1>5. 0 \in {0, num_rows - 1} /\ n \in {0, num_rows - 1} /\ c < c + 1 /\ c < num_cols
  BY <1>1
<1> HIDE DEF n
<1>6. ATile(num_rows, num_cols, c, c + 1) /\ ATile(num_rows, num_cols, c, num_cols)
  BY <1>2, <1>5 DEF ATile
<1>7. ATile(num_rows, num_cols, y, c + 1) /\ ATile(num_rows, num_cols, y, num_cols)
  BY <1>2, <1>5 DEF ATile
<1>8. ASSUME NEW t, ATile(num_rows, num_cols, t, c) PROVE t # c /\ t # y
  <2>1. PICK r \in {0, num_rows - 1}, d \in 0 .. num_cols - 1 : d < c /\ t = r * num_cols + d
    BY <1>8 DEF ATile
  <2>2. r \in Int /\ d # c
    BY <1>1, <2>1
  <2>3. t # 0 * num_cols + c
    BY <1>1, <2>1, <2>2, OneRow
  <2>4. t # n * num_cols + c
    BY <1>1, <2>1, <2>2, OneRow
  <2> QED
    BY <1>2, <2>3, <2>4
<1> QED
  BY <1>1, <1>3, <1>4, <1>6, <1>7, <1>8 DEF y

\* The rows get their Y ports, one after the other.
LEMMA PlaceYKeeps == PlacedInv /\ PlaceY => PlacedInv'
<1> SUFFICES ASSUME PlacedInv, PlaceY PROVE PlacedInv'
  OBVIOUS
<1>1. /\ pc = "Y" /\ inputs' = inputs /\ A_state_ids' = A_state_ids
      /\ factory_block' = factory_block
  BY DEF PlaceY
<1>2. periphery /\ Lattice /\ SidePorts
  BY <1>1 DEF PlacedInv, Placed
<1>3. Lattice' /\ periphery'
  BY <1>1, <1>2, SameLattice
<1>4. num_rows \in Nat /\ num_cols \in Nat \ {0} /\ rows_to_Y_factory_ratio \in Nat
  BY <1>2, LatticeFacts, LayoutAssumption
<1>5. /\ Y_state_ids \in Seq(Int) /\ A_state_ids = <<>> /\ i \in Nat \ {0}
      /\ \A k \in DOMAIN Y_state_ids : YTile(num_rows, num_cols, Y_state_ids[k], num_rows)
      /\ i = 1 \/ Y_state_ids # <<>>
      /\ \/ rows_to_Y_factory_ratio = 0 /\ i = 1
         \/ /\ rows_to_Y_factory_ratio # 0 /\ IsInjective(Y_state_ids)
            /\ \A k \in DOMAIN Y_state_ids : YTile(num_rows, num_cols, Y_state_ids[k], i)
  BY <1>1, <1>2 DEF SidePorts
<1>6. CASE i < num_rows - 1
  <2> DEFINE x == i * num_cols
             y == (i + 1) * num_cols - 1
             t == Y_state_ids \o <<x, y>>
             n == Len(Y_state_ids)
  <2>1. Y_state_ids' = t /\ i' = i + rows_to_Y_factory_ratio /\ pc' = "Y"
    BY <1>1, <1>6 DEF PlaceY, YPorts
  <2>2. i \in 1 .. num_rows - 2
    BY <1>4, <1>5, <1>6
  <2>3. /\ x \in Int /\ y \in Int /\ x # y
        /\ YTile(num_rows, num_cols, x, i + 1) /\ YTile(num_rows, num_cols, y, i + 1) /\ YTile(num_rows, num_cols, x, num_rows) /\ YTile(num_rows, num_cols, y, num_rows)
        /\ \A u : YTile(num_rows, num_cols, u, i) => u # x /\ u # y
    BY <1>2, <2>2, YPair
  <2> HIDE DEF x, y
  <2>4. /\ t \in Seq(Int) /\ t # <<>> /\ n \in Nat /\ DOMAIN Y_state_ids = 1 .. n
        /\ DOMAIN t = 1 .. n + 2 /\ \A k \in 1 .. n : t[k] = Y_state_ids[k]
        /\ t[n + 1] = x /\ t[n + 2] = y
    BY <1>5, <2>3, PairAdded
  <2>5. rows_to_Y_factory_ratio # 0 => IsInjective(t)
    BY <1>5, <2>3, PairApart
  <2> HIDE DEF t, n
  <2>6. ASSUME NEW k \in DOMAIN t PROVE k \in 1 .. n \/ k = n + 1 \/ k = n + 2
    BY <2>4
  <2>7. \A k \in DOMAIN t : YTile(num_rows, num_cols, t[k], num_rows)
    BY <1>5, <2>3, <2>4, <2>6
  <2>8. rows_to_Y_factory_ratio # 0 =>
          \A k \in DOMAIN t : YTile(num_rows, num_cols, t[k], i + rows_to_Y_factory_ratio)
    <3> SUFFICES ASSUME rows_to_Y_factory_ratio # 0, NEW k \in DOMAIN t
                 PROVE  YTile(num_rows, num_cols, t[k], i + rows_to_Y_factory_ratio)
      OBVIOUS
    <3>1. /\ i \in Int /\ i + 1 \in Int /\ i + rows_to_Y_factory_ratio \in Int
          /\ i <= i + rows_to_Y_factory_ratio /\ i + 1 <= i + rows_to_Y_factory_ratio
      BY <1>4, <1>5
    <3>2. YTile(num_rows, num_cols, t[k], i) \/ YTile(num_rows, num_cols, t[k], i + 1)
      BY <1>5, <2>3, <2>4, <2>6
    <3> QED
      BY <1>4, <3>1, <3>2, LaterTiles
  <2>9. /\ i' \in Nat \ {0} /\ (rows_to_Y_factory_ratio = 0 => i' = 1)
    BY <1>4, <1>5, <2>1
  <2>10. SidePorts'
    <3>1. \A k \in DOMAIN Y_state_ids' : YTile(num_rows', num_cols', Y_state_ids'[k], num_rows')
      BY <1>1, <2>1, <2>7, SameLattice
    <3>2. rows_to_Y_factory_ratio # 0 =>
            \A k \in DOMAIN Y_state_ids' : YTile(num_rows', num_cols', Y_state_ids'[k], i')
      BY <1>1, <2>1, <2>8, SameLattice
    <3>3. A_state_ids' = <<>> /\ <<>> \in Seq(Int) /\ DOMAIN <<>> = {} /\ i' \in Nat \ {0}
      BY <1>1, <1>5, <2>9
    <3>4. Y_state_ids' \in Seq(Int) /\ Y_state_ids' # <<>>
      BY <2>1, <2>4
    <3>5. \/ rows_to_Y_factory_ratio = 0 /\ i' = 1
          \/ rows_to_Y_factory_ratio # 0 /\ IsInjective(Y_state_ids')
      BY <2>1, <2>5, <2>9
    <3> QED
      BY <2>1, <3>1, <3>2, <3>3, <3>4, <3>5 DEF SidePorts, Placed
  <2> QED
    BY <1>3, <2>1, <2>10 DEF PlacedInv
<1>7. CASE ~(i < num_rows - 1)
  <2>1. Y_state_ids' = Y_state_ids /\ i' = 0 /\ pc' = "A"
    BY <1>1, <1>7 DEF PlaceY
  <2>2. i # 1
    BY <1>2, <1>4, <1>7, LatticeFacts
  <2>3. IsInjective(Y_state_ids) /\ Y_state_ids # <<>>
    BY <1>5, <2>2
  <2>4. A_state_ids' = <<>> /\ <<>> \in Seq(Int) /\ DOMAIN <<>> = {} /\ IsInjective(<<>>)
    BY <1>1, <1>5 DEF IsInjective
  <2>5. \A k \in DOMAIN Y_state_ids' : YTile(num_rows', num_cols', Y_state_ids'[k], num_rows')
    BY <1>1, <1>5, <2>1, SameLattice
  <2>6. SidePorts'
    BY <1>5, <2>1, <2>3, <2>4, <2>5 DEF SidePorts, Placed
  <2> QED
    BY <1>3, <2>1, <2>6 DEF PlacedInv
<1> QED
  BY <1>6, <1>7

\* The columns get their A ports.
LEMMA PlaceAKeeps == PlacedInv /\ PlaceA => PlacedInv'
<1> SUFFICES ASSUME PlacedInv, PlaceA PROVE PlacedInv'
  OBVIOUS
<1>1. /\ pc = "A" /\ inputs' = inputs /\ Y_state_ids' = Y_state_ids
      /\ factory_block' = factory_block
  BY DEF PlaceA
<1>2. periphery /\ Lattice /\ SidePorts
  BY <1>1 DEF PlacedInv, Placed
<1>3. Lattice' /\ periphery' /\ num_rows' = num_rows /\ num_cols' = num_cols
  BY <1>1, <1>2, SameLattice
<1>4. num_rows \in Nat /\ num_cols \in Nat \ {0} /\ cols_to_A_factory_ratio \in Nat
  BY <1>2, LatticeFacts, LayoutAssumption
<1>5. /\ A_state_ids \in Seq(Int) /\ i \in Nat
      /\ Y_state_ids \in Seq(Int) /\ Y_state_ids # <<>> /\ IsInjective(Y_state_ids)
      /\ \A k \in DOMAIN Y_state_ids : YTile(num_rows, num_cols, Y_state_ids[k], num_rows)
      /\ \A k \in DOMAIN A_state_ids : ATile(num_rows, num_cols, A_state_ids[k], num_cols)
      /\ i = 0 \/ A_state_ids # <<>>
      /\ \/ cols_to_A_factory_ratio = 0 /\ i = 0
         \/ /\ cols_to_A_factory_ratio # 0 /\ IsInjective(A_state_ids)
            /\ \A k \in DOMAIN A_state_ids : ATile(num_rows, num_cols, A_state_ids[k], i)
  BY <1>1, <1>2 DEF SidePorts
<1>6. CASE i < num_cols
  <2> DEFINE x == i
             y == (num_rows - 1) * num_cols + i
             t == A_state_ids \o <<x, y>>
             n == Len(A_state_ids)
  <2>1. A_state_ids' = t /\ i' = i + cols_to_A_factory_ratio /\ pc' = "A"
    BY <1>1, <1>6 DEF PlaceA, APorts
  <2>2. i \in 0 .. num_cols - 1
    BY <1>4, <1>5, <1>6
  <2>3. /\ x \in Int /\ y \in Int /\ x # y
        /\ ATile(num_rows, num_cols, x, i + 1) /\ ATile(num_rows, num_cols, y, i + 1)
        /\ ATile(num_rows, num_cols, x, num_cols) /\ ATile(num_rows, num_cols, y, num_cols)
        /\ \A u : ATile(num_rows, num_cols, u, i) => u # x /\ u # y
    BY <1>2, <2>2, APair
  <2> HIDE DEF x, y
  <2>4. /\ t \in Seq(Int) /\ t # <<>> /\ n \in Nat /\ DOMAIN A_state_ids = 1 .. n
        /\ DOMAIN t = 1 .. n + 2 /\ \A k \in 1 .. n : t[k] = A_state_ids[k]
        /\ t[n + 1] = x /\ t[n + 2] = y
    BY <1>5, <2>3, PairAdded
  <2>5. cols_to_A_factory_ratio # 0 => IsInjective(t)
    BY <1>5, <2>3, PairApart
  <2> HIDE DEF t, n
  <2>6. ASSUME NEW k \in DOMAIN t PROVE k \in 1 .. n \/ k = n + 1 \/ k = n + 2
    BY <2>4
  <2>7. \A k \in DOMAIN t : ATile(num_rows, num_cols, t[k], num_cols)
    BY <1>5, <2>3, <2>4, <2>6
  <2>8. cols_to_A_factory_ratio # 0 =>
          \A k \in DOMAIN t : ATile(num_rows, num_cols, t[k], i + cols_to_A_factory_ratio)
    <3> SUFFICES ASSUME cols_to_A_factory_ratio # 0, NEW k \in DOMAIN t
                 PROVE  ATile(num_rows, num_cols, t[k], i + cols_to_A_factory_ratio)
      OBVIOUS
    <3>1. /\ i \in Int /\ i + 1 \in Int /\ i + cols_to_A_factory_ratio \in Int
          /\ i <= i + cols_to_A_factory_ratio /\ i + 1 <= i + cols_to_A_factory_ratio
      BY <1>4, <1>5
    <3>2. ATile(num_rows, num_cols, t[k], i) \/ ATile(num_rows, num_cols, t[k], i + 1)
      BY <1>5, <2>3, <2>4, <2>6
    <3> QED
      BY <1>4, <3>1, <3>2, LaterTiles
  <2>9. i' \in Nat /\ (cols_to_A_factory_ratio = 0 => i' = 0)
    BY <1>4, <1>5, <2>1
  <2>10. SidePorts'
    <3>1. \A k \in DOMAIN A_state_ids' : ATile(num_rows', num_cols', A_state_ids'[k], num_cols')
      BY <1>3, <2>1, <2>7
    <3>2. cols_to_A_factory_ratio # 0 =>
            \A k \in DOMAIN A_state_ids' : ATile(num_rows', num_cols', A_state_ids'[k], i')
      BY <1>3, <2>1, <2>8
    <3>3. \A k \in DOMAIN Y_state_ids' : YTile(num_rows', num_cols', Y_state_ids'[k], num_rows')
      BY <1>1, <1>3, <1>5
    <3>4. A_state_ids' \in Seq(Int) /\ A_state_ids' # <<>>
      BY <2>1, <2>4
    <3>5. \/ cols_to_A_factory_ratio = 0 /\ i' = 0
          \/ cols_to_A_factory_ratio # 0 /\ IsInjective(A_state_ids')
      BY <2>1, <2>5, <2>9
    <3>6. Y_state_ids' \in Seq(Int) /\ Y_state_ids' # <<>> /\ IsInjective(Y_state_ids')
      BY <1>1, <1>5
    <3> QED
      BY <2>1, <2>9, <3>1, <3>2, <3>3, <3>4, <3>5, <3>6 DEF SidePorts, Placed
  <2> QED
    BY <1>3, <2>1, <2>10 DEF PlacedInv
<1>7. CASE ~(i < num_cols)
  <2>1. Y_state_ids' = Y_state_ids /\ A_state_ids' = A_state_ids /\ i' = i /\ pc' = "update"
    BY <1>1, <1>7 DEF PlaceA
  <2>2. i # 0
    BY <1>4, <1>7
  <2>3. IsInjective(A_state_ids) /\ A_state_ids # <<>>
    BY <1>5, <2>2
  <2>4. /\ \A k \in DOMAIN Y_state_ids' : YTile(num_rows', num_cols', Y_state_ids'[k], num_rows')
        /\ \A k \in DOMAIN A_state_ids' : ATile(num_rows', num_cols', A_state_ids'[k], num_cols')
    BY <1>3, <1>5, <2>1
  <2>5. SidePorts'
    BY <1>5, <2>1, <2>3, <2>4 DEF SidePorts, Placed
  <2> QED
    BY <1>3, <2>1, <2>5 DEF PlacedInv, Placed
<1> QED
  BY <1>6, <1>7

\* Both blocks and their ports are placed at once.
LEMMA PlaceBlocksKeeps == PlacedInv /\ PlaceBlocks => PlacedInv'
<1> SUFFICES ASSUME PlacedInv, PlaceBlocks PROVE PlacedInv'
  OBVIOUS
<1>1. pc = "blocks" /\ pc' = "update" /\ inputs' = inputs
  BY DEF PlaceBlocks
<1>2. ~periphery /\ Lattice
  BY <1>1 DEF PlacedInv, Placed
<1>3. Lattice' /\ ~periphery' /\ num_rows' = num_rows /\ num_cols' = num_cols /\ factories' = factories
  BY <1>1, <1>2, SameLattice
<1>4. MiddlePorts'
  BY <1>1, <1>3 DEF PlaceBlocks, MiddlePorts, Placed, Block, BlockPort, StartRow, StartCol
<1> QED
  BY <1>1, <1>3, <1>4 DEF PlacedInv, Placed

\* Nothing moves once it is placed.
LEMMA PlacedStays ==
  ASSUME PlacedInv, UNCHANGED <<inputs, i, ports>>, (Placed /\ Placed') \/ pc' = pc
  PROVE  PlacedInv'
<1>1. /\ Y_state_ids' = Y_state_ids /\ A_state_ids' = A_state_ids /\ i' = i
      /\ factory_block' = factory_block
  BY DEF ports
<1>2. /\ Lattice' /\ periphery' = periphery /\ num_rows' = num_rows /\ num_cols' = num_cols
      /\ factories' = factories
  BY SameLattice DEF PlacedInv
<1>3. periphery => SidePorts'
  <2> SUFFICES ASSUME periphery PROVE SidePorts'
    OBVIOUS
  <2>1. SidePorts
    BY DEF PlacedInv
  <2> QED
    BY <1>1, <1>2, <2>1 DEF SidePorts, Placed
<1>4. ~periphery => MiddlePorts'
  <2> SUFFICES ASSUME ~periphery PROVE MiddlePorts'
    OBVIOUS
  <2>1. MiddlePorts
    BY DEF PlacedInv
  <2> QED
    BY <1>1, <1>2, <2>1 DEF MiddlePorts, Placed, Block, BlockPort, StartRow, StartCol
<1> QED
  BY <1>2, <1>3, <1>4 DEF PlacedInv, Placed

\* Every step preserves PlacedInv.
LEMMA NextPlaced == PlacedInv /\ [Next]_vars => PlacedInv'
<1> SUFFICES ASSUME PlacedInv, [Next]_vars PROVE PlacedInv'
  OBVIOUS
<1>1. CASE PlaceBlocks
  BY <1>1, PlaceBlocksKeeps
<1>2. CASE PlaceY
  BY <1>2, PlaceYKeeps
<1>3. CASE PlaceA
  BY <1>3, PlaceAKeeps
<1>4. CASE UpdateGate
  <2>1. pc' = pc /\ UNCHANGED <<inputs, i, ports>>
    BY <1>4 DEF UpdateGate
  <2> QED
    BY <2>1, PlacedStays
<1>5. CASE FinishSetup
  <2>1. Placed /\ Placed' /\ UNCHANGED <<inputs, i, ports>>
    BY <1>5 DEF FinishSetup, Placed
  <2> QED
    BY <2>1, PlacedStays
<1>6. CASE UNCHANGED vars
  <2>1. pc' = pc /\ UNCHANGED <<inputs, i, ports>>
    BY <1>6 DEF vars
  <2> QED
    BY <2>1, PlacedStays
<1> QED
  BY <1>1, <1>2, <1>3, <1>4, <1>5, <1>6 DEF Next

-----------------------------------------------------------------------------
(* TilesApart.                                                             *)

\* The blocks have finitely many tiles.
LEMMA BlocksFinite ==
  PlacedInv /\ ~periphery => factory_block \subseteq Int /\ IsFiniteSet(factory_block)
<1> SUFFICES ASSUME PlacedInv, ~periphery
             PROVE  factory_block \subseteq Int /\ IsFiniteSet(factory_block)
  OBVIOUS
<1>1. Lattice /\ MiddlePorts /\ (pc = "blocks" \/ Placed)
  BY DEF PlacedInv
<1>2. CASE pc = "blocks"
  BY <1>1, <1>2, FS_EmptySet DEF MiddlePorts
<1>3. CASE Placed
  <2> DEFINE Y == Block(factories.Y_area)
             A == Block(factories.A_area)
  <2>1. factory_block = Y \union A
    BY <1>1, <1>3 DEF MiddlePorts
  <2>2. factories.Y_area \in Nat /\ factories.A_area \in Nat
    BY <1>1, LayoutAssumption DEF Lattice
  <2>3. Y \subseteq Int /\ IsFiniteSet(Y) /\ A \subseteq Int /\ IsFiniteSet(A)
    BY <1>1, <2>2, BlockFinite
  <2> HIDE DEF Y, A
  <2>4. IsFiniteSet(Y \union A)
    BY <2>3, FS_Union
  <2> QED
    BY <2>1, <2>3, <2>4
<1> QED
  BY <1>1, <1>2, <1>3

\* Ports on the sides, qubits inside.
LEMMA QubitIsNoPort ==
  ASSUME PlacedInv, periphery, NEW q \in 0 .. module.q_count - 1
  PROVE  Renumbered(q) \notin Ports
<1>1. Lattice /\ SidePorts
  BY DEF PlacedInv
<1>2. PICK r \in 1 .. num_rows - 2, c \in 1 .. num_cols - 2 : Renumbered(q) = r * num_cols + c
  BY <1>1, WiderLattice
<1>3. /\ num_cols \in Nat \ {0} /\ num_rows \in Nat /\ r \in Int /\ c \in 0 .. num_cols - 1
      /\ c # 0 /\ c # num_cols - 1 /\ r # 0 /\ r # num_rows - 1
  BY <1>1, LatticeFacts
<1>4. ASSUME NEW k \in DOMAIN Y_state_ids PROVE Y_state_ids[k] # Renumbered(q)
  <2>1. PICK s \in 1 .. num_rows - 2, d \in {0, num_cols - 1} : Y_state_ids[k] = s * num_cols + d
    BY <1>1 DEF SidePorts, YTile
  <2>2. s \in Int /\ d \in 0 .. num_cols - 1 /\ d # c
    BY <1>3
  <2>3. s * num_cols + d # r * num_cols + c
    BY <1>3, <2>2, OneRow
  <2> QED
    BY <1>2, <2>1, <2>3
<1>5. ASSUME NEW k \in DOMAIN A_state_ids PROVE A_state_ids[k] # Renumbered(q)
  <2>1. PICK s \in {0, num_rows - 1}, d \in 0 .. num_cols - 1 : A_state_ids[k] = s * num_cols + d
    BY <1>1 DEF SidePorts, ATile
  <2>2. s \in Int /\ s # r
    BY <1>3
  <2> QED
    BY <1>2, <1>3, <2>1, <2>2, OneRow
<1> QED
  BY <1>4, <1>5 DEF Ports, Range

\* The first four ports are corners of their block.
LEMMA FirstPortsInBlock ==
  ASSUME Lattice, NEW area \in Nat \ {0}, NEW k \in 1 .. 4
  PROVE  BlockPort(area, area, k) \in Block(area)
<1> DEFINE R == GridRows(area)
           C == GridCols(area)
           S == StartRow(area)
           T == StartCol(area)
           tile(r, c) == (S + r) * num_cols + T + c
<1>1. R \in Nat \ {0} /\ C \in Nat \ {0} /\ num_cols \in Nat \ {0} /\ num_rows \in Nat
  BY GridFacts, LatticeFacts
<1>2. S \in Int /\ T \in Int
  <2>1. num_rows - R \in Int /\ num_cols - C \in Int /\ 2 \in Nat \ {0}
    BY <1>1
  <2>2. (num_rows - R) \div 2 \in Int /\ (num_cols - C) \div 2 \in Int
    BY <2>1, DivMod
  <2> QED
    BY <2>2 DEF StartRow, StartCol
<1>3. \A r \in 0 .. R - 1, c \in 0 .. C - 1 : tile(r, c) \in Block(area)
  BY DEF Block
<1>4. (k - 1) \div 4 = 0
  BY DivMod
<1>5. BlockPort(area, area, k) =
        CASE k % 4 = 1 -> S * num_cols + T + 0
          [] k % 4 = 2 -> (S + 0) * num_cols + (T + C - 1)
          [] k % 4 = 3 -> (S + R - 1) * num_cols + (T + C - 1) - 0
          [] OTHER     -> ((S + R - 1) - 0) * num_cols + T
  BY <1>4 DEF BlockPort
<1> HIDE DEF R, C, S, T
<1>6. 0 \in 0 .. R - 1 /\ R - 1 \in 0 .. R - 1 /\ 0 \in 0 .. C - 1 /\ C - 1 \in 0 .. C - 1
  BY <1>1
<1>7. S + 0 = S /\ S + (R - 1) = S + R - 1 /\ (S + R - 1) - 0 = S + R - 1
  BY <1>1, <1>2
<1>8. S * num_cols \in Int /\ (S + R - 1) * num_cols \in Int
  BY <1>1, <1>2
<1>9. /\ tile(0, 0) = S * num_cols + T + 0
      /\ tile(0, C - 1) = S * num_cols + (T + C - 1)
      /\ tile(R - 1, C - 1) = (S + R - 1) * num_cols + (T + C - 1)
      /\ tile(R - 1, 0) = (S + R - 1) * num_cols + T
  BY <1>1, <1>2, <1>7, <1>8
<1>10. /\ tile(0, 0) \in Block(area) /\ tile(0, C - 1) \in Block(area)
       /\ tile(R - 1, C - 1) \in Block(area) /\ tile(R - 1, 0) \in Block(area)
  BY <1>3, <1>6
<1> HIDE DEF tile
<1>11. BlockPort(area, area, k) \in {tile(0, 0), tile(0, C - 1), tile(R - 1, C - 1), tile(R - 1, 0)}
  <2>1. ((S + R - 1) * num_cols + (T + C - 1)) - 0 = (S + R - 1) * num_cols + (T + C - 1)
    BY <1>1, <1>2, <1>8
  <2>2. k % 4 = 1 \/ k % 4 = 2 \/ k % 4 = 3 \/ k % 4 = 0
    OBVIOUS
  <2>3. S * num_cols + T + 0 = tile(0, 0)
    BY <1>9
  <2>4. (S + 0) * num_cols + (T + C - 1) = tile(0, C - 1)
    BY <1>7, <1>9
  <2>5. (S + R - 1) * num_cols + (T + C - 1) - 0 = tile(R - 1, C - 1)
    BY <1>1, <1>2, <1>8, <1>9
  <2>6. ((S + R - 1) - 0) * num_cols + T = tile(R - 1, 0)
    BY <1>7, <1>9
  <2>7. CASE k % 4 = 1
    BY <1>5, <2>3, <2>7
  <2>8. CASE k % 4 = 2
    BY <1>5, <2>4, <2>8
  <2>9. CASE k % 4 = 3
    BY <1>5, <2>5, <2>9
  <2>10. CASE k % 4 = 0
    BY <1>5, <2>6, <2>10
  <2> QED
    BY <2>2, <2>7, <2>8, <2>9, <2>10
<1> QED
  BY <1>10, <1>11

\* TilesApart, from where the ports are and how qubits are renumbered.
LEMMA PlacedApart == PlacedInv => TilesApart
<1> SUFFICES ASSUME PlacedInv, Placed PROVE TilesApart
  BY DEF TilesApart
<1>1. Lattice /\ (~periphery => IsFiniteSet(factory_block))
  BY BlocksFinite DEF PlacedInv
<1>2. \A p, q \in 0 .. module.q_count - 1 : Renumbered(p) = Renumbered(q) => p = q
  BY <1>1, DataApart
<1>3. Fits => \A q \in 0 .. module.q_count - 1 : Renumbered(q) \in Tiles
  BY <1>1, DataInside
<1>4. periphery => \A q \in 0 .. module.q_count - 1 : Renumbered(q) \notin Ports
  BY QubitIsNoPort
<1>5. periphery => IsInjective(Y_state_ids) /\ IsInjective(A_state_ids)
  BY DEF PlacedInv, SidePorts, Placed
<1>6. ASSUME ~periphery, factories.A_area > 0, NEW k \in DOMAIN A_state_ids \cap 1 .. 4
      PROVE  A_state_ids[k] \in Block(factories.A_area)
  <2>1. factories.A_area \in Nat \ {0}
    BY <1>1, <1>6, LayoutAssumption DEF Lattice
  <2>2. A_state_ids[k] = BlockPort(factories.A_area, factories.A_area, k)
    BY <1>6 DEF PlacedInv, MiddlePorts
  <2> QED
    BY <1>1, <1>6, <2>1, <2>2, FirstPortsInBlock
<1> QED
  BY <1>2, <1>3, <1>4, <1>5, <1>6 DEF TilesApart

-----------------------------------------------------------------------------
(* Gates.                                                                  *)

\* The tiles of the data qubits.
DataTiles == {Renumbered(q) : q \in 0 .. module.q_count - 1}

\* Gates on tiles of data qubits and ports, or on tile 0 for want of a port.
SimulableGates ==
  {g \in [seq : Nat, op : {"CNOT", "H"}, qid : Seq(Int), from : Nat] :
     /\ Range(g.qid) \subseteq DataTiles \union Ports \union {0}
     /\ g.op = "CNOT" /\ periphery => g.qid[1] # g.qid[2]}

\* The replacements are numbered on from the last parsed gate, each gate kept
\* has the number it had.
GatesInv ==
  /\ kept \in Seq(SimulableGates) /\ to_push_gates \in Seq(SimulableGates)
  /\ next \in 1 .. Len(module.gates) + 1
  /\ ~Placed => kept = <<>> /\ to_push_gates = <<>>
  /\ seq = Len(module.gates) + Len(to_push_gates)
  /\ \A k \in DOMAIN to_push_gates : to_push_gates[k].seq = Len(module.gates) + k
  /\ pc # "done" => \A k \in DOMAIN kept : kept[k].seq \in 1 .. next - 1
  /\ \A k, m \in DOMAIN kept : kept[k].seq = kept[m].seq => k = m

\* The inductive invariant.
SetupInv == PlacedInv /\ GatesInv

\* A distance is a natural number.
LEMMA CostNat ==
  ASSUME NEW a \in Int, NEW b \in Int, num_cols \in Nat \ {0}
  PROVE  manhattan_cost(a, b) \in Nat
<1>1. /\ a \div num_cols \in Int /\ b \div num_cols \in Int
      /\ a % num_cols \in Int /\ b % num_cols \in Int
  BY DivMod
<1>2. ASSUME NEW x \in Int, NEW y \in Int PROVE Difference(x, y) \in Nat
  BY DEF Difference
<1>3. /\ Difference(a \div num_cols, b \div num_cols) \in Nat
      /\ Difference(a % num_cols, b % num_cols) \in Nat
  BY <1>1, <1>2
<1> QED
  BY <1>3 DEF manhattan_cost

\* The closest port is one of the ports.
LEMMA ClosestIsPort ==
  ASSUME NEW ids \in Seq(Int), NEW q \in Int, num_cols \in Nat \ {0}
  PROVE  /\ find_closest_magic(q, ids) \in Range(ids) \union {0}
         /\ ids # <<>> => find_closest_magic(q, ids) \in Range(ids)
<1>1. CASE ids = <<>>
  BY <1>1 DEF find_closest_magic
<1>2. CASE ids # <<>>
  <2> DEFINE Cost(k) == manhattan_cost(q, ids[k])
             D == DOMAIN ids
             Best(k) == \A m \in D : Cost(k) < Cost(m) \/ (Cost(k) = Cost(m) /\ k <= m)
  <2>1. D = 1 .. Len(ids) /\ Len(ids) \in Nat /\ 1 \in D
    BY <1>2
  <2>2. \A k \in D : ids[k] \in Int
    BY <2>1
  <2>3. \A k \in D : Cost(k) \in Nat
    BY <2>2, CostNat
  <2> HIDE DEF Cost
  <2>4. PICK c \in {Cost(k) : k \in D} : \A d \in {Cost(k) : k \in D} : c <= d
    <3>1. {Cost(k) : k \in D} \in SUBSET Nat /\ {Cost(k) : k \in D} # {}
      BY <2>1, <2>3
    <3> HIDE DEF D
    <3> QED
      BY <3>1, LeastExists
  <2>5. PICK k \in {j \in D : Cost(j) = c} : \A j \in {j \in D : Cost(j) = c} : k <= j
    <3>1. {j \in D : Cost(j) = c} \in SUBSET Nat /\ {j \in D : Cost(j) = c} # {}
      BY <2>1, <2>4
    <3> QED
      BY <3>1, LeastExists
  <2>6. Best(k)
    <3> SUFFICES ASSUME NEW m \in D
                 PROVE  Cost(k) < Cost(m) \/ (Cost(k) = Cost(m) /\ k <= m)
      OBVIOUS
    <3>1. Cost(k) = c /\ c <= Cost(m) /\ (Cost(m) = c => k <= m)
      BY <2>4, <2>5
    <3> QED
      BY <2>3, <2>5, <3>1
  <2>7. find_closest_magic(q, ids) = ids[CHOOSE j \in D : Best(j)]
    BY <1>2 DEF find_closest_magic, Cost
  <2> HIDE DEF Best
  <2>8. (CHOOSE j \in D : Best(j)) \in D
    BY <2>5, <2>6
  <2> HIDE DEF D
  <2>9. ids[CHOOSE j \in D : Best(j)] \in Range(ids)
    BY <2>8 DEF Range, D
  <2> QED
    BY <2>7, <2>9
<1> QED
  BY <1>1, <1>2

\* Ports beside a block have whole numbers.
LEMMA BlockPortType ==
  ASSUME Lattice, NEW area \in Nat, NEW from \in Nat, NEW k \in Nat
  PROVE  BlockPort(area, from, k) \in Int
<1> DEFINE S == StartRow(from)
           T == StartCol(from)
           B == S + GridRows(area) - 1
           R == T + GridCols(area) - 1
           d == (k - 1) \div 4
<1>1. /\ GridRows(area) \in Int /\ GridCols(area) \in Int
      /\ num_cols \in Int /\ num_rows \in Int
      /\ GridRows(from) \in Int /\ GridCols(from) \in Int
  BY GridFacts, LatticeFacts
<1>2. S \in Int /\ T \in Int
  BY <1>1, DivMod DEF StartRow, StartCol
<1>3. B \in Int /\ R \in Int
  BY <1>1, <1>2
<1>4. d \in Int
  BY DivMod
<1>5. BlockPort(area, from, k) =
        CASE k % 4 = 1 -> S * num_cols + T + d
          [] k % 4 = 2 -> (S + d) * num_cols + R
          [] k % 4 = 3 -> B * num_cols + R - d
          [] OTHER     -> (B - d) * num_cols + T
  BY DEF BlockPort
<1> HIDE DEF S, T, B, R, d
<1>6. /\ S * num_cols + T + d \in Int
      /\ (S + d) * num_cols + R \in Int
      /\ B * num_cols + R - d \in Int
      /\ (B - d) * num_cols + T \in Int
  BY <1>1, <1>2, <1>3, <1>4
<1>7. k % 4 = 1 \/ k % 4 = 2 \/ k % 4 = 3 \/ k % 4 = 0
  OBVIOUS
<1> QED
  BY <1>5, <1>6, <1>7

\* What is known of the ports once they are placed.
LEMMA PortsPlaced ==
  ASSUME PlacedInv, Placed
  PROVE  /\ Y_state_ids \in Seq(Int) /\ A_state_ids \in Seq(Int)
         /\ periphery => Y_state_ids # <<>> /\ A_state_ids # <<>>
<1>1. CASE periphery
  BY <1>1 DEF PlacedInv, SidePorts, Placed
<1>2. CASE ~periphery
  <2>1. /\ Lattice
        /\ Y_state_ids = [k \in 1 .. factories.Y_ports |->
                            BlockPort(factories.Y_area, factories.A_area, k)]
        /\ A_state_ids = [k \in 1 .. factories.A_ports |->
                            BlockPort(factories.A_area, factories.A_area, k)]
    BY <1>2 DEF PlacedInv, MiddlePorts
  <2>2. /\ factories.Y_area \in Nat /\ factories.A_area \in Nat
        /\ factories.Y_ports \in Nat /\ factories.A_ports \in Nat
    BY <2>1, LayoutAssumption DEF Lattice
  <2>3. \A k \in Nat : /\ BlockPort(factories.Y_area, factories.A_area, k) \in Int
                       /\ BlockPort(factories.A_area, factories.A_area, k) \in Int
    BY <2>1, <2>2, BlockPortType
  <2>4. Y_state_ids \in Seq(Int)
    BY <2>1, <2>2, <2>3
  <2>5. A_state_ids \in Seq(Int)
    BY <2>1, <2>2, <2>3
  <2> QED
    BY <1>2, <2>4, <2>5
<1> QED
  BY <1>1, <1>2

\* The operands a gate may be given.
LEMMA OperandTiles ==
  ASSUME PlacedInv, Placed, NEW arg \in 0 .. module.q_count - 1
  PROVE  /\ Renumbered(arg) \in DataTiles \cap Int
         /\ find_closest_magic(Renumbered(arg), Y_state_ids) \in (Ports \union {0}) \cap Int
         /\ find_closest_magic(Renumbered(arg), A_state_ids) \in (Ports \union {0}) \cap Int
         /\ periphery =>
              /\ find_closest_magic(Renumbered(arg), Y_state_ids) # Renumbered(arg)
              /\ find_closest_magic(Renumbered(arg), A_state_ids) # Renumbered(arg)
<1> DEFINE q == Renumbered(arg)
           y == find_closest_magic(q, Y_state_ids)
           a == find_closest_magic(q, A_state_ids)
<1>1. q \in Int
  <2>1. Lattice /\ (~periphery => IsFiniteSet(factory_block))
    BY BlocksFinite DEF PlacedInv
  <2> QED
    BY <2>1, RenumberedType
<1>2. q \in DataTiles
  BY DEF DataTiles
<1>3. num_cols \in Nat \ {0}
  BY LatticeFacts DEF PlacedInv
<1>4. periphery => q \notin Ports
  BY QubitIsNoPort
<1>5. /\ Y_state_ids \in Seq(Int) /\ A_state_ids \in Seq(Int)
      /\ periphery => Y_state_ids # <<>> /\ A_state_ids # <<>>
  BY PortsPlaced
<1> HIDE DEF q
<1>6. /\ y \in Range(Y_state_ids) \union {0}
      /\ periphery => y \in Range(Y_state_ids)
  BY <1>1, <1>3, <1>5, ClosestIsPort
<1>7. /\ a \in Range(A_state_ids) \union {0}
      /\ periphery => a \in Range(A_state_ids)
  BY <1>1, <1>3, <1>5, ClosestIsPort
<1> HIDE DEF y, a
<1>8. Range(Y_state_ids) \subseteq Int /\ Range(A_state_ids) \subseteq Int
  BY <1>5 DEF Range
<1>9. /\ y \in (Ports \union {0}) \cap Int /\ a \in (Ports \union {0}) \cap Int
      /\ periphery => y # q /\ a # q
  BY <1>4, <1>6, <1>7, <1>8 DEF Ports
<1> QED
  BY <1>1, <1>2, <1>9 DEF q, y, a

\* The next gate and its renumbered operands.
LEMMA NextGate ==
  ASSUME PlacedInv, Placed, next \in 1 .. Len(module.gates),
         NEW g, g = module.gates[next],
         NEW qid, qid = [k \in DOMAIN g.qid |-> Renumbered(g.qid[k])]
  PROVE  /\ g.op \in Ops
         /\ qid \in Seq(Int) /\ Range(qid) \subseteq DataTiles
         /\ g.qid[1] \in 0 .. module.q_count - 1 /\ qid[1] = Renumbered(g.qid[1])
         /\ g.op = "CNOT" => qid[1] # qid[2]
<1>1. /\ Lattice /\ (~periphery => IsFiniteSet(factory_block))
  BY BlocksFinite DEF PlacedInv
<1>2. IsParsedGate(g, module.q_count)
  <2>1. /\ module.gates \in Seq(Range(module.gates))
        /\ \A k \in DOMAIN module.gates : IsParsedGate(module.gates[k], module.q_count)
    BY <1>1, ModulesAssumption DEF Lattice
  <2>2. next \in DOMAIN module.gates
    BY <2>1
  <2> QED
    BY <2>1, <2>2
<1>3. /\ g.op \in Ops /\ g.qid \in Seq(0 .. module.q_count - 1)
      /\ IF g.op = "CNOT" THEN Len(g.qid) = 2 /\ g.qid[1] # g.qid[2] ELSE Len(g.qid) = 1
  BY <1>2 DEF IsParsedGate
<1> DEFINE n == Len(g.qid)
           args == g.qid
           Qubits == 0 .. module.q_count - 1
<1>4. n \in Nat /\ 1 \in 1 .. n /\ (g.op = "CNOT" => n = 2) /\ DOMAIN args = 1 .. n
  <2>1. n \in {1, 2} /\ (g.op = "CNOT" => n = 2)
    BY <1>3
  <2>2. DOMAIN args = 1 .. n
    BY <1>3
  <2> HIDE DEF n
  <2> QED
    BY <2>1, <2>2
<1>5. \A k \in 1 .. n : args[k] \in Qubits
  <2>1. args \in Seq(Qubits)
    BY <1>3
  <2> HIDE DEF args, Qubits, n
  <2> QED
    BY <1>4, <2>1
<1>6. qid = [k \in 1 .. n |-> Renumbered(args[k])]
  BY <1>4
<1>7. \A k \in 1 .. n : /\ qid[k] = Renumbered(args[k])
                        /\ qid[k] \in DataTiles /\ qid[k] \in Int
  <2> SUFFICES ASSUME NEW k \in 1 .. n
               PROVE  /\ qid[k] = Renumbered(args[k])
                      /\ qid[k] \in DataTiles /\ qid[k] \in Int
    OBVIOUS
  <2>1. qid[k] = Renumbered(args[k])
    BY <1>6
  <2>2. Renumbered(args[k]) \in DataTiles \cap Int
    BY <1>5, OperandTiles
  <2> QED
    BY <2>1, <2>2
<1>8. qid \in Seq(Int)
  <2>1. qid = [k \in 1 .. n |-> qid[k]]
    BY <1>6
  <2> HIDE DEF n
  <2> QED
    BY <1>4, <1>7, <2>1
<1>9. Range(qid) \subseteq DataTiles
  <2>1. DOMAIN qid = 1 .. n
    BY <1>6
  <2> HIDE DEF n
  <2> QED
    BY <1>7, <2>1 DEF Range
<1>10. ASSUME g.op = "CNOT" PROVE qid[1] # qid[2]
  <2>1. 1 \in 1 .. n /\ 2 \in 1 .. n /\ args[1] # args[2]
    <3>1. n = 2 /\ args[1] # args[2]
      BY <1>3, <1>10
    <3> HIDE DEF n
    <3> QED
      BY <3>1
  <2>2. qid[1] = Renumbered(args[1]) /\ qid[2] = Renumbered(args[2])
    BY <1>7, <2>1
  <2>3. args[1] \in Qubits /\ args[2] \in Qubits
    BY <1>5, <2>1
  <2> HIDE DEF args
  <2> QED
    BY <1>1, <2>1, <2>2, <2>3, DataApart
<1> QED
  BY <1>3, <1>4, <1>5, <1>7, <1>8, <1>9, <1>10

\* A gate on such tiles.
LEMMA GateIsSimulable ==
  ASSUME NEW n \in Nat, NEW op \in {"CNOT", "H"}, NEW qid \in Seq(Int), NEW from \in Nat,
         Range(qid) \subseteq DataTiles \union Ports \union {0},
         op = "CNOT" /\ periphery => qid[1] # qid[2]
  PROVE  Gate(n, op, qid, from) \in SimulableGates
BY DEF Gate, SimulableGates

\* The replacements of an S and of a T gate.
LEMMA ReplacementsSimulable ==
  ASSUME NEW n \in Nat, NEW from \in Nat,
         NEW q \in DataTiles \cap Int, NEW p \in (Ports \union {0}) \cap Int,
         periphery => p # q
  PROVE  /\ GatesForS(n, q, p, from) \in Seq(SimulableGates)
         /\ GatesForT(n, q, p, from) \in Seq(SimulableGates)
         /\ Len(GatesForS(n, q, p, from)) = 4 /\ Len(GatesForT(n, q, p, from)) = 4
         /\ \A k \in 1 .. 4 : /\ GatesForS(n, q, p, from)[k].seq = n + k
                              /\ GatesForT(n, q, p, from)[k].seq = n + k
<1> DEFINE All == DataTiles \union Ports \union {0}
<1>1. /\ <<q, p>> \in Seq(Int) /\ <<p, q>> \in Seq(Int) /\ <<p>> \in Seq(Int)
  OBVIOUS
<1>2. Range(<<q, p>>) \subseteq All /\ Range(<<p, q>>) \subseteq All /\ Range(<<p>>) \subseteq All
  BY DEF Range
<1>3. /\ periphery => <<q, p>>[1] # <<q, p>>[2]
      /\ periphery => <<p, q>>[1] # <<p, q>>[2]
  OBVIOUS
<1>4. \A m \in Nat : /\ Gate(m, "CNOT", <<q, p>>, from) \in SimulableGates
                     /\ Gate(m, "CNOT", <<p, q>>, from) \in SimulableGates
                     /\ Gate(m, "H", <<p>>, from) \in SimulableGates
  BY <1>1, <1>2, <1>3, GateIsSimulable
<1>5. \A m, op, qid : Gate(m, op, qid, from).seq = m
  BY DEF Gate
<1> HIDE DEF All
<1>6. n + 1 \in Nat /\ n + 2 \in Nat /\ n + 3 \in Nat /\ n + 4 \in Nat
  OBVIOUS
<1>7. GatesForS(n, q, p, from) \in Seq(SimulableGates) /\ Len(GatesForS(n, q, p, from)) = 4
  BY <1>4, <1>6 DEF GatesForS
<1>8. GatesForT(n, q, p, from) \in Seq(SimulableGates) /\ Len(GatesForT(n, q, p, from)) = 4
  BY <1>4, <1>6 DEF GatesForT
<1>9. ASSUME NEW k \in 1 .. 4 PROVE GatesForS(n, q, p, from)[k].seq = n + k
  <2>1. k = 1 \/ k = 2 \/ k = 3 \/ k = 4
    OBVIOUS
  <2> QED
    BY <1>5, <2>1 DEF GatesForS
<1>10. ASSUME NEW k \in 1 .. 4 PROVE GatesForT(n, q, p, from)[k].seq = n + k
  <2>1. k = 1 \/ k = 2 \/ k = 3 \/ k = 4
    OBVIOUS
  <2> QED
    BY <1>5, <2>1 DEF GatesForT
<1> QED
  BY <1>7, <1>8, <1>9, <1>10

\* Where nothing is placed there is no gate yet.
LEMMA InitGates == Init => GatesInv
<1> SUFFICES ASSUME Init PROVE GatesInv
  OBVIOUS
<1>1. Len(module.gates) \in Nat
  BY ModulesAssumption DEF Init
<1>2. next = 1 /\ seq = Len(module.gates) /\ kept = <<>> /\ to_push_gates = <<>>
  BY DEF Init
<1> QED
  BY <1>1, <1>2 DEF GatesInv

\* Placing the ports leaves the gates alone.
LEMMA PlacingKeepsGates ==
  ASSUME GatesInv, ~Placed, UNCHANGED <<inputs, gates>>, pc' # "done"
  PROVE  GatesInv'
<1>1. /\ module' = module /\ kept' = <<>> /\ to_push_gates' = <<>>
      /\ next' = next /\ seq' = seq
  BY DEF GatesInv, inputs, gates
<1>2. next \in 1 .. Len(module.gates) + 1 /\ seq = Len(module.gates) + Len(<<>>)
  BY <1>1 DEF GatesInv
<1> QED
  BY <1>1, <1>2 DEF GatesInv

\* The tiles of qubits and ports do not change any more.
LEMMA SameGates ==
  ASSUME UNCHANGED <<inputs, ports>>
  PROVE  SimulableGates' = SimulableGates
<1>1. /\ module' = module /\ periphery' = periphery /\ num_cols' = num_cols
      /\ Y_state_ids' = Y_state_ids /\ A_state_ids' = A_state_ids
      /\ factory_block' = factory_block
  BY DEF inputs, ports
<1>2. DataTiles' = DataTiles
  BY <1>1 DEF DataTiles, Renumbered
<1>3. Ports' = Ports
  BY <1>1 DEF Ports
<1> QED
  BY <1>1, <1>2, <1>3 DEF SimulableGates

\* More gates at the end of a list.
LEMMA GatesAdded ==
  ASSUME NEW S, NEW s \in Seq(S), NEW t \in Seq(S)
  PROVE  /\ s \o t \in Seq(S) /\ Len(s \o t) = Len(s) + Len(t)
         /\ \A k \in 1 .. Len(s) : (s \o t)[k] = s[k]
         /\ \A k \in 1 .. Len(t) : (s \o t)[Len(s) + k] = t[k]
OBVIOUS

\* A gate is kept with its number, or its four replacements are numbered on.
LEMMA UpdateGateKeeps == SetupInv /\ UpdateGate => GatesInv'
<1> SUFFICES ASSUME SetupInv, UpdateGate PROVE GatesInv'
  OBVIOUS
<1> DEFINE g == module.gates[next]
           qid == [k \in DOMAIN g.qid |-> Renumbered(g.qid[k])]
           q == qid[1]
           L == Len(module.gates)
           p == Len(to_push_gates)
<1>1. /\ PlacedInv /\ Placed /\ pc = "update" /\ pc' = "update"
      /\ module' = module /\ next' = next + 1
      /\ UNCHANGED <<inputs, ports>>
  BY DEF SetupInv, UpdateGate, Placed, inputs
<1>2. L \in Nat
  BY <1>1, ModulesAssumption DEF PlacedInv, Lattice
<1>3. /\ kept \in Seq(SimulableGates) /\ to_push_gates \in Seq(SimulableGates)
      /\ next \in 1 .. L + 1 /\ seq = L + p
      /\ \A k \in DOMAIN to_push_gates : to_push_gates[k].seq = L + k
      /\ \A k \in DOMAIN kept : kept[k].seq \in 1 .. next - 1
      /\ \A k, m \in DOMAIN kept : kept[k].seq = kept[m].seq => k = m
  BY <1>1 DEF SetupInv, GatesInv
<1>4. next \in 1 .. L
  <2>1. next <= L
    BY DEF UpdateGate
  <2> HIDE DEF L
  <2> QED
    BY <1>2, <1>3, <2>1
<1>5. /\ g.op \in Ops
      /\ qid \in Seq(Int) /\ Range(qid) \subseteq DataTiles
      /\ g.qid[1] \in 0 .. module.q_count - 1 /\ q = Renumbered(g.qid[1])
      /\ g.op = "CNOT" => qid[1] # qid[2]
  BY <1>1, <1>4, NextGate
<1>6. SimulableGates' = SimulableGates /\ Placed'
  BY <1>1, SameGates DEF Placed
<1>7. L' = L /\ next' \in 1 .. L + 1 /\ next' - 1 = next
  <2>1. L' = L
    BY <1>1
  <2> HIDE DEF L
  <2> QED
    BY <1>1, <1>2, <1>4, <2>1
<1>8. CASE /\ g.op \in {"CNOT", "H"}
           /\ kept' = Append(kept, Gate(next, g.op, qid, next))
           /\ UNCHANGED <<seq, to_push_gates>>
  <2> DEFINE new == Gate(next, g.op, qid, next)
  <2>1. new \in SimulableGates /\ new.seq = next
    <3> HIDE DEF g, qid
    <3>1. new.seq = next
      BY DEF Gate
    <3>2. next \in Nat
      BY <1>2, <1>4
    <3> QED
      BY <1>5, <1>8, <3>1, <3>2, GateIsSimulable
  <2> HIDE DEF new
  <2>2. kept' = Append(kept, new) /\ seq' = seq /\ to_push_gates' = to_push_gates
    BY <1>8 DEF new
  <2> HIDE DEF g, qid, q
  <2>3. /\ kept' \in Seq(SimulableGates) /\ Len(kept') = Len(kept) + 1
        /\ \A k \in 1 .. Len(kept) : kept'[k] = kept[k]
        /\ kept'[Len(kept) + 1] = new
    BY <1>3, <2>1, <2>2
  <2>4. \A k \in DOMAIN kept' : \/ k \in DOMAIN kept /\ kept'[k] = kept[k]
                                \/ k = Len(kept) + 1 /\ kept'[k] = new
    <3>1. DOMAIN kept' = 1 .. Len(kept) + 1 /\ DOMAIN kept = 1 .. Len(kept) /\ Len(kept) \in Nat
      BY <1>3, <2>3
    <3> QED
      BY <2>3, <3>1
  <2> HIDE DEF L, p
  <2>5. \A k \in DOMAIN kept' : kept'[k].seq \in 1 .. next
    <3> SUFFICES ASSUME NEW k \in DOMAIN kept' PROVE kept'[k].seq \in 1 .. next
      OBVIOUS
    <3>1. CASE k \in DOMAIN kept /\ kept'[k] = kept[k]
      <4>1. kept[k].seq \in 1 .. next - 1
        BY <1>3, <3>1
      <4> QED
        BY <1>2, <1>4, <3>1, <4>1
    <3>2. CASE kept'[k] = new
      BY <1>2, <1>4, <2>1, <3>2
    <3> QED
      BY <2>4, <3>1, <3>2
  <2>6. ASSUME NEW k \in DOMAIN kept', NEW m \in DOMAIN kept', kept'[k].seq = kept'[m].seq
        PROVE  k = m
    <3>1. \A j \in DOMAIN kept : kept[j].seq # next
      BY <1>2, <1>3, <1>4
    <3>2. CASE k \in DOMAIN kept /\ kept'[k] = kept[k] /\ m \in DOMAIN kept /\ kept'[m] = kept[m]
      BY <1>3, <2>6, <3>2
    <3>3. CASE k \in DOMAIN kept /\ kept'[k] = kept[k] /\ m = Len(kept) + 1 /\ kept'[m] = new
      BY <2>1, <2>6, <3>1, <3>3
    <3>4. CASE m \in DOMAIN kept /\ kept'[m] = kept[m] /\ k = Len(kept) + 1 /\ kept'[k] = new
      BY <2>1, <2>6, <3>1, <3>4
    <3>5. CASE k = Len(kept) + 1 /\ m = Len(kept) + 1
      BY <3>5
    <3> QED
      BY <2>4, <3>2, <3>3, <3>4, <3>5
  <2>7. /\ seq' = L + Len(to_push_gates') /\ to_push_gates' \in Seq(SimulableGates)
        /\ \A k \in DOMAIN to_push_gates' : to_push_gates'[k].seq = L + k
    BY <1>3, <2>2 DEF p
  <2>8. L' = L /\ L = Len(module.gates)
    BY <1>7 DEF L
  <2> QED
    BY <1>1, <1>6, <1>7, <2>3, <2>5, <2>6, <2>7, <2>8 DEF GatesInv, L
<1>9. ASSUME NEW new \in Seq(SimulableGates), Len(new) = 4,
             \A k \in 1 .. 4 : new[k].seq = seq + k,
             to_push_gates' = to_push_gates \o new, seq' = seq + 4, kept' = kept
      PROVE  GatesInv'
  <2> HIDE DEF g, qid, q
  <2>1. p \in Nat /\ seq \in Nat
    BY <1>2, <1>3
  <2>2. /\ to_push_gates' \in Seq(SimulableGates) /\ Len(to_push_gates') = p + 4
        /\ \A k \in 1 .. p : to_push_gates'[k] = to_push_gates[k]
        /\ \A k \in 1 .. 4 : to_push_gates'[p + k] = new[k]
    <3> DEFINE longer == to_push_gates \o new
    <3>1. /\ longer \in Seq(SimulableGates) /\ Len(longer) = p + Len(new)
          /\ \A k \in 1 .. p : longer[k] = to_push_gates[k]
          /\ \A k \in 1 .. Len(new) : longer[p + k] = new[k]
      <4>1. to_push_gates \in Seq(SimulableGates) /\ new \in Seq(SimulableGates)
        BY <1>3, <1>9
      <4> QED
        BY <4>1, GatesAdded
    <3>2. to_push_gates' = longer /\ Len(new) = 4
      BY <1>9
    <3> HIDE DEF longer, p
    <3> QED
      BY <3>1, <3>2
  <2>3. DOMAIN to_push_gates = 1 .. p /\ DOMAIN to_push_gates' = 1 .. p + 4
    BY <1>3, <2>2
  <2> HIDE DEF p, L
  <2>4. ASSUME NEW k \in 1 .. p + 4 PROVE to_push_gates'[k].seq = L + k
    <3>1. CASE k \in 1 .. p
      BY <1>3, <2>2, <2>3, <3>1
    <3>2. CASE k \notin 1 .. p
      <4> DEFINE j == k - p
      <4>1. j \in 1 .. 4 /\ k = p + j
        BY <2>1, <3>2
      <4> HIDE DEF j
      <4>2. to_push_gates'[k].seq = seq + j
        BY <1>9, <2>2, <4>1
      <4> QED
        BY <1>2, <1>3, <2>1, <4>1, <4>2
    <3> QED
      BY <3>1, <3>2
  <2>5. seq' = L + Len(to_push_gates')
    BY <1>2, <1>3, <1>9, <2>1, <2>2
  <2>6. \A k \in DOMAIN kept : kept[k].seq \in 1 .. next
    <3> SUFFICES ASSUME NEW k \in DOMAIN kept PROVE kept[k].seq \in 1 .. next
      OBVIOUS
    <3>1. kept[k].seq \in 1 .. next - 1
      BY <1>3
    <3> QED
      BY <1>2, <1>4, <3>1
  <2>7. /\ kept' \in Seq(SimulableGates)
        /\ \A k, m \in DOMAIN kept' : kept'[k].seq = kept'[m].seq => k = m
        /\ \A k \in DOMAIN kept' : kept'[k].seq \in 1 .. next
    BY <1>3, <1>9, <2>6
  <2> QED
    BY <1>1, <1>6, <1>7, <2>2, <2>3, <2>4, <2>5, <2>7 DEF GatesInv, L
<1>10. /\ q \in DataTiles \cap Int
       /\ find_closest_magic(q, Y_state_ids) \in (Ports \union {0}) \cap Int
       /\ find_closest_magic(q, A_state_ids) \in (Ports \union {0}) \cap Int
       /\ periphery => /\ find_closest_magic(q, Y_state_ids) # q
                       /\ find_closest_magic(q, A_state_ids) # q
  BY <1>1, <1>5, OperandTiles
<1>11. seq \in Nat /\ next \in Nat
  BY <1>2, <1>3
<1>12. CASE /\ to_push_gates' = to_push_gates \o
                 GatesForS(seq, q, find_closest_magic(q, Y_state_ids), next)
            /\ seq' = seq + 4
            /\ UNCHANGED kept
  <2> DEFINE new == GatesForS(seq, q, find_closest_magic(q, Y_state_ids), next)
  <2> HIDE DEF q, g, qid, L, p
  <2>1. new \in Seq(SimulableGates) /\ Len(new) = 4 /\ \A k \in 1 .. 4 : new[k].seq = seq + k
    BY <1>10, <1>11, ReplacementsSimulable
  <2>2. to_push_gates' = to_push_gates \o new /\ seq' = seq + 4 /\ kept' = kept
    BY <1>12
  <2> HIDE DEF new
  <2> QED
    BY <1>9, <2>1, <2>2
<1>13. CASE /\ to_push_gates' = to_push_gates \o
                 GatesForT(seq, q, find_closest_magic(q, A_state_ids), next)
            /\ seq' = seq + 4
            /\ UNCHANGED kept
  <2> DEFINE new == GatesForT(seq, q, find_closest_magic(q, A_state_ids), next)
  <2> HIDE DEF q, g, qid, L, p
  <2>1. new \in Seq(SimulableGates) /\ Len(new) = 4 /\ \A k \in 1 .. 4 : new[k].seq = seq + k
    BY <1>10, <1>11, ReplacementsSimulable
  <2>2. to_push_gates' = to_push_gates \o new /\ seq' = seq + 4 /\ kept' = kept
    BY <1>13
  <2> HIDE DEF new
  <2> QED
    BY <1>9, <2>1, <2>2
<1> QED
  BY <1>8, <1>12, <1>13 DEF UpdateGate

\* The replacements are numbered after every gate kept.
LEMMA FinishSetupKeeps == SetupInv /\ FinishSetup => GatesInv'
<1> SUFFICES ASSUME SetupInv, FinishSetup PROVE GatesInv'
  OBVIOUS
<1> DEFINE L == Len(module.gates)
           n == Len(kept)
           p == Len(to_push_gates)
<1>1. /\ PlacedInv /\ Placed /\ pc = "update" /\ pc' = "done" /\ Placed'
      /\ module' = module /\ next' = next /\ seq' = seq /\ to_push_gates' = to_push_gates
      /\ kept' = kept \o to_push_gates
      /\ UNCHANGED <<inputs, ports>>
  BY DEF SetupInv, FinishSetup, Placed, inputs
<1>2. L \in Nat
  BY <1>1, ModulesAssumption DEF PlacedInv, Lattice
<1>3. /\ kept \in Seq(SimulableGates) /\ to_push_gates \in Seq(SimulableGates)
      /\ next \in 1 .. L + 1 /\ seq = L + p
      /\ \A k \in DOMAIN to_push_gates : to_push_gates[k].seq = L + k
      /\ \A k \in DOMAIN kept : kept[k].seq \in 1 .. next - 1
      /\ \A k, m \in DOMAIN kept : kept[k].seq = kept[m].seq => k = m
  BY <1>1 DEF SetupInv, GatesInv
<1>4. SimulableGates' = SimulableGates
  BY <1>1, SameGates
<1>5. /\ kept' \in Seq(SimulableGates) /\ n \in Nat /\ p \in Nat
      /\ DOMAIN kept' = 1 .. n + p /\ DOMAIN kept = 1 .. n /\ DOMAIN to_push_gates = 1 .. p
      /\ \A k \in 1 .. n : kept'[k] = kept[k]
      /\ \A k \in 1 .. p : kept'[n + k] = to_push_gates[k]
  BY <1>1, <1>3
<1> HIDE DEF L, n, p
<1>6. \A k \in 1 .. n : kept'[k].seq \in 1 .. L
  <2> SUFFICES ASSUME NEW k \in 1 .. n PROVE kept'[k].seq \in 1 .. L
    OBVIOUS
  <2>1. kept'[k].seq \in 1 .. next - 1
    BY <1>3, <1>5
  <2> QED
    BY <1>2, <1>3, <2>1
<1>7. \A k \in n + 1 .. n + p : kept'[k].seq = L + (k - n)
  <2> SUFFICES ASSUME NEW k \in n + 1 .. n + p PROVE kept'[k].seq = L + (k - n)
    OBVIOUS
  <2> DEFINE j == k - n
  <2>1. j \in 1 .. p /\ k = n + j
    BY <1>5
  <2> HIDE DEF j
  <2>2. kept'[k].seq = L + j
    BY <1>3, <1>5, <2>1
  <2> QED
    BY <2>2 DEF j
<1>8. ASSUME NEW k \in 1 .. n + p, NEW m \in 1 .. n + p, kept'[k].seq = kept'[m].seq
      PROVE  k = m
  <2>1. CASE k \in 1 .. n /\ m \in 1 .. n
    BY <1>3, <1>5, <1>8, <2>1
  <2>2. CASE k \in n + 1 .. n + p /\ m \in n + 1 .. n + p
    <3>1. L + (k - n) = L + (m - n)
      BY <1>7, <1>8, <2>2
    <3> QED
      BY <1>2, <1>5, <2>2, <3>1
  <2>3. CASE k \in 1 .. n /\ m \in n + 1 .. n + p
    <3>1. kept'[m].seq = L + (m - n) /\ kept'[k].seq \in 1 .. L
      BY <1>6, <1>7, <2>3
    <3> QED
      BY <1>2, <1>5, <1>8, <2>3, <3>1
  <2>4. CASE m \in 1 .. n /\ k \in n + 1 .. n + p
    <3>1. kept'[k].seq = L + (k - n) /\ kept'[m].seq \in 1 .. L
      BY <1>6, <1>7, <2>4
    <3> QED
      BY <1>2, <1>5, <1>8, <2>4, <3>1
  <2> QED
    BY <1>5, <2>1, <2>2, <2>3, <2>4
<1>9. \A k, m \in DOMAIN kept' : kept'[k].seq = kept'[m].seq => k = m
  BY <1>5, <1>8
<1>10. L' = L
  BY <1>1 DEF L
<1> QED
  BY <1>1, <1>3, <1>4, <1>5, <1>9, <1>10 DEF GatesInv, L, p

\* Every step preserves GatesInv.
LEMMA NextGates == SetupInv /\ [Next]_vars => GatesInv'
<1> SUFFICES ASSUME SetupInv, [Next]_vars PROVE GatesInv'
  OBVIOUS
<1>1. GatesInv
  BY DEF SetupInv
<1>2. CASE PlaceBlocks
  <2>1. ~Placed /\ UNCHANGED <<inputs, gates>> /\ pc' # "done"
    BY <1>2 DEF PlaceBlocks, Placed
  <2> QED
    BY <1>1, <2>1, PlacingKeepsGates
<1>3. CASE PlaceY
  <2>1. ~Placed /\ UNCHANGED <<inputs, gates>> /\ pc' # "done"
    BY <1>3 DEF PlaceY, Placed
  <2> QED
    BY <1>1, <2>1, PlacingKeepsGates
<1>4. CASE PlaceA
  <2>1. ~Placed /\ UNCHANGED <<inputs, gates>> /\ pc' # "done"
    BY <1>4 DEF PlaceA, Placed
  <2> QED
    BY <1>1, <2>1, PlacingKeepsGates
<1>5. CASE UpdateGate
  BY <1>5, UpdateGateKeeps
<1>6. CASE FinishSetup
  BY <1>6, FinishSetupKeeps
<1>7. CASE UNCHANGED vars
  <2>1. /\ UNCHANGED <<inputs, ports>> /\ module' = module /\ pc' = pc
        /\ next' = next /\ seq' = seq /\ kept' = kept /\ to_push_gates' = to_push_gates
    BY <1>7 DEF vars, inputs, gates
  <2>2. SimulableGates' = SimulableGates
    BY <2>1, SameGates
  <2> QED
    BY <1>1, <2>1, <2>2 DEF GatesInv, Placed
<1> QED
  BY <1>2, <1>3, <1>4, <1>5, <1>6, <1>7 DEF Next

\* What main() has placed and renumbered so far, for every module, layout and
\* pair of ratios: the lattice has room for the data qubits, the ports placed are
\* on its sides or those of the blocks, and the gates are on such tiles.
THEOREM SetupInvHolds == Spec => []SetupInv
<1>1. Init => SetupInv
  BY InitPlaced, InitGates DEF SetupInv
<1>2. SetupInv /\ [Next]_vars => SetupInv'
  BY NextPlaced, NextGates DEF SetupInv
<1> QED
  BY <1>1, <1>2, PTL DEF Spec

-----------------------------------------------------------------------------
(* What the simulation relies on.                                          *)

\* The qubits of every module get tiles of their own, inside the lattice where
\* there is room and away from the ports along its sides (the
\* placement loops and the renumbering of operands in main(), braidflash.cpp).
THEOREM TilesApartHolds == Spec => []TilesApart
<1>1. SetupInv => TilesApart
  BY PlacedApart DEF SetupInv
<1> QED
  BY <1>1, SetupInvHolds, PTL

\* Tiles of data qubits and ports, where there is room for them.
LEMMA TilesWhereRoom ==
  ASSUME PlacedInv, Placed, Fits
  PROVE  DataTiles \union Ports \union {0} \subseteq Tiles
<1>1. Lattice /\ (~periphery => IsFiniteSet(factory_block))
  BY BlocksFinite DEF PlacedInv
<1>2. DataTiles \subseteq Tiles
  BY <1>1, DataInside DEF DataTiles
<1>3. num_rows \in Nat \ {0} /\ num_cols \in Nat \ {0}
  BY <1>1, LatticeFacts
<1>4. 0 \in Tiles
  BY <1>3 DEF Tiles
<1>5. Ports \subseteq Tiles
  <2>1. CASE ~periphery
    BY <2>1 DEF Fits
  <2>2. CASE periphery
    <3>1. /\ \A k \in DOMAIN Y_state_ids : YTile(num_rows, num_cols, Y_state_ids[k], num_rows)
          /\ \A k \in DOMAIN A_state_ids : ATile(num_rows, num_cols, A_state_ids[k], num_cols)
      BY <2>2 DEF PlacedInv, SidePorts
    <3>2. ASSUME NEW r \in 0 .. num_rows - 1, NEW c \in 0 .. num_cols - 1
          PROVE  r * num_cols + c \in Tiles
      BY <1>3, TileOf DEF Tiles
    <3>3. ASSUME NEW k \in DOMAIN Y_state_ids PROVE Y_state_ids[k] \in Tiles
      <4>1. PICK r \in 1 .. num_rows - 2, c \in {0, num_cols - 1} :
              Y_state_ids[k] = r * num_cols + c
        BY <3>1 DEF YTile
      <4>2. r \in 0 .. num_rows - 1 /\ c \in 0 .. num_cols - 1
        BY <1>3
      <4> QED
        BY <3>2, <4>1, <4>2
    <3>4. ASSUME NEW k \in DOMAIN A_state_ids PROVE A_state_ids[k] \in Tiles
      <4>1. PICK r \in {0, num_rows - 1}, c \in 0 .. num_cols - 1 :
              A_state_ids[k] = r * num_cols + c
        BY <3>1 DEF ATile
      <4>2. r \in 0 .. num_rows - 1
        BY <1>3
      <4> QED
        BY <3>2, <4>1, <4>2
    <3> QED
      BY <3>3, <3>4 DEF Ports, Range
  <2> QED
    BY <2>1, <2>2
<1> QED
  BY <1>2, <1>4, <1>5

\* Every gate the event loop gets is a CNOT or an H on tiles of the lattice,
\* where there is room, with operands apart on the periphery layout and a
\* sequence number of its own ("update gate list to be simulated" in main(), braidflash.cpp).
THEOREM GatesSimulableHolds == Spec => []GatesSimulable
<1>1. ASSUME SetupInv PROVE GatesSimulable
  <2> SUFFICES ASSUME pc = "done" PROVE GatesSimulable
    BY DEF GatesSimulable
  <2>1. PlacedInv /\ Placed /\ kept \in Seq(SimulableGates)
    BY <1>1 DEF SetupInv, GatesInv, Placed
  <2>2. \A k, m \in DOMAIN kept : kept[k].seq = kept[m].seq => k = m
    BY <1>1 DEF SetupInv, GatesInv
  <2>3. \A k \in DOMAIN kept : kept[k] \in SimulableGates
    BY <2>1
  <2>4. ASSUME NEW g \in SimulableGates
        PROVE  /\ g.op \in {"CNOT", "H"}
               /\ Fits => Range(g.qid) \subseteq Tiles
               /\ g.op = "CNOT" /\ periphery => g.qid[1] # g.qid[2]
    <3>1. /\ g.op \in {"CNOT", "H"}
          /\ Range(g.qid) \subseteq DataTiles \union Ports \union {0}
          /\ g.op = "CNOT" /\ periphery => g.qid[1] # g.qid[2]
      BY DEF SimulableGates
    <3> QED
      BY <2>1, <3>1, TilesWhereRoom
  <2> QED
    BY <2>2, <2>3, <2>4 DEF GatesSimulable, module_gates
<1> QED
  BY <1>1, SetupInvHolds, PTL

-----------------------------------------------------------------------------
(* Room without factory tiles.                                             *)

\* Factories that take no tile, as those of the default design, with at most
\* one port each, which is the default capacity.
SmallestFactories ==
  /\ factories.Y_area = 0 /\ factories.A_area = 0
  /\ factories.Y_ports <= 1 /\ factories.A_ports <= 1

\* The empty block, and its first port next to the middle of the lattice.
LEMMA EmptyBlock ==
  ASSUME Lattice, ~periphery, module.q_count >= 3
  PROVE  Block(0) = {} /\ BlockPort(0, 0, 1) \in Tiles
<1>1. GridRows(0) = 0
  <2>1. GridRows(0) \in 0 .. 0
    BY GridRowsFacts DEF GridRows
  <2> QED
    BY <2>1
<1>2. GridCols(0) = -1
  BY <1>1 DEF GridCols
<1>3. num_rows \in Nat \ {0, 1} /\ num_cols \in Nat \ {0} /\ num_cols >= 2
  BY LatticeFacts
<1>4. Block(0) = {}
  <2>1. 0 .. GridRows(0) - 1 = {}
    BY <1>1
  <2> QED
    BY <2>1 DEF Block
<1> DEFINE top == num_rows \div 2
           left == (num_cols + 1) \div 2
<1>5. top \in 0 .. num_rows - 1 /\ left \in 0 .. num_cols - 1
  BY <1>3
<1>6. StartRow(0) = top /\ StartCol(0) = left
  <2>1. num_rows - 0 = num_rows /\ num_cols - (-1) = num_cols + 1
    BY <1>3
  <2> QED
    BY <1>1, <1>2, <2>1 DEF StartRow, StartCol
<1>7. BlockPort(0, 0, 1) = top * num_cols + left + 0
  <2>1. 1 % 4 = 1 /\ (1 - 1) \div 4 = 0
    OBVIOUS
  <2> HIDE DEF top, left
  <2> QED
    BY <1>6, <2>1 DEF BlockPort
<1>8. top * num_cols + left \in Tiles
  <2> HIDE DEF top, left
  <2> QED
    BY <1>3, <1>5, TileOf DEF Tiles
<1>9. top * num_cols + left + 0 = top * num_cols + left
  <2> HIDE DEF top, left
  <2>1. top * num_cols \in Int /\ left \in Int
    BY <1>3, <1>5
  <2> QED
    BY <2>1
<1> QED
  BY <1>4, <1>7, <1>8, <1>9

\* From three qubits on there is room for a module on the default layout with
\* factories that take no tile and have at most one port each, so that the
\* conclusions about tiles of TilesApart and GatesSimulable apply.  (With two
\* qubits, in a lattice of one column, the only port is past the last tile.)
THEOREM SmallestFactoriesFit ==
  Spec => [](Placed /\ SmallestFactories /\ module.q_count >= 3 => Fits)
<1>1. ASSUME SetupInv, Placed, SmallestFactories, module.q_count >= 3, ~periphery
      PROVE  Fits
  <2>1. Lattice /\ MiddlePorts
    BY <1>1 DEF SetupInv, PlacedInv
  <2>2. Block(0) = {} /\ BlockPort(0, 0, 1) \in Tiles
    BY <1>1, <2>1, EmptyBlock
  <2>3. /\ factory_block = {}
        /\ Y_state_ids = [k \in 1 .. factories.Y_ports |-> BlockPort(0, 0, k)]
        /\ A_state_ids = [k \in 1 .. factories.A_ports |-> BlockPort(0, 0, k)]
    BY <1>1, <2>1, <2>2 DEF MiddlePorts, SmallestFactories
  <2>4. factories.Y_ports \in {0, 1} /\ factories.A_ports \in {0, 1}
    <3>1. factories.Y_ports \in Nat /\ factories.A_ports \in Nat
      BY <2>1, LayoutAssumption DEF Lattice
    <3> QED
      BY <1>1, <3>1 DEF SmallestFactories
  <2>5. Range(Y_state_ids) \subseteq {BlockPort(0, 0, 1)}
    <3>1. \A k \in 1 .. factories.Y_ports : k = 1
      BY <2>4
    <3> QED
      BY <2>3, <3>1 DEF Range
  <2>6. Range(A_state_ids) \subseteq {BlockPort(0, 0, 1)}
    <3>1. \A k \in 1 .. factories.A_ports : k = 1
      BY <2>4
    <3> QED
      BY <2>3, <3>1 DEF Range
  <2>7. Ports \subseteq Tiles
    BY <2>2, <2>5, <2>6 DEF Ports
  <2>8. module.q_count <= Cardinality(Tiles \ factory_block)
    <3> DEFINE n == num_rows * num_cols
    <3>1. n \in Nat /\ n >= module.q_count
      BY <1>1, <2>1, LatticeFacts, MulNat
    <3>2. Tiles \ factory_block = 0 .. n - 1
      BY <2>3 DEF Tiles
    <3> HIDE DEF n
    <3>3. Cardinality(0 .. n - 1) = n
      <4>1. Cardinality(0 .. n - 1) = IF 0 > n - 1 THEN 0 ELSE (n - 1) - 0 + 1
        BY <3>1, FS_Interval
      <4> QED
        BY <3>1, <4>1
    <3> QED
      BY <3>1, <3>2, <3>3
  <2> QED
    BY <2>7, <2>8 DEF Fits
<1>2. SetupInv => (Placed /\ SmallestFactories /\ module.q_count >= 3 => Fits)
  BY <1>1 DEF Fits
<1> QED
  BY <1>2, SetupInvHolds, PTL

=============================================================================
