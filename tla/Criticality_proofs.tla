------------------------- MODULE Criticality_proofs -------------------------
(***************************************************************************)
(* For any number of gates, any dependency graphs and latencies: the walk  *)
(* of assign_criticality() takes no gate early and leaves none behind, its *)
(* lengths are those of the longest paths, and highest_criticality is that *)
(* of a gate that can go.                                                  *)
(*                                                                         *)
(* The inductive invariant says of every gate where it is: walked (its     *)
(* out-edges are gone and its successors are longer than it), in a layer,  *)
(* or waiting for an edge that is left.                                    *)
(* PathInv adds where each length comes from.                              *)
(***************************************************************************)
EXTENDS Criticality, FiniteSetTheorems, WellFoundedInduction, TLAPS

-----------------------------------------------------------------------------
(* Numbers and degrees.                                                    *)

\* A set of natural numbers has a least one.
LEMMA LeastExists ==
  ASSUME NEW S \in SUBSET Nat, S # {}
  PROVE  \E m \in S : \A k \in S : m <= k
<1>1. PICK m \in S : \A k \in S : ~(<<k, m>> \in OpToRel(<, Nat))
  BY NatLessThanWellFounded, WFMin
<1>2. \A p, q \in Nat : p < q => <<p, q>> \in OpToRel(<, Nat)
  BY Zenon DEF OpToRel
<1>3. ASSUME NEW k \in S PROVE m <= k
  <2>1. ~(k < m)
    BY <1>1, <1>2, Zenon
  <2>2. QED
    BY <2>1
<1>4. QED
  BY <1>3

\* A bounded set of natural numbers has a greatest one, which is Max.
LEMMA MaxOfBounded ==
  ASSUME NEW S \in SUBSET Nat, S # {}, NEW B \in Nat, \A k \in S : k <= B
  PROVE  Max(S) \in S /\ \A k \in S : k <= Max(S)
<1> DEFINE below == {B - k : k \in S}
<1>1. below \in SUBSET Nat /\ below # {}
  <2>1. \A k \in S : B - k \in Nat
    OBVIOUS
  <2>2. QED
    BY <2>1
<1>2. PICK b \in below : \A k \in below : b <= k
  <2> HIDE DEF below
  <2>1. QED
    BY <1>1, LeastExists
<1>3. PICK m \in S : b = B - m
  BY <1>2
<1>4. ASSUME NEW k \in S PROVE m >= k
  <2>1. B - k \in below
    OBVIOUS
  <2>2. b <= B - k
    BY <1>2, <2>1
  <2>3. QED
    BY <1>3, <2>2
<1>5. QED
  BY <1>3, <1>4 DEF Max

\* The gates are finitely many, so that their lengths are bounded.
LEMMA LengthsBounded ==
  ASSUME NEW f \in [Gates -> Nat]
  PROVE  \E B \in Nat : \A g \in Gates : f[g] <= B
<1> DEFINE Bounded(k) == \E B \in Nat : \A g \in 1 .. k : f[g] <= B
<1> DEFINE unbounded == {k \in 0 .. n : ~Bounded(k)}
<1>1. n \in Nat /\ Gates = 1 .. n
  BY CriticalPathAssumption DEF Gates
<1>2. CASE unbounded = {}
  <2>1. n \in 0 .. n
    BY <1>1
  <2>2. Bounded(n)
    BY <1>2, <2>1
  <2>3. QED
    BY <1>1, <2>2
<1>3. CASE unbounded # {}
  <2>1. unbounded \in SUBSET Nat
    OBVIOUS
  <2>2. PICK k \in unbounded : \A j \in unbounded : k <= j
    <3> HIDE DEF unbounded
    <3>1. QED
      BY <1>3, <2>1, LeastExists
  <2>3. k \in 0 .. n /\ ~Bounded(k)
    BY <2>2
  <2>4. Bounded(0)
    OBVIOUS
  <2>5. k - 1 \in 0 .. n /\ k \in Gates
    BY <1>1, <2>3, <2>4
  <2>6. Bounded(k - 1)
    BY <2>2, <2>5
  <2>7. PICK B \in Nat : \A g \in 1 .. k - 1 : f[g] <= B
    BY <2>6
  <2>8. \A g \in 1 .. k : f[g] <= Larger(B, f[k])
    BY <1>1, <2>3, <2>5, <2>7 DEF Larger
  <2>9. Larger(B, f[k]) \in Nat
    BY <2>5 DEF Larger
  <2>10. QED
    BY <2>3, <2>8, <2>9
<1>4. QED
  BY <1>2, <1>3

\* Degrees of 0 and 1, by the edges themselves.
LEMMA Degrees ==
  ASSUME NEW E \in SUBSET (Gates \X Gates), NEW g \in Gates
  PROVE  /\ in_degree(g, E) = 0 <=> \A p \in Gates : <<p, g>> \notin E
         /\ out_degree(g, E) = 0 <=> \A s \in Gates : <<g, s>> \notin E
         /\ in_degree(g, E) = 1 <=>
              \E p \in Gates : /\ <<p, g>> \in E
                               /\ \A q \in Gates : <<q, g>> \in E => q = p
<1> DEFINE into == {e \in E : e[2] = g}
           out  == {e \in E : e[1] = g}
<1>1. IsFiniteSet(Gates)
  BY CriticalPathAssumption, FS_Interval DEF Gates
<1>2. IsFiniteSet(Gates \X Gates)
  BY <1>1, FS_Product
<1>3. into \in SUBSET (Gates \X Gates) /\ out \in SUBSET (Gates \X Gates)
  OBVIOUS
<1>4. IsFiniteSet(into) /\ IsFiniteSet(out)
  BY <1>2, <1>3, FS_Subset, Zenon
<1>5. /\ Cardinality(into) = 0 <=> into = {}
      /\ Cardinality(out) = 0 <=> out = {}
  BY <1>4, FS_EmptySet, Zenon
<1>6. Cardinality(into) = 1 <=> \E x : into = {x}
  BY <1>4, FS_Singleton, Zenon
<1>7. into = {} <=> \A p \in Gates : <<p, g>> \notin E
  OBVIOUS
<1>8. out = {} <=> \A s \in Gates : <<g, s>> \notin E
  OBVIOUS
<1>9. (\E x : into = {x}) <=>
        \E p \in Gates : /\ <<p, g>> \in E
                         /\ \A q \in Gates : <<q, g>> \in E => q = p
  <2>1. ASSUME NEW x, into = {x}
        PROVE  \E p \in Gates : /\ <<p, g>> \in E
                                /\ \A q \in Gates : <<q, g>> \in E => q = p
    <3>1. x \in into
      BY <2>1
    <3>2. x \in E /\ x = <<x[1], g>> /\ x[1] \in Gates
      BY <3>1
    <3>3. ASSUME NEW q \in Gates, <<q, g>> \in E PROVE q = x[1]
      <4>1. <<q, g>> \in into
        BY <3>3
      <4>2. <<q, g>> = x
        BY <2>1, <4>1
      <4>3. QED
        BY <4>2
    <3>4. QED
      BY <3>2, <3>3
  <2>2. ASSUME NEW p \in Gates, <<p, g>> \in E,
               \A q \in Gates : <<q, g>> \in E => q = p
        PROVE  into = {<<p, g>>}
    BY <2>2
  <2>3. QED
    BY <2>1, <2>2
<1>10. QED
  BY <1>5, <1>6, <1>7, <1>8, <1>9 DEF in_degree, out_degree

-----------------------------------------------------------------------------
(* The walk.                                                               *)

\* All edges go to later gates, or all to earlier ones.
Directed(E) ==
  \/ \A e \in E : e[1] < e[2]
  \/ \A e \in E : e[2] < e[1]

WalkTypes ==
  /\ latency \in [Gates -> Nat \ {0}]
  /\ graph \in SUBSET (Gates \X Gates) /\ Directed(graph)
  /\ edges \in SUBSET graph
  /\ current_gates \in SUBSET Gates /\ next_gates \in SUBSET Gates
  /\ length \in [Gates -> Nat]

NoneInto(g) == \A p \in Gates : <<p, g>> \notin edges

\* Gates of the layers wait for nothing and have all their out-edges.
InLayer ==
  \A g \in current_gates \union next_gates :
    /\ NoneInto(g)
    /\ length[g] > 0
    /\ \A s \in Gates : <<g, s>> \in graph => <<g, s>> \in edges

\* A gate that is in no layer and waits for nothing has been walked.
WalkedOrWaiting ==
  \A g \in Gates :
    NoneInto(g) /\ g \notin current_gates \union next_gates =>
      \A s \in Gates : <<g, s>> \notin edges

\* An edge that is gone was that of a walked gate, and its length was added.
Lengthened ==
  \A p, s \in Gates :
    <<p, s>> \in graph \ edges =>
      /\ NoneInto(p) /\ p \notin current_gates \union next_gates
      /\ length[s] >= length[p] + latency[s]

WInv == WalkTypes /\ InLayer /\ WalkedOrWaiting /\ Lengthened
         /\ current_gates \intersect next_gates = {}

LEMMA GraphFacts ==
  ASSUME NEW E \in Dags
  PROVE  /\ E \in SUBSET (Gates \X Gates) /\ Directed(E)
         /\ reversed(E) \in SUBSET (Gates \X Gates) /\ Directed(reversed(E))
<1>1. E \subseteq {e \in Gates \X Gates : e[1] < e[2]}
  BY CriticalPathAssumption
<1>2. QED
  BY <1>1 DEF Directed, reversed

LEMMA WalkInitInv == WalkInit => WInv
<1> SUFFICES ASSUME WalkInit PROVE WInv
  OBVIOUS
<1>1. PICK E \in Dags : graph \in {E, reversed(E)}
  BY DEF WalkInit
<1>2. graph \in SUBSET (Gates \X Gates) /\ Directed(graph)
  BY <1>1, GraphFacts
<1>3. Sources(graph) \in SUBSET Gates
  BY DEF Sources
<1>4. latency \in [Gates -> Nat \ {0}]
  BY CriticalPathAssumption DEF WalkInit
<1>5. length \in [Gates -> Nat]
  BY <1>4 DEF WalkInit
<1>6. WalkTypes
  BY <1>2, <1>3, <1>4, <1>5 DEF WalkTypes, WalkInit
<1>7. \A g \in Gates : g \in current_gates <=> NoneInto(g)
  <2> TAKE g \in Gates
  <2>1. in_degree(g, graph) = 0 <=> \A p \in Gates : <<p, g>> \notin graph
    BY <1>2, Degrees
  <2>2. QED
    BY <2>1 DEF WalkInit, Sources, NoneInto
<1>8. InLayer
  <2>1. ASSUME NEW g \in current_gates PROVE length[g] > 0
    BY <1>3, <1>4, <2>1 DEF WalkInit
  <2>2. QED
    BY <1>3, <1>7, <2>1 DEF InLayer, WalkInit
<1>9. WalkedOrWaiting /\ Lengthened
  BY <1>7 DEF WalkedOrWaiting, Lengthened, WalkInit
<1>10. QED
  BY <1>6, <1>8, <1>9 DEF WInv, WalkInit

\* No gate is its own predecessor.
LEMMA NoLoops ==
  ASSUME WalkTypes, NEW e \in graph
  PROVE  e[1] # e[2] /\ e = <<e[1], e[2]>> /\ e[1] \in Gates /\ e[2] \in Gates
<1>1. e \in Gates \X Gates
  BY DEF WalkTypes
<1>2. e[1] \in Nat /\ e[2] \in Nat
  BY <1>1, CriticalPathAssumption DEF Gates
<1>3. e[1] # e[2]
  BY <1>2 DEF WalkTypes, Directed
<1>4. QED
  BY <1>1, <1>3

LEMMA WalkKeepsInv ==
  ASSUME WInv, NEW g \in Gates, Walk(g)
  PROVE  WInv'
<1>1. /\ g \in current_gates /\ g \notin next_gates /\ NoneInto(g)
      /\ length[g] > 0
      /\ \A s \in Gates : <<g, s>> \in graph => <<g, s>> \in edges
  BY DEF WInv, InLayer, Walk
<1>2. edges' = {e \in edges : e[1] # g} /\ edges' \in SUBSET edges
  BY DEF Walk
<1>3. /\ current_gates' = current_gates \ {g}
      /\ next_gates' = next_gates \union Released(g)
      /\ graph' = graph /\ latency' = latency
  BY DEF Walk
<1>4. Successors(g) \in SUBSET Gates /\ Released(g) \in SUBSET Successors(g)
  BY DEF Successors, Released
<1>5. \A p, s \in Gates : <<p, s>> \in edges' <=> <<p, s>> \in edges /\ p # g
  BY <1>2
<1>6. \A s \in Gates : s \in Released(g) <=>
         /\ <<g, s>> \in edges
         /\ \A q \in Gates : <<q, s>> \in edges => q = g
  <2> TAKE s \in Gates
  <2>1. edges \in SUBSET (Gates \X Gates)
    BY DEF WInv, WalkTypes
  <2>2. in_degree(s, edges) = 1 <=>
          \E p \in Gates : /\ <<p, s>> \in edges
                           /\ \A q \in Gates : <<q, s>> \in edges => q = p
    BY <2>1, Degrees
  <2>3. QED
    BY <2>2 DEF Released, Successors
<1>7. /\ \A s \in Gates : length'[s] =
            IF s \in Successors(g) THEN Larger(length[s], length[g] + latency[s])
            ELSE length[s]
      /\ length' \in [Gates -> Nat]
  BY DEF Walk, WInv, WalkTypes, Larger
<1>8. \A s \in Gates : length'[s] >= length[s]
  BY <1>7 DEF WInv, WalkTypes, Larger
<1>9. WalkTypes'
  BY <1>2, <1>3, <1>4, <1>7 DEF WInv, WalkTypes
<1>10. \A s \in Gates : NoneInto(s) => NoneInto(s)'
  BY <1>2 DEF NoneInto
<1>11. \A s \in Released(g) :
         /\ NoneInto(s)' /\ ~NoneInto(s)
         /\ s \notin current_gates \union next_gates /\ s # g
  BY <1>1, <1>4, <1>5, <1>6 DEF NoneInto, WInv, InLayer
<1>12. InLayer'
  <2> SUFFICES ASSUME NEW s \in (current_gates \union next_gates)'
               PROVE  /\ NoneInto(s)' /\ length'[s] > 0
                      /\ \A t \in Gates : <<s, t>> \in graph => <<s, t>> \in edges'
    BY <1>3 DEF InLayer
  <2>1. CASE s \in Released(g)
    <3>1. s \in Gates /\ s # g /\ ~NoneInto(s) /\ NoneInto(s)'
      BY <1>4, <1>11, <2>1
    <3>2. length'[s] > 0
      <4>1. s \in Successors(g) /\ length[s] \in Nat /\ length[g] \in Nat
            /\ latency[s] \in Nat \ {0}
        BY <1>4, <2>1, <3>1 DEF WInv, WalkTypes
      <4>2. QED
        BY <1>7, <3>1, <4>1 DEF Larger
    <3>3. \A t \in Gates : <<s, t>> \in graph => <<s, t>> \in edges
      BY <3>1 DEF WInv, Lengthened
    <3>4. QED
      BY <1>5, <3>1, <3>2, <3>3
  <2>2. CASE s \notin Released(g)
    <3>1. s \in current_gates \union next_gates /\ s \in Gates /\ s # g
      BY <1>1, <1>3, <2>2 DEF WInv, WalkTypes
    <3>2. /\ NoneInto(s) /\ length[s] > 0
          /\ \A t \in Gates : <<s, t>> \in graph => <<s, t>> \in edges
      BY <3>1 DEF WInv, InLayer
    <3>3. length'[s] > 0
      BY <1>7, <1>8, <3>1, <3>2 DEF WInv, WalkTypes
    <3>4. QED
      BY <1>5, <1>10, <3>1, <3>2, <3>3
  <2>3. QED
    BY <2>1, <2>2
<1>13. WalkedOrWaiting'
  <2> SUFFICES ASSUME NEW s \in Gates, NoneInto(s)',
                      s \notin (current_gates \union next_gates)',
                      NEW t \in Gates, <<s, t>> \in edges'
               PROVE  FALSE
    BY DEF WalkedOrWaiting
  <2>1. s # g /\ <<s, t>> \in edges /\ s \notin current_gates \union next_gates
    BY <1>3, <1>5
  <2>2. PICK p \in Gates : <<p, s>> \in edges
    BY <2>1 DEF WInv, WalkedOrWaiting, NoneInto
  <2>3. \A q \in Gates : <<q, s>> \in edges => q = g
    BY <1>5 DEF NoneInto
  <2>4. s \in Released(g)
    BY <1>6, <2>2, <2>3
  <2>5. QED
    BY <1>3, <2>4
<1>14. Lengthened'
  <2> SUFFICES ASSUME NEW p \in Gates, NEW s \in Gates, <<p, s>> \in graph,
                      <<p, s>> \notin edges'
               PROVE  /\ NoneInto(p)' /\ p \notin (current_gates \union next_gates)'
                      /\ length'[s] >= length'[p] + latency[s]
    BY <1>3 DEF Lengthened
  <2>1. NoneInto(p)
        /\ (p = g \/ p \notin current_gates \union next_gates)
        /\ (p # g => length[s] >= length[p] + latency[s])
        /\ (p = g => s \in Successors(g))
    BY <1>1, <1>5 DEF WInv, Lengthened, Successors
  <2>2. NoneInto(p)' /\ p \notin (current_gates \union next_gates)'
    BY <1>1, <1>3, <1>10, <1>11, <2>1
  <2>3. p \notin Successors(g)
    BY <2>1 DEF NoneInto, Successors
  <2>4. length'[p] = length[p]
    BY <1>7, <2>3
  <2>5. length[s] \in Nat /\ length[p] \in Nat /\ latency[s] \in Nat
        /\ length'[s] \in Nat
    BY <1>7 DEF WInv, WalkTypes
  <2>6. length'[s] >= length[p] + latency[s]
    BY <1>7, <1>8, <2>1, <2>5 DEF Larger
  <2>7. QED
    BY <2>2, <2>4, <2>6
<1>15. current_gates' \intersect next_gates' = {}
  BY <1>3, <1>11 DEF WInv
<1>16. QED
  BY <1>9, <1>12, <1>13, <1>14, <1>15 DEF WInv

LEMMA NextLayerKeepsInv ==
  ASSUME WInv, NextLayer
  PROVE  WInv'
<1>1. /\ current_gates = {} /\ current_gates' = next_gates /\ next_gates' = {}
      /\ UNCHANGED <<latency, graph, edges, length, result>>
  BY DEF NextLayer
<1>2. QED
  BY <1>1 DEF WInv, WalkTypes, InLayer, WalkedOrWaiting, Lengthened, NoneInto

\* Among gates that all have an edge from another of them there is a cycle;
\* so when no gate is left in a layer, no edge is.
LEMMA NoneStranded == WInv => NeverStranded
<1> SUFFICES ASSUME WInv, current_gates = {}, next_gates = {}, edges # {}
             PROVE  FALSE
  BY DEF NeverStranded
<1> DEFINE from == {e[1] : e \in edges}
<1>1. edges \in SUBSET graph /\ graph \in SUBSET (Gates \X Gates)
      /\ Gates \in SUBSET Nat /\ Directed(graph) /\ n \in Nat
  BY CriticalPathAssumption DEF WInv, WalkTypes, Gates
<1>2. from \in SUBSET Nat /\ from # {} /\ \A k \in from : k \in Gates
  BY <1>1
<1>3. \A k \in from : \E q \in from : <<q, k>> \in edges
  <2> TAKE k \in from
  <2>1. k \in Gates /\ \E s \in Gates : <<k, s>> \in edges
    <3>1. PICK e \in edges : k = e[1]
      OBVIOUS
    <3>2. e = <<e[1], e[2]>> /\ e[1] \in Gates /\ e[2] \in Gates
      BY <1>1
    <3>3. QED
      BY <3>1, <3>2
  <2>2. PICK q \in Gates : <<q, k>> \in edges
    BY <2>1 DEF WInv, WalkedOrWaiting, NoneInto
  <2>3. q \in from
    BY <2>2
  <2>4. QED
    BY <2>2, <2>3
<1>4. CASE \A e \in graph : e[1] < e[2]
  <2>1. PICK m \in from : \A k \in from : m <= k
    <3> HIDE DEF from
    <3>1. QED
      BY <1>2, LeastExists
  <2>2. PICK q \in from : <<q, m>> \in edges
    BY <1>3, <2>1
  <2>3. q < m
    BY <1>1, <1>4, <2>2
  <2>4. QED
    BY <1>2, <2>1, <2>2, <2>3
<1>5. CASE \A e \in graph : e[2] < e[1]
  <2>1. \A k \in from : k <= n
    BY <1>2, CriticalPathAssumption DEF Gates
  <2>2. Max(from) \in from /\ \A k \in from : k <= Max(from)
    <3> HIDE DEF from
    <3>1. QED
      BY <1>1, <1>2, <2>1, MaxOfBounded
  <2>3. PICK q \in from : <<q, Max(from)>> \in edges
    BY <1>3, <2>2
  <2>4. Max(from) < q
    BY <1>1, <1>5, <2>3
  <2>5. q \in Nat /\ Max(from) \in Nat /\ q <= Max(from)
    BY <1>2, <2>2, Zenon
  <2>6. QED
    BY <2>4, <2>5
<1>6. QED
  BY <1>1, <1>4, <1>5 DEF Directed

-----------------------------------------------------------------------------
(* The simulation.                                                         *)

\* The simulated graph is the walked one or its reverse, less what has
\* completed; while it is simulated the walk has stopped.
DagInv ==
  /\ dag \in SUBSET (Gates \X Gates)
  /\ highest_criticality = -1 \/ highest_criticality \in Nat
  /\ highest_criticality # -1 =>
       /\ Stopped
       /\ \A e \in dag : <<e[2], e[1]>> \in graph
       /\ highest_criticality = highest_in(dag)

IInv == WInv /\ DagInv

\* What update_highest_criticality() computes.
LEMMA HighestIn ==
  ASSUME WInv, NEW E
  PROVE  /\ highest_in(E) \in Nat
         /\ \A g \in Gates : Counts(g, E) => length[g] <= highest_in(E)
         /\ \/ highest_in(E) = 0
            \/ \E g \in Gates : Counts(g, E) /\ length[g] = highest_in(E)
<1> DEFINE S == {0} \union {length[g] : g \in {h \in Gates : Counts(h, E)}}
<1>1. length \in [Gates -> Nat]
  BY DEF WInv, WalkTypes
<1>2. PICK B \in Nat : \A g \in Gates : length[g] <= B
  BY <1>1, LengthsBounded
<1>3. S \in SUBSET Nat /\ S # {} /\ \A k \in S : k <= B
  BY <1>1, <1>2
<1>4. Max(S) \in S /\ \A k \in S : k <= Max(S)
  <2> HIDE DEF S
  <2>1. QED
    BY <1>3, MaxOfBounded
<1>5. highest_in(E) = Max(S)
  BY DEF highest_in
<1>6. ASSUME NEW g \in Gates, Counts(g, E) PROVE length[g] \in S
  BY <1>6
<1>7. Max(S) = 0 \/ \E g \in Gates : Counts(g, E) /\ length[g] = Max(S)
  BY <1>4
<1> HIDE DEF S
<1>8. QED
  BY <1>3, <1>4, <1>5, <1>6, <1>7

LEMMA InitInv == Init => IInv
<1> SUFFICES ASSUME Init PROVE IInv
  OBVIOUS
<1>1. WInv
  BY WalkInitInv DEF Init
<1>2. dag \in Dags
  BY DEF Init
<1>3. dag \in SUBSET (Gates \X Gates)
  BY <1>2, GraphFacts
<1>4. QED
  BY <1>1, <1>3 DEF IInv, DagInv, Init

LEMMA NextInv == IInv /\ [Next]_vars => IInv'
<1> SUFFICES ASSUME IInv, [Next]_vars PROVE IInv'
  OBVIOUS
<1>1. CASE WalkOn
  <2>1. WInv'
    BY <1>1, WalkKeepsInv, NextLayerKeepsInv DEF WalkOn, WalkNext, IInv
  <2>2. highest_criticality = -1
    BY <1>1 DEF WalkOn, WalkNext, Walk, NextLayer, IInv, DagInv, Stopped
  <2>3. DagInv'
    BY <1>1, <2>2 DEF WalkOn, IInv, DagInv
  <2>4. QED
    BY <2>1, <2>3 DEF IInv
<1>2. CASE Assigned
  <2>1. /\ Stopped /\ graph = reversed(dag) /\ UNCHANGED <<walkVars, dag>>
        /\ highest_criticality' = highest_in(dag)
    BY <1>2 DEF Assigned
  <2>2. WInv' /\ Stopped' /\ highest_criticality' = highest_in(dag)'
    BY <2>1 DEF IInv, WInv, WalkTypes, InLayer, WalkedOrWaiting, Lengthened,
                NoneInto, walkVars, Stopped, highest_in
  <2>3. highest_in(dag) \in Nat
    BY HighestIn DEF IInv
  <2>4. \A e \in dag : <<e[2], e[1]>> \in graph
    BY <2>1 DEF reversed
  <2>5. QED
    BY <2>1, <2>2, <2>3, <2>4 DEF IInv, DagInv, walkVars
<1>3. ASSUME NEW g \in Gates, Complete(g) PROVE IInv'
  <2>1. /\ highest_criticality # -1 /\ dag' \in SUBSET dag
        /\ highest_criticality' = highest_in(dag') /\ UNCHANGED walkVars
    BY <1>3 DEF Complete
  <2>2. WInv' /\ Stopped'
    BY <2>1 DEF IInv, DagInv, WInv, WalkTypes, InLayer, WalkedOrWaiting, Lengthened,
                NoneInto, walkVars, Stopped
  <2>3. highest_in(dag') \in Nat
    BY HighestIn DEF IInv
  <2>4. highest_in(dag') = highest_in(dag)'
    BY <2>1 DEF highest_in, walkVars
  <2>5. QED
    BY <2>1, <2>2, <2>3, <2>4 DEF IInv, DagInv, walkVars
<1>4. CASE UNCHANGED vars
  BY <1>4 DEF vars, walkVars, IInv, DagInv, WInv, WalkTypes, InLayer,
              WalkedOrWaiting, Lengthened, NoneInto, Stopped, highest_in
<1>5. QED
  BY <1>1, <1>2, <1>3, <1>4 DEF Next

\* The walk and the simulation keep to the invariant, for any graphs.
THEOREM CriticalityInv == Spec => []IInv
BY InitInv, NextInv, PTL DEF Spec

-----------------------------------------------------------------------------
(* What follows.                                                           *)

\* "removing gate prematurely from dag." (1692): the walk takes no gate to
\* which an edge is left, and none twice, and its loop (1669, 1717) does not
\* run on without a layer.
THEOREM EachGateInTurnHolds == Spec => []EachGateInTurn
<1>1. ASSUME WInv PROVE NeverPremature
  <2> SUFFICES ASSUME NEW g \in current_gates \union next_gates
               PROVE  /\ in_degree(g, edges) = 0
                      /\ length[g] > 0
                      /\ \A s \in Gates : <<g, s>> \in graph => <<g, s>> \in edges
    BY DEF NeverPremature
  <2>1. g \in Gates /\ edges \in SUBSET (Gates \X Gates)
    BY <1>1 DEF WInv, WalkTypes
  <2>2. /\ NoneInto(g) /\ length[g] > 0
        /\ \A s \in Gates : <<g, s>> \in graph => <<g, s>> \in edges
    BY <1>1 DEF WInv, InLayer
  <2>3. in_degree(g, edges) = 0
    BY <2>1, <2>2, Degrees DEF NoneInto
  <2>4. QED
    BY <2>2, <2>3
<1>2. IInv => EachGateInTurn
  BY <1>1, NoneStranded DEF IInv, EachGateInTurn
<1>3. QED
  BY <1>2, CriticalityInv, PTL

\* highest_criticality (1738) is the criticality of a gate that can go, as long
\* as gates depend on one another: criticality falls along every edge.
THEOREM HighestIsActiveHolds == Spec => []HighestIsActive
<1>1. ASSUME IInv PROVE HighestIsActive
  <2> SUFFICES ASSUME highest_criticality # -1, dag # {}
               PROVE  \E g \in Gates : /\ in_degree(g, dag) = 0
                                       /\ out_degree(g, dag) # 0
                                       /\ length[g] = highest_criticality
    BY DEF HighestIsActive
  <2>1. /\ dag \in SUBSET (Gates \X Gates) /\ edges = {}
        /\ \A e \in dag : <<e[2], e[1]>> \in graph
        /\ highest_criticality = highest_in(dag)
        /\ WInv
    BY <1>1 DEF IInv, DagInv, Stopped
  <2>2. \A p, s \in Gates : <<p, s>> \in dag =>
          /\ length[p] > length[s] /\ length[p] > 0
          /\ Counts(p, dag)
    <3> SUFFICES ASSUME NEW p \in Gates, NEW s \in Gates, <<p, s>> \in dag
                 PROVE  /\ length[p] > length[s] /\ length[p] > 0
                        /\ Counts(p, dag)
      OBVIOUS
    <3>1. <<s, p>> \in graph \ edges
      BY <2>1
    <3>2. length[p] >= length[s] + latency[p]
      BY <2>1, <3>1 DEF WInv, Lengthened
    <3>3. length[p] \in Nat /\ length[s] \in Nat /\ latency[p] \in Nat \ {0}
      BY <2>1 DEF WInv, WalkTypes
    <3>4. out_degree(p, dag) # 0
      BY <2>1, Degrees
    <3>5. QED
      BY <3>2, <3>3, <3>4 DEF Counts
  <2>3. PICK p \in Gates, s \in Gates : <<p, s>> \in dag
    BY <2>1
  <2>4. highest_in(dag) \in Nat /\ length[p] <= highest_in(dag) /\ length[p] > 0
        /\ length[p] \in Nat
    BY <2>1, <2>2, <2>3, HighestIn DEF WInv, WalkTypes
  <2>5. PICK g \in Gates : Counts(g, dag) /\ length[g] = highest_in(dag)
    BY <2>1, <2>4, HighestIn
  <2>6. in_degree(g, dag) = 0
    <3> SUFFICES ASSUME NEW q \in Gates, <<q, g>> \in dag PROVE FALSE
      BY <2>1, Degrees
    <3>1. length[q] > length[g] /\ length[q] <= highest_in(dag)
      BY <2>1, <2>2, HighestIn
    <3>2. length[q] \in Nat
      BY <2>1 DEF WInv, WalkTypes
    <3>3. QED
      BY <2>4, <2>5, <3>1, <3>2
  <2>7. QED
    BY <2>1, <2>5, <2>6 DEF Counts
<1>2. QED
  BY <1>1, CriticalityInv, PTL

-----------------------------------------------------------------------------
(* The longest paths.                                                      *)

\* A length is that of the gate alone, when it has no predecessor, or that of
\* a walked predecessor and the gate.
Attained ==
  \A s \in Gates :
    IF Predecessors(s) = {} THEN length[s] = latency[s]
    ELSE \/ length[s] = 0
         \/ \E p \in Predecessors(s) :
              <<p, s>> \notin edges /\ length[s] = length[p] + latency[s]

\* The result is the greatest length so far.
ResultIsGreatest ==
  /\ \E g \in Gates : result = length[g]
  /\ \A g \in Gates : length[g] <= result

PathInv == Attained /\ ResultIsGreatest

\* The greatest of the lengths.
LEMMA GreatestLength ==
  ASSUME NEW f \in [Gates -> Nat], NEW S \in SUBSET Gates, S # {}
  PROVE  /\ \E g \in S : Max({f[h] : h \in S}) = f[g]
         /\ \A g \in S : f[g] <= Max({f[h] : h \in S})
<1> DEFINE T == {f[h] : h \in S}
<1>1. PICK B \in Nat : \A g \in Gates : f[g] <= B
  BY LengthsBounded
<1>2. T \in SUBSET Nat /\ T # {} /\ \A k \in T : k <= B
  BY <1>1
<1>3. Max(T) \in T /\ \A k \in T : k <= Max(T)
  <2> HIDE DEF T
  <2>1. QED
    BY <1>2, MaxOfBounded
<1>4. QED
  BY <1>3

\* The gates at which the walk starts have their own latency.
LEMMA InitPathInv == WalkInit => PathInv
<1> SUFFICES ASSUME WalkInit PROVE PathInv
  OBVIOUS
<1>1. WInv
  BY WalkInitInv
<1>2. length \in [Gates -> Nat] /\ graph \in SUBSET (Gates \X Gates)
  BY <1>1 DEF WInv, WalkTypes
<1>3. \A s \in Gates : Predecessors(s) = {} <=> s \in Sources(graph)
  BY <1>2, Degrees DEF Predecessors, Sources
<1>4. Attained
  BY <1>3 DEF Attained, WalkInit
<1>5. Gates \in SUBSET Gates /\ Gates # {}
  BY CriticalPathAssumption DEF Gates
<1>6. /\ \E g \in Gates : Max({length[h] : h \in Gates}) = length[g]
      /\ \A g \in Gates : length[g] <= Max({length[h] : h \in Gates})
  BY <1>2, <1>5, GreatestLength
<1>7. result = Max({length[h] : h \in Gates})
  BY DEF WalkInit
<1>8. QED
  BY <1>4, <1>6, <1>7 DEF PathInv, ResultIsGreatest

\* Walking a gate raises its successors to a path through it, or leaves them.
LEMMA WalkKeepsPathInv ==
  ASSUME WInv, PathInv, NEW g \in Gates, Walk(g)
  PROVE  PathInv'
<1>1. /\ \A s \in Gates : length'[s] =
            IF s \in Successors(g) THEN Larger(length[s], length[g] + latency[s])
            ELSE length[s]
      /\ result' = Max({result} \union {length'[s] : s \in Successors(g)})
      /\ edges' = {e \in edges : e[1] # g}
      /\ g \in current_gates
      /\ UNCHANGED <<latency, graph>>
  BY DEF Walk
<1>2. WInv'
  BY WalkKeepsInv
<1>3. /\ latency \in [Gates -> Nat \ {0}] /\ length \in [Gates -> Nat]
      /\ length' \in [Gates -> Nat]
      /\ edges \in SUBSET graph /\ graph \in SUBSET (Gates \X Gates)
  BY <1>2 DEF WInv, WalkTypes
<1>4. Successors(g) \in SUBSET Gates
  BY DEF Successors
<1>5. \A s \in Gates : Predecessors(s)' = Predecessors(s)
  BY <1>1 DEF Predecessors
<1>6. \A p, s \in Gates : <<p, s>> \in graph /\ <<p, s>> \notin edges =>
        length'[p] = length[p] /\ <<p, s>> \notin edges'
  BY <1>1 DEF WInv, Lengthened, NoneInto, Successors
<1>7. g \notin Successors(g) /\ length'[g] = length[g]
  BY <1>1 DEF WInv, InLayer, NoneInto, Successors
<1>8. Attained'
  <2> SUFFICES ASSUME NEW s \in Gates
               PROVE  IF Predecessors(s) = {} THEN length'[s] = latency[s]
                      ELSE \/ length'[s] = 0
                           \/ \E p \in Predecessors(s) :
                                /\ <<p, s>> \notin edges'
                                /\ length'[s] = length'[p] + latency[s]
    BY <1>1, <1>5 DEF Attained
  <2>1. CASE length'[s] = length[s]
    <3>1. \A p \in Predecessors(s) : p \in Gates /\ <<p, s>> \in graph
      BY DEF Predecessors
    <3>2. QED
      BY <1>6, <2>1, <3>1 DEF PathInv, Attained
  <2>2. CASE length'[s] # length[s]
    <3>1. s \in Successors(g) /\ length'[s] = length'[g] + latency[s]
      BY <1>1, <1>7, <2>2 DEF Larger
    <3>2. g \in Predecessors(s) /\ <<g, s>> \notin edges'
      BY <1>1, <1>3, <3>1 DEF Successors, Predecessors
    <3>3. QED
      BY <3>1, <3>2
  <2>3. QED
    BY <2>1, <2>2
<1>9. \A s \in Gates : length'[s] >= length[s]
  BY <1>1, <1>3 DEF Larger
<1>10. PICK B \in Nat : \A s \in Gates : length'[s] <= B
  BY <1>3, LengthsBounded
<1>11. PICK r \in Gates : result = length[r]
  BY DEF PathInv, ResultIsGreatest
<1> DEFINE S == {result} \union {length'[s] : s \in Successors(g)}
<1>12. S \in SUBSET Nat /\ S # {} /\ \A k \in S : k <= B
  BY <1>3, <1>4, <1>9, <1>10, <1>11
<1>13. Max(S) \in S /\ \A k \in S : k <= Max(S)
  <2> HIDE DEF S
  <2>1. QED
    BY <1>12, MaxOfBounded
<1>14. result' = Max(S)
  BY <1>1
<1>15. \A s \in Gates : length'[s] <= result'
  <2> SUFFICES ASSUME NEW s \in Gates PROVE length'[s] <= result'
    OBVIOUS
  <2>1. result <= result' /\ result' \in Nat /\ result \in Nat
    BY <1>12, <1>13, <1>14
  <2>2. CASE s \in Successors(g)
    <3>1. length'[s] \in S
      BY <2>2
    <3>2. QED
      BY <1>13, <1>14, <3>1
  <2>3. CASE s \notin Successors(g)
    <3>1. length'[s] = length[s] /\ length[s] <= result /\ length[s] \in Nat
      BY <1>1, <1>3, <2>3 DEF PathInv, ResultIsGreatest
    <3>2. QED
      BY <2>1, <3>1
  <2>4. QED
    BY <2>2, <2>3
<1>16. \E s \in Gates : result' = length'[s]
  <2>1. CASE result' = result
    <3>1. length'[r] <= result' /\ length'[r] >= length[r]
      BY <1>9, <1>15
    <3>2. length'[r] = result'
      BY <1>3, <1>11, <2>1, <3>1
    <3>3. QED
      BY <3>2
  <2>2. CASE result' # result
    BY <1>4, <1>13, <1>14, <2>2
  <2>3. QED
    BY <2>1, <2>2
<1>17. QED
  BY <1>8, <1>15, <1>16 DEF PathInv, ResultIsGreatest

\* Induction, for a set instead of a property: this form has no operator as a
\* parameter.
LEMMA SetInduction ==
  ASSUME NEW T, 0 \in T, \A k \in Nat : k \in T => k + 1 \in T
  PROVE  Nat \subseteq T
<1> SUFFICES ASSUME Nat \ T # {} PROVE FALSE
  OBVIOUS
<1>1. PICK m \in Nat \ T : \A k \in Nat \ T : m <= k
  BY LeastExists
<1>2. m # 0 /\ m - 1 \in Nat
  BY <1>1
<1>3. m - 1 \in T
  BY <1>1, <1>2
<1>4. QED
  BY <1>1, <1>2, <1>3

\* The lengths of the paths of at most 0 to m edges.
Grown(F, m) ==
  /\ F = [k \in 0 .. m |-> F[k]]
  /\ \A k \in 0 .. m : F[k] =
       [g \in Gates |->
          latency[g] + IF k = 0 \/ Predecessors(g) = {} THEN 0
                       ELSE Max({F[k - 1][p] : p \in Predecessors(g)})]

Grows(m) == \E F : Grown(F, m)

\* There are such lengths, however long the paths may get.
LEMMA AllGrow == Grows(n)
<1> DEFINE T == {m \in Nat : Grows(m)}
           Next1(f, k) == [g \in Gates |->
                    latency[g] + IF k = 0 \/ Predecessors(g) = {} THEN 0
                                 ELSE Max({f[p] : p \in Predecessors(g)})]
<1>1. 0 \in T
  <2> DEFINE F == [k \in 0 .. 0 |-> [g \in Gates |-> latency[g] + 0]]
  <2>1. Grown(F, 0)
    BY DEF Grown
  <2>2. QED
    BY <2>1 DEF Grows
<1>2. ASSUME NEW m \in Nat, m \in T
      PROVE  m + 1 \in T
  <2>1. PICK F : Grown(F, m)
    BY <1>2 DEF Grows
  <2> DEFINE G == [k \in 0 .. m + 1 |-> IF k <= m THEN F[k] ELSE Next1(F[m], m + 1)]
  <2>2. ASSUME NEW k \in 0 .. m + 1
        PROVE  G[k] = Next1(G[k - 1], k)
    <3>1. CASE k = 0
      <4>1. G[k] = F[0] /\ 0 \in 0 .. m
        BY <3>1
      <4>2. F[0] = Next1(F[0 - 1], 0)
        BY <2>1, <4>1 DEF Grown
      <4>3. Next1(F[0 - 1], 0) = Next1(G[k - 1], k)
        BY <3>1
      <4>4. QED
        BY <4>1, <4>2, <4>3
    <3>2. CASE k # 0 /\ k <= m
      <4>1. k \in 0 .. m /\ k - 1 \in 0 .. m + 1 /\ k - 1 <= m
        BY <3>2
      <4>2. G[k] = F[k] /\ G[k - 1] = F[k - 1]
        BY <4>1, <3>2
      <4>3. F[k] = Next1(F[k - 1], k)
        BY <2>1, <4>1 DEF Grown
      <4> HIDE DEF G, Next1
      <4>4. QED
        BY <4>2, <4>3
    <3>3. CASE k = m + 1
      <4>1. m \in 0 .. m + 1 /\ ~(k <= m) /\ k - 1 = m
        BY <3>3
      <4>2. G[k] = Next1(F[m], m + 1) /\ G[m] = F[m]
        BY <4>1
      <4> HIDE DEF G, Next1
      <4>3. Next1(F[m], m + 1) = Next1(G[k - 1], k)
        BY <3>3, <4>1, <4>2
      <4>4. QED
        BY <4>2, <4>3
    <3>4. k = 0 \/ (k # 0 /\ k <= m) \/ k = m + 1
      OBVIOUS
    <3> HIDE DEF G, Next1
    <3>5. QED
      BY <3>1, <3>2, <3>3, <3>4, Zenon
  <2>3. G = [k \in 0 .. m + 1 |-> G[k]]
    OBVIOUS
  <2> HIDE DEF G
  <2>4. Grown(G, m + 1)
    BY <2>2, <2>3 DEF Grown
  <2>5. QED
    BY <2>4 DEF Grows
<1>3. Nat \subseteq T
  <2> HIDE DEF T
  <2>1. QED
    BY <1>1, <1>2, SetInduction
<1>4. QED
  BY <1>3, CriticalPathAssumption

\* So the recursive definition is what it says.
LEMMA PathsOfLength == Grown(LongestPaths, n)
<1> DEFINE body(F) == [k \in 0 .. n |->
       [g \in Gates |->
          latency[g] + IF k = 0 \/ Predecessors(g) = {} THEN 0
                       ELSE Max({F[k - 1][p] : p \in Predecessors(g)})]]
<1>1. PICK F : Grown(F, n)
  BY AllGrow DEF Grows
<1>2. body(F) = [k \in 0 .. n |-> F[k]]
  BY <1>1, Zenon DEF Grown
<1>3. F = body(F)
  BY <1>1, <1>2 DEF Grown
<1>4. LongestPaths = CHOOSE f : f = body(f)
  BY DEF LongestPaths
<1>5. LongestPaths = body(LongestPaths)
  <2> HIDE DEF body
  <2>1. QED
    BY <1>3, <1>4, Zenon
<1>6. \A k \in 0 .. n : body(LongestPaths)[k] =
       [g \in Gates |->
          latency[g] + IF k = 0 \/ Predecessors(g) = {} THEN 0
                       ELSE Max({LongestPaths[k - 1][p] : p \in Predecessors(g)})]
  BY Zenon
<1>7. body(LongestPaths) = [k \in 0 .. n |-> body(LongestPaths)[k]]
  OBVIOUS
<1>8. QED
  <2> HIDE DEF body
  <2>1. \A k \in 0 .. n : LongestPaths[k] =
       [g \in Gates |->
          latency[g] + IF k = 0 \/ Predecessors(g) = {} THEN 0
                       ELSE Max({LongestPaths[k - 1][p] : p \in Predecessors(g)})]
    BY <1>5, <1>6, Zenon
  <2>2. LongestPaths = [k \in 0 .. n |-> LongestPaths[k]]
    BY <1>5, <1>7, Zenon
  <2>3. QED
    BY <2>1, <2>2, Zenon DEF Grown

\* When no edge is left each length is made of those of the predecessors.
LEMMA LengthsSum ==
  ASSUME WInv, PathInv, edges = {}, NEW g \in Gates
  PROVE  length[g] = latency[g] + IF Predecessors(g) = {} THEN 0
                                  ELSE Max({length[p] : p \in Predecessors(g)})
<1>1. /\ latency \in [Gates -> Nat \ {0}] /\ length \in [Gates -> Nat]
  BY DEF WInv, WalkTypes
<1>2. CASE Predecessors(g) = {}
  BY <1>1, <1>2 DEF PathInv, Attained
<1>3. CASE Predecessors(g) # {}
  <2> DEFINE greatest == Max({length[p] : p \in Predecessors(g)})
  <2>1. Predecessors(g) \in SUBSET Gates
    BY DEF Predecessors
  <2>2. /\ \E q \in Predecessors(g) : greatest = length[q]
        /\ \A p \in Predecessors(g) : length[p] <= greatest
    BY <1>1, <1>3, <2>1, GreatestLength
  <2> HIDE DEF greatest
  <2>3. \A p \in Predecessors(g) : length[g] >= length[p] + latency[g]
    BY DEF WInv, Lengthened, Predecessors
  <2>4. length[g] = 0 \/ \E p \in Predecessors(g) : length[g] = length[p] + latency[g]
    BY <1>3 DEF PathInv, Attained
  <2>5. PICK q \in Predecessors(g) : greatest = length[q]
    BY <2>2
  <2>6. length[g] # 0
    BY <1>1, <2>1, <2>3, <2>5
  <2>7. PICK p \in Predecessors(g) : length[g] = length[p] + latency[g]
    BY <2>4, <2>6
  <2>8. length[p] <= length[q] /\ length[g] >= length[q] + latency[g]
    BY <2>2, <2>3, <2>5
  <2>9. /\ length[p] \in Nat /\ length[q] \in Nat /\ length[g] \in Nat /\ latency[g] \in Nat
    BY <1>1, <2>1
  <2>10. length[g] = latency[g] + greatest
    BY <2>5, <2>7, <2>8, <2>9
  <2>11. QED
    BY <1>3, <2>10 DEF greatest
<1>4. QED
  BY <1>2, <1>3

\* A gate that r puts at place k has no longer path than of k edges.
LEMMA PathsByRank ==
  ASSUME WInv, PathInv, edges = {},
         NEW r \in [Gates -> Nat],
         \A p, g \in Gates : <<p, g>> \in graph => r[p] < r[g]
  PROVE  \A k \in 0 .. n : \A g \in Gates : r[g] <= k => LongestPaths[k][g] = length[g]
<1> DEFINE T == {k \in Nat : k <= n => \A g \in Gates : r[g] <= k => LongestPaths[k][g] = length[g]}
<1>1. \A k \in 0 .. n : \A g \in Gates : LongestPaths[k][g] =
         latency[g] + IF k = 0 \/ Predecessors(g) = {} THEN 0
                      ELSE Max({LongestPaths[k - 1][p] : p \in Predecessors(g)})
  BY PathsOfLength DEF Grown
<1>2. n \in Nat \ {0}
  BY CriticalPathAssumption
<1>3. \A g \in Gates : \A p \in Predecessors(g) : p \in Gates /\ r[p] < r[g]
  BY DEF Predecessors
<1>4. 0 \in T
  <2> SUFFICES ASSUME NEW g \in Gates, r[g] <= 0 PROVE LongestPaths[0][g] = length[g]
    OBVIOUS
  <2>1. Predecessors(g) = {}
    BY <1>3
  <2>2. 0 \in 0 .. n
    BY <1>2
  <2>3. LongestPaths[0][g] = latency[g] + 0
    BY <1>1, <2>2
  <2>4. length[g] = latency[g] + 0
    BY <2>1, LengthsSum
  <2>5. QED
    BY <2>3, <2>4
<1>5. ASSUME NEW k \in Nat, k \in T
      PROVE  k + 1 \in T
  <2> SUFFICES ASSUME k + 1 <= n, NEW g \in Gates, r[g] <= k + 1
               PROVE  LongestPaths[k + 1][g] = length[g]
    OBVIOUS
  <2>1. k + 1 \in 0 .. n /\ (k + 1) - 1 = k /\ k + 1 # 0 /\ k <= n
    BY <1>2
  <2>2. LongestPaths[k + 1][g] =
          latency[g] + IF Predecessors(g) = {} THEN 0
                       ELSE Max({LongestPaths[k][p] : p \in Predecessors(g)})
    BY <1>1, <2>1
  <2>3. ASSUME NEW p \in Predecessors(g) PROVE LongestPaths[k][p] = length[p]
    <3>1. p \in Gates /\ r[p] \in Nat /\ r[g] \in Nat /\ r[p] < r[g]
      BY <1>3
    <3>2. r[p] <= k
      BY <3>1
    <3>3. QED
      BY <1>5, <2>1, <3>1, <3>2
  <2>4. {LongestPaths[k][p] : p \in Predecessors(g)} = {length[p] : p \in Predecessors(g)}
    BY <2>3
  <2>5. QED
    BY <2>2, <2>4, LengthsSum
<1>6. Nat \subseteq T
  <2> HIDE DEF T
  <2>1. QED
    BY <1>4, <1>5, SetInduction
<1>7. QED
  BY <1>2, <1>6

\* Every path has fewer edges than there are gates.
LEMMA PathsFound ==
  ASSUME WInv, PathInv, edges = {}
  PROVE  \A g \in Gates : LongestPaths[n][g] = length[g]
<1>1. n \in Nat /\ Gates = 1 .. n /\ n \in 0 .. n
  BY CriticalPathAssumption DEF Gates
<1>2. graph \in SUBSET (Gates \X Gates) /\ Directed(graph)
  BY DEF WInv, WalkTypes
<1>3. CASE \A e \in graph : e[1] < e[2]
  <2> DEFINE r == [g \in Gates |-> g]
  <2>1. r \in [Gates -> Nat] /\ \A g \in Gates : r[g] <= n
    BY <1>1
  <2>2. \A p, g \in Gates : <<p, g>> \in graph => r[p] < r[g]
    BY <1>3
  <2> HIDE DEF r
  <2>3. QED
    BY <1>1, <2>1, <2>2, PathsByRank
<1>4. CASE \A e \in graph : e[2] < e[1]
  <2> DEFINE r == [g \in Gates |-> n - g]
  <2>1. r \in [Gates -> Nat] /\ \A g \in Gates : r[g] <= n
    BY <1>1
  <2>2. \A p, g \in Gates : <<p, g>> \in graph => r[p] < r[g]
    BY <1>1, <1>4
  <2> HIDE DEF r
  <2>3. QED
    BY <1>1, <2>1, <2>2, PathsByRank
<1>5. QED
  BY <1>2, <1>3, <1>4 DEF Directed

\* The paths are kept through the walk and the simulation after it.
THEOREM PathsGrow == Spec => [](IInv /\ PathInv)
<1>1. Init => IInv /\ PathInv
  BY InitInv, InitPathInv DEF Init
<1>2. ASSUME IInv, PathInv, [Next]_vars PROVE IInv' /\ PathInv'
  <2>1. IInv'
    BY <1>2, NextInv
  <2>2. ASSUME NEW g \in Gates, Walk(g) PROVE PathInv'
    BY <1>2, <2>2, WalkKeepsPathInv DEF IInv
  <2>3. CASE UNCHANGED <<latency, graph, edges, length, result>>
    BY <1>2, <2>1, <2>3 DEF PathInv, Attained, ResultIsGreatest, Predecessors
  <2>4. \/ \E g \in Gates : Walk(g)
        \/ UNCHANGED <<latency, graph, edges, length, result>>
    BY <1>2 DEF Next, WalkOn, WalkNext, NextLayer, Assigned, Complete, vars, walkVars
  <2>5. QED
    BY <2>1, <2>2, <2>3, <2>4
<1>3. QED
  BY <1>1, <1>2, PTL DEF Spec

\* When a walk ends, each gate has the length of its longest path, and the result
\* is the longest of all, for any graph, walked forward (get_critical_clk) or
\* reversed (assign_criticality).
THEOREM CriticalPathHolds == Spec => []CriticalPathFound
<1>1. IInv /\ PathInv => CriticalPathFound
  <2> SUFFICES ASSUME IInv, PathInv, Stopped
               PROVE  /\ \A g \in Gates : length[g] = LongestPaths[n][g]
                      /\ result = Max({LongestPaths[n][g] : g \in Gates})
    BY DEF CriticalPathFound
  <2>1. \A g \in Gates : LongestPaths[n][g] = length[g]
    BY PathsFound DEF IInv, Stopped
  <2>2. {LongestPaths[n][g] : g \in Gates} = {length[g] : g \in Gates}
    BY <2>1
  <2>3. length \in [Gates -> Nat] /\ Gates \in SUBSET Gates /\ Gates # {}
    BY CriticalPathAssumption DEF IInv, WInv, WalkTypes, Gates
  <2>4. /\ \E g \in Gates : Max({length[h] : h \in Gates}) = length[g]
        /\ \A g \in Gates : length[g] <= Max({length[h] : h \in Gates})
    BY <2>3, GreatestLength
  <2> DEFINE greatest == Max({length[h] : h \in Gates})
  <2> HIDE DEF greatest
  <2>5. PICK g \in Gates : greatest = length[g]
    BY <2>4 DEF greatest
  <2>6. PICK h \in Gates : result = length[h]
    BY DEF PathInv, ResultIsGreatest
  <2>7. length[g] <= length[h] /\ length[h] <= length[g]
    BY <2>4, <2>5, <2>6 DEF PathInv, ResultIsGreatest, greatest
  <2>8. length[g] = length[h]
    BY <2>3, <2>7
  <2>9. QED
    BY <2>1, <2>2, <2>5, <2>6, <2>8 DEF greatest
<1>2. QED
  BY <1>1, PathsGrow, PTL
=============================================================================
