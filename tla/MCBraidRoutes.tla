--------------------------- MODULE MCBraidRoutes ---------------------------
(***************************************************************************)
(* All source and destination tiles of one lattice, in both orders of      *)
(* dimensions, and what the event loop relies on in their braids.          *)
(***************************************************************************)
EXTENDS BraidRoutes

VARIABLES src_qbit, dest_qbit, YX_order

route_vars == <<src_qbit, dest_qbit, YX_order>>

RouteOf(s, d, yx) == /\ src_qbit = s
                     /\ dest_qbit = d
                     /\ YX_order = yx

RouteInit == \E s, d \in Qubits : s # d /\ RouteOf(s, d, FALSE)

\* resolve_cnot asks for the other order of the same pair.
Turn == ~YX_order /\ YX_order' = TRUE /\ UNCHANGED <<src_qbit, dest_qbit>>

\* Another CNOT.
AnotherPair ==
  \E d \in Qubits \ {src_qbit} : /\ dest_qbit' = d
                                 /\ YX_order' = FALSE
                                 /\ UNCHANGED src_qbit

RouteNext == Turn \/ AnotherPair

RouteSpec == RouteInit /\ [][RouteNext]_route_vars

-----------------------------------------------------------------------------

ancilla     == cnot_ancillas(src_qbit, dest_qbit)
both_routes == cnot_routes(src_qbit, dest_qbit, ancilla.anc1, YX_order)
route1      == both_routes.route_1
route2      == both_routes.route_2
turn_node   == Last(route1.nodes)
near_corner == find_nearest(dest_qbit, find_diagonal(src_qbit, ancilla.anc1))

\* A braid that runs through a tile leaves its border between two opposite
\* corners: through(q, n) is that gap in the S that starts at corner n.
through(q, n) == edge(find_vertical(q, n), find_horizontal(q, n))

\* The nodes that can be reached from n over the given links.
Reach(n, links) ==
  LET R[k \in 0 .. Cardinality(links)] ==
        IF k = 0 THEN {n}
        ELSE LET near == R[k - 1]
             IN  near \union UNION {l \in links : l \cap near # {}}
  IN  R[Cardinality(links)]

OnMesh(r) == Range(r.nodes) \subseteq Nodes /\ Range(r.links) \subseteq Links

\* Route 1 leads from the ancilla, through the source tile and through the
\* destination tile, to the node where route 2 starts; route 2 leads back
\* through the source tile to the other end of the ancilla.
LoopClosed ==
  ~are_adjacent(src_qbit, dest_qbit) =>
    /\ turn_node \in Reach(ancilla.anc1,
         Range(route1.links) \union {through(src_qbit, ancilla.anc1),
                                    through(dest_qbit, near_corner)})
    /\ ancilla.anc2 \in Reach(turn_node,
         Range(route2.links) \union {through(src_qbit, find_vertical(src_qbit, ancilla.anc1))})

\* resolve_cnot replaces one route by its YX form and keeps the events built
\* from the XY form of the other: they meet in the same last node of route 1
\* and the same last link of route 2, which cnot7 closes.
SameEndsBothWays ==
  LET xy == cnot_routes(src_qbit, dest_qbit, ancilla.anc1, FALSE)
  IN  /\ turn_node = Last(xy.route_1.nodes)
      /\ Last(route2.links) = Last(xy.route_2.links)
      /\ Last(route2.nodes) = Last(xy.route_2.nodes)

\* No event lists the node that another part of its own CNOT has engaged.
PartsDisjoint == ancilla.anc1 \notin Range(route1.nodes) /\ turn_node \notin Range(route2.nodes)

\* On an empty mesh a CNOT gets through: edge() and node_map find every link
\* and node its routes name, the routes run through both tiles and close the
\* loop, and none of its seven events is blocked by another.
RoutesCloseTheLoop == OnMesh(route1) /\ OnMesh(route2) /\ LoopClosed /\ PartsDisjoint

=============================================================================
