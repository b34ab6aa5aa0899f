---------------------------- MODULE GraphSearch ----------------------------
(***************************************************************************)
(* The two breadth-first searches over a project's code graph:             *)
(* graph_store.get_neighborhood, which collects the nodes around an entity *)
(* up to a depth, and navigation.get_path, which looks for a shortest      *)
(* route between two entities, first around third-party hubs and, if there *)
(* is none, through them.                                                  *)
(*                                                                         *)
(* The graph and the query are chosen in Init; a step visits one node.  In *)
(* which order the nodes of one layer are visited is left open (the code   *)
(* takes the order of the graph's arrays, or sorts by node_id).            *)
(***************************************************************************)
EXTENDS Integers, Sequences

CONSTANTS
    Node,      \* the nodes of the graph
    Graphs,    \* the sets of relationships considered
    Center,    \* the resolved entity the search starts from
    MaxDepth   \* bound on the depth asked for

ASSUME GraphSearchAssumption ==
    Center \in Node /\ Graphs \subseteq SUBSET (Node \X Node) /\ MaxDepth \in Nat \ {0}

VARIABLES
    edges,     \* relationships of the followed types, as <<from, to>>
    external,  \* get_path: the nodes flagged is_external
    query,     \* [kind, direction, depth, target]
    pc,        \* "search", or how it ended: "done", "found", "notFound"
    via,       \* get_path: is this the second, unrestricted phase?
    hop,       \* hop_of, or visited: the layer of each node seen so far
    parent,    \* get_path: the node each was reached from
    order,     \* get_neighborhood: the nodes in the order they were reached
    frontier,  \* the layer being expanded
    next,      \* next_frontier
    level      \* the loop variable: the hop being filled

vars == <<edges, external, query, pc, via, hop, parent, order, frontier, next, level>>
input == <<edges, external, query>>

-----------------------------------------------------------------------------
Unseen == -1
Seen(n) == hop[n] # Unseen

Queries ==
    [kind : {"neighbors"}, direction : {"in", "out", "both"},
     depth : 1 .. MaxDepth, target : {Center}]
    \union
    [kind : {"path"}, direction : {"both"}, depth : 1 .. MaxDepth, target : Node]

Init ==
    /\ edges \in Graphs
    /\ query \in Queries
    /\ external \in IF query.kind = "path" THEN SUBSET Node ELSE {{}}
    /\ pc = IF query.kind = "path" /\ query.target = Center THEN "found" ELSE "search"
    /\ via = FALSE
    /\ hop = [n \in Node |-> IF n = Center THEN 0 ELSE Unseen]
    /\ parent = [n \in Node |-> Center]
    /\ order = <<Center>>
    /\ frontier = {Center} /\ next = {}
    /\ level = 1

\* What a node leads to, in the direction asked for; a path search ignores the
\* direction of the edges.
Neighbors(n) ==
    {m \in Node : \/ query.direction \in {"out", "both"} /\ <<n, m>> \in edges
                  \/ query.direction \in {"in", "both"}  /\ <<m, n>> \in edges}

\* exclude_external: the first phase of a path search passes through no
\* external node, but may end at one.
MayVisit(m) == query.kind = "path" /\ ~via => m = query.target \/ m \notin external

\* What is left to be reached from the current layer.
Candidates(n) == {m \in Neighbors(n) : ~Seen(m) /\ MayVisit(m)}

\* Mutant: the layer of a node is taken from the loop that expands it next.
VisitLate(n, m) ==
    /\ hop' = [hop EXCEPT ![m] = IF hop[n] = 0 THEN level ELSE level + 1]
    /\ parent' = [parent EXCEPT ![m] = n]
    /\ order' = Append(order, m)
    /\ next' = next \union {m}
    /\ pc' = IF query.kind = "path" /\ m = query.target THEN "found" ELSE "search"
    /\ UNCHANGED <<input, via, frontier, level>>

\* Mutant: a node is put before those reached earlier, as a stack would.
VisitFirst(n, m) ==
    /\ hop' = [hop EXCEPT ![m] = level]
    /\ parent' = [parent EXCEPT ![m] = n]
    /\ order' = <<Head(order), m>> \o Tail(order)
    /\ next' = next \union {m}
    /\ pc' = IF query.kind = "path" /\ m = query.target THEN "found" ELSE "search"
    /\ UNCHANGED <<input, via, frontier, level>>

\* One neighbour that had not been reached; a path search ends at its target.
Visit(n, m) ==
    /\ hop' = [hop EXCEPT ![m] = level]
    /\ parent' = [parent EXCEPT ![m] = n]
    /\ order' = Append(order, m)
    /\ next' = next \union {m}
    /\ pc' = IF query.kind = "path" /\ m = query.target THEN "found" ELSE "search"
    /\ UNCHANGED <<input, via, frontier, level>>

Expand ==
    /\ pc = "search"
    /\ \E n \in frontier : \E m \in Candidates(n) : Visit(n, m)

LayerIsDone == pc = "search" /\ \A n \in frontier : Candidates(n) = {}

LastLayer == next = {} \/ level = query.depth

\* The loop goes on with the nodes just reached ...
NextLayer ==
    /\ LayerIsDone /\ ~LastLayer
    /\ level' = level + 1
    /\ frontier' = next /\ next' = {}
    /\ UNCHANGED <<input, pc, via, hop, parent, order>>

\* ... until the depth is used up or nothing new was reached.
Exhaust ==
    /\ LayerIsDone /\ LastLayer
    /\ query.kind = "neighbors" \/ via
    /\ pc' = IF query.kind = "neighbors" THEN "done" ELSE "notFound"
    /\ UNCHANGED <<input, via, hop, parent, order, frontier, next, level>>

\* Mutant: the second phase keeps what the first one visited.
SecondPhaseOnTop ==
    /\ LayerIsDone /\ LastLayer
    /\ query.kind = "path" /\ ~via
    /\ via' = TRUE
    /\ frontier' = {Center} /\ next' = {}
    /\ level' = 1
    /\ UNCHANGED <<input, pc, hop, parent, order>>

\* A path search that finds nothing starts again, through external nodes.
SecondPhase ==
    /\ LayerIsDone /\ LastLayer
    /\ query.kind = "path" /\ ~via
    /\ via' = TRUE
    /\ hop' = [n \in Node |-> IF n = Center THEN 0 ELSE Unseen]
    /\ parent' = [n \in Node |-> Center]
    /\ order' = <<Center>>
    /\ frontier' = {Center} /\ next' = {}
    /\ level' = 1
    /\ UNCHANGED <<input, pc>>

Next == Expand \/ NextLayer \/ Exhaust \/ SecondPhase

Spec == Init /\ [][Next]_vars

-----------------------------------------------------------------------------
(* The reference: what is within k hops of the center, by definition.      *)

Within(Allowed(_)) ==
    LET W[k \in 0 .. MaxDepth] ==
          IF k = 0 THEN {Center}
          ELSE W[k - 1] \union {m \in Node : Allowed(m) /\ \E n \in W[k - 1] :
                                                m \in Neighbors(n)}
    IN  W

AroundHubs == Within(LAMBDA m : m = query.target \/ m \notin external)
Anywhere   == Within(LAMBDA m : TRUE)

\* _reconstruct_path: the parents from a node back to the center.
Route ==
    LET Back[k \in 0 .. MaxDepth] ==
          IF k = 0 THEN <<query.target>>
          ELSE IF Head(Back[k - 1]) = Center THEN Back[k - 1]
          ELSE <<parent[Head(Back[k - 1])]>> \o Back[k - 1]
    IN  Back[MaxDepth]

-----------------------------------------------------------------------------
(* Properties.                                                             *)

SearchTypeOK ==
    /\ edges \in Graphs /\ external \subseteq Node
    /\ query \in Queries
    /\ pc \in {"search", "done", "found", "notFound"} /\ via \in BOOLEAN
    /\ hop \in [Node -> {Unseen} \union Nat] /\ parent \in [Node -> Node]
    /\ order \in Seq(Node)
    /\ frontier \subseteq Node /\ next \subseteq Node
    /\ level \in 1 .. MaxDepth

\* A neighbourhood is exact: its nodes are those within the depth asked for,
\* each labelled with its distance, in any direction and around any cycle.
HopsAreDistances ==
    pc = "done" =>
        \A n \in Node :
            /\ Seen(n) <=> n \in Anywhere[query.depth]
            /\ Seen(n) => n \in Anywhere[hop[n]]
                          /\ (hop[n] > 0 => n \notin Anywhere[hop[n] - 1])

\* Cutting the nodes at any limit drops the farthest ones (graph_store.py:584):
\* they are listed by distance, each once, the center first.
FarthestDropFirst ==
    /\ order[1] = Center
    /\ \A i, j \in DOMAIN order : i < j =>
          order[i] # order[j] /\ hop[order[i]] =< hop[order[j]]

\* A path that is found is a route along stored edges, no longer than any other
\* allowed one; it goes through external nodes only if no route around them is
\* within the depth; and one that is not found does not exist within the depth.
PathIsShortest ==
    /\ pc = "found" /\ query.target # Center =>
          LET hops == Len(Route) - 1
              reach == IF via THEN Anywhere ELSE AroundHubs
          IN  /\ Route[1] = Center /\ Route[hops + 1] = query.target
              /\ \A i \in 1 .. hops : Route[i + 1] \in Neighbors(Route[i])
              /\ ~via => \A i \in 2 .. hops : Route[i] \notin external
              /\ hops =< query.depth /\ query.target \notin reach[hops - 1]
              /\ via => query.target \notin AroundHubs[query.depth]
    /\ pc = "notFound" => query.target \notin Anywhere[query.depth]

=============================================================================
