------------------------- MODULE GraphSearchProofs -------------------------
(***************************************************************************)
(* Theorems about module GraphSearch, for any set of graphs over any set   *)
(* of nodes and any bound on the depth.                                    *)
(*                                                                         *)
(* The invariant is about layers: the frontier and the next frontier are   *)
(* the two outermost layers, the listed nodes are the seen ones, every     *)
(* node but the center was reached from the layer before its own, and the  *)
(* layers inside the frontier lead nowhere new (SInv).  PInv relates the   *)
(* phases of get_path: what was found is in the last layer, and the first  *)
(* phase is given up only when its target is beyond the depth.  The        *)
(* reference definitions are recursive functions: the sets within k edges  *)
(* are related to the layers as balls, and the path that the code walks    *)
(* back over the parents as a trail, by induction over k.                  *)
(***************************************************************************)
EXTENDS GraphSearch, WellFoundedInduction, TLAPS

\* The frontiers are layers.
Layers ==
    /\ level =< query.depth
    /\ hop[Center] = 0
    /\ \A n \in Node : hop[n] =< level
    /\ frontier = {n \in Node : hop[n] = level - 1}
    /\ next = {n \in Node : hop[n] = level}

\* The list holds the nodes seen, each once, by layer.
Listed ==
    /\ Len(order) \in Nat \ {0} /\ order[1] = Center
    /\ \A i \in 1 .. Len(order) : Seen(order[i])
    /\ \A n \in Node : Seen(n) => \E i \in 1 .. Len(order) : order[i] = n
    /\ \A i, j \in 1 .. Len(order) : i < j =>
          order[i] # order[j] /\ hop[order[i]] =< hop[order[j]]

\* A node was reached over an edge from the layer before its own.
Reached ==
    \A n \in Node : Seen(n) /\ n # Center =>
        /\ hop[n] > 0
        /\ hop[parent[n]] = hop[n] - 1
        /\ n \in Neighbors(parent[n])

\* Nothing that may be visited from a node is farther than one layer out.
Closed(n) ==
    \A m \in Neighbors(n) : MayVisit(m) => Seen(m) /\ hop[m] =< hop[n] + 1

InnerClosed ==
    /\ \A n \in Node : hop[n] \in 0 .. level - 2 => Closed(n)
    /\ pc \in {"done", "notFound"} =>
          \A n \in Node : hop[n] \in 0 .. query.depth - 1 => Closed(n)

SInv == SearchTypeOK /\ Layers /\ Listed /\ Reached /\ InnerClosed

\* What a search that ends without a path knows of its hops: they are the
\* distances from the center, as a local condition on the nodes and edges.
HopsAreTight ==
    pc \in {"done", "notFound"} =>
        /\ hop[Center] = 0
        /\ \A n \in Node : Seen(n) /\ n # Center =>
              \E m \in Node : hop[m] = hop[n] - 1 /\ n \in Neighbors(m)
        /\ \A n \in Node : hop[n] \in 0 .. query.depth - 1 => Closed(n)

-----------------------------------------------------------------------------
USE DEF vars, input, Unseen

LEMMA DepthType ==
    ASSUME SearchTypeOK
    PROVE  query.depth \in 1 .. MaxDepth /\ query.target \in Node
BY GraphSearchAssumption DEF SearchTypeOK, Queries

\* A search starts with the center alone, in layer 0.
LEMMA InitSInv == Init => SInv
<1> SUFFICES ASSUME Init PROVE SInv
  OBVIOUS
<1> USE GraphSearchAssumption
<1>1. SearchTypeOK
  <2>1. query.depth \in 1 .. MaxDepth
    BY DEF Init, Queries
  <2>2. level \in 1 .. MaxDepth /\ external \subseteq Node
    BY <2>1 DEF Init
  <2>3. order \in Seq(Node) /\ hop \in [Node -> {-1} \union Nat] /\ parent \in [Node -> Node]
    BY DEF Init
  <2> QED
    BY <2>2, <2>3 DEF Init, SearchTypeOK
<1>0. \A n \in Node : hop[n] = IF n = Center THEN 0 ELSE -1
  BY DEF Init
<1>2. Layers
  <2>1. query.depth \in 1 .. MaxDepth /\ level = 1 /\ frontier = {Center} /\ next = {}
    BY <1>1, DepthType DEF Init
  <2> QED
    BY <1>0, <2>1 DEF Layers
<1>3. Listed
  <2>1. Len(order) = 1 /\ order[1] = Center
    BY DEF Init
  <2>2. \A i \in 1 .. Len(order) : i = 1
    BY <2>1
  <2> QED
    BY <1>0, <2>1, <2>2 DEF Listed, Seen
<1>4. Reached /\ InnerClosed
  BY DEF Init, Reached, InnerClosed, Seen
<1> QED
  BY <1>1, <1>2, <1>3, <1>4 DEF SInv

\* Reaching one more node adds it to the outermost layer and to the list.
LEMMA VisitSInv ==
    ASSUME SInv, pc = "search", NEW n \in frontier, NEW m \in Candidates(n), Visit(n, m)
    PROVE  SInv'
<1> USE GraphSearchAssumption
<1>0. /\ SearchTypeOK /\ n \in Node /\ m \in Node /\ hop[m] = -1 /\ m # Center
      /\ hop[n] = level - 1 /\ level \in Nat \ {0} /\ m \in Neighbors(n)
  BY DEF SInv, SearchTypeOK, Layers, Candidates, Neighbors, Seen
<1>1. /\ hop' = [hop EXCEPT ![m] = level] /\ parent' = [parent EXCEPT ![m] = n]
      /\ order' = Append(order, m) /\ next' = next \union {m}
      /\ pc' \in {"found", "search"}
      /\ UNCHANGED <<edges, external, query, via, frontier, level>>
  BY DEF Visit
<1>2. SearchTypeOK'
  BY <1>0, <1>1 DEF SearchTypeOK
<1>3. Layers'
  BY <1>0, <1>1 DEF SInv, Layers, SearchTypeOK
<1>4. Listed'
  <2> DEFINE len == Len(order)
  <2>1. /\ len \in Nat \ {0} /\ order \in Seq(Node) /\ Len(order') = len + 1
        /\ order'[len + 1] = m /\ \A i \in 1 .. len : order'[i] = order[i] /\ order[i] \in Node
    BY <1>0, <1>1 DEF SInv, Listed, SearchTypeOK
  <2>2. \A i \in 1 .. len : order[i] # m /\ hop'[order[i]] = hop[order[i]]
                            /\ hop[order[i]] =< level /\ hop[order[i]] \in Nat
    BY <1>0, <1>1, <2>1 DEF SInv, Listed, Layers, Seen, SearchTypeOK
  <2>3. \A i \in 1 .. len + 1 : hop'[order'[i]] # -1
    BY <1>0, <1>1, <2>1, <2>2 DEF SearchTypeOK
  <2>4. \A k \in Node : hop'[k] # -1 => \E i \in 1 .. len + 1 : order'[i] = k
    <3> SUFFICES ASSUME NEW k \in Node, hop'[k] # -1
                 PROVE  \E i \in 1 .. len + 1 : order'[i] = k
      OBVIOUS
    <3>1. CASE k = m
      BY <3>1, <2>1
    <3>2. CASE k # m
      <4>1. hop[k] # -1
        BY <3>2, <1>0, <1>1 DEF SearchTypeOK
      <4>2. PICK i \in 1 .. len : order[i] = k
        BY <4>1 DEF SInv, Listed, Seen
      <4> QED
        BY <4>2, <2>1
    <3> QED
      BY <3>1, <3>2
  <2>5. \A i, j \in 1 .. len + 1 : i < j =>
           order'[i] # order'[j] /\ hop'[order'[i]] =< hop'[order'[j]]
    <3> SUFFICES ASSUME NEW i \in 1 .. len + 1, NEW j \in 1 .. len + 1, i < j
                 PROVE  order'[i] # order'[j] /\ hop'[order'[i]] =< hop'[order'[j]]
      OBVIOUS
    <3>1. i \in 1 .. len
      BY <2>1
    <3>2. CASE j = len + 1
      BY <3>1, <3>2, <2>1, <2>2, <1>0, <1>1 DEF SearchTypeOK
    <3>3. CASE j \in 1 .. len
      <4>1. order[i] # order[j] /\ hop[order[i]] =< hop[order[j]]
        BY <3>1, <3>3 DEF SInv, Listed
      <4> QED
        BY <3>1, <3>3, <4>1, <2>1, <2>2
    <3> QED
      BY <3>2, <3>3, <2>1
  <2>6. order'[1] = Center /\ Len(order') \in Nat \ {0}
    <3>1. order[1] = Center
      BY DEF SInv, Listed
    <3> QED
      BY <3>1, <2>1
  <2>7. /\ \A i \in 1 .. Len(order') : hop'[order'[i]] # -1
        /\ \A k \in Node : hop'[k] # -1 => \E i \in 1 .. Len(order') : order'[i] = k
    BY <2>1, <2>3, <2>4
  <2>8. \A i, j \in 1 .. Len(order') : i < j =>
           order'[i] # order'[j] /\ hop'[order'[i]] =< hop'[order'[j]]
    BY <2>1, <2>5
  <2> QED
    BY <2>6, <2>7, <2>8 DEF Listed, Seen
<1>5. Reached'
  <2> SUFFICES ASSUME NEW k \in Node, hop'[k] # -1, k # Center
               PROVE  hop'[k] > 0 /\ hop'[parent'[k]] = hop'[k] - 1 /\ k \in Neighbors(parent[k])'
    BY <1>1 DEF Reached, Seen
  <2>1. CASE k = m
    <3>1. hop'[m] = level /\ parent'[m] = n /\ hop'[n] = level - 1
      BY <1>0, <1>1 DEF SearchTypeOK
    <3>2. m \in Neighbors(parent[m])'
      BY <3>1, <1>0, <1>1 DEF Neighbors
    <3> QED
      BY <2>1, <3>1, <3>2, <1>0
  <2>2. CASE k # m
    <3>1. hop[k] # -1 /\ hop'[k] = hop[k] /\ parent'[k] = parent[k] /\ parent[k] \in Node
      BY <2>2, <1>0, <1>1 DEF SearchTypeOK
    <3>2. hop[k] > 0 /\ hop[parent[k]] = hop[k] - 1 /\ k \in Neighbors(parent[k])
      BY <3>1 DEF SInv, Reached, Seen
    <3>3. hop[k] \in Nat /\ parent[k] # m
      BY <3>1, <3>2, <1>0 DEF SearchTypeOK
    <3>4. k \in Neighbors(parent[k])'
      BY <3>1, <3>2, <1>1 DEF Neighbors
    <3> QED
      BY <3>1, <3>2, <3>3, <3>4, <1>0, <1>1 DEF SearchTypeOK
  <2> QED
    BY <2>1, <2>2
<1>6. InnerClosed'
  <2>1. SUFFICES ASSUME NEW k \in Node, hop'[k] \in 0 .. level - 2, NEW b \in Neighbors(k), MayVisit(b)
                 PROVE  hop'[b] # -1 /\ hop'[b] =< hop'[k] + 1
    BY <1>1 DEF InnerClosed, Closed, Seen, Neighbors, MayVisit
  <2>2. k # m /\ hop'[k] = hop[k] /\ b \in Node
    BY <2>1, <1>0, <1>1 DEF SearchTypeOK, Neighbors
  <2>3. hop[b] # -1 /\ hop[b] =< hop[k] + 1
    BY <2>1, <2>2 DEF SInv, InnerClosed, Closed, Seen
  <2> QED
    BY <2>2, <2>3, <1>0, <1>1 DEF SearchTypeOK
<1> QED
  BY <1>2, <1>3, <1>4, <1>5, <1>6 DEF SInv

\* A finished layer is closed, so that the loop may go one layer out.
LEMMA LayerClosed ==
    ASSUME SInv, LayerIsDone, NEW n \in Node, hop[n] \in 0 .. level - 1
    PROVE  Closed(n)
<1> USE GraphSearchAssumption
<1>0. level \in Nat \ {0} /\ hop \in [Node -> {-1} \union Nat]
  BY DEF SInv, SearchTypeOK
<1>1. CASE hop[n] = level - 1
  <2>1. n \in frontier
    BY <1>1 DEF SInv, Layers
  <2>2. \A m \in Neighbors(n) : MayVisit(m) => hop[m] # -1
    BY <2>1 DEF LayerIsDone, Candidates, Seen
  <2>3. \A m \in Neighbors(n) : m \in Node /\ hop[m] =< level
    BY DEF SInv, Layers, Neighbors
  <2> QED
    BY <1>0, <1>1, <2>2, <2>3 DEF Closed, Seen
<1>2. CASE hop[n] # level - 1
  BY <1>0, <1>2 DEF SInv, InnerClosed
<1> QED
  BY <1>1, <1>2

\* The loop goes one layer out.
LEMMA NextLayerSInv == ASSUME SInv, NextLayer PROVE SInv'
<1> USE GraphSearchAssumption
<1>1. /\ level' = level + 1 /\ frontier' = next /\ next' = {} /\ level # query.depth
      /\ LayerIsDone /\ pc = "search"
      /\ UNCHANGED <<edges, external, query, pc, via, hop, parent, order>>
  BY DEF NextLayer, LastLayer, LayerIsDone
<1>2. /\ level \in Nat \ {0} /\ query.depth \in 1 .. MaxDepth /\ level =< query.depth
      /\ hop \in [Node -> {-1} \union Nat]
  BY DepthType DEF SInv, SearchTypeOK, Layers
<1>3. SearchTypeOK'
  BY <1>1, <1>2 DEF SInv, SearchTypeOK
<1>4. Layers'
  BY <1>1, <1>2 DEF SInv, Layers
<1>5. Listed' /\ Reached'
  BY <1>1 DEF SInv, Listed, Reached, Seen, Neighbors
<1>6. InnerClosed'
  <2> SUFFICES ASSUME NEW n \in Node, hop[n] \in 0 .. level - 1 PROVE Closed(n)'
    BY <1>1, <1>2 DEF InnerClosed
  <2>1. Closed(n)
    BY <1>1, LayerClosed
  <2> QED
    BY <1>1, <2>1 DEF Closed, Seen, Neighbors, MayVisit
<1> QED
  BY <1>3, <1>4, <1>5, <1>6 DEF SInv

\* The search ends: nothing within the depth asked for is left.
LEMMA ExhaustSInv == ASSUME SInv, Exhaust PROVE SInv'
<1> USE GraphSearchAssumption
<1>1. /\ LayerIsDone /\ LastLayer /\ pc' \in {"done", "notFound"}
      /\ UNCHANGED <<edges, external, query, via, hop, parent, order, frontier, next, level>>
  BY DEF Exhaust
<1>2. /\ level \in Nat \ {0} /\ query.depth \in 1 .. MaxDepth /\ level =< query.depth
      /\ hop \in [Node -> {-1} \union Nat]
  BY DepthType DEF SInv, SearchTypeOK, Layers
<1>3. SearchTypeOK' /\ Layers' /\ Listed' /\ Reached'
  BY <1>1 DEF SInv, SearchTypeOK, Layers, Listed, Reached, Seen, Neighbors
<1>4. InnerClosed'
  <2>1. SUFFICES ASSUME NEW n \in Node, hop[n] \in 0 .. query.depth - 1 PROVE Closed(n)
    BY <1>1, <1>2 DEF SInv, Layers, InnerClosed, Closed, Seen, Neighbors, MayVisit
  <2>2. hop[n] =< level /\ (next = {} => hop[n] # level)
    BY DEF SInv, Layers
  <2>3. hop[n] \in 0 .. level - 1
    BY <1>1, <1>2, <2>1, <2>2 DEF LastLayer
  <2> QED
    BY <1>1, <2>3, LayerClosed
<1> QED
  BY <1>3, <1>4 DEF SInv

\* The second phase starts from nothing, like the first.
LEMMA SecondPhaseSInv == ASSUME SInv, SecondPhase PROVE SInv'
<1> USE GraphSearchAssumption
<1>1. /\ pc = "search" /\ pc' = pc /\ via' = TRUE
      /\ hop' = [n \in Node |-> IF n = Center THEN 0 ELSE -1]
      /\ parent' = [n \in Node |-> Center] /\ order' = <<Center>>
      /\ frontier' = {Center} /\ next' = {} /\ level' = 1
      /\ UNCHANGED <<edges, external, query>>
  BY DEF SecondPhase, LayerIsDone
<1>2. query.depth \in 1 .. MaxDepth
  BY DepthType DEF SInv
<1>3. SearchTypeOK'
  <2>1. order' \in Seq(Node) /\ hop' \in [Node -> {-1} \union Nat] /\ parent' \in [Node -> Node]
    BY <1>1
  <2> QED
    BY <1>1, <2>1 DEF SInv, SearchTypeOK
<1>4. Layers'
  BY <1>1, <1>2 DEF Layers
<1>5. Listed'
  BY <1>1 DEF Listed, Seen
<1>6. Reached' /\ InnerClosed'
  BY <1>1 DEF Reached, InnerClosed, Seen
<1> QED
  BY <1>3, <1>4, <1>5, <1>6 DEF SInv

LEMMA NextSInv == SInv /\ [Next]_vars => SInv'
<1> SUFFICES ASSUME SInv, [Next]_vars PROVE SInv'
  OBVIOUS
<1>1. CASE Expand
  BY <1>1, VisitSInv DEF Expand
<1>2. CASE NextLayer
  BY <1>2, NextLayerSInv
<1>3. CASE Exhaust
  BY <1>3, ExhaustSInv
<1>4. CASE SecondPhase
  BY <1>4, SecondPhaseSInv
<1>5. CASE UNCHANGED vars
  BY <1>5 DEF SInv, SearchTypeOK, Layers, Listed, Reached, InnerClosed, Closed,
              Seen, Neighbors, MayVisit
<1> QED
  BY <1>1, <1>2, <1>3, <1>4, <1>5 DEF Next

THEOREM SInvHolds == Spec => []SInv
BY InitSInv, NextSInv, PTL DEF Spec

-----------------------------------------------------------------------------
(* The theorems.                                                           *)

\* Every reachable state of both searches is well typed; in particular the loop
\* of get_neighborhood and of _bfs_path never runs beyond the depth asked for.
THEOREM SearchTypeCorrect == Spec => []SearchTypeOK
<1>1. SInv => SearchTypeOK
  BY DEF SInv
<1> QED
  BY <1>1, SInvHolds, PTL

\* Truncating a neighbourhood of any graph at any limit drops the farthest
\* nodes, and never a node nearer than one that stays.
THEOREM TruncationDropsFarthest == Spec => []FarthestDropFirst
<1>1. SInv => FarthestDropFirst
  BY DEF SInv, SearchTypeOK, Listed, FarthestDropFirst
<1> QED
  BY <1>1, SInvHolds, PTL

\* A search that has ended without a path has labelled every node with its
\* distance: the local characterisation of what HopsAreDistances computes.
THEOREM HopsTight == Spec => []HopsAreTight
<1>1. SInv => HopsAreTight
  <2> SUFFICES ASSUME SInv, pc \in {"done", "notFound"} PROVE HopsAreTight
    BY DEF HopsAreTight
  <2>1. \A n \in Node : parent[n] \in Node
    BY DEF SInv, SearchTypeOK
  <2> QED
    BY <2>1 DEF SInv, Layers, Reached, InnerClosed, HopsAreTight
<1> QED
  BY <1>1, SInvHolds, PTL

-----------------------------------------------------------------------------
(* Induction over the naturals.                                            *)

LEMMA LeastNatural ==
    ASSUME NEW T \in SUBSET Nat, T # {}
    PROVE  \E x \in T : \A y \in T : x =< y
<1>1. IsWellFoundedOn(OpToRel(<, Nat), Nat)
  BY NatLessThanWellFounded
<1>2. PICK x \in T : \A y \in T : ~ (<<y, x>> \in OpToRel(<, Nat))
  BY <1>1, WFMin
<1>3. \A y \in Nat : y < x => <<y, x>> \in OpToRel(<, Nat)
  BY <1>2 DEF OpToRel
<1>4. ASSUME NEW y \in T PROVE x =< y
  <2>1. x \in Nat /\ y \in Nat /\ ~ (y < x)
    BY <1>2, <1>3
  <2> QED BY <2>1
<1> QED BY <1>2, <1>4

LEMMA Induction ==
    ASSUME NEW T, 0 \in T, \A n \in Nat : n \in T => n + 1 \in T
    PROVE  Nat \subseteq T
<1> SUFFICES ASSUME ~(Nat \subseteq T) PROVE FALSE
  OBVIOUS
<1> DEFINE U == Nat \ T
<1>1. U \in SUBSET Nat /\ U # {}
  OBVIOUS
<1>2. PICK x \in U : \A y \in U : x =< y
  BY <1>1, LeastNatural
<1>3. x \in Nat /\ x # 0 /\ x \notin T
  BY <1>2
<1>4. x - 1 \in Nat /\ x - 1 \notin U
  BY <1>2, <1>3
<1>5. x - 1 + 1 = x
  BY <1>3
<1> QED BY <1>3, <1>4, <1>5

\* What repeating a step N times goes through.
Iterates(W, S, a, f, N) ==
    W \in [0 .. N -> S] /\ W[0] = a /\ \A k \in 1 .. N : W[k] = f[W[k - 1]]

LEMMA Iteration ==
    ASSUME NEW S, NEW a \in S, NEW f \in [S -> S], NEW N \in Nat
    PROVE  \E W : Iterates(W, S, a, f, N)
<1> DEFINE Runs(j) == {W \in [0 .. j -> S] : W[0] = a /\ \A k \in 1 .. j : W[k] = f[W[k - 1]]}
           T == {j \in Nat : Runs(j) # {}}
<1>1. 0 \in T
  <2> DEFINE W == [k \in 0 .. 0 |-> a]
  <2>1. W \in Runs(0)
    OBVIOUS
  <2> QED BY <2>1
<1>2. ASSUME NEW j \in Nat, j \in T PROVE j + 1 \in T
  <2>1. PICK W \in [0 .. j -> S] : W[0] = a /\ \A k \in 1 .. j : W[k] = f[W[k - 1]]
    BY <1>2
  <2> DEFINE V == [k \in 0 .. j + 1 |-> IF k = j + 1 THEN f[W[j]] ELSE W[k]]
  <2>2. V \in [0 .. j + 1 -> S] /\ V[0] = a
    BY <2>1
  <2>3. ASSUME NEW k \in 1 .. j + 1 PROVE V[k] = f[V[k - 1]]
    <3>1. CASE k = j + 1
      BY <3>1
    <3>2. CASE k \in 1 .. j
      <4>1. V[k] = W[k] /\ V[k - 1] = W[k - 1]
        BY <3>2
      <4> QED BY <2>1, <3>2, <4>1
    <3> QED BY <3>1, <3>2
  <2> HIDE DEF V
  <2>4. V \in Runs(j + 1)
    BY <2>2, <2>3
  <2> QED BY <2>4
<1>3. Nat \subseteq T
  <2> HIDE DEF T
  <2> QED BY <1>1, <1>2, Induction
<1>4. PICK W \in Runs(N) : TRUE
  BY <1>3
<1> QED BY <1>4 DEF Iterates

-----------------------------------------------------------------------------
(* The reference of the runs, as the sets its recursion stands for.        *)

\* Ball(A, W): W[k] is what is within k hops of the center through nodes of A.
Ball(A, W) ==
    W = [k \in 0 .. MaxDepth |->
            IF k = 0 THEN {Center}
            ELSE W[k - 1] \union {m \in Node : m \in A /\ \E n \in W[k - 1] : m \in Neighbors(n)}]

LEMMA BallExists ==
    ASSUME NEW A
    PROVE  \E W : Ball(A, W)
<1> DEFINE Out(S) == S \union {m \in Node : m \in A /\ \E n \in S : m \in Neighbors(n)}
           Sets == SUBSET Node
           start == {Center}
           out == [S \in Sets |-> Out(S)]
<1>1. out \in [Sets -> Sets] /\ start \in Sets /\ MaxDepth \in Nat
  BY GraphSearchAssumption
<1>0. \A S \in Sets : out[S] = Out(S)
  OBVIOUS
<1> HIDE DEF Out, out, Sets, start
<1>2. PICK W : Iterates(W, Sets, start, out, MaxDepth)
  BY <1>1, Iteration
<1> USE DEF Iterates
<1>3. \A k \in 0 .. MaxDepth : W[k] = IF k = 0 THEN {Center} ELSE Out(W[k - 1])
  <2>1. \A k \in 1 .. MaxDepth : k - 1 \in 0 .. MaxDepth /\ k # 0
    BY <1>1
  <2>2. \A k \in 1 .. MaxDepth : W[k] = Out(W[k - 1])
    BY <1>0, <1>2, <2>1
  <2>3. W[0] = {Center}
    BY <1>2 DEF start
  <2> QED BY <1>1, <2>2, <2>3
<1>4. W = [k \in 0 .. MaxDepth |-> IF k = 0 THEN {Center} ELSE Out(W[k - 1])]
  BY <1>2, <1>3
<1> QED BY <1>4 DEF Ball, Out

Around == {m \in Node : m = query.target \/ m \notin external}

LEMMA ReferencesAreBalls == Ball(Node, Anywhere) /\ Ball(Around, AroundHubs)
<1>1. Ball(Node, Anywhere)
  <2>1. Anywhere = CHOOSE W : W = [k \in 0 .. MaxDepth |->
            IF k = 0 THEN {Center}
            ELSE W[k - 1] \union {m \in Node : TRUE /\ \E n \in W[k - 1] : m \in Neighbors(n)}]
    BY DEF Anywhere, Within
  <2>2. PICK W : Ball(Node, W)
    BY BallExists
  <2>3. W = [k \in 0 .. MaxDepth |->
            IF k = 0 THEN {Center}
            ELSE W[k - 1] \union {m \in Node : TRUE /\ \E n \in W[k - 1] : m \in Neighbors(n)}]
    BY <2>2 DEF Ball
  <2>4. Anywhere = [k \in 0 .. MaxDepth |->
            IF k = 0 THEN {Center}
            ELSE Anywhere[k - 1] \union {m \in Node : TRUE /\ \E n \in Anywhere[k - 1] : m \in Neighbors(n)}]
    BY <2>1, <2>3
  <2> QED BY <2>4 DEF Ball
<1>2. Ball(Around, AroundHubs)
  <2>1. AroundHubs = CHOOSE W : W = [k \in 0 .. MaxDepth |->
            IF k = 0 THEN {Center}
            ELSE W[k - 1] \union {m \in Node : (m = query.target \/ m \notin external)
                                               /\ \E n \in W[k - 1] : m \in Neighbors(n)}]
    BY DEF AroundHubs, Within
  <2>2. PICK W : Ball(Around, W)
    BY BallExists
  <2>3. W = [k \in 0 .. MaxDepth |->
            IF k = 0 THEN {Center}
            ELSE W[k - 1] \union {m \in Node : (m = query.target \/ m \notin external)
                                               /\ \E n \in W[k - 1] : m \in Neighbors(n)}]
    BY <2>2 DEF Ball, Around
  <2>4. AroundHubs = [k \in 0 .. MaxDepth |->
            IF k = 0 THEN {Center}
            ELSE AroundHubs[k - 1] \union {m \in Node : (m = query.target \/ m \notin external)
                                               /\ \E n \in AroundHubs[k - 1] : m \in Neighbors(n)}]
    BY <2>1, <2>3
  <2> QED BY <2>4 DEF Ball, Around
<1> QED BY <1>1, <1>2

\* As far as the layers are closed, the nodes labelled k or less are those
\* within k hops.
LEMMA LabelsAreBalls ==
    ASSUME SInv, NEW A, NEW W, Ball(A, W), NEW d \in 0 .. MaxDepth,
           \A n \in Node : MayVisit(n) <=> n \in A,
           \A n \in Node : Seen(n) /\ n # Center => n \in A,
           \A n \in Node : hop[n] \in 0 .. d - 1 => Closed(n)
    PROVE  \A k \in 0 .. d : W[k] = {n \in Node : hop[n] \in 0 .. k}
<1> USE GraphSearchAssumption
<1>0. /\ hop \in [Node -> {-1} \union Nat] /\ parent \in [Node -> Node] /\ hop[Center] = 0
      /\ \A n \in Node : Neighbors(n) \subseteq Node
  BY DEF SInv, SearchTypeOK, Layers, Neighbors
<1>1. \A n \in Node : Seen(n) /\ n # Center =>
         hop[n] > 0 /\ hop[parent[n]] = hop[n] - 1 /\ n \in Neighbors(parent[n])
  BY DEF SInv, Reached
<1>2. /\ W[0] = {Center}
      /\ \A k \in 1 .. MaxDepth :
            W[k] = W[k - 1] \union {m \in Node : m \in A /\ \E n \in W[k - 1] : m \in Neighbors(n)}
  <2> DEFINE Out(S) == S \union {m \in Node : m \in A /\ \E n \in S : m \in Neighbors(n)}
  <2>1. W = [k \in 0 .. MaxDepth |-> IF k = 0 THEN {Center} ELSE Out(W[k - 1])]
    BY DEF Ball
  <2> SUFFICES W[0] = {Center} /\ \A k \in 1 .. MaxDepth : W[k] = Out(W[k - 1])
    OBVIOUS
  <2> HIDE DEF Out
  <2>2. \A k \in 0 .. MaxDepth : W[k] = IF k = 0 THEN {Center} ELSE Out(W[k - 1])
    BY <2>1
  <2> QED BY <2>2
<1> DEFINE T == {k \in Nat : k =< d => W[k] = {n \in Node : hop[n] \in 0 .. k}}
<1>3. 0 \in T
  <2>1. {n \in Node : hop[n] \in 0 .. 0} = {Center}
    BY <1>0, <1>1 DEF Seen
  <2> QED BY <1>2, <2>1
<1>4. ASSUME NEW k \in Nat, k \in T PROVE k + 1 \in T
  <2>1. SUFFICES ASSUME k + 1 =< d PROVE W[k + 1] = {n \in Node : hop[n] \in 0 .. k + 1}
    OBVIOUS
  <2>2. W[k] = {n \in Node : hop[n] \in 0 .. k}
    BY <1>4, <2>1
  <2>3. W[k + 1] = W[k] \union {m \in Node : m \in A /\ \E n \in W[k] : m \in Neighbors(n)}
    BY <1>2, <2>1
  <2>4. ASSUME NEW n \in Node, hop[n] = k + 1 PROVE n \in A /\ parent[n] \in W[k] /\ n \in Neighbors(parent[n])
    <3>1. Seen(n) /\ n # Center
      BY <1>0, <2>4 DEF Seen
    <3> QED BY <1>0, <1>1, <2>2, <2>4, <3>1
  <2>5. ASSUME NEW m \in Node, m \in A, NEW n \in W[k], m \in Neighbors(n) PROVE hop[m] \in 0 .. k + 1
    <3>1. n \in Node /\ hop[n] \in 0 .. k /\ hop[n] \in 0 .. d - 1
      BY <2>1, <2>2
    <3>2. MayVisit(m) /\ Closed(n)
      BY <2>5, <3>1
    <3>3. hop[m] # -1 /\ hop[m] =< hop[n] + 1
      BY <2>5, <3>2 DEF Closed, Seen
    <3> QED BY <1>0, <3>1, <3>3
  <2>6. ASSUME NEW n \in Node PROVE hop[n] \in 0 .. k + 1 <=> hop[n] \in 0 .. k \/ hop[n] = k + 1
    <3>1. hop[n] \in {-1} \union Nat
      BY <1>0
    <3> HIDE DEF T
    <3> QED BY <3>1
  <2> QED BY <2>2, <2>3, <2>4, <2>5, <2>6
<1>5. Nat \subseteq T
  BY <1>3, <1>4, Induction
<1> QED BY <1>5

-----------------------------------------------------------------------------
(* The phases of a path search.                                            *)

\* While a path search goes on its target has not been seen; when it has found
\* it, the target is in the layer being filled.  Nothing was passed through
\* that the phase excludes, and the second phase knows that the first was vain.
PInv ==
    /\ pc = "done" => query.kind = "neighbors"
    /\ via => query.kind = "path"
    /\ pc = "notFound" => via
    /\ pc \in {"search", "notFound"} /\ query.kind = "path" => ~Seen(query.target)
    /\ pc = "found" /\ query.target # Center =>
          query.kind = "path" /\ hop[query.target] = level
    /\ \A n \in Node : Seen(n) /\ n # Center => MayVisit(n)
    /\ via => query.target \notin AroundHubs[query.depth]

\* AroundHubs depends on the input alone.
LEMMA InputStays ==
    ASSUME UNCHANGED input
    PROVE  AroundHubs' = AroundHubs
BY DEF AroundHubs, Within, Neighbors

LEMMA InitPInv == Init => PInv
<1> SUFFICES ASSUME Init PROVE PInv
  OBVIOUS
<1>1. query.kind \in {"path", "neighbors"}
  BY DEF Init, Queries
<1>2. \A n \in Node : hop[n] = IF n = Center THEN 0 ELSE -1
  BY DEF Init
<1>3. ~via /\ pc = IF query.kind = "path" /\ query.target = Center THEN "found" ELSE "search"
  BY DEF Init
<1>4. SInv /\ query.target \in Node
  BY InitSInv, DepthType DEF SInv
<1> QED BY <1>1, <1>2, <1>3, <1>4 DEF PInv, Seen

LEMMA VisitPInv ==
    ASSUME SInv, PInv, pc = "search", NEW n \in frontier, NEW m \in Candidates(n), Visit(n, m)
    PROVE  PInv'
<1>1. /\ hop' = [hop EXCEPT ![m] = level]
      /\ pc' = IF query.kind = "path" /\ m = query.target THEN "found" ELSE "search"
      /\ UNCHANGED <<edges, external, query, via, level>>
  BY DEF Visit
<1>2. /\ m \in Node /\ MayVisit(m) /\ hop[m] = -1
      /\ hop \in [Node -> {-1} \union Nat] /\ level \in Nat
  BY GraphSearchAssumption DEF Candidates, Neighbors, Seen, SInv, SearchTypeOK
<1>3. AroundHubs' = AroundHubs
  BY <1>1, InputStays
<1>4. \A k \in Node : hop'[k] = IF k = m THEN level ELSE hop[k]
  BY <1>1, <1>2
<1>5. query.target \in Node /\ query.kind \in {"path", "neighbors"}
  BY DepthType DEF SInv, SearchTypeOK, Queries
<1>6. \A k \in Node : Seen(k)' /\ k # Center => MayVisit(k)'
  BY <1>1, <1>2, <1>4 DEF PInv, Seen, MayVisit
<1>7. pc' = "search" /\ query.kind = "path" => ~Seen(query.target)'
  BY <1>1, <1>4, <1>5 DEF PInv, Seen
<1>8. pc' = "found" => query.kind = "path" /\ hop'[query.target] = level
  BY <1>1, <1>4, <1>5
<1> QED BY <1>1, <1>3, <1>6, <1>7, <1>8 DEF PInv, Seen

\* The first phase has seen all that is within the depth around the hubs.
LEMMA FirstPhaseInVain ==
    ASSUME SInv, PInv, LayerIsDone, LastLayer, query.kind = "path", ~via
    PROVE  query.target \notin AroundHubs[query.depth]
<1>1. query.depth \in 1 .. MaxDepth /\ query.target \in Node /\ level \in Nat \ {0} /\ level =< query.depth
  BY DepthType DEF SInv, SearchTypeOK, Layers
<1>2. \A n \in Node : hop[n] \in {-1} \union Nat /\ hop[n] =< level /\ (next = {} => hop[n] # level)
  BY DEF SInv, SearchTypeOK, Layers
<1>3. \A n \in Node : hop[n] \in 0 .. query.depth - 1 => hop[n] \in 0 .. level - 1
  BY <1>1, <1>2 DEF LastLayer
<1>4. \A n \in Node : hop[n] \in 0 .. query.depth - 1 => Closed(n)
  BY <1>3, LayerClosed
<1>5. \A n \in Node : MayVisit(n) <=> n \in Around
  BY DEF MayVisit, Around
<1>6. \A n \in Node : Seen(n) /\ n # Center => n \in Around
  BY <1>5 DEF PInv
<1>7. \A k \in 0 .. query.depth : AroundHubs[k] = {n \in Node : hop[n] \in 0 .. k}
  BY <1>1, <1>4, <1>5, <1>6, ReferencesAreBalls, LabelsAreBalls, GraphSearchAssumption
<1>8. hop[query.target] = -1
  BY DEF PInv, Seen, LayerIsDone
<1> QED BY <1>1, <1>7, <1>8

LEMMA NextPInv == SInv /\ PInv /\ [Next]_vars => PInv'
<1> SUFFICES ASSUME SInv, PInv, [Next]_vars PROVE PInv'
  OBVIOUS
<1>1. CASE Expand
  BY <1>1, VisitPInv DEF Expand
<1>2. CASE NextLayer
  <2>1. UNCHANGED <<edges, external, query, pc, via, hop>> /\ pc = "search" /\ AroundHubs' = AroundHubs
    BY <1>2, InputStays DEF NextLayer, LayerIsDone
  <2> QED BY <2>1 DEF PInv, Seen, MayVisit
<1>3. CASE Exhaust
  <2>1. /\ UNCHANGED <<edges, external, query, via, hop>> /\ pc = "search" /\ AroundHubs' = AroundHubs
        /\ query.kind = "neighbors" \/ via
        /\ pc' = IF query.kind = "neighbors" THEN "done" ELSE "notFound"
    BY <1>3, InputStays DEF Exhaust, LayerIsDone
  <2> QED BY <2>1 DEF PInv, Seen, MayVisit
<1>4. CASE SecondPhase
  <2>1. /\ UNCHANGED <<edges, external, query, pc>> /\ pc = "search" /\ AroundHubs' = AroundHubs
        /\ LayerIsDone /\ LastLayer /\ query.kind = "path" /\ ~via /\ via' = TRUE
        /\ hop' = [n \in Node |-> IF n = Center THEN 0 ELSE -1]
    BY <1>4, InputStays DEF SecondPhase, LayerIsDone
  <2>2. query.target \notin AroundHubs[query.depth]
    BY <2>1, FirstPhaseInVain
  <2>3. query.target \in Node /\ query.target # Center
    BY <2>1, DepthType DEF PInv, Seen, SInv, Layers
  <2>4. \A k \in Node : hop'[k] = IF k = Center THEN 0 ELSE -1
    BY <2>1
  <2> QED BY <2>1, <2>2, <2>3, <2>4 DEF PInv, Seen, MayVisit
<1>5. CASE UNCHANGED vars
  <2>1. UNCHANGED <<edges, external, query, pc, via, hop, level>> /\ AroundHubs' = AroundHubs
    BY <1>5, InputStays
  <2> QED BY <2>1 DEF PInv, Seen, MayVisit
<1> QED BY <1>1, <1>2, <1>3, <1>4, <1>5 DEF Next

LEMMA PInvHolds == Spec => []PInv
BY InitPInv, NextPInv, SInvHolds, PTL DEF Spec

\* What a neighbourhood holds and how it is labelled is what the definition of
\* distance says, for every graph, direction and depth.
THEOREM NeighborhoodIsExact == Spec => []HopsAreDistances
<1>1. ASSUME SInv, PInv PROVE HopsAreDistances
  <2> SUFFICES ASSUME pc = "done" PROVE HopsAreDistances
    BY DEF HopsAreDistances
  <2>1. query.kind = "neighbors"
    BY <1>1 DEF PInv
  <2>2. \A n \in Node : MayVisit(n) <=> n \in Node
    BY <2>1 DEF MayVisit
  <2>3. query.depth \in 1 .. MaxDepth
    BY <1>1, DepthType DEF SInv
  <2>4. \A n \in Node : hop[n] \in 0 .. query.depth - 1 => Closed(n)
    BY <1>1 DEF SInv, InnerClosed
  <2>5. \A k \in 0 .. query.depth : Anywhere[k] = {n \in Node : hop[n] \in 0 .. k}
    <3> DEFINE depth == query.depth
    <3>1. Ball(Node, Anywhere) /\ depth \in 0 .. MaxDepth
      BY <2>3, ReferencesAreBalls, GraphSearchAssumption
    <3>3. \A n \in Node : hop[n] \in 0 .. depth - 1 => Closed(n)
      BY <2>4
    <3>4. \A k \in 0 .. depth : Anywhere[k] = {n \in Node : hop[n] \in 0 .. k}
      <4> HIDE DEF depth
      <4> DEFINE All == Node
      <4>1. /\ Ball(All, Anywhere)
            /\ \A n \in Node : MayVisit(n) <=> n \in All
            /\ \A n \in Node : Seen(n) /\ n # Center => n \in All
        BY <2>2, <3>1
      <4> HIDE DEF All
      <4> QED BY <1>1, <3>1, <3>3, <4>1, LabelsAreBalls
    <3> QED BY <3>4 DEF depth
  <2>6. \A n \in Node : hop[n] \in {-1} \union Nat /\ hop[n] =< query.depth
    <3>1. level \in Nat /\ level =< query.depth /\ query.depth \in Nat
      BY <1>1, <2>3, GraphSearchAssumption DEF SInv, SearchTypeOK, Layers
    <3> SUFFICES ASSUME NEW n \in Node PROVE hop[n] \in {-1} \union Nat /\ hop[n] =< query.depth
      OBVIOUS
    <3>2. hop[n] \in {-1} \union Nat /\ hop[n] =< level
      BY <1>1 DEF SInv, SearchTypeOK, Layers
    <3>3. hop[n] =< query.depth
      BY <3>1, <3>2
    <3> QED BY <3>2, <3>3
  <2> SUFFICES ASSUME NEW n \in Node
               PROVE  /\ Seen(n) <=> n \in Anywhere[query.depth]
                      /\ Seen(n) => n \in Anywhere[hop[n]] /\ (hop[n] > 0 => n \notin Anywhere[hop[n] - 1])
    BY DEF HopsAreDistances
  <2>7. Seen(n) <=> n \in Anywhere[query.depth]
    BY <2>3, <2>5, <2>6 DEF Seen
  <2>8. ASSUME Seen(n) PROVE n \in Anywhere[hop[n]]
    BY <2>3, <2>5, <2>6, <2>8 DEF Seen
  <2>9. ASSUME hop[n] > 0 PROVE n \notin Anywhere[hop[n] - 1]
    BY <2>3, <2>5, <2>6, <2>9
  <2> QED BY <2>7, <2>8, <2>9
<1> QED BY <1>1, SInvHolds, PInvHolds, PTL

-----------------------------------------------------------------------------
(* The route of a path that is found.                                      *)

\* The recursion of Route: the target, then a parent in front at each step
\* until the center is in front.
Grown(s) == <<parent[Head(s)]>> \o s

Backward(B) ==
    /\ B \in [0 .. MaxDepth -> Seq(Node)]
    /\ B[0] = <<query.target>>
    /\ \A k \in 1 .. MaxDepth :
          /\ B[k - 1] # <<>>
          /\ B[k] = IF Head(B[k - 1]) = Center THEN B[k - 1]
                    ELSE Grown(B[k - 1])

LEMMA RouteIsBackward ==
    ASSUME SearchTypeOK
    PROVE  \E B : Backward(B) /\ Route = B[MaxDepth]
<1> DEFINE Ext(s) == IF Head(s) = Center THEN s ELSE <<parent[Head(s)]>> \o s
           S == Seq(Node) \ {<<>>}
           start == <<query.target>>
           ext == [s \in S |-> Ext(s)]
           Spread(B) == B = [k \in 0 .. MaxDepth |-> IF k = 0 THEN start ELSE Ext(B[k - 1])]
           C == CHOOSE D : Spread(D)
<1>1. start \in S /\ MaxDepth \in Nat
  BY DepthType, GraphSearchAssumption
<1>2. \A s \in S : Ext(s) \in S
  BY DEF SearchTypeOK
<1>3. S \subseteq Seq(Node) /\ <<>> \notin S
  OBVIOUS
<1>4. \A k \in 1 .. MaxDepth : k - 1 \in 0 .. MaxDepth /\ k # 0
  BY <1>1
<1>5. Route = C[MaxDepth]
  BY DEF Route
<1>6. \E D : Spread(D)
  <2> HIDE DEF Ext, S, start
  <2>1. ext \in [S -> S] /\ \A s \in S : ext[s] = Ext(s)
    BY <1>2
  <2> HIDE DEF ext
  <2>2. PICK B : Iterates(B, S, start, ext, MaxDepth)
    BY <1>1, <2>1, Iteration
  <2> USE DEF Iterates
  <2>3. \A k \in 1 .. MaxDepth : B[k] = Ext(B[k - 1])
    BY <1>4, <2>1, <2>2
  <2>4. \A k \in 0 .. MaxDepth : B[k] = IF k = 0 THEN start ELSE Ext(B[k - 1])
    BY <1>1, <2>2, <2>3
  <2>5. B = [k \in 0 .. MaxDepth |-> IF k = 0 THEN start ELSE Ext(B[k - 1])]
    BY <2>2, <2>4
  <2> QED BY <2>5
<1>7. Spread(C)
  <2> HIDE DEF Spread
  <2> QED BY <1>6
<1> HIDE DEF C, Ext, S, start
<1>8. C[0] = start /\ \A k \in 1 .. MaxDepth : C[k] = Ext(C[k - 1])
  <2>1. \A k \in 0 .. MaxDepth : C[k] = IF k = 0 THEN start ELSE Ext(C[k - 1])
    BY <1>7
  <2> QED BY <1>1, <1>4, <2>1
<1>9. \A k \in 0 .. MaxDepth : C[k] \in S
  <2> DEFINE T == {k \in Nat : k =< MaxDepth => C[k] \in S}
  <2>1. 0 \in T
    BY <1>1, <1>8
  <2>2. ASSUME NEW k \in Nat, k \in T PROVE k + 1 \in T
    <3>1. SUFFICES ASSUME k + 1 =< MaxDepth PROVE C[k + 1] \in S
      OBVIOUS
    <3>2. C[k] \in S /\ k + 1 \in 1 .. MaxDepth /\ k + 1 - 1 = k
      BY <1>1, <2>2, <3>1
    <3>3. C[k + 1] = Ext(C[k])
      BY <1>8, <3>2
    <3> QED BY <1>2, <3>2, <3>3
  <2>3. Nat \subseteq T
    <3> HIDE DEF T
    <3> QED BY <2>1, <2>2, Induction
  <2> QED BY <1>1, <2>3
<1>10. Backward(C)
  <2>1. \A k \in 1 .. MaxDepth : C[k - 1] # <<>>
    BY <1>3, <1>4, <1>9
  <2>2. C \in [0 .. MaxDepth -> Seq(Node)]
    <3>1. \A k \in 0 .. MaxDepth : C[k] \in Seq(Node)
      BY <1>3, <1>9
    <3> QED BY <1>7, <3>1
  <2> QED BY <1>8, <2>1, <2>2 DEF Backward, Ext, start, Grown
<1> QED BY <1>5, <1>10

\* A sequence along the edges, from layer h - e to the target in layer h.
Trail(s, e, h) ==
    /\ s \in Seq(Node) /\ Len(s) = e + 1
    /\ s[e + 1] = query.target
    /\ \A i \in 1 .. e + 1 : hop[s[i]] = h - e + i - 1
    /\ \A i \in 1 .. e : s[i + 1] \in Neighbors(s[i])

\* A parent in front of a trail makes a longer one.
LEMMA TrailGrows ==
    ASSUME SInv, NEW h \in Nat, NEW e \in Nat, e < h, NEW s, Trail(s, e, h)
    PROVE  Head(s) # Center /\ s # <<>> /\ Trail(Grown(s), e + 1, h)
<1> DEFINE p == parent[Head(s)]
           t == <<p>> \o s
<1>1. s \in Seq(Node) /\ Len(s) = e + 1 /\ s # <<>> /\ Head(s) = s[1] /\ s[1] \in Node
  BY DEF Trail
<1>2. hop[s[1]] = h - e
  BY <1>1 DEF Trail
<1>3. s[1] # Center /\ Seen(s[1])
  BY <1>2 DEF SInv, Layers, Seen
<1>4. p \in Node /\ hop[p] = h - e - 1 /\ s[1] \in Neighbors(p)
  BY <1>1, <1>2, <1>3 DEF SInv, Reached, SearchTypeOK
<1> HIDE DEF p
<1>5. /\ t \in Seq(Node) /\ Len(t) = e + 2 /\ t[1] = p
      /\ \A i \in 1 .. e + 1 : t[i + 1] = s[i]
  BY <1>1, <1>4
<1> HIDE DEF t
<1>6. \A i \in 2 .. e + 2 : i - 1 \in 1 .. e + 1 /\ t[i] = s[i - 1]
  <2> SUFFICES ASSUME NEW i \in 2 .. e + 2 PROVE i - 1 \in 1 .. e + 1 /\ t[i] = s[i - 1]
    OBVIOUS
  <2>1. i - 1 \in 1 .. e + 1 /\ i - 1 + 1 = i
    OBVIOUS
  <2> QED BY <1>5, <2>1
<1>7. \A i \in 1 .. e + 2 : hop[t[i]] = h - (e + 1) + i - 1
  <2> SUFFICES ASSUME NEW i \in 1 .. e + 2 PROVE hop[t[i]] = h - (e + 1) + i - 1
    OBVIOUS
  <2>1. CASE i = 1
    BY <1>4, <1>5, <2>1
  <2>2. CASE i \in 2 .. e + 2
    <3>1. t[i] = s[i - 1] /\ hop[s[i - 1]] = h - e + (i - 1) - 1
      BY <1>6, <2>2 DEF Trail
    <3> QED BY <2>2, <3>1
  <2> QED BY <2>1, <2>2
<1>8. \A i \in 1 .. e + 1 : t[i + 1] \in Neighbors(t[i])
  <2> SUFFICES ASSUME NEW i \in 1 .. e + 1 PROVE t[i + 1] \in Neighbors(t[i])
    OBVIOUS
  <2>1. CASE i = 1
    BY <1>4, <1>5, <2>1
  <2>2. CASE i \in 2 .. e + 1
    <3>1. t[i] = s[i - 1] /\ t[i + 1] = s[i] /\ i - 1 \in 1 .. e /\ i - 1 + 1 = i
      BY <1>5, <1>6, <2>2
    <3>2. s[i - 1 + 1] \in Neighbors(s[i - 1])
      BY <3>1 DEF Trail
    <3> QED BY <3>1, <3>2
  <2> QED BY <2>1, <2>2
<1>9. t[e + 1 + 1] = query.target
  <2>1. s[e + 1] = query.target
    BY DEF Trail
  <2> QED BY <1>5, <2>1
<1>10. Trail(t, e + 1, h)
  <2>1. e + 1 + 1 = e + 2
    OBVIOUS
  <2> QED BY <1>5, <1>7, <1>8, <1>9, <2>1 DEF Trail
<1> QED BY <1>1, <1>3, <1>10 DEF t, p, Grown

\* A trail from layer 0 starts at the center: the reconstruction stops there.
LEMMA TrailIsWhole ==
    ASSUME SInv, NEW h \in Nat, NEW s, Trail(s, h, h)
    PROVE  s # <<>> /\ s[1] = Center /\ Head(s) = Center
<1>1. s \in Seq(Node) /\ Len(s) = h + 1 /\ s # <<>> /\ Head(s) = s[1] /\ s[1] \in Node
  BY DEF Trail
<1>2. hop[s[1]] = 0
  BY <1>1 DEF Trail
<1> QED BY <1>1, <1>2 DEF SInv, Reached, Seen

\* The reconstruction of a path that was found is a trail from the center.
LEMMA RouteIsTrail ==
    ASSUME SInv, NEW h \in 1 .. MaxDepth, hop[query.target] = h
    PROVE  Trail(Route, h, h)
<1>0. h \in Nat /\ MaxDepth \in Nat /\ query.target \in Node
  BY GraphSearchAssumption, DepthType DEF SInv
<1>1. PICK B : Backward(B) /\ Route = B[MaxDepth]
  BY RouteIsBackward DEF SInv
<1> DEFINE T == {k \in Nat : k =< MaxDepth => Trail(B[k], IF k < h THEN k ELSE h, h)}
<1>2. 0 \in T
  <2> DEFINE s == <<query.target>>
  <2>1. s \in Seq(Node) /\ Len(s) = 1 /\ s[1] = query.target
    BY <1>0
  <2> HIDE DEF s
  <2>2. Trail(s, 0, h)
    BY <1>0, <2>1 DEF Trail
  <2>3. B[0] = s
    BY <1>1 DEF Backward, s
  <2> QED BY <1>0, <2>2, <2>3
<1>3. ASSUME NEW k \in Nat, k \in T PROVE k + 1 \in T
  <2>1. SUFFICES ASSUME k + 1 =< MaxDepth
                 PROVE  Trail(B[k + 1], IF k + 1 < h THEN k + 1 ELSE h, h)
    OBVIOUS
  <2>2. Trail(B[k], IF k < h THEN k ELSE h, h)
    BY <1>0, <1>3, <2>1
  <2>3. B[k + 1] = IF Head(B[k]) = Center THEN B[k] ELSE Grown(B[k])
    <3>1. k + 1 \in 1 .. MaxDepth /\ k + 1 - 1 = k
      BY <1>0, <2>1
    <3> QED BY <1>1, <3>1 DEF Backward
  <2> HIDE DEF T
  <2>4. CASE k < h
    <3>1. Trail(B[k], k, h)
      BY <2>2, <2>4
    <3>2. Head(B[k]) # Center /\ Trail(Grown(B[k]), k + 1, h)
      BY <1>0, <2>4, <3>1, TrailGrows
    <3>3. (IF k + 1 < h THEN k + 1 ELSE h) = k + 1
      <4>1. k + 1 < h \/ (k + 1 = h /\ ~(k + 1 < h))
        BY <1>0, <2>4
      <4> QED BY <4>1
    <3> QED BY <2>3, <3>2, <3>3
  <2>5. CASE ~(k < h)
    <3>1. Trail(B[k], h, h)
      BY <2>2, <2>5
    <3>2. Head(B[k]) = Center
      BY <1>0, <3>1, TrailIsWhole
    <3>3. (IF k + 1 < h THEN k + 1 ELSE h) = h
      BY <1>0, <2>5
    <3> QED BY <2>3, <3>1, <3>2, <3>3
  <2> QED BY <2>4, <2>5
<1>4. MaxDepth \in T
  <2> HIDE DEF T
  <2> QED BY <1>0, <1>2, <1>3, Induction
<1>5. (IF MaxDepth < h THEN MaxDepth ELSE h) = h
  BY <1>0
<1> QED BY <1>0, <1>1, <1>4, <1>5

\* For every graph and depth: a path that is found is a route, no allowed one
\* is shorter, and third-party nodes are used only if they must be; a path that
\* is not found does not exist within the depth.
THEOREM PathIsExact == Spec => []PathIsShortest
<1> DEFINE reached == IF via THEN Anywhere ELSE AroundHubs
           allowed == IF via THEN Node ELSE Around
<1>1. ASSUME SInv, PInv, query.kind = "path", NEW d \in 0 .. MaxDepth,
             \A n \in Node : hop[n] \in 0 .. d - 1 => Closed(n)
      PROVE  reached[d] = {n \in Node : hop[n] \in 0 .. d}
  <2>1. Ball(allowed, reached)
    BY <1>1, ReferencesAreBalls
  <2>2. \A n \in Node : MayVisit(n) <=> n \in allowed
    BY <1>1 DEF MayVisit, Around
  <2>3. \A n \in Node : Seen(n) /\ n # Center => n \in allowed
    BY <1>1, <2>2 DEF PInv
  <2> HIDE DEF reached, allowed
  <2>4. \A k \in 0 .. d : reached[k] = {n \in Node : hop[n] \in 0 .. k}
    BY <1>1, <2>1, <2>2, <2>3, LabelsAreBalls
  <2> QED BY <1>1, <2>4
<1>2. ASSUME SInv, PInv, pc = "notFound" PROVE query.target \notin Anywhere[query.depth]
  <2>1. via /\ query.kind = "path" /\ hop[query.target] = -1
    BY <1>2 DEF PInv, Seen
  <2>2. query.depth \in 0 .. MaxDepth /\ \A n \in Node : hop[n] \in 0 .. query.depth - 1 => Closed(n)
    BY <1>2, DepthType, GraphSearchAssumption DEF SInv, InnerClosed
  <2>3. reached[query.depth] = {n \in Node : hop[n] \in 0 .. query.depth}
    BY <1>1, <1>2, <2>1, <2>2
  <2> QED BY <2>1, <2>2, <2>3
<1>3. ASSUME SInv, PInv, pc = "found", query.target # Center
      PROVE  LET hops == Len(Route) - 1
             IN  /\ Route[1] = Center /\ Route[hops + 1] = query.target
                 /\ \A i \in 1 .. hops : Route[i + 1] \in Neighbors(Route[i])
                 /\ ~via => \A i \in 2 .. hops : Route[i] \notin external
                 /\ hops =< query.depth /\ query.target \notin reached[hops - 1]
                 /\ via => query.target \notin AroundHubs[query.depth]
  <2> DEFINE h == level
             R == Route
  <2>1. /\ query.kind = "path" /\ hop[query.target] = h
        /\ via => query.target \notin AroundHubs[query.depth]
    BY <1>3 DEF PInv
  <2>2. h \in 1 .. MaxDepth /\ h \in Nat /\ MaxDepth \in Nat /\ h =< query.depth
    BY <1>3, GraphSearchAssumption DEF SInv, SearchTypeOK, Layers
  <2>3. Trail(R, h, h)
    BY <1>3, <2>1, <2>2, RouteIsTrail
  <2>4. R[1] = Center
    BY <1>3, <2>2, <2>3, TrailIsWhole
  <2>5. query.target \notin reached[h - 1]
    <3>1. h - 1 \in 0 .. MaxDepth
      BY <2>2
    <3>2. \A n \in Node : hop[n] \in 0 .. h - 1 - 1 => Closed(n)
      BY <1>3, <2>2 DEF SInv, InnerClosed
    <3>3. reached[h - 1] = {n \in Node : hop[n] \in 0 .. h - 1}
      BY <1>1, <1>3, <2>1, <3>1, <3>2
    <3> QED BY <2>1, <2>2, <3>3
  <2>6. ASSUME ~via, NEW i \in 2 .. h PROVE R[i] \notin external
    <3>1. R[i] \in Node /\ hop[R[i]] = i - 1
      BY <2>2, <2>3 DEF Trail
    <3>2. R[i] # Center /\ R[i] # query.target /\ Seen(R[i])
      BY <1>3, <2>1, <2>2, <3>1 DEF SInv, Layers, Seen
    <3> QED BY <1>3, <2>1, <2>6, <3>1, <3>2 DEF PInv, MayVisit
  <2>7. Len(R) = h + 1 /\ R[h + 1] = query.target /\ \A i \in 1 .. h : R[i + 1] \in Neighbors(R[i])
    BY <2>3 DEF Trail
  <2>8. Len(R) - 1 = h
    BY <2>2, <2>7
  <2> HIDE DEF R, h, reached
  <2>9. LET hops == Len(R) - 1
        IN  /\ R[1] = Center /\ R[hops + 1] = query.target
            /\ \A i \in 1 .. hops : R[i + 1] \in Neighbors(R[i])
            /\ ~via => \A i \in 2 .. hops : R[i] \notin external
            /\ hops =< query.depth /\ query.target \notin reached[hops - 1]
            /\ via => query.target \notin AroundHubs[query.depth]
    BY <2>1, <2>2, <2>4, <2>5, <2>6, <2>7, <2>8
  <2> QED BY <2>9 DEF R
<1>4. SInv /\ PInv => PathIsShortest
  BY <1>2, <1>3 DEF PathIsShortest
<1> QED BY <1>4, SInvHolds, PInvHolds, PTL
=============================================================================
