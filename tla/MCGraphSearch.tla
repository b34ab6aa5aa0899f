--------------------------- MODULE MCGraphSearch ---------------------------
(* GraphSearch on every graph of four nodes with at most one edge between  *)
(* any two of them, and on every graph of three nodes, with edges in both  *)
(* directions and self-loops.                                              *)
EXTENDS GraphSearch

MCGraphs ==
    {E \in SUBSET {e \in Node \X Node : e[1] # e[2]} :
        \A e \in E : <<e[2], e[1]>> \notin E}
    \union SUBSET ((1 .. 3) \X (1 .. 3))
=============================================================================
