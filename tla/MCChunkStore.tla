--------------------------- MODULE MCChunkStore ---------------------------
(* ChunkStore on two projects, the name of one within that of the other.    *)
EXTENDS ChunkStore, TLC

CONSTANTS j1, j2, j3, p1, p2, e1, e2

MCProjectOf == (j1 :> p1) @@ (j2 :> p1) @@ (j3 :> p2)
MCResembles == (p1 :> {p1, p2}) @@ (p2 :> {p2})
MCEntitiesOf == (p1 :> {e1, e2}) @@ (p2 :> {e1})
MCEdited == {<<p1, e1>>}

\* The two jobs of one project are interchangeable.
MCSymmetry == Permutations({j1, j2})
=============================================================================
