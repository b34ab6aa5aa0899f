--------------------------- MODULE MCDescriptions ---------------------------
(* Three description passes over two source hashes.                        *)
EXTENDS Descriptions, TLC

CONSTANTS j1, j2, j3, m1, m2, h1, h2

MCModelOf == (j1 :> m1) @@ (j2 :> m2) @@ (j3 :> m2)
=============================================================================
