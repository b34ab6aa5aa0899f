---------------------------- MODULE MCGraphFiles ----------------------------
(* Ingestions of two projects, and one reader.                             *)
EXTENDS GraphFiles, TLC

CONSTANTS p1, p2
=============================================================================
