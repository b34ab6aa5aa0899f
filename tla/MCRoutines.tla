----------------------------- MODULE MCRoutines -----------------------------
(* A routine and a job of another kind on one project.                     *)
EXTENDS Routines, TLC

CONSTANTS j1, j2, p1

MCProjectOf == (j1 :> p1) @@ (j2 :> p1)
=============================================================================
