------------------------------ MODULE MCWatch ------------------------------
(* Two files that are watched, and one that is not.                        *)
EXTENDS Watch

CONSTANTS f1, f2, f3
=============================================================================
