------------------------------ MODULE MCUpdate ------------------------------
(* Small instances of Update for TLC. *)
EXTENDS Update

CONSTANTS p1, p2

MCProc == {p1, p2}
=============================================================================
