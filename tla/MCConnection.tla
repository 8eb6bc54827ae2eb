---------------------------- MODULE MCConnection ----------------------------
(* A small instance of Connection for TLC. *)
EXTENDS Connection

CONSTANTS c1, c2

MCCmd      == {c1, c2}
MCRotating == {c2}
=============================================================================
