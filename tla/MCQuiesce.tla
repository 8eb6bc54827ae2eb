----------------------------- MODULE MCQuiesce ------------------------------
(* Small instances of Dispatch with its two readers for TLC. *)
EXTENDS Quiesce

CONSTANTS c1, c2, a

MCCmd  == {c1, c2}
MCId   == {a}
MCType == {"shell", "git"}
=============================================================================
