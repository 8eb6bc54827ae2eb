----------------------------- MODULE MCDispatch -----------------------------
(* A small instance of Dispatch for TLC. *)
EXTENDS Dispatch

CONSTANTS c1, c2, c3, a, b

MCCmd  == {c1, c2, c3}
MCId   == {a, b}
MCType == {"shell", "git"}

\* Frames and ids are interchangeable, and the receive loop takes one frame
\* after the other.  The run checks liveness, for which TLC's SYMMETRY is not
\* sound, so one representative of each permuted family of behaviours is kept by
\* hand: frames come in this order, the first of them with this id.
InOrder ==
    /\ pc[c2] # "idle" => pc[c1] # "idle"
    /\ pc[c3] # "idle" => pc[c2] # "idle"
    /\ req[c1].id \in {a, "none"}

MCSpec == Init /\ [][Next /\ InOrder']_vars /\ Fairness
=============================================================================
