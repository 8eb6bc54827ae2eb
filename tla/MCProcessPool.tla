--------------------------- MODULE MCProcessPool ----------------------------
(* A small instance of ProcessPool for TLC. *)
EXTENDS ProcessPool

CONSTANTS s1, s2, s3, a, b, c

MCCall == {s1, s2, s3}
MCId   == {a, b, c}
MCForking == {s2}

\* Calls and ids are interchangeable.  The run checks a liveness property, for
\* which TLC's SYMMETRY is not sound, so one representative of each permuted
\* family of behaviours is kept by hand: calls begin in this order, and ids
\* come into use in this order.
CallOrder == <<s1, s2, s3>>
IdOrder   == <<a, b, c>>

InOrder ==
    \A n \in 2 .. 3 :
        /\ pc[CallOrder[n]] # "idle" => pc[CallOrder[n - 1]] # "idle"
        /\ \A k \in 1 .. 3 :
             (idOf[CallOrder[k]] = IdOrder[n])
             => \E j \in 1 .. (k - 1) : idOf[CallOrder[j]] = IdOrder[n - 1]

MCSpec == Init /\ [][Next /\ InOrder']_vars /\ Fairness
=============================================================================
