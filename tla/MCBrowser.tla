----------------------------- MODULE MCBrowser ------------------------------
(* An instance of Browser for TLC: room for one session.  One command acts   *)
(* on the first session, the second acts there or launches another, the third *)
(* closes the first.                                                         *)
EXTENDS Browser
CONSTANTS c1, c2, c3, i1, i2
MCCall == {c1, c2, c3}
MCId == {i1, i2}
MCAsk == [c \in MCCall |->
    CASE c = c1 -> {[op |-> "act", id |-> i1]}
      [] c = c2 -> {[op |-> "act", id |-> i1], [op |-> "launch", id |-> i2]}
      [] c = c3 -> {[op |-> "close", id |-> i1]}]
=============================================================================
