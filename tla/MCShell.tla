------------------------------ MODULE MCShell -------------------------------
(* An instance of Shell for TLC: more chunks on one stream than a channel     *)
(* holds, none on the other.                                                 *)
EXTENDS Shell
MCMaxOutput == [s \in Stream |-> IF s = "stdout" THEN 2 ELSE 0]
=============================================================================
