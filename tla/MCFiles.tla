------------------------------ MODULE MCFiles -------------------------------
(* An instance of Files for TLC: three commands of any kind on one file.     *)
EXTENDS Files
CONSTANTS o1, o2, o3
MCOp == {o1, o2, o3}
MCAsk == [o \in MCOp |-> Kind]
=============================================================================
