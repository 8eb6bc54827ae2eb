------------------------------ MODULE SlotPool ------------------------------
(***************************************************************************)
(* What the dispatch layer promises about command admission, without the   *)
(* machinery that provides it: a pool of MaxConcurrency execution slots, of *)
(* which commands accounted as heavy hold at most MaxHeavyConcurrency.  A   *)
(* received command waits until it is admitted or refused; an admitted one  *)
(* holds its slot until it ends.  There is no lock, no wake-up channel, no  *)
(* reference count and no timer here; Dispatch.tla is shown to implement it.*)
(***************************************************************************)
EXTENDS FiniteSets, Naturals

CONSTANTS Cmd,                  \* deliveries: one per command frame received
          MaxConcurrency,       \* slots in all
          MaxHeavyConcurrency   \* slots that heavy commands may hold

VARIABLES status,   \* [Cmd -> Status]
          account   \* [Cmd -> Account]: the class a holder is accounted in

vars == <<status, account>>

Status  == {"new", "waiting", "held", "ended", "refused"}
Account == {"none", "light", "heavy"}

Holders      == {g \in Cmd : status[g] = "held"}
HeavyHolders == {g \in Holders : account[g] = "heavy"}

Init ==
    /\ status = [g \in Cmd |-> "new"]
    /\ account = [g \in Cmd |-> "none"]

Move(g, from, to) ==
    /\ status[g] = from
    /\ status' = [status EXCEPT ![g] = to]

\* A frame arrives: the command may queue, or be shed at once.
Arrive(g) == Move(g, "new", "waiting") /\ UNCHANGED account
Shed(g)   == Move(g, "new", "refused") /\ UNCHANGED account
Refuse(g) == Move(g, "waiting", "refused") /\ UNCHANGED account

\* A slot is taken only if one is free, and a heavy one only if one of the
\* slots open to heavy commands is free.
Admit(g) ==
    /\ Cardinality(Holders) < MaxConcurrency
    /\ \E c \in {"light", "heavy"} :
         /\ c = "heavy" => Cardinality(HeavyHolders) < MaxHeavyConcurrency
         /\ account' = [account EXCEPT ![g] = c]
    /\ Move(g, "waiting", "held")

End(g) ==
    /\ Move(g, "held", "ended")
    /\ account' = [account EXCEPT ![g] = "none"]

Next == \E g \in Cmd : Arrive(g) \/ Shed(g) \/ Admit(g) \/ Refuse(g) \/ End(g)

Spec == Init /\ [][Next]_vars
=============================================================================
