------------------------------ MODULE Quiesce -------------------------------
(***************************************************************************)
(* The auto-updater's two questions to the client, asked by its own          *)
(* goroutine while Dispatch goes on: Activity() (is the runner idle, and      *)
(* since when) and Drain() (wait until nothing runs, or a timeout).  Both     *)
(* read inflight.count() and then pendingWaiterCount(), under two different   *)
(* mutexes; neither stops the receive loop.                                   *)
(***************************************************************************)
EXTENDS Dispatch

VARIABLES
    call,     \* the call in progress: "none", "activity" or "drain"
    at,       \* its next step
    late,     \* Drain's deadline has passed
    result,   \* what the last call returned
    held,     \* history: the commands that held a slot when it began
    queued,   \* history: the commands that waited for one when it began
    missed,   \* history: the ends that the lastActive it read predates
    overtaken \* history: the commands that had recorded their end when a
              \* goroutine with an older clock reading stored it over theirs

caller == <<call, at, late, result, held, queued, missed>>
allvars == <<vars, caller, overtaken>>

Results == {"none", "busy", "idle", "drained", "timedout"}

QInit ==
    /\ Init
    /\ call = "none" /\ at = "none" /\ late = FALSE /\ result = "none"
    /\ held = {} /\ queued = {} /\ missed = {} /\ overtaken = {}

\* The updater's goroutine makes one call at a time.
Begin(c) ==
    /\ call = "none"
    /\ call' = c
    /\ at' = "count"
    /\ late' = FALSE
    /\ result' = "none"
    /\ held' = Holders
    /\ queued' = Queued \ Holders
    /\ missed' = {}

Answer(r) == call' = "none" /\ at' = "none" /\ result' = r

\* What a read that finds work leads to: Activity is busy, Drain sleeps.
SawWork ==
    IF call = "activity" THEN Answer("busy")
    ELSE at' = "sleep" /\ UNCHANGED <<call, result>>

\* Mutant: the running commands are not counted, only the waiting ones.
Bug_ReadCountIgnored ==
    /\ at = "count"
    /\ at' = "pending"
    /\ UNCHANGED <<call, result, late, held, queued, missed>>

\* c.inflight.count(), under the registry's mutex; && and || stop there when
\* it is not zero.
ReadCount ==
    /\ at = "count"
    /\ IF count = 0 THEN at' = "pending" /\ UNCHANGED <<call, result>>
                    ELSE SawWork
    /\ UNCHANGED <<late, held, queued, missed>>

\* c.pendingWaiterCount(), under pendingMu.
ReadPending ==
    /\ at = "pending"
    /\ IF pendingWaiters # 0 THEN SawWork
       ELSE IF call = "drain" THEN Answer("drained")
       ELSE at' = "last" /\ UNCHANGED <<call, result>>
    /\ UNCHANGED <<late, held, queued, missed>>

\* Activity loads lastActive after it has decided that nothing runs.
ReadLastActive ==
    /\ at = "last"
    /\ missed' = endsSinceTouch
    /\ Answer("idle")
    /\ UNCHANGED <<late, held, queued>>

\* Mutant: the loop goes on until nothing runs, whatever the deadline.
Bug_DrainPollForever ==
    /\ at = "sleep"
    /\ at' = "count"
    /\ UNCHANGED <<call, result, late, held, queued, missed>>

\* Drain's loop condition, after its 200 ms sleep.
DrainPoll ==
    /\ at = "sleep"
    /\ IF late THEN Answer("timedout")
               ELSE at' = "count" /\ UNCHANGED <<call, result>>
    /\ UNCHANGED <<late, held, queued, missed>>

Deadline ==
    /\ call = "drain"
    /\ ~late
    /\ late' = TRUE
    /\ UNCHANGED <<call, at, result, held, queued, missed>>

CallStep == ReadCount \/ ReadPending \/ ReadLastActive \/ DrainPoll

\* What is overtaken by the store of this step, if it is one.
Overtake ==
    overtaken' = overtaken \cup
        UNION {{h \in stamp[g] : pc[h] = "done"} :
                 g \in {s \in Cmd : pc[s] \in Stamped /\ pc'[s] # pc[s]}}

QNext ==
    \/ Next /\ UNCHANGED caller /\ Overtake
    \/ /\ Begin("activity") \/ Begin("drain") \/ CallStep \/ Deadline
       /\ UNCHANGED <<vars, overtaken>>

QSpec == QInit /\ [][QNext]_allvars

QFairness ==
    /\ \A g \in Cmd : WF_allvars(Run(g) /\ UNCHANGED caller /\ Overtake)
    /\ WF_allvars(CallStep /\ UNCHANGED <<vars, overtaken>>)
    /\ WF_allvars(Deadline /\ UNCHANGED <<vars, overtaken>>)

QFairSpec == QSpec /\ QFairness

-----------------------------------------------------------------------------
(* Correctness *)

\* When Drain reports an empty runner, or Activity an idle one, every command
\* that held a slot when the call began has given it back.
QuietCoversHolders ==
    result \in {"drained", "idle"} => held \cap Holders = {}

\* Drain returns whatever the handlers do: its timeout bounds it.
DrainReturns == (call = "drain") ~> (call # "drain")

\* Drain's comment: it looks at the waiters too, so that no command that was
\* waiting for a slot is left running when it returns.
DrainCoversWaiters ==
    result = "drained" => queued \cap (Holders \cup Queued) = {}

\* Where a command is over and its own touch() has not stored yet.
Ending == {"close", "touch", "stamped"}

\* When Activity answers idle, the only ends its lastActive predates are those of
\* commands whose own deferred touch() is still to come, and those over which
\* another touch() stored an instant it had read before they ended: it reads the
\* clock and stores in two steps (client/ws_client.go:556).  So it is not true that
\* "the quiet period is measured from the END of the last command"
\* (client/ws_client.go:431-433), which would leave out the second alternative.
IdleLagsByEnding ==
    [][(result' = "idle" /\ result # "idle") =>
         \A g \in missed' : pc[g] \in Ending \/ g \in overtaken]_allvars
=============================================================================
