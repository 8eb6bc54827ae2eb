---------------------------- MODULE ProcessPool -----------------------------
(***************************************************************************)
(* The pool of detached background processes (executor/process.go): Start,   *)
(* Stop, the max-age reaper, Shutdown, and the goroutine that waits for each  *)
(* process.  Each element of Call is one Start call and the process tree it   *)
(* may launch: the leader (the shell it runs) and its descendants, which      *)
(* share its process group or job object, so one kill() ends them all.        *)
(*                                                                         *)
(* Kills happen outside the mutex: a tree taken out of the pool waits in the  *)
(* hands of the goroutine that removed it.  When the runner process exits,    *)
(* every goroutine stops where it is and only the launched trees go on: so it  *)
(* is with a process group (proc_other.go), which is what is modelled.  The    *)
(* job object of proc_windows.go is killed when its last handle is closed, so   *)
(* there the trees end with the runner.  A process group needs nothing that     *)
(* could fail to be made (newProcTree, proc_other.go), so no tree is without a   *)
(* tracker here and the branches for one are not taken.                        *)
(***************************************************************************)
EXTENDS FiniteSets, Naturals

CONSTANTS Call,           \* Start calls
          Forking,        \* those whose command leaves descendants behind
          Id,             \* process_id values
          maxProcesses,   \* cfg.MaxBackgroundProcesses
          MaxStarts       \* Start calls in progress at once (dispatch slots)

ASSUME PoolAssumption == /\ IsFiniteSet(Call) /\ Forking \subseteq Call
                         /\ maxProcesses \in Nat \ {0}
                         /\ MaxStarts \in Nat \ {0}

VARIABLES
    pc,            \* [Call -> Control]
    idOf,          \* [Call -> Id]: the process_id asked for
    processes,     \* ProcessManager.processes: process_id -> call
    leader,        \* [Call -> Leader]: the direct child
    descendants,   \* calls whose tree holds more than the leader
    exited,        \* managedProcess.exited
    toStop,        \* removed by a Stop that has not killed yet
    toReap,        \* removed by the reaper, not yet looked at
    toShut,        \* removed by Shutdown, not yet killed
    abandoned,     \* dropped by the reaper without a kill
    shuttingDown,
    runnerUp

pool == <<processes, toStop, toReap, toShut, abandoned>>
tree == <<leader, descendants>>
vars == <<pc, idOf, pool, tree, exited, shuttingDown, runnerUp>>

\* checked: past the first critical section.  launched: the child runs, the
\* second one is ahead.  unwanted: that one found the id taken, and the child is
\* to be killed.  settle: registered, in the 300 ms grace period.
Control == {"idle", "checked", "launched", "unwanted", "settle", "answered",
            "refused"}
Leader  == {"none", "running", "ended"}

Starting  == {s \in Call : pc[s] \in {"checked", "launched"}}
InCall    == Starting \cup {s \in Call : pc[s] \in {"unwanted", "settle"}}
Tracked   == {processes[i] : i \in DOMAIN processes}
Alive     == {s \in Call : leader[s] = "running"} \cup descendants
Doomed    == toStop \cup toReap \cup toShut

Goto(s, to) == pc' = [pc EXCEPT ![s] = to]
Without(ids) == [i \in DOMAIN processes \ ids |-> processes[i]]

\* tree.kill(): SIGKILL to the process group, or TerminateJobObject.
KillTree(S) ==
    /\ leader' = [s \in Call |-> IF s \in S /\ leader[s] = "running"
                                 THEN "ended" ELSE leader[s]]
    /\ descendants' = descendants \ S

-----------------------------------------------------------------------------
Init ==
    /\ pc = [s \in Call |-> "idle"]
    /\ idOf = [s \in Call |-> "none"]
    /\ processes = [i \in {} |-> i]
    /\ leader = [s \in Call |-> "none"]
    /\ descendants = {} /\ exited = {}
    /\ toStop = {} /\ toReap = {} /\ toShut = {} /\ abandoned = {}
    /\ shuttingDown = FALSE
    /\ runnerUp = TRUE

\* Mutant: the limit is not looked at.
Bug_CanStartUnlimited(i) == ~shuttingDown /\ i \notin DOMAIN processes

\* Start: the checks under the first lock.
CanStart(i) == /\ ~shuttingDown
               /\ i \notin DOMAIN processes
               /\ Cardinality(DOMAIN processes) < maxProcesses

Begin(s, i) ==
    /\ pc[s] = "idle"
    /\ Cardinality(InCall) < MaxStarts
    /\ idOf' = [idOf EXCEPT ![s] = i]
    /\ Goto(s, IF CanStart(i) THEN "checked" ELSE "refused")
    /\ UNCHANGED <<pool, tree, exited, shuttingDown, runnerUp>>

\* Start, unlocked: log file, launcher, exec; each may fail.
Launch(s) ==
    /\ pc[s] = "checked"
    /\ \/ Goto(s, "launched") /\ leader' = [leader EXCEPT ![s] = "running"]
       \/ Goto(s, "refused") /\ UNCHANGED leader
    /\ UNCHANGED <<idOf, pool, descendants, exited, shuttingDown, runnerUp>>

\* Mutant: the second lock does not re-check the id.
Bug_RegisterOverwrites(s) ==
    /\ pc[s] = "launched"
    /\ processes' = [i \in DOMAIN processes \cup {idOf[s]} |->
                       IF i = idOf[s] THEN s ELSE processes[i]]
    /\ Goto(s, "settle")
    /\ UNCHANGED <<idOf, toStop, toReap, toShut, abandoned, tree, exited,
                   shuttingDown, runnerUp>>

\* Start: the second lock re-checks the id, and only the id.
Register(s) ==
    /\ pc[s] = "launched"
    /\ IF idOf[s] \in DOMAIN processes
       THEN /\ Goto(s, "unwanted")
            /\ UNCHANGED processes
       ELSE /\ processes' = [i \in DOMAIN processes \cup {idOf[s]} |->
                               IF i = idOf[s] THEN s ELSE processes[i]]
            /\ Goto(s, "settle")
    /\ UNCHANGED <<idOf, toStop, toReap, toShut, abandoned, tree, exited,
                   shuttingDown, runnerUp>>

\* Start, after the second unlock: the tree that lost the id is killed.
RefuseKill(s) ==
    /\ pc[s] = "unwanted"
    /\ KillTree({s})
    /\ Goto(s, "refused")
    /\ UNCHANGED <<idOf, pool, exited, shuttingDown, runnerUp>>

\* Start, after the grace period: the answer is the snapshot, an error if it
\* shows a non-zero exit.  The entry stays either way.
Settle(s) ==
    /\ pc[s] = "settle"
    /\ Goto(s, "answered")
    /\ UNCHANGED <<idOf, pool, tree, exited, shuttingDown, runnerUp>>

\* waitForExit: cmd.Wait() returns when the leader has ended (the log is a
\* file, so descendants do not hold it up); lastActivity becomes exitedAt.
WaitReturns(s) ==
    /\ pc[s] \in {"settle", "answered"}
    /\ leader[s] # "running"
    /\ s \notin exited
    /\ exited' = exited \cup {s}
    /\ UNCHANGED <<pc, idOf, pool, tree, shuttingDown, runnerUp>>

\* Stop: out of the pool under the lock ...
Stop(i) ==
    /\ i \in DOMAIN processes
    /\ processes' = Without({i})
    /\ toStop' = toStop \cup {processes[i]}
    /\ UNCHANGED <<pc, idOf, toReap, toShut, abandoned, tree, exited,
                   shuttingDown, runnerUp>>

\* ... and killed after it.
StopKill(s) ==
    /\ s \in toStop
    /\ KillTree({s})
    /\ toStop' = toStop \ {s}
    /\ UNCHANGED <<pc, idOf, processes, toReap, toShut, abandoned, exited,
                   shuttingDown, runnerUp>>

\* reapOnce, under the lock: every entry whose lastActivity (its start, or its
\* exit once it has exited) is more than maxAge ago leaves the pool.  Ages are
\* not kept: any entries may be the overdue ones.  Shutdown ends the reaper,
\* but a tick may already be under way then.
Reap(overdue) ==
    /\ overdue # {}
    /\ processes' = Without(overdue)
    /\ toReap' = toReap \cup {processes[i] : i \in overdue}
    /\ UNCHANGED <<pc, idOf, toStop, toShut, abandoned, tree, exited,
                   shuttingDown, runnerUp>>

\* Mutant: the test for a live process is the wrong way round.
Bug_ReapKillInverted(s) ==
    /\ s \in toReap
    /\ toReap' = toReap \ {s}
    /\ IF s \in exited
       THEN KillTree({s}) /\ UNCHANGED abandoned
       ELSE abandoned' = abandoned \cup {s} /\ UNCHANGED tree
    /\ UNCHANGED <<pc, idOf, processes, toStop, toShut, exited,
                   shuttingDown, runnerUp>>

\* reapOnce, after the unlock: only a process that still runs is killed.
ReapKill(s) ==
    /\ s \in toReap
    /\ toReap' = toReap \ {s}
    /\ IF s \notin exited
       THEN KillTree({s}) /\ UNCHANGED abandoned
       ELSE abandoned' = abandoned \cup {s} /\ UNCHANGED tree
    /\ UNCHANGED <<pc, idOf, processes, toStop, toShut, exited,
                   shuttingDown, runnerUp>>

\* Shutdown: takes the whole pool under the lock ...
Shutdown ==
    /\ ~shuttingDown
    /\ shuttingDown' = TRUE
    /\ toShut' = Tracked
    /\ processes' = Without(DOMAIN processes)
    /\ UNCHANGED <<pc, idOf, toStop, toReap, abandoned, tree, exited,
                   runnerUp>>

\* ... kills it tree by tree ...
ShutdownKill(s) ==
    /\ s \in toShut
    /\ KillTree({s})
    /\ toShut' = toShut \ {s}
    /\ UNCHANGED <<pc, idOf, processes, toStop, toReap, abandoned, exited,
                   shuttingDown, runnerUp>>

\* ... and returns to a caller that ends the runner.
ExitRunner ==
    /\ shuttingDown
    /\ toShut = {}
    /\ runnerUp' = FALSE
    /\ UNCHANGED <<pc, idOf, pool, tree, exited, shuttingDown>>

Runner ==
    /\ runnerUp
    /\ \/ \E s \in Call : \/ \E i \in Id : Begin(s, i)
                          \/ Launch(s) \/ Register(s) \/ RefuseKill(s)
                          \/ Settle(s) \/ WaitReturns(s) \/ StopKill(s) \/ ReapKill(s)
                          \/ ShutdownKill(s)
       \/ \E i \in Id : Stop(i)
       \/ \E overdue \in SUBSET DOMAIN processes : Reap(overdue)
       \/ Shutdown \/ ExitRunner

-----------------------------------------------------------------------------
(* The operating system and the clock *)

Fork(s) ==
    /\ s \in Forking
    /\ leader[s] = "running"
    /\ s \notin descendants
    /\ descendants' = descendants \cup {s}
    /\ UNCHANGED <<pc, idOf, pool, leader, exited, shuttingDown, runnerUp>>

LeaderExits(s) ==
    /\ leader[s] = "running"
    /\ leader' = [leader EXCEPT ![s] = "ended"]
    /\ UNCHANGED <<pc, idOf, pool, descendants, exited, shuttingDown,
                   runnerUp>>

DescendantsExit(s) ==
    /\ s \in descendants
    /\ descendants' = descendants \ {s}
    /\ UNCHANGED <<pc, idOf, pool, leader, exited, shuttingDown, runnerUp>>

System == \E s \in Call : \/ Fork(s) \/ LeaderExits(s) \/ DescendantsExit(s)

\* What the trees do once the runner has gone is not followed any further.
Next == Runner \/ (runnerUp /\ System)

Spec == Init /\ [][Next]_vars

\* Time passes, the reaper ticks and goroutines run, so an entry that stays is
\* overdue one day; no one need ever stop a process, and none need ever exit.
Fairness ==
    /\ \A i \in Id : WF_vars(/\ ~shuttingDown
                            /\ \E overdue \in SUBSET DOMAIN processes :
                                 i \in overdue /\ Reap(overdue))
    /\ \A s \in Call : WF_vars(/\ runnerUp
                              /\ \/ ReapKill(s) \/ StopKill(s)
                                 \/ ShutdownKill(s) \/ WaitReturns(s))

FairSpec == Spec /\ Fairness

-----------------------------------------------------------------------------
(* Correctness *)

\* The limit is checked before the launch and not after it, so concurrent
\* Starts can pass it; they never pass it by more than the Starts that
\* dispatch lets run beside each other.  The configuration promises the plain
\* limit: config/config.go:219-222 ("caps how many ... may be tracked at the
\* same time"), README.md:126 ("Maximum concurrent").
OvershootBounded ==
    Cardinality(DOMAIN processes) <= maxProcesses + MaxStarts - 1

\* Every live tree is in somebody's hands: those of the Start that launched it,
\* until it is registered or killed as unwanted, those of the pool, or those of
\* the Stop, the reaper or the Shutdown that took it out and has yet to kill it.
\* What Shutdown took is dead when the runner has gone.  The one tree nobody
\* answers for is what an already exited leader left behind when the reaper
\* dropped its entry.  The code contradicts two comments by these exceptions:
\* Shutdown is there "so no detached process is left running as a true orphan
\* after the runner process itself exits" (executor/process.go:479-483), but each
\* disjunct except that of toShut lets one be; and with the maximum age a
\* forgotten start "does not hold a real OS process open forever"
\* (config/config.go:122-123), but what is abandoned may run for ever.
NoLostTree ==
    \A s \in Alive : \/ pc[s] \in {"launched", "unwanted"}
                     \/ s \in Tracked \cup toStop \cup toReap
                     \/ s \in toShut /\ runnerUp
                     \/ s \in abandoned /\ leader[s] # "running"

\* A forgotten process gives its place in the pool back, whether it still
\* runs or has exited, and one that still ran is dead then.
ForgottenIsReaped ==
    \A s \in Call : (s \in Tracked) ~>
        (shuttingDown \/ (s \notin Tracked /\ leader[s] # "running"))
=============================================================================
