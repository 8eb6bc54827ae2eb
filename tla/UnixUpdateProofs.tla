-------------------------- MODULE UnixUpdateProofs --------------------------
(***************************************************************************)
(* What is proved of UnixUpdate for every check interval, idle window and    *)
(* maximum deferral.                                                         *)
(***************************************************************************)
EXTENDS UnixUpdate, TLAPS

-----------------------------------------------------------------------------
(* Who may swap the binary.                                                 *)

\* Between the lock and the exit the updater has the lock, and no script is left.
UpdaterOwns ==
    pc \in {"prepare", "drain", "script"} =>
        lock = "held" /\ script \notin {"poll", "swap", "unlock"}

\* The inductive invariant: the lock has one owner, the updater or a script.
OwnerInv == UpdaterOwns /\ SwapAlone

USE DEF UpdaterOwns, SwapAlone

\* A step of the cycle up to and including the start of the script.
LEMMA OwnerCycle ==
    ASSUME OwnerInv, checkAndApply
    PROVE  OwnerInv'
<1>1. CASE CheckFails \/ NothingPending \/ Proceed \/ ApplyNow \/ Defer
  BY <1>1 DEF OwnerInv, CheckFails, NothingPending, Proceed, ApplyNow, Defer, Check, system
<1>2. CASE Lock
  BY <1>2 DEF OwnerInv, Lock
<1>3. CASE PrepareFails \/ ScriptFails
  BY <1>3 DEF OwnerInv, PrepareFails, ScriptFails, Return
<1>4. CASE LastLook
  BY <1>4 DEF OwnerInv, LastLook, Return
<1>5. CASE Drained
  BY <1>5 DEF OwnerInv, Drained, system
<1>6. CASE Launch
  BY <1>6 DEF OwnerInv, Launch
<1> QED
  BY <1>1, <1>2, <1>3, <1>4, <1>5, <1>6 DEF checkAndApply

\* A line of the script.
LEMMA OwnerScript ==
    ASSUME OwnerInv, Script
    PROVE  OwnerInv'
<1>1. CASE ForceStop
  BY <1>1 DEF OwnerInv, ForceStop, Ends
<1>2. CASE Swap
  BY <1>2 DEF OwnerInv, Swap
<1>3. CASE Unlock
  BY <1>3 DEF OwnerInv, Unlock
<1>4. CASE Start
  BY <1>4 DEF OwnerInv, Start, Boot
<1> QED
  BY <1>1, <1>2, <1>3, <1>4 DEF Script

\* Commands, time, the supervisor and a crash.
LEMMA OwnerOthers ==
    ASSUME OwnerInv,
           \/ Tick \/ CommandComes \/ \E k \in flight : CommandEnds(k)
           \/ Supervisor \/ Crash \/ LockAges
    PROVE  OwnerInv'
<1>1. CASE Tick \/ CommandComes \/ \E k \in flight : CommandEnds(k)
  BY <1>1 DEF OwnerInv, Tick, CommandComes, CommandEnds, system
<1>2. CASE Stopped \/ Fallback \/ Crash
  BY <1>2 DEF OwnerInv, Stopped, Fallback, Crash, Ends, Spares, Kills
<1>3. CASE Restart
  BY <1>3 DEF OwnerInv, Restart, Boot
<1>4. CASE LockAges
  BY <1>4 DEF OwnerInv, LockAges
<1> QED
  BY <1>1, <1>2, <1>3, <1>4 DEF Supervisor

\* One party at a time swaps the binary (lock.go:30-51).
THEOREM SwapCorrect == Spec => []SwapAlone
<1>1. Init => OwnerInv
  BY DEF Init, OwnerInv
<1>2. OwnerInv /\ [Next]_vars => OwnerInv'
  <2>1. ASSUME OwnerInv, Next PROVE OwnerInv'
    BY <2>1, OwnerCycle, OwnerScript, OwnerOthers DEF Next
  <2>2. ASSUME OwnerInv, UNCHANGED vars PROVE OwnerInv'
    BY <2>2 DEF OwnerInv, vars, system
  <2> QED
    BY <2>1, <2>2
<1>3. OwnerInv => SwapAlone
  BY DEF OwnerInv
<1> QED
  BY <1>1, <1>2, <1>3, PTL DEF Spec

-----------------------------------------------------------------------------
(* When an update may interrupt a command.                                  *)

\* The ages are numbers.  The clock of the gate stands at 0 until it is started,
\* and is never ahead of how long the runner has been active without a check that
\* saw no need or an idle runner.
ClockBehind == /\ deferredFor \in Nat /\ activeFor \in Nat
               /\ ~deferring => deferredFor = 0
               /\ deferredFor <= activeFor

\* A forced update is due, from the gate to the end of the process.
ForcedIsDue ==
    pc \in {"lock", "prepare"} \cup AfterLook /\ forced => activeFor >= maxDeferral

\* After the last look an update is forced, or nothing was running.
LookWasIdle == pc \in AfterLook /\ "before" \in flight => forced

\* The inductive invariant.
DueInv == ClockBehind /\ ForcedIsDue /\ LookWasIdle

USE DEF ClockBehind, ForcedIsDue, LookWasIdle, AfterLook

\* A step of the cycle: the gate starts and reads the clock, the last look lets
\* pass what is forced or idle.
LEMMA DueCycle ==
    ASSUME DueInv, checkAndApply
    PROVE  DueInv'
<1> USE UnixUpdateAssumption
<1>1. CASE CheckFails
  BY <1>1 DEF DueInv, CheckFails, Check, gate, activity
<1>2. CASE NothingPending
  BY <1>2 DEF DueInv, NothingPending, Check, Reset, activity
<1>3. CASE Proceed
  BY <1>3 DEF DueInv, Proceed, Check, Reset, activity
<1>4. CASE ApplyNow
  BY <1>4 DEF DueInv, ApplyNow, Check, gate, activity
<1>5. CASE Defer
  BY <1>5 DEF DueInv, Defer, Check, activity
<1>6. CASE Lock
  BY <1>6 DEF DueInv, Lock, gate, activity
<1>7. CASE PrepareFails \/ ScriptFails
  BY <1>7 DEF DueInv, PrepareFails, ScriptFails, Return, gate
<1>8. CASE LastLook
  BY <1>8 DEF DueInv, LastLook, Return, Idle, gate
<1>9. CASE Drained \/ Launch
  BY <1>9 DEF DueInv, Drained, Launch, gate, activity
<1> QED
  BY <1>1, <1>2, <1>3, <1>4, <1>5, <1>6, <1>7, <1>8, <1>9 DEF checkAndApply

\* Time and commands: both ages grow together, and a command that comes after
\* the last look does not count as one that was there.
LEMMA DueTime ==
    ASSUME DueInv, Tick \/ CommandComes \/ \E k \in flight : CommandEnds(k)
    PROVE  DueInv'
<1> USE UnixUpdateAssumption
<1>1. CASE Tick
  <2>1. activeFor' = Older(activeFor, maxDeferral)
    BY <1>1 DEF Tick
  <2>2. deferring' = deferring /\ forced' = forced /\ pc' = pc /\ flight' = flight
    BY <1>1 DEF Tick
  <2>3. deferredFor' = IF deferring THEN Older(deferredFor, maxDeferral) ELSE 0
    BY <1>1 DEF Tick
  <2> QED
    BY <2>1, <2>2, <2>3 DEF DueInv, Older
<1>2. CASE CommandComes
  BY <1>2 DEF DueInv, CommandComes, gate
<1>3. CASE \E k \in flight : CommandEnds(k)
  BY <1>3 DEF DueInv, CommandEnds, gate
<1> QED
  BY <1>1, <1>2, <1>3

\* The end of a process takes its commands with it, and a new one starts both
\* clocks; a script and the lock touch neither.
LEMMA DueOthers ==
    ASSUME DueInv, Script \/ Supervisor \/ Crash \/ LockAges
    PROVE  DueInv'
<1>1. CASE Stopped \/ Fallback \/ Crash
  BY <1>1 DEF DueInv, Stopped, Fallback, Crash, Ends, gate
<1>2. CASE Restart
  BY <1>2 DEF DueInv, Restart, Boot
<1>3. CASE LockAges \/ Swap \/ Unlock
  BY <1>3 DEF DueInv, LockAges, Swap, Unlock, gate, activity
<1>4. CASE ForceStop
  BY <1>4 DEF DueInv, ForceStop, Ends, gate, activity
<1>5. CASE Start
  BY <1>5 DEF DueInv, Start, Boot, gate, activity
<1> QED
  BY <1>1, <1>2, <1>3, <1>4, <1>5 DEF Script, Supervisor

\* Only an update that is due interrupts what was running at the last look
\* (options.go:19-24).
THEOREM InterruptCorrect == Spec => []InterruptsOnlyWhenDue
<1>1. Init => DueInv
  BY DEF Init, DueInv
<1>2. DueInv /\ [Next]_vars => DueInv'
  <2>1. ASSUME DueInv, Next PROVE DueInv'
    BY <2>1, DueCycle, DueTime, DueOthers DEF Next
  <2>2. ASSUME DueInv, UNCHANGED vars PROVE DueInv'
    BY <2>2 DEF DueInv, vars, gate, activity
  <2> QED
    BY <2>1, <2>2
<1>3. DueInv => InterruptsOnlyWhenDue
  BY DEF DueInv, InterruptsOnlyWhenDue
<1> QED
  BY <1>1, <1>2, <1>3, PTL DEF Spec
=============================================================================
