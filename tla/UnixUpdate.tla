----------------------------- MODULE UnixUpdate -----------------------------
(***************************************************************************)
(* Self-update on Linux and macOS, from the ticker to the restarted service:  *)
(* the update cycle (updater/updater.go), the idle gate with its deferral       *)
(* clock (updater/options.go), apply() (updater/apply_other.go) and the script  *)
(* it leaves behind, beside commands that come and go and a supervisor          *)
(* (systemd, launchd) that stops and restarts the process.                      *)
(*                                                                         *)
(* Time is kept as ages that stop at the limit they are compared with, so that  *)
(* no behaviour has to end.  One process runs at a time; the lock file, the      *)
(* script and the installed binary outlive it.                                 *)
(***************************************************************************)
EXTENDS Naturals

CONSTANTS CheckInterval, IdleWindow, maxDeferral   \* in ticks

ASSUME UnixUpdateAssumption == {CheckInterval, IdleWindow, maxDeferral} \subseteq Nat \ {0}

VARIABLES
    pc,           \* where the updater goroutine is; "off": no process runs
    ver,          \* the binary the process was started from
    forced,       \* the update under way is a forced one
    deferring,    \* deferredSince is set
    deferredFor,  \* and this long ago
    due,          \* the ticker has fired
    sinceTick,    \* time since it last did
    flight,       \* commands in flight, by when they came: "before" the last look or "after"
    quietFor,     \* time since lastActive
    lock,         \* the update lock file: "free", "held", "stale"
    exe,          \* the binary that is installed
    script,       \* the update script: "none" when there is none
    unit,         \* the supervisor's view: "active", "restarting", "stopped"
    stopReq,      \* a stop of the unit is under way
    checked,      \* history: what the last check of this process came to
    activeFor,    \* history: time since its start, or since a check that saw no need or an idle runner
    killed,       \* history: the last script was killed
    startFailed   \* history: it could not start the unit it found stopped

gate     == <<deferring, deferredFor>>
ticker   == <<due, sinceTick>>
activity == <<flight, quietFor>>
ending   == <<killed, startFailed>>
system   == <<lock, exe, script, unit, stopReq, ending>>
vars     == <<pc, ver, forced, gate, ticker, activity, system, checked, activeFor>>

Control   == {"off", "wait", "lock", "prepare", "drain", "script", "exit"}
AfterLook == {"drain", "script", "exit"}
Older(a, limit) == IF a < limit THEN a + 1 ELSE a

-----------------------------------------------------------------------------
\* A process starts: the first check is due, and the client counts its start as activity.
Boot ==
    /\ pc' = "wait" /\ ver' = exe /\ forced' = FALSE
    /\ deferring' = FALSE /\ deferredFor' = 0
    /\ due' = TRUE /\ sinceTick' = 0
    /\ flight' = {} /\ quietFor' = 0
    /\ checked' = "none" /\ activeFor' = 0
    /\ unit' = "active"

Init ==
    /\ pc = "wait" /\ ver = "old" /\ forced = FALSE
    /\ deferring = FALSE /\ deferredFor = 0
    /\ due = TRUE /\ sinceTick = 0
    /\ flight = {} /\ quietFor = 0
    /\ lock = "free" /\ exe = "old" /\ script = "none"
    /\ unit = "active" /\ stopReq = FALSE
    /\ checked = "none" /\ activeFor = 0
    /\ killed = FALSE /\ startFailed = FALSE

\* Time passes while the updater waits for its ticker or downloads; the
\* ticker's channel holds one tick.
Tick ==
    /\ pc = "prepare" \/ (pc = "wait" /\ ~due)
    /\ quietFor' = Older(quietFor, IdleWindow)
    /\ deferredFor' = IF deferring THEN Older(deferredFor, maxDeferral) ELSE 0
    /\ activeFor' = Older(activeFor, maxDeferral)
    /\ IF sinceTick + 1 = CheckInterval THEN sinceTick' = 0 /\ due' = TRUE
       ELSE sinceTick' = sinceTick + 1 /\ UNCHANGED due
    /\ UNCHANGED <<pc, ver, forced, deferring, flight, system, checked>>

\* Client.dispatchOne records activity when a command comes and when it ends.
CommandComes ==
    /\ pc # "off"
    /\ flight' = flight \cup {IF pc \in AfterLook THEN "after" ELSE "before"}
    /\ quietFor' = 0
    /\ UNCHANGED <<pc, ver, forced, gate, ticker, system, checked, activeFor>>

CommandEnds(k) ==
    /\ k \in flight
    /\ flight' = flight \ {k}
    /\ quietFor' = 0
    /\ UNCHANGED <<pc, ver, forced, gate, ticker, system, checked, activeFor>>

-----------------------------------------------------------------------------
(* checkAndApply up to the lock.                                            *)

\* gate.busyReason, and gate.reset.
Idle  == flight = {} /\ quietFor = IdleWindow
Reset == deferring' = FALSE /\ deferredFor' = 0

Check(outcome, to) ==
    /\ pc = "wait" /\ due
    /\ due' = FALSE
    /\ pc' = to /\ checked' = outcome
    /\ UNCHANGED <<ver, sinceTick, activity, system>>

\* The release cannot be fetched, or the own path not resolved: the clock runs on.
CheckFails ==
    /\ Check("failed", "wait")
    /\ UNCHANGED <<forced, gate, activeFor>>

\* Mutant: the clock runs on.
Bug_NothingPending ==
    /\ Check("nothing", "wait")
    /\ activeFor' = 0
    /\ UNCHANGED <<forced, gate>>

\* No release is newer, or the newer one is known to be bad.
NothingPending ==
    /\ Check("nothing", "wait")
    /\ Reset /\ activeFor' = 0
    /\ UNCHANGED forced

\* gate.evaluate.
Proceed ==
    /\ ver = "old" /\ Idle
    /\ Check("proceed", "lock")
    /\ forced' = FALSE
    /\ Reset /\ activeFor' = 0

ApplyNow ==
    /\ ver = "old" /\ ~Idle /\ deferring /\ deferredFor >= maxDeferral
    /\ Check("proceed", "lock")
    /\ forced' = TRUE
    /\ UNCHANGED <<gate, activeFor>>

\* Mutant: every deferral starts the clock.
Bug_Defer ==
    /\ ver = "old" /\ ~Idle /\ ~(deferring /\ deferredFor >= maxDeferral)
    /\ Check("busy", "wait")
    /\ deferring' = TRUE /\ deferredFor' = 0
    /\ UNCHANGED <<forced, activeFor>>

Defer ==
    /\ ver = "old" /\ ~Idle /\ ~(deferring /\ deferredFor >= maxDeferral)
    /\ Check("busy", "wait")
    /\ deferring' = TRUE /\ UNCHANGED deferredFor
    /\ UNCHANGED <<forced, activeFor>>

\* acquireUpdateLock: made, reclaimed when stale, or not to be had.
Lock ==
    /\ pc = "lock"
    /\ \/ lock # "held" /\ lock' = "held" /\ pc' = "prepare" /\ UNCHANGED checked
       \/ pc' = "wait" /\ checked' = "locked" /\ UNCHANGED lock
    /\ UNCHANGED <<ver, forced, gate, ticker, activity, exe, script, unit, stopReq,
                   activeFor, ending>>

-----------------------------------------------------------------------------
(* apply.                                                                   *)

\* An error, or errDeferred: the caller releases the lock.
Return(why) ==
    /\ pc' = "wait" /\ lock' = "free" /\ checked' = why
    /\ flight' = IF flight = {} THEN {} ELSE {"before"}

\* The download, its verification, a missing asset.
PrepareFails ==
    /\ pc = "prepare"
    /\ Return("failed")
    /\ UNCHANGED <<ver, forced, gate, ticker, quietFor, exe, script, unit, stopReq,
                   activeFor, ending>>

\* The last look: stillOK.  The gate's clock is at its start if it says no.
LastLook ==
    /\ pc = "prepare"
    /\ IF forced \/ Idle THEN pc' = "drain" /\ UNCHANGED <<lock, flight, checked>>
                         ELSE Return("late")
    /\ UNCHANGED <<ver, forced, gate, ticker, quietFor, exe, script, unit, stopReq,
                   activeFor, ending>>

\* Drain returns when no command is in flight, or after drainTimeout.
Drained ==
    /\ pc = "drain" /\ pc' = "script"
    /\ UNCHANGED <<ver, forced, gate, ticker, activity, system, checked, activeFor>>

\* The script cannot be written or started.  The runner goes on as before.
ScriptFails ==
    /\ pc = "script"
    /\ Return("failed")
    /\ UNCHANGED <<ver, forced, gate, ticker, quietFor, exe, script, unit, stopReq,
                   activeFor, ending>>

\* Mutant: the lock is released before the exit.
Bug_Launch ==
    /\ pc = "script" /\ pc' = "exit" /\ script = "none"
    /\ script' = "poll" /\ stopReq' \in BOOLEAN /\ lock' = "free"
    /\ killed' = FALSE /\ startFailed' = FALSE
    /\ UNCHANGED <<ver, forced, gate, ticker, activity, exe, unit, checked,
                   activeFor>>

\* The script runs, and the supervisor is asked to stop the unit, which may fail.
\* A script that has released the lock is over before another one is started.
Launch ==
    /\ pc = "script" /\ pc' = "exit" /\ script = "none"
    /\ script' = "poll" /\ stopReq' \in BOOLEAN
    /\ killed' = FALSE /\ startFailed' = FALSE
    /\ UNCHANGED <<ver, forced, gate, ticker, activity, lock, exe, unit, checked,
                   activeFor>>

-----------------------------------------------------------------------------
(* The end of the process, and its supervisor.                              *)

\* The supervisor may kill what the process has started with it.
Ends(view) ==
    /\ pc' = "off" /\ unit' = view /\ stopReq' = FALSE
    /\ flight' = {} /\ checked' = "none"
    /\ UNCHANGED <<ver, forced, gate, ticker, quietFor, lock, exe, activeFor,
                   startFailed>>

Spares == UNCHANGED <<script, killed>>
Kills  == script # "none" /\ script' = "none" /\ killed' = TRUE

\* The signal handler of a stop, and os.Exit after supervisorStopFallback.
Stopped  == pc # "off" /\ stopReq /\ Ends("stopped") /\ (Spares \/ Kills)
Fallback == pc = "exit" /\ Ends(IF stopReq THEN "stopped" ELSE "restarting") /\ (Spares \/ Kills)
Crash    == pc # "off" /\ ~stopReq /\ Ends("restarting") /\ (Spares \/ Kills)

\* Restart=always, KeepAlive: unless the stop was asked for.
Restart ==
    /\ unit = "restarting"
    /\ Boot
    /\ UNCHANGED <<lock, exe, script, stopReq, ending>>

\* staleLockAge, 15 minutes, passes over a lock that neither a process nor a
\* script is going to remove; either would be done long before.
LockAges ==
    /\ lock = "held" /\ script = "none"
    /\ pc \notin {"prepare", "drain", "script", "exit"}
    /\ lock' = "stale"
    /\ UNCHANGED <<pc, ver, forced, gate, ticker, activity, exe, script, unit, stopReq,
                   checked, activeFor, ending>>

-----------------------------------------------------------------------------
(* The script.  It goes on whatever its commands return.                     *)

\* Mutant: the script waits for the stop as long as it takes.
Bug_ForceStop ==
    /\ script = "poll" /\ unit # "active"
    /\ script' = "swap" /\ unit' = "stopped"
    /\ UNCHANGED <<pc, ver, forced, gate, ticker, activity, lock, exe, stopReq, checked,
                   activeFor, ending>>

\* The unit is not active, or 30 s are over; then it is stopped, if that works.
ForceStop ==
    /\ script = "poll" /\ script' = "swap"
    /\ \/ /\ pc = "off" /\ unit' = "stopped"
          /\ UNCHANGED <<pc, ver, forced, gate, ticker, activity, lock, exe, stopReq,
                         checked, activeFor>>
       \/ pc # "off" /\ Ends("stopped")
       \/ UNCHANGED <<pc, ver, forced, gate, ticker, activity, lock, exe, unit, stopReq,
                      checked, activeFor>>
    /\ UNCHANGED ending

\* mv, which may fail.
Swap ==
    /\ script = "swap" /\ script' = "unlock"
    /\ exe' \in {exe, "new"}
    /\ UNCHANGED <<pc, ver, forced, gate, ticker, activity, lock, unit, stopReq, checked,
                   activeFor, ending>>

\* rm, which may fail: then the lock is left to its age.
Unlock ==
    /\ script = "unlock" /\ script' = "start"
    /\ lock' \in {lock, "free"}
    /\ UNCHANGED <<pc, ver, forced, gate, ticker, activity, exe, unit, stopReq, checked,
                   activeFor, ending>>

\* systemctl start, launchctl load: nothing to do for a unit that is active, and
\* a failure is swallowed.
Start ==
    /\ script = "start" /\ script' = "none"
    /\ \/ unit # "active" /\ Boot /\ UNCHANGED startFailed
       \/ /\ startFailed' = (unit = "stopped")
          /\ UNCHANGED <<pc, ver, forced, gate, ticker, activity, unit, checked, activeFor>>
    /\ UNCHANGED <<lock, exe, stopReq, killed>>

-----------------------------------------------------------------------------
checkAndApply == \/ CheckFails \/ NothingPending \/ Proceed \/ ApplyNow \/ Defer \/ Lock
                 \/ PrepareFails \/ LastLook \/ Drained \/ ScriptFails \/ Launch
Script     == ForceStop \/ Swap \/ Unlock \/ Start
Supervisor == Stopped \/ Fallback \/ Restart

Next == \/ Tick \/ CommandComes \/ \E k \in flight : CommandEnds(k)
        \/ checkAndApply \/ Script \/ Supervisor \/ Crash \/ LockAges

\* The clock and the goroutine go on, so do the script and the supervisor.
\* Commands need not end and nothing is said of crashes.
Fairness == WF_vars(Tick) /\ WF_vars(checkAndApply) /\ WF_vars(Script) /\ WF_vars(Supervisor)

Spec == Init /\ [][Next]_vars /\ Fairness

-----------------------------------------------------------------------------
(* Properties.                                                              *)

\* Commands that were there at the last look are only interrupted by an update
\* that activity alone has postponed for maxDeferral: no check in all that time
\* found nothing to install or the runner idle (options.go:19-24).
InterruptsOnlyWhenDue ==
    pc \in AfterLook /\ "before" \in flight => forced /\ activeFor >= maxDeferral

\* A busy runner does not postpone an update for ever: some check comes to
\* something else (options.go:19-24).  That may be a gate that lets the update
\* through and a last look that does not, which starts the clock again.
PostponementEnds == []<>(checked # "busy")

\* While a script may still replace the binary, no other process is on the way to
\* replacing it too (lock.go:30-51, apply_other.go:144-158).
SwapAlone ==
    script \in {"poll", "swap", "unlock"} =>
        lock = "held" /\ pc \notin {"prepare", "drain", "script"}

\* An update brings the service back and leaves no script behind, whether its stop,
\* its swap and its unlock work or fail, unless the script is killed or its start
\* of the stopped unit fails: nothing retries that (apply_other.go:105, 124).
ServiceComesBack ==
    script = "poll" ~> (unit = "active" /\ script = "none") \/ killed \/ startFailed

\* "The script stops the service, swaps the binary, and restarts"
\* (updater.go:14-15): a service that was stopped has a script that starts it.
\* Does not hold: nothing detaches the script from the service it stops.
StoppedIsRestarted == unit = "stopped" => script # "none"
=============================================================================
