------------------------------ MODULE Watchdog ------------------------------
(***************************************************************************)
(* The helper process that supervises the hand-over to a new release on     *)
(* Windows (updater/watchdog.go), beside the service control manager (SCM)   *)
(* and the service process it watches.  "v1" is the previous binary, which    *)
(* works; "v2" is the release, with or without a flaw.                       *)
(*                                                                         *)
(* Time is the watchdog's own: a tick is one Sleep(Poll), and between two     *)
(* ticks the service and the SCM take any number of steps.  Each call into    *)
(* the SCM is a step, so what Status() said may be out of date when Start()   *)
(* or Stop() is called.  A new process never has the PID of the old one, nor  *)
(* the one in curPID: the system does not give a PID out again so soon.       *)
(***************************************************************************)
EXTENDS Naturals

CONSTANTS Pid, OldPID,        \* PIDs of new processes, and of the old one
          RestartGrace, StartRetry, StableFor, Deadline, StopWait,   \* in ticks
          MaxCrashes, MaxBinErrors,
          MaxStatusErrors,    \* bound: failing Status() calls
          MaxDeaths           \* bound: deaths of v2 processes

ASSUME WatchdogAssumption ==
    /\ OldPID \notin Pid /\ "none" \notin Pid \cup {OldPID}
    /\ {StableFor, Deadline, MaxCrashes, MaxBinErrors} \subseteq Nat \ {0}
    /\ {RestartGrace, StartRetry, StopWait, MaxStatusErrors, MaxDeaths} \subseteq Nat
    /\ StartRetry <= RestartGrace

VARIABLES
    proc,         \* the service process: NoProc or [pid, ver, st]
    restartDue,   \* the SCM is about to restart the service
    account,      \* the service account: "ok", or "bad" (Start is refused)
    exePath,      \* the file at exePath
    flaw,         \* of v2: "none", "crashes" or "broken" (it cannot be run)
    policy,       \* the SCM's recovery policy: "restart" or "nothing"
    at, now,      \* where the watchdog is, and its clock
    w,            \* the local variables of runWatchdog
    waited,       \* ticks spent in this stopAndWait
    marked,       \* the bad-version file: "no", "yes" or "failed"
    outcome,
    verdict,      \* history: how the supervision ended
    age,          \* history: ticks the service process has lived
    downFor,      \* history: ticks without one, of those when v2 could have run
    upAt,         \* history: when a v2 process first ran
    deaths,       \* history: of v2 processes
    missed,       \* history: failed Status() calls
    stuck         \* history: the last stopAndWait ran out of time

service == <<proc, restartDue, account>>
setup   == <<flaw, policy>>
dog     == <<at, now, w, waited, marked, outcome, verdict, stuck>>
life    == <<age, downFor, upAt, deaths>>
watchVars == <<service, exePath, setup, dog, life, missed>>

NoPid  == "none"
NoProc == [pid |-> NoPid, ver |-> "none", st |-> "none"]
Never  == Deadline

Watching == {"status", "start", "judge"}
WatchControl == Watching \cup {"mark", "stop", "wait", "move", "install",
                              "startAgain", "startAnyway", "done"}

-----------------------------------------------------------------------------
(* The service and its control manager *)

Launches == account = "ok" /\ exePath # "none" /\ (exePath = "v2" => flaw # "broken")

Spawned ==
    /\ \E p \in Pid \ {w.curPID} : proc' = [pid |-> p, ver |-> exePath, st |-> "starting"]
    /\ age' = 0 /\ downFor' = 0

DeathOf(v) == IF v = "v2" THEN deaths < MaxDeaths /\ deaths' = deaths + 1
                          ELSE UNCHANGED deaths

\* ctl.Start(), and what it returns: a service that is not stopped counts as
\* started, one whose process dies before it reports does not.
Start(result) ==
    \/ /\ \/ proc # NoProc /\ result = "started"
          \/ proc = NoProc /\ account = "bad" /\ result = "refused"
          \/ proc = NoProc /\ account = "ok" /\ ~Launches /\ result = "failed"
       /\ UNCHANGED <<service, life>>
    \/ /\ proc = NoProc /\ Launches
       /\ \/ result = "started" /\ Spawned /\ UNCHANGED <<restartDue, deaths>>
          \/ /\ result = "failed" /\ exePath = "v2" /\ flaw = "crashes"
             /\ DeathOf(exePath)
             /\ restartDue' = (policy = "restart")
             /\ downFor' = 0 /\ UNCHANGED <<proc, age>>
       /\ UNCHANGED <<account, upAt>>

RecoveryRestart ==
    /\ restartDue
    /\ restartDue' = FALSE
    /\ IF proc = NoProc /\ Launches THEN Spawned ELSE UNCHANGED <<proc, age, downFor>>
    /\ UNCHANGED <<account, exePath, setup, dog, upAt, deaths, missed>>

ComesUp ==
    /\ proc.st = "starting"
    /\ proc' = [proc EXCEPT !.st = "running"]
    /\ upAt' = IF proc.ver = "v2" /\ upAt = Never THEN now ELSE upAt
    /\ UNCHANGED <<restartDue, account, exePath, setup, dog, age, downFor, deaths, missed>>

\* The old process exits at the end of its update, a flawed one at any time.
Dies ==
    /\ proc.pid = OldPID \/ (proc.ver = "v2" /\ flaw = "crashes")
    /\ DeathOf(proc.ver)
    /\ proc' = NoProc
    /\ restartDue' = (policy = "restart")
    /\ UNCHANGED <<account, exePath, setup, dog, age, downFor, upAt, missed>>

\* A process that was told to stop reports it, and the SCM has nothing to do.
Stops ==
    /\ proc.st = "stopping"
    /\ proc' = NoProc
    /\ UNCHANGED <<restartDue, account, exePath, setup, dog, life, missed>>

AccountFixed ==
    /\ account = "bad"
    /\ account' = "ok"
    /\ downFor' = 0
    /\ UNCHANGED <<proc, restartDue, exePath, setup, dog, age, upAt, deaths, missed>>

-----------------------------------------------------------------------------
(* runWatchdog *)

WatchInit ==
    /\ proc = [pid |-> OldPID, ver |-> "v1", st |-> "running"]
    /\ restartDue = FALSE
    /\ account \in {"ok", "bad"}
    /\ exePath = "v2"
    /\ flaw \in {"none", "crashes", "broken"}
    /\ policy \in {"restart", "nothing"}
    /\ at = "status" /\ now = 0
    /\ w = [curPID |-> NoPid, curSince |-> 0, downSince |-> 0, retryAt |-> 0,
            crashes |-> 0, binErrs |-> 0, envErr |-> FALSE, sawNew |-> FALSE]
    /\ waited = 0 /\ marked = "no" /\ outcome = "none"
    /\ verdict = "none" /\ age = 0 /\ downFor = 0 /\ upAt = Never
    /\ deaths = 0 /\ missed = 0 /\ stuck = FALSE

\* Mutants: a later process inherits the first one's clock; the grace period
\* starts anew at every poll.
Bug_Since     == IF w.sawNew THEN w.curSince ELSE now
Bug_DownSince == now

\* The process observed so far is not there any more, since when the one that
\* is there has been observed, and since when there is none.
Lost      == w.curPID \notin {NoPid, proc.pid}
Since     == IF proc.pid = w.curPID THEN w.curSince ELSE now
DownSince == IF Lost THEN now ELSE w.downSince

Seen == [w EXCEPT !.curPID = proc.pid, !.crashes = IF Lost THEN @ + 1 ELSE @]

\* Sleep, and the loop's condition after it.  A service that never ran, and
\* whose Start was refused, is no reason to roll back.
Sleep ==
    /\ now' = now + 1
    /\ age' = IF proc # NoProc /\ age < StableFor THEN age + 1 ELSE age
    /\ downFor' = IF proc = NoProc /\ account = "ok" /\ flaw # "broken"
                  THEN downFor + 1 ELSE downFor
    /\ IF now + 1 < Deadline THEN at' = "status" /\ UNCHANGED <<outcome, verdict>>
       ELSE IF ~w.sawNew /\ w.envErr /\ w.binErrs = 0
            THEN at' = "done" /\ outcome' = "gaveUp" /\ verdict' = "env"
            ELSE at' = "mark" /\ verdict' = "bad" /\ UNCHANGED outcome

StatusFails ==
    /\ at = "status"
    /\ missed < MaxStatusErrors
    /\ missed' = missed + 1
    /\ Sleep
    /\ UNCHANGED <<service, exePath, setup, w, waited, marked, stuck, upAt, deaths>>

\* Status() shows a process that is not the old one.
SeeNew ==
    /\ at = "status"
    /\ proc # NoProc /\ proc.pid # OldPID
    /\ w' = [Seen EXCEPT !.sawNew = TRUE, !.curSince = Since]
    /\ IF proc.st = "running" /\ now - Since >= StableFor
       THEN at' = "done" /\ outcome' = "healthy" /\ verdict' = "good"
       ELSE at' = "judge" /\ UNCHANGED <<outcome, verdict>>
    /\ UNCHANGED <<service, exePath, setup, now, waited, marked, stuck, life, missed>>

\* Status() shows a stopped service: the SCM gets its grace period first.
SeeStopped ==
    /\ at = "status"
    /\ proc = NoProc
    /\ IF now - DownSince >= RestartGrace /\ now >= w.retryAt
       THEN /\ at' = "start"
            /\ w' = [Seen EXCEPT !.downSince = DownSince, !.retryAt = now + StartRetry]
       ELSE at' = "judge" /\ w' = [Seen EXCEPT !.downSince = DownSince]
    /\ UNCHANGED <<service, exePath, setup, now, waited, marked, outcome, verdict, stuck,
                   life, missed>>

SeeOld ==
    /\ at = "status"
    /\ proc.pid = OldPID
    /\ at' = "judge"
    /\ UNCHANGED <<service, exePath, setup, now, w, waited, marked, outcome, verdict, stuck,
                   life, missed>>

\* Mutant: no failure to start is the environment's.
Bug_isEnvStartError(result) == FALSE

isEnvStartError(result) == result = "refused"

StartService ==
    /\ at = "start"
    /\ at' = "judge"
    /\ \E r \in {"started", "refused", "failed"} :
         /\ Start(r)
         /\ w' = IF r = "started" THEN w
                 ELSE IF isEnvStartError(r) THEN [w EXCEPT !.envErr = TRUE]
                 ELSE [w EXCEPT !.binErrs = @ + 1]
    /\ UNCHANGED <<exePath, setup, now, waited, marked, outcome, verdict, stuck, missed>>

Unhealthy == w.binErrs >= MaxBinErrors \/ w.crashes >= MaxCrashes

Judge ==
    /\ at = "judge"
    /\ IF Unhealthy
       THEN /\ at' = "mark" /\ verdict' = "bad"
            /\ UNCHANGED <<now, outcome, age, downFor>>
       ELSE Sleep
    /\ UNCHANGED <<service, exePath, setup, w, waited, marked, stuck, upAt, deaths, missed>>

-----------------------------------------------------------------------------
(* rollbackUpdate *)

past == <<setup, now, w, verdict, life, missed>>

\* markBad may fail, which is only logged.
Mark ==
    /\ at = "mark"
    /\ marked' \in {"yes", "failed"}
    /\ at' = "stop"
    /\ UNCHANGED <<service, exePath, waited, outcome, stuck, past>>

\* stopAndWait, before the swap and after it: one Stop(), which a process that
\* is still starting does not take, ...
Stop ==
    /\ at = "stop"
    /\ proc' = IF proc.st = "running" THEN [proc EXCEPT !.st = "stopping"] ELSE proc
    /\ waited' = 0
    /\ at' = "wait"
    /\ UNCHANGED <<restartDue, account, exePath, marked, outcome, stuck, past>>

\* ... then polls until the service is stopped, or StopWait is over.
Wait ==
    /\ at = "wait"
    /\ \/ waited < StopWait /\ waited' = waited + 1 /\ UNCHANGED <<at, stuck>>
       \/ /\ waited = StopWait \/ proc = NoProc
          /\ stuck' = (waited = StopWait)
          /\ at' = IF exePath = "v1" THEN "startAgain" ELSE "move"
          /\ UNCHANGED waited
    /\ UNCHANGED <<service, exePath, marked, outcome, past>>

\* swapBack, that is restorePrevious: the release goes aside, ...
ReleaseAside ==
    /\ at = "move"
    /\ \/ exePath' = "none" /\ at' = "install"
       \/ UNCHANGED exePath /\ at' = "startAnyway"
    /\ UNCHANGED <<service, waited, marked, outcome, stuck, past>>

\* Mutant: the service is trusted to have stayed down during the swap.
Bug_PreviousBack ==
    /\ at = "install"
    /\ exePath' = "v1" /\ at' = "startAgain"
    /\ UNCHANGED <<service, waited, marked, outcome, stuck, past>>

\* ... and the previous binary takes its place, or the release does again,
\* unless that fails too.
PreviousBack ==
    /\ at = "install"
    /\ \/ exePath' = "v1" /\ at' = "stop"
       \/ exePath' \in {"v2", "none"} /\ at' = "startAnyway"
    /\ UNCHANGED <<service, waited, marked, outcome, stuck, past>>

StartAgain ==
    /\ at \in {"startAgain", "startAnyway"}
    /\ at' = "done"
    /\ \E r \in {"started", "refused", "failed"} :
         /\ Start(r)
         /\ outcome' = IF at = "startAgain" /\ r = "started" THEN "rolledBack"
                                                             ELSE "gaveUp"
    /\ UNCHANGED <<exePath, setup, now, w, waited, marked, verdict, stuck, missed>>

Machine  == RecoveryRestart \/ ComesUp \/ Dies \/ Stops \/ AccountFixed
Watch    == StatusFails \/ SeeNew \/ SeeStopped \/ SeeOld \/ StartService \/ Judge
Rollback == Mark \/ Stop \/ Wait \/ ReleaseAside \/ PreviousBack \/ StartAgain

WatchNext == Machine \/ Watch \/ Rollback

WatchSpec == WatchInit /\ [][WatchNext]_watchVars

-----------------------------------------------------------------------------
(* Correctness *)

\* A release is only called healthy while a process of it is running that has
\* lived, the same one, for StableFor.
HealthyMeansUp ==
    [][(outcome' = "healthy" /\ outcome # "healthy") =>
         (proc.ver = "v2" /\ proc.st = "running" /\ age >= StableFor)]_watchVars

\* A good release is not rolled back for an account that is refused or an old
\* process that is slow to exit as such: only at the deadline, and only if it
\* came up too late to be stable before it.
GoodReleaseStays ==
    (flaw = "none" /\ verdict = "bad") =>
        /\ now = Deadline
        /\ upAt + StableFor + MaxStatusErrors >= Deadline - 1

\* "The service stayed down": while the watchdog supervises, a service that
\* could run is down no longer than the grace period, whatever the recovery
\* policy, give or take the poll before it and those that failed.
DownIsBounded ==
    at \in Watching => downFor <= RestartGrace + 1 + MaxStatusErrors

\* After a rollback the service runs, and runs the previous binary, even if the
\* SCM restarted the release in the middle of it; unless it did not stop.
RestoredUnlessStuck ==
    (outcome = "rolledBack" /\ ~stuck) => proc.ver = "v1"
=============================================================================
