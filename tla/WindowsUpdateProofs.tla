---------------------------- MODULE WindowsUpdateProofs ----------------------------
(***************************************************************************)
(* What is proved of the self-update on Windows.  Of Watchdog, which          *)
(* supervises the hand-over: for every set of PIDs and every setting of its    *)
(* times and limits.  Of Update, the swap that comes before it: for every set  *)
(* of processes and any number of crashes.                                   *)
(***************************************************************************)
EXTENDS Update, Watchdog, FiniteSetTheorems, TLAPS

-----------------------------------------------------------------------------
(* The state *)

Process == [pid : Pid \cup {OldPID}, ver : Version, st : {"starting", "running", "stopping"}]
Notes   == [curPID : Pid \cup {NoPid}, curSince : Nat, downSince : Nat, retryAt : Nat,
            crashes : Nat, binErrs : Nat, envErr : BOOLEAN, sawNew : BOOLEAN]

\* The shape of the state; the times that the watchdog notes are past, and its
\* clock has not reached the deadline while it watches.
TypeOK ==
    /\ proc \in {NoProc} \cup Process
    /\ account \in {"ok", "bad"}
    /\ exePath \in Version \cup {"none"}
    /\ flaw \in {"none", "crashes", "broken"}
    /\ at \in WatchControl
    /\ now \in 0 .. Deadline /\ age \in Nat /\ downFor \in Nat /\ missed \in Nat
    /\ upAt \in 0 .. Deadline
    /\ w \in Notes
    /\ w.curSince <= now /\ w.downSince <= now
    /\ missed <= MaxStatusErrors
    /\ verdict \in {"none", "good", "bad", "env"}
    /\ outcome \in {"none", "healthy", "gaveUp", "rolledBack"}

\* While the watchdog watches, nothing has been decided, and only the release runs
\* beside the old process.
Supervising ==
    at \in Watching =>
        /\ now < Deadline
        /\ verdict = "none" /\ outcome = "none"
        /\ exePath = "v2"
        /\ proc # NoProc => (IF proc.pid = OldPID THEN proc.ver = "v1" ELSE proc.ver = "v2")

-----------------------------------------------------------------------------
(* A healthy release *)

\* The process under observation has lived as long as it has been observed.
Observed ==
    proc.pid = w.curPID =>
        proc = NoProc \/ age >= StableFor \/ now - w.curSince <= age

-----------------------------------------------------------------------------
(* A service that is down *)

\* Time is only counted as down when a start would work.
DownCounts == downFor > 0 => proc = NoProc /\ account = "ok" /\ flaw # "broken"

\* What the watchdog knows of it: between two polls it may be down unnoticed, and
\* from the poll that notices it the grace period runs, or the pause between two
\* attempts to start it.
DownKnown ==
    /\ at = "status" /\ w.curPID # NoPid => downFor <= 1 + missed
    /\ at = "judge" /\ w.curPID # NoPid => downFor = 0
    /\ at = "start" => w.curPID = NoPid
    /\ w.curPID = NoPid => w.downSince + downFor <= now + 1 + missed
    /\ at \in {"status", "judge"} => w.retryAt + downFor <= now + StartRetry
    /\ at = "start" => w.retryAt <= now + StartRetry

\* How long that can last.
DownFor ==
    /\ at \in {"status", "start"} => downFor <= RestartGrace + 1 + missed
    /\ at = "judge" => downFor <= RestartGrace + missed

DownInv == DownCounts /\ (at \in Watching => DownKnown /\ DownFor)

-----------------------------------------------------------------------------
(* A release without a flaw *)

\* It neither ends nor fails to start, so that the watchdog counts nothing.
NothingCounted ==
    /\ w.crashes = 0 /\ w.binErrs = 0
    /\ w.curPID # NoPid => proc # NoProc /\ proc.pid = w.curPID /\ proc.pid # OldPID
    /\ upAt # Never => proc # NoProc /\ proc.pid # OldPID /\ proc.st = "running"
    /\ proc # NoProc => proc.st # "stopping"

\* Since it came up it has been polled but for the polls that failed.
SeenInTime ==
    /\ w.curPID # NoPid => w.curSince <= upAt + 1 + missed
    /\ at \in {"judge", "start"} /\ w.curPID = NoPid => now <= upAt
    /\ at = "status" /\ w.curPID = NoPid => now <= upAt + 1 + missed
    /\ at \in {"judge", "start"} => now <= upAt + StableFor + missed
    /\ at = "status" => now <= upAt + StableFor + 1 + missed

GoodInv ==
    /\ flaw = "none" /\ at \in Watching => NothingCounted /\ SeenInTime
    /\ GoodReleaseStays

-----------------------------------------------------------------------------
(* A rollback *)

Previous == proc \in Process /\ proc.ver = "v1" /\ proc.pid # OldPID /\ proc.st # "stopping"

\* Once the service has been seen stopped after the swap, it only starts from the
\* previous binary.
RollbackInv ==
    /\ at = "startAgain" => exePath = "v1"
    /\ at = "startAgain" /\ ~stuck => proc = NoProc \/ Previous
    /\ outcome = "rolledBack" => at = "done"
    /\ outcome = "rolledBack" /\ ~stuck => Previous

-----------------------------------------------------------------------------
(* What the steps do to the state *)

\* No process has the PID of none.
LEMMA ProcFields ==
    ASSUME TypeOK
    PROVE  /\ proc = NoProc <=> proc.pid = NoPid
           /\ proc # NoProc => proc \in Process
           /\ NoProc.pid = NoPid /\ NoProc.ver = "none" /\ NoProc.st = "none"
BY WatchdogAssumption DEF TypeOK, NoProc, NoPid, Process, Version

\* A process that is started runs what is at exePath, under a PID of its own.
LEMMA SpawnedFields ==
    ASSUME TypeOK, Launches, Spawned
    PROVE  /\ proc' \in Process /\ proc' # NoProc
           /\ proc'.pid \in Pid /\ proc'.pid # w.curPID /\ proc'.pid # OldPID
           /\ proc'.pid # NoPid
           /\ proc'.ver = exePath /\ proc'.st = "starting"
           /\ age' = 0 /\ downFor' = 0
<1>1. PICK p \in Pid \ {w.curPID} : proc' = [pid |-> p, ver |-> exePath, st |-> "starting"]
  BY DEF Spawned
<1>2. exePath \in Version /\ p # OldPID /\ p # NoPid
  BY WatchdogAssumption DEF Launches, TypeOK, NoPid
<1> QED
  BY <1>1, <1>2 DEF Spawned, Process, Version, NoProc, NoPid

\* A call of Start: nothing, a new process, or one that has died at once.
LEMMA StartDoes ==
    ASSUME NEW r, Start(r)
    PROVE  /\ account' = account /\ upAt' = upAt
           /\ \/ /\ UNCHANGED <<proc, restartDue, age, downFor>>
                 /\ \/ proc # NoProc /\ r = "started"
                    \/ proc = NoProc /\ account = "bad" /\ r = "refused"
                    \/ proc = NoProc /\ account = "ok" /\ ~Launches /\ r = "failed"
              \/ /\ proc = NoProc /\ Launches /\ r = "started"
                 /\ Spawned /\ UNCHANGED restartDue
              \/ /\ proc = NoProc /\ Launches /\ r = "failed"
                 /\ flaw = "crashes" /\ UNCHANGED <<proc, age>>
                 /\ downFor' = 0
BY DEF Start, service, life

\* What is noted at a poll.
LEMMA SeenFields ==
    ASSUME TypeOK, proc.pid \in Pid \cup {NoPid}
    PROVE  /\ Seen \in Notes
           /\ Seen.curPID = proc.pid
           /\ Seen.crashes = (IF Lost THEN w.crashes + 1 ELSE w.crashes)
           /\ Seen.curSince = w.curSince /\ Seen.downSince = w.downSince
           /\ Seen.retryAt = w.retryAt /\ Seen.binErrs = w.binErrs
<1> DEFINE c == IF Lost THEN w.crashes + 1 ELSE w.crashes
<1>1. c \in Nat /\ w \in Notes
  BY DEF TypeOK, Notes
<1>2. Seen = [w EXCEPT !.curPID = proc.pid, !.crashes = c]
  BY DEF Seen
<1> HIDE DEF c
<1>3. /\ Seen \in Notes /\ Seen.curPID = proc.pid /\ Seen.crashes = c
      /\ Seen.curSince = w.curSince /\ Seen.downSince = w.downSince
      /\ Seen.retryAt = w.retryAt /\ Seen.binErrs = w.binErrs
  BY <1>1, <1>2 DEF Notes
<1> QED
  BY <1>3 DEF c

LEMMA SeeNewNotes ==
    ASSUME TypeOK, SeeNew
    PROVE  /\ w' \in Notes
           /\ w'.curPID = proc.pid /\ w'.curSince = Since
           /\ w'.crashes = (IF Lost THEN w.crashes + 1 ELSE w.crashes)
           /\ w'.downSince = w.downSince /\ w'.retryAt = w.retryAt
           /\ w'.binErrs = w.binErrs
<1> DEFINE n == Seen
<1>1. proc.pid \in Pid \cup {NoPid}
  BY ProcFields DEF SeeNew, Process
<1>2. /\ n \in Notes /\ n.curPID = proc.pid
      /\ n.crashes = (IF Lost THEN w.crashes + 1 ELSE w.crashes)
      /\ n.downSince = w.downSince /\ n.retryAt = w.retryAt /\ n.binErrs = w.binErrs
  BY <1>1, SeenFields
<1>3. Since \in Nat
  BY DEF Since, TypeOK, Notes
<1>4. w' = [n EXCEPT !.sawNew = TRUE, !.curSince = Since]
  BY DEF SeeNew
<1> HIDE DEF n
<1> QED
  BY <1>2, <1>3, <1>4 DEF Notes

LEMMA SeeStoppedNotes ==
    ASSUME TypeOK, SeeStopped
    PROVE  /\ w' \in Notes
           /\ w'.curPID = NoPid /\ w'.downSince = DownSince
           /\ w'.crashes = (IF Lost THEN w.crashes + 1 ELSE w.crashes)
           /\ w'.curSince = w.curSince /\ w'.binErrs = w.binErrs
           /\ \/ /\ at' = "start" /\ w'.retryAt = now + StartRetry
                 /\ now - DownSince >= RestartGrace /\ now >= w.retryAt
              \/ /\ at' = "judge" /\ w'.retryAt = w.retryAt
                 /\ ~(now - DownSince >= RestartGrace /\ now >= w.retryAt)
<1> DEFINE n == Seen
<1>1. proc.pid = NoPid
  BY ProcFields DEF SeeStopped
<1>2. /\ n \in Notes /\ n.curPID = NoPid
      /\ n.crashes = (IF Lost THEN w.crashes + 1 ELSE w.crashes)
      /\ n.curSince = w.curSince /\ n.retryAt = w.retryAt /\ n.binErrs = w.binErrs
  BY <1>1, SeenFields
<1>3. DownSince \in Nat /\ now + StartRetry \in Nat
  BY WatchdogAssumption DEF DownSince, TypeOK, Notes
<1>4. \/ /\ at' = "start"
         /\ now - DownSince >= RestartGrace /\ now >= w.retryAt
         /\ w' = [n EXCEPT !.downSince = DownSince, !.retryAt = now + StartRetry]
      \/ /\ at' = "judge"
         /\ ~(now - DownSince >= RestartGrace /\ now >= w.retryAt)
         /\ w' = [n EXCEPT !.downSince = DownSince]
  BY DEF SeeStopped
<1> HIDE DEF n
<1> QED
  BY <1>2, <1>3, <1>4 DEF Notes

LEMMA StartServiceNotes ==
    ASSUME TypeOK, StartService
    PROVE  /\ w' \in Notes
           /\ w'.curPID = w.curPID /\ w'.curSince = w.curSince
           /\ w'.crashes = w.crashes
           /\ w'.downSince = w.downSince /\ w'.retryAt = w.retryAt
           /\ \E r \in {"started", "refused", "failed"} :
                /\ Start(r)
                /\ w'.binErrs = (IF r = "failed" THEN w.binErrs + 1 ELSE w.binErrs)
<1>1. PICK r \in {"started", "refused", "failed"} :
         /\ Start(r)
         /\ w' = IF r = "started" THEN w
                 ELSE IF isEnvStartError(r) THEN [w EXCEPT !.envErr = TRUE]
                 ELSE [w EXCEPT !.binErrs = @ + 1]
  BY DEF StartService
<1>2. w \in Notes
  BY DEF TypeOK
<1>3. CASE r = "started"
  BY <1>1, <1>2, <1>3
<1>4. CASE r = "refused"
  <2>1. w' = [w EXCEPT !.envErr = TRUE]
    BY <1>1, <1>4 DEF isEnvStartError
  <2> QED
    BY <1>1, <1>2, <1>4, <2>1 DEF Notes
<1>5. CASE r = "failed"
  <2>1. w' = [w EXCEPT !.binErrs = @ + 1]
    BY <1>1, <1>5 DEF isEnvStartError
  <2> QED
    BY <1>1, <1>2, <1>5, <2>1 DEF Notes
<1> QED
  BY <1>3, <1>4, <1>5

-----------------------------------------------------------------------------
(* Type correctness *)

\* The settings are numbers.
LEMMA Times ==
    /\ StableFor \in Nat \ {0} /\ Deadline \in Nat \ {0}
    /\ MaxCrashes \in Nat \ {0} /\ MaxBinErrors \in Nat \ {0}
    /\ RestartGrace \in Nat /\ StartRetry \in Nat /\ MaxStatusErrors \in Nat
    /\ StartRetry <= RestartGrace
BY WatchdogAssumption

LEMMA TypeInit == WatchInit => TypeOK
<1> SUFFICES ASSUME WatchInit
             PROVE  TypeOK
  OBVIOUS
<1>1. proc \in Process
  BY DEF WatchInit, Process, Version
<1>3. exePath \in Version /\ at \in WatchControl
  BY DEF WatchInit, Version, WatchControl, Watching
<1>4. /\ account \in {"ok", "bad"}
      /\ flaw \in {"none", "crashes", "broken"}
      /\ now \in 0 .. Deadline /\ age \in Nat /\ downFor \in Nat /\ missed \in Nat
      /\ upAt \in 0 .. Deadline /\ now = 0 /\ missed <= MaxStatusErrors
      /\ verdict \in {"none", "good", "bad", "env"}
      /\ outcome \in {"none", "healthy", "gaveUp", "rolledBack"}
  BY Times DEF WatchInit, Never
<1>2. w \in Notes /\ w.curSince = 0 /\ w.downSince = 0
  BY DEF WatchInit, Notes
<1> QED
  BY <1>1, <1>2, <1>3, <1>4 DEF TypeOK

\* A step of the machine.
LEMMA TypeMachine ==
    ASSUME TypeOK, Machine
    PROVE  TypeOK'
<1>1. CASE RecoveryRestart
  <2>1. /\ proc' \in {NoProc} \cup Process /\ age' \in Nat /\ downFor' \in Nat
    <3>1. CASE proc = NoProc /\ Launches
      <4>1. Spawned
        BY <1>1, <3>1 DEF RecoveryRestart
      <4> QED
        BY <3>1, <4>1, SpawnedFields
    <3>2. CASE ~(proc = NoProc /\ Launches)
      BY <1>1, <3>2 DEF RecoveryRestart, TypeOK
    <3> QED
      BY <3>1, <3>2
  <2> QED
    BY <1>1, <2>1 DEF RecoveryRestart, TypeOK, setup, dog
<1>2. CASE ComesUp
  <2>1. proc \in Process
    BY <1>2, ProcFields DEF ComesUp
  <2>2. proc' \in Process
    BY <1>2, <2>1 DEF ComesUp, Process
  <2>3. upAt' \in 0 .. Deadline
    BY <1>2 DEF ComesUp, TypeOK
  <2> QED
    BY <1>2, <2>2, <2>3 DEF ComesUp, TypeOK, setup, dog
<1>3. CASE Dies
  BY <1>3 DEF Dies, TypeOK, setup, dog
<1>4. CASE Stops
  BY <1>4 DEF Stops, TypeOK, setup, dog, life
<1>5. CASE AccountFixed
  BY <1>5 DEF AccountFixed, TypeOK, setup, dog
<1> QED
  BY <1>1, <1>2, <1>3, <1>4, <1>5 DEF Machine

\* A poll of the watchdog: time goes on.
LEMMA SleepDoes ==
    ASSUME TypeOK, now < Deadline, Sleep
    PROVE  /\ now' = now + 1 /\ now' \in 0 .. Deadline
           /\ age' \in Nat /\ downFor' \in Nat
           /\ at' \in WatchControl
           /\ verdict' \in {"none", "good", "bad", "env"}
           /\ outcome' \in {"none", "healthy", "gaveUp", "rolledBack"}
BY WatchdogAssumption DEF Sleep, TypeOK, WatchControl, Watching

LEMMA TypeWatch ==
    ASSUME TypeOK, Supervising, Watch
    PROVE  TypeOK'
<1> USE DEF WatchControl, Watching
<1>1. CASE StatusFails
  <2>1. Sleep /\ now < Deadline /\ missed' \in Nat /\ missed' <= MaxStatusErrors
    BY <1>1, WatchdogAssumption DEF StatusFails, Supervising, TypeOK
  <2> QED
    BY <1>1, <2>1, SleepDoes DEF StatusFails, TypeOK, Notes, service, setup
<1>2. CASE SeeNew
  <2>1. w' \in Notes /\ w'.curSince <= now /\ w'.downSince <= now
    BY <1>2, SeeNewNotes DEF Since, TypeOK
  <2> QED
    BY <1>2, <2>1 DEF SeeNew, TypeOK, service, setup, life
<1>3. CASE SeeStopped
  <2>1. w' \in Notes /\ w'.curSince <= now /\ w'.downSince <= now /\ at' \in WatchControl
    BY <1>3, SeeStoppedNotes DEF DownSince, TypeOK
  <2> QED
    BY <1>3, <2>1 DEF SeeStopped, TypeOK, service, setup, life
<1>4. CASE SeeOld
  BY <1>4 DEF SeeOld, TypeOK, service, setup, life
<1>5. CASE StartService
  <2>1. w' \in Notes /\ w'.curSince <= now /\ w'.downSince <= now
    BY <1>5, StartServiceNotes DEF TypeOK
  <2>2. /\ proc' \in {NoProc} \cup Process
        /\ account' = account /\ upAt' = upAt /\ age' \in Nat /\ downFor' \in Nat
    BY <1>5, StartDoes, SpawnedFields DEF StartService, TypeOK
  <2> QED
    BY <1>5, <2>1, <2>2 DEF StartService, TypeOK, setup
<1>6. CASE Judge
  <2>1. CASE Unhealthy
    BY <1>6, <2>1 DEF Judge, TypeOK, service, setup
  <2>2. CASE ~Unhealthy
    <3>1. Sleep /\ now < Deadline
      BY <1>6, <2>2 DEF Judge, Supervising
    <3> QED
      BY <1>6, <3>1, SleepDoes DEF Judge, TypeOK, Notes, service, setup
  <2> QED
    BY <2>1, <2>2
<1> QED
  BY <1>1, <1>2, <1>3, <1>4, <1>5, <1>6 DEF Watch

LEMMA TypeRollback ==
    ASSUME TypeOK, Rollback
    PROVE  TypeOK'
<1> USE DEF WatchControl, past, setup, life, service
<1>1. CASE Mark
  BY <1>1 DEF Mark, TypeOK
<1>2. CASE Stop
  <2>1. proc' \in {NoProc} \cup Process
    BY <1>2, ProcFields DEF Stop, TypeOK, Process
  <2> QED
    BY <1>2, <2>1 DEF Stop, TypeOK
<1>3. CASE Wait
  BY <1>3 DEF Wait, TypeOK
<1>4. CASE ReleaseAside \/ PreviousBack
  BY <1>4 DEF ReleaseAside, PreviousBack, TypeOK, Version
<1>5. CASE StartAgain
  <2>1. /\ proc' \in {NoProc} \cup Process
        /\ account' = account /\ upAt' = upAt /\ age' \in Nat /\ downFor' \in Nat
    BY <1>5, StartDoes, SpawnedFields DEF StartAgain, TypeOK
  <2> QED
    BY <1>5, <2>1 DEF StartAgain, TypeOK
<1> QED
  BY <1>1, <1>2, <1>3, <1>4, <1>5 DEF Rollback

LEMMA TypeStep == TypeOK /\ Supervising /\ [WatchNext]_watchVars => TypeOK'
<1>1. ASSUME TypeOK, UNCHANGED watchVars
      PROVE  TypeOK'
  BY <1>1 DEF watchVars, service, setup, dog, life, TypeOK
<1> QED
  BY <1>1, TypeMachine, TypeWatch, TypeRollback DEF WatchNext

-----------------------------------------------------------------------------
(* Supervision, and a healthy release *)

\* What RecoveryRestart does to the process.
LEMMA RestartDoes ==
    ASSUME TypeOK, RecoveryRestart
    PROVE  /\ UNCHANGED <<account, exePath, flaw, at, now, w, verdict, outcome, upAt, missed, stuck>>
           /\ \/ UNCHANGED <<proc, age, downFor>>
              \/ proc = NoProc /\ Launches /\ Spawned
BY DEF RecoveryRestart, setup, dog

LEMMA SuperInit == WatchInit => Supervising /\ Observed
<1> SUFFICES ASSUME WatchInit
             PROVE  Supervising /\ Observed
  OBVIOUS
<1>1. proc.pid = OldPID /\ proc.ver = "v1" /\ w.curPID = NoPid
  BY DEF WatchInit
<1>2. Supervising
  BY <1>1, Times DEF WatchInit, Supervising
<1>3. Observed
  BY <1>1, WatchdogAssumption DEF Observed, NoPid
<1> QED
  BY <1>2, <1>3

\* A step of the machine decides nothing; a new process is the release, young and
\* not the one under observation.
LEMMA SuperMachine ==
    ASSUME TypeOK, Supervising, Observed, Machine
    PROVE  Supervising' /\ Observed'
<1>1. CASE RecoveryRestart
  <2>1. CASE UNCHANGED <<proc, age, downFor>>
    BY <1>1, <2>1, RestartDoes DEF Supervising, Observed
  <2>2. CASE proc = NoProc /\ Launches /\ Spawned
    BY <1>1, <2>2, RestartDoes, SpawnedFields DEF Supervising, Observed
  <2> QED
    BY <1>1, <2>1, <2>2, RestartDoes
<1>2. CASE ComesUp
  <2>1. proc \in Process
    BY <1>2, ProcFields DEF ComesUp
  <2>2. proc'.pid = proc.pid /\ proc'.ver = proc.ver /\ proc # NoProc
    BY <1>2, <2>1, ProcFields DEF ComesUp, Process
  <2> QED
    BY <1>2, <2>2 DEF ComesUp, setup, dog, Supervising, Observed
<1>3. CASE Dies \/ Stops
  BY <1>3 DEF Dies, Stops, setup, dog, Supervising, Observed
<1>4. CASE AccountFixed
  BY <1>4 DEF AccountFixed, setup, dog, Supervising, Observed
<1> QED
  BY <1>1, <1>2, <1>3, <1>4 DEF Machine

\* A poll adds to the life of a process what it adds to its observation.
LEMMA SuperSleep ==
    ASSUME TypeOK, Supervising, Observed, at \in Watching, Sleep,
           UNCHANGED <<proc, exePath, w>>
    PROVE  Supervising' /\ Observed'
<1>1. Supervising'
  BY DEF Sleep, Supervising, Watching, TypeOK
<1>2. Observed'
  BY Times DEF Sleep, Observed, TypeOK, Notes
<1> QED
  BY <1>1, <1>2

LEMMA SuperWatch ==
    ASSUME TypeOK, Supervising, Observed, Watch
    PROVE  Supervising' /\ Observed'
<1>1. CASE StatusFails
  BY <1>1, SuperSleep DEF StatusFails, service, setup, Watching
<1>2. CASE SeeNew
  <2>1. Observed'
    BY <1>2, SeeNewNotes DEF SeeNew, service, setup, life, Observed, Since, TypeOK
  <2>2. Supervising'
    BY <1>2 DEF SeeNew, service, setup, life, Supervising, Watching
  <2> QED
    BY <2>1, <2>2
<1>3. CASE SeeStopped
  <2>1. Observed'
    BY <1>3 DEF SeeStopped, service, Observed
  <2>2. Supervising'
    BY <1>3 DEF SeeStopped, service, setup, life, Supervising, Watching
  <2> QED
    BY <2>1, <2>2
<1>4. CASE SeeOld
  BY <1>4 DEF SeeOld, service, setup, life, Supervising, Observed, Watching
<1>5. CASE StartService
  <2>1. PICK r \in {"started", "refused", "failed"} : Start(r)
    BY <1>5, StartServiceNotes
  <2>2. w'.curPID = w.curPID /\ w'.curSince = w.curSince
    BY <1>5, StartServiceNotes
  <2>3. UNCHANGED <<exePath, now, verdict, outcome>> /\ at' \in Watching /\ at \in Watching
    BY <1>5 DEF StartService, Watching
  <2>4. \/ UNCHANGED <<proc, age>>
        \/ proc = NoProc /\ Launches /\ Spawned
    BY <2>1, StartDoes
  <2>5. CASE UNCHANGED <<proc, age>>
    BY <2>2, <2>3, <2>5 DEF Supervising, Observed
  <2>6. CASE proc = NoProc /\ Launches /\ Spawned
    BY <2>2, <2>3, <2>6, SpawnedFields DEF Supervising, Observed
  <2> QED
    BY <2>4, <2>5, <2>6
<1>6. CASE Judge
  <2>1. CASE Unhealthy
    BY <1>6, <2>1 DEF Judge, service, setup, Supervising, Observed, Watching
  <2>2. CASE ~Unhealthy
    BY <1>6, <2>2, SuperSleep DEF Judge, service, setup, Watching
  <2> QED
    BY <2>1, <2>2
<1> QED
  BY <1>1, <1>2, <1>3, <1>4, <1>5, <1>6 DEF Watch

\* A rollback is no supervision any more.
LEMMA RollbackMoves ==
    ASSUME Rollback
    PROVE  /\ at \notin Watching /\ at' \notin Watching
           /\ UNCHANGED <<flaw, now, w, verdict, missed, upAt>>
<1>1. CASE Mark \/ Stop \/ Wait \/ ReleaseAside \/ PreviousBack
  BY <1>1 DEF Mark, Stop, Wait, ReleaseAside, PreviousBack, past, setup, life, Watching
<1>2. CASE StartAgain
  BY <1>2, StartDoes DEF StartAgain, setup, Watching
<1> QED
  BY <1>1, <1>2 DEF Rollback

LEMMA SuperRollback ==
    ASSUME TypeOK, Observed, Rollback
    PROVE  Supervising' /\ Observed'
<1>1. Supervising'
  BY RollbackMoves DEF Supervising
<1>2. CASE Stop
  <2>1. \/ proc' = proc
        \/ proc \in Process /\ proc' = [proc EXCEPT !.st = "stopping"]
    BY <1>2, ProcFields DEF Stop
  <2>2. proc'.pid = proc.pid /\ (proc = NoProc => proc' = NoProc)
    BY <2>1, ProcFields DEF Process
  <2> QED
    BY <1>1, <1>2, <2>2 DEF Stop, past, life, Observed
<1>3. CASE Mark \/ Wait \/ ReleaseAside \/ PreviousBack
  BY <1>1, <1>3 DEF Mark, Wait, ReleaseAside, PreviousBack, past, life, service, Observed
<1>4. CASE StartAgain
  <2>1. \/ UNCHANGED <<proc, age>>
        \/ proc = NoProc /\ Launches /\ Spawned
    BY <1>4, StartDoes DEF StartAgain
  <2> QED
    BY <1>1, <1>4, <2>1, SpawnedFields, RollbackMoves DEF Observed
<1> QED
  BY <1>2, <1>3, <1>4 DEF Rollback

LEMMA SuperStep ==
    TypeOK /\ Supervising /\ Observed /\ [WatchNext]_watchVars
      => (TypeOK /\ Supervising /\ Observed)'
<1>1. ASSUME Supervising, Observed, UNCHANGED watchVars
      PROVE  Supervising' /\ Observed'
  BY <1>1 DEF watchVars, service, setup, dog, life, Supervising, Observed
<1> QED
  BY <1>1, TypeStep, SuperMachine, SuperWatch, SuperRollback DEF WatchNext

\* A release is only called healthy while the same process of it has been running
\* for StableFor.
THEOREM HealthyCorrect == WatchSpec => HealthyMeansUp
<1>1. ASSUME TypeOK, Supervising, Observed, [WatchNext]_watchVars,
             outcome' = "healthy", outcome # "healthy"
      PROVE  proc.ver = "v2" /\ proc.st = "running" /\ age >= StableFor
  <2>1. SeeNew
    BY <1>1 DEF WatchNext, Machine, Watch, Rollback, RecoveryRestart, ComesUp, Dies, Stops, AccountFixed,
                StatusFails, SeeStopped, SeeOld, StartService, Judge, Sleep, Mark, Stop, Wait,
                ReleaseAside, PreviousBack, StartAgain, watchVars, dog
  <2>2. proc.st = "running" /\ now - Since >= StableFor /\ proc # NoProc /\ proc.pid # OldPID
    BY <1>1, <2>1 DEF SeeNew
  <2>3. proc.pid = w.curPID /\ Since = w.curSince
    BY <1>1, <2>2, Times DEF Since, TypeOK
  <2>4. age >= StableFor
    BY <1>1, <2>2, <2>3, Times DEF Observed, TypeOK, Notes
  <2> QED
    BY <1>1, <2>1, <2>2, <2>4 DEF SeeNew, Supervising, Watching
<1>2. WatchInit => TypeOK /\ Supervising /\ Observed
  BY TypeInit, SuperInit
<1>3. TypeOK /\ Supervising /\ Observed /\ [WatchNext]_watchVars
        => ((outcome' = "healthy" /\ outcome # "healthy") =>
               (proc.ver = "v2" /\ proc.st = "running" /\ age >= StableFor))
  BY <1>1
<1> QED
  BY <1>2, <1>3, SuperStep, PTL DEF WatchSpec, HealthyMeansUp

-----------------------------------------------------------------------------
(* The grace period *)

\* DownCounts and what the watchdog knows of it, while it watches.
LEMMA DownInit == WatchInit => DownInv
<1> SUFFICES ASSUME WatchInit
             PROVE  DownInv
  OBVIOUS
<1>1. /\ at = "status" /\ now = 0 /\ downFor = 0 /\ missed = 0
      /\ w.curPID = NoPid /\ w.downSince = 0 /\ w.retryAt = 0
  BY DEF WatchInit
<1> QED
  BY <1>1, Times DEF DownInv, DownCounts, DownKnown, DownFor

\* Nothing that happens to the service lets more time pass: the time it has been
\* down for stays, or starts anew.
LEMMA DownFrame ==
    ASSUME TypeOK, DownInv, at' = at, UNCHANGED <<now, w, missed, flaw>>,
           \/ downFor' = 0
           \/ downFor' = downFor /\ (downFor > 0 => proc' = proc /\ account' = account)
    PROVE  DownInv'
BY Times DEF DownInv, DownCounts, DownKnown, DownFor, TypeOK, Notes

LEMMA DownMachine ==
    ASSUME TypeOK, DownInv, Machine
    PROVE  DownInv'
<1>1. CASE RecoveryRestart
  BY <1>1, RestartDoes, SpawnedFields, DownFrame
<1>2. CASE ComesUp \/ Dies \/ Stops \/ AccountFixed
  <2>1. UNCHANGED <<at, now, w, missed, flaw>>
    BY <1>2 DEF ComesUp, Dies, Stops, AccountFixed, setup, dog
  <2>2. CASE ComesUp \/ Stops
    <3>1. proc # NoProc /\ downFor' = downFor
      BY <2>2, ProcFields DEF ComesUp, Stops, life
    <3> QED
      BY <2>1, <3>1, DownFrame DEF DownInv, DownCounts
  <2>3. CASE Dies
    <3>1. proc # NoProc /\ downFor' = downFor
      BY <2>3, ProcFields, WatchdogAssumption DEF Dies, NoPid
    <3> QED
      BY <2>1, <3>1, DownFrame DEF DownInv, DownCounts
  <2>4. CASE AccountFixed
    BY <2>1, <2>4, DownFrame DEF AccountFixed
  <2> QED
    BY <1>2, <2>2, <2>3, <2>4
<1> QED
  BY <1>1, <1>2 DEF Machine

\* A tick adds to the time down; the poll before it has noticed, or has failed.
LEMMA DownSleep ==
    ASSUME TypeOK, DownInv, Sleep, UNCHANGED <<proc, account, flaw, w>>,
           \/ at = "status" /\ missed' = missed + 1
           \/ at = "judge" /\ missed' = missed
    PROVE  DownInv'
<1>1. /\ now' = now + 1
      /\ downFor' = downFor \/ downFor' = downFor + 1
      /\ downFor' = downFor + 1 => proc = NoProc /\ account = "ok" /\ flaw # "broken"
      /\ at' \in Watching => at' = "status"
  BY DEF Sleep, TypeOK, Watching
<1>2. DownCounts'
  BY <1>1 DEF DownInv, DownCounts, TypeOK
<1>3. at' \in Watching => DownKnown' /\ DownFor'
  BY <1>1, Times DEF DownInv, DownKnown, DownFor, TypeOK, Notes, Watching
<1> QED
  BY <1>2, <1>3 DEF DownInv

\* A poll that finds the service stopped starts the grace period, goes on with it,
\* or finds it over.
LEMMA DownSeeStopped ==
    ASSUME TypeOK, DownInv, SeeStopped
    PROVE  DownInv'
<1>1. /\ UNCHANGED <<proc, account, flaw, now, missed, downFor>>
      /\ at = "status" /\ proc.pid = NoPid
  BY ProcFields DEF SeeStopped, service, setup, life
<1>2. DownCounts'
  BY <1>1 DEF DownInv, DownCounts
<1>3. DownSince + downFor <= now + 1 + missed /\ DownSince \in Nat
  BY <1>1 DEF DownSince, Lost, DownInv, DownKnown, Watching, TypeOK, Notes
<1>4. DownKnown' /\ DownFor'
  BY <1>1, <1>3, SeeStoppedNotes, Times
   DEF DownInv, DownKnown, DownFor, Watching, TypeOK, Notes
<1> QED
  BY <1>2, <1>4 DEF DownInv

\* A start works, or nothing counts the time down.
LEMMA DownStart ==
    ASSUME TypeOK, Supervising, DownInv, StartService
    PROVE  DownInv'
<1>1. PICK r \in {"started", "refused", "failed"} : Start(r)
  BY StartServiceNotes
<1>2. /\ UNCHANGED <<flaw, now, missed>> /\ at = "start" /\ at' = "judge"
      /\ w'.curPID = w.curPID /\ w'.downSince = w.downSince /\ w'.retryAt = w.retryAt
  BY StartServiceNotes DEF StartService, setup
<1>3. exePath = "v2" /\ (account = "ok" /\ flaw # "broken" => Launches)
  BY <1>2 DEF Supervising, Watching, Launches
<1>4. downFor' = 0
  <2>1. \/ UNCHANGED <<proc, downFor>>
           /\ (proc # NoProc \/ account = "bad" \/ ~Launches)
        \/ downFor' = 0
    BY <1>1, StartDoes, SpawnedFields
  <2>2. CASE proc # NoProc \/ account = "bad" \/ ~Launches
    <3>1. ~(downFor > 0)
      BY <1>3, <2>2 DEF DownInv, DownCounts
    <3> QED
      BY <2>1, <3>1 DEF TypeOK
  <2> QED
    BY <2>1, <2>2
<1>5. DownKnown' /\ DownFor' /\ DownCounts'
  BY <1>2, <1>4, Times DEF DownInv, DownKnown, DownFor, DownCounts, Watching, TypeOK, Notes
<1> QED
  BY <1>5 DEF DownInv

LEMMA DownWatch ==
    ASSUME TypeOK, Supervising, DownInv, Watch
    PROVE  DownInv'
<1>1. CASE StatusFails
  BY <1>1, DownSleep DEF StatusFails, service, setup
<1>2. CASE SeeNew \/ SeeOld
  <2>1. /\ UNCHANGED <<proc, account, flaw, now, missed, downFor>>
        /\ at = "status" /\ proc # NoProc /\ at' \in {"judge", "done"}
        /\ w'.downSince = w.downSince /\ w'.retryAt = w.retryAt
        /\ w'.curPID = proc.pid \/ w'.curPID = w.curPID
    BY <1>2, ProcFields, SeeNewNotes, WatchdogAssumption
     DEF SeeNew, SeeOld, service, setup, life, NoPid
  <2>2. downFor = 0
    BY <2>1 DEF DownInv, DownCounts, TypeOK
  <2> QED
    BY <2>1, <2>2, Times, ProcFields
     DEF DownInv, DownCounts, DownKnown, DownFor, Watching, TypeOK, Notes
<1>3. CASE SeeStopped
  BY <1>3, DownSeeStopped
<1>4. CASE StartService
  BY <1>4, DownStart
<1>5. CASE Judge
  <2>1. CASE Unhealthy
    BY <1>5, <2>1 DEF Judge, service, setup, DownInv, DownCounts, Watching
  <2>2. CASE ~Unhealthy
    BY <1>5, <2>2, DownSleep DEF Judge, service, setup
  <2> QED
    BY <2>1, <2>2
<1> QED
  BY <1>1, <1>2, <1>3, <1>4, <1>5 DEF Watch

LEMMA DownRollback ==
    ASSUME TypeOK, DownInv, Rollback
    PROVE  DownInv'
<1>1. CASE Mark \/ Stop \/ Wait \/ ReleaseAside \/ PreviousBack
  <2>1. UNCHANGED <<downFor, flaw, account>> /\ (proc = NoProc => proc' = NoProc)
    BY <1>1, ProcFields DEF Mark, Stop, Wait, ReleaseAside, PreviousBack, past, setup, life, service
  <2> QED
    BY <2>1, RollbackMoves DEF DownInv, DownCounts
<1>2. CASE StartAgain
  <2>1. \/ UNCHANGED <<downFor, proc, account>>
        \/ downFor' = 0
    BY <1>2, StartDoes, SpawnedFields DEF StartAgain
  <2> QED
    BY <2>1, RollbackMoves DEF DownInv, DownCounts
<1> QED
  BY <1>1, <1>2 DEF Rollback

LEMMA DownStep ==
    TypeOK /\ Supervising /\ Observed /\ DownInv /\ [WatchNext]_watchVars
      => (TypeOK /\ Supervising /\ Observed /\ DownInv)'
<1>1. ASSUME DownInv, UNCHANGED watchVars
      PROVE  DownInv'
  BY <1>1 DEF watchVars, service, setup, dog, life, DownInv, DownCounts, DownKnown, DownFor
<1> QED
  BY <1>1, SuperStep, DownMachine, DownWatch, DownRollback DEF WatchNext

\* While the watchdog supervises, a service that could run is down no longer than
\* the grace period, but for a poll and those that failed.
THEOREM DownCorrect == WatchSpec => []DownIsBounded
<1>1. TypeOK /\ DownInv => DownIsBounded
  BY Times DEF DownInv, DownFor, DownIsBounded, TypeOK, Watching
<1>2. WatchInit => TypeOK /\ Supervising /\ Observed /\ DownInv
  BY TypeInit, SuperInit, DownInit
<1> QED
  BY <1>1, <1>2, DownStep, PTL DEF WatchSpec

-----------------------------------------------------------------------------
(* A good release *)

\* The pid of a process that runs the release, while the watchdog watches.
LEMMA ReleaseIsNew ==
    ASSUME TypeOK, Supervising, at \in Watching
    PROVE  proc.ver = "v2" <=> proc # NoProc /\ proc.pid # OldPID
BY ProcFields DEF Supervising

LEMMA GoodInit == WatchInit => GoodInv
<1> SUFFICES ASSUME WatchInit
             PROVE  GoodInv
  OBVIOUS
<1>1. /\ at = "status" /\ now = 0 /\ missed = 0 /\ upAt = Deadline
      /\ w.curPID = NoPid /\ w.crashes = 0 /\ w.binErrs = 0
      /\ proc.st = "running" /\ verdict = "none"
  BY DEF WatchInit, Never
<1> QED
  BY <1>1, Times DEF GoodInv, NothingCounted, SeenInTime, GoodReleaseStays, Never

\* What a step of the machine does to a release without a flaw: it may come up.
LEMMA GoodMachine ==
    ASSUME TypeOK, Supervising, GoodInv, Machine
    PROVE  GoodInv'
<1>0. /\ UNCHANGED <<flaw, at, now, w, verdict, missed>>
      /\ upAt' = upAt \/ (upAt' = now /\ upAt = Never)
  BY DEF Machine, RecoveryRestart, ComesUp, Dies, Stops, AccountFixed, setup, dog, life
<1>1. GoodReleaseStays'
  BY <1>0, Times DEF GoodInv, GoodReleaseStays, Never, TypeOK
<1>2. ASSUME flaw = "none", at \in Watching
      PROVE  NothingCounted' /\ SeenInTime'
  <2>1. NothingCounted /\ SeenInTime
    BY <1>2 DEF GoodInv
  <2>2. SeenInTime'
    BY <1>0, <2>1, Times DEF SeenInTime, Never, TypeOK, Notes
  <2>3. CASE RecoveryRestart
    BY <1>0, <2>1, <2>2, <2>3, RestartDoes, SpawnedFields DEF NothingCounted
  <2>4. CASE ComesUp
    <3>1. proc \in Process /\ proc # NoProc
      BY <2>4, ProcFields DEF ComesUp
    <3>2. proc' \in Process /\ proc'.pid = proc.pid /\ proc'.ver = proc.ver
          /\ proc'.st = "running" /\ proc' # NoProc
      BY <2>4, <3>1, ProcFields DEF ComesUp, Process, NoProc
    <3>3. upAt' = upAt \/ proc.pid # OldPID
      BY <1>2, <2>4, ReleaseIsNew DEF ComesUp
    <3> QED
      BY <1>0, <2>1, <2>2, <3>1, <3>2, <3>3 DEF NothingCounted
  <2>5. CASE Dies
    <3>1. proc.pid = OldPID /\ upAt' = upAt
      BY <1>2, <2>5 DEF Dies
    <3> QED
      BY <1>0, <2>1, <2>2, <3>1, <2>5, ProcFields DEF Dies, NothingCounted
  <2>6. CASE Stops
    <3>1. proc.st = "stopping" /\ proc # NoProc
      BY <2>6, ProcFields DEF Stops
    <3> QED
      BY <2>1, <3>1 DEF NothingCounted
  <2>7. CASE AccountFixed
    BY <1>0, <2>1, <2>2, <2>7 DEF AccountFixed, NothingCounted
  <2> QED
    BY <2>2, <2>3, <2>4, <2>5, <2>6, <2>7 DEF Machine
<1> QED
  BY <1>0, <1>1, <1>2 DEF GoodInv

\* A tick: at the deadline it is too late for the release to become stable.
LEMMA GoodSleep ==
    ASSUME TypeOK, Supervising, GoodInv, Sleep, UNCHANGED <<proc, flaw, upAt, w>>,
           \/ at = "status" /\ missed' = missed + 1 /\ missed' <= MaxStatusErrors
           \/ at = "judge" /\ missed' = missed
    PROVE  GoodInv'
<1>1. /\ now' = now + 1 /\ now < Deadline
      /\ at' \in Watching => at' = "status" /\ verdict' = verdict
      /\ at' \notin Watching => now + 1 >= Deadline
      /\ verdict = "none" /\ at \in Watching
  BY Times DEF Sleep, Supervising, Watching, TypeOK
<1>2. ASSUME flaw = "none"
      PROVE  /\ NothingCounted'
             /\ now' <= upAt + StableFor + 1 + missed'
             /\ w.curPID # NoPid => w.curSince <= upAt + 1 + missed'
             /\ w.curPID = NoPid => now' <= upAt + 1 + missed'
  <2>1. NothingCounted /\ SeenInTime
    BY <1>1, <1>2 DEF GoodInv
  <2> QED
    BY <1>1, <2>1, Times DEF NothingCounted, SeenInTime, TypeOK, Notes
<1>3. flaw = "none" /\ at' \in Watching => NothingCounted' /\ SeenInTime'
  BY <1>1, <1>2 DEF SeenInTime
<1>4. GoodReleaseStays'
  <2>1. verdict' = "bad" => now' = Deadline
    BY <1>1, Times DEF Sleep, TypeOK, Watching
  <2> QED
    BY <1>1, <1>2, <2>1, Times DEF GoodReleaseStays, TypeOK
<1> QED
  BY <1>3, <1>4 DEF GoodInv

LEMMA GoodWatch ==
    ASSUME TypeOK, Supervising, GoodInv, Watch
    PROVE  GoodInv'
<1>1. CASE StatusFails
  <2>1. missed' <= MaxStatusErrors /\ at = "status" /\ missed' = missed + 1
    BY <1>1, Times DEF StatusFails, TypeOK
  <2> QED
    BY <1>1, <2>1, GoodSleep DEF StatusFails, service, setup
<1>2. CASE SeeNew
  <2>1. /\ UNCHANGED <<proc, flaw, now, upAt, missed>> /\ at = "status"
        /\ proc # NoProc /\ proc.pid # OldPID /\ proc.pid # NoPid
        /\ verdict = "none" /\ now < Deadline
    BY <1>2, ProcFields DEF SeeNew, service, setup, life, Supervising, Watching
  <2>2. GoodReleaseStays'
    BY <1>2, <2>1 DEF SeeNew, GoodReleaseStays
  <2>3. ASSUME flaw = "none", at' = "judge"
        PROVE  NothingCounted' /\ SeenInTime'
    <3>1. NothingCounted /\ SeenInTime
      BY <2>1, <2>3 DEF GoodInv, Watching
    <3>2. ~Lost
      BY <3>1 DEF Lost, NothingCounted
    <3>3. NothingCounted'
      BY <1>2, <2>1, <3>1, <3>2, SeeNewNotes DEF NothingCounted
    <3>4. Since <= upAt + 1 + missed /\ Since \in Nat
      BY <2>1, <3>1, Times DEF Since, SeenInTime, NothingCounted, TypeOK, Notes
    <3>5. now <= upAt + StableFor + missed
      <4>1. CASE upAt = Never
        BY <2>1, <4>1, Times DEF Never, TypeOK
      <4>2. CASE upAt # Never
        <5>1. now - Since < StableFor
          BY <1>2, <2>3, <3>1, <3>4, <4>2, Times DEF SeeNew, NothingCounted, TypeOK
        <5> QED
          BY <3>4, <5>1, Times DEF TypeOK
      <4> QED
        BY <4>1, <4>2
    <3> QED
      BY <1>2, <2>1, <2>3, <3>3, <3>4, <3>5, SeeNewNotes DEF SeenInTime
  <2> QED
    BY <1>2, <2>1, <2>2, <2>3 DEF SeeNew, GoodInv, Watching
<1>3. CASE SeeStopped
  <2>1. /\ UNCHANGED <<proc, flaw, now, upAt, missed, verdict>> /\ at = "status"
        /\ proc = NoProc /\ now < Deadline /\ verdict = "none"
        /\ at' \in {"judge", "start"}
    BY <1>3 DEF SeeStopped, service, setup, life, Supervising, Watching
  <2>2. ASSUME flaw = "none"
        PROVE  NothingCounted' /\ SeenInTime'
    <3>1. NothingCounted
      BY <2>1, <2>2 DEF GoodInv, Watching
    <3>2. ~Lost /\ upAt = Deadline
      BY <2>1, <3>1 DEF Lost, NothingCounted, Never
    <3>3. NothingCounted'
      BY <1>3, <2>1, <3>1, <3>2, SeeStoppedNotes DEF NothingCounted
    <3>4. SeenInTime'
      BY <1>3, <2>1, <3>2, SeeStoppedNotes, Times DEF SeenInTime, TypeOK
    <3> QED
      BY <3>3, <3>4
  <2> QED
    BY <2>1, <2>2 DEF GoodInv, GoodReleaseStays
<1>4. CASE SeeOld
  <2>1. /\ UNCHANGED <<proc, flaw, now, upAt, missed, verdict, w>> /\ at = "status"
        /\ proc.pid = OldPID /\ now < Deadline /\ verdict = "none" /\ at' = "judge"
    BY <1>4 DEF SeeOld, service, setup, life, Supervising, Watching
  <2>2. ASSUME flaw = "none"
        PROVE  NothingCounted' /\ SeenInTime'
    <3>1. NothingCounted /\ SeenInTime
      BY <2>1, <2>2 DEF GoodInv, Watching
    <3>2. upAt = Deadline
      BY <2>1, <3>1 DEF NothingCounted, Never
    <3> QED
      BY <2>1, <3>1, <3>2, Times DEF SeenInTime, NothingCounted, Never, TypeOK
  <2> QED
    BY <2>1, <2>2 DEF GoodInv, GoodReleaseStays
<1>5. CASE StartService
  <2>1. PICK r \in {"started", "refused", "failed"} :
           /\ Start(r)
           /\ w'.binErrs = (IF r = "failed" THEN w.binErrs + 1 ELSE w.binErrs)
    BY <1>5, StartServiceNotes
  <2>2. /\ UNCHANGED <<flaw, now, upAt, missed, verdict>> /\ at = "start" /\ at' = "judge"
        /\ w'.curPID = w.curPID /\ w'.curSince = w.curSince /\ w'.crashes = w.crashes
        /\ exePath = "v2" /\ verdict = "none"
    BY <1>5, <2>1, StartServiceNotes, StartDoes DEF StartService, setup, Supervising, Watching
  <2>3. ASSUME flaw = "none"
        PROVE  NothingCounted' /\ SeenInTime'
    <3>1. NothingCounted /\ SeenInTime
      BY <2>2, <2>3 DEF GoodInv, Watching
    <3>2. r # "failed"
      BY <2>1, <2>2, <2>3, StartDoes DEF Launches
    <3>3. \/ proc' = proc
          \/ proc = NoProc /\ Launches /\ Spawned
      BY <2>1, StartDoes
    <3>4. NothingCounted'
      BY <2>1, <2>2, <3>1, <3>2, <3>3, SpawnedFields DEF NothingCounted
    <3>5. SeenInTime'
      BY <2>2, <3>1 DEF SeenInTime
    <3> QED
      BY <3>4, <3>5
  <2> QED
    BY <2>2, <2>3 DEF GoodInv, GoodReleaseStays
<1>6. CASE Judge
  <2>1. CASE Unhealthy
    <3>1. flaw # "none"
      BY <1>6, <2>1, Times DEF Judge, Unhealthy, GoodInv, NothingCounted, Watching
    <3> QED
      BY <1>6, <3>1 DEF Judge, setup, GoodInv, GoodReleaseStays
  <2>2. CASE ~Unhealthy
    BY <1>6, <2>2, GoodSleep DEF Judge, service, setup
  <2> QED
    BY <2>1, <2>2
<1> QED
  BY <1>1, <1>2, <1>3, <1>4, <1>5, <1>6 DEF Watch

LEMMA GoodStep ==
    TypeOK /\ Supervising /\ Observed /\ GoodInv /\ [WatchNext]_watchVars
      => (TypeOK /\ Supervising /\ Observed /\ GoodInv)'
<1>1. ASSUME GoodInv, Rollback
      PROVE  GoodInv'
  BY <1>1, RollbackMoves DEF GoodInv, GoodReleaseStays
<1>2. ASSUME GoodInv, UNCHANGED watchVars
      PROVE  GoodInv'
  BY <1>2 DEF watchVars, service, setup, dog, life, GoodInv, GoodReleaseStays, NothingCounted,
              SeenInTime
<1> QED
  BY <1>1, <1>2, SuperStep, GoodMachine, GoodWatch DEF WatchNext

\* A release without a flaw is only rolled back at the deadline, and if it came up
\* too late.
THEOREM GoodCorrect == WatchSpec => []GoodReleaseStays
<1>1. GoodInv => GoodReleaseStays
  BY DEF GoodInv
<1>2. WatchInit => TypeOK /\ Supervising /\ Observed /\ GoodInv
  BY TypeInit, SuperInit, GoodInit
<1> QED
  BY <1>1, <1>2, GoodStep, PTL DEF WatchSpec

-----------------------------------------------------------------------------
(* A rollback *)

\* A process of the previous binary goes on: it is not told to stop any more.
LEMMA PreviousStays ==
    ASSUME TypeOK, Previous, Machine
    PROVE  Previous'
<1>1. /\ proc # NoProc /\ proc.ver = "v1" /\ proc.pid # OldPID /\ proc.st # "stopping"
  BY ProcFields, WatchdogAssumption DEF Previous, Process, Version, NoPid
<1>2. CASE RecoveryRestart
  BY <1>1, <1>2, RestartDoes DEF Previous
<1>3. CASE ComesUp
  <2>1. proc' = [proc EXCEPT !.st = "running"]
    BY <1>3 DEF ComesUp
  <2> QED
    BY <2>1 DEF Previous, Process
<1>4. CASE Dies \/ Stops
  BY <1>1, <1>4 DEF Dies, Stops
<1>5. CASE AccountFixed
  BY <1>5 DEF AccountFixed, Previous
<1> QED
  BY <1>2, <1>3, <1>4, <1>5 DEF Machine

LEMMA RollbackMachine ==
    ASSUME TypeOK, RollbackInv, Machine
    PROVE  RollbackInv'
<1>0. UNCHANGED <<at, exePath, stuck, outcome>>
  BY DEF Machine, RecoveryRestart, ComesUp, Dies, Stops, AccountFixed, dog
<1>1. ASSUME proc = NoProc, exePath = "v1"
      PROVE  proc' = NoProc \/ Previous'
  <2>1. CASE RecoveryRestart
    BY <1>1, <2>1, RestartDoes, SpawnedFields DEF Previous
  <2>2. CASE ComesUp \/ Dies \/ Stops \/ AccountFixed
    BY <1>1, <2>2, ProcFields, WatchdogAssumption
     DEF ComesUp, Dies, Stops, AccountFixed, NoPid
  <2> QED
    BY <2>1, <2>2 DEF Machine
<1> QED
  BY <1>0, <1>1, PreviousStays DEF RollbackInv

\* What a successful start gives, once the previous binary is in place.
LEMMA StartsPrevious ==
    ASSUME TypeOK, exePath = "v1", proc = NoProc \/ Previous, Start("started")
    PROVE  Previous'
<1>1. \/ proc' = proc /\ proc # NoProc
      \/ proc = NoProc /\ Launches /\ Spawned
  BY StartDoes
<1>2. CASE proc' = proc /\ proc # NoProc
  BY <1>2 DEF Previous
<1>3. CASE proc = NoProc /\ Launches /\ Spawned
  BY <1>3, SpawnedFields DEF Previous
<1> QED
  BY <1>1, <1>2, <1>3

LEMMA RollbackStep ==
    TypeOK /\ Supervising /\ Observed /\ RollbackInv /\ [WatchNext]_watchVars
      => (TypeOK /\ Supervising /\ Observed /\ RollbackInv)'
<1> SUFFICES ASSUME TypeOK, Supervising, Observed, RollbackInv, [WatchNext]_watchVars
             PROVE  RollbackInv'
  BY SuperStep
<1>1. CASE Machine
  BY <1>1, RollbackMachine
<1>2. CASE Watch
  <2>1. at \in Watching
    BY <1>2 DEF Watch, StatusFails, SeeNew, SeeStopped, SeeOld, StartService, Judge, Watching
  <2>2. at' # "startAgain" /\ outcome' # "rolledBack"
    BY <1>2, <2>1 DEF Watch, StatusFails, SeeNew, SeeStopped, SeeOld, StartService, Judge,
                      Sleep, Supervising
  <2> QED
    BY <2>2 DEF RollbackInv
<1>3. CASE Mark \/ Stop \/ ReleaseAside \/ PreviousBack
  <2>1. at # "done" /\ at' # "startAgain" /\ outcome' = outcome
    BY <1>3 DEF Mark, Stop, ReleaseAside, PreviousBack
  <2> QED
    BY <2>1 DEF RollbackInv
<1>4. CASE Wait
  <2>1. at = "wait" /\ outcome' = outcome /\ UNCHANGED <<proc, exePath>>
    BY <1>4 DEF Wait, service
  <2>2. at' = "startAgain" => exePath = "v1" /\ (stuck' \/ proc = NoProc)
    BY <1>4 DEF Wait
  <2> QED
    BY <2>1, <2>2 DEF RollbackInv
<1>5. CASE StartAgain
  <2>1. PICK r \in {"started", "refused", "failed"} :
           /\ Start(r)
           /\ outcome' = IF at = "startAgain" /\ r = "started" THEN "rolledBack"
                                                               ELSE "gaveUp"
    BY <1>5 DEF StartAgain
  <2>2. at' = "done" /\ UNCHANGED <<exePath, stuck>>
    BY <1>5 DEF StartAgain
  <2>3. outcome' = "rolledBack" /\ ~stuck => Previous'
    BY <2>1, StartsPrevious DEF RollbackInv
  <2> QED
    BY <2>2, <2>3 DEF RollbackInv
<1>6. CASE UNCHANGED watchVars
  BY <1>6 DEF watchVars, service, dog, RollbackInv, Previous
<1> QED
  BY <1>1, <1>2, <1>3, <1>4, <1>5, <1>6 DEF WatchNext, Rollback

\* After a rollback the service runs the previous binary, even if the SCM restarted
\* the release in the middle of it; unless it did not stop.
THEOREM RestoredCorrect == WatchSpec => []RestoredUnlessStuck
<1>1. RollbackInv => RestoredUnlessStuck
  BY DEF RollbackInv, Previous, RestoredUnlessStuck
<1>2. WatchInit => TypeOK /\ Supervising /\ Observed /\ RollbackInv
  BY TypeInit, SuperInit DEF WatchInit, RollbackInv
<1> QED
  BY <1>1, <1>2, RollbackStep, PTL DEF WatchSpec

-----------------------------------------------------------------------------
(* The swap *)

\* The shape of the state, as far as the proofs need it.
Shape == /\ pc \in [Proc -> Control]
         /\ lock \in {NoLock} \cup [owner : Proc, stale : BOOLEAN]
         /\ stolen \in BOOLEAN /\ torn \in BOOLEAN

LEMMA ShapeInit == Init => Shape
BY ZenonT(30) DEF Init, Shape, Control

LEMMA ShapeStep == Shape /\ [Next]_vars => Shape'
<1> SUFFICES ASSUME Shape, [Next]_vars PROVE Shape'
  OBVIOUS
<1> USE DEF Shape, Goto, Control, files, history
<1>1. ASSUME NEW p \in Proc, Check(p) \/ Stat(p) \/ Prepare(p) PROVE Shape'
  BY <1>1 DEF Check, Stat, Prepare
<1>2. ASSUME NEW p \in Proc,
             Reclaim(p) \/ ReleaseInApply(p) \/ ReleaseOnError(p)
               \/ ReleaseOnSuccess(p)
      PROVE  Shape'
  BY <1>2 DEF Reclaim, ReleaseInApply, ReleaseOnError,
              ReleaseOnSuccess, RemoveLock
<1>3. ASSUME NEW p \in Proc,
             ClearOld(p) \/ MoveAside(p) \/ Install(p) \/ Undo(p)
               \/ Spawn(p) \/ BackMove(p) \/ BackInstall(p)
               \/ BackUndo(p) \/ RemoveLeftovers(p)
      PROVE  Shape'
  BY <1>3 DEF ClearOld, MoveAside, Install, Undo, Spawn,
              BackMove, BackInstall, BackUndo, RemoveLeftovers
<1>4. ASSUME NEW p \in Proc, Crash(p) \/ Restart(p) \/ Exit(p) PROVE Shape'
  BY <1>4 DEF Crash, Restart, Exit
<1>5. CASE LockAges
  BY <1>5 DEF LockAges
<1>6. CASE UNCHANGED vars
  BY <1>6 DEF vars
<1>7. ASSUME NEW p \in Proc, Create(p) \/ Retry(p) PROVE Shape'
  <2>1. pc' \in [Proc -> Control] /\ UNCHANGED <<stolen, torn>>
    BY <1>7 DEF Create, Retry, TryCreate
  <2>2. CASE lock' = lock
    BY <2>1, <2>2
  <2>3. CASE lock' = [owner |-> p, stale |-> FALSE]
    BY <2>1, <2>3
  <2> QED
    BY <1>7, <2>2, <2>3 DEF Create, Retry, TryCreate
<1> QED
  BY <1>1, <1>2, <1>3, <1>4, <1>5, <1>6, <1>7 DEF Next, Step

-----------------------------------------------------------------------------
(* The lock *)

\* The inductive invariant: until a live lock is removed, who updates owns it.
OwnerUpdates == ~stolen => \A p \in Updating : lock.owner = p

\* A removal by path leaves no update in progress behind, or it was a theft.
LEMMA RemovalKeeps ==
    ASSUME Shape, OwnerUpdates, NEW p \in Proc, RemoveLock(p),
           Updating' \subseteq Updating \ {p}
    PROVE  OwnerUpdates'
<1> SUFFICES ASSUME ~stolen', NEW q \in Updating' PROVE FALSE
  BY DEF OwnerUpdates
<1>1. ~stolen /\ q \in Updating \ {p} /\ lock.owner = q
  BY DEF RemoveLock, OwnerUpdates, Shape
<1>2. lock # NoLock
  BY <1>1, UpdateAssumption DEF NoLock, Updating
<1> QED
  BY <1>1, <1>2 DEF RemoveLock, Shape

LEMMA OwnerStep == Shape /\ OwnerUpdates /\ [Next]_vars => OwnerUpdates'
<1> SUFFICES ASSUME Shape, OwnerUpdates, [Next]_vars PROVE OwnerUpdates'
  OBVIOUS
<1> USE DEF Goto, files, history
<1>1. ASSUME stolen' = stolen, lock'.owner = lock.owner,
             Updating' \subseteq Updating
      PROVE  OwnerUpdates'
  BY <1>1 DEF OwnerUpdates
<1>2. ASSUME NEW p \in Proc, NEW from \in {"create", "retry"}, NEW otherwise \in {"stat",
             "idle"}, TryCreate(p, from, otherwise)
      PROVE  OwnerUpdates'
  <2>1. CASE lock = NoLock
    <3>1. ~stolen => Updating = {}
      BY <2>1, UpdateAssumption DEF OwnerUpdates, NoLock, Updating
    <3>2. stolen' = stolen /\ lock'.owner = p /\ Updating' \subseteq Updating \cup {p}
      BY <1>2, <2>1 DEF TryCreate, Updating, Shape
    <3> QED
      BY <3>1, <3>2 DEF OwnerUpdates
  <2>2. CASE lock # NoLock
    BY <1>1, <1>2, <2>2 DEF TryCreate, Updating, Shape, Swapping
  <2> QED
    BY <2>1, <2>2
<1>3. ASSUME NEW p \in Proc, Create(p) \/ Retry(p) PROVE OwnerUpdates'
  BY <1>2, <1>3 DEF Create, Retry
<1>4. ASSUME NEW p \in Proc,
             Reclaim(p) \/ ReleaseInApply(p) \/ ReleaseOnError(p)
               \/ ReleaseOnSuccess(p)
      PROVE  OwnerUpdates'
  <2>1. RemoveLock(p)
    BY <1>4 DEF Reclaim, ReleaseInApply, ReleaseOnError,
                ReleaseOnSuccess
  <2>2. Updating' \subseteq Updating \ {p}
    BY <1>4 DEF Reclaim, ReleaseInApply, ReleaseOnError,
                ReleaseOnSuccess, Updating, Swapping, Shape
  <2> QED
    BY <2>1, <2>2, RemovalKeeps
<1>5. ASSUME NEW p \in Proc,
             Prepare(p) \/ ClearOld(p) \/ MoveAside(p)
               \/ Install(p) \/ Undo(p) \/ Spawn(p) \/ BackMove(p)
               \/ BackInstall(p) \/ BackUndo(p)
      PROVE  OwnerUpdates'
  <2>1. p \in Updating /\ \A q \in Proc \ {p} : pc'[q] = pc[q]
    BY <1>5 DEF Prepare, ClearOld, MoveAside, Install, Undo,
                Spawn, BackMove, BackInstall, BackUndo, Updating,
                Swapping, Shape
  <2>2. UNCHANGED <<lock, stolen>>
    BY <1>5 DEF Prepare, ClearOld, MoveAside, Install, Undo,
                Spawn, BackMove, BackInstall, BackUndo
  <2>3. Updating' \subseteq Updating
    BY <2>1 DEF Updating
  <2> QED
    BY <1>1, <2>2, <2>3
<1>6. ASSUME NEW p \in Proc,
             Check(p) \/ Stat(p) \/ Crash(p) \/ Restart(p)
               \/ Exit(p) \/ RemoveLeftovers(p)
      PROVE  OwnerUpdates'
  <2>1. Updating' \subseteq Updating
    BY <1>6 DEF Check, Stat, Crash, Restart, Exit,
                RemoveLeftovers, Updating, Swapping, Shape
  <2> QED
    BY <1>1, <1>6, <2>1 DEF Check, Stat, Crash, Restart, Exit,
                            RemoveLeftovers
<1>7. CASE LockAges
  BY <1>1, <1>7 DEF LockAges, Updating, Shape
<1>8. CASE UNCHANGED vars
  BY <1>1, <1>8 DEF vars, Updating
<1> QED
  BY <1>3, <1>4, <1>5, <1>6, <1>7, <1>8 DEF Next, Step

\* Updates exclude each other until a live lock is removed by path (lock.go,
\* acquireUpdateLock and releaseUpdateLock).
THEOREM ExclusionCorrect == Spec => []ExclusionUntilStolen
<1>1. Init => OwnerUpdates
  BY DEF Init, OwnerUpdates, Updating, Swapping
<1>2. Shape /\ OwnerUpdates => ExclusionUntilStolen
  <2> SUFFICES ASSUME Shape, OwnerUpdates, ~stolen
               PROVE  Cardinality(Updating) <= 1
    BY DEF ExclusionUntilStolen
  <2>1. Updating \subseteq {lock.owner}
    BY DEF OwnerUpdates
  <2>2. /\ IsFiniteSet({lock.owner}) /\ Cardinality({lock.owner}) = 1
    BY FS_Singleton
  <2>3. Cardinality(Updating) <= Cardinality({lock.owner})
    BY <2>1, <2>2, FS_Subset
  <2> QED
    BY <2>2, <2>3
<1> QED
  BY <1>1, <1>2, ShapeInit, ShapeStep, OwnerStep, PTL DEF Spec

-----------------------------------------------------------------------------
(* The binary at exePath *)

\* Who is between two renames, with the file away or about to be.
Between == {p \in Proc : pc[p] \in {"install", "undo", "backInstall", "backUndo"}}

\* exePath is never left without a binary, but by a crash between two renames
\* or an undo that fails as well (swap.go, swapBinary and restorePrevious).
THEOREM InstalledCorrect == Spec => []InstalledUnlessTorn
<1>1. Init => InstalledUnlessTorn
  BY DEF Init, InstalledUnlessTorn
<1>2. Shape /\ InstalledUnlessTorn /\ [Next]_vars => InstalledUnlessTorn'
  <2> SUFFICES ASSUME Shape, InstalledUnlessTorn, [Next]_vars
               PROVE  InstalledUnlessTorn'
    OBVIOUS
  <2> USE DEF Shape, Goto, files, history, InstalledUnlessTorn
  <2>1. ASSUME NEW p \in Proc, MoveAside(p) PROVE InstalledUnlessTorn'
    BY <2>1 DEF MoveAside
  <2>2. ASSUME NEW p \in Proc, Install(p) PROVE InstalledUnlessTorn'
    BY <2>2 DEF Install
  <2>3. ASSUME NEW p \in Proc, Undo(p) PROVE InstalledUnlessTorn'
    BY <2>3 DEF Undo, PutBack
  <2>4. ASSUME NEW p \in Proc, BackMove(p) PROVE InstalledUnlessTorn'
    BY <2>4 DEF BackMove
  <2>5. ASSUME NEW p \in Proc, BackInstall(p) PROVE InstalledUnlessTorn'
    BY <2>5 DEF BackInstall, PutBack
  <2>6. ASSUME NEW p \in Proc, BackUndo(p) PROVE InstalledUnlessTorn'
    BY <2>6 DEF BackUndo
  <2>7. ASSUME NEW p \in Proc, Crash(p) PROVE InstalledUnlessTorn'
    BY <2>7 DEF Crash, Swapping
  <2>8. ASSUME UNCHANGED <<exe, torn>>, Between \subseteq Between'
        PROVE  InstalledUnlessTorn'
    BY <2>8 DEF Between
  <2>9. ASSUME NEW p \in Proc,
               \/ Check(p) \/ Create(p) \/ Retry(p) \/ Stat(p)
                 \/ Reclaim(p) \/ Prepare(p) \/ ClearOld(p)
                 \/ Spawn(p) \/ ReleaseInApply(p) \/ ReleaseOnError(p)
                 \/ ReleaseOnSuccess(p) \/ Exit(p)
                 \/ RemoveLeftovers(p) \/ Restart(p)
        PROVE  InstalledUnlessTorn'
    BY <2>8, <2>9 DEF Check, Create, Retry, TryCreate, Stat,
                      Reclaim, Prepare, ClearOld, Spawn,
                      ReleaseInApply, ReleaseOnError, ReleaseOnSuccess,
                      Exit, RemoveLeftovers, Restart, Between
  <2>10. CASE LockAges \/ UNCHANGED vars
    BY <2>8, <2>10 DEF LockAges, vars, Between
  <2> QED
    BY <2>1, <2>2, <2>3, <2>4, <2>5, <2>6, <2>7, <2>9, <2>10 DEF Next, Step
<1> QED
  BY <1>1, <1>2, ShapeInit, ShapeStep, PTL DEF Spec
=============================================================================
