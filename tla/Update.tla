------------------------------- MODULE Update -------------------------------
(***************************************************************************)
(* One machine's self-update on Windows: the update lock (updater/lock.go),  *)
(* the update cycle around it (updater/updater.go, apply_windows.go) and the *)
(* in-process swap of the binary (updater/swap.go).                          *)
(*                                                                         *)
(* Each element of Proc is a runner process started from the same exePath:   *)
(* the service, one its supervisor restarted, one run by hand.  They share   *)
(* only the file system, and a step is one file-system call, so any two of   *)
(* them interleave between calls.  A release "v2" is newer than the "v1" that *)
(* is installed.  A process may crash anywhere (at most CrashBound times).   *)
(***************************************************************************)
EXTENDS FiniteSets, Naturals

CONSTANTS Proc, CrashBound

ASSUME UpdateAssumption == IsFiniteSet(Proc) /\ "none" \notin Proc /\ CrashBound \in Nat

VARIABLES
    pc,        \* [Proc -> Control]
    ver,       \* [Proc -> Version]: the binary the process runs
    lock,      \* the lock file: NoLock or [owner, stale]
    exe,       \* the file at exePath
    old,       \* the file at exePath.old
    uniq,      \* [Proc -> File]: the file at exePath.old.<pid>
    aside,     \* [Proc -> {"old", "uniq"}]: where swapBinary moved exePath
    crashes,   \* number of crashes so far
    stolen,    \* history: a release or a reclaim removed a live update's lock
    torn       \* history: a crash or a failed undo left exePath without a file

files   == <<exe, old, uniq, aside>>
history == <<crashes, stolen, torn>>
vars    == <<pc, ver, lock, files, history>>

Version == {"v1", "v2"}
File    == Version \cup {"none"}
NoLock  == [owner |-> "none", stale |-> FALSE]

\* create, stat, remove, retry: acquireUpdateLock.  locked: download, verify,
\* smoke test, policy, last look, drain.  clear, move, install, undo:
\* swapBinary.  watch: spawnWatchdog.  back, backMove, backInstall, backUndo:
\* restorePrevious.  abandon: the release in apply after a restore.  fail: the
\* caller's release of an apply that returned an error; again: that release
\* when apply has released already.
Control == {"idle", "create", "stat", "remove", "retry", "locked", "clear",
            "move", "install", "undo", "watch", "back", "backInstall",
            "backUndo", "abandon", "fail", "again", "release", "exit", "dead"}

Swapping == {"clear", "move", "install", "undo", "watch", "back",
             "backInstall", "backUndo"}
\* Between a successful acquireUpdateLock and the first release.
Updating == {p \in Proc : pc[p] \in {"locked", "abandon", "fail", "release"} \cup Swapping}

Goto(p, to) == pc' = [pc EXCEPT ![p] = to]

\* Windows refuses to delete or replace the image of a running process.
InUse(f) == \E p \in Proc : pc[p] # "dead" /\ ver[p] = f

Kept(p)  == IF aside[p] = "old" THEN old ELSE uniq[p]
SetKept(p, f) ==
    IF aside[p] = "old" THEN old' = f /\ UNCHANGED uniq
                        ELSE uniq' = [uniq EXCEPT ![p] = f] /\ UNCHANGED old

\* os.Remove(lockPath): by path, whoever made the file that is there.
RemoveLock(p) ==
    /\ lock' = NoLock
    /\ stolen' = (stolen \/ (lock # NoLock /\ lock.owner \in Updating \ {p}))

-----------------------------------------------------------------------------
Init ==
    /\ pc = [p \in Proc |-> "idle"]
    /\ ver = [p \in Proc |-> "v1"]
    /\ lock = NoLock
    /\ exe = "v1" /\ old = "none" /\ uniq = [p \in Proc |-> "none"]
    /\ aside = [p \in Proc |-> "old"]
    /\ crashes = 0 /\ stolen = FALSE /\ torn = FALSE

\* A check finds the release newer and the gate open.
Check(p) ==
    /\ pc[p] = "idle"
    /\ ver[p] = "v1"
    /\ Goto(p, "create")
    /\ UNCHANGED <<ver, lock, files, history>>

\* Mutant: O_EXCL is forgotten.
Bug_TryCreateShared(p, from, otherwise) ==
    /\ pc[p] = from
    /\ lock' = [owner |-> p, stale |-> FALSE]
    /\ Goto(p, "locked")
    /\ UNCHANGED <<ver, files, history>>

\* tryCreateLock: O_EXCL, so made by exactly one of those who try.
TryCreate(p, from, otherwise) ==
    /\ pc[p] = from
    /\ IF lock = NoLock
       THEN lock' = [owner |-> p, stale |-> FALSE] /\ Goto(p, "locked")
       ELSE UNCHANGED lock /\ Goto(p, otherwise)
    /\ UNCHANGED <<ver, files, history>>

Create(p) == TryCreate(p, "create", "stat")
Retry(p)  == TryCreate(p, "retry", "idle")

\* Mutant: a lock is stale only once it is gone; its age is not looked at.
Bug_StatAgeless(p) ==
    /\ pc[p] = "stat"
    /\ Goto(p, IF lock = NoLock THEN "remove" ELSE "idle")
    /\ UNCHANGED <<ver, lock, files, history>>

\* lockIsStale: too old, or gone since the create failed.
Stat(p) ==
    /\ pc[p] = "stat"
    /\ Goto(p, IF lock = NoLock \/ lock.stale THEN "remove" ELSE "idle")
    /\ UNCHANGED <<ver, lock, files, history>>

\* The reclaim removes whatever is at lockPath now.
Reclaim(p) ==
    /\ pc[p] = "remove"
    /\ RemoveLock(p)
    /\ Goto(p, "retry")
    /\ UNCHANGED <<ver, files, crashes, torn>>

\* Everything before the point of no return: it works out, or the update is
\* given up with nothing touched (an error, or the runner became active).
Prepare(p) ==
    /\ pc[p] = "locked"
    /\ Goto(p, "clear") \/ Goto(p, "fail")
    /\ UNCHANGED <<ver, lock, files, history>>

\* swapBinary: delete a leftover .old.  Where that fails, a unique name, its
\* own leftover deleted if that works.
ClearOld(p) ==
    /\ pc[p] = "clear"
    /\ \/ /\ ~InUse(old)
          /\ old' = "none"
          /\ aside' = [aside EXCEPT ![p] = "old"]
          /\ UNCHANGED uniq
       \/ /\ old # "none"
          /\ aside' = [aside EXCEPT ![p] = "uniq"]
          /\ \/ UNCHANGED uniq
             \/ ~InUse(uniq[p]) /\ uniq' = [uniq EXCEPT ![p] = "none"]
          /\ UNCHANGED old
    /\ Goto(p, "move")
    /\ UNCHANGED <<ver, lock, exe, history>>

\* The first rename; on error nothing has changed.
MoveAside(p) ==
    /\ pc[p] = "move"
    /\ \/ /\ exe # "none"
          /\ ~InUse(Kept(p))
          /\ SetKept(p, exe)
          /\ exe' = "none"
          /\ Goto(p, "install")
          /\ UNCHANGED aside
       \/ Goto(p, "fail") /\ UNCHANGED files
    /\ UNCHANGED <<ver, lock, crashes, stolen, torn>>

\* Mutant: a failed second rename is returned without undoing the first.
Bug_InstallNoUndo(p) ==
    /\ pc[p] = "install"
    /\ \/ ~InUse(exe) /\ exe' = "v2" /\ Goto(p, "watch")
       \/ UNCHANGED exe /\ Goto(p, "fail")
    /\ UNCHANGED <<ver, lock, old, uniq, aside, history>>

\* The second rename, replacing what may be there; any rename can fail.
Install(p) ==
    /\ pc[p] = "install"
    /\ \/ ~InUse(exe) /\ exe' = "v2" /\ Goto(p, "watch")
       \/ UNCHANGED exe /\ Goto(p, "undo")
    /\ UNCHANGED <<ver, lock, old, uniq, aside, history>>

\* A rename of the previous binary back to exePath.
PutBack(p) == ~InUse(exe) /\ exe' = Kept(p) /\ SetKept(p, "none") /\ UNCHANGED aside

Undo(p) ==
    /\ pc[p] = "undo"
    /\ \/ Kept(p) # "none" /\ PutBack(p) /\ UNCHANGED torn
       \/ UNCHANGED files /\ torn' = (torn \/ exe = "none")
    /\ Goto(p, "fail")
    /\ UNCHANGED <<ver, lock, crashes, stolen>>

\* spawnWatchdog runs the previous binary.  If that fails and the restart
\* policy is unverified too, the swap is undone.
Spawn(p) ==
    /\ pc[p] = "watch"
    /\ \/ Kept(p) # "none" /\ Goto(p, "release")
       \/ Goto(p, "release")         \* no watchdog; the SCM policy is good
       \/ Goto(p, "back")
    /\ UNCHANGED <<ver, lock, files, history>>

\* restorePrevious: exePath to .bad.<nanos> ...
BackMove(p) ==
    /\ pc[p] = "back"
    /\ \/ /\ Kept(p) # "none"
          /\ exe # "none"
          /\ exe' = "none"
          /\ Goto(p, "backInstall")
       \/ UNCHANGED exe /\ Goto(p, "abandon")
    /\ UNCHANGED <<ver, lock, old, uniq, aside, history>>

\* ... the previous binary to exePath ...
BackInstall(p) ==
    /\ pc[p] = "backInstall"
    /\ \/ Kept(p) # "none" /\ PutBack(p) /\ Goto(p, "abandon")
       \/ UNCHANGED files /\ Goto(p, "backUndo")
    /\ UNCHANGED <<ver, lock, history>>

\* ... or the bad one back again.
BackUndo(p) ==
    /\ pc[p] = "backUndo"
    /\ \/ exe' = "v2" /\ UNCHANGED torn
       \/ UNCHANGED exe /\ torn' = (torn \/ exe = "none")
    /\ Goto(p, "abandon")
    /\ UNCHANGED <<ver, lock, old, uniq, aside, crashes, stolen>>

\* The abandoned update releases in apply, and its caller releases again.
ReleaseInApply(p) ==
    /\ pc[p] = "abandon"
    /\ RemoveLock(p)
    /\ Goto(p, "again")
    /\ UNCHANGED <<ver, files, crashes, torn>>

ReleaseOnError(p) ==
    /\ pc[p] \in {"fail", "again"}
    /\ RemoveLock(p)
    /\ Goto(p, "idle")
    /\ UNCHANGED <<ver, files, crashes, torn>>

ReleaseOnSuccess(p) ==
    /\ pc[p] = "release"
    /\ RemoveLock(p)
    /\ Goto(p, "exit")
    /\ UNCHANGED <<ver, files, crashes, torn>>

\* os.Exit, with the lock already released.
Exit(p) ==
    /\ pc[p] = "exit"
    /\ Goto(p, "dead")
    /\ UNCHANGED <<ver, lock, files, history>>

\* removeLeftovers, on a timer of its own that does not look at the lock: each
\* file that can be deleted is, one call after the other.
RemoveLeftovers(p) ==
    /\ pc[p] # "dead"
    /\ \/ ~InUse(old) /\ old' = "none" /\ UNCHANGED uniq
       \/ \E q \in Proc : /\ ~InUse(uniq[q])
                          /\ uniq' = [uniq EXCEPT ![q] = "none"]
                          /\ UNCHANGED old
    /\ UNCHANGED <<pc, ver, lock, exe, aside, history>>

\* A process dies where it is: power loss, kill, or the supervisor.
Crash(p) ==
    /\ pc[p] # "dead"
    /\ crashes < CrashBound
    /\ crashes' = crashes + 1
    /\ Goto(p, "dead")
    /\ torn' = (torn \/ (exe = "none" /\ pc[p] \in Swapping))
    /\ UNCHANGED <<ver, lock, files, stolen>>

\* The supervisor starts what is installed now.
Restart(p) ==
    /\ pc[p] = "dead"
    /\ exe # "none"
    /\ ver' = [ver EXCEPT ![p] = exe]
    /\ Goto(p, "idle")
    /\ UNCHANGED <<lock, files, history>>

\* Fifteen minutes pass over a lock file.  An update is over long before
\* (its calls are bounded by timeouts), so its maker is not in it any more.
LockAges ==
    /\ lock # NoLock
    /\ ~lock.stale
    /\ lock.owner \notin Updating
    /\ lock' = [lock EXCEPT !.stale = TRUE]
    /\ UNCHANGED <<pc, ver, files, history>>

Step(p) ==
    \/ Create(p) \/ Retry(p) \/ Stat(p) \/ Reclaim(p) \/ Prepare(p)
    \/ ClearOld(p) \/ MoveAside(p) \/ Install(p) \/ Undo(p) \/ Spawn(p)
    \/ BackMove(p) \/ BackInstall(p) \/ BackUndo(p)
    \/ ReleaseInApply(p) \/ ReleaseOnError(p) \/ ReleaseOnSuccess(p) \/ Exit(p)

Next == \/ \E p \in Proc : Check(p) \/ Step(p) \/ RemoveLeftovers(p) \/ Crash(p) \/ Restart(p)
        \/ LockAges

Spec == Init /\ [][Next]_vars

\* The ticker, the supervisor and the clock go on.
Fairness == /\ \A p \in Proc : WF_vars(Check(p) \/ Step(p)) /\ WF_vars(Restart(p))
            /\ WF_vars(LockAges)

FairSpec == Spec /\ Fairness

-----------------------------------------------------------------------------
(* Correctness *)

\* The lock is only ever lost to a removal by path: until some process has
\* removed the lock file of an update in progress, updates exclude each other.
\* The exception is real and contradicts the code's comments: acquireUpdateLock
\* judges one lock file and removes another, that of a process that has taken the
\* lock since, and then both swap.  lock.go:49 says that the lock "makes that
\* outcome structurally impossible", lock.go:91-94 that "correctness must not
\* depend on which side of this narrow window we land on", and updater.go:198-201
\* that two processes "can never both attempt to swap the same file at once".
ExclusionUntilStolen == ~stolen => Cardinality(Updating) <= 1

\* swapBinary and restorePrevious never leave exePath without a binary, unless
\* the process dies between two renames or an undo fails as well: not even
\* when two of them run at once because the lock was lost.
InstalledUnlessTorn ==
    ~torn =>
        (exe = "none" => \E p \in Proc :
                            pc[p] \in {"install", "undo", "backInstall", "backUndo"})

\* A lock left behind by a crash does not block updates for ever: while some
\* process still wants the release, the file goes.
OrphanedLockGoes ==
    (lock # NoLock /\ lock.owner \notin Updating)
        ~> (lock = NoLock \/ lock.owner \in Updating \/ exe # "v1")
=============================================================================
