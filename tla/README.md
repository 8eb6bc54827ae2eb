# Verification of the Vectrify agent runner

TLA+ models of the runner, the TLC runs that check them, and TLAPS proofs of
their safety properties. The reference is the Go source under `src/`; `PROJECT.json` maps each
definition to the lines it models, each hazard to its line and each property to
the run that checks it. Paths below are relative to `src/`.

## 1. The system

One daemon per machine. It keeps one outbound WebSocket to the server, gets
command frames, runs each in a goroutine and sends the result back. It also keeps
detached background processes and browser sessions, and it replaces its own
binary when a release appears.

| Part | State it keeps | Operations | Talks to |
|---|---|---|---|
| Dispatch and in-flight registry (`client/inflight.go`, `client/classify.go`, `dispatchOne` and the receive loop in `client/ws_client.go`) | entries by cmd_id with class and refCount, the wake-up channel, `pendingWaiters`, `lastActive` | reserve a place in the queue, acquire a slot, wait, give up, run the handler, remove | receive loop spawns it; calls the runner's handlers; read by the updater |
| Idle detection and drain (`Activity`, `Drain`) | none of its own | two reads under two mutexes, polled | called from the updater's goroutine (`main.go:134-145`) |
| WebSocket connection (`client/ws_client.go`) | the socket, `writeCh`, backoff | connect, register, read loop, writer goroutine, keepalive, reconnect | server; dispatch |
| Background processes (`executor/process.go`, `proc_*.go`) | `processes` by id, the process trees, `shuttingDown` | Start, Stop, List, Logs, reaper tick, Shutdown, exit watcher | dispatch handlers; operating system; `main` at exit |
| Self-update (`updater/`) | lock file, `exePath`, `exePath.old*`, bad-version file, deferral clock | check, lock, download, gate, swap, spawn watchdog, exit | GitHub; file system; client (idle); service supervisor |
| Watchdog (`updater/watchdog*.go`) | counters of crashes and start errors, current PID | poll the service, restart it, roll back, give up | service supervisor; file system |
| Shell commands (`executor/shell.go`) | per call: process tree, output pipes, timers | run, stream, time out, kill | dispatch handler; operating system |
| Browser sessions (`executor/browser.go`) | sessions, driver, `busyMu` per session | launch, act, close, idle reaper, install, Shutdown | dispatch handlers; Playwright |
| Files (`executor/file_ops.go`, `file_transfer.go`) | one mutex per path | read, edit, write, delete, transfer | dispatch handlers |
| Configuration (`config/config.go`) | limits, `config.yaml` | load and clamp, rotate the key | everything |
| Log file, service glue, installers | – | rotation, SCM calls, setup | supervisor |

What is hard about it, part by part, and what makes the part correct:

- **Dispatch.** Goroutines race for slots under one mutex and sleep on a channel
  that `remove()` closes after the unlock; a waiter may time out just then; one
  cmd_id may be delivered twice, with another type the second time; a handler may
  panic. Correct means: the limits hold, duplicates included; a unit is returned
  exactly once; no wake-up is lost; no one waits longer than the timeout; light
  commands are kept out only by light ones; the queue counter is exact.
- **Idle and drain.** The answer is put together from reads under different locks
  while commands move from one counter to the other. Correct means: what ran when
  the question was asked has ended when the answer is "quiet".
- **Background processes.** The limit is checked before the launch, the entry made
  after it, and kills happen outside the lock. Correct means: no live tree is
  lost, a refused Start leaves nothing running, the pool passes its limit by a
  known amount only, entries do not stay for ever.
- **Self-update.** Several processes of one installation, crashes between two file
  operations, a lock file that goes stale. Correct means: one update at a time, a
  binary at `exePath`, an abandoned lock that goes.
- **Connection.** Each direction of a socket may fail or fall silent on its own,
  answers outlive the connection their command came by, the channel to the writer
  is bounded and the receive loop itself sends on it. Correct means: no one is
  stuck in `send()`, a dead connection is left, one writer at a time, an answer
  goes where its command came from or nowhere.
- **Watchdog.** It polls a service that crashes and restarts between its polls,
  beside a service manager that acts on its own, through an account that may be
  refused. Correct means: healthy only after one process has lasted, no rollback
  for the environment's faults, no long downtime, the previous binary running at
  the end of a rollback.
- **Shell.** A deadline, the exit of the leader, the end of two pipes and a grace
  timer race each other, and a process that `tree.kill()` does not reach may hold
  the pipes for ever. Correct means: every command is answered, with all its output
  unless the answer says otherwise, and no leader is killed without a reason.
- **Browser.** One installation for all, sessions found or made under one lock and
  used under another, a reaper that looks first and locks later, a Shutdown beside
  all of it. Correct means: an action keeps its page, every open context is
  somebody's to close, Shutdown leaves no Chromium, every command returns.
- **Files.** Operations hold a mutex for their path, transfers do not. Correct
  means: no operation sees or overwrites what another one is still writing.
- **Unix update.** The process starts a script that outlives it, asks its supervisor
  to stop it, and may be restarted or killed at any point. Correct means: running
  commands are interrupted only by an update that has been put off long enough, one
  party at a time swaps, and the service comes back.

## 2. The modules

| Module | Models | Extends or uses |
|---|---|---|
| `SlotPool` | what dispatch promises: slots, heavy slots, waiting, refusal | – |
| `Dispatch` | receive loop hand-off, `acquire`, `remove`, `dispatchOne`, queue cap | implements `SlotPool` |
| `DispatchProofs` | theorems about `Dispatch` and `Quiesce` | `Quiesce` |
| `Quiesce` | `Activity()` and `Drain()`, step by step, beside `Dispatch` | `Dispatch` |
| `ProcessPool` | `ProcessManager`, its trees, reaper, Shutdown, exit | – |
| `ProcessPoolProofs` | theorems about `ProcessPool` | `ProcessPool` |
| `Connection` | dial, registration, receive loop, `send`, writer, keepalive, reconnect | – |
| `ConnectionProofs` | theorems about `Connection` | `Connection` |
| `Update` | update lock, apply, swap, restore, leftovers, on Windows | – |
| `Watchdog` | supervision of a release and rollback, beside a service manager | – |
| `WindowsUpdateProofs` | theorems about `Update` and `Watchdog` | `Update`, `Watchdog` |
| `Browser` | installation, sessions, actions, reaper and Shutdown of the browser | – |
| `BrowserProofs` | theorems about `Browser` | `Browser` |
| `Shell` | `Shell.Run` or `RunGit` beside the command it runs | – |
| `ShellProofs` | theorems about `Shell` | `Shell` |
| `Files` | file operations and transfers on one path | – |
| `FilesProofs` | theorems about `Files` | `Files` |
| `UnixUpdate` | idle gate, apply, script and supervisor on Linux and macOS | – |
| `UnixUpdateProofs` | theorems about `UnixUpdate` | `UnixUpdate` |
| `MC*` | the finite instances | their module |

### Dispatch

Each element of `Cmd` is one frame and the goroutine that serves it; `pc` says
where that goroutine is. A step is one critical section of the registry's mutex or
of `pendingMu`, one channel operation, one reading of the clock, one atomic store or
one handler call.

| Action | Code |
|---|---|
| `Receive` | receive loop: a frame is read, and its `touch()` reads the clock |
| `StoreLastActive` | the second half of any `touch()`: the atomic store |
| `Reserve` | receive loop: `tryReserveWaiter()`, spawn or answer busy |
| `Acquire`, `Block` | one pass of `acquire()` under the lock, check passed or failed |
| `Wake`, `GiveUp` | the two cases of its `select` |
| `ReleaseWaiter` | `releaseWaiterOnce()` after `acquire()` |
| `SendBusy` | the busy answer of a refused command; its deferred `touch()` reads the clock |
| `Return` | the handler returns or panics and is recovered |
| `Remove`, `CloseWake` | `remove()` under the lock; `close(oldWake)` after it |
| `ReadClock` | the deferred `touch()`, which runs after `remove()`, reads the clock |

Channels are numbered: `waitCh` is the current one, `chan[g]` the one goroutine g
captured (or is about to close), `closed` the closed ones. Instants are kept by what
they predate: `stamp[g]` is the set of commands that ended after the instant g has read
inside `touch()`, `endsSinceTouch` those that ended after the one in `lastActive`. Ids and types of a frame
are chosen freely when it arrives, so any reuse of a cmd_id under another type is
covered. Left out: the staleness monitor, which only logs, and the content of
messages.

`SlotPool` is the promise a caller relies on, without lock, channel, reference
count or timer. `Dispatch` maps to it by `status` (waiting, held, ended, refused)
and `account` (the class a holder is accounted in); a slot is given back in
`Remove`.

### Quiesce

A separate caller makes one call at a time: `Begin`, then a read of the count, a
read of the waiters, and for `Activity` a read of `lastActive`; `Drain` sleeps and
polls until its deadline. `held`, `queued` and `missed` are history variables;
`missed` holds the commands that ended after the `lastActive` the call has read, and
`overtaken` those that had stored their end when another goroutine stored an older
reading over it. The
two readers only read, so `Dispatch` runs unchanged beside them.

### Connection

`loop` is where `RunForever` is, in `connect` or between two calls of it. `rd` and
`wr` are what reads and writes on the current socket do: work, give an error, or
give nothing (`silent`, `stuck`). `Fault` changes them, each direction by itself;
`CloseConn` is the close half a second after an `update_key`.

| Action | Code |
|---|---|
| `Dial`, `Ack` | dial and registration; the answer to it, read without a deadline |
| `Receive` | a frame is read and handed to a goroutine, or refused by the loop itself |
| `Answer`, `Send` | a goroutine has its answer; the `select` of `send` |
| `ReadFails`, `Leave` | the read error or deadline; `close(stopWriter)`, `<-writerDone`, `conn.Close()` |
| `Backoff` | the sleep of `RunForever` |
| `Pick`, `Write` | the writer's `select`; one write, which works, fails or meets its deadline |

A deadline is a step that is possible once its cause is there: a read deadline when
the peer is silent, or when it no longer gets the pings it would answer; a write
deadline when a write does not go through. Each frame is answered by one message;
progress messages and the length of the backoff are left out, and a panic in
`connect` is one more way for `Dial` or `Ack` to fail.

### ProcessPool

Each element of `Call` is a Start call and the tree it may launch: a leader, and
for `Forking` calls descendants in the same process group. Start holds the lock twice
(`Begin`, `Register`); between the two it launches its process (`Launch`), after them
it kills it if it has lost its id (`RefuseKill`) or answers (`Settle`). `Stop`,
`Reap` and `Shutdown` each take entries out of the pool under the lock and kill in
later steps (`StopKill`, `ReapKill`, `ShutdownKill`), from the sets `toStop`,
`toReap`, `toShut`. `WaitReturns` is the exit watcher. `ExitRunner` ends every
goroutine; the trees live on, as process groups do. On Windows a job object ends
them with the runner (`proc_windows.go`), so orphans are a Unix matter. Ages
are not kept: any set of entries may be the overdue one. Process numbers
and logs are left out. So is a tree without a tracker: `newProcTree` of
`proc_other.go` cannot fail. On Windows it can, and then the nil pointer in the
interface makes `tree != nil` true, so that neither the tree nor its leader is ever
killed.

### Update

Each element of `Proc` is a runner process that shares `exePath` and the lock file.
A step is one file-system call. `Check` to `Reclaim` are the version check and
`acquireUpdateLock`; `Prepare` everything up to the point of no return (download,
checks, last idle look, drain), which succeeds or fails; `ClearOld` to `Undo`
`swapBinary`; `Spawn` the watchdog or the lack of one; `BackMove` to `BackUndo`
`restorePrevious`; then the releases and the exit. `RemoveLeftovers` runs on its
own timer. `Crash`, `Restart`, `LockAges` and `InUse` (a running image cannot be
deleted or replaced) are the environment. Any rename may fail. The release
`v2` is good; what the watchdog does later is the next module.

### Watchdog

One step of time is one sleep of the watchdog's loop; between two of them the
service and the service manager (SCM) take any number of steps. Each call into the
SCM is a step of its own, so a Status may be stale when Start or Stop is called.

| Action | Code |
|---|---|
| `StatusFails`, `SeeNew`, `SeeStopped`, `SeeOld` | one `Status()` and the branch of the `switch` it takes |
| `StartService` | the watchdog's own `Start`, and whom a failure is charged to |
| `Judge`, `Sleep` | the two limits; the sleep, the deadline and what it means |
| `Mark`, `Stop`, `Wait` | `markBad`, and `stopAndWait` before and after the swap |
| `ReleaseAside`, `PreviousBack` | the renames of `restorePrevious`, which may fail |
| `StartAgain` | the last `Start`, after a rollback or a failed one |

The rest is the environment: a process comes up, dies (`v2` only if it is flawed,
the old process at its exit), obeys a Stop, is restarted by the SCM if its recovery
policy says so; an administrator repairs the account. The previous binary works. A
process that is still starting does not take a Stop, and one that runs, starts or
stops counts as started, which is what the SCM answers and `Controller.Start`
accepts. PIDs are not given again within one supervision. `age`, `downFor`, `upAt`,
`deaths`, `missed`, `verdict` and `stuck` are history variables.

### Browser

Each element of `Call` is the goroutine of one `browser` command; `pc` names the
section it is in, `ask` what it asks for, `session` what it works on, `on` whose
install it waits for, and `again` holds those in `EnsureInstalled` for the second
time. A Chromium is named for the call that launched it, a context for
the call that made it.

| Action | Code |
|---|---|
| `Ensure`, `Awake`, `Launch`, `LaunchFails`, `Publish`, `Settle` | `EnsureInstalled`, `doInstallAndStart` and `finishStart`, section by section; a waiter on `attempt.done` |
| `Lookup`, `Create` | the two sections of `getOrCreateSession`, with the second `EnsureInstalled` in between |
| `Acquire`, `ActEnds` | `acquire`, and the return of a page call with its `release` |
| `Remove`, `Drain`, `Close` | `closeSession` |
| `Tick`, `Look`, `TryReap`, `Looked`, `ReapClose` | `reapOnce`: the age of a session is one read, `TryLock` the next step |
| `Shutdown`, `ShutLock`, `ShutClose`, `ShutBrowser`, `Exit` | `Shutdown`, its sessions one by one, the browser, the end of the process |

A call of `NewContext` on a nil browser panics (`panicked`); that needs Shutdown in
between. Ages are one bit, `fresh`; since the idle timeout is minutes long, `Idle`
waits for goroutines that could already lock the session. A page call may fail in
any way. Left out: `allow_shell = false`, which refuses the command first, and a
Chromium that dies by itself (`m.browser` stays set then, and every later
`NewContext` fails until the runner is restarted).

### Shell

`proc` is a leader, a child in its process group, and an escapee that `tree.kill()`
does not reach. They fork, write, close or hand on the two pipes and end, all as
they please. `reader` is the two `streamPipe` goroutines, `out` and `chunks` the two
channels, `run` where `Run` is in its `select` loop and after it, `cmdDone`,
`deadline` and `grace` what it waits for. A send to `chunks` is a step of its own
(`SendChunk`), which blocks when the handler is behind. The k-th chunk of a stream
is the pair of the stream and k. `Return` stands for the deferred calls. In `git`
mode the same pipes are read by the goroutines of `os/exec` and `GitReturns` needs
both at their end. A read whose end has been closed may fail at once, as on Unix, or
go on, as on Windows: `ReadFails` is possible and never required.

### Files

Each element of `Op` is one command; all are about one path. The path names an
inode or none, and an inode is whole (the text of a base command and the edits
made to it) or torn (between the truncation and the write of `os.WriteFile`, or
after a write that failed). A transfer renames a new inode into place, so a writer
may go on in one that has lost its name. Locks are per cleaned path: two names of
one file (a symbolic link, another case) have two, which is left out, as are
directories.

### UnixUpdate

| Action | Code |
|---|---|
| `Tick`, `CheckFails`, `NothingPending` | the ticker; the ends of `checkAndApply` before the gate |
| `Proceed`, `ApplyNow`, `Defer` | the three answers of `gate.evaluate` |
| `Lock`, `PrepareFails`, `LastLook`, `Drained`, `ScriptFails`, `Launch` | `acquireUpdateLock` and `apply` in order |
| `ForceStop`, `Swap`, `Unlock`, `Start` | the lines of the script, each of which may fail and does not stop the next; a start that fails is the last line, and leaves a stopped unit stopped |
| `Stopped`, `Fallback`, `Crash` | a SIGTERM by the supervisor, `os.Exit` after the fallback, anything else |
| `Restart`, `LockAges` | `Restart=always` or `KeepAlive`; a lock older than `staleLockAge` |

`flight` tells commands that were there at the last look from those that came after
it. An end of the process may or may not take the script with it (`Kills`), because
the unit that `install.sh` writes leaves systemd's default, and `Launch` may find
its stop refused, because it runs as a user who may not stop it. Of time only ages
are kept, each up to the limit it is compared with. `checked`, `activeFor`,
`killed` and `startFailed` are history variables.

## 3. What TLC checks

`Dispatch.cfg` and its siblings give the constants. Deadlock is not checked in any
run, since each system really stops: every frame answered, every call made, every
process up to date.

| Run | Result | What it shows |
|---|---|---|
| `dispatch` | holds | types and queue cap; `RegistryExact`, `SlotsBounded`, `HeavyBounded`, `PendingExact`, `NoLostWakeup`; refinement of `SlotPool`; `WaitIsBounded` and `EverythingIsReturned` |
| `quiesce` | holds | what held a slot when the call began is over when Drain or Activity answers quiet; the `lastActive` of an idle answer predates only commands that are just ending and those an older reading was stored over; Drain always returns |
| `connection` | holds | `AnswersInPlace`; no one stuck in `send()`, a dead connection is left once registered, every answer arrives if the connection lasts |
| `processes` | holds | `OvershootBounded`; every live tree is in the pool or somebody's to kill, but for what a leader that exited left behind (`NoLostTree`); every entry leaves the pool |
| `update` | holds | exclusion until a lock is removed by path, a binary at `exePath` unless a crash or a double failure tears the swap, an orphaned lock goes |
| `watchdog` | holds | healthy means one process that lasted, a good release is only rolled back when it came up too late, downtime is bounded, the previous binary runs after a rollback unless a Stop did not work |
| `browser` | holds | no action loses its page but to a Shutdown that races a close of the same session; open contexts are accounted for and the map respects the limit; only a start that Shutdown met leaves a Chromium; a command without an answer needs a Shutdown; everyone returns |
| `shell` | holds | a shell command is always answered, a git command once its pipes are free; the answer comes after all output unless Run gave up on the pipes; a leader is killed at its deadline or after closing its outputs itself |
| `files` | holds | an edit overwrites what it has read, or loses to, or replaces, a download renamed in between; no view or edit sees a write in progress |
| `unix_update` | holds | what was running at the last look is interrupted only by an update put off for `maxDeferral`; activity alone does not put one off for ever; one party swaps; the service comes back unless its script is killed or cannot start it |
| `drain_waiters` | violated | Drain misses a waiter admitted between its two reads |
| `unix_detached` | violated | the stop of the service kills the script that was to start it again |

The violated ones state what a comment of the code says, quoted with its line in
`findings`.

Some of what holds has an exception written into it, and the exceptions are
reachable; a reader of the code should know them. The first six contradict what the
code or its documentation says, and have no run of their own because the property
that a passing run checks, with its exception, already says what happens instead:

- A heavy-typed duplicate that joins a light entry runs without a heavy slot, so more
  than `max_heavy_concurrency` heavy commands can be at work: `HeavyBounded` is about
  the class an entry is accounted in (`client/inflight.go:159-170`). The comment at
  `client/inflight.go:147-156` has it that the rule prevents just that ("a "shell"
  duplicate of an existing light entry would run heavy work without ever consuming a
  heavy slot"), and `README.md:119` calls the limit the sub-limit for heavy commands.
- A `touch()` that is held up between reading the clock and storing it stores an
  instant that is no longer the newest, and `lastActive` goes back past the end of a
  command; and until its own `touch()` has stored, an end is not recorded at all:
  `overtaken` and `Ending` in `IdleLagsByEnding` (`client/ws_client.go:556`).
  `client/ws_client.go:431-433` says that the quiet period is measured "from the END
  of the last command".
- A tree being launched or refused, or taken out and not killed yet, when Shutdown
  empties the pool may outlive the runner, and so may what is left of a tree whose
  leader has exited once the reaper has dropped its entry: the disjuncts of
  `NoLostTree` (`executor/process.go:256`, 337, 463). `executor/process.go:479-483`
  says that "no detached process is left running as a true orphan after the runner
  process itself exits", and `config/config.go:122-123` that the maximum age keeps a
  forgotten start from holding "a real OS process open forever".
- Concurrent Starts pass `max_background_processes` by up to their number less one:
  `OvershootBounded`. `config/config.go:219-222` and `README.md:126` promise the plain
  limit.
- Between judging the update lock stale, or gone, and removing it by path the lock
  may have changed hands, and then two processes swap at once: `stolen` in
  `ExclusionUntilStolen` (`updater/lock.go:80-83`). `updater/lock.go:49` says that the
  lock "makes that outcome structurally impossible", `updater/lock.go:91-94` that
  "correctness must not depend on which side of this narrow window we land on", and
  `updater/updater.go:198-201` that two processes "can never both attempt to swap the
  same file at once".
- A browser start that Shutdown meets leaves its Chromium: `late` in `LeftIsLate`
  (`executor/browser.go:302-305`). `executor/browser.go:417-419` says that "no Chromium
  process is left running after the runner process exits".

Others are limits of the design:

- A process of the old version that gets the lock after another's update installs
  the release again and keeps the release as "previous binary"
  (`updater/updater.go:167`, before the lock at 202).
- A script whose `systemctl start` or `launchctl load` fails leaves the service down:
  `startFailed` in `ServiceComesBack` (`updater/apply_other.go:101`, 105, 124).
- The SCM may restart the release during the swap back; while it starts it does not
  take the Stop, and the final Start counts it as running: `stuck` in
  `RestoredUnlessStuck` (`updater/watchdog.go:234-236`).
- A browser session that a close command waits for is no longer in the map Shutdown
  takes, and its action is cut off: `ActionsUndisturbed`.
- A shell command that closes both its outputs is killed when they end, long
  before its deadline: `KilledForCause` (`executor/shell.go:348-353`, 187).
- `RunGit` has no bound of its own on whoever holds its pipes: the hypothesis in the
  second half of `Answered` (`executor/shell.go:532`).
- Uploads take no lock and do not compare sizes when the first look saw an empty
  file, so they may send what a write has left so far; `Send` models it and no
  property forbids it.
- The deferral clock starts again whenever the gate finds the runner idle, also if
  the last look then says no. Two such checks in turn put an update off for longer
  than `maxDeferral`: `PostponementEnds` says that some check comes to something
  else than "busy", and no more.

Two more divergences have no run. `updater/watchdog.go:15-17` speaks of
the new binary as the watchdog, while `spawnWatchdog` starts the previous one
(`watchdog_windows.go:43-63`). `RunForever` says that it reconnects until the
process is stopped (`client/ws_client.go:192`), but the registration's answer is
read before any deadline is set (line 268), so a server that accepts and stays
silent stops it; `DeadLinkIsLeft` is about registered connections for that reason.

Bounds, and why they are enough for what is asked:

- `dispatch`: three frames, two ids, two types (one per class), two slots, one
  heavy slot, two places in the queue. Three frames are the fewest in which one
  waits for another's slot while the queue is full behind it; two ids give a
  duplicate beside an unrelated command; the types matter only through
  `classifyCommand`. Frames and ids are interchangeable, and because liveness is
  checked the symmetry is cut by hand (`InOrder`). The theorems below drop these
  bounds.
- `quiesce`, `drain_waiters`: two frames, one id, one slot. One holds, one waits; that is every
  relation a frame can have to the two reads. One id makes duplicates as likely as
  they can be.
- `connection`: two connections, so that an answer may outlive its own; two frames,
  one of them an `update_key`; a channel of one place instead of 64, so that one
  answer fills it and the receive loop's refusal waits behind it.
- `processes`: three Starts, at most two at once (`MaxStarts`, the dispatch slots
  that Start calls occupy), three ids, a limit of one. Two concurrent Starts are
  what passes the limit; the third finds it passed. One call forks, so trees with
  and without descendants meet. Calls and ids are interchangeable, and because a
  liveness property is checked the symmetry is cut by hand (`InOrder`), not by
  TLC's SYMMETRY.
- `update`: two processes and `CrashBound` = 2 crashes, so that a crash, and a
  crash of its restarted successor, both happen in the middle of the other's
  update. Two processes are enough for each pair of conflicting file operations.
- `watchdog`: two new PIDs, since only the watched process and its
  successor are told apart (PIDs are symmetric, and no liveness is checked). Grace
  2, retry 1, stable 3, deadline 8, stop wait 1 ticks: the order of the code's 20,
  15, 45, 240 and 30 seconds, except that a stop wait is over before a grace period
  here, which only makes the wait run out more often. Two crashes and two errors
  are the limits (three in the code), three deaths of the release pass them, and
  one Status call may fail. The deadline is far enough for a crash, a grace period
  and a stable successor.
- `browser`: three commands, two ids, room for one session. One acts on the first
  session, one acts there too or launches the second, one closes the first: two
  users of a session, a closer, a session too many, the reaper and Shutdown can all
  meet. Three is also the fewest for two to wait on the install of a third.
- `shell`: two chunks on one stream through channels of one place, none on the
  other, so both channels fill up and a reader blocks; one child, one escapee. Each
  timer fires once.
- `files`: three commands of any kind on one path, which may exist or not: the
  command that writes, one that reads it, and a transfer that changes what the path
  names between the two.
- `unix_update`, `unix_detached`: a check every 2 ticks, an idle window of 2, a
  deferral of at most 5: more than two checks fit in a deferral, and the limit is
  not a multiple of the interval. Commands that come are not counted apart, since
  only whether there are any matters. There is no bound on crashes, updates or time:
  the ages stop at their limits and the state space is finite by itself.

Fairness, and why the code justifies it:

- `Dispatch`: weak fairness for each goroutine's own steps (Go schedules runnable
  goroutines; a context's timer fires). None for handlers or the server, except
  inside `EverythingIsReturned`, whose hypothesis is that handlers return. So
  `WaitIsBounded` holds with every slot held for ever.
- `Quiesce`: the caller's goroutine runs and its deadline comes.
- `Connection`: the receive loop and each `send` go on when they can, a write ends at
  its deadline at the latest, a dial ends. The writer's `select` picks at random
  among ready cases, so a case that is ready again and again is taken one day
  (strong fairness for the message and for `stopWriter`). Nothing is assumed of the
  server or of handlers.
- `Watchdog`: none; all its properties are safety, `downFor` against the clock
  included.
- `ProcessPool`: goroutines run, and as time passes an entry that stays becomes
  overdue at some reaper tick, as long as the runner is not shutting down (Shutdown
  stops the reaper). Nobody need stop a process and none need exit.
- `Update`: the check's ticker, the update goroutine, the supervisor's restart and
  the clock. Crashes are never assumed.
- `Browser`: every goroutine goes on; a lock that is free again and again is obtained
  (Go's mutex hands over to a waiter after a millisecond). Installs, page calls and
  Close end. For a script given to `evaluate` that is the caller's promise: without
  a timeout of its own a hung page keeps `busyMu`, and with it Shutdown, which also
  comes before the Shutdown of background processes (`runner/runner.go:63-66`).
- `Shell`: Run, the readers, the handler and the timers go on, and a killed leader
  is reaped. Nothing is assumed of the command, or of whoever holds its pipes.
- `UnixUpdate`: the clock, the updater, the script and the supervisor go on.
  Commands need not end, and crashes are never assumed.
- `Files`: none, its properties are safety.

## 4. What is proved

Every safety invariant and every safety action property that a passing run checks
is a theorem, for all values of the constants, and so is the refinement of `SlotPool`.

| Module | Theorem | Says |
|---|---|---|
| `DispatchProofs` | `TypeCorrect` | `Spec => []TypeOK` |
| | `PendingCorrect` | `Spec => []PendingExact` |
| | `RegistryCorrect` | `Spec => []RegistryExact` |
| | `SlotsCorrect` | `Spec => []SlotsBounded` |
| | `HeavyCorrect` | `Spec => []HeavyBounded` |
| | `WakeCorrect` | `Spec => []NoLostWakeup` |
| | `ImplementsCorrect` | `Spec => ImplementsPool`, the specification of `SlotPool` |
| | `QuietCorrect` | `QSpec => []QuietCoversHolders` |
| | `IdleLagsCorrect` | `QSpec => IdleLagsByEnding` |
| `ProcessPoolProofs` | `OvershootCorrect` | `Spec => []OvershootBounded` |
| | `ReachCorrect` | `Spec => []NoLostTree` |
| `BrowserProofs` | `LeftIsLateCorrect` | `Spec => []LeftIsLate` |
| | `SilentCorrect` | `Spec => []SilentAtShutdown` |
| | `ContextsCorrect` | `Spec => []ContextsAccounted` |
| | `ActionsCorrect` | `Spec => ActionsUndisturbed` |
| `ConnectionProofs` | `AnswersCorrect` | `Spec => []AnswersInPlace` |
| `ShellProofs` | `KilledCorrect` | `Spec => []KilledForCause` |
| | `OutputCorrect` | `Spec => []OutputComplete` |
| `FilesProofs` | `EditCorrect` | `Spec => EditIsAtomic` |
| | `ViewCorrect` | `Spec => []InFlightUnseen` |
| `UnixUpdateProofs` | `SwapCorrect` | `Spec => []SwapAlone` |
| | `InterruptCorrect` | `Spec => []InterruptsOnlyWhenDue` |
| `WindowsUpdateProofs` | `ExclusionCorrect` | `Spec => []ExclusionUntilStolen` |
| | `InstalledCorrect` | `Spec => []InstalledUnlessTorn` |
| | `HealthyCorrect` | `WatchSpec => HealthyMeansUp` |
| | `DownCorrect` | `WatchSpec => []DownIsBounded` |
| | `GoodCorrect` | `WatchSpec => []GoodReleaseStays` |
| | `RestoredCorrect` | `WatchSpec => []RestoredUnlessStuck` |

What is assumed of the constants is the named `ASSUME` of each module, which TLC
evaluates in its run:

- `Dispatch`: `Cmd` and `Id` are finite, the types are those of `Runner.Dispatch`,
  and the limits are what `applyDefaults` leaves (`LimitsOK`).
- `ProcessPool`, `Browser`: finitely many calls; limits above zero; in `Browser` the
  names for nobody, the reaper and a closer are no calls.
- `Connection`, `Shell`, `UnixUpdate`: capacities, connections, intervals and limits
  above zero; any amount of output. `Files`: finitely many commands.
- `Update`: finitely many processes, none of them named "none".
- `Watchdog`: PIDs other than the old one; the times and limits are numbers, and
  `StartRetry <= RestartGrace`, as 15 s and 20 s are in the code. Nothing is assumed
  of the deadline against them.

**Dispatch.** `SlotsBounded` is about goroutines, but `acquire()` looks at
refCounts; it is inductive only together with `RegistryExact`, which says that each
refCount is the number of goroutines that owe a `remove()`. What `count()` adds up
is the cardinality of the set `Units` of pairs (id, 1..refCount), which makes sums
a matter of finite sets; `UnitsExact` says that there are as many units as holders,
and as many heavy units as heavy holders. The inductive invariant is `SlotInv`:
`TypeOK`, `RegistryExact`, `UnitsExact`, `SlotsBounded`, `HeavyBounded`. Only
`Acquire` adds a holder, with the count below the limit, and only `Remove` takes
one away, with one reference; every other step leaves registry and holders alone.
For `HeavyBounded` an entry keeps the class it was made with. `PendingExact` needs
`TypeOK` alone, and the floor at zero in `releaseWaiter` is never reached.

`NoLostWakeup` is inductive only with what happens to old channels (`WakeInv`): who
sleeps on the current channel sleeps because its limit is still reached, and a
channel that is no longer current is closed or about to be. An admission only adds
to what is counted (`AcquireCountsUp`); a removal lowers it, but replaces the channel
in the same critical section.

For `ImplementsCorrect`, `AcquireHolds` and `RemoveHolds` say what the two steps do to
the holders and their classes: under `SlotInv`, `Acquire` is an `Admit` of the pool and
`Remove` an `End`. `Receive` is an arrival or a refusal at once, `GiveUp` a refusal, and
every other step changes nothing the pool can see.

**Quiesce.** Its readers leave `Dispatch` alone and `Dispatch` leaves them alone, so
`SlotInv` carries over. `HeldInv`: a command that was held when the call began never
goes back into the queue, and once the count was read as zero none of them holds a
slot. That the count is zero only without holders is `UnitsExact`. For
`IdleLagsByEnding`, `EndsInv` says that the ends `lastActive` predates are those of
commands whose own store is still to come and those that have been overtaken. It is
inductive together with what it says of the readings not stored yet: a goroutine that
has read the clock at its end has its own end behind it, so when it stores, what is
missed are ends of other commands, each still in its deferred calls or, from this
store on, overtaken.

**ProcessPool.** `OvershootBounded` counts entries after the fact. `RoomInv` counts a
Start as if it had its entry from the moment it has passed its check: entries plus
`Starting` never exceed `maxProcesses + MaxStarts - 1`. A check that passes finds an
entry free and at most `MaxStarts - 1` other Starts, and `Register` turns a start into
an entry. `TreeInv` adds to `NoLostTree` that an exit on record means a leader that has
ended (`ExitedEnded`), so the reaper drops without a kill only what has no leader,
and that Shutdown takes the pool over once, so that `toShut` is never overwritten.

**Browser.** `StartInv` is about the browser process: one install at a time
(`OneStart`), whoever has waited for it has it until Shutdown (`BrowserIsThere`), and
a Chromium is the manager's, Shutdown's, that of the start under way, or late
(`ChromesKnown`). `LeftIsLate` and `SilentAtShutdown` follow. `PoolInv` is about the
sessions: who acts on one or closes it holds its lock (`Locked`), what the reaper has
still to look at is in the map (`ReaperSees`), Shutdown takes the map once
(`TakenOnce`), and beside a browser that it closes no session and no other start is
left (`NothingAfter`). `ContextsAccounted` is inductive with these. `ActionsUndisturbed`
comes from `Locked`: of all steps only the close of the browser itself can close a
context under its user, and then somebody waits for its lock with the session out
of the map.

**Connection.** `OneCopy`: an answer is with the server, in the hands of the writer or
in the channel of the connection its command came by, in one of these places and
once; a goroutine that has not sent yet has none. `send()` puts it in, the writer
moves it on, and what is dropped never comes back.

**Shell.** `FlowInv` follows the chunks through the three places they pass: `out`,
the hand of `Run`, `chunks`. Of each stream, what has been read and not sent on is there
(`AllThere`), in the order it was read (`OneAfterOther`). `EndInv` says how `Run` comes
to its end: without giving up only when both readers are at the end of their pipes,
with no one left to write. `AnswerLast` says that nothing is left in `chunks` when the
answer is given. `CauseInv` says that a kill on its way, or a grace period, has its
deadline, and that `Run` leaves its loop with a cause or with the leader gone.

**Files.** What an edit has read must still be there when it truncates the file.
That needs `LockHeld`: a file operation past its lock and not yet past its unlock
has the lock, so no other is there. A transfer takes no lock, so `ReadStands` allows
for one thing: the name has moved to the inode of a download, which no one can have
had a name for before (`NamedMade`). `Truncated` says that a writer's torn text is
still its own when it writes. For `InFlightUnseen` a reader must know whose torn
text it may meet: `TornLeft` says that the writer is still between its truncation
and its write, which the lock excludes, or has failed. `AtomicInv` is all of this;
`AtomicStep` shows that each thing a command can do preserves it.

**UnixUpdate.** `SwapAlone` speaks of a script only; `OwnerInv` adds the other side
(`UpdaterOwns`): from lock to exit the updater has the lock and no script is left.
Only a script that has ended gives up the lock, so the two hand it over and never
share it; the lock turns stale only where nobody can be swapping (`LockAges`).
`InterruptsOnlyWhenDue` needs `ClockBehind`: the clock of the gate is never ahead of
the time that activity alone has held the update up, because whatever starts it
again - a check that found nothing, an idle runner, a new process - ends that time
too. Then a forced update is due when the gate says so, and stays due
(`ForcedIsDue`); one that is not forced finds the runner idle at the last look
(`LookWasIdle`).

**Update.** `OwnerUpdates`: until a lock has been removed under its owner, whoever
updates owns the lock file, so there is one at most. Every removal by path either
removes its own lock, or one without an update in progress, or is the theft that
`stolen` notes. `InstalledUnlessTorn` is inductive as it stands: the renames that
leave `exePath` empty are followed by the one that fills it, and what breaks the pair
is what `torn` notes. It needs nothing of the lock, so it holds also when two swaps run
at once.

**Watchdog.** `Supervising` says that nothing is decided, nothing is swapped and only
the release or the old process runs while the watchdog watches.
- `HealthyMeansUp`: the process under observation is at least as old as the
  observation, if it still runs (`Observed`); a process that dies is seen at the next
  poll, or its successor has another PID.
- `DownIsBounded`: time is counted as down only while a start would work
  (`DownCounts`), and `DownKnown` says what the watchdog knows of it: nothing since the
  last answered poll, or the start of the grace period, or the pause before the next
  attempt. `DownFor` bounds each of the three.
- `GoodReleaseStays`: a release without a flaw gives the watchdog nothing to count
  (`NothingCounted`), so only the deadline is left; and since it came up it has been
  polled but for the polls that failed (`SeenInTime`), so at the deadline it would be
  stable had it come up in time.
- `RestoredUnlessStuck`: once the service has been seen stopped after the swap back,
  it starts from the previous binary only (`RollbackInv`).

TLC checked each of these invariants before it was proved. `WindowsUpdateProofs`
holds two systems, the swap (`Spec`) and the supervision of what it has swapped in
(`WatchSpec`); they share no variable and no step, and each theorem is about one of
them.

Only model-checked: the liveness properties (`WaitIsBounded`,
`EverythingIsReturned`, `DrainReturns`, `ForgottenIsReaped`, `OrphanedLockGoes`,
`SendReturns`, `DeadLinkIsLeft`, `AnswersArrive`, `EveryoneReturns`, `Answered`,
`PostponementEnds`, `ServiceComesBack`), since liveness under fairness and ENABLED are
out of the prover's reach, and the two properties that are violated. Induction over
recursive definitions is out of its reach too; no module here needs one. The type
invariants that are not listed are proved as parts of the inductive invariants
(`Shape`, `TypeOK`).

State that a step changes in several fields is a set of functions, not one function
to records, in `Files` and `Browser`, for the sake of these proofs: from
`[f EXCEPT ![o].a = x, ![o].b = y]` the SMT translation of tlapm 1.4.5 can derive
FALSE. So each leaf of the proofs has also been tried with FALSE for a goal. None is
proved but those whose goal is FALSE or whose case cannot happen.

## 5. Plan

All planned components are modelled, and the safety properties of their runs are
proved. What is left:

1. Lemmas that several modules state for themselves (a finite set with one member
   more or less, a queue that grows at its end), stated once.
2. An abstract specification of the sessions of `Browser` (who may use one, who
   closes it) and of the entries of `ProcessPool`, with the modules shown to
   implement them, as `Dispatch` does `SlotPool`.
3. The path from `Dispatch` through `Quiesce` to the idle gate of `UnixUpdate`, in
   one composition.

## 6. Not modelled

- Release discovery and download (`updater/release.go`): HTTP and parsing, reduced
  to a choice in `Update` and `UnixUpdate`.
- Configuration (`config/config.go`): the clamps of single values, and
  `UpdateRunnerKey`, which rewrites `config.yaml` in place with no lock: what two of
  them at once, or a crash, leave there is whatever the file system makes of it.
- The width of integers: `timeout_seconds` times a second may wrap (see the
  hazards); a shell command stays bounded all the same, a page call need not.
- Directory listings, the path guard, formatting of edits, git arguments, quoting of
  shell text, what a browser action does on its page, log lines: no property depends
  on their text.
- Log rotation (`logwriter.go`): I/O under one mutex.
- Service registration and its recovery policy (`winsvc/recovery_windows.go`,
  `service_*.go`): I/O; what they set up is the environment of `Update`,
  `UnixUpdate` and `Watchdog`.
- Installers and build scripts: run by hand.
