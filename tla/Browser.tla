------------------------------ MODULE Browser -------------------------------
(***************************************************************************)
(* The shared browser and its sessions (executor/browser.go), as "browser"   *)
(* commands use them (runner.go, handleBrowser).  Each element of Call is the *)
(* goroutine of one command: it makes sure that the driver and Chromium run,  *)
(* finds or creates its session and does one action there, or closes it.       *)
(* Beside them run the idle reaper and the one Shutdown of the process.        *)
(*                                                                         *)
(* A Chromium process is named for the call that launched it, a context for     *)
(* the call that created it.  Two locks matter: mu, which no one holds across a  *)
(* step except the reaper while it looks through the map, and the busyMu of      *)
(* each session, which is held for a whole action and for a whole Close.         *)
(***************************************************************************)
EXTENDS FiniteSets, Naturals

CONSTANTS Call,          \* "browser" commands
          Id,            \* session_id values
          Ask,           \* [Call -> set of [op, id]]: what each may ask for
          maxSessions,   \* cfg.MaxBrowserSessions
          None, Reaper, Closer  \* Closer: the goroutine in Shutdown

ASSUME BrowserAssumption == /\ IsFiniteSet(Call) /\ maxSessions \in Nat \ {0}
                            /\ \A c \in Call : \A a \in Ask[c] : a.id \in Id
                            /\ {None, Reaper, Closer} \cap Call = {}
                            /\ None # Reaper /\ None # Closer /\ Reaper # Closer

VARIABLES
    pc,           \* [Call -> Control]: where the command is
    ask,          \* [Call -> [op, id]]: what it asks for
    again,        \* calls in EnsureInstalled for the second time
    on,           \* [Call -> the call whose install it waits for, or None]
    session,      \* [Call -> the session it works on, or None]
    installing,   \* the call that runs the install, or None
    attempt,      \* [Call -> Attempt]: the installAttempt of that call
    backoff,      \* lastInstallErr is set and installFailureBackoff not over
    browser,      \* BrowserManager.browser
    chromes,      \* Chromium processes that run
    sessions,     \* BrowserManager.sessions: session_id -> context
    home,         \* [Call -> Chromium its context is open in, or None]
    busy,         \* [Call -> holder of the busyMu of that session, or None]
    fresh,        \* sessions whose lastUsedAt is less than idleTimeout ago
    reap,         \* [pc, todo, look, closing]: reapIdleLoop
    shut          \* [pc, taken, browser, late]: Shutdown; late: the starts it met

call   == <<pc, ask, again, on, session>>
driver == <<installing, attempt, backoff, browser, chromes>>
pool   == <<sessions, home, busy, fresh>>
vars   == <<call, driver, pool, reap, shut>>

Op      == {"launch", "act", "close"}
Attempt == {"none", "open", "ok", "failed"}

\* The sections of a command.  ensure: EnsureInstalled, first section; await:
\* waits for the attempt of another; install, publish, settle: makes it itself.
\* lookup, create: the two sections of getOrCreateSession; acquire, act: an
\* action; remove, drain, close: closeSession.
Control == {"new", "ensure", "await", "install", "publish", "settle", "lookup",
            "create", "acquire", "act", "remove", "drain", "close",
            "done", "failed", "panicked"}

Up          == shut.pc # "exited"
ShuttingDown == shut.pc # "no"
MuFree      == reap.pc # "look"
InMap       == {sessions[i] : i \in DOMAIN sessions}
IsOpen(s)   == home[s] # None
At(c, where) == Up /\ pc[c] = where
Goto(c, to) == pc' = [pc EXCEPT ![c] = to] /\ UNCHANGED <<ask, again, on, session>>
TakeOn(c, s, to) == /\ pc' = [pc EXCEPT ![c] = to]
                    /\ session' = [session EXCEPT ![c] = s]
                    /\ UNCHANGED <<ask, again, on>>
End(c, to)  == TakeOn(c, None, to)
Without(i)  == [j \in DOMAIN sessions \ {i} |-> sessions[j]]
Lock(s, by) == busy[s] = None /\ busy' = [busy EXCEPT ![s] = by]
Unlock(s)   == busy' = [busy EXCEPT ![s] = None]
CloseContext(s) == home' = [home EXCEPT ![s] = None]

-----------------------------------------------------------------------------
Init ==
    /\ pc = [c \in Call |-> "new"]
    /\ ask = [c \in Call |-> [op |-> "act", id |-> CHOOSE i \in Id : TRUE]]
    /\ again = {} /\ on = [c \in Call |-> None] /\ session = [c \in Call |-> None]
    /\ installing = None /\ attempt = [c \in Call |-> "none"]
    /\ backoff = FALSE
    /\ browser = None /\ chromes = {}
    /\ sessions = [i \in {} |-> None]
    /\ home = [c \in Call |-> None]
    /\ busy = [c \in Call |-> None]
    /\ fresh = {}
    /\ reap = [pc |-> "off", todo |-> {}, look |-> None, closing |-> {}]
    /\ shut = [pc |-> "no", taken |-> {}, browser |-> None, late |-> {}]

Begin(c, a) ==
    /\ At(c, "new")
    /\ pc' = [pc EXCEPT ![c] = "ensure"]
    /\ ask' = [ask EXCEPT ![c] = a]
    /\ UNCHANGED <<again, on, session, driver, pool, reap, shut>>

-----------------------------------------------------------------------------
(* EnsureInstalled: called by handleBrowser first, and once more by          *)
(* getOrCreateSession for a session that is not in the map.                  *)

\* Where a call goes on when the browser runs.
Installed(c) ==
    /\ pc' = [pc EXCEPT ![c] = IF c \in again THEN "create"
                               ELSE IF ask[c].op = "close" THEN "remove" ELSE "lookup"]
    /\ on' = [on EXCEPT ![c] = None]
    /\ again' = again \ {c}
    /\ UNCHANGED <<ask, session>>

\* A second caller waits for the attempt under way (single flight).
Join(c) ==
    /\ installing # None
    /\ pc' = [pc EXCEPT ![c] = "await"]
    /\ on' = [on EXCEPT ![c] = installing]
    /\ UNCHANGED <<ask, again, session, installing, attempt>>

Attempts(c) ==
    /\ installing = None
    /\ IF backoff THEN Goto(c, "failed") /\ UNCHANGED <<installing, attempt>>
       ELSE /\ installing' = c
            /\ attempt' = [attempt EXCEPT ![c] = "open"]
            /\ Goto(c, "install")

\* Mutant: shuttingDown is not looked at.
Bug_Ensure(c) ==
    /\ At(c, "ensure") /\ MuFree
    /\ IF browser # None THEN Installed(c) /\ UNCHANGED <<installing, attempt>>
       ELSE Join(c) \/ Attempts(c)
    /\ UNCHANGED <<backoff, browser, chromes, pool, reap, shut>>

Ensure(c) ==
    /\ At(c, "ensure") /\ MuFree
    /\ IF browser # None
       THEN Installed(c) /\ UNCHANGED <<installing, attempt>>
       ELSE IF ShuttingDown
       THEN Goto(c, "failed") /\ UNCHANGED <<installing, attempt>>
       ELSE Join(c) \/ Attempts(c)
    /\ UNCHANGED <<backoff, browser, chromes, pool, reap, shut>>

\* Mutant: the error of the attempt is not looked at.
Bug_Awake(c) ==
    /\ At(c, "await") /\ attempt[on[c]] # "open"
    /\ Installed(c)
    /\ UNCHANGED <<driver, pool, reap, shut>>

Awake(c) ==
    /\ At(c, "await")
    /\ \/ attempt[on[c]] = "ok" /\ Installed(c)
       \/ attempt[on[c]] = "failed" /\ Goto(c, "failed")
    /\ UNCHANGED <<driver, pool, reap, shut>>

\* doInstallAndStart up to a launched Chromium, or its failure.
Launch(c) ==
    /\ At(c, "install")
    /\ chromes' = chromes \cup {c}
    /\ Goto(c, "publish")
    /\ UNCHANGED <<installing, attempt, backoff, browser, pool, reap, shut>>

\* Mutant: attempt.done is not closed after a failure.
Bug_LaunchFails(c) ==
    /\ At(c, "install") /\ MuFree
    /\ installing' = None /\ backoff' = TRUE
    /\ Goto(c, "failed")
    /\ UNCHANGED <<attempt, browser, chromes, pool, reap, shut>>

LaunchFails(c) ==
    /\ At(c, "install") /\ MuFree
    /\ installing' = None /\ backoff' = TRUE
    /\ attempt' = [attempt EXCEPT ![c] = "failed"]
    /\ Goto(c, "failed")
    /\ UNCHANGED <<browser, chromes, pool, reap, shut>>

\* finishStart: shuttingDown is not looked at again.
Publish(c) ==
    /\ At(c, "publish") /\ MuFree
    /\ browser' = c
    /\ reap' = [reap EXCEPT !.pc = IF reap.pc = "off" THEN "wait" ELSE reap.pc]
    /\ Goto(c, "settle")
    /\ UNCHANGED <<installing, attempt, backoff, chromes, pool, shut>>

\* The last section of EnsureInstalled, and the close of attempt.done.
Settle(c) ==
    /\ At(c, "settle") /\ MuFree
    /\ installing' = None /\ backoff' = FALSE
    /\ attempt' = [attempt EXCEPT ![c] = "ok"]
    /\ Installed(c)
    /\ UNCHANGED <<browser, chromes, pool, reap, shut>>

\* installFailureBackoff is over.
BackoffEnds ==
    /\ Up /\ backoff /\ backoff' = FALSE
    /\ UNCHANGED <<call, installing, attempt, browser, chromes, pool, reap, shut>>

-----------------------------------------------------------------------------
(* getOrCreateSession.                                                      *)

\* A launch ends here, an action goes on to lock the session.
HandOut(c, s) ==
    IF ask[c].op = "launch" THEN Goto(c, "done") ELSE TakeOn(c, s, "acquire")

\* The session is in the map: its lastUsedAt is set and it is handed out.
Found(c) ==
    /\ ask[c].id \in DOMAIN sessions
    /\ LET s == sessions[ask[c].id] IN
         /\ fresh' = fresh \cup {s}
         /\ HandOut(c, s)
    /\ UNCHANGED <<sessions, home, busy>>

Lookup(c) ==
    /\ At(c, "lookup") /\ MuFree
    /\ \/ Found(c)
       \/ /\ ask[c].id \notin DOMAIN sessions
          /\ pc' = [pc EXCEPT ![c] = "ensure"]
          /\ again' = again \cup {c}
          /\ UNCHANGED <<ask, on, session, pool>>
    /\ UNCHANGED <<driver, reap, shut>>

\* Mutant: one session too many.
Bug_AtLimit == Cardinality(DOMAIN sessions) > maxSessions

AtLimit == Cardinality(DOMAIN sessions) >= maxSessions

\* The map has no such session.  NewContext on a nil browser panics; the
\* deferred unlock runs and dispatchOne recovers (no terminal message).
New(c) ==
    /\ ask[c].id \notin DOMAIN sessions
    /\ IF AtLimit THEN Goto(c, "failed") /\ UNCHANGED pool
       ELSE IF browser = None THEN Goto(c, "panicked") /\ UNCHANGED pool
       ELSE \/ Goto(c, "failed") /\ UNCHANGED pool   \* NewContext, NewPage
            \/ /\ home' = [home EXCEPT ![c] = browser]
               /\ sessions' = [i \in DOMAIN sessions \cup {ask[c].id} |->
                                 IF i = ask[c].id THEN c ELSE sessions[i]]
               /\ fresh' = fresh \cup {c}
               /\ HandOut(c, c)
               /\ UNCHANGED busy

Create(c) ==
    /\ At(c, "create") /\ MuFree
    /\ Found(c) \/ New(c)
    /\ UNCHANGED <<driver, reap, shut>>

-----------------------------------------------------------------------------
(* One action on the page, and closeSession.                                *)

Acquire(c) ==
    /\ At(c, "acquire")
    /\ Lock(session[c], c)
    /\ fresh' = fresh \cup {session[c]}
    /\ Goto(c, "act")
    /\ UNCHANGED <<driver, sessions, home, reap, shut>>

\* The Playwright call has returned, with an error if the context is closed.
ActEnds(c) ==
    /\ At(c, "act")
    /\ Unlock(session[c])
    /\ fresh' = fresh \cup {session[c]}
    /\ \/ IsOpen(session[c]) /\ End(c, "done")
       \/ End(c, "failed")
    /\ UNCHANGED <<driver, sessions, home, reap, shut>>

Remove(c) ==
    /\ At(c, "remove") /\ MuFree
    /\ IF ask[c].id \in DOMAIN sessions
       THEN /\ TakeOn(c, sessions[ask[c].id], "drain")
            /\ sessions' = Without(ask[c].id)
       ELSE Goto(c, "done") /\ UNCHANGED sessions
    /\ UNCHANGED <<driver, home, busy, fresh, reap, shut>>

Drain(c) ==
    /\ At(c, "drain")
    /\ Lock(session[c], c)
    /\ Goto(c, "close")
    /\ UNCHANGED <<driver, sessions, home, fresh, reap, shut>>

Close(c) ==
    /\ At(c, "close")
    /\ CloseContext(session[c])
    /\ Unlock(session[c])
    /\ End(c, "done")
    /\ UNCHANGED <<driver, sessions, fresh, reap, shut>>

-----------------------------------------------------------------------------
(* reapIdleLoop.  reapOnce holds mu while it goes through the map; what it    *)
(* reads of a session, its lastUsedAt and then its busyMu, are two steps.     *)

Tick ==
    /\ Up /\ reap.pc = "wait" /\ ~ShuttingDown /\ DOMAIN sessions # {}
    /\ reap' = [reap EXCEPT !.pc = "look", !.todo = InMap]
    /\ UNCHANGED <<call, driver, pool, shut>>

Look(s) ==
    /\ Up /\ reap.pc = "look" /\ reap.look = None /\ s \in reap.todo
    /\ reap' = [reap EXCEPT !.todo = reap.todo \ {s},
                            !.look = IF s \in fresh THEN None ELSE s]
    /\ UNCHANGED <<call, driver, pool, shut>>

\* Mutant: a session in use is not skipped.
Bug_TryReap(s) ==
    /\ Up /\ reap.look = s
    /\ sessions' = Without(CHOOSE i \in DOMAIN sessions : sessions[i] = s)
    /\ reap' = [reap EXCEPT !.look = None, !.closing = reap.closing \cup {s}]
    /\ UNCHANGED <<call, driver, home, busy, fresh, shut>>

\* The session looked at is too old: TryLock, and take it out of the map.
TryReap(s) ==
    /\ Up /\ reap.look = s
    /\ \/ /\ busy[s] # None
          /\ reap' = [reap EXCEPT !.look = None]
          /\ UNCHANGED pool
       \/ /\ Lock(s, Reaper)
          /\ sessions' = Without(CHOOSE i \in DOMAIN sessions : sessions[i] = s)
          /\ reap' = [reap EXCEPT !.look = None, !.closing = reap.closing \cup {s}]
          /\ UNCHANGED <<home, fresh>>
    /\ UNCHANGED <<call, driver, shut>>

Looked ==
    /\ Up /\ reap.pc = "look" /\ reap.look = None /\ reap.todo = {}
    /\ reap' = [reap EXCEPT !.pc = IF reap.closing = {} THEN "wait" ELSE "close"]
    /\ UNCHANGED <<call, driver, pool, shut>>

ReapClose(s) ==
    /\ Up /\ reap.pc = "close" /\ s \in reap.closing
    /\ CloseContext(s) /\ Unlock(s)
    /\ reap' = [reap EXCEPT !.closing = reap.closing \ {s},
                            !.pc = IF reap.closing = {s} THEN "wait" ELSE "close"]
    /\ UNCHANGED <<call, driver, sessions, fresh, shut>>

\* idleTimeout passes without a use.  It is minutes long: a goroutine that
\* could lock the session has done so by then.
Idle(s) ==
    /\ Up /\ s \in fresh \cap InMap
    /\ busy[s] = None => \A c \in Call : pc[c] \in {"acquire", "drain"} => session[c] # s
    /\ fresh' = fresh \ {s}
    /\ UNCHANGED <<call, driver, sessions, home, busy, reap, shut>>

-----------------------------------------------------------------------------
(* Shutdown, and the exit of the process after it.                          *)

Shutdown ==
    /\ shut.pc = "no" /\ MuFree
    /\ shut' = [pc |-> "closing", taken |-> InMap, browser |-> browser,
                late |-> {c \in Call : pc[c] \in {"install", "publish"}}]
    /\ sessions' = [i \in {} |-> None]
    /\ browser' = None
    /\ UNCHANGED <<call, installing, attempt, backoff, chromes, home, busy, fresh, reap>>

ShutLock(s) ==
    /\ shut.pc = "closing" /\ s \in shut.taken
    /\ \A r \in shut.taken : busy[r] # Closer
    /\ Lock(s, Closer)
    /\ UNCHANGED <<call, driver, sessions, home, fresh, reap, shut>>

ShutClose(s) ==
    /\ shut.pc = "closing" /\ busy[s] = Closer
    /\ CloseContext(s) /\ Unlock(s)
    /\ shut' = [shut EXCEPT !.taken = shut.taken \ {s}]
    /\ UNCHANGED <<call, driver, sessions, fresh, reap>>

\* browser.Close and pw.Stop: whatever is open in that Chromium goes with it.
ShutBrowser ==
    /\ shut.pc = "closing" /\ shut.taken = {}
    /\ chromes' = chromes \ {shut.browser}
    /\ home' = [s \in Call |-> IF home[s] = shut.browser THEN None ELSE home[s]]
    /\ shut' = [shut EXCEPT !.pc = "closed"]
    /\ UNCHANGED <<call, installing, attempt, backoff, browser, sessions, busy, fresh, reap>>

Exit ==
    /\ shut.pc = "closed"
    /\ shut' = [shut EXCEPT !.pc = "exited"]
    /\ UNCHANGED <<call, driver, pool, reap>>

-----------------------------------------------------------------------------
Step(c) ==
    \/ Ensure(c) \/ Awake(c) \/ Launch(c) \/ LaunchFails(c) \/ Publish(c) \/ Settle(c)
    \/ Lookup(c) \/ Create(c) \/ Acquire(c) \/ ActEnds(c)
    \/ Remove(c) \/ Drain(c) \/ Close(c)
Reaping  == (\E s \in Call : Look(s) \/ TryReap(s) \/ ReapClose(s)) \/ Looked
Shutting == (\E s \in Call : ShutLock(s) \/ ShutClose(s)) \/ ShutBrowser

Next ==
    \/ \E c \in Call : Step(c) \/ \E a \in Ask[c] : Begin(c, a)
    \/ BackoffEnds \/ Tick \/ Reaping
    \/ \E s \in Call : Idle(s)
    \/ Shutdown \/ Shutting \/ Exit

\* Every goroutine goes on.  What takes its time ends: an install, a Close, and
\* a page call (a script given to evaluate is the caller's to bound).  A lock
\* that is free again and again is obtained (sync.Mutex ends barging after a
\* millisecond), hence SF.  Commands need not arrive, nor Shutdown be called.
Fairness == /\ \A c \in Call : SF_vars(Step(c))
            /\ WF_vars(Reaping) /\ SF_vars(Shutting)

Spec == Init /\ [][Next]_vars /\ Fairness

-----------------------------------------------------------------------------
(* Properties.                                                              *)

\* An action on an open page is never disturbed: nobody closes the context
\* while the page call runs (browser.go:46-52).  The exception is Shutdown,
\* which takes the map only: a session that a close command has removed from it
\* and waits for is closed with the browser under the action it waits for.
ActionsUndisturbed ==
    [][\A c \in Call : LET s == session[c] IN
         pc[c] = "act" /\ IsOpen(s) /\ pc'[c] = "act" /\ home'[s] = None
           => /\ shut.pc = "closing" /\ shut'.pc = "closed"
              /\ \E d \in Call : pc[d] = "drain" /\ session[d] = s]_vars

\* No context is lost: one that is open is in the map, or someone is about to
\* close it, and the map respects max_browser_sessions.  (More contexts than
\* that may be open: those that wait to be closed are no longer counted.)
ContextsAccounted ==
    /\ Cardinality(DOMAIN sessions) <= maxSessions
    /\ \A s \in Call : IsOpen(s) =>
         \/ s \in InMap \cup reap.closing \cup shut.taken
         \/ \E c \in Call : pc[c] \in {"drain", "close"} /\ session[c] = s

\* Shutdown leaves no Chromium behind (browser.go:417-419), except one whose
\* start was under way when it took the browser: finishStart publishes that one
\* all the same, and no one stops it.
LeftIsLate == shut.pc \in {"closed", "exited"} => chromes \subseteq shut.late

\* A command ends without an answer only when Shutdown has come in between:
\* the browser is there whenever a session is created (browser.go:485-493).
SilentAtShutdown == (\E c \in Call : pc[c] = "panicked") => ShuttingDown

\* Whatever waits for a lock, an install or a session gets on: every command
\* returns unless the process exits, and Shutdown is done.
Ended(c) == pc[c] \in {"done", "failed", "panicked"}
EveryoneReturns ==
    /\ \A c \in Call : (pc[c] # "new") ~> (Ended(c) \/ ~Up)
    /\ (shut.pc = "closing") ~> (shut.pc = "closed")
=============================================================================
