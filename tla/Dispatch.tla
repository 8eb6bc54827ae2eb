------------------------------ MODULE Dispatch ------------------------------
(***************************************************************************)
(* Command dispatch of the runner's client package: the receive loop that   *)
(* hands each command frame to a goroutine of its own, the bounded wait for  *)
(* an execution slot, the in-flight registry, and the clean-up that returns  *)
(* the slot (client/ws_client.go, client/inflight.go, client/classify.go).   *)
(*                                                                         *)
(* Each element of Cmd is one frame the server may send, together with the   *)
(* goroutine that serves it.  Several frames may carry the same cmd_id.      *)
(* A step of a goroutine is one critical section of the registry's mutex or  *)
(* of pendingMu, one channel operation, one clock reading, one atomic store,  *)
(* or one call of the handler, so any two goroutines interleave wherever the  *)
(* Go scheduler may switch them.                                             *)
(***************************************************************************)
EXTENDS FiniteSets, Naturals

CONSTANTS Cmd,                    \* frames, each with its hand-off goroutine
          Id,                     \* the cmd_id values
          Type,                   \* the command types the server sends
          MaxConcurrency,         \* cfg.MaxConcurrency
          MaxHeavyConcurrency,    \* cfg.MaxHeavyConcurrency
          maxPendingSlotWaiters   \* goroutines that may queue for a slot

CommandTypes == {"shell", "file_transfer", "browser", "process",
                 "file_op", "git", "update_key", "unknown"}

ASSUME CmdFinite  == IsFiniteSet(Cmd)
ASSUME IdFinite   == IsFiniteSet(Id)
ASSUME TypeKnown  == Type \subseteq CommandTypes
\* What config.applyDefaults establishes, whatever the file says.
ASSUME LimitsOK ==
    /\ MaxConcurrency \in Nat \ {0}
    /\ MaxHeavyConcurrency \in 1 .. MaxConcurrency
    /\ maxPendingSlotWaiters \in Nat \ {0}

VARIABLES
    pc,               \* [Cmd -> Control]: where the goroutine of a frame is
    req,              \* [Cmd -> Request]: what the frame says, once received
    entries,          \* inflightRegistry.entries: cmd_id -> entry
    waitCh,           \* inflightRegistry.waitCh: number of the current channel
    closed,           \* channels already closed
    chan,             \* [Cmd -> Nat]: the channel a goroutine captured
    blockedBy,        \* [Cmd -> Limit]: heavyFull of the last failed check
    pendingWaiters,   \* Client.pendingWaiters
    stamp,            \* [Cmd -> SUBSET Cmd]: what ended after the instant that
                      \* a goroutine inside touch() has read
    endsSinceTouch    \* commands that ended after the instant in lastActive

registry == <<entries, waitCh>>
activity == <<stamp, endsSinceTouch>>
vars == <<pc, req, entries, waitCh, closed, chan, blockedBy, pendingWaiters,
          activity>>

Class   == {"light", "heavy"}
Limit   == {"none", "global", "heavy"}
Request == [id : Id, type : Type]
NoReq   == [id |-> "none", type |-> "none"]
Entry   == [class : Class, refCount : Nat \ {0}]

\* idle: not received.  arrived: in the receive loop, inside touch().  reserve:
\* in the receive loop, about to ask for a place in the queue.  acquire: about
\* to lock the registry.  wait: in the select.  admitted, refused: acquire has
\* returned.  busy: about to send the rejection.  run: inside the handler.
\* remove, close: the two halves of remove().  touch: before the deferred
\* touch().  stamped, busyStamped: inside it, the clock read.  done, rejected:
\* the goroutine is gone, its command executed or answered busy.
Control == {"idle", "arrived", "reserve", "acquire", "wait", "admitted",
            "refused", "busy", "busyStamped", "run", "remove", "close", "touch",
            "stamped", "done", "rejected"}

\* Inside touch(), between time.Now() and lastActive.Store().
Stamped == {"arrived", "stamped", "busyStamped"}

-----------------------------------------------------------------------------
(* Accounting *)

classifyCommand(t) ==
    IF t \in {"shell", "file_transfer", "browser", "process"}
    THEN "heavy" ELSE "light"

\* One unit per reference of each entry: Cardinality(Units) is the sum of the
\* refCounts, as count() and countsLocked() add them up.
Units      == UNION {{i} \X (1 .. entries[i].refCount) : i \in DOMAIN entries}
HeavyUnits == {u \in Units : entries[u[1]].class = "heavy"}
count      == Cardinality(Units)
heavyCount == Cardinality(HeavyUnits)

\* Mutant: a duplicate is measured by its own type.
Bug_effectiveClassOwn(r) == classifyCommand(r.type)

\* A duplicate is measured against the class of the entry it joins.
effectiveClass(r) ==
    IF r.id \in DOMAIN entries THEN entries[r.id].class
                               ELSE classifyCommand(r.type)

\* Mutant: the limit off by one.
Bug_globalFullLate   == count > MaxConcurrency

globalFull   == count >= MaxConcurrency
heavyFull(r) == effectiveClass(r) = "heavy" /\ heavyCount >= MaxHeavyConcurrency

\* Mutant: a duplicate of a command in flight is always let in.
Bug_AdmissibleDuplicate(r) ==
    r.id \in DOMAIN entries \/ (~globalFull /\ ~heavyFull(r))

Admissible(r) == ~globalFull /\ ~heavyFull(r)

\* A new entry, or one more reference on the entry of a duplicate.
AddRef(r) ==
    [i \in DOMAIN entries \cup {r.id} |->
       IF i # r.id THEN entries[i]
       ELSE IF i \in DOMAIN entries
            THEN [entries[i] EXCEPT !.refCount = @ + 1]
            ELSE [class |-> effectiveClass(r), refCount |-> 1]]

\* Mutant: the entry goes with its first reference.
Bug_DropRefAll(id) == [i \in DOMAIN entries \ {id} |-> entries[i]]

\* One reference less; the entry goes with its last reference.
DropRef(id) ==
    IF entries[id].refCount <= 1
    THEN [i \in DOMAIN entries \ {id} |-> entries[i]]
    ELSE [entries EXCEPT ![id].refCount = @ - 1]

Goto(g, to) == pc' = [pc EXCEPT ![g] = to]

-----------------------------------------------------------------------------
Init ==
    /\ pc = [g \in Cmd |-> "idle"]
    /\ req = [g \in Cmd |-> NoReq]
    /\ entries = [i \in {} |-> NoReq]
    /\ waitCh = 0
    /\ closed = {}
    /\ chan = [g \in Cmd |-> 0]
    /\ blockedBy = [g \in Cmd |-> "none"]
    /\ pendingWaiters = 0
    /\ stamp = [g \in Cmd |-> {}]
    /\ endsSinceTouch = {}

\* The receive loop, one frame at a time, takes a frame, and its touch() reads
\* the clock.
Receive(g, r) ==
    /\ pc[g] = "idle"
    /\ \A h \in Cmd : pc[h] \notin {"arrived", "reserve"}
    /\ req' = [req EXCEPT ![g] = r]
    /\ stamp' = [stamp EXCEPT ![g] = {}]
    /\ Goto(g, "arrived")
    /\ UNCHANGED <<registry, closed, chan, blockedBy, pendingWaiters,
                   endsSinceTouch>>

\* touch(), its second half: the instant read becomes lastActive, whatever is
\* there, and with it go the commands that ended since it was read.
StoreLastActive(g) ==
    /\ pc[g] \in Stamped
    /\ endsSinceTouch' = stamp[g]
    /\ stamp' = [stamp EXCEPT ![g] = {}]
    /\ Goto(g, CASE pc[g] = "arrived"     -> "reserve"
                 [] pc[g] = "stamped"     -> "done"
                 [] pc[g] = "busyStamped" -> "rejected")
    /\ UNCHANGED <<req, registry, closed, chan, blockedBy, pendingWaiters>>

\* Mutant: the queue takes one waiter too many.
Bug_ReserveOneMore(g) ==
    /\ pc[g] = "reserve"
    /\ IF pendingWaiters > maxPendingSlotWaiters
       THEN Goto(g, "rejected") /\ UNCHANGED pendingWaiters
       ELSE Goto(g, "acquire") /\ pendingWaiters' = pendingWaiters + 1
    /\ UNCHANGED <<req, registry, closed, chan, blockedBy, activity>>

\* tryReserveWaiter().  With a place the loop spawns the goroutine; without one
\* it answers busy itself.
Reserve(g) ==
    /\ pc[g] = "reserve"
    /\ IF pendingWaiters >= maxPendingSlotWaiters
       THEN /\ Goto(g, "rejected")
            /\ UNCHANGED pendingWaiters
       ELSE /\ Goto(g, "acquire")
            /\ pendingWaiters' = pendingWaiters + 1
    /\ UNCHANGED <<req, registry, closed, chan, blockedBy, activity>>

\* acquire(), one pass under the lock, when the check succeeds.
Acquire(g) ==
    /\ pc[g] = "acquire"
    /\ Admissible(req[g])
    /\ entries' = AddRef(req[g])
    /\ Goto(g, "admitted")
    /\ UNCHANGED <<req, waitCh, closed, chan, blockedBy,
                   pendingWaiters, activity>>

\* acquire(), one pass under the lock, when the check fails: the channel is
\* captured before the lock is released.
Block(g) ==
    /\ pc[g] = "acquire"
    /\ ~Admissible(req[g])
    /\ chan' = [chan EXCEPT ![g] = waitCh]
    /\ blockedBy' = [blockedBy EXCEPT
                       ![g] = IF heavyFull(req[g]) THEN "heavy" ELSE "global"]
    /\ Goto(g, "wait")
    /\ UNCHANGED <<req, registry, closed, pendingWaiters, activity>>

\* select: the captured channel is closed, so recheck.
Wake(g) ==
    /\ pc[g] = "wait"
    /\ chan[g] \in closed
    /\ Goto(g, "acquire")
    /\ UNCHANGED <<req, registry, closed, chan, blockedBy,
                   pendingWaiters, activity>>

\* Mutant: the context is only looked at after a wake-up.
Bug_GiveUpOnWake(g) ==
    /\ pc[g] = "wait"
    /\ chan[g] \in closed
    /\ Goto(g, "refused")
    /\ UNCHANGED <<req, registry, closed, chan, blockedBy, pendingWaiters, activity>>

\* select: ctx.Done().  The context may time out at any moment of the wait (a
\* timeout before the select is only seen there), and a closed channel does
\* not take precedence over it.
GiveUp(g) ==
    /\ pc[g] = "wait"
    /\ Goto(g, "refused")
    /\ UNCHANGED <<req, registry, closed, chan, blockedBy, pendingWaiters, activity>>

\* Mutant: only an admitted command gives its place in the queue back.
Bug_ReleaseWaiterAdmitted(g) ==
    /\ pc[g] \in {"admitted", "refused"}
    /\ pendingWaiters' = IF pc[g] = "admitted" THEN pendingWaiters - 1
                                               ELSE pendingWaiters
    /\ Goto(g, IF pc[g] = "admitted" THEN "run" ELSE "busy")
    /\ UNCHANGED <<req, registry, closed, chan, blockedBy, activity>>

\* releaseWaiterOnce() right after acquire(), floored at zero.
ReleaseWaiter(g) ==
    /\ pc[g] \in {"admitted", "refused"}
    /\ pendingWaiters' = IF pendingWaiters > 0 THEN pendingWaiters - 1 ELSE 0
    /\ Goto(g, IF pc[g] = "admitted" THEN "run" ELSE "busy")
    /\ UNCHANGED <<req, registry, closed, chan, blockedBy, activity>>

\* A refused command is answered busy, and the deferred touch() reads the clock.
SendBusy(g) ==
    /\ pc[g] = "busy"
    /\ stamp' = [stamp EXCEPT ![g] = {}]
    /\ Goto(g, "busyStamped")
    /\ UNCHANGED <<req, registry, closed, chan, blockedBy, pendingWaiters,
                   endsSinceTouch>>

\* Mutant: a handler that fails skips remove().
Bug_ReturnKeepsEntry(g) ==
    /\ pc[g] = "run"
    /\ Goto(g, "remove") \/ Goto(g, "touch")
    /\ UNCHANGED <<req, registry, closed, chan, blockedBy, pendingWaiters, activity>>

\* The handler returns, its final message sent, or panics and is recovered:
\* either way the deferred calls run.
Return(g) ==
    /\ pc[g] = "run"
    /\ Goto(g, "remove")
    /\ UNCHANGED <<req, registry, closed, chan, blockedBy, pendingWaiters, activity>>

\* A command is over: every instant read before this one predates its end.
Ended(g) ==
    /\ endsSinceTouch' = endsSinceTouch \cup {g}
    /\ stamp' = [h \in Cmd |-> IF pc[h] \in Stamped THEN stamp[h] \cup {g}
                                                   ELSE stamp[h]]

\* Mutant: the waiters are only woken when the entry goes.
Bug_RemoveWakesLast(g) ==
    /\ pc[g] = "remove"
    /\ entries' = DropRef(req[g].id)
    /\ IF entries[req[g].id].refCount <= 1
       THEN /\ chan' = [chan EXCEPT ![g] = waitCh]
            /\ waitCh' = waitCh + 1
            /\ Goto(g, "close")
       ELSE Goto(g, "touch") /\ UNCHANGED <<waitCh, chan>>
    /\ Ended(g)
    /\ UNCHANGED <<req, closed, blockedBy, pendingWaiters>>

\* remove(), under the lock: the reference goes and the channel is replaced.
Remove(g) ==
    /\ pc[g] = "remove"
    /\ IF req[g].id \in DOMAIN entries
       THEN /\ entries' = DropRef(req[g].id)
            /\ chan' = [chan EXCEPT ![g] = waitCh]
            /\ waitCh' = waitCh + 1
            /\ Goto(g, "close")
       ELSE /\ Goto(g, "touch")
            /\ UNCHANGED <<registry, chan>>
    /\ Ended(g)
    /\ UNCHANGED <<req, closed, blockedBy, pendingWaiters>>

\* remove(), after the unlock: close(oldWake).
CloseWake(g) ==
    /\ pc[g] = "close"
    /\ closed' = closed \cup {chan[g]}
    /\ Goto(g, "touch")
    /\ UNCHANGED <<req, registry, chan, blockedBy, pendingWaiters, activity>>

\* Mutant: the end of a command is not recorded.
Bug_ReadClockNot(g) ==
    /\ pc[g] = "touch"
    /\ Goto(g, "done")
    /\ UNCHANGED <<req, registry, closed, chan, blockedBy, pendingWaiters,
                   activity>>

\* touch(), deferred first and so run last: its first half reads the clock.
ReadClock(g) ==
    /\ pc[g] = "touch"
    /\ stamp' = [stamp EXCEPT ![g] = {}]
    /\ Goto(g, "stamped")
    /\ UNCHANGED <<req, registry, closed, chan, blockedBy, pendingWaiters,
                   endsSinceTouch>>

\* What the receive loop and the goroutine of a frame do by themselves once
\* the frame is there.
Run(g) ==
    \/ StoreLastActive(g) \/ Reserve(g)
    \/ Acquire(g) \/ Block(g) \/ Wake(g) \/ GiveUp(g) \/ ReleaseWaiter(g)
    \/ SendBusy(g) \/ Remove(g) \/ CloseWake(g) \/ ReadClock(g)

Next == \E g \in Cmd : \/ \E r \in Request : Receive(g, r)
                        \/ Run(g) \/ Return(g)

Spec == Init /\ [][Next]_vars

\* The Go scheduler runs every runnable goroutine and the timer of a wait
\* fires.  Nothing is assumed of the handlers or of the server.
Fairness == \A g \in Cmd : WF_vars(Run(g))

FairSpec == Spec /\ Fairness

HandlersReturn == \A g \in Cmd : WF_vars(Return(g))

-----------------------------------------------------------------------------
(* Correctness *)

Holders       == {g \in Cmd : pc[g] \in {"admitted", "run", "remove"}}
Queued        == {g \in Cmd : pc[g] \in {"acquire", "wait", "admitted", "refused"}}
HeavyHolders  == {g \in Holders : /\ req[g].id \in DOMAIN entries
                                  /\ entries[req[g].id].class = "heavy"}
References(i) == {g \in Holders : req[g].id = i}
refCount(i)   == IF i \in DOMAIN entries THEN entries[i].refCount ELSE 0

\* The shape of the state; among it, that pendingWaiters never passes the cap
\* that tryReserveWaiter enforces.
TypeOK ==
    /\ pc \in [Cmd -> Control]
    /\ req \in [Cmd -> Request \cup {NoReq}]
    /\ \A g \in Cmd : pc[g] # "idle" => req[g] \in Request
    /\ DOMAIN entries \subseteq Id
    /\ \A i \in DOMAIN entries : entries[i] \in Entry
    /\ waitCh \in Nat
    /\ closed \subseteq Nat
    /\ chan \in [Cmd -> Nat]
    /\ blockedBy \in [Cmd -> Limit]
    /\ pendingWaiters \in 0 .. maxPendingSlotWaiters
    /\ stamp \in [Cmd -> SUBSET Cmd]
    /\ endsSinceTouch \subseteq Cmd

\* Every entry counts exactly the goroutines that still owe it a remove(), so
\* neither duplicates nor panics leak a unit or free one twice.
RegistryExact == \A i \in Id : refCount(i) = Cardinality(References(i))

\* No more goroutines hold a slot than max_concurrency allows, duplicates of
\* one cmd_id included (acquire's doc: not admitted unconditionally).
SlotsBounded == Cardinality(Holders) <= MaxConcurrency

\* The registry never accounts more heavy holders than max_heavy_concurrency,
\* whatever types a reused cmd_id arrives with.  It bounds the accounted class
\* and no more, and the code contradicts what is said of the commands' own types:
\* a "shell" duplicate of a light entry does "run heavy work without ever
\* consuming a heavy slot", which acquire's comment (client/inflight.go:147-156)
\* says the rule prevents, so there can be more heavy commands at work than the
\* "sub-limit for heavy commands" of README.md:119.
HeavyBounded == Cardinality(HeavyHolders) <= MaxHeavyConcurrency

\* pendingWaiters is the number of goroutines between their reservation and
\* the return of acquire(): it counts no command that runs, and no path out
\* of acquire() forgets it.
PendingExact == pendingWaiters = Cardinality(Queued)

\* A goroutine asleep on a channel that nobody is about to close is asleep
\* for a reason: the limit that stopped it is still reached.  (The wake-up by
\* close-and-replace in remove() is never lost.)
NoLostWakeup ==
    \A g \in Cmd :
        (/\ pc[g] = "wait"
         /\ chan[g] \notin closed
         /\ ~\E h \in Cmd : pc[h] = "close" /\ chan[h] = chan[g])
        => IF blockedBy[g] = "heavy" THEN heavyCount >= MaxHeavyConcurrency
                                     ELSE count >= MaxConcurrency

\* The refinement mapping: what the pool knows of a goroutine, by where it is.
statusOf(p) ==
    CASE p \in {"idle", "arrived", "reserve"}                 -> "new"
      [] p \in {"acquire", "wait"}                            -> "waiting"
      [] p \in {"admitted", "run", "remove"}                  -> "held"
      [] p \in {"close", "touch", "stamped", "done"}          -> "ended"
      [] p \in {"refused", "busy", "busyStamped", "rejected"} -> "refused"

\* The class a holder is accounted in: that of the entry it refers to.
accountOf(g) ==
    IF g \notin Holders THEN "none"
    ELSE IF g \in HeavyHolders THEN "heavy" ELSE "light"

status  == [g \in Cmd |-> statusOf(pc[g])]
account == [g \in Cmd |-> accountOf(g)]

\* Dispatch implements the slot pool.
Pool == INSTANCE SlotPool WITH status <- status, account <- account
ImplementsPool == Pool!Spec

\* A command never waits for a slot longer than its timeout, even if no
\* handler ever returns.
WaitIsBounded ==
    \A g \in Cmd : (pc[g] \in {"acquire", "wait"}) ~> (pc[g] \notin {"acquire", "wait"})

\* If handlers return or panic, every received command ends and the registry
\* and the waiter count return to zero: nothing leaks for good.
EverythingIsReturned ==
    HandlersReturn => <>[](/\ \A g \in Cmd : pc[g] \in {"idle", "done", "rejected"}
                           /\ count = 0
                           /\ pendingWaiters = 0)
=============================================================================
