--------------------------- MODULE BrowserProofs ----------------------------
(***************************************************************************)
(* What is proved of Browser for every number of commands, whatever they ask  *)
(* for, and every session limit.                                            *)
(***************************************************************************)
EXTENDS Browser, FiniteSetTheorems, TLAPS

\* The shape of the state, as far as the proofs need it.
Maybe == Call \cup {None}
CallShape == /\ pc \in [Call -> Control] /\ again \subseteq Call
             /\ on \in [Call -> Maybe] /\ session \in [Call -> Maybe]
             /\ \A c \in Call : pc[c] \in {"acquire", "act", "drain", "close"} => session[c] \in Call
             /\ \A c \in Call : pc[c] = "await" => on[c] \in Call
DriverShape == /\ installing \in Maybe /\ attempt \in [Call -> Attempt]
               /\ browser \in Maybe /\ chromes \subseteq Call
PoolShape == /\ IsFiniteSet(DOMAIN sessions) /\ sessions \in [DOMAIN sessions -> Call]
             /\ home \in [Call -> Maybe] /\ busy \in [Call -> Maybe \cup {Reaper, Closer}]
OthersShape == /\ reap \in [pc : {"off", "wait", "look", "close"}, todo : SUBSET Call,
                           look : Maybe, closing : SUBSET Call]
               /\ shut \in [pc : {"no", "closing", "closed", "exited"}, taken : SUBSET Call,
                           browser : Maybe, late : SUBSET Call]
Shape == CallShape /\ DriverShape /\ PoolShape /\ OthersShape

LEMMA ShapeInit == Init => Shape
BY FS_EmptySet DEF Init, Shape, CallShape, DriverShape, PoolShape, OthersShape, Maybe, Control,
                   Attempt

\* A session leaves the map.
LEMMA WithoutShape ==
    ASSUME PoolShape, NEW i, sessions' = Without(i), UNCHANGED home,
           busy' \in [Call -> Maybe \cup {Reaper, Closer}]
    PROVE  PoolShape'
<1>1. DOMAIN sessions' = DOMAIN sessions \ {i}
  BY DEF Without
<1>2. IsFiniteSet(DOMAIN sessions')
  BY <1>1, FS_Subset DEF PoolShape
<1> QED
  BY <1>1, <1>2 DEF PoolShape, Without

\* A set with one more member.
LEMMA OneMore ==
    ASSUME NEW S, NEW x, IsFiniteSet(S)
    PROVE  /\ IsFiniteSet(S \cup {x}) /\ Cardinality(S) \in Nat
           /\ Cardinality(S \cup {x}) <= Cardinality(S) + 1
<1>1. /\ IsFiniteSet(S \cup {x}) /\ Cardinality(S) \in Nat
      /\ Cardinality(S \cup {x}) = IF x \in S THEN Cardinality(S) ELSE Cardinality(S) + 1
  BY FS_AddElement, FS_CardinalityType
<1> QED
  BY <1>1

\* A step of a command.
LEMMA ShapeCall ==
    ASSUME Shape, NEW c \in Call, Step(c) \/ \E a \in Ask[c] : Begin(c, a)
    PROVE  Shape'
<1> USE BrowserAssumption DEF Shape, call, driver, pool, At, Goto, TakeOn, End, Maybe
<1>1. CASE \E a \in Ask[c] : Begin(c, a)
  BY <1>1 DEF Begin, CallShape, DriverShape, PoolShape, OthersShape, Control
<1>2. CASE Ensure(c)
  BY <1>2 DEF Ensure, Installed, Join, Attempts, CallShape, DriverShape, PoolShape,
              OthersShape, Control, Attempt
<1>3. CASE Awake(c)
  BY <1>3 DEF Awake, Installed, CallShape, DriverShape, PoolShape, OthersShape, Control
<1>4. CASE Launch(c) \/ LaunchFails(c)
  BY <1>4 DEF Launch, LaunchFails, CallShape, DriverShape, PoolShape, OthersShape, Control,
              Attempt
<1>5. CASE Publish(c)
  BY <1>5 DEF Publish, CallShape, DriverShape, PoolShape, OthersShape, Control
<1>6. CASE Settle(c)
  BY <1>6 DEF Settle, Installed, CallShape, DriverShape, PoolShape, OthersShape, Control,
              Attempt
<1>7. CASE Lookup(c)
  BY <1>7 DEF Lookup, Found, HandOut, CallShape, DriverShape, PoolShape, OthersShape, Control
<1>8. CASE Create(c) /\ sessions' = sessions
  BY <1>8 DEF Create, Found, New, HandOut, CallShape, DriverShape, PoolShape, OthersShape, Control
<1>9. CASE Create(c) /\ sessions' # sessions
  <2>1. /\ sessions' = [i \in DOMAIN sessions \cup {ask[c].id} |->
                          IF i = ask[c].id THEN c ELSE sessions[i]]
        /\ home' = [home EXCEPT ![c] = browser] /\ UNCHANGED busy /\ HandOut(c, c)
        /\ UNCHANGED <<driver, reap, shut>>
    BY <1>9 DEF Create, Found, New
  <2>2. DOMAIN sessions' = DOMAIN sessions \cup {ask[c].id}
    BY <2>1
  <2>3. IsFiniteSet(DOMAIN sessions')
    <3>1. IsFiniteSet(DOMAIN sessions)
      BY DEF PoolShape
    <3>2. IsFiniteSet(DOMAIN sessions \cup {ask[c].id})
      BY <3>1, OneMore
    <3> QED
      BY <2>2, <3>2
  <2>4. sessions' \in [DOMAIN sessions' -> Call]
    BY <2>1, <2>2 DEF PoolShape
  <2>5. home' \in [Call -> Maybe]
    BY <2>1 DEF PoolShape, DriverShape
  <2>6. PoolShape'
    BY <2>1, <2>3, <2>4, <2>5 DEF PoolShape
  <2> QED
    BY <2>1, <2>6 DEF HandOut, CallShape, DriverShape, OthersShape, Control
<1>10. CASE Acquire(c) \/ ActEnds(c) \/ Drain(c) \/ Close(c)
  BY <1>10 DEF Acquire, ActEnds, Drain, Close, Lock, Unlock, CloseContext, CallShape, DriverShape,
               PoolShape, OthersShape, Control
<1>11. CASE Remove(c)
  <2>1. CASE ask[c].id \in DOMAIN sessions
    <3>1. sessions' = Without(ask[c].id) /\ UNCHANGED <<home, busy>>
      BY <1>11, <2>1 DEF Remove
    <3>2. PoolShape'
      BY <3>1, WithoutShape DEF PoolShape
    <3> QED
      BY <1>11, <2>1, <3>2 DEF Remove, CallShape, DriverShape, PoolShape, OthersShape, Control
  <2>2. CASE ask[c].id \notin DOMAIN sessions
    BY <1>11, <2>2 DEF Remove, CallShape, DriverShape, PoolShape, OthersShape, Control
  <2> QED
    BY <2>1, <2>2
<1> QED
  BY <1>1, <1>2, <1>3, <1>4, <1>5, <1>6, <1>7, <1>8, <1>9, <1>10, <1>11 DEF Step

\* What the reaper keeps for itself.
LEMMA ReaperShape ==
    ASSUME OthersShape, NEW s \in Call, Look(s) \/ TryReap(s) \/ ReapClose(s)
    PROVE  OthersShape'
<1>1. CASE Look(s)
  BY <1>1 DEF Look, OthersShape, Maybe
<1>2. CASE TryReap(s)
  <2>1. CASE reap' = [reap EXCEPT !.look = None]
    BY <1>2, <2>1 DEF TryReap, OthersShape, Maybe
  <2>2. CASE reap' = [reap EXCEPT !.look = None, !.closing = reap.closing \cup {s}]
    BY <1>2, <2>2 DEF TryReap, OthersShape, Maybe
  <2> QED
    BY <1>2, <2>1, <2>2 DEF TryReap
<1>3. CASE ReapClose(s)
  BY <1>3 DEF ReapClose, OthersShape, Maybe
<1> QED
  BY <1>1, <1>2, <1>3

\* A step of the reaper, of Shutdown or of the clock.
LEMMA ShapeOthers ==
    ASSUME Shape, BackoffEnds \/ Tick \/ Reaping \/ (\E s \in Call : Idle(s))
                      \/ Shutdown \/ Shutting \/ Exit \/ UNCHANGED vars
    PROVE  Shape'
<1> USE BrowserAssumption DEF Shape, call, driver, pool, Maybe
<1>1. CASE BackoffEnds \/ (\E s \in Call : Idle(s)) \/ Exit \/ UNCHANGED vars
  BY <1>1 DEF BackoffEnds, Idle, Exit, vars, CallShape, DriverShape, PoolShape, OthersShape
<1> InMap \subseteq Call
  BY DEF InMap, PoolShape
<1>2. CASE Tick \/ Looked
  <2>1. OthersShape'
    BY <1>2 DEF Tick, Looked, OthersShape
  <2> QED
    BY <1>2, <2>1 DEF Tick, Looked, CallShape, DriverShape, PoolShape
<1>3. ASSUME NEW s \in Call, Look(s) \/ ReapClose(s) PROVE Shape'
  <2>1. OthersShape'
    BY <1>3, ReaperShape
  <2> QED
    BY <1>3, <2>1 DEF Look, ReapClose, Unlock, CloseContext, CallShape, DriverShape, PoolShape
<1>4. ASSUME NEW s \in Call, TryReap(s) PROVE Shape'
  <2>1. OthersShape'
    BY <1>4, ReaperShape
  <2>2. CASE UNCHANGED <<sessions, home, busy>>
    BY <1>4, <2>1, <2>2 DEF TryReap, CallShape, DriverShape, PoolShape
  <2>3. CASE /\ Lock(s, Reaper) /\ UNCHANGED home
             /\ sessions' = Without(CHOOSE i \in DOMAIN sessions : sessions[i] = s)
    <3>1. busy' \in [Call -> Maybe \cup {Reaper, Closer}]
      BY <2>3 DEF Lock, PoolShape
    <3>2. PoolShape'
      BY <2>3, <3>1, WithoutShape
    <3> QED
      BY <1>4, <2>1, <3>2 DEF TryReap, CallShape, DriverShape
  <2> QED
    BY <1>4, <2>2, <2>3 DEF TryReap
<1>5. CASE Shutdown
  BY <1>5, FS_EmptySet DEF Shutdown, InMap, CallShape, DriverShape, PoolShape, OthersShape
<1>6. ASSUME NEW s \in Call, ShutLock(s) \/ ShutClose(s) PROVE Shape'
  BY <1>6 DEF ShutLock, ShutClose, Lock, Unlock, CloseContext, CallShape, DriverShape, PoolShape,
              OthersShape
<1>7. CASE ShutBrowser
  BY <1>7 DEF ShutBrowser, CallShape, DriverShape, PoolShape, OthersShape
<1> QED
  BY <1>1, <1>2, <1>3, <1>4, <1>5, <1>6, <1>7 DEF Reaping, Shutting

-----------------------------------------------------------------------------
(* The one start of the browser.                                            *)

\* An install is under way for one call at a time, and as long as the browser is
\* not there; Shutdown knows which.
OneStart ==
    /\ \A c \in Call : pc[c] \in {"install", "publish", "settle"} => installing = c
    /\ \A c \in Call : pc[c] \in {"install", "publish"} =>
           browser = None /\ (ShuttingDown => c \in shut.late)

\* Until Shutdown, who has waited for the browser has it.
BrowserIsThere ==
    ~ShuttingDown =>
        /\ \A c \in Call : pc[c] \in {"settle", "lookup", "create"} => browser # None
        /\ \A c \in Call : attempt[c] = "ok" => browser # None

\* Whose Chromium runs.
ChromesKnown ==
    \A c \in chromes :
        \/ shut.pc = "no" /\ (c = browser \/ pc[c] = "publish")
        \/ shut.pc = "closing" /\ c = shut.browser
        \/ ShuttingDown /\ c \in shut.late

StartInv == OneStart /\ BrowserIsThere /\ ChromesKnown /\ SilentAtShutdown

LEMMA StartInit == Init => StartInv
BY BrowserAssumption DEF Init, StartInv, OneStart, BrowserIsThere, ChromesKnown,
                         SilentAtShutdown, ShuttingDown

\* EnsureInstalled, up to the launch of the browser.
LEMMA StartEnsures ==
    ASSUME Shape, StartInv, NEW c \in Call,
           Ensure(c) \/ Awake(c) \/ Launch(c) \/ LaunchFails(c)
    PROVE  StartInv'
<1> USE BrowserAssumption DEF Shape, CallShape, DriverShape, StartInv, ShuttingDown, At, Goto, Maybe
<1>1. CASE Ensure(c) /\ UNCHANGED <<installing, attempt>>
  BY <1>1 DEF Ensure, Installed, Join, Attempts, OneStart, BrowserIsThere, ChromesKnown,
              SilentAtShutdown
<1>2. CASE Ensure(c) /\ ~UNCHANGED <<installing, attempt>>
  <2>1. /\ browser = None /\ ~ShuttingDown /\ installing = None /\ installing' = c
        /\ attempt' = [attempt EXCEPT ![c] = "open"] /\ Goto(c, "install")
        /\ UNCHANGED <<browser, chromes, shut>>
    BY <1>2 DEF Ensure, Installed, Join, Attempts
  <2> QED
    BY <2>1 DEF OneStart, BrowserIsThere, ChromesKnown, SilentAtShutdown
<1>3. CASE Awake(c)
  BY <1>3 DEF Awake, Installed, driver, OneStart, BrowserIsThere, ChromesKnown, SilentAtShutdown
<1>4. CASE Launch(c)
  BY <1>4 DEF Launch, OneStart, BrowserIsThere, ChromesKnown, SilentAtShutdown
<1>5. CASE LaunchFails(c)
  BY <1>5 DEF LaunchFails, OneStart, BrowserIsThere, ChromesKnown, SilentAtShutdown
<1> QED
  BY <1>1, <1>2, <1>3, <1>4, <1>5

\* The browser is published, and what a command does with it.
LEMMA StartGoesOn ==
    ASSUME Shape, StartInv, NEW c \in Call,
           \/ Publish(c) \/ Settle(c) \/ Lookup(c) \/ Create(c) \/ Acquire(c) \/ ActEnds(c)
           \/ Remove(c) \/ Drain(c) \/ Close(c) \/ \E a \in Ask[c] : Begin(c, a)
    PROVE  StartInv'
<1> USE BrowserAssumption DEF Shape, CallShape, DriverShape, StartInv, ShuttingDown, At, Goto, TakeOn,
          End, Maybe, driver
<1>1. CASE Publish(c)
  BY <1>1 DEF Publish, OneStart, BrowserIsThere, ChromesKnown, SilentAtShutdown
<1>2. CASE Settle(c)
  BY <1>2 DEF Settle, Installed, OneStart, BrowserIsThere, ChromesKnown, SilentAtShutdown
<1>3. CASE Lookup(c)
  BY <1>3 DEF Lookup, Found, HandOut, OneStart, BrowserIsThere, ChromesKnown, SilentAtShutdown
<1>4. CASE Create(c)
  BY <1>4 DEF Create, Found, New, HandOut, OneStart, BrowserIsThere, ChromesKnown,
              SilentAtShutdown
<1>5. CASE Acquire(c) \/ ActEnds(c) \/ Remove(c)
  BY <1>5 DEF Acquire, ActEnds, Remove, OneStart, BrowserIsThere, ChromesKnown, SilentAtShutdown
<1>6. CASE Drain(c) \/ Close(c) \/ \E a \in Ask[c] : Begin(c, a)
  BY <1>6 DEF Drain, Close, Begin, OneStart, BrowserIsThere, ChromesKnown, SilentAtShutdown
<1> QED
  BY <1>1, <1>2, <1>3, <1>4, <1>5, <1>6

\* The reaper, Shutdown and the clock.
LEMMA StartOthers ==
    ASSUME Shape, StartInv, BackoffEnds \/ Tick \/ Reaping \/ (\E s \in Call : Idle(s))
                                \/ Shutdown \/ Shutting \/ Exit \/ UNCHANGED vars
    PROVE  StartInv'
<1> USE BrowserAssumption DEF Shape, CallShape, DriverShape, StartInv, ShuttingDown, call, driver, Maybe
<1>1. CASE UNCHANGED <<pc, installing, attempt, browser, chromes, shut>>
  BY <1>1 DEF OneStart, BrowserIsThere, ChromesKnown, SilentAtShutdown
<1>2. CASE BackoffEnds \/ Tick \/ Reaping \/ (\E s \in Call : Idle(s)) \/ UNCHANGED vars
  BY <1>1, <1>2 DEF BackoffEnds, Tick, Reaping, Look, TryReap, Looked, ReapClose, Idle, vars
<1>3. CASE Shutdown
  BY <1>3 DEF Shutdown, OneStart, BrowserIsThere, ChromesKnown, SilentAtShutdown
<1>4. ASSUME NEW s \in Call, ShutLock(s) \/ ShutClose(s) PROVE StartInv'
  BY <1>4 DEF ShutLock, ShutClose, OthersShape, OneStart, BrowserIsThere, ChromesKnown,
              SilentAtShutdown
<1>5. CASE ShutBrowser \/ Exit
  BY <1>5 DEF ShutBrowser, Exit, OthersShape, OneStart, BrowserIsThere, ChromesKnown,
              SilentAtShutdown
<1> QED
  BY <1>2, <1>3, <1>4, <1>5 DEF Shutting

LEMMA StartCorrect == Spec => [](Shape /\ StartInv)
<1>1. Shape /\ StartInv /\ [Next]_vars => Shape' /\ StartInv'
  BY ShapeCall, ShapeOthers, StartEnsures, StartGoesOn, StartOthers DEF Next, Step
<1> QED
  BY <1>1, ShapeInit, StartInit, PTL DEF Spec

\* Shutdown leaves no Chromium behind but one whose start it met
\* (browser.go, Shutdown and finishStart).
THEOREM LeftIsLateCorrect == Spec => []LeftIsLate
<1>1. StartInv => LeftIsLate
  BY DEF StartInv, ChromesKnown, LeftIsLate
<1> QED
  BY <1>1, StartCorrect, PTL

\* No command panics on a missing browser before Shutdown (browser.go,
\* getOrCreateSession).
THEOREM SilentCorrect == Spec => []SilentAtShutdown
<1>1. StartInv => SilentAtShutdown
  BY DEF StartInv
<1> QED
  BY <1>1, StartCorrect, PTL

-----------------------------------------------------------------------------
(* The contexts.                                                            *)

\* The reaper goes through the map under mu: what it has still to look at is there.
ReaperSees ==
    /\ reap.look # None => reap.pc = "look" /\ reap.look \notin reap.todo
    /\ reap.pc = "look" => reap.todo \subseteq InMap /\ reap.look \in InMap \cup {None}

TakenOnce == shut.pc = "no" => shut.taken = {}

\* Who acts on a session, or closes it, has its lock.
Locked ==
    /\ \A c \in Call : pc[c] \in {"act", "close"} => busy[session[c]] = c
    /\ \A s \in reap.closing : busy[s] = Reaper

\* The browser that Shutdown closes has no session left, and no other is started.
NothingAfter ==
    shut.pc = "closing" /\ shut.browser # None =>
        browser = None /\ DOMAIN sessions = {} /\ shut.late = {}

PoolInv == ContextsAccounted /\ ReaperSees /\ TakenOnce /\ Locked /\ NothingAfter

LEMMA PoolInit == Init => PoolInv
<1> SUFFICES ASSUME Init PROVE PoolInv
  OBVIOUS
<1>1. DOMAIN sessions = {}
  BY DEF Init
<1>2. Cardinality(DOMAIN sessions) <= maxSessions
  BY <1>1, FS_EmptySet, BrowserAssumption
<1> QED
  BY <1>1, <1>2 DEF Init, PoolInv, ContextsAccounted, ReaperSees, TakenOnce, Locked, NothingAfter,
                    IsOpen

\* TryReap, field by field.
LEMMA TryReapFields ==
    ASSUME OthersShape, NEW s \in Call, TryReap(s)
    PROVE  /\ reap.look = s /\ reap'.pc = reap.pc /\ reap'.look = None /\ reap'.todo = reap.todo
           /\ UNCHANGED <<call, driver, home, fresh, shut>>
           /\ \/ UNCHANGED pool /\ reap'.closing = reap.closing
              \/ /\ Lock(s, Reaper) /\ reap'.closing = reap.closing \cup {s}
                 /\ sessions' = Without(CHOOSE i \in DOMAIN sessions : sessions[i] = s)
<1>1. CASE UNCHANGED pool /\ reap' = [reap EXCEPT !.look = None]
  BY <1>1 DEF TryReap, OthersShape, pool
<1>2. CASE /\ Lock(s, Reaper) /\ UNCHANGED <<home, fresh>>
           /\ sessions' = Without(CHOOSE i \in DOMAIN sessions : sessions[i] = s)
           /\ reap' = [reap EXCEPT !.look = None, !.closing = reap.closing \cup {s}]
  BY <1>2 DEF TryReap, OthersShape
<1> QED
  BY <1>1, <1>2 DEF TryReap

\* Who acts on a session keeps its lock, and so does who closes it.
LEMMA LockedStep ==
    ASSUME Shape, Locked, [Next]_vars
    PROVE  Locked'
<1> USE BrowserAssumption DEF Shape, CallShape, PoolShape, Locked, At, Goto, TakeOn, End, Lock, Unlock,
          call, driver, pool
<1>1. ASSUME NEW c \in Call, Ensure(c) \/ Awake(c) \/ Launch(c) \/ LaunchFails(c) \/ Publish(c)
      PROVE  Locked'
  <2>1. UNCHANGED <<busy, session>>
    BY <1>1 DEF Ensure, Installed, Join, Attempts, Awake, Launch, LaunchFails, Publish
  <2>2. reap'.closing = reap.closing
    BY <1>1 DEF Ensure, Awake, Launch, LaunchFails, Publish, OthersShape
  <2>3. \A d \in Call : pc'[d] \in {"act", "close"} => pc'[d] = pc[d]
    BY <1>1 DEF Ensure, Installed, Join, Attempts, Awake, Launch, LaunchFails, Publish
  <2> QED
    BY <2>1, <2>2, <2>3
<1>2. ASSUME NEW c \in Call, \/ Settle(c) \/ Lookup(c) \/ Create(c) \/ Remove(c)
                              \/ \E a \in Ask[c] : Begin(c, a)
      PROVE  Locked'
  BY <1>2 DEF Settle, Installed, Lookup, Create, Found, New, HandOut, Remove, Begin
<1>3. ASSUME NEW c \in Call, Acquire(c) \/ Drain(c) PROVE Locked'
  <2>1. /\ session' = session /\ reap' = reap /\ session[c] \in Call
        /\ busy[session[c]] = None /\ busy' = [busy EXCEPT ![session[c]] = c]
        /\ \A d \in Call \ {c} : pc'[d] = pc[d]
    BY <1>3 DEF Acquire, Drain
  <2> QED
    BY <2>1
<1>4. ASSUME NEW c \in Call, ActEnds(c) \/ Close(c) PROVE Locked'
  BY <1>4 DEF ActEnds, Close, OthersShape
<1>5. ASSUME NEW s \in Call, Look(s) \/ TryReap(s) \/ ReapClose(s) PROVE Locked'
  <2>1. CASE Look(s)
    BY <2>1 DEF Look, OthersShape
  <2>2. CASE TryReap(s)
    <3>1. UNCHANGED <<pc, session>>
      BY <2>2 DEF TryReap
    <3>2. \/ busy' = busy /\ reap'.closing = reap.closing
          \/ /\ busy[s] = None /\ busy' = [busy EXCEPT ![s] = Reaper]
             /\ reap'.closing = reap.closing \cup {s}
      BY <2>2, TryReapFields
    <3>3. reap.closing \subseteq Call
      BY DEF OthersShape
    <3> QED
      BY <3>1, <3>2, <3>3
  <2>3. CASE ReapClose(s)
    BY <2>3 DEF ReapClose, OthersShape
  <2> QED
    BY <1>5, <2>1, <2>2, <2>3
<1>6. ASSUME NEW s \in Call, ShutLock(s) \/ ShutClose(s) PROVE Locked'
  BY <1>6 DEF ShutLock, ShutClose, OthersShape
<1>7. CASE \/ BackoffEnds \/ Tick \/ Looked \/ (\E s \in Call : Idle(s)) \/ Shutdown
           \/ ShutBrowser \/ Exit \/ UNCHANGED vars
  BY <1>7 DEF BackoffEnds, Tick, Looked, Idle, Shutdown, ShutBrowser, Exit, vars, OthersShape
<1> QED
  BY <1>1, <1>2, <1>3, <1>4, <1>5, <1>6, <1>7 DEF Next, Step, Reaping, Shutting

\* What the reaper has still to look at stays in the map, which it has locked.
LEMMA ReaperSeesStep ==
    ASSUME Shape, ReaperSees, TakenOnce, [Next]_vars
    PROVE  ReaperSees' /\ TakenOnce'
<1> USE BrowserAssumption DEF Shape, PoolShape, OthersShape, ReaperSees, TakenOnce, MuFree, call, driver,
          pool
<1>1. CASE UNCHANGED <<reap, sessions, shut>>
  BY <1>1 DEF InMap
<1>2. CASE reap.pc # "look" /\ reap' = reap /\ shut' = shut
  BY <1>2
<1>3. ASSUME NEW c \in Call, Step(c) \/ \E a \in Ask[c] : Begin(c, a) PROVE ReaperSees' /\ TakenOnce'
  <2>1. CASE Publish(c)
    BY <2>1 DEF Publish
  <2>2. CASE ~Publish(c)
    BY <1>1, <1>2, <1>3, <2>2 DEF Step, Ensure, Awake, Launch, LaunchFails, Settle, Lookup, Create,
       Acquire, ActEnds, Remove, Drain, Close, Begin, Found
  <2> QED
    BY <2>1, <2>2
<1>4. CASE Tick \/ Looked
  <2> InMap' = InMap /\ InMap \subseteq Call
    BY <1>4 DEF Tick, Looked, InMap
  <2>1. CASE Tick
    BY <2>1 DEF Tick
  <2>2. CASE Looked
    BY <2>2 DEF Looked
  <2> QED
    BY <1>4, <2>1, <2>2
<1>5. ASSUME NEW s \in Call, Look(s) PROVE ReaperSees' /\ TakenOnce'
  BY <1>5 DEF Look, InMap
<1>6. ASSUME NEW s \in Call, TryReap(s) PROVE ReaperSees' /\ TakenOnce'
  <2> /\ reap.look = s /\ reap'.pc = reap.pc /\ reap'.look = None /\ reap'.todo = reap.todo
      /\ shut' = shut
    BY <1>6, TryReapFields
  <2> reap.pc = "look" /\ s \notin reap.todo /\ reap.todo \subseteq InMap /\ s \in InMap
    OBVIOUS
  <2>1. CASE UNCHANGED pool
    BY <2>1 DEF InMap
  <2>2. CASE sessions' = Without(CHOOSE i \in DOMAIN sessions : sessions[i] = s)
    <3> DEFINE i == CHOOSE i \in DOMAIN sessions : sessions[i] = s
    <3>2. i \in DOMAIN sessions /\ sessions[i] = s
      BY DEF InMap
    <3>3. DOMAIN sessions' = DOMAIN sessions \ {i} /\ \A j \in DOMAIN sessions' : sessions'[j] = sessions[j]
      BY <2>2 DEF Without
    <3>4. InMap \subseteq InMap' \cup {s}
      BY <3>2, <3>3 DEF InMap
    <3> QED
      BY <3>4
  <2> QED
    BY <1>6, <2>1, <2>2, TryReapFields
<1>7. ASSUME NEW s \in Call, ReapClose(s) PROVE ReaperSees' /\ TakenOnce'
  BY <1>7 DEF ReapClose
<1>8. CASE Shutdown
  BY <1>8 DEF Shutdown
<1>9. ASSUME NEW s \in Call, ShutLock(s) \/ ShutClose(s) PROVE ReaperSees' /\ TakenOnce'
  BY <1>9 DEF ShutLock, ShutClose, InMap
<1>10. CASE ShutBrowser \/ Exit
  BY <1>10 DEF ShutBrowser, Exit, InMap
<1>11. CASE BackoffEnds \/ (\E s \in Call : Idle(s)) \/ UNCHANGED vars
  BY <1>1, <1>11 DEF BackoffEnds, Idle, vars
<1> QED
  BY <1>3, <1>4, <1>5, <1>6, <1>7, <1>8, <1>9, <1>10, <1>11 DEF Next, Reaping, Shutting

\* No browser comes up beside the one Shutdown closes.
LEMMA NothingAfterStep ==
    ASSUME Shape, StartInv, NothingAfter, [Next]_vars
    PROVE  NothingAfter'
<1> USE BrowserAssumption DEF Shape, DriverShape, StartInv, OneStart, NothingAfter, ShuttingDown, call,
          driver, pool
<1>1. CASE UNCHANGED <<shut, browser, sessions>>
  BY <1>1
<1>2. ASSUME NEW c \in Call, Step(c) \/ \E a \in Ask[c] : Begin(c, a) PROVE NothingAfter'
  <2>1. CASE Publish(c)
    BY <2>1 DEF Publish, At
  <2>2. CASE Create(c)
    BY <2>2, <1>1 DEF Create, Found, New
  <2>3. CASE Remove(c)
    BY <2>3, <1>1 DEF Remove
  <2>4. CASE ~Publish(c) /\ ~Create(c) /\ ~Remove(c)
    BY <1>1, <1>2, <2>4 DEF Step, Ensure, Awake, Launch, LaunchFails, Settle, Lookup, Found,
       Acquire, ActEnds, Drain, Close, Begin
  <2> QED
    BY <2>1, <2>2, <2>3, <2>4
<1>3. ASSUME NEW s \in Call, TryReap(s) PROVE NothingAfter'
  BY <1>3 DEF TryReap, Without
<1>4. CASE Shutdown
  BY <1>4 DEF Shutdown
<1>5. ASSUME NEW s \in Call, ShutLock(s) \/ ShutClose(s) PROVE NothingAfter'
  BY <1>5 DEF ShutLock, ShutClose, OthersShape
<1>6. CASE ShutBrowser \/ Exit
  BY <1>6 DEF ShutBrowser, Exit, OthersShape
<1>7. CASE \/ BackoffEnds \/ Tick \/ Looked \/ UNCHANGED vars
           \/ \E s \in Call : Idle(s) \/ Look(s) \/ ReapClose(s)
  BY <1>1, <1>7 DEF BackoffEnds, Tick, Looked, Idle, Look, ReapClose, vars
<1> QED
  BY <1>2, <1>3, <1>4, <1>5, <1>6, <1>7 DEF Next, Reaping, Shutting

\* No open context is lost.
Kept(s) == \/ s \in InMap \cup reap.closing \cup shut.taken
           \/ \E c \in Call : pc[c] \in {"drain", "close"} /\ session[c] = s
AllKept == \A s \in Call : IsOpen(s) => Kept(s)
Few     == Cardinality(DOMAIN sessions) <= maxSessions

\* The limit: sessions is extended by one entry below it, or loses some.
LEMMA FewStep ==
    ASSUME Shape, Few, [Next]_vars
    PROVE  Few'
<1> USE DEF call, driver, pool
<1>1. CASE UNCHANGED sessions
  BY <1>1 DEF Few
<1>2. CASE DOMAIN sessions' \subseteq DOMAIN sessions
  <2>1. /\ Cardinality(DOMAIN sessions') <= Cardinality(DOMAIN sessions)
        /\ Cardinality(DOMAIN sessions) \in Nat /\ Cardinality(DOMAIN sessions') \in Nat
    BY <1>2, FS_Subset, FS_CardinalityType DEF Shape, PoolShape
  <2> QED
    BY <2>1, BrowserAssumption DEF Few
<1>3. ASSUME NEW c \in Call, Create(c) PROVE Few'
  <2>1. CASE sessions' # sessions
    <3>1. /\ ~AtLimit /\ sessions' = [i \in DOMAIN sessions \cup {ask[c].id} |->
                                        IF i = ask[c].id THEN c ELSE sessions[i]]
      BY <1>3, <2>1 DEF Create, Found, New
    <3>2. DOMAIN sessions' = DOMAIN sessions \cup {ask[c].id}
      BY <3>1
    <3>3. IsFiniteSet(DOMAIN sessions)
      BY DEF Shape, PoolShape
    <3>4. /\ IsFiniteSet(DOMAIN sessions \cup {ask[c].id}) /\ Cardinality(DOMAIN sessions) \in Nat
          /\ Cardinality(DOMAIN sessions \cup {ask[c].id}) <= Cardinality(DOMAIN sessions) + 1
      BY <3>3, OneMore
    <3>5. Cardinality(DOMAIN sessions \cup {ask[c].id}) \in Nat
      BY <3>4, FS_CardinalityType
    <3> QED
      BY <3>1, <3>2, <3>4, <3>5, BrowserAssumption DEF Few, AtLimit
  <2> QED
    BY <1>1, <2>1
<1>4. ASSUME NEW c \in Call, Step(c) \/ \E a \in Ask[c] : Begin(c, a) PROVE Few'
  BY <1>1, <1>2, <1>3, <1>4 DEF Step, Ensure, Awake, Launch, LaunchFails, Publish, Settle, Lookup,
     Found, Acquire, ActEnds, Remove, Without, Drain, Close, Begin
<1>5. CASE \/ BackoffEnds \/ Tick \/ Looked \/ Shutdown \/ ShutBrowser \/ Exit \/ UNCHANGED vars
           \/ \E s \in Call : \/ Idle(s) \/ Look(s) \/ TryReap(s) \/ ReapClose(s)
                              \/ ShutLock(s) \/ ShutClose(s)
  BY <1>1, <1>2, <1>5 DEF BackoffEnds, Tick, Looked, Shutdown, ShutBrowser, Exit, Idle, Look, TryReap,
     Without, ReapClose, ShutLock, ShutClose, vars
<1> QED
  BY <1>4, <1>5 DEF Next, Reaping, Shutting

\* A command never drops a context: it creates one in the map, takes it out to
\* close it, and closes it.
LEMMA KeptByCall ==
    ASSUME Shape, AllKept, Locked, NEW c \in Call, Step(c) \/ \E a \in Ask[c] : Begin(c, a)
    PROVE  AllKept'
<1> USE BrowserAssumption DEF Shape, CallShape, PoolShape, AllKept, Kept, IsOpen, InMap, At, Goto, TakeOn,
          End, call, driver, pool
<1>1. ASSUME UNCHANGED <<sessions, home, shut>>, reap'.closing = reap.closing,
             \A d \in Call : pc[d] \in {"drain", "close"} =>
                 pc'[d] \in {"drain", "close"} /\ session'[d] = session[d]
      PROVE  AllKept'
  BY <1>1
<1>2. CASE \/ Ensure(c) \/ Awake(c) \/ Launch(c) \/ LaunchFails(c) \/ Publish(c) \/ Settle(c)
           \/ Lookup(c) \/ Acquire(c) \/ ActEnds(c) \/ Drain(c) \/ \E a \in Ask[c] : Begin(c, a)
  <2>1. UNCHANGED <<sessions, home, shut>> /\ reap'.closing = reap.closing
    BY <1>2 DEF Ensure, Awake, Launch, LaunchFails, Publish, Settle, Lookup, Found, Acquire, ActEnds,
                Drain, Begin, OthersShape
  <2>2. \A d \in Call : pc[d] \in {"drain", "close"} =>
            pc'[d] \in {"drain", "close"} /\ session'[d] = session[d]
    BY <1>2 DEF Ensure, Installed, Join, Attempts, Awake, Launch, LaunchFails, Publish, Settle, Lookup,
                Found, HandOut, Acquire, ActEnds, Drain, Begin
  <2> QED
    BY <1>1, <2>1, <2>2
<1>3. CASE Create(c)
  <2>1. /\ UNCHANGED <<reap, shut>> /\ pc[c] = "create"
        /\ \A d \in Call \ {c} : pc'[d] = pc[d] /\ session'[d] = session[d]
    BY <1>3 DEF Create, Found, New, HandOut
  <2>2. CASE UNCHANGED <<sessions, home>>
    BY <1>1, <2>1, <2>2
  <2>3. CASE ~UNCHANGED <<sessions, home>>
    <3>1. /\ ask[c].id \notin DOMAIN sessions /\ home' = [home EXCEPT ![c] = browser]
          /\ sessions' = [i \in DOMAIN sessions \cup {ask[c].id} |->
                            IF i = ask[c].id THEN c ELSE sessions[i]]
      BY <1>3, <2>3 DEF Create, Found, New
    <3>2. InMap \cup {c} \subseteq InMap'
      BY <3>1
    <3>3. \A s \in Call : Kept(s) => Kept(s)'
      BY <2>1, <3>2
    <3>4. \A s \in Call : home'[s] = home[s] \/ s = c
      BY <3>1
    <3>5. Kept(c)'
      BY <3>2
    <3> QED
      BY <3>3, <3>4, <3>5
  <2> QED
    BY <2>2, <2>3
<1>4. CASE Remove(c)
  <2>1. /\ UNCHANGED <<home, reap, shut>> /\ pc[c] = "remove"
        /\ \A d \in Call \ {c} : pc'[d] = pc[d] /\ session'[d] = session[d]
    BY <1>4 DEF Remove
  <2>2. CASE ask[c].id \in DOMAIN sessions
    <3>1. /\ pc'[c] = "drain" /\ session'[c] = sessions[ask[c].id]
          /\ sessions' = Without(ask[c].id)
      BY <1>4, <2>2 DEF Remove
    <3>2. InMap \subseteq InMap' \cup {session'[c]}
      BY <3>1 DEF Without
    <3>3. \A s \in Call : Kept(s) => Kept(s)'
      BY <2>1, <3>1, <3>2
    <3> QED
      BY <2>1, <3>3
  <2>3. CASE ask[c].id \notin DOMAIN sessions
    BY <1>1, <1>4, <2>1, <2>3 DEF Remove
  <2> QED
    BY <2>2, <2>3
<1>5. CASE Close(c)
  <2>1. /\ UNCHANGED <<sessions, reap, shut>> /\ pc[c] = "close"
        /\ \A d \in Call \ {c} : pc'[d] = pc[d] /\ session'[d] = session[d]
        /\ home' = [home EXCEPT ![session[c]] = None]
    BY <1>5 DEF Close, CloseContext
  <2> QED
    BY <2>1
<1> QED
  BY <1>2, <1>3, <1>4, <1>5 DEF Step

\* Neither do the reaper and Shutdown.
LEMMA KeptByOthers ==
    ASSUME Shape, AllKept, ReaperSees, TakenOnce,
           BackoffEnds \/ Tick \/ Reaping \/ (\E s \in Call : Idle(s))
               \/ Shutdown \/ Shutting \/ Exit \/ UNCHANGED vars
    PROVE  AllKept'
<1> USE BrowserAssumption DEF Shape, PoolShape, AllKept, Kept, IsOpen, call, driver, pool, CloseContext
<1>1. ASSUME NEW t, UNCHANGED <<pc, session>>, \A s \in Call : IsOpen(s)' => IsOpen(s) /\ s # t,
             InMap \cup reap.closing \cup shut.taken
                 \subseteq {t} \cup InMap' \cup reap'.closing \cup shut'.taken
      PROVE  AllKept'
  BY <1>1
<1>2. CASE \/ BackoffEnds \/ Tick \/ Looked \/ Exit \/ UNCHANGED vars
           \/ \E s \in Call : Idle(s) \/ Look(s) \/ ShutLock(s)
  <2>1. UNCHANGED <<sessions, home, pc, session>>
    BY <1>2 DEF BackoffEnds, Tick, Looked, Exit, Idle, Look, ShutLock, vars
  <2>2. shut'.taken = shut.taken
    BY <1>2 DEF BackoffEnds, Tick, Looked, Exit, Idle, Look, ShutLock, vars, OthersShape
  <2>3. reap'.closing = reap.closing
    BY <1>2, ZenonT(30) DEF BackoffEnds, Tick, Looked, Exit, Idle, Look, ShutLock, vars, OthersShape
  <2> QED
    BY <2>1, <2>2, <2>3 DEF InMap
<1>3. ASSUME NEW s \in Call, TryReap(s) PROVE AllKept'
  <2>1. UNCHANGED <<pc, session, home, shut>>
    BY <1>3 DEF TryReap
  <2>2. CASE UNCHANGED pool /\ reap'.closing = reap.closing
    BY <2>1, <2>2 DEF InMap
  <2>3. CASE /\ reap'.closing = reap.closing \cup {s}
             /\ sessions' = Without(CHOOSE i \in DOMAIN sessions : sessions[i] = s)
    <3> DEFINE i == CHOOSE i \in DOMAIN sessions : sessions[i] = s
    <3>1. s \in InMap
      BY <1>3 DEF TryReap, ReaperSees
    <3>2. i \in DOMAIN sessions /\ sessions[i] = s
      BY <3>1 DEF InMap
    <3>3. DOMAIN sessions' = DOMAIN sessions \ {i}
          /\ \A j \in DOMAIN sessions' : sessions'[j] = sessions[j]
      BY <2>3 DEF Without
    <3>4. InMap \subseteq InMap' \cup {s}
      BY <3>2, <3>3 DEF InMap
    <3> QED
      BY <2>1, <2>3, <3>4
  <2> QED
    BY <1>3, <2>2, <2>3, TryReapFields
<1>4. ASSUME NEW s \in Call, ReapClose(s) PROVE AllKept'
  <2>1. /\ UNCHANGED <<pc, session, sessions, shut>> /\ reap'.closing = reap.closing \ {s}
        /\ home' = [home EXCEPT ![s] = None]
    BY <1>4 DEF ReapClose, OthersShape
  <2> QED
    BY <1>1, <2>1 DEF InMap
<1>5. CASE Shutdown
  <2>1. UNCHANGED <<pc, session, home, reap>> /\ shut'.taken = InMap /\ shut.taken = {}
    BY <1>5 DEF Shutdown, TakenOnce
  <2> QED
    BY <2>1
<1>6. ASSUME NEW s \in Call, ShutClose(s) PROVE AllKept'
  <2>1. /\ UNCHANGED <<pc, session, sessions, reap>> /\ shut'.taken = shut.taken \ {s}
        /\ home' = [home EXCEPT ![s] = None]
    BY <1>6 DEF ShutClose, OthersShape
  <2> QED
    BY <1>1, <2>1 DEF InMap
<1>7. CASE ShutBrowser
  <2>1. /\ UNCHANGED <<pc, session, sessions, reap>> /\ shut'.taken = shut.taken
        /\ home' = [s \in Call |-> IF home[s] = shut.browser THEN None ELSE home[s]]
    BY <1>7 DEF ShutBrowser, OthersShape
  <2> QED
    BY <2>1 DEF InMap
<1> QED
  BY <1>2, <1>3, <1>4, <1>5, <1>6, <1>7 DEF Reaping, Shutting

LEMMA PoolCorrect == Spec => [](Shape /\ StartInv /\ PoolInv)
<1>1. Shape /\ StartInv /\ PoolInv /\ [Next]_vars => PoolInv'
  <2> SUFFICES ASSUME Shape, StartInv, PoolInv, [Next]_vars PROVE PoolInv'
    OBVIOUS
  <2>1. Locked' /\ ReaperSees' /\ TakenOnce' /\ NothingAfter'
    BY LockedStep, ReaperSeesStep, NothingAfterStep DEF PoolInv
  <2>2. Few' /\ AllKept'
    BY FewStep, KeptByCall, KeptByOthers DEF PoolInv, ContextsAccounted, Few, AllKept, Kept, Next
  <2> QED
    BY <2>1, <2>2 DEF PoolInv, ContextsAccounted, Few, AllKept, Kept
<1> QED
  BY <1>1, PoolInit, StartCorrect, PTL DEF Spec

\* No open context is lost, and max_browser_sessions is respected (browser.go,
\* getOrCreateSession, closeSession and reapOnce).
THEOREM ContextsCorrect == Spec => []ContextsAccounted
<1>1. PoolInv => ContextsAccounted
  BY DEF PoolInv
<1> QED
  BY <1>1, PoolCorrect, PTL

\* An action on an open page is never disturbed, but by Shutdown under a close
\* command that waits for it (browser.go, busyMu).
THEOREM ActionsCorrect == Spec => ActionsUndisturbed
<1> DEFINE Quiet(c) ==
             LET s == session[c] IN
               pc[c] = "act" /\ IsOpen(s) /\ pc'[c] = "act" /\ home'[s] = None
                 => /\ shut.pc = "closing" /\ shut'.pc = "closed"
                    /\ \E d \in Call : pc[d] = "drain" /\ session[d] = s
<1>1. ASSUME Shape, PoolInv, [Next]_vars, NEW c \in Call, pc[c] = "act", IsOpen(session[c]),
             pc'[c] = "act", home'[session[c]] = None
      PROVE  /\ shut.pc = "closing" /\ shut'.pc = "closed"
             /\ \E d \in Call : pc[d] = "drain" /\ session[d] = session[c]
  <2> DEFINE s == session[c]
  <2>1. s \in Call /\ busy[s] = c /\ home[s] # None /\ home'[s] = None
    BY <1>1 DEF Shape, CallShape, PoolInv, Locked, IsOpen
  <2>2. s \notin reap.closing /\ \A d \in Call : pc[d] = "close" => session[d] # s
    BY <1>1, <2>1, BrowserAssumption DEF PoolInv, Locked
  <2>3. ASSUME NEW d \in Call, Step(d) \/ \E a \in Ask[d] : Begin(d, a) PROVE FALSE
    <3>1. CASE Close(d)
      BY <2>1, <2>2, <3>1 DEF Close, CloseContext, At, Shape, PoolShape
    <3>2. CASE Create(d)
      <4>1. home' = home \/ (home' = [home EXCEPT ![d] = browser] /\ browser # None)
        BY <3>2 DEF Create, Found, New, pool
      <4> QED
        BY <1>1, <2>1, <4>1 DEF Shape, PoolShape
    <3>3. CASE ~Close(d) /\ ~Create(d)
      BY <2>1, <2>3, <3>3 DEF Step, Ensure, Awake, Launch, LaunchFails, Publish, Settle, Lookup, Found,
         Acquire, ActEnds, Remove, Drain, Begin, pool
    <3> QED
      BY <3>1, <3>2, <3>3
  <2>4. ASSUME NEW r \in Call, ReapClose(r) \/ ShutClose(r) PROVE FALSE
    <3>1. home' = [home EXCEPT ![r] = None] /\ (r \in reap.closing \/ busy[r] = Closer)
      BY <2>4 DEF ReapClose, ShutClose, CloseContext
    <3>2. r = s
      BY <1>1, <2>1, <3>1 DEF Shape, PoolShape
    <3> QED
      BY <2>1, <2>2, <3>1, <3>2, BrowserAssumption
  <2>5. home' # home
    BY <2>1
  <2>6. CASE ShutBrowser
    <3>1. /\ shut.pc = "closing" /\ shut.taken = {} /\ shut'.pc = "closed"
          /\ home' = [t \in Call |-> IF home[t] = shut.browser THEN None ELSE home[t]]
      BY <1>1, <2>6 DEF ShutBrowser, Shape, OthersShape
    <3>2. shut.browser # None
      BY <2>1, <3>1
    <3>3. InMap = {}
      BY <1>1, <3>1, <3>2 DEF PoolInv, NothingAfter, InMap
    <3>4. \E d \in Call : pc[d] \in {"drain", "close"} /\ session[d] = s
      BY <1>1, <2>1, <2>2, <3>1, <3>3 DEF PoolInv, ContextsAccounted, IsOpen
    <3> QED
      BY <2>2, <3>1, <3>4
  <2>7. CASE \/ BackoffEnds \/ Tick \/ Looked \/ Shutdown \/ Exit \/ UNCHANGED vars
             \/ \E t \in Call : Idle(t) \/ Look(t) \/ TryReap(t) \/ ShutLock(t)
    BY <2>5, <2>7 DEF BackoffEnds, Tick, Looked, Shutdown, Exit, vars, pool, Idle, Look, TryReap, ShutLock
  <2> QED
    BY <1>1, <2>3, <2>4, <2>6, <2>7 DEF Next, Reaping, Shutting
<1>2. Shape /\ PoolInv /\ [Next]_vars => [\A c \in Call : Quiet(c)]_vars
  BY <1>1
<1> QED
  BY <1>2, PoolCorrect, PTL DEF Spec, ActionsUndisturbed
=============================================================================
