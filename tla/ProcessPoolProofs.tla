------------------------- MODULE ProcessPoolProofs --------------------------
(***************************************************************************)
(* What is proved of ProcessPool for every number of Start calls, whatever   *)
(* their trees do, every set of ids and every setting of the two limits.     *)
(***************************************************************************)
EXTENDS ProcessPool, FiniteSetTheorems, TLAPS

\* The shape of the state, as far as the proofs need it.
Shape == /\ pc \in [Call -> Control] /\ leader \in [Call -> Leader]
         /\ idOf \in [Call -> Id \cup {"none"}]
         /\ IsFiniteSet(DOMAIN processes)
         /\ processes \in [DOMAIN processes -> Call]
         /\ descendants \subseteq Call /\ exited \subseteq Call

LEMMA ShapeInit == Init => Shape
BY FS_EmptySet DEF Init, Shape, Control, Leader

LEMMA ShapeStep == Shape /\ [Next]_vars => Shape'
<1> SUFFICES ASSUME Shape, [Next]_vars PROVE Shape'
  OBVIOUS
<1> USE DEF Shape, Goto, pool, tree
<1>1. ASSUME NEW s \in Call, NEW i \in Id, Begin(s, i) PROVE Shape'
  BY <1>1 DEF Begin, Control
<1>2. ASSUME NEW s \in Call, Launch(s) PROVE Shape'
  BY <1>2 DEF Launch, Control, Leader
<1>3. ASSUME NEW s \in Call, Register(s) PROVE Shape'
  <2>1. CASE idOf[s] \in DOMAIN processes
    BY <1>3, <2>1 DEF Register, Control
  <2>2. CASE idOf[s] \notin DOMAIN processes
    <3>1. /\ processes' = [i \in DOMAIN processes \cup {idOf[s]} |->
                             IF i = idOf[s] THEN s ELSE processes[i]]
          /\ pc' = [pc EXCEPT ![s] = "settle"] /\ UNCHANGED <<tree, idOf, exited>>
      BY <1>3, <2>2 DEF Register
    <3>2. DOMAIN processes' = DOMAIN processes \cup {idOf[s]}
      BY <3>1
    <3>3. IsFiniteSet(DOMAIN processes')
      BY <3>2, FS_AddElement
    <3> QED
      BY <3>1, <3>2, <3>3 DEF Control
  <2> QED
    BY <2>1, <2>2
<1>4. ASSUME NEW s \in Call, Settle(s) \/ WaitReturns(s) PROVE Shape'
  BY <1>4 DEF Settle, WaitReturns, Control
<1>5. ASSUME NEW s \in Call,
             RefuseKill(s) \/ StopKill(s) \/ ReapKill(s) \/ ShutdownKill(s)
      PROVE  Shape'
  BY <1>5 DEF RefuseKill, StopKill, ReapKill, ShutdownKill, KillTree, Control, Leader
<1>6. ASSUME NEW ids, processes' = Without(ids), UNCHANGED <<pc, idOf, tree, exited>>
      PROVE  Shape'
  <2>1. DOMAIN processes' = DOMAIN processes \ ids
    BY <1>6 DEF Without
  <2>2. IsFiniteSet(DOMAIN processes')
    BY <2>1, FS_Subset
  <2> QED
    BY <1>6, <2>1, <2>2 DEF Without
<1>7. ASSUME NEW s \in Call, Fork(s) \/ LeaderExits(s) \/ DescendantsExit(s) PROVE Shape'
  BY <1>7 DEF Fork, LeaderExits, DescendantsExit, Leader
<1>8. CASE \/ \E i \in Id : Stop(i)
           \/ \E overdue \in SUBSET DOMAIN processes : Reap(overdue)
           \/ Shutdown
  BY <1>6, <1>8 DEF Stop, Reap, Shutdown, tree
<1>9. CASE ExitRunner \/ UNCHANGED vars
  BY <1>9 DEF ExitRunner, vars
<1> QED
  BY <1>1, <1>2, <1>3, <1>4, <1>5, <1>7, <1>8, <1>9 DEF Next, Runner, System

-----------------------------------------------------------------------------
(* The limit and how far it is passed.                                      *)

\* The inductive invariant: a Start past its check counts as if it had an entry.
RoomInv == Cardinality(DOMAIN processes) + Cardinality(Starting)
               <= maxProcesses + MaxStarts - 1

\* Sets of calls are finite.
LEMMA CallsFinite ==
    ASSUME NEW S, S \subseteq Call
    PROVE  IsFiniteSet(S) /\ Cardinality(S) \in Nat
BY PoolAssumption, FS_Subset, FS_CardinalityType

\* A set gains at most one member with an element.
LEMMA OneMoreAtMost ==
    ASSUME NEW S, S \subseteq Call, NEW s
    PROVE  Cardinality(S \cup {s}) <= Cardinality(S) + 1
<1>1. IsFiniteSet(S) /\ Cardinality(S) \in Nat
  BY CallsFinite
<1>2. Cardinality(S \cup {s}) = IF s \in S THEN Cardinality(S) ELSE Cardinality(S) + 1
  BY <1>1, FS_AddElement
<1> QED
  BY <1>1, <1>2

\* Room that is enough stays enough when entries and starts only go.
LEMMA RoomShrinks ==
    ASSUME Shape, RoomInv, DOMAIN processes' \subseteq DOMAIN processes,
           Starting' \subseteq Starting
    PROVE  RoomInv'
<1>1. /\ Cardinality(DOMAIN processes') <= Cardinality(DOMAIN processes)
      /\ Cardinality(DOMAIN processes) \in Nat /\ Cardinality(DOMAIN processes') \in Nat
  BY FS_Subset, FS_CardinalityType DEF Shape
<1>2. Starting \subseteq Call /\ Starting' \subseteq Call
  BY DEF Starting
<1>3. /\ Cardinality(Starting') <= Cardinality(Starting)
      /\ Cardinality(Starting) \in Nat /\ Cardinality(Starting') \in Nat
  BY <1>2, CallsFinite, FS_Subset
<1> QED
  BY <1>1, <1>3, PoolAssumption DEF RoomInv

\* A Start that passes the check finds an entry and a dispatch slot free.
LEMMA BeginHasRoom ==
    ASSUME Shape, RoomInv, NEW s \in Call, NEW i \in Id, Begin(s, i)
    PROVE  RoomInv'
<1>1. processes' = processes
  BY DEF Begin, pool
<1>2. CASE ~CanStart(i)
  <2>1. Starting' \subseteq Starting
    BY <1>2 DEF Begin, Goto, Starting, Shape
  <2> QED
    BY <1>1, <2>1, RoomShrinks
<1>3. CASE CanStart(i)
  <2>1. Starting' \subseteq Starting \cup {s} /\ Starting \subseteq InCall
    BY <1>3 DEF Begin, Goto, Starting, InCall, Shape
  <2>2. InCall \subseteq Call /\ Starting \subseteq Call /\ Starting \cup {s} \subseteq Call
    BY DEF Starting, InCall
  <2>3. /\ Cardinality(Starting') <= Cardinality(Starting \cup {s})
        /\ Cardinality(Starting) <= Cardinality(InCall)
    BY <2>1, <2>2, CallsFinite, FS_Subset
  <2>4. Cardinality(Starting \cup {s}) <= Cardinality(Starting) + 1
    BY <2>2, OneMoreAtMost
  <2>5. Starting' \subseteq Call
    BY <2>1, <2>2
  <2>6. /\ Cardinality(Starting') \in Nat /\ Cardinality(Starting) \in Nat
        /\ Cardinality(InCall) \in Nat /\ Cardinality(Starting \cup {s}) \in Nat
        /\ Cardinality(DOMAIN processes) \in Nat
    BY <2>2, <2>5, CallsFinite, FS_CardinalityType DEF Shape
  <2>7. Cardinality(InCall) < MaxStarts /\ Cardinality(DOMAIN processes) < maxProcesses
    BY <1>3 DEF Begin, CanStart
  <2> QED
    BY <1>1, <2>3, <2>4, <2>6, <2>7, PoolAssumption DEF RoomInv
<1> QED
  BY <1>2, <1>3

\* A registration turns a start into an entry.
LEMMA RegisterKeepsRoom ==
    ASSUME Shape, RoomInv, NEW s \in Call, Register(s)
    PROVE  RoomInv'
<1>1. s \in Starting /\ Starting \subseteq Call
  BY DEF Register, Starting
<1>2. Starting' = Starting \ {s}
  BY DEF Register, Goto, Starting, Shape
<1>3. CASE idOf[s] \in DOMAIN processes
  BY <1>2, <1>3, RoomShrinks DEF Register
<1>4. CASE idOf[s] \notin DOMAIN processes
  <2>1. DOMAIN processes' = DOMAIN processes \cup {idOf[s]}
    BY <1>4 DEF Register
  <2>2. Cardinality(DOMAIN processes') = Cardinality(DOMAIN processes) + 1
    BY <1>4, <2>1, FS_AddElement DEF Shape
  <2>3. IsFiniteSet(Starting) /\ Cardinality(Starting) \in Nat
    BY <1>1, CallsFinite
  <2>4. Cardinality(Starting') = Cardinality(Starting) - 1
    BY <1>1, <1>2, <2>3, FS_RemoveElement
  <2>5. Cardinality(DOMAIN processes) \in Nat
    BY FS_CardinalityType DEF Shape
  <2> QED
    BY <2>2, <2>3, <2>4, <2>5, PoolAssumption DEF RoomInv
<1> QED
  BY <1>3, <1>4

LEMMA RoomStep == Shape /\ RoomInv /\ [Next]_vars => RoomInv'
<1> SUFFICES ASSUME Shape, RoomInv, [Next]_vars PROVE RoomInv'
  OBVIOUS
<1> USE DEF Starting, Goto, pool, tree
<1>1. ASSUME NEW s \in Call, Launch(s) \/ Settle(s) \/ RefuseKill(s) PROVE RoomInv'
  BY <1>1, RoomShrinks DEF Launch, Settle, RefuseKill, Shape
<1>2. ASSUME UNCHANGED <<pc, processes>> PROVE RoomInv'
  BY <1>2, RoomShrinks
<1>3. ASSUME NEW s \in Call, \/ WaitReturns(s) \/ StopKill(s) \/ ReapKill(s) \/ ShutdownKill(s)
                             \/ Fork(s) \/ LeaderExits(s) \/ DescendantsExit(s)
      PROVE  RoomInv'
  BY <1>2, <1>3 DEF WaitReturns, StopKill, ReapKill, ShutdownKill, Fork, LeaderExits,
                    DescendantsExit
<1>4. ASSUME NEW ids, processes' = Without(ids), UNCHANGED pc PROVE RoomInv'
  BY <1>4, RoomShrinks DEF Without
<1>5. CASE \/ \E i \in Id : Stop(i)
           \/ \E overdue \in SUBSET DOMAIN processes : Reap(overdue)
           \/ Shutdown
  BY <1>4, <1>5 DEF Stop, Reap, Shutdown
<1>6. CASE ExitRunner \/ UNCHANGED vars
  BY <1>2, <1>6 DEF ExitRunner, vars
<1> QED
  BY <1>1, <1>3, <1>5, <1>6, BeginHasRoom, RegisterKeepsRoom DEF Next, Runner, System

\* Concurrent Starts pass max_background_processes by no more than the Starts
\* that dispatch lets run beside each other (process.go, Start).
THEOREM OvershootCorrect == Spec => []OvershootBounded
<1>1. Init => RoomInv
  <2> SUFFICES ASSUME Init PROVE RoomInv
    OBVIOUS
  <2>1. DOMAIN processes = {} /\ Starting = {}
    BY DEF Init, Starting
  <2> QED
    BY <2>1, FS_EmptySet, PoolAssumption DEF RoomInv
<1>2. Shape /\ RoomInv => OvershootBounded
  <2> SUFFICES ASSUME Shape, RoomInv PROVE OvershootBounded
    OBVIOUS
  <2>1. Starting \subseteq Call
    BY DEF Starting
  <2>2. Cardinality(Starting) \in Nat /\ Cardinality(DOMAIN processes) \in Nat
    BY <2>1, CallsFinite, FS_CardinalityType DEF Shape
  <2> QED
    BY <2>2, PoolAssumption DEF RoomInv, OvershootBounded
<1> QED
  BY <1>1, <1>2, ShapeInit, ShapeStep, RoomStep, PTL DEF Spec

-----------------------------------------------------------------------------
(* No live tree out of reach.                                               *)

\* Whose exit has been seen was registered, and its leader has ended for good.
ExitedEnded == \A s \in exited : pc[s] \in {"settle", "answered"} /\ leader[s] # "running"

\* The inductive invariant.  Shutdown takes the pool over once, so it forgets
\* nothing that an earlier one had taken.
TreeInv == /\ NoLostTree
           /\ ExitedEnded
           /\ ~shuttingDown => toShut = {}

\* Nobody has to look for a tree that a kill has ended.
LEMMA KillEnds ==
    ASSUME Shape, NEW s \in Call, KillTree({s})
    PROVE  /\ Alive' \subseteq Alive \ {s}
           /\ \A t \in Call : leader[t] # "running" => leader'[t] # "running"
BY DEF KillTree, Alive, Shape

\* An entry stays, or leaves with the ids that are taken out.
LEMMA TakenOut ==
    ASSUME NEW ids, processes' = Without(ids)
    PROVE  Tracked \subseteq Tracked' \cup {processes[i] : i \in ids \cap DOMAIN processes}
BY DEF Without, Tracked

\* A step of a Start, or of the goroutine that waits for its process.
LEMMA TreeStart ==
    ASSUME Shape, TreeInv, NEW s \in Call,
           \/ \E i \in Id : Begin(s, i)
           \/ Launch(s) \/ Register(s) \/ RefuseKill(s) \/ Settle(s) \/ WaitReturns(s)
    PROVE  TreeInv'
<1> USE DEF TreeInv, NoLostTree, ExitedEnded, Goto, pool, tree
<1>1. ASSUME NEW i \in Id, Begin(s, i) PROVE TreeInv'
  BY <1>1 DEF Begin, Alive, Tracked, Shape
<1>2. CASE Launch(s)
  BY <1>2 DEF Launch, Alive, Tracked, Shape
<1>3. CASE Register(s)
  <2>1. CASE idOf[s] \in DOMAIN processes
    BY <1>3, <2>1 DEF Register, Alive, Tracked, Shape
  <2>2. CASE idOf[s] \notin DOMAIN processes
    <3>1. /\ processes' = [i \in DOMAIN processes \cup {idOf[s]} |->
                             IF i = idOf[s] THEN s ELSE processes[i]]
          /\ pc' = [pc EXCEPT ![s] = "settle"] /\ pc[s] = "launched"
      BY <1>3, <2>2 DEF Register
    <3>2. UNCHANGED <<leader, descendants, toStop, toReap, toShut, abandoned, exited,
                      shuttingDown, runnerUp>>
      BY <1>3, <2>2 DEF Register
    <3>3. Tracked \cup {s} \subseteq Tracked'
      BY <2>2, <3>1 DEF Tracked
    <3> QED
      BY <3>1, <3>2, <3>3 DEF Alive, Shape
  <2> QED
    BY <2>1, <2>2
<1>4. CASE RefuseKill(s)
  <2>1. KillTree({s}) /\ pc' = [pc EXCEPT ![s] = "refused"] /\ pc[s] = "unwanted"
    BY <1>4 DEF RefuseKill
  <2>2. UNCHANGED <<processes, toStop, toReap, toShut, abandoned, exited, shuttingDown, runnerUp>>
    BY <1>4 DEF RefuseKill
  <2>3. /\ Alive' \subseteq Alive \ {s}
        /\ \A t \in Call : leader[t] # "running" => leader'[t] # "running"
    BY <2>1, KillEnds
  <2>4. Alive \subseteq Call /\ Tracked' = Tracked
    BY <2>2 DEF Alive, Tracked, Shape
  <2>5. NoLostTree'
    BY <2>1, <2>2, <2>3, <2>4 DEF Shape
  <2> QED
    BY <2>1, <2>2, <2>3, <2>5 DEF Shape
<1>5. CASE Settle(s) \/ WaitReturns(s)
  BY <1>5 DEF Settle, WaitReturns, Alive, Tracked, Shape
<1> QED
  BY <1>1, <1>2, <1>3, <1>4, <1>5

\* Taken out of the pool, a tree is in the hands of who took it.
LEMMA TreeTake ==
    ASSUME Shape, TreeInv, runnerUp,
           \/ \E i \in Id : Stop(i)
           \/ \E overdue \in SUBSET DOMAIN processes : Reap(overdue)
           \/ Shutdown
    PROVE  TreeInv'
<1> USE DEF TreeInv, NoLostTree, ExitedEnded, tree
<1>1. ASSUME NEW i \in Id, Stop(i) PROVE TreeInv'
  <2>1. Tracked \subseteq Tracked' \cup {processes[i]}
    BY <1>1, TakenOut DEF Stop
  <2> QED
    BY <1>1, <2>1 DEF Stop, Alive
<1>2. ASSUME NEW overdue \in SUBSET DOMAIN processes, Reap(overdue) PROVE TreeInv'
  <2>1. Tracked \subseteq Tracked' \cup {processes[i] : i \in overdue}
    BY <1>2, TakenOut DEF Reap
  <2> QED
    BY <1>2, <2>1 DEF Reap, Alive
<1>3. CASE Shutdown
  BY <1>3 DEF Shutdown, Alive, Tracked
<1> QED
  BY <1>1, <1>2, <1>3

\* A kill, or a drop by the reaper of what has exited.
LEMMA TreeKill ==
    ASSUME Shape, TreeInv, NEW s \in Call, StopKill(s) \/ ReapKill(s) \/ ShutdownKill(s)
    PROVE  TreeInv'
<1> USE DEF TreeInv, NoLostTree, ExitedEnded, tree
<1>1. CASE KillTree({s})
  <2>1. /\ Alive' \subseteq Alive \ {s}
        /\ \A t \in Call : leader[t] # "running" => leader'[t] # "running"
    BY <1>1, KillEnds
  <2>2. /\ toStop \subseteq toStop' \cup {s} /\ toReap \subseteq toReap' \cup {s}
        /\ toShut \subseteq toShut' \cup {s} /\ abandoned \subseteq abandoned'
        /\ toShut' \subseteq toShut
        /\ UNCHANGED <<pc, processes, exited, shuttingDown, runnerUp>>
    BY <1>1 DEF StopKill, ReapKill, ShutdownKill
  <2>3. Alive \subseteq Call /\ Tracked' = Tracked
    BY <2>2 DEF Alive, Tracked, Shape
  <2>4. NoLostTree'
    BY <2>1, <2>2, <2>3 DEF Shape
  <2> QED
    BY <2>1, <2>2, <2>4 DEF Shape
<1>2. CASE UNCHANGED <<leader, descendants>>
  BY <1>2 DEF ReapKill, StopKill, ShutdownKill, KillTree, Alive, Tracked
<1> QED
  BY <1>1, <1>2 DEF StopKill, ReapKill, ShutdownKill

\* The exit of the runner waits for the kills of Shutdown, and a tree that grows
\* or ends by itself stays in the same hands.
LEMMA TreeOthers ==
    ASSUME Shape, TreeInv,
           ExitRunner \/ System \/ UNCHANGED vars
    PROVE  TreeInv'
<1> USE DEF TreeInv, NoLostTree, ExitedEnded, Alive, Tracked, pool, tree
<1>1. CASE ExitRunner
  BY <1>1 DEF ExitRunner
<1>2. ASSUME NEW s \in Call, Fork(s) PROVE TreeInv'
  BY <1>2 DEF Fork, Shape
<1>3. ASSUME NEW s \in Call, LeaderExits(s) PROVE TreeInv'
  BY <1>3 DEF LeaderExits, Shape
<1>4. ASSUME NEW s \in Call, DescendantsExit(s) PROVE TreeInv'
  BY <1>4 DEF DescendantsExit, Shape
<1>5. CASE UNCHANGED vars
  BY <1>5 DEF vars
<1> QED
  BY <1>1, <1>2, <1>3, <1>4, <1>5 DEF System

\* Every live tree is in the hands of a Start, of the pool or of whoever took it
\* out, but for what a leader that had exited left behind; so what outlives the
\* runner was in the hands of a Start, a Stop or the reaper, or registered too late,
\* when Shutdown emptied the pool (executor/process.go:256-261, 457-503).
THEOREM ReachCorrect == Spec => []NoLostTree
<1>1. Init => TreeInv
  BY DEF Init, TreeInv, NoLostTree, ExitedEnded, Alive
<1>2. Shape /\ TreeInv /\ [Next]_vars => TreeInv'
  BY TreeStart, TreeTake, TreeKill, TreeOthers DEF Next, Runner
<1>3. TreeInv => NoLostTree
  BY DEF TreeInv
<1> QED
  BY <1>1, <1>2, <1>3, ShapeInit, ShapeStep, PTL DEF Spec
=============================================================================
