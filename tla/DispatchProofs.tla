--------------------------- MODULE DispatchProofs ---------------------------
(***************************************************************************)
(* What is proved of Dispatch, and of the updater's questions to it           *)
(* (Quiesce), for every number of frames, ids and command types and every     *)
(* setting of the three limits.                                              *)
(***************************************************************************)
EXTENDS Quiesce, FiniteSetTheorems, TLAPS

-----------------------------------------------------------------------------
(* Type correctness *)

\* An entry that gains a reference, or is made, is an entry (acquire).
LEMMA AddRefType ==
    ASSUME TypeOK, NEW r \in Request
    PROVE  /\ DOMAIN AddRef(r) = DOMAIN entries \cup {r.id}
           /\ \A i \in DOMAIN AddRef(r) : AddRef(r)[i] \in Entry
<1> DEFINE E == AddRef(r)
<1>1. DOMAIN E = DOMAIN entries \cup {r.id}
  BY DEF AddRef
<1>2. ASSUME NEW i \in DOMAIN E PROVE E[i] \in Entry
  <2>1. CASE i # r.id
    BY <1>1, <2>1 DEF AddRef, TypeOK
  <2>2. CASE i = r.id /\ i \in DOMAIN entries
    <3>1. entries[i] \in Entry
      BY <2>2 DEF TypeOK
    <3>2. E[i] = [entries[i] EXCEPT !.refCount = @ + 1]
      BY <2>2 DEF AddRef
    <3> QED
      BY <3>1, <3>2 DEF Entry
  <2>3. CASE i = r.id /\ i \notin DOMAIN entries
    <3>1. effectiveClass(r) \in Class
      BY <2>3 DEF effectiveClass, classifyCommand, Class
    <3>2. E[i] = [class |-> effectiveClass(r), refCount |-> 1]
      BY <2>3 DEF AddRef
    <3> QED
      BY <3>1, <3>2 DEF Entry
  <2> QED
    BY <2>1, <2>2, <2>3
<1> QED
  BY <1>1, <1>2

\* An entry that keeps a reference is an entry (remove).
LEMMA DropRefType ==
    ASSUME TypeOK, NEW id \in DOMAIN entries
    PROVE  /\ DOMAIN DropRef(id) \subseteq DOMAIN entries
           /\ \A i \in DOMAIN DropRef(id) : DropRef(id)[i] \in Entry
<1>1. entries[id] \in Entry
  BY DEF TypeOK
<1>2. CASE entries[id].refCount <= 1
  BY <1>2 DEF DropRef, TypeOK
<1>3. CASE ~(entries[id].refCount <= 1)
  <2>1. DropRef(id) = [entries EXCEPT ![id].refCount = @ - 1]
    BY <1>3 DEF DropRef
  <2>2. [entries[id] EXCEPT !.refCount = @ - 1] \in Entry
    BY <1>1, <1>3 DEF Entry
  <2> QED
    BY <2>1, <2>2 DEF TypeOK
<1> QED
  BY <1>2, <1>3

\* The initial state has the type.
LEMMA TypeInit == Init => TypeOK
BY LimitsOK DEF Init, TypeOK, Control, Limit

\* Every step preserves the type.
LEMMA TypeStep == TypeOK /\ [Next]_vars => TypeOK'
<1> SUFFICES ASSUME TypeOK, [Next]_vars
             PROVE  TypeOK'
  OBVIOUS
<1> USE LimitsOK
<1>1. ASSUME NEW g \in Cmd, NEW r \in Request, Receive(g, r)
      PROVE  TypeOK'
  BY <1>1 DEF Receive, TypeOK, Goto, Control, registry
<1>2. ASSUME NEW g \in Cmd, StoreLastActive(g)
      PROVE  TypeOK'
  <2>1. /\ Goto(g, "reserve") \/ Goto(g, "done") \/ Goto(g, "rejected")
        /\ pc[g] # "idle"
    BY <1>2 DEF StoreLastActive, Stamped
  <2>2. pc' \in [Cmd -> Control] /\ \A h \in Cmd : pc'[h] # "idle" => pc[h] # "idle"
    BY <2>1 DEF TypeOK, Goto, Control
  <2> QED
    BY <1>2, <2>2 DEF StoreLastActive, TypeOK, registry
<1>3. ASSUME NEW g \in Cmd, Reserve(g)
      PROVE  TypeOK'
  BY <1>3 DEF Reserve, TypeOK, Goto, Control, registry, activity
<1>4. ASSUME NEW g \in Cmd, Acquire(g)
      PROVE  TypeOK'
  <2>1. req[g] \in Request
    BY <1>4 DEF Acquire, TypeOK
  <2>2. DOMAIN entries' \subseteq Id
    <3>1. entries' = AddRef(req[g]) /\ req[g].id \in Id
      BY <1>4, <2>1 DEF Acquire, Request
    <3>2. DOMAIN AddRef(req[g]) = DOMAIN entries \cup {req[g].id}
      BY <2>1, AddRefType
    <3> QED
      BY <3>1, <3>2 DEF TypeOK
  <2>3. \A i \in DOMAIN entries' : entries'[i] \in Entry
    BY <1>4, <2>1, AddRefType DEF Acquire
  <2> QED
    BY <1>4, <2>1, <2>2, <2>3 DEF Acquire, TypeOK, Goto, Control, activity
<1>5. ASSUME NEW g \in Cmd, Block(g)
      PROVE  TypeOK'
  BY <1>5 DEF Block, TypeOK, Goto, Control, Limit, registry, activity
<1>6. ASSUME NEW g \in Cmd, Wake(g)
      PROVE  TypeOK'
  BY <1>6 DEF Wake, TypeOK, Goto, Control, registry, activity
<1>7. ASSUME NEW g \in Cmd, GiveUp(g)
      PROVE  TypeOK'
  BY <1>7 DEF GiveUp, TypeOK, Goto, Control, registry, activity
<1>8. ASSUME NEW g \in Cmd, ReleaseWaiter(g)
      PROVE  TypeOK'
  BY <1>8 DEF ReleaseWaiter, TypeOK, Goto, Control, registry, activity
<1>9. ASSUME NEW g \in Cmd, SendBusy(g)
      PROVE  TypeOK'
  BY <1>9 DEF SendBusy, TypeOK, Goto, Control, registry
<1>10. ASSUME NEW g \in Cmd, Return(g)
       PROVE  TypeOK'
  BY <1>10 DEF Return, TypeOK, Goto, Control, registry, activity
<1>11. ASSUME NEW g \in Cmd, Remove(g)
       PROVE  TypeOK'
  <2>1. DOMAIN entries' \subseteq Id
    BY <1>11, DropRefType DEF Remove, TypeOK, registry
  <2>2. \A i \in DOMAIN entries' : entries'[i] \in Entry
    BY <1>11, DropRefType DEF Remove, TypeOK, registry
  <2>3. waitCh' \in Nat /\ chan' \in [Cmd -> Nat]
    BY <1>11 DEF Remove, TypeOK, registry
  <2>4. pc' \in [Cmd -> Control] /\ \A h \in Cmd : pc'[h] # "idle" => req'[h] \in Request
    BY <1>11 DEF Remove, TypeOK, Goto, Control
  <2>5. stamp' \in [Cmd -> SUBSET Cmd] /\ endsSinceTouch' \subseteq Cmd
    BY <1>11 DEF Remove, Ended, TypeOK
  <2> QED
    BY <1>11, <2>1, <2>2, <2>3, <2>4, <2>5 DEF Remove, TypeOK
<1>12. ASSUME NEW g \in Cmd, CloseWake(g)
       PROVE  TypeOK'
  BY <1>12 DEF CloseWake, TypeOK, Goto, Control, registry, activity
<1>13. ASSUME NEW g \in Cmd, ReadClock(g)
       PROVE  TypeOK'
  BY <1>13 DEF ReadClock, TypeOK, Goto, Control, registry
<1>14. CASE UNCHANGED vars
  BY <1>14 DEF vars, activity, TypeOK
<1> QED
  BY <1>1, <1>2, <1>3, <1>4, <1>5, <1>6, <1>7, <1>8, <1>9, <1>10, <1>11,
     <1>12, <1>13, <1>14 DEF Next, Run

\* Every reachable state has the shape the code relies on; in particular the
\* queue for slots never grows past maxPendingSlotWaiters.
THEOREM TypeCorrect == Spec => []TypeOK
<1> QED
  BY TypeInit, TypeStep, PTL DEF Spec

-----------------------------------------------------------------------------
(* The queue counter *)

\* The store of touch() takes a goroutine from inside touch() to what follows it.
LEMMA StoreMoves ==
    ASSUME TypeOK, NEW g \in Cmd, StoreLastActive(g)
    PROVE  /\ \/ pc[g] = "arrived" /\ pc'[g] = "reserve"
              \/ pc[g] = "stamped" /\ pc'[g] = "done"
              \/ pc[g] = "busyStamped" /\ pc'[g] = "rejected"
           /\ \A h \in Cmd \ {g} : pc'[h] = pc[h]
BY DEF StoreLastActive, Stamped, Goto, TypeOK

\* Any set of frames is finite, and so has a cardinality.
LEMMA FramesFinite == ASSUME NEW S, S \subseteq Cmd
                      PROVE  IsFiniteSet(S) /\ Cardinality(S) \in Nat
BY CmdFinite, FS_Subset, FS_CardinalityType

\* Adding a frame to a set of frames, or taking one out, moves its
\* cardinality by one.
LEMMA OneMore ==
    ASSUME NEW S, S \subseteq Cmd, NEW g \in Cmd, g \notin S
    PROVE  Cardinality(S \cup {g}) = Cardinality(S) + 1
BY FramesFinite, FS_AddElement

LEMMA OneLess ==
    ASSUME NEW S, S \subseteq Cmd, NEW g \in S
    PROVE  Cardinality(S \ {g}) = Cardinality(S) - 1 /\ Cardinality(S) > 0
<1>1. Cardinality(S \ {g}) = Cardinality(S) - 1
  BY FramesFinite, FS_RemoveElement
<1>2. Cardinality(S) # 0
  BY FramesFinite, FS_EmptySet
<1> QED
  BY <1>1, <1>2, FramesFinite

\* At the start nobody is queued and the counter is zero.
LEMMA PendingInit == Init => PendingExact
<1> SUFFICES ASSUME Init
             PROVE  PendingExact
  OBVIOUS
<1>1. Queued = {}
  BY DEF Init, Queued
<1> QED
  BY <1>1, FS_EmptySet DEF Init, PendingExact

\* A step moves the counter exactly as it moves the queue.
LEMMA PendingStep == TypeOK /\ PendingExact /\ [Next]_vars => PendingExact'
<1> SUFFICES ASSUME TypeOK, PendingExact, [Next]_vars
             PROVE  PendingExact'
  OBVIOUS
<1>0. Queued \subseteq Cmd
  BY DEF Queued
<1>1. ASSUME NEW g \in Cmd, Reserve(g)
      PROVE  PendingExact'
  <2>1. CASE pendingWaiters >= maxPendingSlotWaiters
    <3>1. Queued' = Queued
      BY <1>1, <2>1 DEF Reserve, TypeOK, Goto, Queued
    <3> QED
      BY <1>1, <2>1, <3>1 DEF Reserve, PendingExact
  <2>2. CASE ~(pendingWaiters >= maxPendingSlotWaiters)
    <3>1. Queued' = Queued \cup {g} /\ g \notin Queued
      BY <1>1, <2>2 DEF Reserve, TypeOK, Goto, Queued
    <3>2. pendingWaiters' = pendingWaiters + 1
      BY <1>1, <2>2 DEF Reserve
    <3> QED
      BY <1>0, <3>1, <3>2, OneMore DEF PendingExact
  <2> QED
    BY <2>1, <2>2
<1>2. ASSUME NEW g \in Cmd,
             \/ \E r \in Request : Receive(g, r)
             \/ StoreLastActive(g)
             \/ Acquire(g) \/ Block(g) \/ Wake(g) \/ GiveUp(g) \/ SendBusy(g)
             \/ Return(g) \/ CloseWake(g) \/ ReadClock(g)
      PROVE  PendingExact'
  <2>1. Queued' = Queued
    <3>1. CASE StoreLastActive(g)
      BY <3>1, StoreMoves DEF Queued
    <3>2. CASE ~StoreLastActive(g)
      BY <1>2, <3>2 DEF Receive, Acquire, Block, Wake, GiveUp, SendBusy, Return,
                        CloseWake, ReadClock, TypeOK, Goto, Queued
    <3> QED
      BY <3>1, <3>2
  <2>2. pendingWaiters' = pendingWaiters
    BY <1>2 DEF Receive, StoreLastActive, Acquire, Block, Wake, GiveUp, SendBusy,
                Return, CloseWake, ReadClock
  <2> QED
    BY <2>1, <2>2 DEF PendingExact
<1>3. ASSUME NEW g \in Cmd, ReleaseWaiter(g)
      PROVE  PendingExact'
  <2>1. Queued' = Queued \ {g} /\ g \in Queued
    BY <1>3 DEF ReleaseWaiter, TypeOK, Goto, Queued
  <2>2. Cardinality(Queued \ {g}) = Cardinality(Queued) - 1 /\ Cardinality(Queued) > 0
    BY <1>0, <2>1, OneLess
  <2>3. pendingWaiters' = pendingWaiters - 1
    BY <1>3, <2>2 DEF ReleaseWaiter, PendingExact
  <2> QED
    BY <2>1, <2>2, <2>3 DEF PendingExact
<1>4. ASSUME NEW g \in Cmd, Remove(g)
      PROVE  PendingExact'
  <2>1. Queued' = Queued
    BY <1>4 DEF Remove, TypeOK, Goto, Queued
  <2> QED
    BY <1>4, <2>1 DEF Remove, PendingExact
<1>5. CASE UNCHANGED vars
  BY <1>5 DEF vars, PendingExact, Queued
<1> QED
  BY <1>1, <1>2, <1>3, <1>4, <1>5 DEF Next, Run

\* pendingWaiters is exact in every reachable state: no path through
\* dispatchOne forgets to give a reservation back or gives it back twice.
THEOREM PendingCorrect == Spec => []PendingExact
<1>1. Init => TypeOK /\ PendingExact
  BY TypeInit, PendingInit
<1>2. TypeOK /\ PendingExact /\ [Next]_vars => (TypeOK /\ PendingExact)'
  BY TypeStep, PendingStep
<1> QED
  BY <1>1, <1>2, PTL DEF Spec

-----------------------------------------------------------------------------
(* Reference counts *)

\* What acquire() does to the counts: one more on the id of the frame, nothing
\* on any other, and no entry changes its class.
LEMMA AddRefCounts ==
    ASSUME TypeOK, NEW r \in Request, entries' = AddRef(r)
    PROVE  /\ refCount(r.id)' = refCount(r.id) + 1
           /\ \A i \in Id \ {r.id} : refCount(i)' = refCount(i)
           /\ \A i \in DOMAIN entries : entries'[i].class = entries[i].class
           /\ entries'[r.id].class = effectiveClass(r)
<1>1. DOMAIN entries' = DOMAIN entries \cup {r.id}
  BY DEF AddRef
<1>2. \A i \in DOMAIN entries \ {r.id} : entries'[i] = entries[i]
  BY DEF AddRef
<1>3. CASE r.id \in DOMAIN entries
  <2>1. entries'[r.id] = [entries[r.id] EXCEPT !.refCount = @ + 1]
    BY <1>3 DEF AddRef
  <2>2. entries[r.id] \in Entry
    BY <1>3 DEF TypeOK
  <2>3. /\ entries'[r.id].refCount = entries[r.id].refCount + 1
        /\ entries'[r.id].class = entries[r.id].class
    BY <2>1, <2>2 DEF Entry
  <2> QED
    BY <1>1, <1>2, <1>3, <2>3 DEF refCount, effectiveClass
<1>4. CASE r.id \notin DOMAIN entries
  <2>1. entries'[r.id] = [class |-> effectiveClass(r), refCount |-> 1]
    BY <1>4 DEF AddRef
  <2> QED
    BY <1>1, <1>2, <1>4, <2>1 DEF refCount
<1> QED
  BY <1>3, <1>4

\* What remove() does to them.
LEMMA DropRefCounts ==
    ASSUME TypeOK, NEW id \in DOMAIN entries, entries' = DropRef(id)
    PROVE  /\ refCount(id)' = refCount(id) - 1
           /\ \A i \in Id \ {id} : refCount(i)' = refCount(i)
           /\ DOMAIN entries \ {id} \subseteq DOMAIN entries'
           /\ DOMAIN entries' \subseteq DOMAIN entries
           /\ \A i \in DOMAIN entries' : entries'[i].class = entries[i].class
           /\ id \in DOMAIN entries' <=> refCount(id) > 1
<1>1. entries[id] \in Entry
  BY DEF TypeOK
<1>2. entries[id].refCount \in Nat \ {0} /\ refCount(id) = entries[id].refCount
  BY <1>1 DEF Entry, refCount
<1>3. CASE entries[id].refCount <= 1
  <2>1. entries' = [i \in DOMAIN entries \ {id} |-> entries[i]]
    BY <1>3 DEF DropRef
  <2> QED
    BY <1>2, <1>3, <2>1 DEF refCount
<1>4. CASE ~(entries[id].refCount <= 1)
  <2>1. entries' = [entries EXCEPT ![id].refCount = @ - 1]
    BY <1>4 DEF DropRef
  <2>2. DOMAIN entries' = DOMAIN entries
    BY <2>1
  <2>3. \A i \in DOMAIN entries \ {id} : entries'[i] = entries[i]
    BY <2>1
  <2>4. /\ entries'[id].refCount = entries[id].refCount - 1
        /\ entries'[id].class = entries[id].class
    BY <1>1, <2>1 DEF Entry
  <2> QED
    BY <1>2, <1>4, <2>2, <2>3, <2>4 DEF refCount
<1> QED
  BY <1>3, <1>4

\* At the start there is no entry and nobody holds a reference.
LEMMA RegistryInit == Init => RegistryExact
<1> SUFFICES ASSUME Init, NEW i \in Id
             PROVE  refCount(i) = Cardinality(References(i))
  BY DEF RegistryExact
<1>1. References(i) = {}
  BY DEF Init, References, Holders
<1>2. refCount(i) = 0
  BY DEF Init, refCount
<1> QED
  BY <1>1, <1>2, FS_EmptySet

\* acquire() and remove() move a count as they move the set of its holders,
\* and nothing else moves either.
LEMMA RegistryStep == TypeOK /\ RegistryExact /\ [Next]_vars => RegistryExact'
<1> SUFFICES ASSUME TypeOK, RegistryExact, [Next]_vars, NEW i \in Id
             PROVE  refCount(i)' = Cardinality(References(i))'
  BY DEF RegistryExact
<1>0. /\ refCount(i) = Cardinality(References(i))
      /\ References(i) \subseteq Cmd
  BY DEF RegistryExact, References, Holders
<1>1. ASSUME NEW g \in Cmd, NEW r \in Request, Receive(g, r)
      PROVE  refCount(i)' = Cardinality(References(i))'
  <2>1. References(i)' = References(i)
    BY <1>1 DEF Receive, TypeOK, Goto, References, Holders
  <2>2. refCount(i)' = refCount(i)
    BY <1>1 DEF Receive, registry, refCount
  <2> QED
    BY <1>0, <2>1, <2>2
<1>2. ASSUME NEW g \in Cmd, Acquire(g)
      PROVE  refCount(i)' = Cardinality(References(i))'
  <2>1. req[g] \in Request /\ entries' = AddRef(req[g])
    BY <1>2 DEF Acquire, TypeOK
  <2>2. CASE req[g].id = i
    <3>1. References(i)' = References(i) \cup {g} /\ g \notin References(i)
      BY <1>2, <2>2 DEF Acquire, TypeOK, Goto, References, Holders
    <3>2. refCount(i)' = refCount(i) + 1
      BY <2>1, <2>2, AddRefCounts
    <3> QED
      BY <1>0, <3>1, <3>2, OneMore
  <2>3. CASE req[g].id # i
    <3>1. References(i)' = References(i)
      BY <1>2, <2>3 DEF Acquire, TypeOK, Goto, References, Holders
    <3>2. refCount(i)' = refCount(i)
      BY <2>1, <2>3, AddRefCounts
    <3> QED
      BY <1>0, <3>1, <3>2
  <2> QED
    BY <2>2, <2>3
<1>3. ASSUME NEW g \in Cmd,
             \/ StoreLastActive(g) \/ Reserve(g)
             \/ Block(g) \/ Wake(g) \/ GiveUp(g) \/ ReleaseWaiter(g) \/ SendBusy(g)
             \/ Return(g) \/ CloseWake(g) \/ ReadClock(g)
      PROVE  refCount(i)' = Cardinality(References(i))'
  <2>1. References(i)' = References(i)
    <3>1. CASE StoreLastActive(g)
      <4>1. Holders' = Holders /\ req' = req
        BY <3>1, StoreMoves DEF StoreLastActive, Holders
      <4> QED
        BY <4>1 DEF References
    <3>2. CASE ~StoreLastActive(g)
      BY <1>3, <3>2 DEF Reserve, Block, Wake, GiveUp, ReleaseWaiter, SendBusy, Return,
                        CloseWake, ReadClock, TypeOK, Goto, References, Holders
    <3> QED
      BY <3>1, <3>2
  <2>2. refCount(i)' = refCount(i)
    BY <1>3 DEF StoreLastActive, Reserve, Block, Wake, GiveUp, ReleaseWaiter, SendBusy,
                Return, CloseWake, ReadClock, registry, refCount
  <2> QED
    BY <1>0, <2>1, <2>2
<1>4. ASSUME NEW g \in Cmd, Remove(g)
      PROVE  refCount(i)' = Cardinality(References(i))'
  <2>1. CASE req[g].id = i
    <3>1. References(i)' = References(i) \ {g} /\ g \in References(i)
      BY <1>4, <2>1 DEF Remove, TypeOK, Goto, References, Holders
    <3>2. /\ Cardinality(References(i) \ {g}) = Cardinality(References(i)) - 1
          /\ Cardinality(References(i)) > 0
      BY <1>0, <3>1, OneLess
    <3>3. i \in DOMAIN entries
      BY <1>0, <3>2 DEF refCount
    <3>4. entries' = DropRef(i)
      BY <1>4, <2>1, <3>3 DEF Remove
    <3> QED
      BY <1>0, <3>1, <3>2, <3>3, <3>4, DropRefCounts
  <2>2. CASE req[g].id # i
    <3>1. References(i)' = References(i)
      BY <1>4, <2>2 DEF Remove, TypeOK, Goto, References, Holders
    <3>2. refCount(i)' = refCount(i)
      <4>1. CASE req[g].id \in DOMAIN entries
        BY <1>4, <2>2, <4>1, DropRefCounts DEF Remove
      <4>2. CASE req[g].id \notin DOMAIN entries
        BY <1>4, <4>2 DEF Remove, registry, refCount
      <4> QED
        BY <4>1, <4>2
    <3> QED
      BY <1>0, <3>1, <3>2
  <2> QED
    BY <2>1, <2>2
<1>5. CASE UNCHANGED vars
  BY <1>0, <1>5 DEF vars, refCount, References, Holders
<1> QED
  BY <1>1, <1>2, <1>3, <1>4, <1>5 DEF Next, Run

\* Every entry counts exactly the goroutines that still owe it a remove(),
\* however often a cmd_id is reused and however the handlers end.
THEOREM RegistryCorrect == Spec => []RegistryExact
<1>1. Init => TypeOK /\ RegistryExact
  BY TypeInit, RegistryInit
<1>2. TypeOK /\ RegistryExact /\ [Next]_vars => (TypeOK /\ RegistryExact)'
  BY TypeStep, RegistryStep
<1> QED
  BY <1>1, <1>2, PTL DEF Spec

-----------------------------------------------------------------------------
(* Slots *)

\* count() and heavyCount() count the goroutines that hold a slot.
UnitsExact == /\ IsFiniteSet(Units)
              /\ Cardinality(Units) = Cardinality(Holders)
              /\ Cardinality(HeavyUnits) = Cardinality(HeavyHolders)

\* The inductive invariant: the two limits, and what makes the check in
\* acquire() measure the right thing.
SlotInv == TypeOK /\ RegistryExact /\ UnitsExact /\ SlotsBounded /\ HeavyBounded

\* The units of a map of entries, one by one.
LEMMA UnitsMembers ==
    ASSUME NEW E, NEW u
    PROVE  u \in UNION {{i} \X (1 .. E[i].refCount) : i \in DOMAIN E}
             <=> \E i \in DOMAIN E, k \in Nat :
                    k \in 1 .. E[i].refCount /\ u = <<i, k>>
OBVIOUS

\* A goroutine that holds a slot has an entry.
LEMMA HolderHasEntry ==
    ASSUME TypeOK, RegistryExact, NEW g \in Holders
    PROVE  req[g] \in Request /\ req[g].id \in Id /\ req[g].id \in DOMAIN entries
<1>1. req[g] \in Request /\ req[g].id \in Id
  BY DEF TypeOK, Holders, Request
<1>2. g \in References(req[g].id) /\ References(req[g].id) \subseteq Cmd
  BY DEF References, Holders
<1>3. Cardinality(References(req[g].id)) > 0
  BY <1>2, OneLess
<1>4. refCount(req[g].id) > 0
  BY <1>1, <1>3 DEF RegistryExact
<1> QED
  BY <1>1, <1>4 DEF refCount

\* acquire() adds the next unit of its id.
LEMMA AddRefUnits ==
    ASSUME TypeOK, NEW r \in Request, entries' = AddRef(r)
    PROVE  LET u == <<r.id, refCount(r.id) + 1>>
           IN  /\ Units' = Units \cup {u} /\ u \notin Units
               /\ HeavyUnits' = IF effectiveClass(r) = "heavy"
                                THEN HeavyUnits \cup {u} ELSE HeavyUnits
<1> DEFINE n == refCount(r.id)
           u == <<r.id, n + 1>>
<1>1. n \in Nat
  BY DEF TypeOK, Entry, refCount
<1>2. /\ r.id \in DOMAIN entries'
      /\ DOMAIN entries' = DOMAIN entries \cup {r.id}
      /\ entries'[r.id].refCount = n + 1
  <2>1. DOMAIN entries' = DOMAIN entries \cup {r.id}
    BY DEF AddRef
  <2>2. refCount(r.id)' = n + 1
    BY AddRefCounts
  <2> QED
    BY <2>1, <2>2 DEF refCount
<1>3. \A i \in DOMAIN entries \ {r.id} : entries'[i] = entries[i]
  BY DEF AddRef
<1>4. u \notin Units
  <2>1. ASSUME NEW i \in DOMAIN entries, NEW k \in Nat,
               k \in 1 .. entries[i].refCount, u = <<i, k>>
        PROVE  FALSE
    BY <1>1, <2>1 DEF refCount
  <2> QED
    BY <2>1, UnitsMembers DEF Units
<1>5. ASSUME NEW v \in Units PROVE v \in Units'
  <2>1. PICK i \in DOMAIN entries, k \in Nat :
           k \in 1 .. entries[i].refCount /\ v = <<i, k>>
    BY <1>5, UnitsMembers DEF Units
  <2>2. k \in 1 .. entries'[i].refCount
    <3>1. CASE i = r.id
      BY <1>1, <1>2, <2>1, <3>1 DEF refCount
    <3>2. CASE i # r.id
      BY <1>3, <2>1, <3>2
    <3> QED
      BY <3>1, <3>2
  <2> QED
    BY <1>2, <2>1, <2>2, UnitsMembers DEF Units
<1>6. u \in Units'
  <2>1. n + 1 \in 1 .. entries'[r.id].refCount
    BY <1>1, <1>2
  <2> QED
    BY <1>2, <2>1, UnitsMembers DEF Units
<1>7. ASSUME NEW v \in Units' PROVE v \in Units \cup {u}
  <2>1. PICK i \in DOMAIN entries', k \in Nat :
           k \in 1 .. entries'[i].refCount /\ v = <<i, k>>
    BY <1>7, UnitsMembers DEF Units
  <2>2. CASE i # r.id
    <3>1. i \in DOMAIN entries /\ k \in 1 .. entries[i].refCount
      BY <1>2, <1>3, <2>1, <2>2
    <3> QED
      BY <2>1, <3>1, UnitsMembers DEF Units
  <2>3. CASE i = r.id /\ k # n + 1
    <3>1. i \in DOMAIN entries /\ k \in 1 .. entries[i].refCount
      BY <1>1, <1>2, <2>1, <2>3 DEF refCount
    <3> QED
      BY <2>1, <3>1, UnitsMembers DEF Units
  <2>4. CASE i = r.id /\ k = n + 1
    BY <2>1, <2>4
  <2> QED
    BY <2>2, <2>3, <2>4
<1>8. Units' = Units \cup {u}
  BY <1>5, <1>6, <1>7
<1>9. \A v \in Units : entries'[v[1]].class = entries[v[1]].class
  <2>1. \A v \in Units : v[1] \in DOMAIN entries
    BY UnitsMembers DEF Units
  <2> QED
    BY <2>1, AddRefCounts
<1>10. entries'[u[1]].class = effectiveClass(r)
  BY AddRefCounts
<1> QED
  BY <1>4, <1>8, <1>9, <1>10 DEF HeavyUnits

\* remove() takes the last unit of its id.
LEMMA DropRefUnits ==
    ASSUME TypeOK, NEW id \in DOMAIN entries, entries' = DropRef(id)
    PROVE  LET u == <<id, refCount(id)>>
           IN  /\ Units' = Units \ {u} /\ u \in Units
               /\ HeavyUnits' = HeavyUnits \ {u}
               /\ u \in HeavyUnits <=> entries[id].class = "heavy"
<1> DEFINE n == refCount(id)
           u == <<id, n>>
<1>1. n \in Nat \ {0} /\ n = entries[id].refCount
  BY DEF TypeOK, Entry, refCount
<1>2. u \in Units
  <2>1. n \in 1 .. entries[id].refCount
    BY <1>1
  <2> QED
    BY <2>1, UnitsMembers DEF Units
<1>3. \A i \in DOMAIN entries \ {id} : i \in DOMAIN entries' /\ entries'[i] = entries[i]
  BY DEF DropRef
<1>4. id \in DOMAIN entries' => entries'[id].refCount = n - 1
  BY DropRefCounts DEF refCount
<1>5. n > 1 => id \in DOMAIN entries'
  BY DropRefCounts
<1>6. ASSUME NEW v \in Units, v # u PROVE v \in Units'
  <2>1. PICK i \in DOMAIN entries, k \in Nat :
           k \in 1 .. entries[i].refCount /\ v = <<i, k>>
    BY <1>6, UnitsMembers DEF Units
  <2>2. i \in DOMAIN entries' /\ k \in 1 .. entries'[i].refCount
    <3>1. CASE i # id
      BY <1>3, <2>1, <3>1
    <3>2. CASE i = id
      <4>1. k # n /\ k \in 1 .. n
        BY <1>1, <1>6, <2>1, <3>2
      <4> QED
        BY <1>1, <1>4, <1>5, <3>2, <4>1
    <3> QED
      BY <3>1, <3>2
  <2> QED
    BY <2>1, <2>2, UnitsMembers DEF Units
<1>7. ASSUME NEW v \in Units' PROVE v \in Units /\ v # u
  <2>1. PICK i \in DOMAIN entries', k \in Nat :
           k \in 1 .. entries'[i].refCount /\ v = <<i, k>>
    BY <1>7, UnitsMembers DEF Units
  <2>2. i \in DOMAIN entries
    BY <2>1, DropRefCounts
  <2>3. k \in 1 .. entries[i].refCount /\ v # u
    <3>1. CASE i # id
      BY <1>3, <2>1, <2>2, <3>1
    <3>2. CASE i = id
      BY <1>1, <1>4, <2>1, <3>2
    <3> QED
      BY <3>1, <3>2
  <2> QED
    BY <2>1, <2>2, <2>3, UnitsMembers DEF Units
<1>8. Units' = Units \ {u}
  BY <1>6, <1>7
<1>9. \A v \in Units' : entries'[v[1]].class = entries[v[1]].class
  <2>1. \A v \in Units' : v[1] \in DOMAIN entries'
    BY UnitsMembers DEF Units
  <2> QED
    BY <2>1, DropRefCounts
<1> QED
  BY <1>2, <1>8, <1>9 DEF HeavyUnits

\* Only acquire() and remove() touch the entries or the set of holders.
LEMMA SlotFrame ==
    ASSUME TypeOK, [Next]_vars,
           ~\E g \in Cmd : Acquire(g), ~\E g \in Cmd : Remove(g)
    PROVE  /\ entries' = entries
           /\ Holders' = Holders
           /\ \A h \in Holders : req'[h] = req[h]
<1>1. ASSUME NEW g \in Cmd, NEW r \in Request, Receive(g, r)
      PROVE  entries' = entries /\ Holders' = Holders /\ \A h \in Holders : req'[h] = req[h]
  BY <1>1 DEF Receive, registry, TypeOK, Goto, Holders
<1>2. ASSUME NEW g \in Cmd,
             \/ Reserve(g)
             \/ Block(g) \/ Wake(g) \/ GiveUp(g) \/ ReleaseWaiter(g) \/ SendBusy(g)
             \/ Return(g) \/ CloseWake(g) \/ ReadClock(g)
      PROVE  entries' = entries /\ Holders' = Holders /\ \A h \in Holders : req'[h] = req[h]
  BY <1>2 DEF Reserve, Block, Wake, GiveUp, ReleaseWaiter, SendBusy, Return, CloseWake,
              ReadClock, registry, TypeOK, Goto, Holders
<1>3. CASE UNCHANGED vars
  BY <1>3 DEF vars, Holders
<1>4. ASSUME NEW g \in Cmd, StoreLastActive(g)
      PROVE  entries' = entries /\ Holders' = Holders /\ \A h \in Holders : req'[h] = req[h]
  BY <1>4, StoreMoves DEF StoreLastActive, registry, Holders
<1> QED
  BY <1>1, <1>2, <1>3, <1>4 DEF Next, Run

\* The initial state satisfies the invariant: nothing is held.
LEMMA SlotInit == Init => SlotInv
<1> SUFFICES ASSUME Init
             PROVE  SlotInv
  OBVIOUS
<1>1. Holders = {} /\ HeavyHolders = {}
  BY DEF Init, Holders, HeavyHolders
<1>2. Units = {} /\ HeavyUnits = {}
  BY DEF Init, Units, HeavyUnits
<1>3. UnitsExact /\ SlotsBounded /\ HeavyBounded
  BY <1>1, <1>2, FS_EmptySet, LimitsOK DEF UnitsExact, SlotsBounded, HeavyBounded
<1> QED
  BY <1>3, TypeInit, RegistryInit DEF SlotInv

\* An admission makes its goroutine a holder, in the class of the entry it joins
\* or makes; the entries of the other holders keep theirs.
LEMMA AcquireHolds ==
    ASSUME SlotInv, NEW g \in Cmd, Acquire(g)
    PROVE  /\ Holders' = Holders \cup {g} /\ g \notin Holders
           /\ HeavyHolders' = IF effectiveClass(req[g]) = "heavy"
                              THEN HeavyHolders \cup {g} ELSE HeavyHolders
<1> DEFINE r == req[g]
<1>1. r \in Request /\ r.id \in Id /\ entries' = AddRef(r) /\ TypeOK /\ RegistryExact
  BY DEF SlotInv, Acquire, TypeOK, Request
<1>2. Holders' = Holders \cup {g} /\ g \notin Holders /\ req' = req
  BY <1>1 DEF Acquire, TypeOK, Goto, Holders
<1>3. /\ r.id \in DOMAIN entries'
      /\ DOMAIN entries \subseteq DOMAIN entries'
      /\ entries'[r.id].class = effectiveClass(r)
      /\ \A i \in DOMAIN entries : entries'[i].class = entries[i].class
  BY <1>1, AddRefCounts DEF AddRef
<1>4. \A h \in Holders : req[h].id \in DOMAIN entries
  BY <1>1, HolderHasEntry
<1>5. \A h \in Holders : h \in HeavyHolders' <=> h \in HeavyHolders
  BY <1>2, <1>3, <1>4 DEF HeavyHolders
<1>6. g \in HeavyHolders' <=> effectiveClass(r) = "heavy"
  BY <1>2, <1>3 DEF HeavyHolders
<1>7. HeavyHolders' \subseteq Holders \cup {g} /\ HeavyHolders \subseteq Holders
  BY <1>2 DEF HeavyHolders
<1> QED
  BY <1>2, <1>5, <1>6, <1>7

\* An admission keeps the counts exact and the limits: it is checked against
\* the counts, and the counts are the holders.
LEMMA SlotAcquire ==
    ASSUME SlotInv, NEW g \in Cmd, Acquire(g)
    PROVE  UnitsExact' /\ SlotsBounded' /\ HeavyBounded'
<1> DEFINE r == req[g]
           u == <<r.id, refCount(r.id) + 1>>
<1>1. r \in Request /\ r.id \in Id /\ entries' = AddRef(r) /\ TypeOK /\ RegistryExact
  BY DEF SlotInv, Acquire, TypeOK, Request
<1>2. Holders' = Holders \cup {g} /\ g \notin Holders
  BY AcquireHolds
<1>3. /\ Units' = Units \cup {u} /\ u \notin Units
      /\ HeavyUnits' = IF effectiveClass(r) = "heavy"
                       THEN HeavyUnits \cup {u} ELSE HeavyUnits
  BY <1>1, AddRefUnits
<1>4. IsFiniteSet(Units) /\ IsFiniteSet(HeavyUnits) /\ u \notin HeavyUnits
  BY <1>3, FS_Subset DEF SlotInv, UnitsExact, HeavyUnits
<1>5. Holders \subseteq Cmd /\ HeavyHolders \subseteq Cmd /\ g \notin HeavyHolders
  BY <1>2 DEF Holders, HeavyHolders
<1>6. HeavyHolders' = IF effectiveClass(r) = "heavy"
                      THEN HeavyHolders \cup {g} ELSE HeavyHolders
  BY AcquireHolds
<1>7. UnitsExact'
  <2>1. /\ IsFiniteSet(Units')
        /\ Cardinality(Units') = Cardinality(Units) + 1
    BY <1>3, <1>4, FS_AddElement
  <2>2. Cardinality(Holders') = Cardinality(Holders) + 1
    BY <1>2, <1>5, OneMore
  <2>3. CASE effectiveClass(r) = "heavy"
    <3>1. Cardinality(HeavyUnits') = Cardinality(HeavyUnits) + 1
      BY <1>3, <1>4, <2>3, FS_AddElement
    <3>2. Cardinality(HeavyHolders') = Cardinality(HeavyHolders) + 1
      BY <1>5, <1>6, <2>3, OneMore
    <3> QED
      BY <2>1, <2>2, <3>1, <3>2 DEF SlotInv, UnitsExact
  <2>4. CASE effectiveClass(r) # "heavy"
    BY <1>3, <1>6, <2>1, <2>2, <2>4 DEF SlotInv, UnitsExact
  <2> QED
    BY <2>3, <2>4
<1>8. SlotsBounded'
  <2>1. ~(Cardinality(Holders) >= MaxConcurrency)
    BY DEF SlotInv, UnitsExact, Acquire, Admissible, globalFull, count
  <2>2. Cardinality(Holders') = Cardinality(Holders) + 1
    BY <1>2, <1>5, OneMore
  <2>3. Cardinality(Holders) \in Nat
    BY <1>5, FramesFinite
  <2> QED
    BY <2>1, <2>2, <2>3, LimitsOK DEF SlotsBounded
<1>9. HeavyBounded'
  <2>1. CASE effectiveClass(r) = "heavy"
    <3>1. ~(Cardinality(HeavyHolders) >= MaxHeavyConcurrency)
      BY <2>1 DEF SlotInv, UnitsExact, Acquire, Admissible, heavyFull, heavyCount
    <3>2. Cardinality(HeavyHolders') = Cardinality(HeavyHolders) + 1
      BY <1>5, <1>6, <2>1, OneMore
    <3>3. Cardinality(HeavyHolders) \in Nat
      BY <1>5, FramesFinite
    <3> QED
      BY <3>1, <3>2, <3>3, LimitsOK DEF HeavyBounded
  <2>2. CASE effectiveClass(r) # "heavy"
    BY <1>6, <2>2 DEF SlotInv, HeavyBounded
  <2> QED
    BY <2>1, <2>2
<1> QED
  BY <1>7, <1>8, <1>9

\* A removal ends the hold of the goroutine that runs it and no other: an entry
\* that goes had no holder left.
LEMMA RemoveHolds ==
    ASSUME SlotInv, NEW g \in Cmd, Remove(g)
    PROVE  /\ Holders' = Holders \ {g} /\ g \in Holders
           /\ HeavyHolders' = HeavyHolders \ {g}
           /\ req[g].id \in DOMAIN entries
<1> DEFINE id == req[g].id
<1>1. TypeOK /\ RegistryExact /\ g \in Holders
  BY DEF SlotInv, Remove, Holders
<1>2. id \in Id /\ id \in DOMAIN entries
  BY <1>1, HolderHasEntry
<1>3. entries' = DropRef(id)
  BY <1>2 DEF Remove
<1>4. Holders' = Holders \ {g} /\ req' = req
  BY <1>1, <1>2 DEF Remove, TypeOK, Goto, Holders
<1>5. ASSUME NEW h \in Holders, h # g
      PROVE  req[h].id \in DOMAIN entries /\ req[h].id \in DOMAIN entries'
  <2>1. req[h].id \in DOMAIN entries
    BY <1>1, HolderHasEntry
  <2>2. CASE req[h].id # id
    BY <1>1, <1>2, <1>3, <2>1, <2>2, DropRefCounts
  <2>3. CASE req[h].id = id
    <3>1. /\ References(id) \subseteq Cmd
          /\ g \in References(id) /\ h \in References(id) \ {g}
      BY <1>1, <1>5, <2>3 DEF References, Holders
    <3>2. Cardinality(References(id) \ {g}) = Cardinality(References(id)) - 1
      BY <3>1, OneLess
    <3>3. Cardinality(References(id) \ {g}) > 0
      BY <3>1, OneLess
    <3>4. refCount(id) > 1
      BY <1>1, <1>2, <3>1, <3>2, <3>3, FramesFinite DEF RegistryExact
    <3> QED
      BY <1>1, <1>2, <1>3, <2>1, <2>3, <3>4, DropRefCounts
  <2> QED
    BY <2>2, <2>3
<1>6. \A i \in DOMAIN entries' : entries'[i].class = entries[i].class
  BY <1>1, <1>2, <1>3, DropRefCounts
<1>7. \A h \in Holders \ {g} : h \in HeavyHolders' <=> h \in HeavyHolders
  BY <1>4, <1>5, <1>6 DEF HeavyHolders
<1>8. HeavyHolders' \subseteq Holders \ {g} /\ HeavyHolders \subseteq Holders
  BY <1>4 DEF HeavyHolders
<1> QED
  BY <1>1, <1>2, <1>4, <1>7, <1>8

\* A removal takes the unit of the goroutine that runs it, in the class the
\* entry was made with.
LEMMA SlotRemove ==
    ASSUME SlotInv, NEW g \in Cmd, Remove(g)
    PROVE  UnitsExact' /\ SlotsBounded' /\ HeavyBounded'
<1> DEFINE id == req[g].id
           u == <<id, refCount(id)>>
<1>1. TypeOK /\ RegistryExact /\ g \in Holders
  BY DEF SlotInv, Remove, Holders
<1>2. id \in Id /\ id \in DOMAIN entries
  BY <1>1, HolderHasEntry
<1>3. entries' = DropRef(id)
  BY <1>2 DEF Remove
<1>4. Holders' = Holders \ {g}
  BY RemoveHolds
<1>5. /\ Units' = Units \ {u} /\ u \in Units
      /\ HeavyUnits' = HeavyUnits \ {u}
      /\ u \in HeavyUnits <=> entries[id].class = "heavy"
  BY <1>1, <1>2, <1>3, DropRefUnits
<1>6. IsFiniteSet(Units) /\ IsFiniteSet(HeavyUnits)
  BY FS_Subset DEF SlotInv, UnitsExact, HeavyUnits
<1>7. Holders \subseteq Cmd /\ HeavyHolders \subseteq Cmd
  BY DEF Holders, HeavyHolders
<1>8. HeavyHolders' = HeavyHolders \ {g}
  BY RemoveHolds
<1>9. g \in HeavyHolders <=> entries[id].class = "heavy"
  BY <1>1, <1>2 DEF HeavyHolders
<1>10. UnitsExact'
  <2>1. /\ IsFiniteSet(Units')
        /\ Cardinality(Units') = Cardinality(Units) - 1
    BY <1>5, <1>6, FS_RemoveElement
  <2>2. Cardinality(Holders') = Cardinality(Holders) - 1
    BY <1>1, <1>4, <1>7, OneLess
  <2>3. CASE entries[id].class = "heavy"
    <3>1. Cardinality(HeavyUnits') = Cardinality(HeavyUnits) - 1
      BY <1>5, <1>6, <2>3, FS_RemoveElement
    <3>2. Cardinality(HeavyHolders') = Cardinality(HeavyHolders) - 1
      BY <1>7, <1>8, <1>9, <2>3, OneLess
    <3> QED
      BY <2>1, <2>2, <3>1, <3>2 DEF SlotInv, UnitsExact
  <2>4. CASE entries[id].class # "heavy"
    <3>1. HeavyUnits' = HeavyUnits /\ HeavyHolders' = HeavyHolders
      BY <1>5, <1>8, <1>9, <2>4
    <3> QED
      BY <2>1, <2>2, <3>1 DEF SlotInv, UnitsExact
  <2> QED
    BY <2>3, <2>4
<1>11. SlotsBounded' /\ HeavyBounded'
  <2>1. Holders' \subseteq Holders /\ HeavyHolders' \subseteq HeavyHolders
    BY <1>4, <1>8
  <2>2. /\ Cardinality(Holders') <= Cardinality(Holders)
        /\ Cardinality(HeavyHolders') <= Cardinality(HeavyHolders)
    BY <1>7, <2>1, FramesFinite, FS_Subset
  <2>3. /\ Cardinality(Holders) \in Nat /\ Cardinality(Holders') \in Nat
        /\ Cardinality(HeavyHolders) \in Nat /\ Cardinality(HeavyHolders') \in Nat
    BY <1>7, <2>1, FramesFinite
  <2> QED
    BY <2>2, <2>3, LimitsOK DEF SlotInv, SlotsBounded, HeavyBounded
<1> QED
  BY <1>10, <1>11

\* Every step preserves the invariant.
LEMMA SlotStep == SlotInv /\ [Next]_vars => SlotInv'
<1> SUFFICES ASSUME SlotInv, [Next]_vars
             PROVE  SlotInv'
  OBVIOUS
<1>1. TypeOK' /\ RegistryExact'
  BY TypeStep, RegistryStep DEF SlotInv
<1>2. UnitsExact' /\ SlotsBounded' /\ HeavyBounded'
  <2>1. CASE \E g \in Cmd : Acquire(g)
    BY <2>1, SlotAcquire
  <2>2. CASE \E g \in Cmd : Remove(g)
    BY <2>2, SlotRemove
  <2>3. CASE ~(\E g \in Cmd : Acquire(g)) /\ ~(\E g \in Cmd : Remove(g))
    <3>1. /\ entries' = entries
          /\ Holders' = Holders
          /\ \A h \in Holders : req'[h] = req[h]
      BY <2>3, SlotFrame DEF SlotInv
    <3>2. Units' = Units /\ HeavyUnits' = HeavyUnits
      BY <3>1 DEF Units, HeavyUnits
    <3>3. HeavyHolders' = HeavyHolders
      BY <3>1 DEF HeavyHolders
    <3> QED
      BY <3>1, <3>2, <3>3 DEF SlotInv, UnitsExact, SlotsBounded, HeavyBounded
  <2> QED
    BY <2>1, <2>2, <2>3
<1> QED
  BY <1>1, <1>2 DEF SlotInv

\* No more goroutines than max_concurrency hold a slot, duplicates of one
\* cmd_id included.
THEOREM SlotsCorrect == Spec => []SlotsBounded
<1>1. SlotInv => SlotsBounded
  BY DEF SlotInv
<1> QED
  BY <1>1, SlotInit, SlotStep, PTL DEF Spec

\* No more than max_heavy_concurrency of them are accounted as heavy.
THEOREM HeavyCorrect == Spec => []HeavyBounded
<1>1. SlotInv => HeavyBounded
  BY DEF SlotInv
<1> QED
  BY <1>1, SlotInit, SlotStep, PTL DEF Spec

-----------------------------------------------------------------------------
(* Wake-ups *)

\* The limit that stopped a waiter is still reached.
StillFull(g) == IF blockedBy[g] = "heavy" THEN heavyCount >= MaxHeavyConcurrency
                                          ELSE count >= MaxConcurrency

\* A channel is closed, or a goroutine is about to close it.
Closing(ch) == ch \in closed \/ \E h \in Cmd : pc[h] = "close" /\ chan[h] = ch

\* The inductive invariant: who sleeps on the current channel sleeps for a reason,
\* and a channel that has been replaced is closed or about to be.
WakeInv == \A g \in Cmd : pc[g] = "wait" =>
               (chan[g] = waitCh /\ StillFull(g)) \/ Closing(chan[g])

\* An admission only adds to what is counted.
LEMMA AcquireCountsUp ==
    ASSUME SlotInv, NEW g \in Cmd, Acquire(g)
    PROVE  count' >= count /\ heavyCount' >= heavyCount
<1> DEFINE r == req[g]
<1>1. r \in Request /\ entries' = AddRef(r) /\ TypeOK
  BY DEF SlotInv, Acquire, TypeOK
<1>2. Units \subseteq Units' /\ HeavyUnits \subseteq HeavyUnits'
  BY <1>1, AddRefUnits
<1>3. IsFiniteSet(Units') /\ IsFiniteSet(HeavyUnits')
  BY SlotAcquire, FS_Subset DEF UnitsExact, HeavyUnits
<1> QED
  BY <1>2, <1>3, FS_Subset, FS_CardinalityType DEF count, heavyCount

\* Every step preserves it.
LEMMA WakeStep == SlotInv /\ WakeInv /\ [Next]_vars => WakeInv'
<1> SUFFICES ASSUME SlotInv, WakeInv, [Next]_vars
             PROVE  WakeInv'
  OBVIOUS
<1>0. TypeOK
  BY DEF SlotInv
<1>1. ASSUME NEW g \in Cmd, Acquire(g)
      PROVE  WakeInv'
  <2>1. ASSUME NEW h \in Cmd, StillFull(h) PROVE StillFull(h)'
    <3>1. /\ count' \in Nat /\ heavyCount' \in Nat
          /\ count \in Nat /\ heavyCount \in Nat
      <4>1. UnitsExact /\ UnitsExact'
        BY <1>1, SlotAcquire DEF SlotInv
      <4> QED
        BY <4>1, FS_Subset, FS_CardinalityType DEF UnitsExact, count, heavyCount, HeavyUnits
    <3>2. count' >= count /\ heavyCount' >= heavyCount
      BY <1>1, AcquireCountsUp
    <3>3. blockedBy' = blockedBy
      BY <1>1 DEF Acquire
    <3> QED
      BY <2>1, <3>1, <3>2, <3>3, LimitsOK DEF StillFull
  <2>2. /\ closed' = closed /\ chan' = chan /\ waitCh' = waitCh
        /\ \A h \in Cmd : pc'[h] \in {"wait", "close"} <=> pc[h] \in {"wait", "close"}
        /\ \A h \in Cmd : pc'[h] \in {"wait", "close"} => pc'[h] = pc[h]
    BY <1>0, <1>1 DEF Acquire, Goto, TypeOK
  <2> QED
    BY <2>1, <2>2 DEF WakeInv, Closing
<1>2. ASSUME NEW g \in Cmd, Remove(g)
      PROVE  WakeInv'
  <2>1. req[g].id \in DOMAIN entries
    BY <1>0, <1>2, HolderHasEntry DEF SlotInv, Remove, Holders
  <2>2. /\ pc' = [pc EXCEPT ![g] = "close"] /\ chan' = [chan EXCEPT ![g] = waitCh]
        /\ closed' = closed /\ pc[g] = "remove"
    BY <1>2, <2>1 DEF Remove, Goto
  <2> QED
    BY <1>0, <2>2 DEF WakeInv, Closing, TypeOK
<1>3. ASSUME NEW g \in Cmd, Block(g)
      PROVE  WakeInv'
  <2>1. StillFull(g)'
    BY <1>0, <1>3 DEF Block, Admissible, globalFull, heavyFull, StillFull, TypeOK,
                      count, heavyCount, Units, HeavyUnits, registry
  <2>2. \A h \in Cmd \ {g} : StillFull(h) => StillFull(h)'
    BY <1>0, <1>3 DEF Block, StillFull, TypeOK, count, heavyCount, Units, HeavyUnits, registry
  <2>3. /\ pc' = [pc EXCEPT ![g] = "wait"] /\ chan' = [chan EXCEPT ![g] = waitCh]
        /\ closed' = closed /\ waitCh' = waitCh /\ pc[g] = "acquire"
    BY <1>3 DEF Block, Goto, registry
  <2> QED
    BY <1>0, <2>1, <2>2, <2>3 DEF WakeInv, Closing, TypeOK
<1>4. ASSUME \/ \E g \in Cmd : \/ StoreLastActive(g) \/ Reserve(g)
                                \/ Wake(g) \/ GiveUp(g) \/ ReleaseWaiter(g) \/ SendBusy(g)
                                \/ Return(g) \/ ReadClock(g) \/ CloseWake(g)
             \/ \E g \in Cmd, r \in Request : Receive(g, r)
             \/ UNCHANGED vars
      PROVE  WakeInv'
  <2>1. /\ \A h \in Cmd : pc'[h] = "wait" => pc[h] = "wait"
        /\ \A ch : Closing(ch) => Closing(ch)'
        /\ chan' = chan /\ waitCh' = waitCh /\ blockedBy' = blockedBy /\ entries' = entries
    <3>1. CASE \E g \in Cmd : StoreLastActive(g)
      BY <1>0, <3>1, StoreMoves DEF StoreLastActive, registry, Closing
    <3>2. CASE ~\E g \in Cmd : StoreLastActive(g)
      BY <1>0, <1>4, <3>2 DEF Reserve, Wake, GiveUp, ReleaseWaiter, SendBusy, Return,
                 ReadClock, CloseWake, Receive, vars, registry, Goto, Closing, TypeOK
    <3> QED
      BY <3>1, <3>2
  <2>2. \A h \in Cmd : StillFull(h) => StillFull(h)'
    BY <2>1 DEF StillFull, count, heavyCount, Units, HeavyUnits
  <2> QED
    BY <2>1, <2>2 DEF WakeInv
<1> QED
  BY <1>1, <1>2, <1>3, <1>4 DEF Next, Run

\* The wake-up by close-and-replace in remove() is never lost.
THEOREM WakeCorrect == Spec => []NoLostWakeup
<1>1. Init => SlotInv /\ WakeInv
  BY SlotInit DEF Init, WakeInv
<1>2. SlotInv /\ WakeInv /\ [Next]_vars => (SlotInv /\ WakeInv)'
  BY SlotStep, WakeStep
<1>3. WakeInv => NoLostWakeup
  BY DEF WakeInv, NoLostWakeup, Closing, StillFull
<1> QED
  BY <1>1, <1>2, <1>3, PTL DEF Spec

-----------------------------------------------------------------------------
(* The slot pool *)

\* What the pool knows of a goroutine, by where it is.
LEMMA StatusCases ==
    /\ \A p \in {"idle", "arrived", "reserve"} : statusOf(p) = "new"
    /\ \A p \in {"acquire", "wait"} : statusOf(p) = "waiting"
    /\ \A p \in {"admitted", "run", "remove"} : statusOf(p) = "held"
    /\ \A p \in {"close", "touch", "stamped", "done"} : statusOf(p) = "ended"
    /\ \A p \in {"refused", "busy", "busyStamped", "rejected"} : statusOf(p) = "refused"
BY DEF statusOf

\* Cardinality is the same operator in both modules.
LEMMA SameCardinality == \A S : Pool!Cardinality(S) = Cardinality(S)
BY DEF Cardinality, Pool!Cardinality

\* The pool counts the holders that Dispatch counts.
LEMMA SameHolders ==
    ASSUME TypeOK
    PROVE  Pool!Holders = Holders /\ Pool!HeavyHolders = HeavyHolders
<1>1. \A g \in Cmd : statusOf(pc[g]) = "held" <=> g \in Holders
  BY StatusCases DEF Holders, TypeOK, Control
<1>2. Pool!Holders = Holders
  BY <1>1 DEF Pool!Holders, status, Holders
<1>3. \A g \in Cmd : accountOf(g) = "heavy" <=> g \in HeavyHolders
  BY DEF accountOf, HeavyHolders, Holders
<1> QED
  BY <1>2, <1>3 DEF Pool!HeavyHolders, account, HeavyHolders, Holders

\* A goroutine that goes from p to q moves in the pool as p and q are mapped.
LEMMA GotoMoves ==
    ASSUME TypeOK, NEW g \in Cmd, NEW q, Goto(g, q)
    PROVE  status' = [status EXCEPT ![g] = statusOf(q)] /\ status[g] = statusOf(pc[g])
BY DEF Goto, TypeOK, status

\* Where no hold begins or ends, the accounts stay.
LEMMA AccountFrame ==
    ASSUME Holders' = Holders, HeavyHolders' = HeavyHolders
    PROVE  account' = account
BY DEF account, accountOf

\* acquire() admits.
LEMMA AcquireAdmits ==
    ASSUME SlotInv, NEW g \in Cmd, Acquire(g)
    PROVE  Pool!Admit(g)
<1> DEFINE c == effectiveClass(req[g])
<1>1. TypeOK /\ req[g] \in Request
  BY DEF SlotInv, Acquire, TypeOK
<1>2. c \in {"light", "heavy"}
  BY <1>1 DEF effectiveClass, classifyCommand, TypeOK, Entry, Class
<1>3. Cardinality(Holders) < MaxConcurrency
  <2>1. ~(Cardinality(Holders) >= MaxConcurrency)
    BY DEF SlotInv, UnitsExact, Acquire, Admissible, globalFull, count
  <2>2. Cardinality(Holders) \in Nat
    BY FramesFinite DEF Holders
  <2> QED
    BY <2>1, <2>2, LimitsOK
<1>4. c = "heavy" => Cardinality(HeavyHolders) < MaxHeavyConcurrency
  <2>1. c = "heavy" => ~(Cardinality(HeavyHolders) >= MaxHeavyConcurrency)
    BY DEF SlotInv, UnitsExact, Acquire, Admissible, heavyFull, heavyCount
  <2>2. Cardinality(HeavyHolders) \in Nat
    BY FramesFinite DEF Holders, HeavyHolders
  <2> QED
    BY <2>1, <2>2, LimitsOK
<1>5. account' = [account EXCEPT ![g] = c]
  <2>1. accountOf(g)' = c
    BY <1>2, AcquireHolds DEF accountOf, HeavyHolders
  <2>2. \A h \in Cmd \ {g} : accountOf(h)' = accountOf(h)
    BY AcquireHolds DEF accountOf
  <2> QED
    BY <2>1, <2>2 DEF account
<1>6. Pool!Move(g, "waiting", "held")
  BY <1>1, GotoMoves, StatusCases DEF Acquire, Pool!Move
<1> QED
  BY <1>1, <1>2, <1>3, <1>4, <1>5, <1>6, SameHolders, SameCardinality
   DEF Pool!Admit

\* remove() gives the slot back.
LEMMA RemoveEnds ==
    ASSUME SlotInv, NEW g \in Cmd, Remove(g)
    PROVE  Pool!End(g)
<1>1. TypeOK
  BY DEF SlotInv
<1>2. account' = [account EXCEPT ![g] = "none"]
  <2>1. accountOf(g)' = "none"
    BY RemoveHolds DEF accountOf, HeavyHolders
  <2>2. \A h \in Cmd \ {g} : accountOf(h)' = accountOf(h)
    BY RemoveHolds DEF accountOf
  <2> QED
    BY <2>1, <2>2 DEF account
<1>3. Goto(g, "close") /\ pc[g] = "remove"
  BY RemoveHolds DEF Remove
<1>4. Pool!Move(g, "held", "ended")
  BY <1>1, <1>3, GotoMoves, StatusCases DEF Pool!Move
<1> QED
  BY <1>2, <1>4 DEF Pool!End

\* Every other step of Dispatch is an arrival, a refusal, or nothing to the pool.
LEMMA OthersFit ==
    ASSUME SlotInv, [Next]_vars,
           ~\E g \in Cmd : Acquire(g), ~\E g \in Cmd : Remove(g)
    PROVE  [Pool!Next]_(Pool!vars)
<1>1. TypeOK
  BY DEF SlotInv
<1>2. account' = account
  <2>1. /\ entries' = entries /\ Holders' = Holders
        /\ \A h \in Holders : req'[h] = req[h]
    BY <1>1, SlotFrame
  <2>2. HeavyHolders' = HeavyHolders
    BY <2>1 DEF HeavyHolders
  <2> QED
    BY <2>1, <2>2, AccountFrame
<1>3. ASSUME NEW g \in Cmd, Reserve(g)
      PROVE  Pool!Next
  <2>1. pc[g] = "reserve" /\ (Goto(g, "rejected") \/ Goto(g, "acquire"))
    BY <1>3 DEF Reserve
  <2>2. Pool!Move(g, "new", "refused") \/ Pool!Move(g, "new", "waiting")
    BY <1>1, <2>1, GotoMoves, StatusCases DEF Pool!Move
  <2> QED
    BY <1>2, <2>2 DEF Pool!Next, Pool!Shed, Pool!Arrive
<1>4. ASSUME NEW g \in Cmd, GiveUp(g)
      PROVE  Pool!Next
  <2>1. Pool!Move(g, "waiting", "refused")
    BY <1>1, <1>4, GotoMoves, StatusCases DEF GiveUp, Pool!Move
  <2> QED
    BY <1>2, <2>1 DEF Pool!Next, Pool!Refuse
<1>5. ASSUME NEW g \in Cmd,
             \/ \E r \in Request : Receive(g, r)
             \/ StoreLastActive(g)
             \/ Block(g) \/ Wake(g) \/ ReleaseWaiter(g) \/ SendBusy(g) \/ Return(g)
             \/ CloseWake(g) \/ ReadClock(g)
      PROVE  status' = status
  <2>1. \E q \in Control : Goto(g, q) /\ statusOf(q) = statusOf(pc[g])
    <3>1. CASE StoreLastActive(g)
      <4>1. \/ pc[g] = "arrived" /\ Goto(g, "reserve")
            \/ pc[g] = "stamped" /\ Goto(g, "done")
            \/ pc[g] = "busyStamped" /\ Goto(g, "rejected")
        BY <3>1 DEF StoreLastActive, Stamped
      <4> QED
        BY <4>1, StatusCases DEF Control
    <3>2. CASE ~StoreLastActive(g)
      BY <1>5, <3>2, StatusCases DEF Receive, Block, Wake, ReleaseWaiter, SendBusy,
                                     Return, CloseWake, ReadClock, Control
    <3> QED
      BY <3>1, <3>2
  <2> QED
    BY <1>1, <2>1, GotoMoves DEF status
<1>6. CASE UNCHANGED vars
  BY <1>6, <1>2 DEF vars, status, Pool!vars
<1>7. ASSUME NEW g \in Cmd, status' = status
      PROVE  UNCHANGED Pool!vars
  BY <1>2, <1>7 DEF Pool!vars
<1> QED
  BY <1>3, <1>4, <1>5, <1>6, <1>7 DEF Next, Run

\* Every command waits for one of max_concurrency slots, of which heavy ones hold
\* at most max_heavy_concurrency, and keeps it until it ends: the lock, the
\* reference counts and the wake-up channels implement the pool.
THEOREM ImplementsCorrect == Spec => ImplementsPool
<1>1. Init => Pool!Init
  BY StatusCases DEF Init, Pool!Init, status, account, accountOf, Holders, HeavyHolders
<1>2. SlotInv /\ [Next]_vars => [Pool!Next]_(Pool!vars)
  <2> SUFFICES ASSUME SlotInv, [Next]_vars
               PROVE  [Pool!Next]_(Pool!vars)
    OBVIOUS
  <2>1. CASE \E g \in Cmd : Acquire(g)
    BY <2>1, AcquireAdmits DEF Pool!Next
  <2>2. CASE \E g \in Cmd : Remove(g)
    BY <2>2, RemoveEnds DEF Pool!Next
  <2> QED
    BY <2>1, <2>2, OthersFit
<1> QED
  BY <1>1, <1>2, SlotInit, SlotStep, PTL DEF Spec, ImplementsPool, Pool!Spec

-----------------------------------------------------------------------------
(* The updater's questions *)

\* A command that has been admitted, from its slot to its end.
Admitted == {"admitted", "run", "remove", "close", "touch", "stamped", "done"}

\* A command that held a slot when the call began does not come back to the
\* queue, and from the moment the count was read as zero none of them holds one.
HeldInv ==
    /\ held \subseteq Cmd
    /\ \A g \in held : pc[g] \in Admitted
    /\ (at \in {"pending", "last"} \/ result \in {"drained", "idle"})
         => held \cap Holders = {}

\* The ends that lastActive predates are those of commands whose store is still to
\* come, and those stored over; what a goroutine inside touch() is about to store
\* predates the ends of other commands only.
EndsInv ==
    /\ \A h \in endsSinceTouch : pc[h] \in Ending \/ h \in overtaken
    /\ \A g \in Cmd : pc[g] \in Stamped =>
         /\ g \notin stamp[g]
         /\ \A h \in stamp[g] : pc[h] \in Ending \cup {"done"}

QuietInv == SlotInv /\ HeldInv /\ EndsInv

\* A registry that counts nothing is held by nobody.
LEMMA ZeroIsEmpty ==
    ASSUME SlotInv, count = 0
    PROVE  Holders = {}
<1>1. Cardinality(Holders) = 0
  BY DEF SlotInv, UnitsExact, count
<1>2. IsFiniteSet(Holders)
  BY FramesFinite DEF Holders
<1> QED
  BY <1>1, <1>2, FS_EmptySet

\* What a goroutine of Dispatch may do to a command that has been admitted.
LEMMA AdmittedGoesOn ==
    ASSUME TypeOK, [Next]_vars, NEW h \in Cmd, pc[h] \in Admitted
    PROVE  /\ pc'[h] \in Admitted
           /\ h \in Holders' => h \in Holders
           /\ pc[h] \in Ending \cup {"done"} => pc'[h] \in Ending \cup {"done"}
<1>1. ASSUME NEW g \in Cmd, NEW r \in Request, Receive(g, r)
      PROVE  pc'[h] = pc[h]
  BY <1>1 DEF Receive, Goto, TypeOK, Admitted
<1>2. ASSUME NEW g \in Cmd,
             Reserve(g) \/ Acquire(g) \/ Block(g) \/ Wake(g) \/ GiveUp(g) \/ SendBusy(g)
      PROVE  pc'[h] = pc[h]
  BY <1>2 DEF Reserve, Acquire, Block, Wake, GiveUp, SendBusy, Goto, TypeOK, Admitted
<1>3. ASSUME NEW g \in Cmd,
             ReleaseWaiter(g) \/ Return(g) \/ Remove(g) \/ CloseWake(g) \/ ReadClock(g)
      PROVE  \/ pc'[h] = pc[h]
             \/ pc[h] = "admitted" /\ pc'[h] = "run"
             \/ pc[h] = "run" /\ pc'[h] = "remove"
             \/ /\ pc[h] \in {"remove", "close", "touch"}
                /\ pc'[h] \in {"close", "touch", "stamped"}
  BY <1>3 DEF ReleaseWaiter, Return, Remove, CloseWake, ReadClock, Goto, TypeOK, Admitted
<1>4. ASSUME NEW g \in Cmd, StoreLastActive(g)
      PROVE  pc'[h] = pc[h] \/ (pc[h] = "stamped" /\ pc'[h] = "done")
  BY <1>4, StoreMoves DEF Admitted
<1>5. CASE UNCHANGED vars
  BY <1>5 DEF vars, Holders
<1> QED
  BY <1>1, <1>2, <1>3, <1>4, <1>5 DEF Next, Run, Holders, Admitted, Ending

\* Overtaking is for good.
LEMMA OvertakenGrows == Overtake => overtaken \subseteq overtaken'
BY DEF Overtake

\* What a store leaves behind lastActive: commands whose own store is to come,
\* and commands it overtakes.
LEMMA StoreEnds ==
    ASSUME TypeOK, EndsInv, NEW g \in Cmd, StoreLastActive(g), Overtake
    PROVE  EndsInv'
<1>1. /\ pc[g] \in Stamped /\ pc'[g] # pc[g] /\ pc'[g] \notin Stamped
      /\ \A h \in Cmd \ {g} : pc'[h] = pc[h]
      /\ endsSinceTouch' = stamp[g] /\ stamp' = [stamp EXCEPT ![g] = {}]
  BY StoreMoves DEF StoreLastActive, Stamped
<1>2. /\ stamp[g] \subseteq Cmd /\ g \notin stamp[g]
      /\ \A h \in stamp[g] : pc[h] \in Ending \cup {"done"}
  BY <1>1 DEF EndsInv, TypeOK
<1>3. ASSUME NEW h \in stamp[g], pc[h] = "done"
      PROVE  h \in overtaken'
  <2>1. g \in {s \in Cmd : pc[s] \in Stamped /\ pc'[s] # pc[s]}
    BY <1>1
  <2>2. h \in {k \in stamp[g] : pc[k] = "done"}
    BY <1>3
  <2> QED
    BY <2>1, <2>2 DEF Overtake
<1>4. \A h \in endsSinceTouch' : pc'[h] \in Ending \/ h \in overtaken'
  BY <1>1, <1>2, <1>3
<1>5. ASSUME NEW k \in Cmd, pc'[k] \in Stamped
      PROVE  k \notin stamp'[k] /\ \A h \in stamp'[k] : pc'[h] \in Ending \cup {"done"}
  <2>1. k # g /\ pc[k] \in Stamped /\ stamp'[k] = stamp[k] /\ stamp[k] \subseteq Cmd
    BY <1>1, <1>5 DEF TypeOK
  <2>2. k \notin stamp[k] /\ \A h \in stamp[k] : pc[h] \in Ending \cup {"done"}
    BY <2>1 DEF EndsInv
  <2>3. pc[g] \in Ending \cup {"done"} => pc'[g] \in Ending \cup {"done"}
    BY StoreMoves DEF Ending
  <2> QED
    BY <1>1, <2>1, <2>2, <2>3
<1> QED
  BY <1>4, <1>5 DEF EndsInv

\* The end of a command enters every instant read before it.
LEMMA RemoveEndsInv ==
    ASSUME TypeOK, EndsInv, NEW g \in Cmd, Remove(g), overtaken \subseteq overtaken'
    PROVE  EndsInv'
<1>1. /\ pc[g] = "remove" /\ pc'[g] \in {"close", "touch"}
      /\ \A h \in Cmd \ {g} : pc'[h] = pc[h]
  BY DEF Remove, Goto, TypeOK
<1>2. /\ endsSinceTouch' = endsSinceTouch \cup {g}
      /\ \A h \in Cmd : stamp'[h] = IF pc[h] \in Stamped THEN stamp[h] \cup {g}
                                                         ELSE stamp[h]
  BY DEF Remove, Ended
<1>3. \A h \in endsSinceTouch' : pc'[h] \in Ending \/ h \in overtaken'
  BY <1>1, <1>2 DEF EndsInv, Ending, TypeOK
<1>4. ASSUME NEW k \in Cmd, pc'[k] \in Stamped
      PROVE  k \notin stamp'[k] /\ \A h \in stamp'[k] : pc'[h] \in Ending \cup {"done"}
  <2>1. k # g /\ pc[k] \in Stamped /\ stamp'[k] = stamp[k] \cup {g} /\ stamp[k] \subseteq Cmd
    BY <1>1, <1>2, <1>4 DEF Stamped, TypeOK
  <2>2. k \notin stamp[k] /\ \A h \in stamp[k] : pc[h] \in Ending \cup {"done"}
    BY <2>1 DEF EndsInv
  <2> QED
    BY <1>1, <2>1, <2>2 DEF Ending
<1> QED
  BY <1>3, <1>4 DEF EndsInv

\* A clock reading starts with no end after it, and no other step of Dispatch
\* touches the instants.
LEMMA OtherEnds ==
    ASSUME TypeOK, EndsInv, [Next]_vars, overtaken \subseteq overtaken',
           ~\E g \in Cmd : StoreLastActive(g), ~\E g \in Cmd : Remove(g)
    PROVE  EndsInv'
<1> DEFINE Kept(k) == stamp'[k] = {} \/ (pc[k] \in Stamped /\ stamp'[k] = stamp[k])
           Frame == /\ endsSinceTouch' = endsSinceTouch
                    /\ \A k \in Cmd : pc'[k] \in Stamped => Kept(k)
<1>1. Frame
  <2>1. ASSUME NEW g \in Cmd,
               \/ \E r \in Request : Receive(g, r)
               \/ SendBusy(g) \/ ReadClock(g)
        PROVE  Frame
    BY <2>1 DEF Receive, SendBusy, ReadClock, Goto, Stamped, TypeOK
  <2>2. ASSUME NEW g \in Cmd,
               \/ Reserve(g) \/ Acquire(g) \/ Block(g) \/ Wake(g) \/ GiveUp(g)
               \/ ReleaseWaiter(g) \/ Return(g) \/ CloseWake(g)
        PROVE  Frame
    BY <2>2 DEF Reserve, Acquire, Block, Wake, GiveUp, ReleaseWaiter, Return, CloseWake,
                activity, Goto, Stamped, TypeOK
  <2>3. CASE UNCHANGED vars
    BY <2>3 DEF vars, activity
  <2> QED
    BY <2>1, <2>2, <2>3 DEF Next, Run
<1>2. ASSUME NEW h \in Cmd, pc[h] \in Ending
      PROVE  pc'[h] \in Ending
  <2>1. ASSUME NEW g \in Cmd, NEW r \in Request, Receive(g, r)
        PROVE  pc'[h] \in Ending
    BY <1>2, <2>1 DEF Receive, Goto, Ending, TypeOK
  <2>2. ASSUME NEW g \in Cmd,
               \/ Reserve(g) \/ Acquire(g) \/ Block(g) \/ Wake(g) \/ GiveUp(g)
               \/ SendBusy(g) \/ ReleaseWaiter(g) \/ Return(g) \/ CloseWake(g)
               \/ ReadClock(g)
        PROVE  pc'[h] \in Ending
    BY <1>2, <2>2 DEF Reserve, Acquire, Block, Wake, GiveUp, SendBusy, ReleaseWaiter,
                      Return, CloseWake, ReadClock, Goto, Ending, TypeOK
  <2>3. CASE UNCHANGED vars
    BY <1>2, <2>3 DEF vars
  <2> QED
    BY <2>1, <2>2, <2>3 DEF Next, Run
<1>3. \A h \in endsSinceTouch' : pc'[h] \in Ending \/ h \in overtaken'
  BY <1>1, <1>2 DEF EndsInv, TypeOK
<1>4. ASSUME NEW k \in Cmd, pc'[k] \in Stamped
      PROVE  k \notin stamp'[k] /\ \A h \in stamp'[k] : pc'[h] \in Ending \cup {"done"}
  <2>1. CASE stamp'[k] = {}
    BY <2>1
  <2>2. CASE pc[k] \in Stamped /\ stamp'[k] = stamp[k]
    <3>1. /\ stamp[k] \subseteq Cmd /\ k \notin stamp[k]
          /\ \A h \in stamp[k] : pc[h] \in Ending \cup {"done"}
      BY <2>2 DEF EndsInv, TypeOK
    <3>2. \A h \in stamp[k] : pc'[h] \in Ending \cup {"done"}
      BY <3>1, AdmittedGoesOn DEF Admitted, Ending
    <3> QED
      BY <2>2, <3>1, <3>2
  <2> QED
    BY <1>1, <1>4, <2>1, <2>2
<1> QED
  BY <1>3, <1>4 DEF EndsInv

\* Every step preserves what is known of the instants.
LEMMA EndsStep ==
    ASSUME TypeOK, EndsInv, [Next]_vars, Overtake \/ UNCHANGED <<vars, overtaken>>
    PROVE  EndsInv'
<1>1. CASE UNCHANGED <<vars, overtaken>>
  BY <1>1 DEF vars, activity, EndsInv
<1>2. CASE Overtake
  <2>1. CASE \E g \in Cmd : StoreLastActive(g)
    BY <1>2, <2>1, StoreEnds
  <2>2. CASE \E g \in Cmd : Remove(g)
    BY <1>2, <2>2, RemoveEndsInv, OvertakenGrows
  <2>3. CASE ~(\E g \in Cmd : StoreLastActive(g)) /\ ~(\E g \in Cmd : Remove(g))
    BY <1>2, <2>3, OtherEnds, OvertakenGrows
  <2> QED
    BY <2>1, <2>2, <2>3
<1> QED
  BY <1>1, <1>2

LEMMA QuietInit == QInit => QuietInv
BY SlotInit DEF QInit, Init, QuietInv, HeldInv, EndsInv

\* Dispatch goes on under a call, and a call leaves Dispatch alone.
LEMMA QuietStep == QuietInv /\ [QNext]_allvars => QuietInv'
<1> SUFFICES ASSUME QuietInv, [QNext]_allvars
             PROVE  QuietInv'
  OBVIOUS
<1>0. TypeOK /\ SlotInv /\ HeldInv /\ EndsInv
  BY DEF QuietInv, SlotInv
<1>1. [Next]_vars
  BY DEF QNext, allvars
<1>2. SlotInv' /\ EndsInv'
  <2>1. Overtake \/ UNCHANGED <<vars, overtaken>>
    BY DEF QNext, allvars
  <2> QED
    BY <1>0, <1>1, <2>1, SlotStep, EndsStep
<1>3. ASSUME UNCHANGED caller
      PROVE  HeldInv'
  <2>1. \A g \in held : pc'[g] \in Admitted /\ (g \in Holders' => g \in Holders)
    BY <1>0, <1>1, AdmittedGoesOn DEF HeldInv
  <2> QED
    BY <1>0, <1>3, <2>1 DEF HeldInv, caller
<1>4. ASSUME UNCHANGED vars
      PROVE  HeldInv'
  <2>0. pc' = pc /\ Holders' = Holders
    BY <1>4 DEF vars, Holders
  <2>1. ASSUME Begin("activity") \/ Begin("drain")
        PROVE  HeldInv'
    BY <2>0, <2>1 DEF Begin, HeldInv, Holders, Admitted
  <2>2. ASSUME ReadCount
        PROVE  HeldInv'
    <3>1. CASE count = 0
      <4>1. Holders = {}
        BY <1>0, <3>1, ZeroIsEmpty
      <4> QED
        BY <1>0, <2>0, <2>2, <4>1 DEF ReadCount, HeldInv
    <3>2. CASE count # 0
      BY <1>0, <2>0, <2>2, <3>2 DEF ReadCount, SawWork, Answer, HeldInv
    <3> QED
      BY <3>1, <3>2
  <2>3. ASSUME ReadPending
        PROVE  HeldInv'
    BY <1>0, <2>0, <2>3 DEF ReadPending, SawWork, Answer, HeldInv
  <2>4. ASSUME ReadLastActive
        PROVE  HeldInv'
    BY <1>0, <2>0, <2>4 DEF ReadLastActive, Answer, HeldInv
  <2>5. ASSUME DrainPoll
        PROVE  HeldInv'
    BY <1>0, <2>0, <2>5 DEF DrainPoll, Answer, HeldInv
  <2>6. ASSUME Deadline
        PROVE  HeldInv'
    BY <1>0, <2>0, <2>6 DEF Deadline, HeldInv
  <2>7. ASSUME UNCHANGED caller
        PROVE  HeldInv'
    BY <1>3, <2>7
  <2> QED
    BY <2>1, <2>2, <2>3, <2>4, <2>5, <2>6, <2>7 DEF QNext, CallStep, allvars
<1>5. HeldInv'
  BY <1>3, <1>4 DEF QNext, allvars
<1> QED
  BY <1>2, <1>5 DEF QuietInv

\* When Drain says drained, or Activity idle, every command that held a slot when
\* the call began has given it back, though the two counters are read apart.
THEOREM QuietCorrect == QSpec => []QuietCoversHolders
<1>1. QuietInv => QuietCoversHolders
  BY DEF QuietInv, HeldInv, QuietCoversHolders
<1> QED
  BY <1>1, QuietInit, QuietStep, PTL DEF QSpec

\* What an answer of idle predates.
LEMMA IdleStep ==
    ASSUME EndsInv, [QNext]_allvars, result' = "idle", result # "idle"
    PROVE  \A g \in missed' : pc[g] \in Ending \/ g \in overtaken
<1>1. ReadLastActive
  BY DEF QNext, allvars, caller, Begin, CallStep, ReadCount, ReadPending, DrainPoll,
         SawWork, Answer, Deadline
<1> QED
  BY <1>1 DEF ReadLastActive, EndsInv

\* An idle answer misses the end of no command but those about to record it and
\* those whose record was stored over with an instant read before they ended.
THEOREM IdleLagsCorrect == QSpec => IdleLagsByEnding
<1>1. QuietInv /\ [QNext]_allvars =>
        ((result' = "idle" /\ result # "idle") =>
            \A g \in missed' : pc[g] \in Ending \/ g \in overtaken)
  BY IdleStep DEF QuietInv
<1> QED
  BY <1>1, QuietInit, QuietStep, PTL DEF QSpec, IdleLagsByEnding
=============================================================================
