---------------------------- MODULE FilesProofs -----------------------------
(***************************************************************************)
(* What is proved of Files for every set of commands, each of any kind.      *)
(***************************************************************************)
EXTENDS Files, TLAPS

-----------------------------------------------------------------------------
(* The inductive invariant of an atomic edit.                               *)

Content == [base : Inode \cup {None}, edits : SUBSET Op, torn : Op \cup {None}]

TypeOK == /\ pc \in [Op -> Control] /\ kind \in [Op -> Kind] /\ ok \in [Op -> BOOLEAN]
          /\ fd \in [Op -> Inode \cup {None}] /\ seen \in [Op -> Content]
          /\ name \in Inode \cup {None} /\ data \in [Inode -> Content]

Downloads == {"download", "downloadNew"}
Writers   == {"create", "edit"}

\* Which kinds of command get where, and what they have open there.
KindAt == \A o \in Op :
    /\ pc[o] \in {"lock", "unlock"} => IsA(o, Locking)
    /\ At(o, "open") => IsA(o, Writers \cup {"delete"})
    /\ At(o, "write") => IsA(o, Writers)
    /\ pc[o] \in {"fetch", "rename"} => IsA(o, Downloads)
    /\ At(o, "send") => IsA(o, {"upload"}) /\ fd[o] \in Inode

\* A file operation that has got its lock, and not let go of it, has it.
Holds(o)  == IsA(o, Locking) /\ pc[o] \in {"look", "open", "write", "unlock"}
LockHeld  == \A o \in Op : Holds(o) => lock = o

\* An inode has been made by the time it has a name or somebody has it open.
Made(i)   == i \in Op => pc[i] \in {"write", "unlock", "done"}
NamedMade == Made(name) /\ \A o \in Op : Made(fd[o])

\* What a writer has truncated stays so until it writes.
Truncated == \A o \in Op : At(o, "write") => fd[o] \in Inode /\ data[fd[o]] = Torn(o)

\* What an edit has read is still there when it opens the file, or a download is.
ReadStands == \A o \in Op : At(o, "open") /\ IsA(o, {"edit"}) =>
    /\ fd[o] \in Inode
    /\ IF name = fd[o] THEN data[name] = seen[o]
       ELSE name \in Op /\ IsA(name, Downloads)

\* What is torn in an inode is being written there, or its writer has failed.
TornLeft == \A i \in Inode : data[i].torn # None =>
    LET w == data[i].torn IN \/ At(w, "write") /\ fd[w] = i
                             \/ pc[w] \in {"unlock", "done"} /\ ~ok[w]

\* A command that has not begun has seen nothing.
Unbegun == \A o \in Op : At(o, "new") => seen[o] = Nothing

\* The inductive invariant.
AtomicInv == /\ TypeOK /\ KindAt /\ LockHeld /\ NamedMade /\ Truncated /\ ReadStands
             /\ TornLeft /\ Unbegun /\ InFlightUnseen

USE DEF TypeOK, Inode, KindAt, LockHeld, Holds, NamedMade, Made, Truncated, ReadStands,
        TornLeft, Unbegun, InFlightUnseen, At, IsA, Goto, Finish, Read, Locking,
        Downloads, Writers, got, file, Control, Kind

\* What an inode can hold is content.
LEMMA ContentType ==
    /\ Nothing \in Content /\ Nothing.torn = None
    /\ \A o \in Op : Torn(o) \in Content /\ Torn(o).torn = o
    /\ \A i \in Inode \cup {None}, e \in SUBSET Op :
         Whole(i, e) \in Content /\ Whole(i, e).torn = None
    /\ \A c \in Content : c.torn \in Op \cup {None}
BY DEF Content, Nothing, Torn, Whole

\* So is what a writer writes, and if that is torn, its writer has read it so.
LEMMA ResultType ==
    ASSUME TypeOK, NEW o \in Op
    PROVE  /\ Result(o) \in Content
           /\ Result(o).torn # None => ~IsA(o, {"create"}) /\ Result(o).torn = seen[o].torn
<1>1. CASE IsA(o, {"create"})
  BY <1>1, FilesAssumption, ContentType DEF Result
<1>2. CASE ~IsA(o, {"create"}) /\ seen[o].torn # None
  BY <1>2 DEF Result
<1>3. CASE ~IsA(o, {"create"}) /\ seen[o].torn = None
  <2>1. seen[o].base \in Inode \cup {None} /\ seen[o].edits \cup {o} \in SUBSET Op
    BY DEF Content
  <2> QED
    BY <1>3, <2>1, ContentType DEF Result
<1> QED
  BY <1>1, <1>2, <1>3

\* Every variable keeps its type.
LEMMA TypeStep ==
    ASSUME TypeOK, KindAt, NEW o \in Op, Step(o) \/ \E k \in Ask[o] : Begin(o, k)
    PROVE  TypeOK'
<1> USE FilesAssumption, ContentType, ResultType
<1>1. pc' \in [Op -> Control] /\ kind' \in [Op -> Kind]
  BY SMTT(20) DEF Step, Begin, lockPath, Unlock, View, ReadForEdit, Open,
     Write, DeleteFile, StatTarget, Fetch, Rename, OpenSource, Send
<1>2. ok' \in [Op -> BOOLEAN]
  BY DEF Step, Begin, lockPath, Unlock, View, ReadForEdit, Open,
     Write, DeleteFile, StatTarget, Fetch, Rename, OpenSource, Send
<1>3. fd' \in [Op -> Inode \cup {None}] /\ seen' \in [Op -> Content]
  BY SMTT(20) DEF Step, Begin, lockPath, Unlock, View, ReadForEdit, Open,
     Write, DeleteFile, StatTarget, Fetch, Rename, OpenSource, Send
<1>4. name' \in Inode \cup {None} /\ data' \in [Inode -> Content]
  BY DEF Step, Begin, lockPath, Unlock, View, ReadForEdit, Open,
     Write, DeleteFile, StatTarget, Fetch, Rename, OpenSource, Send
<1> QED
  BY <1>1, <1>2, <1>3, <1>4

\* One case for each thing a command can do.
LEMMA AtomicStep ==
    ASSUME AtomicInv, NEW o \in Op, Step(o) \/ \E k \in Ask[o] : Begin(o, k)
    PROVE  AtomicInv'
<1> USE FilesAssumption, ContentType
<1>type. TypeOK
  BY DEF AtomicInv
<1>kinds. KindAt
  BY DEF AtomicInv
<1>locked. LockHeld
  BY DEF AtomicInv
<1>made. NamedMade
  BY DEF AtomicInv
<1>trunc. Truncated
  BY DEF AtomicInv
<1>stands. ReadStands
  BY DEF AtomicInv
<1>torn. TornLeft
  BY DEF AtomicInv
<1>new. Unbegun
  BY DEF AtomicInv
<1>unseen. InFlightUnseen
  BY DEF AtomicInv
<1>0. TypeOK'
  BY <1>type, <1>kinds, TypeStep
<1>1. ASSUME NEW k \in Ask[o], Begin(o, k) PROVE AtomicInv'
  <2>1. KindAt'
    BY <1>1, <1>type, <1>kinds, <1>made DEF Begin
  <2>2. LockHeld'
    BY <1>1, <1>type, <1>kinds, <1>locked DEF Begin
  <2>3. NamedMade'
    BY <1>1, <1>type, <1>made, SMTT(30) DEF Begin
  <2>4. Truncated'
    BY <1>1, <1>type, <1>kinds, <1>locked, <1>made, <1>trunc DEF Begin
  <2>5. ReadStands'
    BY <1>1, <1>type, <1>kinds, <1>locked, <1>made, <1>stands DEF Begin
  <2>6. TornLeft'
    BY <1>1, <1>type, <1>kinds, <1>torn, <1>unseen, SMTT(30) DEF Begin
  <2>7. Unbegun'
    BY <1>1, <1>type, <1>new DEF Begin
  <2>8. InFlightUnseen'
    BY <1>1, <1>type, <1>kinds, <1>locked, <1>torn, <1>new, <1>unseen, SMTT(30) DEF Begin
  <2> QED
    BY <1>0, <2>1, <2>2, <2>3, <2>4, <2>5, <2>6, <2>7, <2>8 DEF AtomicInv
<1>2. CASE lockPath(o)
  <2>1. KindAt'
    BY <1>2, <1>type, <1>kinds, <1>made DEF lockPath
  <2>2. LockHeld'
    BY <1>2, <1>type, <1>kinds, <1>locked DEF lockPath
  <2>3. NamedMade'
    BY <1>2, <1>type, <1>made, SMTT(30) DEF lockPath
  <2>4. Truncated'
    BY <1>2, <1>type, <1>kinds, <1>locked, <1>made, <1>trunc DEF lockPath
  <2>5. ReadStands'
    BY <1>2, <1>type, <1>kinds, <1>locked, <1>made, <1>stands DEF lockPath
  <2>6. TornLeft'
    BY <1>2, <1>type, <1>kinds, <1>torn, <1>unseen, SMTT(30) DEF lockPath
  <2>7. Unbegun'
    BY <1>2, <1>type, <1>new DEF lockPath
  <2>8. InFlightUnseen'
    BY <1>2, <1>type, <1>kinds, <1>locked, <1>torn, <1>new, <1>unseen, SMTT(30) DEF lockPath
  <2> QED
    BY <1>0, <2>1, <2>2, <2>3, <2>4, <2>5, <2>6, <2>7, <2>8 DEF AtomicInv
<1>3. CASE Unlock(o)
  <2>1. KindAt'
    BY <1>3, <1>type, <1>kinds, <1>made DEF Unlock
  <2>2. LockHeld'
    BY <1>3, <1>type, <1>kinds, <1>locked DEF Unlock
  <2>3. NamedMade'
    BY <1>3, <1>type, <1>made, SMTT(30) DEF Unlock
  <2>4. Truncated'
    BY <1>3, <1>type, <1>kinds, <1>locked, <1>made, <1>trunc DEF Unlock
  <2>5. ReadStands'
    BY <1>3, <1>type, <1>kinds, <1>locked, <1>made, <1>stands DEF Unlock
  <2>6. TornLeft'
    BY <1>3, <1>type, <1>kinds, <1>torn, <1>unseen, SMTT(30) DEF Unlock
  <2>7. Unbegun'
    BY <1>3, <1>type, <1>new DEF Unlock
  <2>8. InFlightUnseen'
    BY <1>3, <1>type, <1>kinds, <1>locked, <1>torn, <1>new, <1>unseen, SMTT(30) DEF Unlock
  <2> QED
    BY <1>0, <2>1, <2>2, <2>3, <2>4, <2>5, <2>6, <2>7, <2>8 DEF AtomicInv
<1>4. CASE View(o)
  <2>1. KindAt'
    BY <1>4, <1>type, <1>kinds, <1>made DEF View
  <2>2. LockHeld'
    BY <1>4, <1>type, <1>kinds, <1>locked DEF View
  <2>3. NamedMade'
    BY <1>4, <1>type, <1>made, SMTT(30) DEF View
  <2>4. Truncated'
    BY <1>4, <1>type, <1>kinds, <1>locked, <1>made, <1>trunc DEF View
  <2>5. ReadStands'
    BY <1>4, <1>type, <1>kinds, <1>locked, <1>made, <1>stands DEF View
  <2>6. TornLeft'
    BY <1>4, <1>type, <1>kinds, <1>torn, <1>unseen, SMTT(30) DEF View
  <2>7. Unbegun'
    BY <1>4, <1>type, <1>new DEF View
  <2>8. InFlightUnseen'
    BY <1>4, <1>type, <1>kinds, <1>locked, <1>torn, <1>new, <1>unseen, SMTT(30) DEF View
  <2> QED
    BY <1>0, <2>1, <2>2, <2>3, <2>4, <2>5, <2>6, <2>7, <2>8 DEF AtomicInv
<1>5. CASE ReadForEdit(o)
  <2>1. KindAt'
    BY <1>5, <1>type, <1>kinds, <1>made DEF ReadForEdit
  <2>2. LockHeld'
    BY <1>5, <1>type, <1>kinds, <1>locked DEF ReadForEdit
  <2>3. NamedMade'
    BY <1>5, <1>type, <1>made, SMTT(30) DEF ReadForEdit
  <2>4. Truncated'
    BY <1>5, <1>type, <1>kinds, <1>locked, <1>made, <1>trunc DEF ReadForEdit
  <2>5. ReadStands'
    BY <1>5, <1>type, <1>kinds, <1>locked, <1>made, <1>stands DEF ReadForEdit
  <2>6. TornLeft'
    BY <1>5, <1>type, <1>kinds, <1>torn, <1>unseen, SMTT(30) DEF ReadForEdit
  <2>7. Unbegun'
    BY <1>5, <1>type, <1>new DEF ReadForEdit
  <2>8. InFlightUnseen'
    BY <1>5, <1>type, <1>kinds, <1>locked, <1>torn, <1>new, <1>unseen, SMTT(30) DEF ReadForEdit
  <2> QED
    BY <1>0, <2>1, <2>2, <2>3, <2>4, <2>5, <2>6, <2>7, <2>8 DEF AtomicInv
<1>6. CASE Open(o)
  <2>1. KindAt'
    BY <1>6, <1>type, <1>kinds, <1>made DEF Open
  <2>2. LockHeld'
    BY <1>6, <1>type, <1>kinds, <1>locked DEF Open
  <2>3. NamedMade'
    BY <1>6, <1>type, <1>made, SMTT(30) DEF Open
  <2>4. Truncated'
    BY <1>6, <1>type, <1>kinds, <1>locked, <1>made, <1>trunc DEF Open
  <2>5. ReadStands'
    BY <1>6, <1>type, <1>kinds, <1>locked, <1>made, <1>stands DEF Open
  <2>6. TornLeft'
    BY <1>6, <1>type, <1>kinds, <1>torn, <1>unseen, SMTT(30) DEF Open
  <2>7. Unbegun'
    BY <1>6, <1>type, <1>new DEF Open
  <2>8. InFlightUnseen'
    BY <1>6, <1>type, <1>kinds, <1>locked, <1>torn, <1>new, <1>unseen, SMTT(30) DEF Open
  <2> QED
    BY <1>0, <2>1, <2>2, <2>3, <2>4, <2>5, <2>6, <2>7, <2>8 DEF AtomicInv
<1>7. CASE Write(o)
  <2>1. KindAt'
    BY <1>7, <1>type, <1>kinds, <1>made DEF Write
  <2>2. LockHeld'
    BY <1>7, <1>type, <1>kinds, <1>locked DEF Write
  <2>3. NamedMade'
    BY <1>7, <1>type, <1>made, SMTT(30) DEF Write
  <2>4. Truncated'
    BY <1>7, <1>type, <1>kinds, <1>locked, <1>made, <1>trunc DEF Write
  <2>5. ReadStands'
    BY <1>7, <1>type, <1>kinds, <1>locked, <1>made, <1>stands DEF Write
  <2>6. TornLeft'
    BY <1>7, <1>type, <1>kinds, <1>torn, <1>unseen, ResultType, SMTT(30) DEF Write
  <2>7. Unbegun'
    BY <1>7, <1>type, <1>new DEF Write
  <2>8. InFlightUnseen'
    BY <1>7, <1>type, <1>kinds, <1>locked, <1>torn, <1>new, <1>unseen, SMTT(30) DEF Write
  <2> QED
    BY <1>0, <2>1, <2>2, <2>3, <2>4, <2>5, <2>6, <2>7, <2>8 DEF AtomicInv
<1>8. CASE DeleteFile(o)
  <2>1. KindAt'
    BY <1>8, <1>type, <1>kinds, <1>made DEF DeleteFile
  <2>2. LockHeld'
    BY <1>8, <1>type, <1>kinds, <1>locked DEF DeleteFile
  <2>3. NamedMade'
    BY <1>8, <1>type, <1>made, SMTT(30) DEF DeleteFile
  <2>4. Truncated'
    BY <1>8, <1>type, <1>kinds, <1>locked, <1>made, <1>trunc DEF DeleteFile
  <2>5. ReadStands'
    BY <1>8, <1>type, <1>kinds, <1>locked, <1>made, <1>stands DEF DeleteFile
  <2>6. TornLeft'
    BY <1>8, <1>type, <1>kinds, <1>torn, <1>unseen, SMTT(30) DEF DeleteFile
  <2>7. Unbegun'
    BY <1>8, <1>type, <1>new DEF DeleteFile
  <2>8. InFlightUnseen'
    BY <1>8, <1>type, <1>kinds, <1>locked, <1>torn, <1>new, <1>unseen, SMTT(30) DEF DeleteFile
  <2> QED
    BY <1>0, <2>1, <2>2, <2>3, <2>4, <2>5, <2>6, <2>7, <2>8 DEF AtomicInv
<1>9. CASE StatTarget(o)
  <2>1. KindAt'
    BY <1>9, <1>type, <1>kinds, <1>made DEF StatTarget
  <2>2. LockHeld'
    BY <1>9, <1>type, <1>kinds, <1>locked DEF StatTarget
  <2>3. NamedMade'
    BY <1>9, <1>type, <1>made, SMTT(30) DEF StatTarget
  <2>4. Truncated'
    BY <1>9, <1>type, <1>kinds, <1>locked, <1>made, <1>trunc DEF StatTarget
  <2>5. ReadStands'
    BY <1>9, <1>type, <1>kinds, <1>locked, <1>made, <1>stands DEF StatTarget
  <2>6. TornLeft'
    BY <1>9, <1>type, <1>kinds, <1>torn, <1>unseen, SMTT(30) DEF StatTarget
  <2>7. Unbegun'
    BY <1>9, <1>type, <1>new DEF StatTarget
  <2>8. InFlightUnseen'
    BY <1>9, <1>type, <1>kinds, <1>locked, <1>torn, <1>new, <1>unseen, SMTT(30) DEF StatTarget
  <2> QED
    BY <1>0, <2>1, <2>2, <2>3, <2>4, <2>5, <2>6, <2>7, <2>8 DEF AtomicInv
<1>10. CASE Fetch(o)
  <2>1. KindAt'
    BY <1>10, <1>type, <1>kinds, <1>made DEF Fetch
  <2>2. LockHeld'
    BY <1>10, <1>type, <1>kinds, <1>locked DEF Fetch
  <2>3. NamedMade'
    BY <1>10, <1>type, <1>made, SMTT(30) DEF Fetch
  <2>4. Truncated'
    BY <1>10, <1>type, <1>kinds, <1>locked, <1>made, <1>trunc DEF Fetch
  <2>5. ReadStands'
    BY <1>10, <1>type, <1>kinds, <1>locked, <1>made, <1>stands DEF Fetch
  <2>6. TornLeft'
    BY <1>10, <1>type, <1>kinds, <1>torn, <1>unseen, SMTT(30) DEF Fetch
  <2>7. Unbegun'
    BY <1>10, <1>type, <1>new DEF Fetch
  <2>8. InFlightUnseen'
    BY <1>10, <1>type, <1>kinds, <1>locked, <1>torn, <1>new, <1>unseen, SMTT(30) DEF Fetch
  <2> QED
    BY <1>0, <2>1, <2>2, <2>3, <2>4, <2>5, <2>6, <2>7, <2>8 DEF AtomicInv
<1>11. CASE Rename(o)
  <2>1. KindAt'
    BY <1>11, <1>type, <1>kinds, <1>made DEF Rename
  <2>2. LockHeld'
    BY <1>11, <1>type, <1>kinds, <1>locked DEF Rename
  <2>3. NamedMade'
    BY <1>11, <1>type, <1>made, SMTT(30) DEF Rename
  <2>4. Truncated'
    BY <1>11, <1>type, <1>kinds, <1>locked, <1>made, <1>trunc DEF Rename
  <2>5. ReadStands'
    BY <1>11, <1>type, <1>kinds, <1>locked, <1>made, <1>stands DEF Rename
  <2>6. TornLeft'
    BY <1>11, <1>type, <1>kinds, <1>torn, <1>unseen, SMTT(30) DEF Rename
  <2>7. Unbegun'
    BY <1>11, <1>type, <1>new DEF Rename
  <2>8. InFlightUnseen'
    BY <1>11, <1>type, <1>kinds, <1>locked, <1>torn, <1>new, <1>unseen, SMTT(30) DEF Rename
  <2> QED
    BY <1>0, <2>1, <2>2, <2>3, <2>4, <2>5, <2>6, <2>7, <2>8 DEF AtomicInv
<1>12. CASE OpenSource(o)
  <2>1. KindAt'
    BY <1>12, <1>type, <1>kinds, <1>made DEF OpenSource
  <2>2. LockHeld'
    BY <1>12, <1>type, <1>kinds, <1>locked DEF OpenSource
  <2>3. NamedMade'
    BY <1>12, <1>type, <1>made, SMTT(30) DEF OpenSource
  <2>4. Truncated'
    BY <1>12, <1>type, <1>kinds, <1>locked, <1>made, <1>trunc DEF OpenSource
  <2>5. ReadStands'
    BY <1>12, <1>type, <1>kinds, <1>locked, <1>made, <1>stands DEF OpenSource
  <2>6. TornLeft'
    BY <1>12, <1>type, <1>kinds, <1>torn, <1>unseen, SMTT(30) DEF OpenSource
  <2>7. Unbegun'
    BY <1>12, <1>type, <1>new DEF OpenSource
  <2>8. InFlightUnseen'
    BY <1>12, <1>type, <1>kinds, <1>locked, <1>torn, <1>new, <1>unseen, SMTT(30) DEF OpenSource
  <2> QED
    BY <1>0, <2>1, <2>2, <2>3, <2>4, <2>5, <2>6, <2>7, <2>8 DEF AtomicInv
<1>13. CASE Send(o)
  <2>1. KindAt'
    BY <1>13, <1>type, <1>kinds, <1>made DEF Send
  <2>2. LockHeld'
    BY <1>13, <1>type, <1>kinds, <1>locked DEF Send
  <2>3. NamedMade'
    BY <1>13, <1>type, <1>made, SMTT(30) DEF Send
  <2>4. Truncated'
    BY <1>13, <1>type, <1>kinds, <1>locked, <1>made, <1>trunc DEF Send
  <2>5. ReadStands'
    BY <1>13, <1>type, <1>kinds, <1>locked, <1>made, <1>stands DEF Send
  <2>6. TornLeft'
    BY <1>13, <1>type, <1>kinds, <1>torn, <1>unseen, SMTT(30) DEF Send
  <2>7. Unbegun'
    BY <1>13, <1>type, <1>new DEF Send
  <2>8. InFlightUnseen'
    BY <1>13, <1>type, <1>kinds, <1>locked, <1>torn, <1>new, <1>unseen, SMTT(30) DEF Send
  <2> QED
    BY <1>0, <2>1, <2>2, <2>3, <2>4, <2>5, <2>6, <2>7, <2>8 DEF AtomicInv
<1> QED
  BY <1>1, <1>2, <1>3, <1>4, <1>5, <1>6, <1>7, <1>8, <1>9, <1>10, <1>11, <1>12, <1>13 DEF Step

\* The invariant holds of every behaviour.
LEMMA AtomicInvariant == Spec => []AtomicInv
<1>1. Init => AtomicInv
  BY FilesAssumption, ContentType DEF Init, AtomicInv
<1>2. AtomicInv /\ [Next]_vars => AtomicInv'
  <2>1. ASSUME AtomicInv, Next PROVE AtomicInv'
    BY <2>1, AtomicStep DEF Next
  <2>2. ASSUME AtomicInv, UNCHANGED vars PROVE AtomicInv'
    BY <2>2 DEF AtomicInv, vars
  <2> QED
    BY <2>1, <2>2
<1> QED
  BY <1>1, <1>2, PTL DEF Spec

-----------------------------------------------------------------------------
(* What follows from it.                                                    *)

\* A view or an edit never sees what another command is still writing
\* (file_ops.go:39-42).
THEOREM ViewCorrect == Spec => []InFlightUnseen
<1>1. AtomicInv => InFlightUnseen
  BY DEF AtomicInv
<1> QED
  BY <1>1, AtomicInvariant, PTL

\* A file operation is atomic among its like (file_ops.go:39-42).
THEOREM EditCorrect == Spec => EditIsAtomic
<1> DEFINE Atomic(o) ==
      /\ At(o, "open") /\ IsA(o, {"edit"}) /\ pc'[o] = "write" =>
           IF name = fd[o] THEN data[name] = seen[o]
           ELSE name \in Op /\ IsA(name, {"download", "downloadNew"})
      /\ At(o, "write") /\ pc'[o] = "unlock" => data[fd[o]] = Torn(o)
<1>1. AtomicInv => \A o \in Op : Atomic(o)
  BY DEF AtomicInv
<1>2. AtomicInv /\ [Next]_vars => [\A o \in Op : Atomic(o)]_vars
  BY <1>1
<1> QED
  BY <1>2, AtomicInvariant, PTL DEF Spec, EditIsAtomic
=============================================================================
