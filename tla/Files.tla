------------------------------- MODULE Files --------------------------------
(***************************************************************************)
(* Commands on one file of the workspace: the file operations of             *)
(* executor/file_ops.go, which hold the lock of its path from the first look   *)
(* to the last write, and the transfers of executor/file_transfer.go, which    *)
(* do not.                                                                  *)
(*                                                                         *)
(* A name refers to an inode, which is called after the command that made it.  *)
(* What an inode holds is either whole - the text of a base command with some    *)
(* edits applied to it - or what a writer has left of it between its truncation  *)
(* and its write.  A transfer puts a new inode in place by a rename; a writer      *)
(* that has opened the old one goes on writing there.                          *)
(***************************************************************************)
EXTENDS FiniteSets

CONSTANTS Op,        \* commands
          Ask,       \* [Op -> SUBSET Kind]: what each of them may be
          Initial,   \* the inode that exists at the beginning
          None

Kind == {"view", "create", "edit", "delete", "download", "downloadNew", "upload"}
Inode == Op \cup {Initial}

ASSUME FilesAssumption == /\ IsFiniteSet(Op) /\ Initial \notin Op /\ None \notin Inode
                          /\ Ask \in [Op -> SUBSET Kind]

VARIABLES
    pc, kind,   \* [Op -> Control], [Op -> Kind]: where a command is, what it is
    fd, seen,   \* [Op -> Inode \cup {None}], [Op -> Content]: what it has open, has read
    ok,         \* [Op -> BOOLEAN]: it has succeeded
    lock,       \* holder of the path's mutex, or None
    name,       \* the inode at the path, or None
    data        \* [Inode -> Content]

got  == <<fd, seen>>
file == <<name, data>>
vars == <<pc, kind, got, ok, lock, file>>

Whole(b, e) == [base |-> b, edits |-> e, torn |-> None]
Torn(o)     == [base |-> None, edits |-> {}, torn |-> o]
Nothing     == [base |-> None, edits |-> {}, torn |-> None]

\* lock: waits for the mutex; look: the Stat or ReadFile; open: before the
\* truncating open; write: before the write; fetch: the download runs;
\* rename: the temp file is complete; send: the upload runs; unlock: the deferred unlock.
Control == {"new", "lock", "look", "open", "write", "fetch", "rename", "send", "unlock", "done"}

At(o, here) == pc[o] = here
IsA(o, K)   == kind[o] \in K
Goto(o, to) == pc' = [pc EXCEPT ![o] = to]

\* Mutant: a view does not lock.
Bug_Locking == {"create", "edit", "delete"}

Locking     == {"view", "create", "edit", "delete"}

\* The command returns: through its unlock if it holds the lock.
Finish(o, result) ==
    /\ Goto(o, IF IsA(o, Locking) THEN "unlock" ELSE "done")
    /\ ok' = [ok EXCEPT ![o] = result]

\* It keeps what it has open, and the text in it.
Read(o, i) ==
    /\ fd' = [fd EXCEPT ![o] = i]
    /\ seen' = [seen EXCEPT ![o] = data[i]]

-----------------------------------------------------------------------------
Init ==
    /\ pc = [o \in Op |-> "new"] /\ kind = [o \in Op |-> "view"]
    /\ fd = [o \in Op |-> None] /\ seen = [o \in Op |-> Nothing]
    /\ ok = [o \in Op |-> FALSE]
    /\ lock = None
    /\ name \in {Initial, None}
    /\ data = [i \in Inode |-> IF i = Initial THEN Whole(Initial, {}) ELSE Nothing]

Begin(o, k) ==
    /\ At(o, "new")
    /\ kind' = [kind EXCEPT ![o] = k]
    /\ Goto(o, IF k \in Locking THEN "lock" ELSE "look")
    /\ UNCHANGED <<got, ok, lock, file>>

\* Mutant: each command has a mutex of its own.
Bug_lockPath(o) ==
    /\ At(o, "lock")
    /\ lock' = o
    /\ Goto(o, IF IsA(o, {"create", "delete"}) THEN "open" ELSE "look")
    /\ UNCHANGED <<kind, got, ok, file>>

\* lockPath.
lockPath(o) ==
    /\ At(o, "lock") /\ lock = None
    /\ lock' = o
    /\ Goto(o, IF IsA(o, {"create", "delete"}) THEN "open" ELSE "look")
    /\ UNCHANGED <<kind, got, ok, file>>

Unlock(o) ==
    /\ At(o, "unlock")
    /\ lock' = None
    /\ Goto(o, "done")
    /\ UNCHANGED <<kind, got, ok, file>>

-----------------------------------------------------------------------------
(* What each command does once it may look at the file.                     *)

\* ReadFile: Stat, and the text it returns.
View(o) ==
    /\ At(o, "look") /\ IsA(o, {"view"})
    /\ \/ Finish(o, FALSE) /\ UNCHANGED got
       \/ name # None /\ Finish(o, TRUE) /\ Read(o, name)
    /\ UNCHANGED <<kind, lock, file>>

\* StrReplace and Insert read the file; the text or the line may not be there.
ReadForEdit(o) ==
    /\ At(o, "look") /\ IsA(o, {"edit"})
    /\ \/ Finish(o, FALSE) /\ UNCHANGED got
       \/ name # None /\ Goto(o, "open") /\ Read(o, name) /\ UNCHANGED ok
    /\ UNCHANGED <<kind, lock, file>>

\* os.WriteFile opens with O_TRUNC, creating the file if there is none.
Open(o) ==
    /\ At(o, "open") /\ IsA(o, {"create", "edit"})
    /\ \/ Finish(o, FALSE) /\ UNCHANGED <<fd, file>>
       \/ /\ name' = IF name = None THEN o ELSE name
          /\ data' = [data EXCEPT ![name'] = Torn(o)]
          /\ fd' = [fd EXCEPT ![o] = name']
          /\ Goto(o, "write") /\ UNCHANGED ok
    /\ UNCHANGED <<kind, seen, lock>>

\* It then writes through what it has opened; a full disk ends that early.
Result(o) ==
    IF IsA(o, {"create"}) THEN Whole(o, {})
    ELSE IF seen[o].torn # None THEN seen[o]
    ELSE Whole(seen[o].base, seen[o].edits \cup {o})

Write(o) ==
    /\ At(o, "write")
    /\ \/ Finish(o, FALSE) /\ UNCHANGED data
       \/ Finish(o, TRUE) /\ data' = [data EXCEPT ![fd[o]] = Result(o)]
    /\ UNCHANGED <<kind, got, lock, name>>

DeleteFile(o) ==
    /\ At(o, "open") /\ IsA(o, {"delete"})
    /\ \/ Finish(o, FALSE) /\ UNCHANGED name
       \/ name # None /\ name' = None /\ Finish(o, TRUE)
    /\ UNCHANGED <<kind, got, lock, data>>

\* downloadFile looks at the path once, before the request.
StatTarget(o) ==
    /\ At(o, "look") /\ IsA(o, {"download", "downloadNew"})
    /\ IF name # None /\ IsA(o, {"downloadNew"}) THEN Finish(o, FALSE)
       ELSE Goto(o, "fetch") /\ UNCHANGED ok
    /\ UNCHANGED <<kind, got, lock, file>>

\* The body goes to a temp file beside the target, complete or not at all.
Fetch(o) ==
    /\ At(o, "fetch")
    /\ \/ Finish(o, FALSE) /\ UNCHANGED data
       \/ Goto(o, "rename") /\ data' = [data EXCEPT ![o] = Whole(o, {})] /\ UNCHANGED ok
    /\ UNCHANGED <<kind, got, lock, name>>

Rename(o) ==
    /\ At(o, "rename")
    /\ \/ Finish(o, FALSE) /\ UNCHANGED name
       \/ name' = o /\ Finish(o, TRUE)
    /\ UNCHANGED <<kind, got, lock, data>>

\* uploadFile: Stat and Open, then the request reads the file.
OpenSource(o) ==
    /\ At(o, "look") /\ IsA(o, {"upload"})
    /\ \/ Finish(o, FALSE) /\ UNCHANGED got
       \/ name # None /\ Goto(o, "send") /\ Read(o, name) /\ UNCHANGED ok
    /\ UNCHANGED <<kind, lock, file>>

\* The transport refuses a body that is not as long as the Stat said; it knows
\* no length if that was 0, which is what a truncated file has.
Send(o) ==
    /\ At(o, "send")
    /\ \/ Finish(o, FALSE) /\ UNCHANGED seen
       \/ /\ seen[o].torn # None \/ data[fd[o]].torn = None
          /\ Finish(o, TRUE)
          /\ seen' = [seen EXCEPT ![o] = data[fd[o]]]
    /\ UNCHANGED <<kind, fd, lock, file>>

-----------------------------------------------------------------------------
Step(o) == \/ lockPath(o) \/ Unlock(o)
           \/ View(o) \/ ReadForEdit(o) \/ Open(o) \/ Write(o) \/ DeleteFile(o)
           \/ StatTarget(o) \/ Fetch(o) \/ Rename(o) \/ OpenSource(o) \/ Send(o)

Next == \E o \in Op : Step(o) \/ \E k \in Ask[o] : Begin(o, k)

Spec == Init /\ [][Next]_vars

-----------------------------------------------------------------------------
(* Properties.                                                              *)

\* A file operation is atomic among its like (file_ops.go:39-42).  What an edit
\* overwrites is what it has read, and no one else writes between the truncation
\* and the write.  Only the rename of a download may come in between, and then
\* the edit replaces the download, or goes to the inode it has put aside.
EditIsAtomic ==
    [][\A o \in Op :
         /\ At(o, "open") /\ IsA(o, {"edit"}) /\ pc'[o] = "write" =>
              IF name = fd[o] THEN data[name] = seen[o]
              ELSE name \in Op /\ IsA(name, {"download", "downloadNew"})
         /\ At(o, "write") /\ pc'[o] = "unlock" => data[fd[o]] = Torn(o)]_vars

\* A view or an edit never sees what another command is still writing: text that
\* is torn was left by a write that failed.
InFlightUnseen ==
    \A o \in Op : IsA(o, {"view", "edit"}) /\ seen[o].torn # None =>
        LET w == seen[o].torn IN pc[w] = "done" /\ ~ok[w]
=============================================================================
