------------------------------- MODULE Shell --------------------------------
(***************************************************************************)
(* One shell command (executor/shell.go, Run) and the handler that waits for *)
(* its answer (runner.go, handleShell); or one git command (RunGit).          *)
(*                                                                         *)
(* The command is a leader and what it starts: a child in its process tree,   *)
(* and an escapee that tree.kill() does not reach.  Each may hold the write    *)
(* ends of the output pipes.  Output goes                                    *)
(*    pipe -> streamPipe (one per stream) -> out -> Run -> chunks -> handler   *)
(* and Run gives up on it at a deadline, a grace period after the leader has    *)
(* exited, or when the pipes are at their end.  The k-th chunk of a stream is    *)
(* the pair of the stream and k.                                             *)
(***************************************************************************)
EXTENDS Naturals, Sequences

CONSTANTS MaxOutput,   \* [Stream -> Nat], bound of the model: chunks written
          OutCap,      \* capacity of out (256)
          ChunkCap     \* capacity of chunks (64)

Stream == {"stdout", "stderr"}
Proc   == {"leader", "child", "escapee"}
Tree   == {"leader", "child"}
Notice == <<"runner", 0>>

ASSUME ShellAssumption == /\ MaxOutput \in [Stream -> Nat]
                          /\ OutCap \in Nat \ {0} /\ ChunkCap \in Nat \ {0}

VARIABLES
    kind,       \* "shell" or "git"
    proc,       \* [Proc -> {"unborn", "running", "gone"}]
    status,     \* exit status of the leader: "none", "zero", "nonzero", "killed"
    muted,      \* streams the leader has closed, or redirected, itself
    writers,    \* [Stream -> processes that hold its write end]
    written,    \* [Stream -> chunks written into the pipe]
    reader,     \* [Stream -> [n, done]]: streamPipe, n chunks read so far
    out,        \* the channel of streamPipe's chunks
    drained,    \* the deferred goroutine empties out
    endsClosed, \* closeReadEndAsync has been called
    cmdDone,    \* channel of c.Wait()'s result: "none", "full", "taken"
    run,        \* [pc, hold, then, timedOut, exited, forced]: Run
    deadline,   \* the context's deadline has passed
    grace,      \* graceTimer: "off", "on", "fired"
    chunks,     \* the channel to the handler
    got,        \* [Stream -> chunks the handler has sent on]
    result      \* "none", "ok", "failed", "timeout", then what is answered

command == <<proc, status, muted, writers, written>>
pipes   == <<reader, out, drained, endsClosed>>
timers  == <<deadline, grace>>
answer  == <<chunks, got, result>>
vars    == <<kind, command, pipes, cmdDone, run, timers, answer>>

Control == {"start", "loop", "send", "kill", "confirm", "judge", "return", "returned", "answered"}

Running(p) == proc[p] = "running"
\* Mutant: out is closed when one of the two readers is done.
Bug_OutClosed == \E s \in Stream : reader[s].done

OutClosed  == \A s \in Stream : reader[s].done
At(pc)     == run.pc = pc
Goto(pc)   == run' = [run EXCEPT !.pc = pc]
Ended      == run.pc \in {"returned", "answered"}

\* chunks <- c blocks Run until the handler makes room.
Sending(r, c, then) == [r EXCEPT !.pc = "send", !.hold = c, !.then = then]

\* What is gone releases its write ends; the leader's status is set if it was running.
Kill(S) ==
    LET D == {p \in S : Running(p)} IN
    /\ proc' = [p \in Proc |-> IF p \in D THEN "gone" ELSE proc[p]]
    /\ writers' = [s \in Stream |-> writers[s] \ D]
    /\ status' = IF "leader" \in D THEN "killed" ELSE status

-----------------------------------------------------------------------------
Init ==
    /\ kind \in {"shell", "git"}
    /\ proc = [p \in Proc |-> "unborn"] /\ status = "none" /\ muted = {}
    /\ writers = [s \in Stream |-> {}]
    /\ written = [s \in Stream |-> 0]
    /\ reader = [s \in Stream |-> [n |-> 0, done |-> FALSE]]
    /\ out = <<>> /\ drained = (kind = "git") /\ endsClosed = FALSE
    /\ cmdDone = "none"
    /\ run = [pc |-> "start", hold |-> Notice, then |-> "loop",
              timedOut |-> FALSE, exited |-> FALSE, forced |-> FALSE]
    /\ deadline = FALSE /\ grace = "off"
    /\ chunks = <<>> /\ got = [s \in Stream |-> 0] /\ result = "none"

\* c.Start(); Run closes its own copies of the write ends.
Start ==
    /\ At("start")
    /\ proc' = [proc EXCEPT !["leader"] = "running"]
    /\ writers' = [s \in Stream |-> {"leader"}]
    /\ Goto("loop")
    /\ UNCHANGED <<kind, status, muted, written, pipes, cmdDone, timers, answer>>

\* A pipe cannot be made, or the command cannot be started.
StartFails ==
    /\ At("start")
    /\ IF kind = "shell" THEN run' = Sending(run, Notice, "return") ELSE Goto("answered")
    /\ result' = "failed"
    /\ UNCHANGED <<kind, command, pipes, cmdDone, timers, chunks, got>>

-----------------------------------------------------------------------------
(* The command.                                                             *)

Fork(p) ==
    /\ Running("leader") /\ proc[p] = "unborn"
    /\ proc' = [proc EXCEPT ![p] = "running"]
    /\ writers' = [s \in Stream |-> IF "leader" \in writers[s]
                                    THEN writers[s] \cup {p} ELSE writers[s]]
    /\ UNCHANGED <<kind, status, muted, written, pipes, cmdDone, run, timers, answer>>

Write(p, s) ==
    /\ Running(p) /\ p \in writers[s]
    /\ written[s] < MaxOutput[s]
    /\ written' = [written EXCEPT ![s] = @ + 1]
    /\ UNCHANGED <<kind, proc, status, muted, writers, pipes, cmdDone, run, timers, answer>>

\* exec >log, or a close of the descriptor.
Mute(s) ==
    /\ Running("leader") /\ s \notin muted
    /\ muted' = muted \cup {s}
    /\ writers' = [writers EXCEPT ![s] = @ \ {"leader"}]
    /\ UNCHANGED <<kind, proc, status, written, pipes, cmdDone, run, timers, answer>>

ProcEnds(p) ==
    /\ Running(p)
    /\ proc' = [proc EXCEPT ![p] = "gone"]
    /\ writers' = [s \in Stream |-> writers[s] \ {p}]
    /\ IF p = "leader" THEN status' \in {"zero", "nonzero"} ELSE status' = status
    /\ UNCHANGED <<kind, muted, written, pipes, cmdDone, run, timers, answer>>

\* The deadline of the context, at most maxShellTimeout (ten minutes) away.
Deadline ==
    /\ ~deadline /\ ~Ended /\ run.pc # "start"
    /\ deadline' = TRUE
    /\ UNCHANGED <<kind, command, pipes, cmdDone, run, grace, answer>>

\* exec.CommandContext kills the leader on its own then, the leader alone.
ContextKills ==
    /\ deadline /\ Running("leader")
    /\ Kill({"leader"})
    /\ UNCHANGED <<kind, muted, written, pipes, cmdDone, run, timers, answer>>

-----------------------------------------------------------------------------
(* The goroutines of Run: c.Wait(), streamPipe and the timer.               *)

\* Mutant: Wait closes the read ends, as it does with StdoutPipe.
Bug_WaitReturns ==
    /\ proc["leader"] = "gone" /\ cmdDone = "none"
    /\ cmdDone' = "full" /\ endsClosed' = TRUE
    /\ UNCHANGED <<kind, command, reader, out, drained, run, timers, answer>>

WaitReturns ==
    /\ proc["leader"] = "gone" /\ cmdDone = "none"
    /\ cmdDone' = "full"
    /\ UNCHANGED <<kind, command, pipes, run, timers, answer>>

\* A Read, and the send to out, which waits for room; a chunk that waits there
\* counts as still in the pipe.
Read(s) ==
    /\ ~reader[s].done /\ reader[s].n < written[s]
    /\ \/ drained /\ UNCHANGED out
       \/ ~drained /\ Len(out) < OutCap /\ out' = Append(out, <<s, reader[s].n + 1>>)
    /\ reader' = [reader EXCEPT ![s].n = @ + 1]
    /\ UNCHANGED <<kind, command, drained, endsClosed, cmdDone, run, timers, answer>>

\* End of file, once the pipe is empty and no one holds its write end.
AtEof(s) == writers[s] = {} /\ reader[s].n = written[s]

ReadEnds(s) ==
    /\ ~reader[s].done /\ proc["leader"] # "unborn" /\ AtEof(s)
    /\ reader' = [reader EXCEPT ![s].done = TRUE]
    /\ UNCHANGED <<kind, command, out, drained, endsClosed, cmdDone, run, timers, answer>>

\* The read end was closed.  On Windows the Read may go on all the same.
ReadFails(s) ==
    /\ ~reader[s].done /\ endsClosed
    /\ reader' = [reader EXCEPT ![s].done = TRUE]
    /\ UNCHANGED <<kind, command, out, drained, endsClosed, cmdDone, run, timers, answer>>

GraceEnds ==
    /\ grace = "on" /\ ~Ended
    /\ grace' = "fired"
    /\ UNCHANGED <<kind, command, pipes, cmdDone, run, deadline, answer>>

\* Mutant: no grace period, only the kill of the tree.
Bug_StartGrace == UNCHANGED grace

StartGrace == grace' = IF grace = "off" THEN "on" ELSE grace

-----------------------------------------------------------------------------
(* The select loop of Run.                                                  *)

\* A chunk goes from out to chunks.
Forward ==
    /\ At("loop") /\ kind = "shell" /\ out # <<>>
    /\ out' = Tail(out)
    /\ run' = Sending(run, Head(out), "loop")
    /\ UNCHANGED <<kind, command, reader, drained, endsClosed, cmdDone, timers, answer>>

Leave(r) == IF r.exited THEN "judge" ELSE "confirm"

\* Both streamPipe calls have returned and out is empty.
PipesEnd ==
    /\ At("loop") /\ kind = "shell" /\ OutClosed /\ out = <<>>
    /\ Goto(Leave(run))
    /\ UNCHANGED <<kind, command, pipes, cmdDone, timers, answer>>

\* The leader has exited: the tree is killed, and the grace period starts.
LeaderDone ==
    /\ At("loop") /\ kind = "shell" /\ cmdDone = "full"
    /\ cmdDone' = "taken"
    /\ run' = [run EXCEPT !.exited = TRUE]
    /\ Kill(Tree) /\ StartGrace
    /\ UNCHANGED <<kind, muted, written, pipes, deadline, answer>>

\* The deadline has passed: a notice, then the kill and the grace period.
TimedOut ==
    /\ At("loop") /\ kind = "shell" /\ deadline /\ ~run.timedOut
    /\ run' = Sending([run EXCEPT !.timedOut = TRUE], Notice, "kill")
    /\ UNCHANGED <<kind, command, pipes, cmdDone, timers, answer>>

TimeoutKill ==
    /\ At("kill")
    /\ Kill(Tree) /\ StartGrace
    /\ Goto("loop")
    /\ UNCHANGED <<kind, muted, written, pipes, cmdDone, deadline, answer>>

\* The grace period is over and the pipes are not at their end.
GiveUp ==
    /\ At("loop") /\ kind = "shell" /\ grace = "fired"
    /\ endsClosed' = TRUE
    /\ run' = Sending([run EXCEPT !.forced = TRUE], Notice, Leave(run))
    /\ UNCHANGED <<kind, command, reader, out, drained, cmdDone, timers, answer>>

SendChunk ==
    /\ At("send") /\ Len(chunks) < ChunkCap
    /\ chunks' = Append(chunks, run.hold)
    /\ run' = [run EXCEPT !.pc = run.then, !.hold = Notice, !.then = "loop"]
    /\ UNCHANGED <<kind, command, pipes, cmdDone, timers, got, result>>

-----------------------------------------------------------------------------
(* After the loop.                                                          *)

Confirm ==
    /\ At("confirm")
    /\ \/ /\ cmdDone = "full" /\ cmdDone' = "taken"
          /\ run' = [run EXCEPT !.exited = TRUE, !.pc = "judge"]
       \/ /\ run' = Sending(run, Notice, "judge")    \* cmdDoneGrace is over
          /\ UNCHANGED cmdDone
    /\ UNCHANGED <<kind, command, pipes, timers, answer>>

\* The exit code.
Judge ==
    /\ At("judge")
    /\ result' = IF run.timedOut \/ deadline THEN "timeout"
                 ELSE IF run.exited /\ status = "zero" THEN "ok" ELSE "failed"
    /\ run' = IF deadline /\ ~run.timedOut THEN Sending(run, Notice, "return")
              ELSE [run EXCEPT !.pc = "return"]
    /\ UNCHANGED <<kind, command, pipes, cmdDone, timers, chunks, got>>

\* The deferred calls: the tree is killed, the read ends are closed, out is
\* drained, result and chunks are closed.
Return ==
    /\ At("return")
    /\ Kill(Tree)
    /\ endsClosed' = TRUE /\ drained' = TRUE /\ out' = <<>>
    /\ Goto("returned")
    /\ UNCHANGED <<kind, muted, written, reader, cmdDone, timers, answer>>

\* handleShell sends a chunk on, and the result once chunks is closed.
Handle ==
    /\ chunks # <<>>
    /\ chunks' = Tail(chunks)
    /\ LET c == Head(chunks) IN
         got' = IF c = Notice THEN got ELSE [got EXCEPT ![c[1]] = c[2]]
    /\ UNCHANGED <<kind, command, pipes, cmdDone, run, timers, result>>

Answer ==
    /\ At("returned") /\ chunks = <<>>
    /\ Goto("answered")
    /\ UNCHANGED <<kind, command, pipes, cmdDone, timers, answer>>

\* RunGit: CombinedOutput waits for the leader and then for the pipes, with no
\* grace period (no WaitDelay) and no kill of the tree.
GitReturns ==
    /\ At("loop") /\ kind = "git" /\ cmdDone = "full" /\ OutClosed
    /\ result' = IF status = "zero" THEN "ok" ELSE "failed"
    /\ Goto("answered")
    /\ UNCHANGED <<kind, command, pipes, cmdDone, timers, chunks, got>>

-----------------------------------------------------------------------------
RunStep == \/ Start \/ StartFails \/ Forward \/ PipesEnd \/ LeaderDone
           \/ TimedOut \/ TimeoutKill \/ GiveUp \/ SendChunk
           \/ Confirm \/ Judge \/ Return \/ GitReturns
streamPipe(s) == Read(s) \/ ReadEnds(s)
\* Up to the answer; what an escapee does later concerns no one.
Command == /\ ~At("answered")
           /\ \/ \E p \in Proc \ {"leader"} : Fork(p)
              \/ \E p \in Proc : ProcEnds(p) \/ \E s \in Stream : Write(p, s)
              \/ \E s \in Stream : Mute(s)

Next == \/ RunStep \/ Handle \/ Answer \/ Command
        \/ ~At("answered") /\ \E s \in Stream : streamPipe(s) \/ ReadFails(s)
        \/ WaitReturns \/ ContextKills \/ Deadline \/ GraceEnds

\* Goroutines go on, timers fire, a killed process dies.  The handler goes on
\* because send() returns (Connection, SendReturns).  Nothing is said of the
\* command: it may run, write and hold the pipes for ever.
Fairness == /\ WF_vars(RunStep) /\ WF_vars(Handle) /\ WF_vars(Answer)
            /\ \A s \in Stream : WF_vars(streamPipe(s))
            /\ WF_vars(WaitReturns) /\ WF_vars(ContextKills)
            /\ WF_vars(Deadline) /\ WF_vars(GraceEnds)

Spec == Init /\ [][Next]_vars /\ Fairness

-----------------------------------------------------------------------------
(* Properties.                                                              *)

\* A shell command is answered whatever the command does (shell.go:97-99), a
\* git command once nobody holds its output pipes any more.
Answered ==
    /\ (kind = "shell") ~> At("answered")
    /\ (kind = "git" /\ At("loop") /\ \A s \in Stream : writers[s] = {}) ~> At("answered")

\* No output is lost (shell.go:184-200): the answer comes after everything the
\* command has written, unless Run said that it gave up on the pipes.
OutputComplete ==
    kind = "shell" /\ At("answered") /\ ~run.forced =>
        \A s \in Stream : got[s] = written[s]

\* The leader of a shell command is killed for a reason: its deadline has
\* passed, or it has closed both its outputs itself.
KilledForCause ==
    kind = "shell" /\ status = "killed" => deadline \/ muted = Stream
=============================================================================
