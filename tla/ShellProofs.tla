------------------------------ MODULE ShellProofs -----------------------------
(***************************************************************************)
(* What is proved of Shell for every amount of output and every capacity of  *)
(* the two channels.                                                        *)
(***************************************************************************)
EXTENDS Shell, TLAPS

\* The shape of the state, as far as the proofs need it.
Chunk == (Stream \X Nat) \cup {Notice}
Phase == {"unborn", "running", "gone"}
CommandShape == /\ kind \in {"shell", "git"} /\ proc \in [Proc -> Phase] /\ muted \subseteq Stream
                /\ writers \in [Stream -> SUBSET Proc] /\ written \in [Stream -> Nat]
FlowShape == /\ reader \in [Stream -> [n : Nat, done : BOOLEAN]]
             /\ out \in Seq(Chunk) /\ chunks \in Seq(Chunk) /\ got \in [Stream -> Nat]
Then == {"loop", "kill", "confirm", "judge", "return"}
Run == [pc : Control, hold : Chunk, then : Then, timedOut : BOOLEAN,
        exited : BOOLEAN, forced : BOOLEAN]
RunShape == run \in Run /\ deadline \in BOOLEAN
Shape == CommandShape /\ FlowShape /\ RunShape

LEMMA ShapeInit == Init => Shape
<1> SUFFICES ASSUME Init PROVE Shape
  OBVIOUS
<1>1. CommandShape
  BY DEF Init, CommandShape, Phase
<1>2. FlowShape
  BY DEF Init, FlowShape
<1>3. RunShape
  BY DEF Init, RunShape, Run, Chunk, Control, Then
<1> QED
  BY <1>1, <1>2, <1>3 DEF Shape

-----------------------------------------------------------------------------
(* Queues of chunks.                                                        *)

Items(q)    == {q[i] : i \in 1 .. Len(q)}
InOrder(q)  == \A i, j \in 1 .. Len(q) : \A s \in Stream, k, l \in Nat :
                   i < j /\ q[i] = <<s, k>> /\ q[j] = <<s, l>> => k < l
Ahead(A, B) == \A s \in Stream, k, l \in Nat : <<s, k>> \in A /\ <<s, l>> \in B => k < l

LEMMA AppendChunk ==
    ASSUME NEW q \in Seq(Chunk), NEW c \in Chunk
    PROVE  /\ Append(q, c) \in Seq(Chunk) /\ Items(Append(q, c)) = Items(q) \cup {c}
           /\ InOrder(q) /\ Ahead(Items(q), {c}) => InOrder(Append(q, c))
<1>1. /\ Append(q, c) \in Seq(Chunk) /\ Len(Append(q, c)) = Len(q) + 1 /\ Len(q) \in Nat
      /\ Append(q, c)[Len(q) + 1] = c /\ \A i \in 1 .. Len(q) : Append(q, c)[i] = q[i]
  OBVIOUS
<1>2. Items(Append(q, c)) \subseteq Items(q) \cup {c}
  BY <1>1 DEF Items
<1>3. Items(q) \cup {c} \subseteq Items(Append(q, c))
  BY <1>1 DEF Items
<1>4. ASSUME InOrder(q), Ahead(Items(q), {c}) PROVE InOrder(Append(q, c))
  <2> SUFFICES ASSUME NEW i \in 1 .. Len(q) + 1, NEW j \in 1 .. Len(q) + 1, i < j,
                      NEW s \in Stream, NEW k \in Nat, NEW l \in Nat,
                      Append(q, c)[i] = <<s, k>>, Append(q, c)[j] = <<s, l>>
               PROVE  k < l
    BY <1>1 DEF InOrder
  <2>1. i \in 1 .. Len(q) /\ q[i] = <<s, k>> /\ <<s, k>> \in Items(q)
    BY <1>1 DEF Items
  <2>2. CASE j \in 1 .. Len(q)
    BY <1>1, <1>4, <2>1, <2>2 DEF InOrder
  <2>3. CASE j = Len(q) + 1
    BY <1>1, <1>4, <2>1, <2>3 DEF Ahead
  <2> QED
    BY <1>1, <2>2, <2>3
<1> QED
  BY <1>1, <1>2, <1>3, <1>4

LEMMA TailChunk ==
    ASSUME NEW q \in Seq(Chunk), q # <<>>
    PROVE  /\ Tail(q) \in Seq(Chunk) /\ Head(q) \in Chunk /\ Items(q) = {Head(q)} \cup Items(Tail(q))
           /\ InOrder(q) => InOrder(Tail(q)) /\ Ahead({Head(q)}, Items(Tail(q)))
<1>1. /\ Tail(q) \in Seq(Chunk) /\ Len(q) \in Nat \ {0} /\ Len(Tail(q)) = Len(q) - 1 /\ Head(q) = q[1]
      /\ \A i \in 1 .. Len(q) - 1 : Tail(q)[i] = q[i + 1]
  OBVIOUS
<1>2. Head(q) \in Chunk
  BY <1>1
<1>3. Items(q) \subseteq {Head(q)} \cup Items(Tail(q))
  <2> SUFFICES ASSUME NEW i \in 1 .. Len(q) PROVE q[i] \in {Head(q)} \cup Items(Tail(q))
    BY DEF Items
  <2>1. CASE i = 1
    BY <1>1, <2>1
  <2>2. CASE i # 1
    <3>1. i - 1 \in 1 .. Len(Tail(q)) /\ Tail(q)[i - 1] = q[i]
      BY <1>1, <2>2
    <3> QED
      BY <3>1 DEF Items
  <2> QED
    BY <2>1, <2>2
<1>4. {Head(q)} \cup Items(Tail(q)) \subseteq Items(q)
  BY <1>1 DEF Items
<1>5. ASSUME InOrder(q) PROVE InOrder(Tail(q)) /\ Ahead({Head(q)}, Items(Tail(q)))
  <2>1. InOrder(Tail(q))
    BY <1>1, <1>5 DEF InOrder
  <2>2. Ahead({Head(q)}, Items(Tail(q)))
    <3> SUFFICES ASSUME NEW s \in Stream, NEW k \in Nat, NEW l \in Nat, q[1] = <<s, k>>,
                        NEW i \in 1 .. Len(q) - 1, q[i + 1] = <<s, l>>
                 PROVE  k < l
      BY <1>1 DEF Ahead, Items
    <3> QED
      BY <1>1, <1>5 DEF InOrder
  <2> QED
    BY <2>1, <2>2
<1> QED
  BY <1>1, <1>2, <1>3, <1>4, <1>5

-----------------------------------------------------------------------------
(* Every step keeps the shape.                                              *)

\* What becomes of run, field by field.
LEMMA GotoFields ==
    ASSUME run \in Run, NEW to \in Control, Goto(to)
    PROVE  /\ run' \in Run /\ run'.pc = to /\ run'.hold = run.hold /\ run'.then = run.then
           /\ run'.forced = run.forced
BY DEF Run, Goto

LEMMA SendingFields ==
    ASSUME NEW r \in Run, NEW c \in Chunk, NEW to \in Then, run' = Sending(r, c, to)
    PROVE  run' \in Run /\ run'.pc = "send" /\ run'.hold = c /\ run'.then = to /\ run'.forced = r.forced
BY DEF Run, Sending, Control

LEMMA KillShape ==
    ASSUME CommandShape, NEW S \in SUBSET Proc, Kill(S)
    PROVE  /\ proc' \in [Proc -> Phase] /\ writers' \in [Stream -> SUBSET Proc]
           /\ \A p \in Proc : proc'[p] # proc[p] => p \in S /\ proc[p] = "running" /\ proc'[p] = "gone"
           /\ \A s \in Stream : /\ writers'[s] \subseteq writers[s]
                                /\ "leader" \in writers[s] \ writers'[s] => proc[ "leader" ] = "running"
                                                                          /\ "leader" \in S
           /\ status' = "killed" => status = "killed" \/ proc["leader"] = "running"
BY DEF CommandShape, Kill, Running, Phase

\* The steps of Run, with the fields of run.
LEMMA RunMoves ==
    ASSUME RunShape, FlowShape
    PROVE  /\ Start => run' \in Run /\ run'.pc = "loop" /\ run'.then = run.then /\ run'.forced = run.forced
           /\ StartFails /\ kind = "shell" =>
                  /\ run' \in Run /\ run'.pc = "send" /\ run'.hold = Notice /\ run'.then = "return"
                  /\ run'.forced = run.forced
           /\ StartFails /\ kind # "shell" => run' \in Run
           /\ Forward => /\ run' \in Run /\ run'.pc = "send" /\ run'.hold = Head(out) /\ run'.then = "loop"
                         /\ run'.forced = run.forced
           /\ PipesEnd => /\ run' \in Run /\ run'.pc \in {"judge", "confirm"} /\ run'.then = run.then
                          /\ run'.forced = run.forced
           /\ LeaderDone => /\ run' \in Run /\ run'.pc = run.pc /\ run'.hold = run.hold
                            /\ run'.then = run.then /\ run'.forced = run.forced
           /\ TimedOut => /\ run' \in Run /\ run'.pc = "send" /\ run'.hold = Notice /\ run'.then = "kill"
                          /\ run'.forced = run.forced
           /\ TimeoutKill => /\ run' \in Run /\ run'.pc = "loop" /\ run'.then = run.then
                             /\ run'.forced = run.forced
           /\ GiveUp => /\ run' \in Run /\ run'.pc = "send" /\ run'.hold = Notice /\ run'.forced = TRUE
                        /\ run'.then \in {"judge", "confirm"}
           /\ SendChunk => /\ run' \in Run /\ run'.pc = run.then /\ run'.then = "loop"
                           /\ run'.forced = run.forced
           /\ Confirm => /\ run' \in Run /\ run'.forced = run.forced
                         /\ \/ run'.pc = "judge"
                            \/ run'.pc = "send" /\ run'.hold = Notice /\ run'.then = "judge"
           /\ Judge => /\ run' \in Run /\ run'.forced = run.forced
                       /\ \/ run'.pc = "return"
                          \/ run'.pc = "send" /\ run'.hold = Notice /\ run'.then = "return"
           /\ Return => run' \in Run /\ run'.pc = "returned" /\ run'.forced = run.forced
           /\ GitReturns \/ Answer => run' \in Run /\ run'.pc = "answered" /\ run'.forced = run.forced
<1> USE DEF RunShape
<1>1. run \in Run /\ Notice \in Chunk
  BY DEF Chunk
<1>2. Start => run' \in Run /\ run'.pc = "loop" /\ run'.then = run.then /\ run'.forced = run.forced
  BY <1>1, GotoFields DEF Start, Control
<1>3. /\ StartFails /\ kind = "shell" =>
           /\ run' \in Run /\ run'.pc = "send" /\ run'.hold = Notice /\ run'.then = "return"
           /\ run'.forced = run.forced
      /\ StartFails /\ kind # "shell" => run' \in Run
  BY <1>1, GotoFields, SendingFields DEF StartFails, Control, Then
<1>4. Forward => /\ run' \in Run /\ run'.pc = "send" /\ run'.hold = Head(out) /\ run'.then = "loop"
                 /\ run'.forced = run.forced
  <2>1. out # <<>> => Head(out) \in Chunk
    BY TailChunk DEF FlowShape
  <2> QED
    BY <1>1, <2>1, SendingFields DEF Forward, Control, Then
<1>5. PipesEnd => /\ run' \in Run /\ run'.pc \in {"judge", "confirm"} /\ run'.then = run.then
                  /\ run'.forced = run.forced
  BY <1>1, GotoFields DEF PipesEnd, Leave, Control
<1>6. LeaderDone => /\ run' \in Run /\ run'.pc = run.pc /\ run'.hold = run.hold
                    /\ run'.then = run.then /\ run'.forced = run.forced
  BY <1>1 DEF LeaderDone, Run
<1>7. TimedOut => /\ run' \in Run /\ run'.pc = "send" /\ run'.hold = Notice /\ run'.then = "kill"
                  /\ run'.forced = run.forced
  <2>1. [run EXCEPT !.timedOut = TRUE] \in Run /\ [run EXCEPT !.timedOut = TRUE].forced = run.forced
    BY <1>1 DEF Run
  <2> QED
    BY <1>1, <2>1, SendingFields DEF TimedOut, Control, Then
<1>8. TimeoutKill => /\ run' \in Run /\ run'.pc = "loop" /\ run'.then = run.then
                     /\ run'.forced = run.forced
  BY <1>1, GotoFields DEF TimeoutKill, Control
<1>9. GiveUp => /\ run' \in Run /\ run'.pc = "send" /\ run'.hold = Notice /\ run'.forced = TRUE
                /\ run'.then \in {"judge", "confirm"}
  <2>1. [run EXCEPT !.forced = TRUE] \in Run /\ [run EXCEPT !.forced = TRUE].forced = TRUE
    BY <1>1 DEF Run
  <2>2. Leave(run) \in {"judge", "confirm"} /\ {"judge", "confirm"} \subseteq Then
    BY DEF Leave, Then
  <2> QED
    BY <1>1, <2>1, <2>2, SendingFields DEF GiveUp
<1>10. SendChunk => /\ run' \in Run /\ run'.pc = run.then /\ run'.then = "loop"
                    /\ run'.forced = run.forced
  BY <1>1 DEF SendChunk, Run, Control, Then
<1>11. Confirm => /\ run' \in Run /\ run'.forced = run.forced
                  /\ \/ run'.pc = "judge"
                     \/ run'.pc = "send" /\ run'.hold = Notice /\ run'.then = "judge"
  <2>1. CASE run' = [run EXCEPT !.exited = TRUE, !.pc = "judge"]
    BY <1>1, <2>1 DEF Run, Control
  <2>2. CASE run' = Sending(run, Notice, "judge")
    BY <1>1, <2>2, SendingFields DEF Then
  <2> QED
    BY <2>1, <2>2 DEF Confirm
<1>12. Judge => /\ run' \in Run /\ run'.forced = run.forced
                /\ \/ run'.pc = "return"
                   \/ run'.pc = "send" /\ run'.hold = Notice /\ run'.then = "return"
  <2>1. CASE run' = [run EXCEPT !.pc = "return"]
    BY <1>1, <2>1 DEF Run, Control
  <2>2. CASE run' = Sending(run, Notice, "return")
    BY <1>1, <2>2, SendingFields DEF Then
  <2> QED
    BY <2>1, <2>2 DEF Judge
<1>13. Return => run' \in Run /\ run'.pc = "returned" /\ run'.forced = run.forced
  BY <1>1, GotoFields DEF Return, Control
<1>14. GitReturns \/ Answer => run' \in Run /\ run'.pc = "answered" /\ run'.forced = run.forced
  BY <1>1, GotoFields DEF GitReturns, Answer, Control
<1> QED
  BY <1>2, <1>3, <1>4, <1>5, <1>6, <1>7, <1>8, <1>9, <1>10, <1>11, <1>12, <1>13, <1>14

LEMMA ShapeStep == Shape /\ [Next]_vars => Shape'
<1> SUFFICES ASSUME Shape, [Next]_vars PROVE Shape'
  OBVIOUS
<1> USE DEF Shape, command, pipes, timers, answer
<1>1. CASE RunStep \/ Answer
  <2>1. RunShape'
    <3>1. run' \in Run
      BY <1>1, RunMoves DEF RunStep
    <3>2. deadline' = deadline
      BY <1>1 DEF RunStep, Start, StartFails, Forward, PipesEnd, LeaderDone, TimedOut, TimeoutKill, GiveUp,
                  SendChunk, Confirm, Judge, Return, GitReturns, Answer
    <3> QED
      BY <3>1, <3>2 DEF RunShape
  <2>2. CASE Start
    BY <2>1, <2>2 DEF Start, CommandShape, FlowShape, Proc, Phase
  <2>3. CASE Forward
    <3>1. out' \in Seq(Chunk)
      BY <2>3, TailChunk DEF Forward, FlowShape
    <3> QED
      BY <2>1, <2>3, <3>1 DEF Forward, CommandShape, FlowShape
  <2>4. CASE LeaderDone \/ TimeoutKill
    <3>1. CommandShape'
      BY <2>4, KillShape DEF LeaderDone, TimeoutKill, CommandShape, Tree, Proc
    <3> QED
      BY <2>1, <2>4, <3>1 DEF LeaderDone, TimeoutKill, FlowShape
  <2>5. CASE SendChunk
    <3>1. chunks' \in Seq(Chunk)
      BY <2>5, AppendChunk DEF SendChunk, FlowShape, RunShape, Run
    <3> QED
      BY <2>1, <2>5, <3>1 DEF SendChunk, CommandShape, FlowShape
  <2>6. CASE Return
    <3>1. CommandShape'
      BY <2>6, KillShape DEF Return, CommandShape, Tree, Proc
    <3>2. FlowShape'
      BY <2>6 DEF Return, FlowShape
    <3> QED
      BY <2>1, <3>1, <3>2
  <2>7. CASE StartFails \/ PipesEnd \/ TimedOut \/ GiveUp \/ Confirm \/ Judge \/ GitReturns \/ Answer
    BY <2>1, <2>7 DEF StartFails, PipesEnd, TimedOut, GiveUp, Confirm, Judge, GitReturns, Answer,
                      CommandShape, FlowShape
  <2> QED
    BY <1>1, <2>2, <2>3, <2>4, <2>5, <2>6, <2>7 DEF RunStep
<1>2. CASE Handle
  <2>1. chunks' \in Seq(Chunk) /\ Head(chunks) \in Chunk
    BY <1>2, TailChunk DEF Handle, FlowShape
  <2>2. got' \in [Stream -> Nat]
    BY <1>2, <2>1 DEF Handle, FlowShape, Chunk
  <2> QED
    BY <1>2, <2>1, <2>2 DEF Handle, CommandShape, FlowShape, RunShape
<1>3. CASE Command
  <2>1. CommandShape'
    <3>1. ASSUME NEW p \in Proc, Fork(p) PROVE CommandShape'
      BY <3>1 DEF Fork, CommandShape, Phase
    <3>2. ASSUME NEW p \in Proc, ProcEnds(p) PROVE CommandShape'
      BY <3>2 DEF ProcEnds, CommandShape, Phase
    <3>3. ASSUME NEW p \in Proc, NEW s \in Stream, Write(p, s) \/ Mute(s) PROVE CommandShape'
      BY <3>3 DEF Write, Mute, CommandShape
    <3> QED
      BY <1>3, <3>1, <3>2, <3>3 DEF Command, Proc
  <2> QED
    BY <1>3, <2>1 DEF Command, Fork, ProcEnds, Write, Mute, FlowShape, RunShape
<1>4. ASSUME NEW s \in Stream, Read(s) PROVE Shape'
  <2>1. out' \in Seq(Chunk)
    <3>1. <<s, reader[s].n + 1>> \in Chunk
      BY DEF FlowShape, Chunk
    <3> QED
      BY <1>4, <3>1, AppendChunk DEF Read, FlowShape
  <2>2. [reader[s] EXCEPT !.n = @ + 1] \in [n : Nat, done : BOOLEAN]
    BY DEF FlowShape
  <2>3. reader' = [reader EXCEPT ![s] = [reader[s] EXCEPT !.n = @ + 1]]
    BY <1>4 DEF Read
  <2>4. reader' \in [Stream -> [n : Nat, done : BOOLEAN]]
    BY <2>2, <2>3 DEF FlowShape
  <2> QED
    BY <1>4, <2>1, <2>4 DEF Read, CommandShape, FlowShape, RunShape
<1>5. ASSUME NEW s \in Stream, ReadEnds(s) \/ ReadFails(s) PROVE Shape'
  BY <1>5 DEF ReadEnds, ReadFails, CommandShape, FlowShape, RunShape
<1>6. CASE ContextKills
  BY <1>6, KillShape DEF ContextKills, CommandShape, FlowShape, RunShape, Proc
<1>7. CASE WaitReturns \/ Deadline \/ GraceEnds \/ UNCHANGED vars
  BY <1>7 DEF WaitReturns, Deadline, GraceEnds, vars, CommandShape, FlowShape, RunShape
<1> QED
  BY <1>1, <1>2, <1>3, <1>4, <1>5, <1>6, <1>7 DEF Next, streamPipe

-----------------------------------------------------------------------------
(* How Run comes to its end.                                                *)

\* Past the loop, or about to be once a last notice is in chunks.
Leaving == \/ run.pc \in {"confirm", "judge", "return", "returned", "answered"}
           \/ run.pc = "send" /\ run.then \in {"confirm", "judge", "return"}

\* Nothing is written any more, and everything written has been read.
Finished(s) == writers[s] = {} /\ reader[s].n = written[s]

\* Before the command is started there is nothing.
Fresh == run.pc = "start" =>
             /\ \A p \in Proc : proc[p] = "unborn"
             /\ \A s \in Stream : Finished(s) /\ ~reader[s].done
             /\ out = <<>> /\ ~run.forced /\ run.then = "loop"

\* The read ends are closed, and out is emptied, at the very end or after Run gave up.
ClosedLate == /\ endsClosed => run.forced \/ run.pc \in {"returned", "answered"}
              /\ drained => run.pc \in {"returned", "answered"}

\* A reader ends at the end of the file, and Run ends when both have, unless it gave up.
EndsAtEof == ~run.forced =>
                 /\ \A s \in Stream : reader[s].done => Finished(s)
                 /\ Leaving => out = <<>> /\ \A s \in Stream : Finished(s)

EndInv == kind = "shell" => Fresh /\ ClosedLate /\ EndsAtEof

LEMMA EndInit == Init => EndInv
<1> SUFFICES ASSUME Init, kind = "shell" PROVE Fresh /\ ClosedLate /\ EndsAtEof
  BY DEF EndInv
<1>1. run.pc = "start" /\ ~run.forced /\ run.then = "loop" /\ ~endsClosed /\ ~drained /\ out = <<>>
  BY DEF Init
<1>2. \A s \in Stream : writers[s] = {} /\ written[s] = 0 /\ reader[s].n = 0 /\ ~reader[s].done
  BY DEF Init
<1> QED
  BY <1>1, <1>2 DEF Init, Fresh, ClosedLate, EndsAtEof, Finished, Leaving

LEMMA EndRun ==
    ASSUME Shape, EndInv, kind = "shell", RunStep \/ Answer
    PROVE  EndInv'
<1> USE DEF EndInv, Shape, command, pipes, timers, answer
<1>0. RunShape /\ FlowShape /\ run \in Run /\ run.pc \in Control /\ run.then \in Then /\ kind' = "shell"
  BY DEF RunShape, Run, RunStep, Start, StartFails, Forward, PipesEnd, LeaderDone, TimedOut, TimeoutKill,
         GiveUp, SendChunk, Confirm, Judge, Return, GitReturns, Answer
<1>1. ASSUME UNCHANGED <<reader, written, endsClosed, drained>>, run'.forced = run.forced,
             run.pc \notin {"start", "returned", "answered"}, run'.pc # "start",
             out' = out \/ ~Leaving, Leaving' => Leaving,
             \A s \in Stream : writers'[s] \subseteq writers[s]
      PROVE  EndInv'
  BY <1>1 DEF Fresh, ClosedLate, EndsAtEof, Finished
<1>2. CASE Start
  <2>1. run'.pc = "loop" /\ run'.forced = run.forced /\ run.pc = "start"
    BY <1>0, <1>2, RunMoves DEF Start, At
  <2>2. UNCHANGED <<reader, written, endsClosed, drained>>
    BY <1>2 DEF Start
  <2> QED
    BY <2>1, <2>2 DEF Fresh, ClosedLate, EndsAtEof, Finished, Leaving
<1>3. CASE StartFails
  <2>1. run'.pc = "send" /\ run'.then = "return" /\ run'.forced = run.forced /\ run.pc = "start"
    BY <1>0, <1>3, RunMoves DEF StartFails, At
  <2>2. UNCHANGED <<reader, written, writers, out, endsClosed, drained>>
    BY <1>3 DEF StartFails
  <2> QED
    BY <2>1, <2>2 DEF Fresh, ClosedLate, EndsAtEof, Finished, Leaving
<1>4. CASE Forward
  <2>1. run'.pc = "send" /\ run'.then = "loop" /\ run'.forced = run.forced /\ run.pc = "loop"
    BY <1>0, <1>4, RunMoves DEF Forward, At
  <2>2. UNCHANGED <<reader, written, writers, endsClosed, drained>>
    BY <1>4 DEF Forward
  <2> QED
    BY <1>1, <2>1, <2>2 DEF Leaving
<1>5. CASE PipesEnd
  <2>1. run'.pc \in {"judge", "confirm"} /\ run'.forced = run.forced /\ run.pc = "loop"
    BY <1>0, <1>5, RunMoves DEF PipesEnd, At
  <2>2. UNCHANGED <<reader, written, writers, out, endsClosed, drained>> /\ out = <<>>
        /\ \A s \in Stream : reader[s].done
    BY <1>5 DEF PipesEnd, OutClosed
  <2> QED
    BY <2>1, <2>2 DEF Fresh, ClosedLate, EndsAtEof, Finished
<1>6. CASE LeaderDone \/ TimeoutKill
  <2>1. run'.forced = run.forced /\ run.pc \in {"loop", "kill"} /\ run'.pc = "loop" /\ run'.then = run.then
    BY <1>0, <1>6, RunMoves DEF LeaderDone, TimeoutKill, At
  <2>2. UNCHANGED <<reader, written, out, endsClosed, drained>>
        /\ \A s \in Stream : writers'[s] \subseteq writers[s]
    BY <1>6, KillShape DEF LeaderDone, TimeoutKill, Tree, Proc
  <2> QED
    BY <1>1, <2>1, <2>2 DEF Leaving
<1>7. CASE TimedOut
  <2>1. run'.pc = "send" /\ run'.then = "kill" /\ run'.forced = run.forced /\ run.pc = "loop"
    BY <1>0, <1>7, RunMoves DEF TimedOut, At
  <2>2. UNCHANGED <<reader, written, writers, out, endsClosed, drained>>
    BY <1>7 DEF TimedOut
  <2> QED
    BY <1>1, <2>1, <2>2 DEF Leaving
<1>8. CASE GiveUp
  <2>1. run'.pc = "send" /\ run'.forced = TRUE /\ run.pc = "loop" /\ drained' = drained
    BY <1>0, <1>8, RunMoves DEF GiveUp, At
  <2> QED
    BY <2>1 DEF Fresh, ClosedLate, EndsAtEof
<1>9. CASE SendChunk
  <2>1. run'.pc = run.then /\ run'.then = "loop" /\ run'.forced = run.forced /\ run.pc = "send"
    BY <1>0, <1>9, RunMoves DEF SendChunk, At
  <2>2. UNCHANGED <<reader, written, writers, out, endsClosed, drained>>
    BY <1>9 DEF SendChunk
  <2> QED
    BY <1>0, <1>1, <2>1, <2>2 DEF Leaving, Then
<1>10. CASE Confirm \/ Judge
  <2>1. run.pc \in {"confirm", "judge"} /\ run'.forced = run.forced /\ run'.pc \in {"judge", "send", "return"}
    BY <1>0, <1>10, RunMoves DEF Confirm, Judge, At
  <2>2. UNCHANGED <<reader, written, writers, out, endsClosed, drained>>
    BY <1>10 DEF Confirm, Judge
  <2> QED
    BY <1>1, <2>1, <2>2 DEF Leaving
<1>11. CASE Return
  <2>1. run'.pc = "returned" /\ run'.forced = run.forced /\ run.pc = "return"
    BY <1>0, <1>11, RunMoves DEF Return, At
  <2>2. UNCHANGED <<reader, written>> /\ out' = <<>>
        /\ \A s \in Stream : writers'[s] \subseteq writers[s]
    BY <1>11, KillShape DEF Return, Tree, Proc
  <2> QED
    BY <2>1, <2>2 DEF Fresh, ClosedLate, EndsAtEof, Finished, Leaving
<1>12. CASE Answer
  <2>1. run'.pc = "answered" /\ run'.forced = run.forced /\ run.pc = "returned"
    BY <1>0, <1>12, RunMoves DEF Answer, At
  <2>2. UNCHANGED <<reader, written, writers, out, endsClosed, drained>>
    BY <1>12 DEF Answer
  <2> QED
    BY <2>1, <2>2 DEF Fresh, ClosedLate, EndsAtEof, Finished, Leaving
<1> QED
  BY <1>2, <1>3, <1>4, <1>5, <1>6, <1>7, <1>8, <1>9, <1>10, <1>11, <1>12 DEF RunStep, GitReturns

\* The command, the readers, the handler and the timers.
LEMMA EndOthers ==
    ASSUME Shape, EndInv, kind = "shell", [Next]_vars, ~(RunStep \/ Answer)
    PROVE  EndInv'
<1> USE DEF EndInv, Shape, command, pipes, timers, answer
<1>1. ASSUME UNCHANGED <<reader, written, writers, out, endsClosed, drained, run, proc>>
      PROVE  EndInv'
  BY <1>1 DEF Fresh, ClosedLate, EndsAtEof, Finished, Leaving
<1>2. CASE Handle \/ WaitReturns \/ Deadline \/ GraceEnds \/ UNCHANGED vars
  BY <1>1, <1>2 DEF Handle, WaitReturns, Deadline, GraceEnds, vars
<1>3. ASSUME NEW p \in Proc \ {"leader"}, Fork(p) PROVE EndInv'
  BY <1>3 DEF Fork, Running, Fresh, ClosedLate, EndsAtEof, Finished, Leaving, Proc
<1>4. ASSUME NEW p \in Proc, NEW s \in Stream, Write(p, s) PROVE EndInv'
  BY <1>4 DEF Write, Running, Fresh, ClosedLate, EndsAtEof, Finished, Leaving
<1>5. ASSUME NEW p \in Proc, ProcEnds(p) PROVE EndInv'
  BY <1>5 DEF ProcEnds, Running, Fresh, ClosedLate, EndsAtEof, Finished, Leaving
<1>6. ASSUME NEW s \in Stream, Mute(s) PROVE EndInv'
  BY <1>6 DEF Mute, Running, Fresh, ClosedLate, EndsAtEof, Finished, Leaving, CommandShape, Proc
<1>7. ASSUME NEW s \in Stream, Read(s) PROVE EndInv'
  <2>1. ~Finished(s)
    BY <1>7 DEF Read, Finished, FlowShape, CommandShape
  <2>2. /\ UNCHANGED <<written, writers, endsClosed, drained, run, proc>> /\ run.pc # "start"
        /\ reader[s].done = reader'[s].done
        /\ \A t \in Stream \ {s} : reader'[t] = reader[t]
    BY <1>7, <2>1 DEF Read, Fresh, FlowShape
  <2> QED
    BY <2>1, <2>2 DEF Fresh, ClosedLate, EndsAtEof, Finished, Leaving
<1>8. ASSUME NEW s \in Stream, ReadEnds(s) \/ ReadFails(s) PROVE EndInv'
  <2>1. UNCHANGED <<written, writers, out, endsClosed, drained, run, proc>>
    BY <1>8 DEF ReadEnds, ReadFails
  <2>2. run.pc # "start"
    BY <1>8 DEF ReadEnds, ReadFails, Fresh, ClosedLate, Proc
  <2>3. ~run.forced => Finished(s)
    BY <1>8, <2>2 DEF ReadEnds, ReadFails, AtEof, Finished, ClosedLate, EndsAtEof, Leaving
  <2>4. \A t \in Stream : reader'[t].n = reader[t].n
    BY <1>8, ZenonT(30) DEF ReadEnds, ReadFails, FlowShape
  <2>5. \A t \in Stream \ {s} : reader'[t] = reader[t]
    BY <1>8 DEF ReadEnds, ReadFails, FlowShape
  <2> QED
    BY <2>1, <2>2, <2>3, <2>4, <2>5 DEF Fresh, ClosedLate, EndsAtEof, Finished, Leaving
<1>9. CASE ContextKills
  <2>1. /\ UNCHANGED <<reader, written, out, endsClosed, drained, run>>
        /\ \A s \in Stream : writers'[s] \subseteq writers[s]
    BY <1>9, KillShape DEF ContextKills, Proc
  <2>2. run.pc # "start"
    BY <1>9 DEF ContextKills, Running, Fresh, Proc
  <2> QED
    BY <2>1, <2>2 DEF Fresh, ClosedLate, EndsAtEof, Finished, Leaving
<1> QED
  BY <1>2, <1>3, <1>4, <1>5, <1>6, <1>7, <1>8, <1>9 DEF Next, Command, streamPipe

-----------------------------------------------------------------------------
(* Where the chunks are.                                                    *)

InHand   == IF run.pc = "send" THEN {run.hold} ELSE {}
Pipeline == Items(chunks) \cup InHand \cup Items(out)

\* What has been read and not sent on is in the pipeline, and nothing else.
AllThere == \A s \in Stream :
                /\ got[s] <= reader[s].n
                /\ \A k \in Nat : <<s, k>> \in Pipeline <=> got[s] < k /\ k <= reader[s].n

\* The pipeline keeps the order of each stream.
OneAfterOther == /\ InOrder(chunks) /\ InOrder(out) /\ Ahead(Items(chunks), InHand)
                 /\ Ahead(Items(chunks), Items(out)) /\ Ahead(InHand, Items(out))

FlowInv == kind = "shell" /\ ~run.forced => AllThere /\ OneAfterOther

\* The answer comes after the last chunk.
AnswerLast == kind = "shell" /\ run.pc = "answered" => chunks = <<>>

-----------------------------------------------------------------------------
(* Why the leader is killed.                                                *)

Cause == deadline \/ muted = Stream

\* The leader keeps its write ends while it runs, or has muted the stream.
LeaderHolds == proc["leader"] = "running" =>
                   \A s \in Stream : "leader" \in writers[s] \/ s \in muted

\* A kill is on its way, or the grace period runs, at the deadline or after the leader.
KillsLate == /\ run.pc = "kill" \/ (run.pc = "send" /\ run.then = "kill") => deadline
             /\ cmdDone # "none" => proc["leader"] = "gone"
             /\ grace # "off" => deadline \/ proc["leader"] = "gone"

\* Run leaves the loop for a reason to kill, or when the leader does not run.
LeavesForCause == Leaving \/ run.forced => Cause \/ proc["leader"] # "running"

CauseInv == kind = "shell" => LeaderHolds /\ KillsLate /\ LeavesForCause /\ KilledForCause

LEMMA CauseInit == Init => CauseInv
<1> SUFFICES ASSUME Init PROVE LeaderHolds /\ KillsLate /\ LeavesForCause /\ KilledForCause
  BY DEF CauseInv
<1>1. run.pc = "start" /\ run.then = "loop" /\ ~run.forced
  BY DEF Init
<1> QED
  BY <1>1 DEF Init, LeaderHolds, KillsLate, LeavesForCause, KilledForCause, Leaving, Proc

LEMMA CauseRun ==
    ASSUME Shape, EndInv, CauseInv, kind = "shell", RunStep \/ Answer
    PROVE  CauseInv'
<1> USE DEF CauseInv, Shape, command, pipes, timers, answer, Cause
<1>0. RunShape /\ FlowShape /\ run \in Run /\ run.pc \in Control /\ run.then \in Then /\ kind' = "shell"
  BY DEF RunShape, Run, RunStep, Start, StartFails, Forward, PipesEnd, LeaderDone, TimedOut, TimeoutKill,
         GiveUp, SendChunk, Confirm, Judge, Return, GitReturns, Answer
<1>1. ASSUME UNCHANGED <<command, deadline, grace>>, run'.forced => run.forced, Leaving' => Leaving,
             run'.pc = "kill" \/ (run'.pc = "send" /\ run'.then = "kill") => deadline,
             cmdDone' # "none" => proc["leader"] = "gone"
      PROVE  CauseInv'
  BY <1>1 DEF LeaderHolds, KillsLate, LeavesForCause, KilledForCause
<1>2. CASE Start
  <2>1. run'.pc = "loop" /\ run'.forced = run.forced /\ run.pc = "start"
    BY <1>0, <1>2, RunMoves DEF Start, At
  <2>2. ~run.forced /\ grace' = grace /\ cmdDone' = cmdDone /\ proc["leader"] = "unborn"
    BY <1>2, <2>1 DEF Start, EndInv, Fresh, Proc
  <2> QED
    BY <1>2, <2>1, <2>2 DEF Start, LeaderHolds, KillsLate, LeavesForCause, KilledForCause, Leaving
<1>3. CASE StartFails
  <2>1. run'.pc = "send" /\ run'.then = "return" /\ run'.forced = run.forced /\ run.pc = "start"
    BY <1>0, <1>3, RunMoves DEF StartFails, At
  <2>2. UNCHANGED <<command, deadline, grace, cmdDone>> /\ proc["leader"] = "unborn"
    BY <1>3, <2>1 DEF StartFails, EndInv, Fresh, Proc
  <2> QED
    BY <2>1, <2>2 DEF LeaderHolds, KillsLate, LeavesForCause, KilledForCause, Leaving
<1>4. CASE Forward
  <2>1. run'.pc = "send" /\ run'.then = "loop" /\ run'.forced = run.forced /\ run.pc = "loop"
    BY <1>0, <1>4, RunMoves DEF Forward, At
  <2> QED
    BY <1>1, <1>4, <2>1 DEF Forward, Leaving, KillsLate
<1>5. CASE PipesEnd
  <2>1. run'.pc \in {"judge", "confirm"} /\ run'.forced = run.forced
    BY <1>0, <1>5, RunMoves DEF PipesEnd, At
  <2>2. UNCHANGED <<command, deadline, grace, cmdDone>> /\ \A s \in Stream : reader[s].done
    BY <1>5 DEF PipesEnd, OutClosed
  <2>3. ~run.forced => \A s \in Stream : writers[s] = {}
    BY <2>2 DEF EndInv, EndsAtEof, Finished
  <2>4. ~run.forced /\ proc["leader"] = "running" => muted = Stream
    BY <2>3 DEF LeaderHolds, CommandShape
  <2> QED
    BY <2>1, <2>2, <2>4 DEF LeaderHolds, KillsLate, LeavesForCause, KilledForCause
<1>6. CASE LeaderDone \/ TimeoutKill
  <2>1. run'.forced = run.forced /\ run.pc \in {"loop", "kill"} /\ run'.pc = "loop" /\ run'.then = run.then
    BY <1>0, <1>6, RunMoves DEF LeaderDone, TimeoutKill, At
  <2>2. Kill(Tree) /\ UNCHANGED <<muted, deadline>>
        /\ (deadline \/ proc["leader"] = "gone") /\ (cmdDone' # "none" => cmdDone # "none")
    BY <1>6, <2>1 DEF LeaderDone, TimeoutKill, KillsLate, At
  <2>3. /\ proc["leader"] = "gone" => proc'["leader"] = "gone"
        /\ proc'["leader"] = "running" => proc["leader"] = "running"
                   /\ \A s \in Stream : "leader" \in writers[s] => "leader" \in writers'[s]
        /\ status' = "killed" => status = "killed" \/ proc["leader"] = "running"
    BY <2>2, KillShape DEF Tree, Proc, CommandShape, Phase, Kill, Running
  <2> QED
    BY <2>1, <2>2, <2>3 DEF LeaderHolds, KillsLate, LeavesForCause, KilledForCause, Leaving
<1>7. CASE TimedOut
  <2>1. run'.pc = "send" /\ run'.then = "kill" /\ run'.forced = run.forced /\ run.pc = "loop"
    BY <1>0, <1>7, RunMoves DEF TimedOut, At
  <2> QED
    BY <1>1, <1>7, <2>1 DEF TimedOut, Leaving, KillsLate
<1>8. CASE GiveUp
  <2>1. run'.pc = "send" /\ run'.then \in {"judge", "confirm"}
    BY <1>0, <1>8, RunMoves
  <2>2. UNCHANGED <<command, deadline, grace, cmdDone>> /\ (deadline \/ proc["leader"] = "gone")
    BY <1>8 DEF GiveUp, KillsLate
  <2> QED
    BY <2>1, <2>2 DEF LeaderHolds, KillsLate, LeavesForCause, KilledForCause
<1>9. CASE SendChunk
  <2>1. run'.pc = run.then /\ run'.then = "loop" /\ run'.forced = run.forced /\ run.pc = "send"
    BY <1>0, <1>9, RunMoves DEF SendChunk, At
  <2> QED
    BY <1>0, <1>1, <1>9, <2>1 DEF SendChunk, Leaving, Then, KillsLate
<1>10. CASE Confirm
  <2>1. run.pc = "confirm" /\ run'.forced = run.forced
        /\ (run'.pc = "judge" \/ (run'.pc = "send" /\ run'.then = "judge"))
    BY <1>0, <1>10, RunMoves DEF Confirm, At
  <2>2. UNCHANGED <<command, deadline, grace>> /\ (cmdDone' # "none" => cmdDone # "none")
    BY <1>10 DEF Confirm
  <2> QED
    BY <1>1, <2>1, <2>2 DEF Leaving, KillsLate
<1>11. CASE Judge
  <2>1. run.pc = "judge" /\ run'.forced = run.forced
        /\ (run'.pc = "return" \/ (run'.pc = "send" /\ run'.then = "return"))
    BY <1>0, <1>11, RunMoves DEF Judge, At
  <2> QED
    BY <1>1, <1>11, <2>1 DEF Judge, Leaving, KillsLate
<1>12. CASE Return
  <2>1. run'.pc = "returned" /\ run'.forced = run.forced /\ run.pc = "return"
    BY <1>0, <1>12, RunMoves DEF Return, At
  <2>2. Kill(Tree) /\ UNCHANGED <<muted, deadline, grace, cmdDone>>
        /\ (Cause \/ proc["leader"] # "running")
    BY <1>12, <2>1 DEF Return, LeavesForCause, Leaving
  <2>3. /\ proc["leader"] = "gone" => proc'["leader"] = "gone"
        /\ proc'["leader"] = "running" => proc["leader"] = "running"
                   /\ \A s \in Stream : "leader" \in writers[s] => "leader" \in writers'[s]
        /\ status' = "killed" => status = "killed" \/ proc["leader"] = "running"
    BY <2>2, KillShape DEF Tree, Proc, CommandShape, Phase, Kill, Running
  <2> QED
    BY <2>1, <2>2, <2>3 DEF LeaderHolds, KillsLate, LeavesForCause, KilledForCause
<1>13. CASE Answer
  <2>1. run'.pc = "answered" /\ run'.forced = run.forced /\ run.pc = "returned"
    BY <1>0, <1>13, RunMoves DEF Answer, At
  <2> QED
    BY <1>1, <1>13, <2>1 DEF Answer, Leaving, KillsLate
<1> QED
  BY <1>2, <1>3, <1>4, <1>5, <1>6, <1>7, <1>8, <1>9, <1>10, <1>11, <1>12, <1>13 DEF RunStep, GitReturns

LEMMA CauseOthers ==
    ASSUME Shape, CauseInv, kind = "shell", [Next]_vars, ~(RunStep \/ Answer)
    PROVE  CauseInv'
<1> USE DEF CauseInv, Shape, command, pipes, timers, answer, Cause
<1>1. ASSUME UNCHANGED <<proc, status, writers, run, cmdDone>>, deadline => deadline', muted' = muted,
             grace' # "off" => grace # "off"
      PROVE  CauseInv'
  BY <1>1 DEF LeaderHolds, KillsLate, LeavesForCause, KilledForCause, Leaving
<1>2. CASE Handle \/ Deadline \/ GraceEnds \/ UNCHANGED vars
  BY <1>1, <1>2 DEF Handle, Deadline, GraceEnds, vars
<1>3. ASSUME NEW s \in Stream, Read(s) \/ ReadEnds(s) \/ ReadFails(s) PROVE CauseInv'
  BY <1>1, <1>3 DEF Read, ReadEnds, ReadFails
<1>4. ASSUME NEW p \in Proc, NEW s \in Stream, Write(p, s) PROVE CauseInv'
  BY <1>1, <1>4 DEF Write
<1>5. CASE WaitReturns
  BY <1>5 DEF WaitReturns, LeaderHolds, KillsLate, LeavesForCause, KilledForCause, Leaving
<1>6. ASSUME NEW p \in Proc \ {"leader"}, Fork(p) PROVE CauseInv'
  <2>1. /\ UNCHANGED <<status, muted, run, deadline, grace, cmdDone>> /\ proc'["leader"] = proc["leader"]
        /\ \A s \in Stream : writers[s] \subseteq writers'[s]
    BY <1>6 DEF Fork, CommandShape, Proc
  <2> QED
    BY <2>1 DEF LeaderHolds, KillsLate, LeavesForCause, KilledForCause, Leaving
<1>7. ASSUME NEW p \in Proc, ProcEnds(p) PROVE CauseInv'
  <2>1. /\ UNCHANGED <<muted, run, deadline, grace, cmdDone>>
        /\ proc'["leader"] = proc["leader"] \/ proc'["leader"] = "gone"
        /\ status' = "killed" => status = "killed"
        /\ p # "leader" => \A s \in Stream : "leader" \in writers[s] => "leader" \in writers'[s]
        /\ p = "leader" => proc'["leader"] = "gone"
    BY <1>7 DEF ProcEnds, CommandShape, Proc
  <2> QED
    BY <2>1 DEF LeaderHolds, KillsLate, LeavesForCause, KilledForCause, Leaving
<1>8. ASSUME NEW s \in Stream, Mute(s) PROVE CauseInv'
  <2>1. /\ UNCHANGED <<proc, status, run, deadline, grace, cmdDone>>
        /\ muted' = muted \cup {s} /\ muted \subseteq Stream
        /\ \A t \in Stream \ {s} : writers'[t] = writers[t]
    BY <1>8 DEF Mute, CommandShape
  <2> QED
    BY <2>1 DEF LeaderHolds, KillsLate, LeavesForCause, KilledForCause, Leaving
<1>9. CASE ContextKills
  <2>1. deadline /\ UNCHANGED <<muted, run, deadline, grace, cmdDone>> /\ proc'["leader"] = "gone"
    BY <1>9 DEF ContextKills, Kill, CommandShape, Proc
  <2> QED
    BY <2>1 DEF LeaderHolds, KillsLate, LeavesForCause, KilledForCause, Leaving
<1> QED
  BY <1>2, <1>3, <1>4, <1>5, <1>6, <1>7, <1>8, <1>9 DEF Next, Command, streamPipe

LEMMA KindStays == [Next]_vars => kind' = kind
BY DEF Next, RunStep, Start, StartFails, Forward, PipesEnd, LeaderDone, TimedOut, TimeoutKill, GiveUp,
       SendChunk, Confirm, Judge, Return, GitReturns, Handle, Answer, Command, Fork, ProcEnds, Write,
       Mute, streamPipe, Read, ReadEnds, ReadFails, WaitReturns, ContextKills, Deadline, GraceEnds, vars

LEMMA EndCorrect == Spec => [](Shape /\ EndInv)
<1>1. Shape /\ EndInv /\ [Next]_vars => EndInv'
  BY EndRun, EndOthers, KindStays DEF EndInv
<1> QED
  BY <1>1, ShapeInit, ShapeStep, EndInit, PTL DEF Spec

\* The leader of a shell command is killed at its deadline or after it has
\* closed both outputs (shell.go, Run).
THEOREM KilledCorrect == Spec => []KilledForCause
<1>1. Shape /\ EndInv /\ CauseInv /\ [Next]_vars => CauseInv'
  BY CauseRun, CauseOthers, KindStays DEF CauseInv
<1>2. CauseInv => KilledForCause
  BY DEF CauseInv, KilledForCause
<1> QED
  BY <1>1, <1>2, CauseInit, EndCorrect, PTL DEF Spec

-----------------------------------------------------------------------------
(* The way of the chunks.                                                   *)

LEMMA FlowInit == Init => FlowInv /\ AnswerLast
<1> SUFFICES ASSUME Init PROVE AllThere /\ OneAfterOther /\ AnswerLast
  BY DEF FlowInv
<1>1. run.pc = "start" /\ out = <<>> /\ chunks = <<>>
  BY DEF Init
<1>2. Items(chunks) = {} /\ Items(out) = {} /\ InHand = {} /\ InOrder(chunks) /\ InOrder(out)
  BY <1>1 DEF Items, InHand, InOrder
<1>3. \A s \in Stream : got[s] = 0 /\ reader[s].n = 0
  BY DEF Init
<1> QED
  BY <1>1, <1>2, <1>3 DEF AllThere, OneAfterOther, Pipeline, Ahead, AnswerLast

\* What leaves the pipeline as it is, but for a notice in hand.
LEMMA SameFlow ==
    ASSUME Shape, AllThere, OneAfterOther, UNCHANGED <<chunks, out, got>>,
           \A s \in Stream : reader'[s].n = reader[s].n,
           InHand' = InHand \/ (InHand = {} /\ InHand' \subseteq {Notice})
    PROVE  AllThere' /\ OneAfterOther'
<1>1. \A s \in Stream, k \in Nat : <<s, k>> # Notice
  BY DEF Notice, Stream
<1>2. Items(chunks)' = Items(chunks) /\ Items(out)' = Items(out)
  BY DEF Items
<1>3. \A s \in Stream, k \in Nat : <<s, k>> \in InHand' <=> <<s, k>> \in InHand
  BY <1>1
<1>4. AllThere'
  BY <1>2, <1>3 DEF AllThere, Pipeline
<1>5. Ahead(Items(chunks)', InHand') /\ Ahead(InHand', Items(out)')
  BY <1>2, <1>3 DEF OneAfterOther, Ahead
<1>6. chunks' = chunks /\ out' = out
  OBVIOUS
<1>7. InOrder(chunks)' <=> InOrder(chunks)
  BY <1>6, Zenon DEF InOrder
<1>8. InOrder(out)' <=> InOrder(out)
  BY <1>6, Zenon DEF InOrder
<1> QED
  BY <1>2, <1>4, <1>5, <1>7, <1>8 DEF OneAfterOther

\* A reader puts the next chunk of its stream at the end.
LEMMA FlowRead ==
    ASSUME Shape, EndInv, FlowInv, kind = "shell", ~run.forced, NEW s \in Stream, Read(s)
    PROVE  AllThere' /\ OneAfterOther'
<1> DEFINE c == <<s, reader[s].n + 1>>
<1> USE DEF Shape, FlowShape
<1>1. ~drained
  <2>1. ~Finished(s)
    BY DEF Read, Finished, CommandShape
  <2> QED
    BY <2>1 DEF EndInv, ClosedLate, EndsAtEof, Leaving
<1>2. /\ UNCHANGED <<chunks, got, run>> /\ out' = Append(out, c)
      /\ reader'[s].n = reader[s].n + 1 /\ \A t \in Stream \ {s} : reader'[t].n = reader[t].n
  BY <1>1 DEF Read, pipes, answer
<1>3. AllThere /\ OneAfterOther
  BY DEF FlowInv
<1>4. c \in Chunk
  BY DEF Chunk
<1>5. /\ \A t \in Stream, k, l \in Nat : <<t, k>> \in Pipeline /\ <<t, l>> = c => k < l
  BY <1>3 DEF AllThere
<1>6. Items(out)' = Items(out) \cup {c} /\ InHand' = InHand /\ Items(chunks)' = Items(chunks)
  BY <1>2, <1>4, AppendChunk DEF InHand
<1>7. Ahead(Items(out), {c}) /\ Ahead(InHand, {c}) /\ Ahead(Items(chunks), {c})
  BY <1>5 DEF Ahead, Pipeline
<1>8. OneAfterOther'
  <2>1. InOrder(out') /\ InOrder(chunks')
    BY <1>2, <1>3, <1>4, <1>7, AppendChunk DEF OneAfterOther
  <2>2. Ahead(Items(chunks), Items(out) \cup {c}) /\ Ahead(InHand, Items(out) \cup {c})
    BY <1>3, <1>7 DEF Ahead, OneAfterOther
  <2> QED
    BY <1>3, <1>6, <2>1, <2>2 DEF OneAfterOther
<1>9. AllThere'
  <2> SUFFICES ASSUME NEW t \in Stream
               PROVE  /\ got[t] <= reader'[t].n
                      /\ \A k \in Nat : <<t, k>> \in Pipeline \cup {c} <=> got[t] < k /\ k <= reader'[t].n
    BY <1>2, <1>6 DEF AllThere, Pipeline
  <2>1. /\ got[t] \in Nat /\ reader[t].n \in Nat /\ got[t] <= reader[t].n
        /\ \A k \in Nat : <<t, k>> \in Pipeline <=> got[t] < k /\ k <= reader[t].n
    BY <1>3 DEF AllThere
  <2>2. CASE t = s
    <3>1. \A k \in Nat : <<t, k>> = c <=> k = reader[t].n + 1
      BY <2>2
    <3>2. reader'[t].n = reader[t].n + 1
      BY <1>2, <2>2
    <3>3. ASSUME NEW k \in Nat
          PROVE  <<t, k>> \in Pipeline \cup {c} <=> got[t] < k /\ k <= reader[t].n + 1
      <4>1. <<t, k>> \in Pipeline \cup {c} <=> (got[t] < k /\ k <= reader[t].n) \/ k = reader[t].n + 1
        BY <2>1, <3>1
      <4> QED
        BY <2>1, <4>1
    <3> QED
      BY <2>1, <3>2, <3>3
  <2>3. CASE t # s
    BY <1>2, <2>1, <2>3
  <2> QED
    BY <2>2, <2>3
<1> QED
  BY <1>8, <1>9

\* Run takes the first chunk of out in hand.
LEMMA FlowForward ==
    ASSUME Shape, AllThere, OneAfterOther, Forward
    PROVE  AllThere' /\ OneAfterOther'
<1> USE DEF Shape, FlowShape
<1>1. /\ UNCHANGED <<chunks, got, reader>> /\ out # <<>> /\ out' = Tail(out) /\ run.pc = "loop"
      /\ run'.pc = "send" /\ run'.hold = Head(out)
  BY RunMoves DEF Forward, answer, At
<1>2. InHand = {} /\ InHand' = {Head(out)} /\ Items(chunks)' = Items(chunks)
  BY <1>1 DEF InHand
<1>3. /\ Items(out) = InHand' \cup Items(out)' /\ InOrder(out)' /\ Ahead(InHand', Items(out)')
  BY <1>1, <1>2, TailChunk DEF OneAfterOther
<1>4. Pipeline' = Pipeline
  BY <1>2, <1>3 DEF Pipeline
<1>5. AllThere'
  BY <1>1, <1>4 DEF AllThere
<1>6. Ahead(Items(chunks), InHand') /\ Ahead(Items(chunks), Items(out)')
  BY <1>3 DEF OneAfterOther, Ahead
<1> QED
  BY <1>1, <1>2, <1>3, <1>5, <1>6 DEF OneAfterOther

\* What it has in hand goes to the end of chunks.
LEMMA FlowSend ==
    ASSUME Shape, AllThere, OneAfterOther, SendChunk
    PROVE  AllThere' /\ OneAfterOther'
<1> USE DEF Shape, FlowShape
<1>1. /\ UNCHANGED <<out, got, reader>> /\ chunks' = Append(chunks, run.hold) /\ run.pc = "send"
      /\ run'.pc = run.then /\ run.then # "send" /\ run.hold \in Chunk
  BY RunMoves DEF SendChunk, pipes, At, RunShape, Run, Then
<1>2. InHand = {run.hold} /\ InHand' = {} /\ Items(out)' = Items(out)
  BY <1>1 DEF InHand
<1>3. Items(chunks)' = Items(chunks) \cup InHand /\ InOrder(chunks)'
  BY <1>1, <1>2, AppendChunk DEF OneAfterOther
<1>4. Pipeline' = Pipeline
  BY <1>2, <1>3 DEF Pipeline
<1>5. AllThere'
  BY <1>1, <1>4 DEF AllThere
<1>6. Ahead(Items(chunks)', Items(out)) /\ Ahead(Items(chunks)', {}) /\ Ahead({}, Items(out))
  BY <1>3 DEF OneAfterOther, Ahead
<1> QED
  BY <1>1, <1>2, <1>3, <1>5, <1>6 DEF OneAfterOther

\* The handler sends on the first chunk of chunks.
LEMMA FlowHandle ==
    ASSUME Shape, AllThere, OneAfterOther, Handle
    PROVE  AllThere' /\ OneAfterOther'
<1> USE DEF Shape, FlowShape
<1> DEFINE c == Head(chunks)
<1>1. /\ UNCHANGED <<out, reader, run>> /\ chunks # <<>> /\ chunks' = Tail(chunks)
      /\ got' = IF c = Notice THEN got ELSE [got EXCEPT ![c[1]] = c[2]]
  BY DEF Handle, pipes
<1>2. /\ c \in Chunk /\ Items(chunks) = {c} \cup Items(chunks)' /\ InOrder(chunks)'
      /\ Ahead({c}, Items(chunks)')
  BY <1>1, TailChunk DEF OneAfterOther
<1>3. InHand' = InHand /\ Items(out)' = Items(out)
  BY <1>1 DEF InHand
<1>4. OneAfterOther'
  <2>1. Ahead(Items(chunks)', InHand) /\ Ahead(Items(chunks)', Items(out))
    BY <1>2 DEF OneAfterOther, Ahead
  <2> QED
    BY <1>1, <1>2, <1>3, <2>1 DEF OneAfterOther
<1>5. Pipeline = Pipeline' \cup {c} /\ Ahead({c}, Pipeline')
  <2>1. Ahead({c}, InHand) /\ Ahead({c}, Items(out))
    BY <1>2 DEF OneAfterOther, Ahead
  <2> QED
    BY <1>2, <1>3, <2>1 DEF Pipeline, Ahead
<1>6. AllThere'
  <2> SUFFICES ASSUME NEW s \in Stream
               PROVE  /\ got'[s] <= reader[s].n
                      /\ \A k \in Nat : <<s, k>> \in Pipeline' <=> got'[s] < k /\ k <= reader[s].n
    BY <1>1 DEF AllThere
  <2>1. /\ got[s] \in Nat /\ reader[s].n \in Nat /\ got[s] <= reader[s].n
        /\ \A k \in Nat : <<s, k>> \in Pipeline <=> got[s] < k /\ k <= reader[s].n
    BY DEF AllThere
  <2>2. CASE c = Notice \/ c[1] # s
    <3>1. got'[s] = got[s]
      BY <1>1, <2>2
    <3>2. \A k \in Nat : <<s, k>> # c
      BY <2>2 DEF Notice, Stream
    <3> QED
      BY <1>5, <2>1, <3>1, <3>2
  <2>3. CASE c # Notice /\ c[1] = s
    <3>1. c[2] \in Nat /\ c = <<s, c[2]>> /\ got'[s] = c[2]
      BY <1>1, <1>2, <2>3 DEF Chunk
    <3>2. got[s] < c[2] /\ c[2] <= reader[s].n
      BY <1>5, <2>1, <3>1
    <3>3. ASSUME NEW k \in Nat, <<s, k>> \in Pipeline' PROVE c[2] < k /\ k <= reader[s].n
      BY <1>5, <2>1, <3>1, <3>3 DEF Ahead
    <3>4. ASSUME NEW k \in Nat, c[2] < k, k <= reader[s].n PROVE <<s, k>> \in Pipeline'
      <4>1. got[s] < k
        BY <2>1, <3>1, <3>2, <3>4
      <4>2. <<s, k>> \in Pipeline
        BY <2>1, <3>4, <4>1
      <4>3. <<s, k>> # c
        BY <3>1, <3>4
      <4> QED
        BY <1>5, <4>2, <4>3
    <3>5. \A k \in Nat : <<s, k>> \in Pipeline' <=> c[2] < k /\ k <= reader[s].n
      BY <3>3, <3>4
    <3> QED
      BY <3>1, <3>2, <3>5
  <2> QED
    BY <2>2, <2>3
<1> QED
  BY <1>4, <1>6

LEMMA FlowStep ==
    ASSUME Shape, EndInv, FlowInv, kind = "shell", [Next]_vars
    PROVE  FlowInv'
<1> USE DEF command, pipes, timers, answer
<1> SUFFICES ASSUME ~run'.forced PROVE AllThere' /\ OneAfterOther'
  BY KindStays DEF FlowInv
<1>0. RunShape /\ FlowShape /\ run \in Run
  BY DEF Shape, RunShape
<1>1. ASSUME ~run.forced, UNCHANGED <<chunks, out, got>>,
             \A s \in Stream : reader'[s].n = reader[s].n,
             InHand' = InHand \/ (InHand = {} /\ InHand' \subseteq {Notice})
      PROVE  AllThere' /\ OneAfterOther'
  BY <1>1, SameFlow DEF FlowInv
<1>2. CASE Forward
  BY <1>0, <1>2, FlowForward, RunMoves DEF FlowInv
<1>3. CASE SendChunk
  BY <1>0, <1>3, FlowSend, RunMoves DEF FlowInv
<1>4. CASE Handle
  BY <1>4, FlowHandle DEF FlowInv, Handle
<1>5. ASSUME NEW s \in Stream, Read(s) PROVE AllThere' /\ OneAfterOther'
  BY <1>5, FlowRead DEF Read
<1>6. ASSUME NEW s \in Stream, ReadEnds(s) \/ ReadFails(s) PROVE AllThere' /\ OneAfterOther'
  <2>1. UNCHANGED <<chunks, out, got, run>>
    BY <1>6 DEF ReadEnds, ReadFails
  <2>2. \A t \in Stream : reader'[t].n = reader[t].n
    BY <1>0, <1>6, ZenonT(30) DEF ReadEnds, ReadFails, FlowShape
  <2>3. InHand' = InHand /\ ~run.forced
    BY <2>1 DEF InHand
  <2> QED
    BY <1>1, <2>1, <2>2, <2>3
<1>7. CASE Start \/ StartFails
  <2>1. ~run.forced /\ run.pc = "start"
    BY <1>7 DEF Start, StartFails, At, EndInv, Fresh
  <2>2. UNCHANGED <<chunks, out, got, reader>>
    BY <1>7 DEF Start, StartFails
  <2>3. InHand = {} /\ InHand' \subseteq {Notice}
    BY <1>0, <1>7, <2>1, RunMoves DEF InHand
  <2> QED
    BY <1>1, <2>1, <2>2, <2>3
<1>8. CASE PipesEnd \/ LeaderDone \/ TimedOut \/ TimeoutKill
  <2>1. ~run.forced /\ run.pc \in {"loop", "kill"}
    BY <1>0, <1>8, RunMoves DEF PipesEnd, LeaderDone, TimedOut, TimeoutKill, At
  <2>2. UNCHANGED <<chunks, out, got, reader>>
    BY <1>8 DEF PipesEnd, LeaderDone, TimedOut, TimeoutKill
  <2>3. InHand = {} /\ InHand' \subseteq {Notice}
    BY <1>0, <1>8, <2>1, RunMoves DEF InHand
  <2> QED
    BY <1>1, <2>1, <2>2, <2>3
<1>9. CASE Confirm \/ Judge
  <2>1. ~run.forced /\ run.pc \in {"confirm", "judge"}
    BY <1>0, <1>9, RunMoves DEF Confirm, Judge, At
  <2>2. UNCHANGED <<chunks, out, got, reader>>
    BY <1>9 DEF Confirm, Judge
  <2>3. InHand = {} /\ InHand' \subseteq {Notice}
    BY <1>0, <1>9, <2>1, RunMoves DEF InHand
  <2> QED
    BY <1>1, <2>1, <2>2, <2>3
<1>10. CASE Return \/ Answer
  <2>1. ~run.forced /\ run.pc \in {"return", "returned"} /\ run'.pc \in {"returned", "answered"}
    BY <1>0, <1>10, RunMoves DEF Return, Answer, At
  <2>2. UNCHANGED <<chunks, out, got, reader>>
    BY <1>10, <2>1 DEF Return, Answer, EndInv, EndsAtEof, Leaving
  <2>3. InHand = {} /\ InHand' = {}
    BY <2>1 DEF InHand
  <2> QED
    BY <1>1, <2>1, <2>2, <2>3
<1>11. CASE GiveUp
  BY <1>0, <1>11, RunMoves
<1>12. CASE WaitReturns \/ ContextKills \/ Deadline \/ GraceEnds \/ Command \/ UNCHANGED vars
  <2>1. UNCHANGED <<chunks, out, got, reader, run>>
    BY <1>12 DEF WaitReturns, ContextKills, Deadline, GraceEnds, Command, Fork, ProcEnds, Write, Mute, vars
  <2> QED
    BY <1>1, <2>1 DEF InHand
<1> QED
  BY <1>2, <1>3, <1>4, <1>5, <1>6, <1>7, <1>8, <1>9, <1>10, <1>11, <1>12
     DEF Next, RunStep, GitReturns, streamPipe

LEMMA AnswerLastStep ==
    ASSUME Shape, AnswerLast, kind = "shell", [Next]_vars
    PROVE  AnswerLast'
<1> USE DEF command, pipes, timers, answer
<1>1. RunShape /\ FlowShape /\ kind' = kind
  BY KindStays DEF Shape
<1>2. CASE RunStep
  <2>1. run'.pc # "answered"
    BY <1>1, <1>2, RunMoves DEF RunStep, RunShape, Run, Then, GitReturns, LeaderDone, At
  <2> QED
    BY <2>1 DEF AnswerLast
<1>3. CASE Answer
  BY <1>3 DEF Answer, AnswerLast
<1>4. CASE Handle
  BY <1>1, <1>4 DEF Handle, AnswerLast
<1>5. CASE ~RunStep /\ ~Answer /\ ~Handle
  <2>1. UNCHANGED <<run, chunks>>
    BY <1>5 DEF Next, streamPipe, Read, ReadEnds, ReadFails, WaitReturns, ContextKills, Deadline, GraceEnds,
                Command, Fork, ProcEnds, Write, Mute, vars
  <2> QED
    BY <1>1, <2>1 DEF AnswerLast
<1> QED
  BY <1>2, <1>3, <1>4, <1>5

\* No output is lost before the answer, unless Run said that it gave up on the
\* pipes (shell.go, Run and streamPipe).
THEOREM OutputCorrect == Spec => []OutputComplete
<1>1. Shape /\ EndInv /\ FlowInv /\ AnswerLast /\ [Next]_vars => FlowInv' /\ AnswerLast'
  BY FlowStep, AnswerLastStep, KindStays DEF FlowInv, AnswerLast
<1>2. Shape /\ EndInv /\ FlowInv /\ AnswerLast => OutputComplete
  <2> SUFFICES ASSUME Shape, EndInv, FlowInv, AnswerLast, kind = "shell", At("answered"), ~run.forced,
                      NEW s \in Stream
               PROVE  got[s] = written[s]
    BY DEF OutputComplete
  <2>1. chunks = <<>> /\ out = <<>> /\ InHand = {} /\ reader[s].n = written[s]
    BY DEF AnswerLast, EndInv, EndsAtEof, Leaving, Finished, InHand, At
  <2>2. Pipeline = {}
    BY <2>1 DEF Pipeline, Items
  <2>3. /\ got[s] \in Nat /\ reader[s].n \in Nat /\ got[s] <= reader[s].n
        /\ ~(got[s] < reader[s].n)
    BY <2>2 DEF FlowInv, AllThere, Shape, FlowShape
  <2> QED
    BY <2>1, <2>3
<1> QED
  BY <1>1, <1>2, FlowInit, EndCorrect, PTL DEF Spec
=============================================================================
