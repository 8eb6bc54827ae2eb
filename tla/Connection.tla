----------------------------- MODULE Connection -----------------------------
(***************************************************************************)
(* The WebSocket connection (client/ws_client.go): the goroutine that dials, *)
(* registers, reads and reconnects (RunForever and connect), the writer        *)
(* goroutine of each connection, and the command goroutines, which outlive     *)
(* the connection they were started on and answer through its send().         *)
(* Admission is Dispatch's matter: here a frame is either handed to a goroutine *)
(* that answers once, whenever it likes, or shed by the receive loop itself.   *)
(***************************************************************************)
EXTENDS Naturals, Sequences

CONSTANTS Cmd,          \* command frames
          Rotating,     \* those that are update_key commands
          MaxConns,     \* bound: connections
          WriteCap      \* capacity of writeCh

ASSUME ConnectionAssumption ==
    /\ Rotating \subseteq Cmd
    /\ {MaxConns, WriteCap} \subseteq Nat \ {0}

Conn == 1 .. MaxConns

VARIABLES
    loop,       \* where RunForever is
    conn,       \* the number of the last connection dialled
    rd, wr,     \* what reads and writes on it do
    writer,     \* [Conn -> Writer]: the writer goroutine
    writeCh,    \* [Conn -> Seq(Cmd)]: answers queued
    out,        \* [Conn -> Cmd or "ping"]: what is being written
    pc,         \* [Cmd -> Control]: the goroutine of a frame
    via,        \* [Cmd -> Conn or 0]: the connection it arrived on
    inbox,      \* [Conn -> Seq(Cmd)]: answers that reached the server
    closing     \* connections an update_key goroutine is about to close

link    == <<rd, wr>>
writing == <<writer, writeCh, out>>
vars    == <<loop, conn, link, writing, pc, via, inbox, closing>>

\* reject: the receive loop is in send() itself.  leave: past the receive loop,
\* waiting for the writer.
Loop    == {"dial", "ack", "read", "reject", "leave", "backoff"}
Writer  == {"none", "idle", "busy", "gone"}
Control == {"idle", "run", "send", "shed", "end"}
\* silent: nothing arrives and no error either.  stuck: the peer takes nothing.
Reads   == {"ok", "silent", "error"}
Writes  == {"ok", "stuck", "error"}

Goto(c, to) == pc' = [pc EXCEPT ![c] = to]

-----------------------------------------------------------------------------
(* RunForever and connect *)

Init ==
    /\ loop = "dial" /\ conn = 0
    /\ rd = "error" /\ wr = "error"
    /\ writer = [k \in Conn |-> "none"]
    /\ writeCh = [k \in Conn |-> <<>>]
    /\ out = [k \in Conn |-> "ping"]
    /\ pc = [c \in Cmd |-> "idle"]
    /\ via = [c \in Cmd |-> 0]
    /\ inbox = [k \in Conn |-> <<>>]
    /\ closing = {}

\* Dial and send the registration, or fail.
Dial ==
    /\ loop = "dial"
    /\ conn < MaxConns
    /\ conn' = conn + 1
    /\ \/ loop' = "ack" /\ rd' = "ok" /\ wr' = "ok"
       \/ loop' = "backoff" /\ UNCHANGED link
    /\ UNCHANGED <<writing, pc, via, inbox, closing>>

\* The answer to the registration.  It is read without a deadline: while
\* nothing arrives, nothing happens.
Ack ==
    /\ loop = "ack"
    /\ rd # "silent"
    /\ \/ /\ rd = "ok"
          /\ loop' = "read"
          /\ writer' = [writer EXCEPT ![conn] = "idle"]
          /\ UNCHANGED link
       \/ /\ loop' = "backoff"
          /\ rd' = "error" /\ wr' = "error"
          /\ UNCHANGED writer
    /\ UNCHANGED <<conn, writeCh, out, pc, via, inbox, closing>>

\* The receive loop reads a frame, and spawns its goroutine or sheds it.
Receive(c) ==
    /\ loop = "read" /\ rd = "ok"
    /\ pc[c] = "idle"
    /\ via' = [via EXCEPT ![c] = conn]
    /\ \/ Goto(c, "run") /\ UNCHANGED loop
       \/ Goto(c, "shed") /\ loop' = "reject"
    /\ UNCHANGED <<conn, link, writing, inbox, closing>>

\* ReadMessage fails: on an error, or when nothing has come for readDeadline,
\* which takes a silent peer, or one that gets no pings to answer.
ReadFails ==
    /\ loop = "read"
    /\ rd # "ok" \/ wr # "ok"
    /\ loop' = "leave"
    /\ UNCHANGED <<conn, link, writing, pc, via, inbox, closing>>

\* close(stopWriter), <-writerDone, and the deferred conn.Close().
Leave ==
    /\ loop = "leave"
    /\ writer[conn] = "gone"
    /\ loop' = "backoff"
    /\ rd' = "error" /\ wr' = "error"
    /\ UNCHANGED <<conn, writing, pc, via, inbox, closing>>

Backoff ==
    /\ loop = "backoff"
    /\ loop' = "dial"
    /\ UNCHANGED <<conn, link, writing, pc, via, inbox, closing>>

-----------------------------------------------------------------------------
(* send, and the goroutines that call it *)

\* Mutants: a full channel drops the message; a send does not look at writerDone.
Bug_CanDropFull(c)  == writer[via[c]] = "gone" \/ Len(writeCh[via[c]]) = WriteCap
Bug_CanDropNever(c) == FALSE

\* Mutant: the message goes to the connection that is current now.
Bug_Channel(c) == conn

Channel(c)  == via[c]
CanQueue(c) == Len(writeCh[Channel(c)]) < WriteCap
CanDrop(c)  == writer[via[c]] = "gone"

\* Goroutines of commands that answer; the receive loop's refusal is not one.
Answering == {c \in Cmd : pc[c] = "send"}

\* The select of send: the two cases may both be ready.  An update_key that was
\* carried out, neither refused nor failed, closes its connection afterwards.
Send(c) ==
    /\ pc[c] \in {"send", "shed"}
    /\ \/ /\ CanQueue(c)
          /\ writeCh' = [writeCh EXCEPT ![Channel(c)] = Append(@, c)]
       \/ CanDrop(c) /\ UNCHANGED writeCh
    /\ Goto(c, "end")
    /\ loop' = IF pc[c] = "shed" THEN "read" ELSE loop
    /\ closing' \in {closing} \cup
                   {closing \cup {via[x]} : x \in {c} \cap Rotating \cap Answering}
    /\ UNCHANGED <<conn, link, writer, out, via, inbox>>

\* The command is refused, or its handler returns its answer.
Answer(c) ==
    /\ pc[c] = "run"
    /\ Goto(c, "send")
    /\ UNCHANGED <<loop, conn, link, writing, via, inbox, closing>>

\* handleUpdateKey's goroutine closes the connection half a second later.
CloseConn(k) ==
    /\ k \in closing
    /\ closing' = closing \ {k}
    /\ IF k = conn THEN rd' = "error" /\ wr' = "error" ELSE UNCHANGED link
    /\ UNCHANGED <<loop, conn, writing, pc, via, inbox>>

-----------------------------------------------------------------------------
(* The writer goroutine *)

Stopped(k) == k # conn \/ loop = "leave"

\* The select of the writer: a message, a ping tick, or stopWriter.
Pick(k) ==
    /\ writer[k] = "idle"
    /\ \/ /\ writeCh[k] # <<>>
          /\ out' = [out EXCEPT ![k] = Head(writeCh[k])]
          /\ writeCh' = [writeCh EXCEPT ![k] = Tail(@)]
          /\ writer' = [writer EXCEPT ![k] = "busy"]
       \/ /\ out' = [out EXCEPT ![k] = "ping"]
          /\ writer' = [writer EXCEPT ![k] = "busy"]
          /\ UNCHANGED writeCh
       \/ /\ Stopped(k)
          /\ writer' = [writer EXCEPT ![k] = "gone"]
          /\ UNCHANGED <<writeCh, out>>
    /\ UNCHANGED <<loop, conn, link, pc, via, inbox, closing>>

\* Mutant: a write has no deadline.
Bug_WriteFails(k) == k # conn \/ wr = "error"

WriteFails(k) == k # conn \/ wr # "ok"

\* A write ends: well, or with an error, or at its deadline; then the writer
\* exits and closes writerDone.
Write(k) ==
    /\ writer[k] = "busy"
    /\ \/ /\ k = conn /\ wr = "ok"
          /\ writer' = [writer EXCEPT ![k] = "idle"]
          /\ inbox' = IF out[k] = "ping" THEN inbox
                      ELSE [inbox EXCEPT ![k] = Append(@, out[k])]
       \/ /\ WriteFails(k)
          /\ writer' = [writer EXCEPT ![k] = "gone"]
          /\ UNCHANGED inbox
    /\ UNCHANGED <<loop, conn, link, writeCh, out, pc, via, closing>>

\* The network: each direction may fail at any time, and stays so.
Fault ==
    /\ loop \in {"ack", "read", "reject"}
    /\ \/ rd = "ok" /\ rd' \in {"silent", "error"} /\ UNCHANGED wr
       \/ wr = "ok" /\ wr' \in {"stuck", "error"} /\ UNCHANGED rd
    /\ UNCHANGED <<loop, conn, writing, pc, via, inbox, closing>>

Next ==
    \/ Dial \/ Ack \/ ReadFails \/ Leave \/ Backoff \/ Fault
    \/ \E c \in Cmd : Receive(c) \/ Answer(c) \/ Send(c)
    \/ \E k \in Conn : Pick(k) \/ Write(k) \/ CloseConn(k)

Spec == Init /\ [][Next]_vars

\* Goroutines run and deadlines pass.  Nothing is assumed of the server or of
\* handlers, so nothing of Ack, Receive and Answer.  A writer that always finds
\* its select's other cases ready still sees each of them one day.
Fairness ==
    /\ WF_vars(Dial) /\ WF_vars(ReadFails) /\ WF_vars(Leave) /\ WF_vars(Backoff)
    /\ \A c \in Cmd : WF_vars(Send(c))
    /\ \A k \in Conn : /\ WF_vars(Write(k))
                       /\ SF_vars(Pick(k) /\ writeCh'[k] # writeCh[k])
                       /\ SF_vars(Pick(k) /\ writer'[k] = "gone")

FairSpec == Spec /\ Fairness

-----------------------------------------------------------------------------
(* Correctness *)

\* An answer reaches the server on the connection its command came by, if at
\* all, and once.
AnswersInPlace ==
    \A k \in Conn : \A n \in DOMAIN inbox[k] :
        /\ via[inbox[k][n]] = k
        /\ \A m \in DOMAIN inbox[k] : inbox[k][m] = inbox[k][n] => m = n

\* "Safe to call from any goroutine at any time": no one is stuck in send, not
\* even behind a full channel on a connection that has died.
SendReturns == \A c \in Cmd : (pc[c] \in {"send", "shed"}) ~> (pc[c] = "end")

\* "Reconnect cleanly instead of hanging on a silently dead connection": once
\* registered, and once the server sends no more commands, a connection that
\* has failed in either direction is left.
DeadLinkIsLeft ==
    \A k \in Conn :
        (conn = k /\ loop \in {"read", "reject"} /\ (rd # "ok" \/ wr # "ok"))
            ~> (loop = "backoff")

\* On a connection that does not fail and is not closed, every answer arrives.
AnswersArrive ==
    \A c \in Cmd :
        (pc[c] = "send")
            ~> \/ via[c] # conn \/ rd # "ok" \/ wr # "ok"
               \/ \E n \in DOMAIN inbox[conn] : inbox[conn][n] = c
=============================================================================
