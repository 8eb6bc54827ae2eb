--------------------------- MODULE ConnectionProofs ---------------------------
(***************************************************************************)
(* What is proved of Connection for every set of commands, any number of     *)
(* connections and every capacity of writeCh.                               *)
(***************************************************************************)
EXTENDS Connection, TLAPS

\* The shape of the state, as far as the proofs need it.
Shape == /\ loop \in Loop /\ conn \in 0 .. MaxConns
         /\ loop \in {"ack", "read", "reject", "leave"} => conn \in Conn
         /\ writer \in [Conn -> Writer]
         /\ writeCh \in [Conn -> Seq(Cmd)] /\ inbox \in [Conn -> Seq(Cmd)]
         /\ out \in [Conn -> Cmd \cup {"ping"}]
         /\ pc \in [Cmd -> Control] /\ via \in [Cmd -> 0 .. MaxConns]
         /\ \A c \in Cmd : pc[c] # "idle" => via[c] \in 1 .. conn

-----------------------------------------------------------------------------
(* A queue without repetition.                                              *)

Items(s)    == {s[n] : n \in 1 .. Len(s)}
Distinct(s) == \A m, n \in 1 .. Len(s) : s[m] = s[n] => m = n

LEMMA AppendDistinct ==
    ASSUME NEW S, NEW s \in Seq(S), NEW x \in S
    PROVE  /\ Append(s, x) \in Seq(S) /\ Items(Append(s, x)) = Items(s) \cup {x}
           /\ Distinct(s) /\ x \notin Items(s) => Distinct(Append(s, x))
<1>1. /\ Append(s, x) \in Seq(S) /\ Len(Append(s, x)) = Len(s) + 1 /\ Len(s) \in Nat
      /\ Append(s, x)[Len(s) + 1] = x /\ \A n \in 1 .. Len(s) : Append(s, x)[n] = s[n]
  OBVIOUS
<1>2. Items(Append(s, x)) \subseteq Items(s) \cup {x}
  BY <1>1 DEF Items
<1>3. Items(s) \cup {x} \subseteq Items(Append(s, x))
  BY <1>1 DEF Items
<1>4. ASSUME Distinct(s), x \notin Items(s) PROVE Distinct(Append(s, x))
  BY <1>1, <1>4 DEF Distinct, Items
<1> QED
  BY <1>1, <1>2, <1>3, <1>4

LEMMA TailDistinct ==
    ASSUME NEW S, NEW s \in Seq(S), s # <<>>
    PROVE  /\ Tail(s) \in Seq(S) /\ Head(s) \in Items(s) /\ Items(Tail(s)) \subseteq Items(s)
           /\ Head(s) \in S
           /\ Distinct(s) => Distinct(Tail(s)) /\ Head(s) \notin Items(Tail(s))
<1>1. /\ Tail(s) \in Seq(S) /\ Len(s) \in Nat \ {0} /\ Len(Tail(s)) = Len(s) - 1 /\ Head(s) = s[1]
      /\ \A n \in 1 .. Len(Tail(s)) : Tail(s)[n] = s[n + 1]
  OBVIOUS
<1>2. Head(s) \in S /\ Head(s) \in Items(s)
  BY <1>1 DEF Items
<1>3. Items(Tail(s)) \subseteq Items(s)
  BY <1>1 DEF Items
<1>4. ASSUME Distinct(s) PROVE Distinct(Tail(s)) /\ Head(s) \notin Items(Tail(s))
  BY <1>1, <1>4 DEF Distinct, Items
<1> QED
  BY <1>1, <1>2, <1>3, <1>4

-----------------------------------------------------------------------------
(* Where an answer is.                                                      *)

\* Commands of a connection that have been answered, and the answer its writer holds.
Answered(k) == {c \in Cmd : via[c] = k /\ pc[c] = "end"}
Held(k)     == IF writer[k] = "busy" THEN {out[k]} \ {"ping"} ELSE {}

\* The inductive invariant: the answers of a connection are with its server, in
\* the hands of its writer or in its channel, each in one of these places.
OneCopy(k) ==
    /\ Items(inbox[k]) \cup Held(k) \cup Items(writeCh[k]) \subseteq Answered(k)
    /\ Distinct(inbox[k]) /\ Distinct(writeCh[k])
    /\ Items(inbox[k]) \cap Held(k) = {} /\ Items(inbox[k]) \cap Items(writeCh[k]) = {}
    /\ Held(k) \cap Items(writeCh[k]) = {}
OneCopyEach == \A k \in Conn : OneCopy(k)

LEMMA InitHolds == Init => Shape /\ OneCopyEach
<1> SUFFICES ASSUME Init PROVE Shape /\ OneCopyEach
  OBVIOUS
<1>1. Shape
  BY ConnectionAssumption DEF Init, Shape, Loop, Writer, Control, Conn
<1>2. ASSUME NEW k \in Conn PROVE OneCopy(k)
  <2>1. Items(inbox[k]) = {} /\ Items(writeCh[k]) = {} /\ Distinct(inbox[k]) /\ Distinct(writeCh[k])
    BY <1>2 DEF Init, Items, Distinct
  <2>2. Held(k) = {}
    BY <1>2 DEF Init, Held
  <2> QED
    BY <2>1, <2>2 DEF OneCopy
<1> QED
  BY <1>1, <1>2 DEF OneCopyEach

\* What leaves the queues alone, and no answer behind.
LEMMA QueuesStay ==
    ASSUME OneCopyEach, UNCHANGED <<inbox, writeCh>>, \A k \in Conn : Held(k)' \subseteq Held(k),
           \A k \in Conn : Answered(k) \subseteq Answered(k)'
    PROVE  OneCopyEach'
<1> SUFFICES ASSUME NEW k \in Conn PROVE OneCopy(k)'
  BY DEF OneCopyEach
<1>1. OneCopy(k) /\ Held(k)' \subseteq Held(k) /\ Answered(k) \subseteq Answered(k)'
  BY DEF OneCopyEach
<1>2. Items(inbox[k])' = Items(inbox[k]) /\ Items(writeCh[k])' = Items(writeCh[k])
      /\ (Distinct(inbox[k]) => Distinct(inbox[k])') /\ (Distinct(writeCh[k]) => Distinct(writeCh[k])')
  BY DEF Items, Distinct
<1> QED
  BY <1>1, <1>2 DEF OneCopy

LEMMA ShapeStep == Shape /\ [Next]_vars => Shape'
<1> SUFFICES ASSUME Shape, [Next]_vars PROVE Shape'
  OBVIOUS
<1> USE ConnectionAssumption DEF Shape, link, writing, Goto
<1>1. CASE Dial \/ Ack \/ ReadFails \/ Leave \/ Backoff \/ Fault
  <2>1. CASE Dial
    BY <2>1 DEF Dial, Loop, Conn
  <2>2. CASE Ack
    BY <2>2 DEF Ack, Loop, Writer
  <2>3. CASE ReadFails \/ Leave \/ Backoff \/ Fault
    BY <2>3 DEF ReadFails, Leave, Backoff, Fault, Loop
  <2> QED
    BY <1>1, <2>1, <2>2, <2>3
<1>2. ASSUME NEW c \in Cmd, Receive(c) \/ Answer(c) PROVE Shape'
  <2>1. CASE Receive(c)
    <3>1. /\ conn \in 1 .. MaxConns /\ via' = [via EXCEPT ![c] = conn] /\ loop' \in Loop
          /\ \E to \in Control : pc' = [pc EXCEPT ![c] = to]
          /\ UNCHANGED <<conn, writer, writeCh, inbox, out>>
      BY <2>1 DEF Receive, Loop, Control, Conn
    <3>2. via' \in [Cmd -> 0 .. MaxConns] /\ pc' \in [Cmd -> Control]
      BY <3>1
    <3>3. \A d \in Cmd : pc'[d] # "idle" => via'[d] \in 1 .. conn'
      BY <3>1
    <3> QED
      BY <3>1, <3>2, <3>3 DEF Conn
  <2>2. CASE Answer(c)
    BY <2>2 DEF Answer, Control
  <2> QED
    BY <1>2, <2>1, <2>2
<1>3. ASSUME NEW c \in Cmd, Send(c) PROVE Shape'
  <2>1. via[c] \in Conn /\ conn \in Conn /\ pc[c] # "idle"
    BY <1>3 DEF Send, Conn
  <2>2. Append(writeCh[via[c]], c) \in Seq(Cmd)
    BY <2>1, AppendDistinct
  <2>3. writeCh' \in [Conn -> Seq(Cmd)]
    BY <1>3, <2>1, <2>2 DEF Send, Channel
  <2>4. UNCHANGED <<conn, writer, inbox, out, via>> /\ pc' = [pc EXCEPT ![c] = "end"]
        /\ loop' \in {"read", loop}
    BY <1>3 DEF Send
  <2> QED
    BY <2>1, <2>3, <2>4 DEF Loop, Control
<1>4. ASSUME NEW k \in Conn, Pick(k) PROVE Shape'
  <2>1. writeCh[k] # <<>> => Tail(writeCh[k]) \in Seq(Cmd) /\ Head(writeCh[k]) \in Cmd
    BY TailDistinct
  <2>2. CASE writeCh[k] # <<>> /\ writeCh' = [writeCh EXCEPT ![k] = Tail(@)]
             /\ out' = [out EXCEPT ![k] = Head(writeCh[k])]
    BY <1>4, <2>1, <2>2 DEF Pick, Writer
  <2>3. CASE writeCh' = writeCh /\ (out' = out \/ out' = [out EXCEPT ![k] = "ping"])
    BY <1>4, <2>3 DEF Pick, Writer
  <2> QED
    BY <1>4, <2>2, <2>3 DEF Pick
<1>5. ASSUME NEW k \in Conn, Write(k) PROVE Shape'
  <2>1. out[k] # "ping" => Append(inbox[k], out[k]) \in Seq(Cmd)
    BY AppendDistinct
  <2> QED
    BY <1>5, <2>1 DEF Write, Writer
<1>6. ASSUME NEW k \in Conn, CloseConn(k) PROVE Shape'
  BY <1>6 DEF CloseConn
<1>7. CASE UNCHANGED vars
  BY <1>7 DEF vars
<1> QED
  BY <1>1, <1>2, <1>3, <1>4, <1>5, <1>6, <1>7 DEF Next

\* send() queues an answer that is nowhere yet, or drops it.
LEMMA SendKeeps ==
    ASSUME Shape, OneCopyEach, NEW c \in Cmd, Send(c)
    PROVE  OneCopyEach'
<1> DEFINE h == via[c]
<1>1. /\ h \in Conn /\ pc[c] # "end" /\ pc' = [pc EXCEPT ![c] = "end"]
      /\ UNCHANGED <<writer, out, via, inbox>>
  BY DEF Send, Shape, Goto, Conn
<1>2. \A k \in Conn : Held(k)' = Held(k) /\ Answered(k) \subseteq Answered(k)'
  BY <1>1 DEF Held, Answered, Shape
<1>3. CASE writeCh' = writeCh
  BY <1>1, <1>2, <1>3, QueuesStay
<1>4. CASE writeCh' = [writeCh EXCEPT ![h] = Append(@, c)]
  <2> SUFFICES ASSUME NEW k \in Conn PROVE OneCopy(k)'
    BY DEF OneCopyEach
  <2>1. OneCopy(k) /\ inbox'[k] = inbox[k] /\ writeCh[k] \in Seq(Cmd)
    BY <1>1 DEF OneCopyEach, Shape
  <2>2. CASE k # h
    <3>1. writeCh'[k] = writeCh[k]
      BY <1>1, <1>4, <2>2 DEF Shape
    <3> QED
      BY <1>2, <2>1, <3>1 DEF OneCopy, Items, Distinct
  <2>3. CASE k = h
    <3>1. writeCh'[k] = Append(writeCh[k], c)
      BY <1>1, <1>4, <2>3 DEF Shape
    <3>2. c \in Answered(k)' /\ c \notin Answered(k)
      BY <1>1, <2>3 DEF Answered, Shape
    <3>3. Items(writeCh[k])' = Items(writeCh[k]) \cup {c} /\ Distinct(writeCh[k])'
      BY <2>1, <3>1, <3>2, AppendDistinct DEF OneCopy
    <3>4. Items(inbox[k])' = Items(inbox[k]) /\ (Distinct(inbox[k]) => Distinct(inbox[k])')
      BY <2>1 DEF Items, Distinct
    <3> QED
      BY <1>2, <2>1, <3>2, <3>3, <3>4 DEF OneCopy
  <2> QED
    BY <2>2, <2>3
<1> QED
  BY <1>3, <1>4 DEF Send, Channel

\* The writer takes the first answer in the channel, when it holds none.
LEMMA PickKeeps ==
    ASSUME Shape, OneCopyEach, NEW h \in Conn, Pick(h)
    PROVE  OneCopyEach'
<1>1. /\ UNCHANGED <<pc, via, inbox>> /\ writer[h] = "idle"
      /\ \A k \in Conn : Answered(k)' = Answered(k)
  BY DEF Pick, Answered
<1>2. CASE UNCHANGED writeCh
  <2>1. \A k \in Conn : Held(k)' \subseteq Held(k)
    BY <1>2 DEF Pick, Held, Shape
  <2> QED
    BY <1>1, <1>2, <2>1, QueuesStay
<1>3. CASE /\ writeCh[h] # <<>> /\ writeCh' = [writeCh EXCEPT ![h] = Tail(@)]
           /\ out' = [out EXCEPT ![h] = Head(writeCh[h])]
           /\ writer' = [writer EXCEPT ![h] = "busy"]
  <2> SUFFICES ASSUME NEW k \in Conn PROVE OneCopy(k)'
    BY DEF OneCopyEach
  <2>1. OneCopy(k) /\ inbox'[k] = inbox[k] /\ writeCh[k] \in Seq(Cmd)
    BY <1>1 DEF OneCopyEach, Shape
  <2>2. CASE k # h
    <3>1. writeCh'[k] = writeCh[k] /\ Held(k)' = Held(k)
      BY <1>3, <2>2 DEF Shape, Held
    <3> QED
      BY <1>1, <2>1, <3>1 DEF OneCopy
  <2>3. CASE k = h
    <3>1. /\ writeCh'[k] = Tail(writeCh[k]) /\ Held(k) = {}
          /\ Held(k)' \subseteq {Head(writeCh[k])}
      BY <1>1, <1>3, <2>3 DEF Shape, Held
    <3>2. /\ Items(writeCh[k])' \subseteq Items(writeCh[k]) /\ Distinct(writeCh[k])'
          /\ Head(writeCh[k]) \in Items(writeCh[k]) /\ Head(writeCh[k]) \notin Items(writeCh[k])'
      BY <1>3, <2>1, <2>3, <3>1, TailDistinct DEF OneCopy
    <3>3. Items(inbox[k])' = Items(inbox[k]) /\ (Distinct(inbox[k]) => Distinct(inbox[k])')
      BY <2>1 DEF Items, Distinct
    <3> QED
      BY <1>1, <2>1, <3>1, <3>2, <3>3 DEF OneCopy
  <2> QED
    BY <2>2, <2>3
<1> QED
  BY <1>2, <1>3 DEF Pick

\* The answer held reaches the server, or is lost with the writer.
LEMMA WriteKeeps ==
    ASSUME Shape, OneCopyEach, NEW h \in Conn, Write(h)
    PROVE  OneCopyEach'
<1>1. /\ UNCHANGED <<pc, via, writeCh, out>> /\ writer[h] = "busy" /\ writer'[h] # "busy"
      /\ \A k \in Conn \ {h} : writer'[k] = writer[k]
      /\ \A k \in Conn : Answered(k)' = Answered(k)
  BY DEF Write, Answered, Shape
<1>2. \A k \in Conn : Held(k)' \subseteq Held(k)
  BY <1>1 DEF Held
<1>3. CASE inbox' = inbox
  BY <1>1, <1>2, <1>3, QueuesStay
<1>4. CASE out[h] # "ping" /\ inbox' = [inbox EXCEPT ![h] = Append(@, out[h])]
  <2> SUFFICES ASSUME NEW k \in Conn PROVE OneCopy(k)'
    BY DEF OneCopyEach
  <2>1. OneCopy(k) /\ writeCh'[k] = writeCh[k] /\ inbox[k] \in Seq(Cmd)
    BY <1>1 DEF OneCopyEach, Shape
  <2>2. CASE k # h
    <3>1. inbox'[k] = inbox[k]
      BY <1>4, <2>2 DEF Shape
    <3> QED
      BY <1>1, <1>2, <2>1, <3>1 DEF OneCopy
  <2>3. CASE k = h
    <3>1. /\ inbox'[k] = Append(inbox[k], out[k]) /\ Held(k) = {out[k]} /\ Held(k)' = {}
          /\ out[k] \in Cmd
      BY <1>1, <1>4, <2>3 DEF Shape, Held
    <3>2. Items(inbox[k])' = Items(inbox[k]) \cup {out[k]} /\ Distinct(inbox[k])'
      BY <2>1, <3>1, AppendDistinct DEF OneCopy
    <3>3. Items(writeCh[k])' = Items(writeCh[k]) /\ (Distinct(writeCh[k]) => Distinct(writeCh[k])')
      BY <2>1 DEF Items, Distinct
    <3> QED
      BY <1>1, <2>1, <3>1, <3>2, <3>3 DEF OneCopy
  <2> QED
    BY <2>2, <2>3
<1> QED
  BY <1>3, <1>4 DEF Write

LEMMA OneCopyStep == Shape /\ OneCopyEach /\ [Next]_vars => OneCopyEach'
<1> SUFFICES ASSUME Shape, OneCopyEach, [Next]_vars PROVE OneCopyEach'
  OBVIOUS
<1> USE DEF link, writing, Goto
<1>1. CASE Dial \/ Ack \/ ReadFails \/ Leave \/ Backoff \/ Fault
  <2>1. UNCHANGED <<inbox, writeCh, out, pc, via>>
    BY <1>1 DEF Dial, Ack, ReadFails, Leave, Backoff, Fault
  <2>2. \A k \in Conn : writer'[k] = "busy" => writer[k] = "busy"
    BY <1>1 DEF Dial, Ack, ReadFails, Leave, Backoff, Fault, Shape
  <2> QED
    BY <2>1, <2>2, QueuesStay DEF Held, Answered
<1>2. ASSUME NEW c \in Cmd, Receive(c) \/ Answer(c) PROVE OneCopyEach'
  <2>1. /\ UNCHANGED <<inbox, writer, writeCh, out>>
        /\ \A d \in Cmd : pc[d] = "end" => pc'[d] = "end" /\ via'[d] = via[d]
    BY <1>2 DEF Receive, Answer, Shape
  <2> QED
    BY <2>1, QueuesStay DEF Held, Answered
<1>3. CASE UNCHANGED vars \/ \E k \in Conn : CloseConn(k)
  BY <1>3, QueuesStay DEF CloseConn, vars, Held, Answered
<1> QED
  BY <1>1, <1>2, <1>3, SendKeeps, PickKeeps, WriteKeeps DEF Next

\* An answer reaches the server at most once, and on the connection its command
\* came by (ws_client.go, connect's send and writer goroutine).
THEOREM AnswersCorrect == Spec => []AnswersInPlace
<1>1. Shape /\ OneCopyEach => AnswersInPlace
  <2> SUFFICES ASSUME Shape, OneCopyEach, NEW k \in Conn
               PROVE  \A n \in DOMAIN inbox[k] :
                        /\ via[inbox[k][n]] = k
                        /\ \A m \in DOMAIN inbox[k] : inbox[k][m] = inbox[k][n] => m = n
    BY DEF AnswersInPlace
  <2>1. DOMAIN inbox[k] = 1 .. Len(inbox[k])
    BY DEF Shape
  <2>2. OneCopy(k)
    BY DEF OneCopyEach
  <2> QED
    BY <2>1, <2>2 DEF OneCopy, Items, Distinct, Answered
<1>2. Shape /\ OneCopyEach /\ [Next]_vars => Shape' /\ OneCopyEach'
  BY ShapeStep, OneCopyStep
<1> QED
  BY <1>1, <1>2, InitHolds, PTL DEF Spec
=============================================================================
