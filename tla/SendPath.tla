------------------------------- MODULE SendPath -------------------------------
(***************************************************************************)
(* The way of outgoing messages (client.go) while the Client loses conns,    *)
(* stops and restarts: PushMsg, Notify and NotifyContext, then either the    *)
(* bounded queue chSend with the send loop of its generation (AsyncWrite),   *)
(* or the writev queue with the writevLoops that pushWritev starts           *)
(* (AsyncWritev).  It is composed with ClientLifecycle, whose steps happen   *)
(* in between.                                                               *)
(*                                                                         *)
(* A message belongs to exactly one goroutine or queue until it is given to  *)
(* the Handler: OnMessageDone, OnOverstock or OnMessageDropped.              *)
(***************************************************************************)
EXTENDS ClientLifecycle, Sequences, SequencesExt

CONSTANTS
    MaxMsgs,      \* bound on the messages
    Waits,        \* how the callers wait for the queue: "zero", "timer", "forever"
    QueueSize,    \* SendQueueSize
    MaxLoops      \* bound on the writevLoops at a time

ASSUME SendAssumption ==
    MaxMsgs \in Nat /\ QueueSize \in Nat \ {0} /\ MaxLoops \in Nat
    /\ Waits \subseteq {"zero", "timer", "forever"}

Msgs == 1..MaxMsgs
NoMsg == 0
Loops == 1..MaxLoops

VARIABLES
    writev,    \* the Handler uses AsyncWritev, or else AsyncWrite
    at,        \* at[m]: where the call that sends m is
    wait,      \* wait[m]: how it waits for the queue
    chSend,    \* chSend[m]: the generation of the c.chSend it read
    chClose,   \* chClose[m]: the generation of the c.chClose it read
    queue,     \* queue[g]: chSend of the generation g
    sender,    \* sender[g]: where the sendLoop of g is
    hand,      \* hand[g]: the message it has taken
    pending,   \* writevMsgs
    sending,   \* writevSending
    writer,    \* writer[i]: the i-th writevLoop: where it is, its msgs, closed
    done,      \* done[m]: how often m was given to the Handler, see Done
    taken,     \* the messages that were queued, in order, with their generation
    written    \* the messages that were written, in order, with their conn

sendVars == <<writev, at, wait, chSend, chClose, queue, sender, hand, pending,
              sending, writer, done, taken, written>>
allVars == <<vars, sendVars>>

NoWriter == [at |-> "none", msgs |-> <<>>, closed |-> FALSE]

SendInit ==
    /\ Init
    /\ writev \in BOOLEAN
    /\ at = [m \in Msgs |-> "none"]
    /\ wait = [m \in Msgs |-> "zero"]
    /\ chSend = [m \in Msgs |-> 1]
    /\ chClose = [m \in Msgs |-> 1]
    /\ queue = [g \in Gens |-> <<>>]
    /\ sender = [g \in Gens |-> IF g = 1 /\ ~writev THEN "run" ELSE "none"]
    /\ hand = [g \in Gens |-> NoMsg]
    /\ pending = <<>>
    /\ sending = FALSE
    /\ writer = [i \in Loops |-> NoWriter]
    /\ done = [m \in Msgs |-> 0]
    /\ taken = <<>>
    /\ written = <<>>

\* The messages ms are given to OnMessageDone, to OnOverstock or, by dropMessage,
\* to OnMessageDropped; the last two pass them on to OnMessageDone if the
\* application set their callbacks.
Done(ms) == done' = [m \in Msgs |-> done[m] + Cardinality({i \in DOMAIN ms : ms[i] = m})]

-----------------------------------------------------------------------------
(* The calls.  CheckState first: without a running Client that has its conn  *)
(* the call fails, and PushMsg gives the message to OnMessageDone.           *)

Check(m) ==
    /\ at[m] = "none" /\ \A k \in Msgs : k < m => at[k] # "none"
    /\ IF running /\ ~reconnecting
       THEN at' = [at EXCEPT ![m] = "checked"] /\ UNCHANGED done
       ELSE at' = [at EXCEPT ![m] = "returned"] /\ Done(<<m>>)
    /\ UNCHANGED <<writev, wait, chSend, chClose, queue, sender, hand, pending,
                   sending, writer, taken, written>>

\* The select of pushMessage, NotifyContext and PushMsg: it reads c.chSend, then
\* c.chClose, and then waits.
ReadChSend(m) ==
    /\ ~writev /\ at[m] = "checked"
    /\ at' = [at EXCEPT ![m] = "chSend"]
    /\ chSend' = [chSend EXCEPT ![m] = gen]
    /\ UNCHANGED <<writev, wait, chClose, queue, sender, hand, pending, sending,
                   writer, done, taken, written>>

ReadChClose(m) ==
    /\ at[m] = "chSend"
    /\ at' = [at EXCEPT ![m] = "select"]
    /\ chClose' = [chClose EXCEPT ![m] = gen]
    /\ \E w \in Waits : wait' = [wait EXCEPT ![m] = w]
    /\ UNCHANGED <<writev, chSend, queue, sender, hand, pending, sending,
                   writer, done, taken, written>>

\* The call returns and its variables are gone.
Returns(m) ==
    /\ at' = [at EXCEPT ![m] = "returned"]
    /\ wait' = [wait EXCEPT ![m] = "zero"]
    /\ chSend' = [chSend EXCEPT ![m] = 1]
    /\ chClose' = [chClose EXCEPT ![m] = 1]

HasRoom(g) == Len(queue[g]) < QueueSize

Enqueue(m) ==
    /\ at[m] = "select" /\ HasRoom(chSend[m])
    /\ Returns(m)
    /\ queue' = [queue EXCEPT ![chSend[m]] = Append(@, m)]
    /\ taken' = Append(taken, <<m, chSend[m]>>)
    /\ UNCHANGED <<writev, sender, hand, pending, sending, writer, done, written>>

\* The queue is full and the call does not wait, its timer fires or its context
\* is done, or the Client is stopped.
GiveUp(m) ==
    /\ at[m] = "select"
    /\ \/ wait[m] = "zero" /\ ~HasRoom(chSend[m])
       \/ wait[m] = "timer"
       \/ closed[chClose[m]]
    /\ Returns(m) /\ Done(<<m>>)
    /\ UNCHANGED <<writev, queue, sender, hand, pending, sending, writer, taken, written>>

\* pushWritev: a message is dropped while reconnecting ...
PushWritev(m) ==
    /\ writev /\ at[m] = "checked"
    /\ IF reconnecting
       THEN at' = [at EXCEPT ![m] = "returned"] /\ Done(<<m>>)
       ELSE at' = [at EXCEPT ![m] = "lock"] /\ UNCHANGED done
    /\ UNCHANGED <<writev, wait, chSend, chClose, queue, sender, hand, pending,
                   sending, writer, taken, written>>

\* ... and, under writevMux, refused once the Client is not running, or else
\* queued; a writevLoop is started if there is none.
MayQueue_AlsoStopped == TRUE
MayQueue == running

Launch_Always == TRUE
Launch == ~sending

QueueWritev(m) ==
    /\ at[m] = "lock"
    /\ at' = [at EXCEPT ![m] = "returned"]
    /\ IF MayQueue
       THEN /\ pending' = Append(pending, m)
            /\ taken' = Append(taken, <<m, gen>>)
            /\ sending' = TRUE
            /\ IF Launch
               THEN \E i \in Loops :
                       /\ writer[i].at = "none" /\ \A j \in Loops : j < i => writer[j].at # "none"
                       /\ writer' = [writer EXCEPT ![i].at = "take"]
               ELSE UNCHANGED writer
            /\ UNCHANGED done
       ELSE Done(<<m>>) /\ UNCHANGED <<pending, taken, sending, writer>>
    /\ UNCHANGED <<writev, wait, chSend, chClose, queue, sender, hand, written>>
-----------------------------------------------------------------------------
(* Writing to c.Conn: it succeeds on a live conn, or fails, and then the      *)
(* writer closes c.Conn, which may be another one by then.                   *)

Write(ms) ==
    /\ conn \in live
    /\ written' = written \o [i \in DOMAIN ms |-> <<ms[i], conn>>]

CloseAfterFailure ==
    /\ CloseCurrentConn
    /\ UNCHANGED <<running, reconnecting, mux, conn, reader, gen, closed, dialed,
                   loopVars, procVars>>

-----------------------------------------------------------------------------
(* sendLoop of generation g; a batch is written as its messages are           *)

SenderTakes(g) ==
    /\ sender[g] = "run" /\ hand[g] = NoMsg /\ queue[g] # <<>>
    /\ hand' = [hand EXCEPT ![g] = Head(queue[g])]
    /\ queue' = [queue EXCEPT ![g] = Tail(@)]
    /\ UNCHANGED <<vars, writev, at, wait, chSend, chClose, sender, pending, sending,
                   writer, done, taken, written>>

\* The message is dropped while reconnecting.
SenderChecks(g) ==
    /\ sender[g] = "run" /\ hand[g] # NoMsg
    /\ IF reconnecting
       THEN Done(<<hand[g]>>) /\ hand' = [hand EXCEPT ![g] = NoMsg] /\ UNCHANGED sender
       ELSE sender' = [sender EXCEPT ![g] = "write"] /\ UNCHANGED <<done, hand>>
    /\ UNCHANGED <<vars, writev, at, wait, chSend, chClose, queue, pending, sending,
                   writer, taken, written>>

SenderWrites(g) ==
    /\ sender[g] = "write"
    /\ Write(<<hand[g]>>) /\ Done(<<hand[g]>>)
    /\ hand' = [hand EXCEPT ![g] = NoMsg]
    /\ sender' = [sender EXCEPT ![g] = "run"]
    /\ UNCHANGED <<vars, writev, at, wait, chSend, chClose, queue, pending, sending,
                   writer, taken>>

SenderFails(g) ==
    /\ sender[g] = "write"
    /\ sender' = [sender EXCEPT ![g] = "close"]
    /\ UNCHANGED <<vars, writev, at, wait, chSend, chClose, queue, hand, pending,
                   sending, writer, done, taken, written>>

SenderCloses(g) ==
    /\ sender[g] = "close"
    /\ CloseAfterFailure /\ Done(<<hand[g]>>)
    /\ hand' = [hand EXCEPT ![g] = NoMsg]
    /\ sender' = [sender EXCEPT ![g] = "run"]
    /\ UNCHANGED <<writev, at, wait, chSend, chClose, queue, pending, sending, writer,
                   taken, written>>

\* chClose is closed: what is queued is done with, and the loop ends.
Drained(g) == queue[g]

SenderStops(g) ==
    /\ sender[g] = "run" /\ hand[g] = NoMsg /\ closed[g]
    /\ Done(Drained(g))
    /\ queue' = [queue EXCEPT ![g] = <<>>]
    /\ sender' = [sender EXCEPT ![g] = "end"]
    /\ UNCHANGED <<vars, writev, at, wait, chSend, chClose, hand, pending, sending,
                   writer, taken, written>>

-----------------------------------------------------------------------------
(* writevLoop i                                                            *)

\* Under writevMux: take all, or end and clear writevSending.
SendingAtEnd_Kept == sending
SendingAtEnd == FALSE

WriterTakes(i) ==
    /\ writer[i].at = "take"
    /\ IF pending = <<>>
       THEN /\ sending' = SendingAtEnd
            /\ writer' = [writer EXCEPT ![i] = NoWriter]
            /\ UNCHANGED pending
       ELSE /\ pending' = <<>>
            /\ writer' = [writer EXCEPT ![i].at = "check", ![i].msgs = pending]
            /\ UNCHANGED sending
    /\ UNCHANGED <<vars, writev, at, wait, chSend, chClose, queue, sender, hand, done,
                   taken, written>>

\* After a failed write, or while reconnecting, they are dropped.
WriterChecks(i) ==
    /\ writer[i].at = "check"
    /\ IF writer[i].closed \/ reconnecting
       THEN /\ Done(writer[i].msgs)
            /\ writer' = [writer EXCEPT ![i] = [at |-> "take", msgs |-> <<>>, closed |-> TRUE]]
       ELSE writer' = [writer EXCEPT ![i].at = "write"] /\ UNCHANGED done
    /\ UNCHANGED <<vars, writev, at, wait, chSend, chClose, queue, sender, hand, pending,
                   sending, taken, written>>

WriterWrites(i) ==
    /\ writer[i].at = "write"
    /\ Write(writer[i].msgs) /\ Done(writer[i].msgs)
    /\ writer' = [writer EXCEPT ![i].at = "take", ![i].msgs = <<>>]
    /\ UNCHANGED <<vars, writev, at, wait, chSend, chClose, queue, sender, hand, pending,
                   sending, taken>>

WriterFails(i) ==
    /\ writer[i].at = "write"
    /\ writer' = [writer EXCEPT ![i].at = "close"]
    /\ UNCHANGED <<vars, writev, at, wait, chSend, chClose, queue, sender, hand, pending,
                   sending, done, taken, written>>

WriterCloses(i) ==
    /\ writer[i].at = "close"
    /\ CloseAfterFailure /\ Done(writer[i].msgs)
    /\ writer' = [writer EXCEPT ![i] = [at |-> "take", msgs |-> <<>>, closed |-> TRUE]]
    /\ UNCHANGED <<writev, at, wait, chSend, chClose, queue, sender, hand, pending,
                   sending, taken, written>>

-----------------------------------------------------------------------------
(* What the lifecycle does to the queues                                   *)

\* drainWritev, in closeAndClean
DrainWritev == Done(pending) /\ pending' = <<>>

Exit(g) ==
    /\ LoopExit(g)
    /\ DrainWritev
    /\ UNCHANGED <<writev, at, wait, chSend, chClose, queue, sender, hand, sending,
                   writer, taken, written>>

\* Restart makes a new chSend with its loop, and discards the writev queue.
Restart(p) ==
    /\ NewGeneration(p)
    /\ pending' = <<>>
    /\ sending' = FALSE
    /\ sender' = [sender EXCEPT ![gen'] = IF writev THEN "none" ELSE "run"]
    /\ UNCHANGED <<writev, at, wait, chSend, chClose, queue, hand, writer, done, taken,
                   written>>

CallStep(m) ==
    \/ Check(m) \/ ReadChSend(m) \/ ReadChClose(m) \/ Enqueue(m) \/ GiveUp(m)
    \/ PushWritev(m) \/ QueueWritev(m)

SendStep ==
    \/ \E m \in Msgs : CallStep(m) /\ UNCHANGED vars
    \/ \E g \in Gens : \/ SenderTakes(g) \/ SenderChecks(g) \/ SenderWrites(g)
                       \/ SenderFails(g) \/ SenderCloses(g) \/ SenderStops(g)
    \/ \E i \in Loops : \/ WriterTakes(i) \/ WriterChecks(i) \/ WriterWrites(i)
                        \/ WriterFails(i) \/ WriterCloses(i)

Exits == \E g \in Gens : loop[g] = "exit" /\ loop'[g] = "done"

SendNext ==
    \/ SendStep
    \/ Next /\ ~Exits /\ gen' = gen /\ UNCHANGED sendVars
    \/ \E g \in Gens : Exit(g)
    \/ \E p \in Restarters : Restart(p)

\* The goroutines that send run whenever one of them can: calls, timers, send
\* loops and writevLoops.  Nothing is assumed about the lifecycle.
SendSpec == SendInit /\ [][SendNext]_allVars /\ WF_allVars(SendStep)

-----------------------------------------------------------------------------

SendTypeOK ==
    /\ TypeOK
    /\ at \in [Msgs -> {"none", "checked", "chSend", "select", "lock", "returned"}]
    /\ \A g \in Gens : Len(queue[g]) <= QueueSize /\ hand[g] \in Msgs \cup {NoMsg}
    /\ sender \in [Gens -> {"none", "run", "write", "close", "end"}]
    /\ \A i \in Loops : writer[i].at \in {"none", "take", "check", "write", "close"}

\* The goroutines and queues that have the message m
OwnersOf(m) ==
    (IF at[m] \in {"checked", "chSend", "select", "lock"} THEN {<<"call", m>>} ELSE {})
    \cup {<<"queue", g>> : g \in {g \in Gens : m \in Range(queue[g])}}
    \cup {<<"sender", g>> : g \in {g \in Gens : hand[g] = m}}
    \cup (IF m \in Range(pending) THEN {<<"pending", 0>>} ELSE {})
    \cup {<<"writer", i>> : i \in {i \in Loops : m \in Range(writer[i].msgs)}}

\* A message is given to the Handler once at most, and until then exactly one
\* goroutine or queue has it: whatever conns break, and although Restart throws
\* away the writev queue, none is forgotten and none is released twice.
OneOwner ==
    \A m \in Msgs : at[m] # "none" => Cardinality(OwnersOf(m)) + done[m] = 1

\* The messages of one generation are written in the order in which they were
\* queued, each once, also over a reconnect; with writev until a Restart.
WrittenInOrder ==
    LET Place(m) == CHOOSE i \in DOMAIN taken : taken[i][1] = m
    IN  \A i, j \in DOMAIN written :
            LET a == Place(written[i][1])
                b == Place(written[j][1])
            IN  i < j /\ taken[a][2] = taken[b][2] /\ (writev => gen = 1) => a < b

\* A message that stays in the chSend of a generation whose sendLoop has ended
Stranded(m) == \E g \in Gens : sender[g] = "end" /\ m \in Range(queue[g])

\* A call that waits on the chSend of one generation and the chClose of another
MixedUp(m) == at[m] = "select" /\ chSend[m] # chClose[m]

\* Every message is given to the Handler in the end: again and again, all those
\* that calls have taken up are done with.  The only exceptions are a message
\* queued after its sendLoop had drained chSend and ended, and a call that read
\* c.chSend before and c.chClose after a Restart; neither exists with writev.
EveryMessageEnds ==
    []<>(\A m \in Msgs :
            at[m] # "none" => done[m] = 1 \/ (~writev /\ (Stranded(m) \/ MixedUp(m))))

=============================================================================
