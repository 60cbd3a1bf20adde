----------------------------- MODULE ClientCalls -----------------------------
(***************************************************************************)
(* Call and CallAsync on one Client (client.go): the sessions and async     *)
(* handlers waiting for responses, the three write modes, the send loop,    *)
(* the read loop that delivers responses (Handler.OnMessage) and fails what *)
(* is pending when the conn breaks, timeouts, and Stop.                     *)
(*                                                                         *)
(* A call is named by its sequence number.  A message is where it is: in    *)
(* the send queue, with the writer, on the wire, or gone; the order of the  *)
(* queue and the payloads do not matter here.  One generation only: Restart *)
(* is in ClientLifecycle.                                                   *)
(***************************************************************************)
EXTENDS Naturals, FiniteSets

CONSTANTS
    Modes,       \* write modes explored: "queue" (AsyncWrite), "batch" (AsyncWrite
                 \* with BatchSend), "writev" (AsyncWritev) or "sync" (neither)
    Roles,       \* roles explored: "client" (has a Dialer) or "server"
    QueueSize,   \* Handler.SendQueueSize()
    Kinds,       \* the calls made: "call" (Call, CallContext), "async" (CallAsync)
    MaxSeq,      \* bound on the number of calls
    MaxConns,    \* bound on the number of conns
    MaxReplies   \* responses the peer's handler writes to one request

ASSUME CallsAssumption ==
    /\ Modes \in SUBSET {"queue", "batch", "writev", "sync"}
    /\ Roles \in SUBSET {"client", "server"}
    /\ QueueSize \in Nat \ {0}
    /\ Kinds \in SUBSET {"call", "async"}
    /\ MaxSeq \in Nat \ {0}
    /\ MaxConns \in Nat \ {0}
    /\ MaxReplies \in Nat \ {0}

Seqs == 1..MaxSeq

VARIABLES
    mode, role,       \* the settings of this Client, which never change
    \* the callers
    seq,              \* c.seq: the last sequence number given out
    kind,             \* kind[s]: "call" (Call, CallContext) or "async" (CallAsync)
    pc,               \* pc[s]: where the goroutine making call s is
    res,              \* res[s]: what the API call returns
    \* pending calls
    sessionMap,       \* seqs registered in c.sessionMap
    asyncHandlerMap,  \* seqs registered in c.asyncHandlerMap
    buf,              \* buf[s]: messages in the session's done channel (capacity 1)
    doneClosed,       \* doneClosed[s]: the session's done channel is closed
    panicked,         \* a send on, or a close of, a closed done channel happened
    \* async handlers
    timer,            \* timer[s]: the AfterFunc timer of an async call
    hcalls,           \* hcalls[s]: how often the handler was called ...
    hres,             \* hres[s]: ... and with what, the last time
    cleared,          \* handlers clearAsyncHandler took and has not scheduled yet
    exec,             \* handler calls handed to AsyncExecute, not run yet
    \* sending
    msg,              \* msg[s]: where the request is
    writer,           \* where sendLoop or writevLoop is
    wclosed,          \* closed of writevLoop
    closing,          \* closing[s]: who runs dropMessage(s) between deleting the
                      \* session and closing its done channel, or "no"
    \* the peer
    replies,          \* replies[s]: responses on the wire to us
    replied,          \* replied[s]: responses the peer has written
    \* the client
    running, reconnecting, chClosed,
    conn,             \* c.Conn: "up", "broken" by the network, or "closed" here
    conns,            \* how many conns there have been
    loop,             \* where recvLoop is
    rmsg,             \* the response it is delivering, or 0
    stopper           \* where a goroutine calling Stop is

setVars    == <<mode, role>>
callerVars == <<seq, kind, pc, res>>
mapVars    == <<sessionMap, asyncHandlerMap, buf, doneClosed, panicked>>
asyncVars  == <<timer, hcalls, hres, cleared, exec>>
sendVars   == <<msg, writer, wclosed, closing>>
peerVars   == <<replies, replied>>
lifeVars   == <<running, reconnecting, chClosed, conn, conns, loop, rmsg, stopper>>
vars == <<setVars, callerVars, mapVars, asyncVars, sendVars, peerVars, lifeVars>>

HasDialer == role = "client"
BatchSend == mode = "batch"
WriteMode == IF BatchSend THEN "queue" ELSE mode

Init ==
    /\ mode \in Modes /\ role \in Roles
    /\ seq = 0
    /\ kind = [s \in Seqs |-> "call"]
    /\ pc = [s \in Seqs |-> "idle"]
    /\ res = [s \in Seqs |-> "none"]
    /\ sessionMap = {}
    /\ asyncHandlerMap = {}
    /\ buf = [s \in Seqs |-> 0]
    /\ doneClosed = [s \in Seqs |-> FALSE]
    /\ panicked = FALSE
    /\ timer = [s \in Seqs |-> "off"]
    /\ hcalls = [s \in Seqs |-> 0]
    /\ hres = [s \in Seqs |-> "none"]
    /\ cleared = {}
    /\ exec = {}
    /\ msg = [s \in Seqs |-> "none"]
    /\ writer = "idle"
    /\ wclosed = FALSE
    /\ closing = [s \in Seqs |-> "no"]
    /\ replies = [s \in Seqs |-> 0]
    /\ replied = [s \in Seqs |-> 0]
    /\ running = TRUE
    /\ reconnecting = FALSE
    /\ chClosed = FALSE
    /\ conn = "up"
    /\ conns = 1
    /\ loop = "check"
    /\ rmsg = 0
    /\ stopper = "idle"

Queue == {s \in Seqs : msg[s] = "queue"}
Batch == {s \in Seqs : msg[s] = "writer"}    \* taken by the send loop
Drained == {s \in Seqs : msg[s] = "drain"}   \* taken by drainWritev

\* msg with the requests in S moved to where
Move(S, where) == [s \in Seqs |-> IF s \in S THEN where ELSE msg[s]]

-----------------------------------------------------------------------------
(* Shared pieces.  A definition whose name has an underscore is a mutation  *)
(* of the next one, for checking the properties.                            *)

\* c.Conn is closed or breaks: what is on the wire, in either direction, is
\* lost.  m is msg, as changed by the same step.
Disconnect(how, m) ==
    /\ conn' = how
    /\ replies' = [s \in Seqs |-> 0]
    /\ msg' = [s \in Seqs |-> IF m[s] = "wire" THEN "lost" ELSE m[s]]

\* Where a successful write takes a message: the network may accept it after
\* it broke, and lose it.
OnConn == IF conn = "up" THEN "wire" ELSE "lost"

\* close(sess.done) for the sessions in S
CloseDone(S) ==
    /\ doneClosed' = [s \in Seqs |-> doneClosed[s] \/ s \in S]
    /\ panicked' = (panicked \/ \E s \in S : doneClosed[s])

\* ah.timer.Stop(), which only has an effect before the timer fires
StopTimer(s) == timer' = [timer EXCEPT ![s] = IF @ = "armed" THEN "stopped" ELSE @]

CallHandler(s, what) ==
    /\ hcalls' = [hcalls EXCEPT ![s] = @ + 1]
    /\ hres' = [hres EXCEPT ![s] = what]

\* dropMessage(msg) by who: an async call only loses its handler; a blocking
\* one loses its session, whose done channel who closes next.
DropMessage_KeepsSession(s, who) ==
    /\ msg' = [msg EXCEPT ![s] = "unsent"]
    /\ closing' = [closing EXCEPT ![s] = IF s \in sessionMap THEN who ELSE @]
    /\ UNCHANGED <<sessionMap, asyncHandlerMap>>
DropMessage(s, who) ==
    /\ msg' = [msg EXCEPT ![s] = "unsent"]
    /\ IF kind[s] = "call"
       THEN /\ sessionMap' = sessionMap \ {s}
            /\ closing' = [closing EXCEPT ![s] = IF s \in sessionMap THEN who ELSE @]
            /\ UNCHANGED asyncHandlerMap
       ELSE /\ asyncHandlerMap' = asyncHandlerMap \ {s}
            /\ UNCHANGED <<sessionMap, closing>>

DropClose(s, who) ==
    /\ closing[s] = who
    /\ CloseDone({s})
    /\ closing' = [closing EXCEPT ![s] = "no"]

NoneClosing(who) == \A s \in Seqs : closing[s] # who

\* The API call of s is about to return r: a blocking one runs its deferred
\* deleteSession, a failed async one takes its handler back.
Leave(s, r) ==
    /\ res' = [res EXCEPT ![s] = r]
    /\ pc' = [pc EXCEPT ![s] = IF kind[s] = "call" THEN "unwind"
                               ELSE IF r = "nil" THEN "ret" ELSE "undo"]

\* The request is accepted: a blocking call waits, an async one returns nil.
Accepted(s) ==
    IF kind[s] = "call"
    THEN pc' = [pc EXCEPT ![s] = "wait"] /\ UNCHANGED res
    ELSE Leave(s, "nil")

-----------------------------------------------------------------------------
(* The goroutine making call s                                             *)

\* Call, CallContext or CallAsync pass CheckState and take a sequence number
\* (newRequestMessage); callAsyncOnce starts its timer at once.  A call that
\* fails CheckState returns the error and changes nothing.
Start(s, k) ==
    /\ s = seq + 1
    /\ running /\ ~reconnecting
    /\ seq' = s
    /\ kind' = [kind EXCEPT ![s] = k]
    /\ pc' = [pc EXCEPT ![s] = "add"]
    /\ timer' = [timer EXCEPT ![s] = IF k = "async" THEN "armed" ELSE "off"]
    /\ UNCHANGED <<res, mapVars, hcalls, hres, cleared, exec, sendVars,
                   peerVars, lifeVars>>

\* addSession or addAsyncHandler: only while running
AddPending(s) ==
    /\ pc[s] = "add"
    /\ sessionMap' = IF running /\ kind[s] = "call" THEN sessionMap \cup {s} ELSE sessionMap
    /\ asyncHandlerMap' = IF running /\ kind[s] = "async" THEN asyncHandlerMap \cup {s}
                                                          ELSE asyncHandlerMap
    /\ pc' = [pc EXCEPT ![s] = "push"]
    /\ UNCHANGED <<seq, kind, res, buf, doneClosed, panicked, asyncVars,
                   sendVars, peerVars, lifeVars>>

\* AsyncWrite: the select of sendRequest and pushMessage.  Any ready case may
\* be taken, also when several are.
PushQueue(s) ==
    /\ WriteMode = "queue" /\ pc[s] = "push"
    /\ Cardinality(Queue) < QueueSize
    /\ msg' = [msg EXCEPT ![s] = "queue"]
    /\ Accepted(s)
    /\ UNCHANGED <<seq, kind, mapVars, asyncVars, writer, wclosed, closing,
                   peerVars, lifeVars>>

PushFails(s) ==
    /\ WriteMode = "queue" /\ pc[s] = "push"
    /\ msg' = [msg EXCEPT ![s] = "unsent"]
    /\ Leave(s, "error")
    /\ UNCHANGED <<seq, kind, mapVars, asyncVars, writer, wclosed, closing,
                   peerVars, lifeVars>>

PushTimeout(s) == kind[s] = "async" /\ timer[s] = "fired" /\ PushFails(s)
PushStopped(s) == chClosed /\ PushFails(s)

\* pushWritev and writeSync first look at reconnecting.
WriteCheck(s) ==
    /\ WriteMode # "queue" /\ pc[s] = "push"
    /\ pc' = [pc EXCEPT ![s] = IF reconnecting THEN "drop" ELSE "write"]
    /\ UNCHANGED <<seq, kind, res, mapVars, asyncVars, sendVars, peerVars,
                   lifeVars>>

CallerDrop(s) ==
    /\ pc[s] = "drop"
    /\ DropMessage(s, "caller")
    /\ pc' = [pc EXCEPT ![s] = "dropped"]
    /\ UNCHANGED <<seq, kind, res, buf, doneClosed, panicked, asyncVars,
                   writer, wclosed, peerVars, lifeVars>>

CallerDropClose(s) ==
    /\ DropClose(s, "caller")
    /\ UNCHANGED <<callerVars, sessionMap, asyncHandlerMap, buf, asyncVars, msg,
                   writer, wclosed, peerVars, lifeVars>>

CallerDropped(s) ==
    /\ pc[s] = "dropped"
    /\ closing[s] = "no"
    /\ Leave(s, "error")
    /\ UNCHANGED <<seq, kind, mapVars, asyncVars, sendVars, peerVars, lifeVars>>

\* The rest of pushWritev, under writevMux: refused once stopped, else queued,
\* and a writevLoop launched if none runs.
Append(s) ==
    /\ WriteMode = "writev" /\ pc[s] = "write"
    /\ IF running
       THEN /\ msg' = [msg EXCEPT ![s] = "queue"]
            /\ writer' = IF writer = "idle" THEN "loop" ELSE writer
            /\ Accepted(s)
       ELSE /\ msg' = [msg EXCEPT ![s] = "unsent"]
            /\ Leave(s, "error")
            /\ UNCHANGED writer
    /\ UNCHANGED <<seq, kind, mapVars, asyncVars, wclosed, closing, peerVars,
                   lifeVars>>

\* The rest of writeSync: Handler.Send on the caller's goroutine
WriteOk(s) ==
    /\ WriteMode = "sync" /\ pc[s] = "write"
    /\ conn # "closed"
    /\ msg' = [msg EXCEPT ![s] = OnConn]
    /\ Accepted(s)
    /\ UNCHANGED <<seq, kind, mapVars, asyncVars, writer, wclosed, closing,
                   peerVars, lifeVars>>

WriteFails(s) ==
    /\ WriteMode = "sync" /\ pc[s] = "write"
    /\ Disconnect("closed", [msg EXCEPT ![s] = "lost"])
    /\ Leave(s, "error")
    /\ UNCHANGED <<seq, kind, mapVars, asyncVars, writer, wclosed, closing,
                   replied, running, reconnecting, chClosed, conns, loop, rmsg, stopper>>

\* The second select of sendRequest.  A closed done gives a nil response, for
\* which parseResponse returns ErrClientReconnecting.
DoneResult_NilIsResponse(s) == "response"
DoneResult(s) == IF buf[s] > 0 THEN "response" ELSE "error"

WaitDone(s) ==
    /\ pc[s] = "wait"
    /\ buf[s] > 0 \/ doneClosed[s]
    /\ buf' = [buf EXCEPT ![s] = 0]
    /\ Leave(s, DoneResult(s))
    /\ UNCHANGED <<seq, kind, sessionMap, asyncHandlerMap, doneClosed, panicked,
                   asyncVars, sendVars, peerVars, lifeVars>>

WaitFails(s) ==
    /\ pc[s] = "wait"
    /\ Leave(s, "error")
    /\ UNCHANGED <<seq, kind, mapVars, asyncVars, sendVars, peerVars, lifeVars>>

WaitStopped(s) == chClosed /\ WaitFails(s)

\* The ctx of a blocking call is done, at any time: ErrClientTimeout.
CtxDone(s) == kind[s] = "call" /\ (PushFails(s) \/ WaitFails(s))

\* defer c.deleteSession(seq)
DeleteSession_Forgotten(s) ==
    /\ pc[s] = "unwind"
    /\ pc' = [pc EXCEPT ![s] = "ret"]
    /\ UNCHANGED <<seq, kind, res, mapVars, asyncVars, sendVars, peerVars, lifeVars>>
DeleteSession(s) ==
    /\ pc[s] = "unwind"
    /\ sessionMap' = sessionMap \ {s}
    /\ pc' = [pc EXCEPT ![s] = "ret"]
    /\ UNCHANGED <<seq, kind, res, asyncHandlerMap, buf, doneClosed, panicked,
                   asyncVars, sendVars, peerVars, lifeVars>>

\* callAsyncOnce after an error: deleteAsyncHandler, timerCallback.Stop()
UndoAsync(s) ==
    /\ pc[s] = "undo"
    /\ asyncHandlerMap' = asyncHandlerMap \ {s}
    /\ StopTimer(s)
    /\ pc' = [pc EXCEPT ![s] = "ret"]
    /\ UNCHANGED <<seq, kind, res, sessionMap, buf, doneClosed, panicked, hcalls,
                   hres, cleared, exec, sendVars, peerVars, lifeVars>>

CallerStep(s) ==
    \/ AddPending(s) \/ PushQueue(s) \/ PushTimeout(s) \/ PushStopped(s)
    \/ WriteCheck(s) \/ CallerDrop(s) \/ CallerDropClose(s) \/ CallerDropped(s)
    \/ Append(s) \/ WriteOk(s) \/ WriteFails(s)
    \/ WaitDone(s) \/ WaitStopped(s)
    \/ DeleteSession(s) \/ UndoAsync(s)

-----------------------------------------------------------------------------
(* The timer of an async call, on its own goroutine                        *)

\* getAndDeleteAsyncHandler: whoever takes the handler out of the map calls it.
TakeHandler_KeepsIt(s) == UNCHANGED asyncHandlerMap
TakeHandler(s) == asyncHandlerMap' = asyncHandlerMap \ {s}

TimerFires(s) ==
    /\ timer[s] = "armed"
    /\ TakeHandler(s)
    /\ timer' = [timer EXCEPT ![s] = IF s \in asyncHandlerMap THEN "call" ELSE "signal"]
    /\ UNCHANGED <<callerVars, sessionMap, buf, doneClosed, panicked, hcalls, hres,
                   cleared, exec, sendVars, peerVars, lifeVars>>

TimerCallsHandler(s) ==
    /\ timer[s] = "call"
    /\ CallHandler(s, "error")
    /\ timer' = [timer EXCEPT ![s] = "signal"]
    /\ UNCHANGED <<callerVars, mapVars, cleared, exec, sendVars, peerVars, lifeVars>>

\* chTimer <- time.Now(), which pushMessage waits for
TimerSignals(s) ==
    /\ timer[s] = "signal"
    /\ timer' = [timer EXCEPT ![s] = "fired"]
    /\ UNCHANGED <<callerVars, mapVars, hcalls, hres, cleared, exec, sendVars, peerVars,
                   lifeVars>>

TimerStep(s) == TimerFires(s) \/ TimerCallsHandler(s) \/ TimerSignals(s)

-----------------------------------------------------------------------------
(* The writer: sendLoop of "queue" mode, writevLoop of "writev" mode        *)

AfterWrite == IF WriteMode = "queue" THEN "idle" ELSE "loop"

\* sendLoop: case msg = <-chSend, possible as long as the loop has not seen
\* chClose
TakeOne(s) ==
    /\ WriteMode = "queue" /\ writer = "idle"
    /\ msg[s] = "queue"
    /\ msg' = [msg EXCEPT ![s] = "writer"]
    /\ writer' = "check"
    /\ UNCHANGED <<callerVars, mapVars, asyncVars, wclosed, closing, peerVars, lifeVars>>

\* writevLoop: take the whole queue
TakeAll ==
    /\ writer = "loop"
    /\ Queue # {}
    /\ msg' = Move(Queue, "writer")
    /\ writer' = "check"
    /\ UNCHANGED <<callerVars, mapVars, asyncVars, wclosed, closing, peerVars, lifeVars>>

\* writevLoop exits once the queue is empty: writevSending = false.
WritevExit ==
    /\ writer = "loop"
    /\ Queue = {}
    /\ writer' = "idle"
    /\ wclosed' = FALSE
    /\ UNCHANGED <<callerVars, mapVars, asyncVars, msg, closing, peerVars, lifeVars>>

WriterCheck ==
    /\ writer = "check"
    /\ writer' = IF reconnecting \/ wclosed THEN "drop"
                 ELSE IF WriteMode = "queue" /\ BatchSend THEN "merge" ELSE "send"
    /\ UNCHANGED <<callerVars, mapVars, asyncVars, msg, wclosed, closing, peerVars, lifeVars>>

\* batchSendLoop then merges queued messages into the same write, as many as
\* fit in SendBufferSize.
WriterMerge ==
    /\ writer = "merge"
    /\ \E more \in SUBSET Queue : msg' = Move(more, "writer")
    /\ writer' = "send"
    /\ UNCHANGED <<callerVars, mapVars, asyncVars, wclosed, closing, peerVars, lifeVars>>

WriterSends ==
    /\ writer = "send"
    /\ conn # "closed"
    /\ msg' = Move(Batch, OnConn)
    /\ writer' = AfterWrite
    /\ UNCHANGED <<callerVars, mapVars, asyncVars, wclosed, closing, peerVars, lifeVars>>

\* A failed write closes c.Conn, the reconnected one if it changed meanwhile.
WriterFails ==
    /\ writer = "send"
    /\ Disconnect("closed", Move(Batch, "lost"))
    /\ writer' = AfterWrite
    /\ wclosed' = (WriteMode = "writev")
    /\ UNCHANGED <<callerVars, mapVars, asyncVars, closing, replied, running, reconnecting,
                   chClosed, conns, loop, rmsg, stopper>>

WriterDrop(s) ==
    /\ writer = "drop" /\ NoneClosing("writer")
    /\ msg[s] = "writer"
    /\ DropMessage(s, "writer")
    /\ UNCHANGED <<callerVars, buf, doneClosed, panicked, asyncVars, writer, wclosed,
                   peerVars, lifeVars>>

WriterDropClose(s) ==
    /\ DropClose(s, "writer")
    /\ UNCHANGED <<callerVars, sessionMap, asyncHandlerMap, buf, asyncVars, msg, writer,
                   wclosed, peerVars, lifeVars>>

WriterDropped ==
    /\ writer = "drop" /\ NoneClosing("writer")
    /\ Batch = {}
    /\ writer' = AfterWrite
    /\ wclosed' = (WriteMode = "writev")
    /\ UNCHANGED <<callerVars, mapVars, asyncVars, msg, closing, peerVars, lifeVars>>

\* sendLoop: case <-chClose, drain the queue and return
SendLoopExit ==
    /\ WriteMode = "queue" /\ writer = "idle"
    /\ chClosed
    /\ msg' = Move(Queue, "unsent")
    /\ writer' = "exit"
    /\ UNCHANGED <<callerVars, mapVars, asyncVars, wclosed, closing, peerVars, lifeVars>>

WriterStep ==
    \/ \E s \in Seqs : TakeOne(s) \/ WriterDrop(s) \/ WriterDropClose(s)
    \/ TakeAll \/ WritevExit \/ WriterCheck \/ WriterMerge \/ WriterSends \/ WriterFails
    \/ WriterDropped \/ SendLoopExit

-----------------------------------------------------------------------------
(* The peer, the network and a goroutine calling Stop                      *)

\* The peer's handler writes a response; any number up to MaxReplies, in any
\* order, or never.
PeerReplies(s) ==
    /\ msg[s] = "wire"
    /\ replied[s] < MaxReplies
    /\ replied' = [replied EXCEPT ![s] = @ + 1]
    /\ replies' = [replies EXCEPT ![s] = @ + 1]
    /\ UNCHANGED <<callerVars, mapVars, asyncVars, sendVars, lifeVars>>

ConnBreaks ==
    /\ conn = "up"
    /\ Disconnect("broken", msg)
    /\ UNCHANGED <<callerVars, mapVars, asyncVars, writer, wclosed, closing, replied,
                   running, reconnecting, chClosed, conns, loop, rmsg, stopper>>

StopClient ==
    /\ stopper = "idle"
    /\ running' = FALSE
    /\ chClosed' = TRUE
    /\ stopper' = "stopConn"
    /\ UNCHANGED <<callerVars, mapVars, asyncVars, sendVars, peerVars, reconnecting, conn,
                   conns, loop, rmsg>>

StopConn ==
    /\ stopper = "stopConn"
    /\ Disconnect("closed", msg)
    /\ stopper' = "stopped"
    /\ UNCHANGED <<callerVars, mapVars, asyncVars, writer, wclosed, closing, replied,
                   running, reconnecting, chClosed, conns, loop, rmsg>>

-----------------------------------------------------------------------------
(* recvLoop                                                                *)

GoTo(l) == loop' = l

\* After a message: the client role reads on, the server role looks at chClose.
AfterMessage == IF HasDialer THEN "read" ELSE "check"

CheckClosed ==
    /\ loop = "check"
    /\ GoTo(IF chClosed THEN "stop" ELSE "read")
    /\ UNCHANGED <<callerVars, mapVars, asyncVars, sendVars, peerVars, running, reconnecting,
                   chClosed, conn, conns, rmsg, stopper>>

\* Handler.Recv returns a response, and OnMessage looks up who waits for it:
\* getSession leaves the session registered, getAndDeleteAsyncHandler does not.
\* A response nobody waits for goes to OnSessionMiss.
RecvResponse(s) ==
    /\ loop = "read" /\ conn = "up"
    /\ replies[s] > 0
    /\ replies' = [replies EXCEPT ![s] = @ - 1]
    /\ rmsg' = IF s \in sessionMap \cup asyncHandlerMap THEN s ELSE 0
    /\ IF kind[s] = "call"
       THEN /\ GoTo(IF s \in sessionMap THEN "send" ELSE AfterMessage)
            /\ UNCHANGED <<asyncHandlerMap, timer>>
       ELSE /\ GoTo(IF s \in asyncHandlerMap THEN "handle" ELSE AfterMessage)
            /\ TakeHandler(s)
            /\ IF s \in asyncHandlerMap THEN StopTimer(s) ELSE UNCHANGED timer
    /\ UNCHANGED <<callerVars, sessionMap, buf, doneClosed, panicked, hcalls, hres, cleared,
                   exec, sendVars, replied, running, reconnecting, chClosed, conn, conns,
                   stopper>>

\* make(chan *Message, 1) in newSession
DoneHasRoom == buf[rmsg] = 0

\* session.done <- msg: waits while done is full, panics (and recovers) when it
\* is closed.
SendDone ==
    /\ loop = "send"
    /\ ~doneClosed[rmsg] => DoneHasRoom
    /\ panicked' = (panicked \/ doneClosed[rmsg])
    /\ buf' = IF doneClosed[rmsg] THEN buf ELSE [buf EXCEPT ![rmsg] = 1]
    /\ GoTo(AfterMessage)
    /\ rmsg' = 0
    /\ UNCHANGED <<callerVars, sessionMap, asyncHandlerMap, doneClosed, asyncVars, sendVars,
                   peerVars, running, reconnecting, chClosed, conn, conns, stopper>>

HandleResponse ==
    /\ loop = "handle"
    /\ CallHandler(rmsg, "response")
    /\ GoTo(AfterMessage)
    /\ rmsg' = 0
    /\ UNCHANGED <<callerVars, mapVars, timer, cleared, exec, sendVars, peerVars, running,
                   reconnecting, chClosed, conn, conns, stopper>>

\* Handler.Recv fails.
RecvFails ==
    /\ loop = "read" /\ conn # "up"
    /\ GoTo(IF HasDialer THEN "fail" ELSE "stop")
    /\ UNCHANGED <<callerVars, mapVars, asyncVars, sendVars, peerVars, running, reconnecting,
                   chClosed, conn, conns, rmsg, stopper>>

\* reconnecting = true
BeginReconnect ==
    /\ loop = "fail"
    /\ reconnecting' = TRUE
    /\ GoTo("close")
    /\ UNCHANGED <<callerVars, mapVars, asyncVars, sendVars, peerVars, running, chClosed,
                   conn, conns, rmsg, stopper>>

\* c.Conn.Close(), when reconnecting and at the end of closeAndClean
CloseConn ==
    /\ loop \in {"close", "stopConn"}
    /\ Disconnect("closed", msg)
    /\ GoTo(IF loop = "close" THEN "clearSession" ELSE "drainWritev")
    /\ UNCHANGED <<callerVars, mapVars, asyncVars, writer, wclosed, closing, replied, running,
                   reconnecting, chClosed, conns, rmsg, stopper>>

\* clearSession
ClearSession_Leaves ==
    /\ loop = "clearSession"
    /\ sessionMap' = {}
    /\ GoTo("clearAsync")
    /\ UNCHANGED <<callerVars, asyncHandlerMap, doneClosed, panicked, buf, asyncVars,
                   sendVars, peerVars, running, reconnecting, chClosed, conn, conns, rmsg, stopper>>
ClearSession ==
    /\ loop = "clearSession"
    /\ CloseDone(sessionMap)
    /\ sessionMap' = {}
    /\ GoTo("clearAsync")
    /\ UNCHANGED <<callerVars, asyncHandlerMap, buf, asyncVars, sendVars, peerVars, running,
                   reconnecting, chClosed, conn, conns, rmsg, stopper>>

\* clearAsyncHandler takes the whole map ...
ToFail_Unanswered == asyncHandlerMap \ {s \in Seqs : timer[s] = "armed"}
ToFail == asyncHandlerMap

ClearAsyncHandler ==
    /\ loop = "clearAsync"
    /\ cleared' = ToFail
    /\ asyncHandlerMap' = {}
    /\ GoTo("fanout")
    /\ UNCHANGED <<callerVars, sessionMap, buf, doneClosed, panicked, timer, hcalls, hres,
                   exec, sendVars, peerVars, running, reconnecting, chClosed, conn, conns,
                   rmsg, stopper>>

\* ... and stops the timer and schedules the handler of each entry.
FailHandler(s) ==
    /\ loop = "fanout" /\ s \in cleared
    /\ cleared' = cleared \ {s}
    /\ exec' = exec \cup {s}
    /\ StopTimer(s)
    /\ UNCHANGED <<callerVars, mapVars, hcalls, hres, sendVars, peerVars, lifeVars>>

ExecHandler(s) ==
    /\ s \in exec
    /\ exec' = exec \ {s}
    /\ CallHandler(s, "error")
    /\ UNCHANGED <<callerVars, mapVars, timer, cleared, sendVars, peerVars, lifeVars>>

\* The head of the retry loop: out of attempts, or stopped, or dialing.
Retry ==
    /\ \/ loop = "fanout" /\ cleared = {}
       \/ loop = "retry"
    /\ GoTo(IF chClosed THEN "stop" ELSE "dial")
    /\ UNCHANGED <<callerVars, mapVars, asyncVars, sendVars, peerVars, running, reconnecting,
                   chClosed, conn, conns, rmsg, stopper>>

\* Dialer() fails: try again, or that was the last attempt.
DialFails ==
    /\ loop = "dial"
    /\ \E l \in {"retry", "stop"} : GoTo(l)
    /\ UNCHANGED <<callerVars, mapVars, asyncVars, sendVars, peerVars, running, reconnecting,
                   chClosed, conn, conns, rmsg, stopper>>

\* Dialer() succeeds: c.Conn = conn, reconnecting = false, and back to reading,
\* past the check of chClose.
DialSucceeds ==
    /\ loop = "dial" /\ conns < MaxConns
    /\ conn' = "up"
    /\ conns' = conns + 1
    /\ reconnecting' = FALSE
    /\ GoTo("read")
    /\ UNCHANGED <<callerVars, mapVars, asyncVars, sendVars, peerVars, running, chClosed,
                   rmsg, stopper>>

\* closeAndClean: running = false, closeChan(chClose), then c.Conn.Close() ...
CloseAndClean ==
    /\ loop = "stop"
    /\ running' = FALSE
    /\ chClosed' = TRUE
    /\ GoTo("stopConn")
    /\ UNCHANGED <<callerVars, mapVars, asyncVars, sendVars, peerVars, reconnecting, conn,
                   conns, rmsg, stopper>>

\* ... and drainWritev: take the queue under writevMux, drop each message.
DrainWritev ==
    /\ loop = "drainWritev"
    /\ msg' = IF WriteMode = "writev" THEN Move(Queue, "drain") ELSE msg
    /\ GoTo("drain")
    /\ UNCHANGED <<callerVars, mapVars, asyncVars, writer, wclosed, closing, peerVars, running,
                   reconnecting, chClosed, conn, conns, rmsg, stopper>>

DrainDrop(s) ==
    /\ loop = "drain" /\ NoneClosing("loop")
    /\ msg[s] = "drain"
    /\ DropMessage(s, "loop")
    /\ UNCHANGED <<callerVars, buf, doneClosed, panicked, asyncVars, writer, wclosed,
                   peerVars, lifeVars>>

DrainDropClose(s) ==
    /\ DropClose(s, "loop")
    /\ UNCHANGED <<callerVars, sessionMap, asyncHandlerMap, buf, asyncVars, msg, writer,
                   wclosed, peerVars, lifeVars>>

LoopExit ==
    /\ loop = "drain" /\ NoneClosing("loop")
    /\ Drained = {}
    /\ GoTo("exit")
    /\ UNCHANGED <<callerVars, mapVars, asyncVars, sendVars, peerVars, running, reconnecting,
                   chClosed, conn, conns, rmsg, stopper>>

LoopStep ==
    \/ CheckClosed \/ SendDone \/ HandleResponse \/ RecvFails \/ BeginReconnect \/ CloseConn
    \/ ClearSession \/ ClearAsyncHandler \/ Retry \/ DialFails \/ DialSucceeds
    \/ CloseAndClean \/ DrainWritev \/ LoopExit
    \/ \E s \in Seqs : RecvResponse(s) \/ FailHandler(s) \/ DrainDrop(s) \/ DrainDropClose(s)

-----------------------------------------------------------------------------
\* Stopped, with every goroutine of the Client and every call finished.
Terminated ==
    /\ loop = "exit" /\ stopper = "stopped"
    /\ writer = IF WriteMode = "queue" THEN "exit" ELSE "idle"
    /\ \A s \in Seqs : pc[s] \in {"idle", "ret"}
    /\ exec = {}
    /\ UNCHANGED vars

Step ==
    \/ \E s \in Seqs :
          \/ \E k \in Kinds : Start(s, k)
          \/ CallerStep(s) \/ CtxDone(s) \/ TimerStep(s) \/ ExecHandler(s) \/ PeerReplies(s)
    \/ WriterStep \/ LoopStep
    \/ ConnBreaks \/ StopClient \/ StopConn
    \/ Terminated

Next == Step /\ UNCHANGED setVars

Spec == Init /\ [][Next]_vars

\* The read loop keeps running, and so does one of the other goroutines and armed
\* timers as long as one can, each of which has only so many steps to take.  A
\* peer may never answer, ctxs may never be done, and nobody need call Stop.
OtherStep ==
    \/ WriterStep \/ StopConn
    \/ \E s \in Seqs : CallerStep(s) \/ TimerStep(s) \/ ExecHandler(s)

FairSpec ==
    /\ Spec
    /\ WF_vars(LoopStep /\ UNCHANGED setVars)
    /\ WF_vars(OtherStep /\ UNCHANGED setVars)

-----------------------------------------------------------------------------
(* Properties                                                              *)

Results == {"none", "nil", "response", "error"}

\* The type invariant; a done channel (newSession) holds at most one message.
TypeOK ==
    /\ mode \in Modes /\ role \in Roles
    /\ seq \in 0..MaxSeq
    /\ kind \in [Seqs -> {"call", "async"}]
    /\ pc \in [Seqs -> {"idle", "add", "push", "write", "drop", "dropped", "wait", "unwind",
                        "undo", "ret"}]
    /\ res \in [Seqs -> Results]
    /\ sessionMap \in SUBSET Seqs
    /\ asyncHandlerMap \in SUBSET Seqs
    /\ buf \in [Seqs -> {0, 1}]
    /\ doneClosed \in [Seqs -> BOOLEAN]
    /\ panicked \in BOOLEAN
    /\ timer \in [Seqs -> {"off", "armed", "stopped", "call", "signal", "fired"}]
    /\ hcalls \in [Seqs -> Nat]
    /\ hres \in [Seqs -> Results]
    /\ cleared \in SUBSET Seqs
    /\ exec \in SUBSET Seqs
    /\ msg \in [Seqs -> {"none", "queue", "writer", "wire", "lost", "drain", "unsent"}]
    /\ writer \in CASE WriteMode = "queue"  -> {"idle", "check", "merge", "send", "drop", "exit"}
                      [] WriteMode = "writev" -> {"idle", "loop", "check", "send", "drop"}
                      [] WriteMode = "sync"   -> {"idle"}
    /\ wclosed \in BOOLEAN
    /\ closing \in [Seqs -> {"no", "caller", "writer", "loop"}]
    /\ replies \in [Seqs -> 0..MaxReplies]
    /\ replied \in [Seqs -> 0..MaxReplies]
    /\ running \in BOOLEAN
    /\ reconnecting \in BOOLEAN
    /\ chClosed \in BOOLEAN
    /\ conn \in {"up", "broken", "closed"}
    /\ conns \in 1..MaxConns
    /\ loop \in {"check", "read", "send", "handle", "fail", "close", "clearSession",
                 "clearAsync", "fanout", "retry", "dial", "stop", "stopConn",
                 "drainWritev", "drain", "exit"}
    /\ rmsg \in 0..MaxSeq
    /\ stopper \in {"idle", "stopConn", "stopped"}

\* recvLoop, the send loop and the callers never close a done channel twice and
\* never send on a closed one: only who takes a session out of sessionMap
\* closes it, and recvLoop, which sends on it, is the one that clears the map.
NoPanic == ~panicked

\* A call that has returned is no longer registered, so sessionMap only holds
\* calls that are being made and cannot grow without bound.
NoSessionLeak == \A s \in Seqs : pc[s] = "ret" => s \notin sessionMap

\* The outcome of a call as its caller sees it: what a blocking call returns,
\* what an async one passes to its handler, or the error it returns.
Outcome(s) ==
    LET r == IF kind[s] = "call" THEN IF pc[s] = "ret" THEN res[s] ELSE "none"
             ELSE IF hcalls[s] > 0 THEN hres[s]
             ELSE IF pc[s] = "ret" /\ res[s] # "nil" THEN res[s] ELSE "none"
    IN  IF s > seq THEN "none"
        ELSE CASE r = "none"     -> "pending"
               [] r = "response" -> "response"
               [] OTHER          -> "failed"

Promise == INSTANCE RpcPromise WITH
    Calls    <- Seqs,
    outcome  <- [s \in Seqs |-> Outcome(s)],
    answered <- {s \in Seqs : replied[s] > 0}

\* Call and CallAsync keep what RpcPromise says: one outcome per call, for good,
\* and a response only to the call the peer answered.
KeepsPromise == Promise!Spec

\* A blocking call whose request is lost with a broken conn, dropped while
\* reconnecting or discarded by Stop returns, without waiting for its ctx: done
\* is closed "if the call is dropped or the conn breaks".  A lost request stays
\* lost, so this is what leads-to would say.
LostCallReturns ==
    \A s \in Seqs : []<>(msg[s] \in {"lost", "unsent"} => pc[s] = "ret")

\* CallAsync: "handler is called at most once", whoever of recvLoop, the timer,
\* clearAsyncHandler and a failing CallAsync gets to it first.  And if CallAsync
\* returned nil it is always in somebody's hands until it is called: its timer,
\* recvLoop with the response, or clearAsyncHandler.  The exceptions: the request
\* was given up unsent, the timer fired before addAsyncHandler, or addAsyncHandler
\* found the Client stopped.
HandlerCalledOnce ==
    \A s \in Seqs :
        /\ hcalls[s] <= 1
        /\ kind[s] = "async" /\ pc[s] = "ret" /\ res[s] = "nil" /\ hcalls[s] = 0 =>
            \/ timer[s] = "call"
            \/ timer[s] = "armed" /\ s \in asyncHandlerMap
            \/ loop = "handle" /\ rmsg = s
            \/ s \in cleared \cup exec
            \/ msg[s] = "unsent"
            \/ timer[s] \in {"signal", "fired"} /\ s \in asyncHandlerMap
            \/ chClosed /\ s \notin asyncHandlerMap

-----------------------------------------------------------------------------
(* What the documentation says and the code does not keep: the README gives
   the constants under which TLC shows it.                                 *)

\* recvLoop, in the server role: "The loop exits once chClose is closed", so
\* that onStop and OnDisconnected are called.
StopEndsReader == ~HasDialer /\ chClosed ~> loop = "exit"

\* CallAsync: the handler "is not called if CallAsync returns an error".
ErrMeansNoHandler ==
    \A s \in Seqs :
        kind[s] = "async" /\ pc[s] = "ret" /\ res[s] # "nil" => hcalls[s] = 0

\* CallAsync: once it returns nil the handler is called, "with ErrTimeout if
\* none arrives within timeout", unless the request is given up unsent.
AsyncCompletes ==
    \A s \in Seqs :
        kind[s] = "async" /\ pc[s] = "ret" /\ res[s] = "nil"
            ~> hcalls[s] > 0 \/ msg[s] = "unsent"

=============================================================================
