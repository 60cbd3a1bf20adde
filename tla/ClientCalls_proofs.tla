-------------------------- MODULE ClientCalls_proofs -------------------------
(***************************************************************************)
(* Proofs about ClientCalls, for every write mode and role, any number of   *)
(* calls of either kind, conns and responses, and any queue size.           *)
(***************************************************************************)
EXTENDS ClientCalls, TLAPS

\* The states of a call before addSession or addAsyncHandler, before its request
\* is handed over, and from the moment its result is decided
Unregistered == {"idle", "add"}
Unsent == {"idle", "add", "push", "write", "drop"}
Leaving == {"unwind", "undo", "ret"}

\* The request and the result of a call.  Responses come only to a request that
\* was written, and a request that is written is never dropped.
RequestInv ==
    \A s \in Seqs :
        /\ pc[s] = "idle" <=> s > seq
        /\ pc[s] \in Unsent => msg[s] = "none"
        /\ replied[s] > 0 => msg[s] \in {"wire", "lost"}
        /\ replies[s] <= replied[s]
        /\ pc[s] \notin Leaving => res[s] = "none"
        /\ pc[s] \in Leaving =>
              res[s] \in IF kind[s] = "call" THEN {"response", "error"} ELSE {"nil", "error"}
        /\ pc[s] \in {"wait", "unwind"} => kind[s] = "call"
        /\ pc[s] = "dropped" => msg[s] = "unsent"
        /\ pc[s] = "undo" => kind[s] = "async" /\ res[s] = "error"
        /\ kind[s] = "async" /\ res[s] = "error" => msg[s] \in {"lost", "unsent"} /\ replied[s] = 0

\* A response that a caller or handler has, or is about to get, was written by the
\* peer to that very call.
ResponseInv ==
    /\ loop \in {"send", "handle"} => rmsg \in Seqs /\ replied[rmsg] > 0
    /\ \A s \in Seqs :
          /\ buf[s] > 0 => replied[s] > 0
          /\ res[s] = "response" => replied[s] > 0
          /\ hcalls[s] > 0 => hres[s] \in {"response", "error"}
          /\ hres[s] = "response" => replied[s] > 0

\* Who closes a done channel: whoever takes the session out of sessionMap, once.
\* Besides recvLoop itself that is one who drops a request that was never written.
SessionInv ==
    /\ \A s \in Seqs :
          /\ s \in sessionMap => /\ kind[s] = "call" /\ pc[s] \notin Unregistered \cup {"ret"}
                                 /\ ~doneClosed[s] /\ closing[s] = "no"
          /\ closing[s] # "no" => ~doneClosed[s] /\ msg[s] = "unsent"
          /\ pc[s] \in Unregistered => ~doneClosed[s]
    /\ loop = "send" => ~doneClosed[rmsg]
    /\ ~panicked

\* Who may call an async handler.  These exclude one another, so that the handler
\* is called once.
Handling(s) == loop = "handle" /\ rmsg = s

HandlerInv ==
    /\ \A s \in asyncHandlerMap : kind[s] = "async" /\ timer[s] \in {"armed", "signal", "fired"}
    /\ \A s \in Seqs :
          /\ s \in asyncHandlerMap => /\ pc[s] \notin Unregistered
                                      /\ s \notin cleared \cup exec /\ hcalls[s] = 0
          /\ timer[s] = "call" => s \notin cleared \cup exec /\ hcalls[s] = 0 /\ ~Handling(s)
          /\ Handling(s) => s \notin asyncHandlerMap \cup cleared \cup exec /\ hcalls[s] = 0
          /\ s \in cleared => s \notin exec /\ hcalls[s] = 0
          /\ s \in exec => hcalls[s] = 0
          /\ hcalls[s] <= 1
          /\ pc[s] \in Unregistered => /\ timer[s] # "call" /\ s \notin cleared \cup exec
                                       /\ hcalls[s] = 0
          /\ pc[s] = "add" /\ kind[s] = "async" => timer[s] \in {"armed", "signal", "fired"}

\* An async handler that was registered is in somebody's hands until it is called,
\* unless CallAsync fails.
HeldInv ==
    /\ ~running => chClosed
    /\ cleared # {} => loop = "fanout"
    /\ \A s \in Seqs :
          kind[s] = "async" /\ pc[s] \notin Unregistered /\ res[s] # "error" /\ hcalls[s] = 0 =>
              \/ timer[s] = "call"
              \/ s \in asyncHandlerMap \cup cleared \cup exec
              \/ Handling(s)
              \/ msg[s] = "unsent"
              \/ chClosed /\ s \notin asyncHandlerMap

CallsInv ==
    TypeOK /\ RequestInv /\ ResponseInv /\ SessionInv /\ HandlerInv /\ HeldInv

-----------------------------------------------------------------------------
(* The steps, grouped by what they do                                      *)

\* The caller hands its request over, or fails to.
HandOver(s) == PushQueue(s) \/ PushFails(s) \/ Append(s) \/ WriteOk(s) \/ WriteFails(s)

CallerMoves(s) == WriteCheck(s) \/ CallerDropped(s) \/ WaitDone(s) \/ WaitFails(s)

\* The two halves of dropMessage
Drops(s)  == CallerDrop(s) \/ WriterDrop(s) \/ DrainDrop(s)
Closes(s) == CallerDropClose(s) \/ WriterDropClose(s) \/ DrainDropClose(s)

Returns(s) == DeleteSession(s) \/ UndoAsync(s)

WriterMoves ==
    \/ \E s \in Seqs : TakeOne(s)
    \/ TakeAll \/ WritevExit \/ WriterCheck \/ WriterMerge \/ WriterSends \/ WriterFails
    \/ WriterDropped \/ SendLoopExit

\* The conn is lost or closed, and what was queued with it.
ConnLost == ConnBreaks \/ StopConn \/ CloseConn \/ DrainWritev

Stops == StopClient \/ CloseAndClean

LoopMoves ==
    CheckClosed \/ RecvFails \/ BeginReconnect \/ Retry \/ DialFails \/ DialSucceeds \/ LoopExit

\* Every step is one of these.
LEMMA Cases ==
  ASSUME [Next]_vars
  PROVE  \/ \E s \in Seqs :
               \/ \E k \in Kinds : Start(s, k)
               \/ AddPending(s) \/ HandOver(s) \/ CallerMoves(s) \/ Drops(s) \/ Closes(s)
               \/ Returns(s) \/ TimerStep(s) \/ PeerReplies(s) \/ RecvResponse(s)
               \/ FailHandler(s) \/ ExecHandler(s)
         \/ WriterMoves \/ ConnLost \/ Stops \/ LoopMoves
         \/ SendDone \/ HandleResponse \/ ClearSession \/ ClearAsyncHandler
         \/ UNCHANGED vars
BY DEF Next, Step, CallerStep, CtxDone, PushTimeout, PushStopped, WaitStopped, WriterStep,
       LoopStep, Terminated, HandOver, CallerMoves, Drops, Closes, Returns, WriterMoves,
       ConnLost, Stops, LoopMoves

\* A step changes neither the mode nor the role.
LEMMA SettingsKept ==
  ASSUME [Next]_vars
  PROVE  mode' = mode /\ role' = role
BY DEF Next, vars, setVars

USE CallsAssumption DEF CallsAssumption

\* What a step does that touches no call and no handler: it moves requests on, from
\* the queue to the wire or to where they are given up, and may lose what is on the
\* wire.
Quiet ==
    /\ UNCHANGED <<callerVars, mapVars, asyncVars, closing, replied, running, chClosed, rmsg>>
    /\ \/ loop' = loop
       \/ loop \notin {"send", "handle"} /\ loop' \notin {"send", "handle"}
    /\ cleared # {} /\ loop = "fanout" => loop' = "fanout"
    /\ \A s \in Seqs :
          /\ replies'[s] = replies[s] \/ replies'[s] = 0
          /\ \/ msg'[s] = msg[s]
             \/ /\ msg[s] \in {"queue", "writer", "wire"}
                /\ msg'[s] \in {"writer", "drain", "wire", "lost", "unsent"}
                /\ msg[s] = "wire" => msg'[s] = "lost"

\* The writer, the loss of a conn and the moves of recvLoop between messages are
\* such steps.
LEMMA QuietSteps ==
  ASSUME TypeOK, WriterMoves \/ ConnLost \/ LoopMoves
  PROVE  Quiet
<1> USE DEF Quiet, TypeOK, sendVars, peerVars, lifeVars, Move, Queue, Batch, Disconnect,
            OnConn, GoTo
<1>1. CASE \E s \in Seqs : TakeOne(s)
  BY <1>1 DEF TakeOne
<1>2. CASE TakeAll \/ WritevExit \/ WriterCheck
  BY <1>2 DEF TakeAll, WritevExit, WriterCheck
<1>3. CASE WriterMerge
  BY <1>3 DEF WriterMerge
<1>4. CASE WriterSends \/ WriterFails
  BY <1>4 DEF WriterSends, WriterFails
<1>5. CASE WriterDropped \/ SendLoopExit
  BY <1>5 DEF WriterDropped, SendLoopExit
<1>6. CASE ConnBreaks \/ StopConn \/ CloseConn
  BY <1>6 DEF ConnBreaks, StopConn, CloseConn
<1>7. CASE DrainWritev
  BY <1>7 DEF DrainWritev
<1>8. CASE CheckClosed \/ RecvFails \/ BeginReconnect \/ Retry
  BY <1>8 DEF CheckClosed, RecvFails, BeginReconnect, Retry
<1>9. CASE DialFails \/ DialSucceeds \/ LoopExit
  BY <1>9 DEF DialFails, DialSucceeds, LoopExit
<1> QED
  BY <1>1, <1>2, <1>3, <1>4, <1>5, <1>6, <1>7, <1>8, <1>9 DEF WriterMoves, ConnLost, LoopMoves

-----------------------------------------------------------------------------
(* The invariant                                                           *)

\* The initial state satisfies the invariant.
LEMMA InitInv == Init => CallsInv
<1> SUFFICES ASSUME Init PROVE CallsInv
  OBVIOUS
<1>1. TypeOK
  <2>1. /\ panicked \in BOOLEAN /\ wclosed \in BOOLEAN /\ running \in BOOLEAN
        /\ reconnecting \in BOOLEAN /\ chClosed \in BOOLEAN /\ doneClosed \in [Seqs -> BOOLEAN]
    BY Zenon DEF Init
  <2> QED
    BY <2>1 DEF Init, TypeOK, Results, WriteMode, BatchSend
<1>2. RequestInv /\ ResponseInv
  BY DEF Init, RequestInv, ResponseInv, Unsent, Leaving, Seqs
<1>3. SessionInv /\ HandlerInv /\ HeldInv
  BY DEF Init, SessionInv, HandlerInv, HeldInv, Unregistered, Handling
<1> QED
  BY <1>1, <1>2, <1>3 DEF CallsInv

\* Type correctness is preserved; responses under way are among those written.
LEMMA TypeNext ==
  ASSUME TypeOK, RequestInv, ResponseInv, [Next]_vars
  PROVE  TypeOK'
<1> USE SettingsKept DEF TypeOK, Results, WriteMode, BatchSend, callerVars, mapVars, asyncVars,
                         sendVars, peerVars, lifeVars
<1>1. ASSUME NEW s \in Seqs, NEW k \in Kinds, Start(s, k) PROVE TypeOK'
  <2>1. seq' \in 0..MaxSeq
    BY <1>1 DEF Start, Seqs
  <2> QED
    BY <1>1, <2>1 DEF Start
<1>2. ASSUME NEW s \in Seqs, AddPending(s) PROVE TypeOK'
  BY <1>2 DEF AddPending
<1>3. ASSUME NEW s \in Seqs, HandOver(s) PROVE TypeOK'
  BY <1>3 DEF HandOver, PushQueue, PushFails, Append, WriteOk, WriteFails, Accepted, Leave,
              Disconnect, OnConn
<1>4. ASSUME NEW s \in Seqs, CallerMoves(s) PROVE TypeOK'
  BY <1>4 DEF CallerMoves, WriteCheck, CallerDropped, WaitDone, WaitFails, Leave, DoneResult
<1>5. ASSUME NEW s \in Seqs, Drops(s) PROVE TypeOK'
  BY <1>5 DEF Drops, CallerDrop, WriterDrop, DrainDrop, DropMessage
<1>6. ASSUME NEW s \in Seqs, Closes(s) PROVE TypeOK'
  <2>1. CASE CallerDropClose(s)
    BY <2>1 DEF CallerDropClose, DropClose, CloseDone
  <2>2. CASE WriterDropClose(s)
    BY <2>2 DEF WriterDropClose, DropClose, CloseDone
  <2>3. CASE DrainDropClose(s)
    BY <2>3 DEF DrainDropClose, DropClose, CloseDone
  <2> QED
    BY <1>6, <2>1, <2>2, <2>3 DEF Closes
<1>7. ASSUME NEW s \in Seqs, Returns(s) PROVE TypeOK'
  BY <1>7 DEF Returns, DeleteSession, UndoAsync, StopTimer
<1>8. ASSUME NEW s \in Seqs, TimerStep(s) PROVE TypeOK'
  BY <1>8 DEF TimerStep, TimerFires, TimerCallsHandler, TimerSignals, TakeHandler, CallHandler
<1>9. ASSUME NEW s \in Seqs, PeerReplies(s) PROVE TypeOK'
  <2>1. replied[s] + 1 \in 0..MaxReplies /\ replies[s] + 1 \in 0..MaxReplies
    BY <1>9 DEF PeerReplies, RequestInv
  <2> QED
    BY <1>9, <2>1 DEF PeerReplies
<1>10. ASSUME NEW s \in Seqs, RecvResponse(s) PROVE TypeOK'
  <2>1. replies[s] - 1 \in 0..MaxReplies /\ s \in 0..MaxSeq
    BY <1>10 DEF RecvResponse, Seqs
  <2> QED
    BY <1>10, <2>1 DEF RecvResponse, GoTo, AfterMessage, TakeHandler, StopTimer
<1>11. ASSUME NEW s \in Seqs, FailHandler(s) \/ ExecHandler(s) PROVE TypeOK'
  BY <1>11 DEF FailHandler, StopTimer, ExecHandler, CallHandler
<1>12. CASE WriterMoves
  <2>1. CASE \E s \in Seqs : TakeOne(s)
    BY <2>1 DEF TakeOne
  <2>2. CASE TakeAll \/ WriterMerge \/ SendLoopExit
    BY <2>2 DEF TakeAll, WriterMerge, SendLoopExit, Move
  <2>3. CASE WritevExit \/ WriterDropped
    <3>1. wclosed' \in BOOLEAN
      BY Zenon, <2>3 DEF WritevExit, WriterDropped
    <3> QED
      BY <2>3, <3>1 DEF WritevExit, WriterDropped, AfterWrite
  <2>4. CASE WriterCheck
    BY <2>4 DEF WriterCheck
  <2>5. CASE WriterSends
    BY <2>5 DEF WriterSends, Move, OnConn, AfterWrite
  <2>6. CASE WriterFails
    BY <2>6 DEF WriterFails, Disconnect, Move, AfterWrite
  <2> QED
    BY <1>12, <2>1, <2>2, <2>3, <2>4, <2>5, <2>6 DEF WriterMoves
<1>13. CASE ConnLost
  BY <1>13 DEF ConnLost, ConnBreaks, StopConn, CloseConn, DrainWritev, Disconnect, GoTo, Move
<1>14. CASE Stops
  <2>1. running' \in BOOLEAN /\ chClosed' \in BOOLEAN
    BY Zenon, <1>14 DEF Stops, StopClient, CloseAndClean
  <2> QED
    BY <1>14, <2>1 DEF Stops, StopClient, CloseAndClean, GoTo
<1>15. CASE LoopMoves
  <2>1. reconnecting' \in BOOLEAN
    BY Zenon, <1>15 DEF LoopMoves, CheckClosed, RecvFails, BeginReconnect, Retry, DialFails,
                        DialSucceeds, LoopExit
  <2>2. CASE CheckClosed \/ RecvFails \/ BeginReconnect \/ Retry
    BY <2>1, <2>2 DEF CheckClosed, RecvFails, BeginReconnect, Retry, GoTo
  <2>3. CASE DialFails \/ DialSucceeds \/ LoopExit
    BY <2>1, <2>3 DEF DialFails, DialSucceeds, LoopExit, GoTo
  <2> QED
    BY <1>15, <2>2, <2>3 DEF LoopMoves
<1>16. CASE SendDone
  <2>1. rmsg \in Seqs
    BY <1>16 DEF SendDone, ResponseInv
  <2>2. panicked' \in BOOLEAN
    BY <1>16 DEF SendDone
  <2>3. 0 \in 0..MaxSeq
    OBVIOUS
  <2> QED
    BY <1>16, <2>1, <2>2, <2>3 DEF SendDone, GoTo, AfterMessage
<1>17. CASE HandleResponse
  <2>1. rmsg \in Seqs
    BY <1>17 DEF HandleResponse, ResponseInv
  <2>2. 0 \in 0..MaxSeq
    OBVIOUS
  <2> QED
    BY <1>17, <2>1, <2>2 DEF HandleResponse, CallHandler, GoTo, AfterMessage
<1>18. CASE ClearSession
  BY <1>18 DEF ClearSession, CloseDone, GoTo
<1>19. CASE ClearAsyncHandler
  BY <1>19 DEF ClearAsyncHandler, ToFail, GoTo
<1>20. CASE UNCHANGED vars
  BY <1>20 DEF vars
<1> QED
  BY <1>1, <1>2, <1>3, <1>4, <1>5, <1>6, <1>7, <1>8, <1>9, <1>10, <1>11, <1>12, <1>13, <1>14,
     <1>15, <1>16, <1>17, <1>18, <1>19, <1>20, Cases

\* The request of a call moves on as described, until it is on the wire or given
\* up, and the result of a call is decided once.
LEMMA RequestNext ==
  ASSUME TypeOK, RequestInv, [Next]_vars
  PROVE  RequestInv'
<1>0. WriterMoves \/ ConnLost \/ LoopMoves => Quiet
  BY QuietSteps
<1> USE DEF TypeOK, RequestInv, Unsent, Leaving, Results, callerVars, mapVars, asyncVars,
            sendVars, peerVars, lifeVars
<1>1. ASSUME NEW s \in Seqs, NEW k \in Kinds, Start(s, k) PROVE RequestInv'
  <2>1. \A t \in Seqs : pc'[t] = "idle" <=> t > seq'
    BY <1>1 DEF Start, Seqs
  <2> QED
    BY <1>1, <2>1 DEF Start
<1>2. ASSUME NEW s \in Seqs, AddPending(s) PROVE RequestInv'
  BY <1>2 DEF AddPending
<1>3. ASSUME NEW s \in Seqs, HandOver(s) PROVE RequestInv'
  BY <1>3 DEF HandOver, PushQueue, PushFails, Append, WriteOk, WriteFails, Accepted, Leave,
              Disconnect, OnConn
<1>4. ASSUME NEW s \in Seqs, CallerMoves(s) PROVE RequestInv'
  BY <1>4 DEF CallerMoves, WriteCheck, CallerDropped, WaitDone, WaitFails, Leave, DoneResult
<1>5. ASSUME NEW s \in Seqs, Drops(s) PROVE RequestInv'
  BY <1>5 DEF Drops, CallerDrop, WriterDrop, DrainDrop, DropMessage
<1>6. ASSUME NEW s \in Seqs, Closes(s) PROVE RequestInv'
  BY <1>6 DEF Closes, CallerDropClose, WriterDropClose, DrainDropClose
<1>7. ASSUME NEW s \in Seqs, Returns(s) PROVE RequestInv'
  BY <1>7 DEF Returns, DeleteSession, UndoAsync
<1>8. ASSUME NEW s \in Seqs, PeerReplies(s) PROVE RequestInv'
  BY <1>8 DEF PeerReplies
<1>9. ASSUME NEW s \in Seqs, RecvResponse(s) PROVE RequestInv'
  BY <1>9 DEF RecvResponse
<1>10. CASE WriterMoves \/ ConnLost \/ LoopMoves
  BY <1>0, <1>10 DEF Quiet
<1>11. CASE UNCHANGED <<callerVars, msg, peerVars>>
  BY <1>11
<1>12. ASSUME NEW s \in Seqs, TimerStep(s) \/ FailHandler(s) \/ ExecHandler(s)
       PROVE  RequestInv'
  BY <1>11, <1>12 DEF TimerStep, TimerFires, TimerCallsHandler, TimerSignals, FailHandler,
                      ExecHandler
<1>13. CASE Stops \/ SendDone \/ HandleResponse \/ ClearSession \/ ClearAsyncHandler
  BY <1>11, <1>13 DEF Stops, StopClient, CloseAndClean, SendDone, HandleResponse,
                      ClearSession, ClearAsyncHandler
<1> QED
  BY <1>1, <1>2, <1>3, <1>4, <1>5, <1>6, <1>7, <1>8, <1>9, <1>10, <1>11, <1>12, <1>13, Cases
  DEF vars

\* A response is delivered to the call it answers.
LEMMA ResponseNext ==
  ASSUME TypeOK, RequestInv, ResponseInv, SessionInv, HandlerInv, [Next]_vars
  PROVE  ResponseInv'
<1>0. WriterMoves \/ ConnLost \/ LoopMoves => Quiet
  BY QuietSteps
<1> USE DEF TypeOK, RequestInv, ResponseInv, Results, callerVars, mapVars, asyncVars,
            sendVars, peerVars, lifeVars
<1>1. ASSUME NEW s \in Seqs, NEW k \in Kinds, Start(s, k) PROVE ResponseInv'
  BY <1>1 DEF Start
<1>2. ASSUME NEW s \in Seqs, AddPending(s) PROVE ResponseInv'
  BY <1>2 DEF AddPending
<1>3. ASSUME NEW s \in Seqs, HandOver(s) PROVE ResponseInv'
  BY <1>3 DEF HandOver, PushQueue, PushFails, Append, WriteOk, WriteFails, Accepted, Leave,
              Disconnect
<1>4. ASSUME NEW s \in Seqs, CallerMoves(s) PROVE ResponseInv'
  BY <1>4 DEF CallerMoves, WriteCheck, CallerDropped, WaitDone, WaitFails, Leave, DoneResult
<1>5. ASSUME NEW s \in Seqs, Drops(s) \/ Closes(s) PROVE ResponseInv'
  BY <1>5 DEF Drops, CallerDrop, WriterDrop, DrainDrop, DropMessage, Closes, CallerDropClose,
              WriterDropClose, DrainDropClose
<1>6. ASSUME NEW s \in Seqs, Returns(s) PROVE ResponseInv'
  BY <1>6 DEF Returns, DeleteSession, UndoAsync
<1>7. ASSUME NEW s \in Seqs, TimerStep(s) \/ FailHandler(s) \/ ExecHandler(s)
      PROVE  ResponseInv'
  BY <1>7 DEF TimerStep, TimerFires, TimerCallsHandler, TimerSignals, FailHandler,
              ExecHandler, CallHandler
<1>8. ASSUME NEW s \in Seqs, PeerReplies(s) PROVE ResponseInv'
  BY <1>8 DEF PeerReplies
<1>9. ASSUME NEW s \in Seqs, RecvResponse(s) PROVE ResponseInv'
  BY <1>9 DEF RecvResponse, GoTo, AfterMessage, SessionInv, HandlerInv
<1>10. CASE WriterMoves \/ ConnLost \/ LoopMoves
  BY <1>0, <1>10 DEF Quiet
<1>11. CASE SendDone \/ HandleResponse
  BY <1>11 DEF SendDone, HandleResponse, CallHandler, GoTo, AfterMessage
<1>12. CASE Stops \/ ClearSession \/ ClearAsyncHandler
  BY <1>12 DEF Stops, StopClient, CloseAndClean, ClearSession, ClearAsyncHandler, GoTo
<1>13. CASE UNCHANGED vars
  BY <1>13 DEF vars
<1> QED
  BY <1>1, <1>2, <1>3, <1>4, <1>5, <1>6, <1>7, <1>8, <1>9, <1>10, <1>11, <1>12, <1>13, Cases

\* A done channel is closed once, and not while recvLoop sends on it.
LEMMA SessionNext ==
  ASSUME TypeOK, RequestInv, ResponseInv, SessionInv, [Next]_vars
  PROVE  SessionInv'
<1>0. WriterMoves \/ ConnLost \/ LoopMoves => Quiet
  BY QuietSteps
<1> USE DEF TypeOK, RequestInv, ResponseInv, SessionInv, Unsent, Leaving, Unregistered,
            callerVars, mapVars, asyncVars, sendVars, peerVars, lifeVars
<1>1. ASSUME NEW s \in Seqs, NEW k \in Kinds, Start(s, k) PROVE SessionInv'
  BY <1>1 DEF Start
<1>2. ASSUME NEW s \in Seqs, AddPending(s) PROVE SessionInv'
  BY <1>2 DEF AddPending
<1>3. ASSUME NEW s \in Seqs, HandOver(s) PROVE SessionInv'
  BY <1>3 DEF HandOver, PushQueue, PushFails, Append, WriteOk, WriteFails, Accepted, Leave,
              Disconnect, OnConn
<1>4. ASSUME NEW s \in Seqs, CallerMoves(s) PROVE SessionInv'
  BY <1>4 DEF CallerMoves, WriteCheck, CallerDropped, WaitDone, WaitFails, Leave
<1>5. ASSUME NEW s \in Seqs, Drops(s) PROVE SessionInv'
  BY <1>5 DEF Drops, CallerDrop, WriterDrop, DrainDrop, DropMessage
<1>6. ASSUME NEW s \in Seqs, Closes(s) PROVE SessionInv'
  BY <1>6 DEF Closes, CallerDropClose, WriterDropClose, DrainDropClose, DropClose, CloseDone
<1>7. ASSUME NEW s \in Seqs, Returns(s) PROVE SessionInv'
  BY <1>7 DEF Returns, DeleteSession, UndoAsync
<1>8. ASSUME NEW s \in Seqs, RecvResponse(s) PROVE SessionInv'
  BY <1>8 DEF RecvResponse, GoTo, AfterMessage
<1>9. CASE SendDone \/ HandleResponse
  BY <1>9 DEF SendDone, HandleResponse, GoTo, AfterMessage
<1>10. CASE ClearSession
  BY <1>10 DEF ClearSession, CloseDone, GoTo
<1>11. CASE WriterMoves \/ ConnLost \/ LoopMoves
  BY <1>0, <1>11 DEF Quiet
<1>12. CASE Stops \/ ClearAsyncHandler
  BY <1>12 DEF Stops, StopClient, CloseAndClean, ClearAsyncHandler, GoTo
<1>13. CASE UNCHANGED <<callerVars, mapVars, sendVars, loop, rmsg>>
  BY <1>13
<1>14. ASSUME NEW s \in Seqs, PeerReplies(s) \/ FailHandler(s) \/ ExecHandler(s)
       PROVE  SessionInv'
  BY <1>13, <1>14 DEF PeerReplies, FailHandler, ExecHandler
<1>15. ASSUME NEW s \in Seqs, TimerStep(s) PROVE SessionInv'
  BY <1>15 DEF TimerStep, TimerFires, TimerCallsHandler, TimerSignals
<1> QED
  BY <1>1, <1>2, <1>3, <1>4, <1>5, <1>6, <1>7, <1>8, <1>9, <1>10, <1>11, <1>12, <1>13, <1>14,
     <1>15, Cases DEF vars

\* Whoever takes an async handler out of the map, or gets it from who did, is the
\* only one to have it.
LEMMA HandlerNext ==
  ASSUME TypeOK, RequestInv, ResponseInv, SessionInv, HandlerInv, [Next]_vars
  PROVE  HandlerInv'
<1>0. WriterMoves \/ ConnLost \/ LoopMoves => Quiet
  BY QuietSteps
<1> USE DEF TypeOK, HandlerInv, Handling, Unregistered, callerVars, mapVars, asyncVars,
            sendVars, peerVars, lifeVars
<1>1. ASSUME NEW s \in Seqs, NEW k \in Kinds, Start(s, k) PROVE HandlerInv'
  <2>1. pc[s] = "idle"
    BY <1>1 DEF Start, RequestInv, Seqs
  <2> QED
    BY <1>1, <2>1 DEF Start
<1>2. ASSUME NEW s \in Seqs, AddPending(s) PROVE HandlerInv'
  BY <1>2 DEF AddPending, ResponseInv, RequestInv, Unsent
<1>3. ASSUME NEW s \in Seqs, HandOver(s) PROVE HandlerInv'
  <2>1. /\ UNCHANGED <<kind, asyncHandlerMap, asyncVars, loop, rmsg>>
        /\ pc[s] \in {"push", "write"}
        /\ \E p \in {"wait", "unwind", "undo", "ret"} : pc' = [pc EXCEPT ![s] = p]
    BY <1>3 DEF HandOver, PushQueue, PushFails, Append, WriteOk, WriteFails, Accepted, Leave
  <2> QED
    BY <2>1
<1>4. ASSUME NEW s \in Seqs, CallerMoves(s) PROVE HandlerInv'
  BY <1>4 DEF CallerMoves, WriteCheck, CallerDropped, WaitDone, WaitFails, Leave
<1>5. ASSUME NEW s \in Seqs, Drops(s) PROVE HandlerInv'
  BY <1>5 DEF Drops, CallerDrop, WriterDrop, DrainDrop, DropMessage
<1>6. ASSUME NEW s \in Seqs, Closes(s) PROVE HandlerInv'
  BY <1>6 DEF Closes, CallerDropClose, WriterDropClose, DrainDropClose
<1>7. ASSUME NEW s \in Seqs, Returns(s) PROVE HandlerInv'
  BY <1>7 DEF Returns, DeleteSession, UndoAsync, StopTimer
<1>8. ASSUME NEW s \in Seqs, TimerStep(s) PROVE HandlerInv'
  BY <1>8 DEF TimerStep, TimerFires, TimerCallsHandler, TimerSignals, TakeHandler, CallHandler
<1>9. ASSUME NEW s \in Seqs, RecvResponse(s) PROVE HandlerInv'
  BY <1>9 DEF RecvResponse, GoTo, AfterMessage, TakeHandler, StopTimer
<1>10. ASSUME NEW s \in Seqs, FailHandler(s) PROVE HandlerInv'
  BY <1>10 DEF FailHandler, StopTimer
<1>11. ASSUME NEW s \in Seqs, ExecHandler(s) PROVE HandlerInv'
  BY <1>11 DEF ExecHandler, CallHandler
<1>12. CASE SendDone
  BY <1>12 DEF SendDone, GoTo, AfterMessage
<1>13. CASE HandleResponse
  <2>1. rmsg \in Seqs /\ Handling(rmsg) /\ pc[rmsg] \notin Unregistered
    BY <1>13 DEF HandleResponse, ResponseInv, RequestInv, Unsent
  <2>2. /\ hcalls' = [hcalls EXCEPT ![rmsg] = @ + 1]
        /\ loop' # "handle"
        /\ UNCHANGED <<kind, pc, asyncHandlerMap, timer, cleared, exec>>
    BY <1>13 DEF HandleResponse, CallHandler, GoTo, AfterMessage
  <2> QED
    BY <2>1, <2>2
<1>14. CASE ClearAsyncHandler
  BY <1>14 DEF ClearAsyncHandler, ToFail, GoTo
<1>15. CASE WriterMoves \/ ConnLost \/ LoopMoves
  BY <1>0, <1>15 DEF Quiet
<1>16. CASE Stops \/ ClearSession
  BY <1>16 DEF Stops, StopClient, CloseAndClean, ClearSession, GoTo
<1>17. CASE UNCHANGED <<callerVars, mapVars, asyncVars, loop, rmsg>>
  BY <1>17
<1>18. ASSUME NEW s \in Seqs, PeerReplies(s) PROVE HandlerInv'
  BY <1>17, <1>18 DEF PeerReplies
<1> QED
  BY <1>1, <1>2, <1>3, <1>4, <1>5, <1>6, <1>7, <1>8, <1>9, <1>10, <1>11, <1>12, <1>13, <1>14,
     <1>15, <1>16, <1>17, <1>18, Cases DEF vars

\* A handler passes from hand to hand and is not lost on the way.
LEMMA HeldNext ==
  ASSUME TypeOK, RequestInv, ResponseInv, HandlerInv, HeldInv, [Next]_vars
  PROVE  HeldInv'
<1>0. WriterMoves \/ ConnLost \/ LoopMoves => Quiet
  BY QuietSteps
<1> USE DEF TypeOK, HeldInv, Handling, Unregistered, callerVars, mapVars, asyncVars,
            sendVars, peerVars, lifeVars
<1>1. ASSUME NEW s \in Seqs, NEW k \in Kinds, Start(s, k) PROVE HeldInv'
  BY <1>1 DEF Start
<1>2. ASSUME NEW s \in Seqs, AddPending(s) PROVE HeldInv'
  BY <1>2 DEF AddPending, HandlerInv
<1>3. ASSUME NEW s \in Seqs, HandOver(s) PROVE HeldInv'
  <2> USE DEF HandOver, PushQueue, PushFails, Append, WriteOk, WriteFails, Accepted, Leave,
              Disconnect
  <2>1. /\ UNCHANGED <<kind, asyncHandlerMap, asyncVars, running, chClosed, loop, rmsg>>
        /\ pc[s] \in {"push", "write"}
    BY <1>3
  <2>2. \A t \in Seqs \ {s} :
           /\ pc'[t] = pc[t] /\ res'[t] = res[t]
           /\ msg[t] = "unsent" => msg'[t] = "unsent"
    BY <1>3
  <2>3. res[s] = "none" /\ msg[s] = "none"
    BY <2>1 DEF RequestInv, Leaving, Unsent
  <2> QED
    BY <2>1, <2>2, <2>3
<1>4. ASSUME NEW s \in Seqs, CallerMoves(s) PROVE HeldInv'
  BY <1>4 DEF CallerMoves, WriteCheck, CallerDropped, WaitDone, WaitFails, Leave, RequestInv,
              Leaving
<1>5. ASSUME NEW s \in Seqs, Drops(s) PROVE HeldInv'
  BY <1>5 DEF Drops, CallerDrop, WriterDrop, DrainDrop, DropMessage
<1>6. ASSUME NEW s \in Seqs, Closes(s) PROVE HeldInv'
  BY <1>6 DEF Closes, CallerDropClose, WriterDropClose, DrainDropClose
<1>7. ASSUME NEW s \in Seqs, Returns(s) PROVE HeldInv'
  BY <1>7 DEF Returns, DeleteSession, UndoAsync, StopTimer, RequestInv
<1>8. ASSUME NEW s \in Seqs, TimerStep(s) PROVE HeldInv'
  BY <1>8 DEF TimerStep, TimerFires, TimerCallsHandler, TimerSignals, TakeHandler, CallHandler
<1>9. ASSUME NEW s \in Seqs, RecvResponse(s) PROVE HeldInv'
  BY <1>9 DEF RecvResponse, GoTo, AfterMessage, TakeHandler, StopTimer
<1>10. ASSUME NEW s \in Seqs, FailHandler(s) PROVE HeldInv'
  BY <1>10 DEF FailHandler, StopTimer
<1>11. ASSUME NEW s \in Seqs, ExecHandler(s) PROVE HeldInv'
  BY <1>11 DEF ExecHandler, CallHandler
<1>12. CASE SendDone
  BY <1>12 DEF SendDone, GoTo, AfterMessage
<1>13. CASE HandleResponse
  <2>1. rmsg \in Seqs
    BY <1>13 DEF HandleResponse, ResponseInv
  <2> QED
    BY <1>13, <2>1 DEF HandleResponse, CallHandler, GoTo, AfterMessage
<1>14. CASE ClearAsyncHandler
  <2>1. /\ cleared' = asyncHandlerMap /\ asyncHandlerMap' = {}
        /\ UNCHANGED <<kind, pc, res, hcalls, timer, exec, msg, running, chClosed, rmsg>>
    BY <1>14 DEF ClearAsyncHandler, ToFail
  <2>2. cleared = {}
    BY <1>14 DEF ClearAsyncHandler, HeldInv
  <2>3. loop = "clearAsync" /\ loop' = "fanout"
    BY <1>14 DEF ClearAsyncHandler, GoTo
  <2> QED
    BY <2>1, <2>2, <2>3
<1>15. CASE WriterMoves \/ ConnLost \/ LoopMoves
  BY <1>0, <1>15 DEF Quiet
<1>16. CASE Stops \/ ClearSession
  BY <1>16 DEF Stops, StopClient, CloseAndClean, ClearSession, GoTo
<1>17. CASE UNCHANGED <<callerVars, mapVars, asyncVars, msg, running, chClosed, loop, rmsg>>
  BY <1>17
<1>18. ASSUME NEW s \in Seqs, PeerReplies(s) PROVE HeldInv'
  BY <1>17, <1>18 DEF PeerReplies
<1> QED
  BY <1>1, <1>2, <1>3, <1>4, <1>5, <1>6, <1>7, <1>8, <1>9, <1>10, <1>11, <1>12, <1>13, <1>14,
     <1>15, <1>16, <1>17, <1>18, Cases DEF vars

\* The invariant holds in every reachable state.
LEMMA InvHolds == Spec => []CallsInv
<1>1. CallsInv /\ [Next]_vars => CallsInv'
  BY TypeNext, RequestNext, ResponseNext, SessionNext, HandlerNext, HeldNext DEF CallsInv
<1> QED
  BY InitInv, <1>1, PTL DEF Spec

-----------------------------------------------------------------------------
(* Refinement of RpcPromise                                                *)

outcomes == [s \in Seqs |-> Outcome(s)]
answers  == {s \in Seqs : replied[s] > 0}

\* A step that changes no outcome and lets the peer answer nothing is a stutter.
LEMMA Stutters ==
  ASSUME \A s \in Seqs : Outcome(s)' = Outcome(s) /\ replied'[s] = replied[s]
  PROVE  UNCHANGED <<outcomes, answers>>
BY DEF outcomes, answers

\* A step that decides the outcome of one call, which was pending, is one of
\* RpcPromise, if the peer has answered the call or it fails.
LEMMA Decides ==
  ASSUME NEW s \in Seqs, replied' = replied,
         \A t \in Seqs \ {s} : Outcome(t)' = Outcome(t),
         Outcome(s) = "pending",
         \/ Outcome(s)' \in {"pending", "failed"}
         \/ Outcome(s)' = "response" /\ replied[s] > 0
  PROVE  [Promise!Next]_<<outcomes, answers>>
<1>1. answers' = answers
  BY DEF answers
<1>2. CASE Outcome(s)' = "pending"
  BY <1>1, <1>2 DEF outcomes
<1>3. CASE Outcome(s)' = "failed"
  <2>1. Promise!Fail(s)
    BY <1>1, <1>3 DEF Promise!Fail, outcomes, answers
  <2> QED
    BY <2>1 DEF Promise!Next
<1>4. CASE Outcome(s)' = "response" /\ replied[s] > 0
  <2>1. Promise!Respond(s)
    BY <1>1, <1>4 DEF Promise!Respond, outcomes, answers
  <2> QED
    BY <2>1 DEF Promise!Next
<1> QED
  BY <1>2, <1>3, <1>4

\* A handler that is called decides the outcome of its call, unless CallAsync has
\* failed before; in that case no response can have come, and it stays failed.
LEMMA HandlerDecides ==
  ASSUME CallsInv, NEW s \in Seqs, hcalls[s] = 0, NEW what \in {"response", "error"},
         CallHandler(s, what), UNCHANGED <<callerVars, replied>>,
         what = "response" => replied[s] > 0
  PROVE  [Promise!Next]_<<outcomes, answers>>
<1> USE DEF CallsInv, TypeOK, CallHandler, callerVars
<1>1. \A t \in Seqs \ {s} : Outcome(t)' = Outcome(t)
  BY DEF Outcome
<1>2. CASE kind[s] = "call" \/ s > seq
  BY <1>1, <1>2, Stutters DEF Outcome
<1>3. CASE kind[s] = "async" /\ ~(s > seq) /\ pc[s] = "ret" /\ res[s] = "error"
  <2>1. what = "error"
    BY <1>3 DEF RequestInv
  <2>2. Outcome(s)' = "failed" /\ Outcome(s) = "failed"
    BY <1>3, <2>1 DEF Outcome
  <2> QED
    BY <1>1, <2>2, Stutters
<1>4. CASE kind[s] = "async" /\ ~(s > seq) /\ ~(pc[s] = "ret" /\ res[s] = "error")
  <2>1. Outcome(s) = "pending"
    BY <1>4 DEF Outcome, RequestInv, Leaving
  <2>2. Outcome(s)' = IF what = "response" THEN "response" ELSE "failed"
    BY <1>4 DEF Outcome
  <2> QED
    BY <1>1, <2>1, <2>2, Decides
<1> QED
  BY <1>2, <1>3, <1>4

\* Every step of ClientCalls is a step of RpcPromise or a stutter.
LEMMA PromiseStep ==
  ASSUME CallsInv, [Next]_vars
  PROVE  [Promise!Next]_<<outcomes, answers>>
<1>0. WriterMoves \/ ConnLost \/ LoopMoves => Quiet
  BY QuietSteps DEF CallsInv
<1> USE DEF CallsInv, TypeOK, callerVars, asyncVars, peerVars
<1>1. ASSUME NEW s \in Seqs, NEW k \in Kinds, Start(s, k)
      PROVE  [Promise!Next]_<<outcomes, answers>>
  <2>1. Outcome(s) = "none" /\ Outcome(s)' = "pending"
    <3>1. s > seq /\ ~(s > seq')
      BY <1>1 DEF Start, Seqs
    <3>2. hcalls'[s] = 0 /\ pc'[s] = "add"
      BY <1>1, <3>1 DEF Start, RequestInv, HandlerInv, Unregistered
    <3> QED
      BY <3>1, <3>2 DEF Outcome
  <2>2. \A t \in Seqs \ {s} : Outcome(t)' = Outcome(t)
    <3>1. \A t \in Seqs \ {s} : t > seq <=> t > seq'
      BY <1>1 DEF Start, Seqs
    <3> QED
      BY <1>1, <3>1 DEF Start, Outcome
  <2>3. Promise!Begin(s)
    BY <1>1, <2>1, <2>2 DEF Start, Promise!Begin, outcomes, answers
  <2> QED
    BY <2>3 DEF Promise!Next
<1>2. ASSUME NEW s \in Seqs, UNCHANGED <<seq, kind, hcalls, hres, replied>>,
             \A t \in Seqs \ {s} : pc'[t] = pc[t] /\ res'[t] = res[t],
             pc[s] # "ret", pc'[s] = "ret" => kind[s] = "async" /\ res'[s] = "nil"
      PROVE  [Promise!Next]_<<outcomes, answers>>
  BY <1>2, Stutters DEF Outcome
<1>3. ASSUME NEW s \in Seqs, AddPending(s) \/ CallerDrop(s)
      PROVE  [Promise!Next]_<<outcomes, answers>>
  BY <1>2, <1>3 DEF AddPending, CallerDrop
<1>4. ASSUME NEW s \in Seqs, HandOver(s) PROVE [Promise!Next]_<<outcomes, answers>>
  BY <1>2, <1>4 DEF HandOver, PushQueue, PushFails, Append, WriteOk, WriteFails, Accepted, Leave
<1>5. ASSUME NEW s \in Seqs, CallerMoves(s) PROVE [Promise!Next]_<<outcomes, answers>>
  BY <1>2, <1>5 DEF CallerMoves, WriteCheck, CallerDropped, WaitDone, WaitFails, Leave, RequestInv
<1>6. ASSUME NEW s \in Seqs, Returns(s) PROVE [Promise!Next]_<<outcomes, answers>>
  <2>1. /\ pc[s] \in {"unwind", "undo"} /\ pc' = [pc EXCEPT ![s] = "ret"]
        /\ UNCHANGED <<seq, kind, res, hcalls, hres, replied>>
    BY <1>6 DEF Returns, DeleteSession, UndoAsync
  <2>2. \A t \in Seqs \ {s} : Outcome(t)' = Outcome(t)
    BY <2>1 DEF Outcome
  <2>3. CASE kind[s] = "async" /\ hcalls[s] > 0
    <3>1. Outcome(s)' = Outcome(s)
      BY <2>1, <2>3 DEF Outcome
    <3> QED
      BY <2>1, <2>2, <3>1, Stutters
  <2>4. CASE kind[s] = "call" \/ ~(hcalls[s] > 0)
    <3>1. /\ Outcome(s) = "pending"
          /\ Outcome(s)' = IF res[s] = "response" THEN "response" ELSE "failed"
      BY <2>1, <2>4 DEF Outcome, RequestInv, Leaving
    <3>2. res[s] = "response" => replied[s] > 0
      BY DEF ResponseInv
    <3> QED
      BY <2>1, <2>2, <3>1, <3>2, Decides
  <2> QED
    BY <2>3, <2>4
<1>7. ASSUME NEW s \in Seqs, TimerCallsHandler(s) \/ ExecHandler(s)
      PROVE  [Promise!Next]_<<outcomes, answers>>
  <2>1. hcalls[s] = 0 /\ CallHandler(s, "error") /\ UNCHANGED <<callerVars, replied>>
    BY <1>7 DEF TimerCallsHandler, ExecHandler, HandlerInv
  <2> QED
    BY <2>1, HandlerDecides
<1>8. CASE HandleResponse
  <2>1. /\ rmsg \in Seqs /\ hcalls[rmsg] = 0 /\ replied[rmsg] > 0
        /\ CallHandler(rmsg, "response") /\ UNCHANGED <<callerVars, replied>>
    BY <1>8 DEF HandleResponse, HandlerInv, Handling, ResponseInv
  <2> QED
    BY <2>1, HandlerDecides
<1>9. ASSUME NEW s \in Seqs, PeerReplies(s) PROVE [Promise!Next]_<<outcomes, answers>>
  <2>1. \A t \in Seqs : Outcome(t)' = Outcome(t)
    BY <1>9 DEF PeerReplies, Outcome
  <2>2. CASE replied[s] > 0
    <3>1. answers' = answers /\ outcomes' = outcomes
      BY <1>9, <2>1, <2>2 DEF PeerReplies, answers, outcomes
    <3> QED
      BY <3>1
  <2>3. CASE ~(replied[s] > 0)
    <3>1. Outcome(s) \in {"pending", "failed"}
      BY <1>9, <2>3 DEF PeerReplies, Outcome, RequestInv, ResponseInv, Unsent
    <3>2. Promise!Answer(s)
      BY <1>9, <2>1, <2>3, <3>1 DEF PeerReplies, Promise!Answer, outcomes, answers
    <3> QED
      BY <3>2 DEF Promise!Next
  <2> QED
    BY <2>2, <2>3
<1>10. CASE UNCHANGED <<callerVars, hcalls, hres, replied>>
  BY <1>10, Stutters DEF Outcome
<1>11. ASSUME NEW s \in Seqs,
              \/ WriterDrop(s) \/ DrainDrop(s) \/ Closes(s) \/ TimerFires(s) \/ TimerSignals(s)
              \/ RecvResponse(s) \/ FailHandler(s)
       PROVE  [Promise!Next]_<<outcomes, answers>>
  BY <1>10, <1>11 DEF WriterDrop, DrainDrop, Closes, CallerDropClose, WriterDropClose,
                      DrainDropClose, TimerFires, TimerSignals, RecvResponse, FailHandler
<1>12. CASE WriterMoves \/ ConnLost \/ LoopMoves
  BY <1>0, <1>10, <1>12 DEF Quiet
<1>13. CASE Stops \/ SendDone \/ ClearSession \/ ClearAsyncHandler
  BY <1>10, <1>13 DEF Stops, StopClient, CloseAndClean, SendDone, ClearSession, ClearAsyncHandler
<1> QED
  BY <1>1, <1>3, <1>4, <1>5, <1>6, <1>7, <1>8, <1>9, <1>10, <1>11, <1>12, <1>13, Cases
  DEF TimerStep, Drops, vars

-----------------------------------------------------------------------------
(* Theorems                                                                *)

\* Every variable keeps its type; a done channel never holds two messages, and the
\* peer's responses on the wire are never more than it has written.
THEOREM TypeCorrect == Spec => []TypeOK
<1>1. CallsInv => TypeOK
  BY DEF CallsInv
<1> QED
  BY InvHolds, <1>1, PTL

\* No done channel is closed twice or sent on after it was closed, in any write
\* mode and for any number of calls.
THEOREM NoPanicHolds == Spec => []NoPanic
<1>1. CallsInv => NoPanic
  BY DEF CallsInv, SessionInv, NoPanic
<1> QED
  BY InvHolds, <1>1, PTL

\* A call that has returned has no session left in sessionMap.
THEOREM NoSessionLeakHolds == Spec => []NoSessionLeak
<1>1. CallsInv => NoSessionLeak
  BY DEF CallsInv, SessionInv, NoSessionLeak
<1> QED
  BY InvHolds, <1>1, PTL

\* The handler of CallAsync is called at most once, and one that CallAsync accepted
\* is in somebody's hands until it is called, with the exceptions the property names.
THEOREM HandlerCalledOnceHolds == Spec => []HandlerCalledOnce
<1>1. CallsInv => HandlerCalledOnce
  BY DEF CallsInv, HandlerInv, HeldInv, Handling, Unregistered, HandlerCalledOnce
<1> QED
  BY InvHolds, <1>1, PTL

\* Call and CallAsync implement RpcPromise: a call gets one outcome and keeps it,
\* and a response only if the peer answered that very call, in every write mode and
\* whatever happens to the conn.
THEOREM KeepsPromiseHolds == Spec => KeepsPromise
<1>1. Init => Promise!Init
  <2> SUFFICES ASSUME Init PROVE Promise!Init
    OBVIOUS
  <2>1. \A s \in Seqs : s > seq
    BY DEF Init, Seqs
  <2>2. \A s \in Seqs : Outcome(s) = "none" /\ ~(replied[s] > 0)
    BY <2>1 DEF Init, Outcome
  <2> QED
    BY <2>2 DEF Promise!Init
<1>2. CallsInv /\ [Next]_vars => [Promise!Next]_<<outcomes, answers>>
  BY PromiseStep
<1> QED
  BY InvHolds, <1>1, <1>2, PTL DEF Spec, KeepsPromise, Promise!Spec, outcomes, answers

=============================================================================
