------------------------------- MODULE Stream --------------------------------
(***************************************************************************)
(* A Stream created by NewStream on one Client ("cli") and the Stream its   *)
(* messages open on the peer ("svr"): stream.go, the Stream maps of         *)
(* client.go, and the CmdStream part of Handler.OnMessage.                  *)
(*                                                                         *)
(* Stream 0 is the local one.  Streams 1, 2, ... are those the peer opens   *)
(* for the same id, each with a call of the stream handler; there should be *)
(* one.  A message has a body (0 is the empty one) and the EOF flag; what   *)
(* is pushed is written in that order.  Stream handlers run asynchronously. *)
(***************************************************************************)
EXTENDS Naturals, Sequences, FiniteSets

CONSTANTS
    Goros,      \* goroutines that may use one Stream to send
    Ops,        \* what they call: "Send", "SendAndClose", "CloseSend"
    QueueSize,  \* Handler.StreamQueueSize()
    MaxBody,    \* bound on the messages with a body sent on one Stream, in calm
    MaxFaultyBody, \* ... and otherwise
    MaxStreams, \* bound on the Streams the peer opens
    MaxBreaks   \* bound on how often the conn breaks

ASSUME StreamAssumption ==
    /\ "clear" \notin Goros
    /\ Ops \in SUBSET {"Send", "SendAndClose", "CloseSend"}
    /\ QueueSize \in Nat \ {0}
    /\ MaxBody \in Nat /\ MaxFaultyBody \in Nat /\ MaxStreams \in Nat \ {0} /\ MaxBreaks \in Nat

Streams == 0..MaxStreams
Sides == {"cli", "svr"}
Side(x) == IF x = 0 THEN "cli" ELSE "svr"
Peer(side) == IF side = "cli" THEN "svr" ELSE "cli"
None == MaxStreams + 1
Workers == Goros \cup {"clear"}

VARIABLES
    calm,         \* no break of the conn, no CloseRecv by the application and no
                  \* ctx that ends a send: chosen once
    stateRecv, stateSend,  \* the Streams whose receive or send half is closed
    closeCnt,     \* closeCnt[x]: stateCloseCnt
    chData,       \* chData[x]: the bodies queued for Recv
    chClosed,     \* the Streams whose chData is closed
    streamMap,    \* streamMap[side]: the Stream registered for the id, or None
    opened,       \* how many Streams the peer has opened
    dead,         \* the Streams of a server-role Client that has stopped
    wire,         \* wire[side]: messages on their way to side
    rpc, rcur,    \* recvLoop of each side, the Stream and message it handles
    pc, op,       \* pc[x][g], op[x][g]: goroutine g sending on x; g is one of
                  \* Goros, or the one of clearStream's CloseSend
    reconnecting, \* of the "cli" Client
    failing,      \* the sides whose recvLoop has yet to see that the conn broke
    breaks,
    sent, recvd,  \* sent[x], recvd[x]: the bodies sent on and received from x
    appClosed,    \* the Streams whose application called CloseRecv
    panicked      \* the Streams with a send on their closed chData

halfVars == <<stateRecv, stateSend, closeCnt>>
connVars == <<calm, reconnecting, failing, breaks>>
userVars == <<recvd, appClosed>>
vars == <<halfVars, chData, chClosed, streamMap, opened, dead, wire, rpc, rcur, pc, op,
          connVars, sent, userVars, panicked>>

NoMsg == [x |-> 0, body |-> 0, eof |-> FALSE, new |-> FALSE]

Init ==
    /\ calm \in BOOLEAN
    /\ stateRecv = {} /\ stateSend = {}
    /\ closeCnt = [x \in Streams |-> 0]
    /\ chData = [x \in Streams |-> <<>>]
    /\ chClosed = {}
    /\ streamMap = [side \in Sides |-> IF side = "cli" THEN 0 ELSE None]
    /\ opened = 0
    /\ dead = {}
    /\ wire = [side \in Sides |-> <<>>]
    /\ rpc = [side \in Sides |-> "read"]
    /\ rcur = [side \in Sides |-> NoMsg]
    /\ pc = [x \in Streams |-> [g \in Workers |-> "idle"]]
    /\ op = [x \in Streams |-> [g \in Workers |-> "none"]]
    /\ reconnecting = FALSE
    /\ failing = {}
    /\ breaks = 0
    /\ sent = [x \in Streams |-> <<>>]
    /\ recvd = [x \in Streams |-> <<>>]
    /\ appClosed = {}
    /\ panicked = {}

\* The Streams whose application code may run: the local one, and those whose
\* handler was called.
Starting == IF rcur["svr"].new THEN {opened} ELSE {}
Live == (0..opened) \ Starting

Up == ~reconnecting /\ failing = {}

-----------------------------------------------------------------------------
(* A definition whose name has an underscore is a mutation of the next one. *)

\* halfClose: the second half closed removes the Stream, by its id, unless the
\* Client has stopped.
BothClosed_Never(x) == FALSE
BothClosed(x) == closeCnt[x] + 1 = 2

HalfClose(x) ==
    /\ closeCnt' = [closeCnt EXCEPT ![x] = @ + 1]
    /\ streamMap' = [streamMap EXCEPT ![Side(x)] =
                        IF BothClosed(x) /\ x \notin dead THEN None ELSE @]

\* CloseRecv
CloseRecv(x) ==
    IF x \in stateRecv
    THEN UNCHANGED <<stateRecv, chClosed, closeCnt, streamMap>>
    ELSE /\ stateRecv' = stateRecv \cup {x}
         /\ chClosed' = chClosed \cup {x}
         /\ HalfClose(x)

-----------------------------------------------------------------------------
(* Sending                                                                 *)

\* checkStateAndSend looks at stateSend; CloseSendContext sets it and goes on
\* only if it was the first to.  CloseSend does so on a goroutine of its own.
MaySend_Unchecked(x) == TRUE
MaySend(x) == x \notin stateSend

BeginSend(x, g, o) ==
    /\ x \in Live /\ pc[x][g] = "idle"
    /\ o \in Ops
    /\ o # "CloseSend" => Len(sent[x]) < (IF calm THEN MaxBody ELSE MaxFaultyBody)
    /\ MaySend(x)
    /\ stateSend' = IF o = "CloseSend" THEN stateSend \cup {x} ELSE stateSend
    /\ op' = [op EXCEPT ![x][g] = o]
    /\ pc' = [pc EXCEPT ![x][g] = "send"]
    /\ UNCHANGED <<stateRecv, closeCnt, chData, chClosed, streamMap, opened, dead, wire, rpc,
                   rcur, connVars, sent, userVars, panicked>>

\* send: CheckState, then an EOF message closes the send half before it is
\* pushed.
CheckState(x) == x \notin dead /\ ~(x = 0 /\ reconnecting)

\* Where the call goes after send has returned
AfterSend(x, g) ==
    LET closes == op[x][g] = "CloseSend" IN
    /\ pc' = [pc EXCEPT ![x][g] = IF closes THEN "half" ELSE "idle"]
    /\ op' = [op EXCEPT ![x][g] = IF closes THEN @ ELSE "none"]

SendState(x, g) ==
    /\ pc[x][g] = "send"
    /\ IF ~CheckState(x)
       THEN AfterSend(x, g) /\ UNCHANGED <<stateSend, closeCnt, streamMap>>
       ELSE /\ UNCHANGED op
            /\ pc' = [pc EXCEPT ![x][g] = "push"]
            /\ IF op[x][g] = "SendAndClose" /\ x \notin stateSend
               THEN stateSend' = stateSend \cup {x} /\ HalfClose(x)
               ELSE UNCHANGED <<stateSend, closeCnt, streamMap>>
    /\ UNCHANGED <<stateRecv, chData, chClosed, opened, dead, wire, rpc, rcur, connVars, sent,
                   userVars, panicked>>

\* The message enters the send queue, which outlives a reconnect, or is lost
\* with the conn, with the stopped Client or by the end of ctx.
Queued(x) == x = 0 \/ (x \notin dead /\ Up)

Push(x, g) ==
    /\ pc[x][g] = "push"
    /\ LET body == IF op[x][g] = "CloseSend" THEN 0 ELSE Len(sent[x]) + 1
           m    == [body |-> body, eof |-> op[x][g] # "Send"]
       IN  \/ /\ Queued(x)
              /\ wire' = [wire EXCEPT ![Peer(Side(x))] = Append(@, m)]
              /\ sent' = IF body = 0 THEN sent ELSE [sent EXCEPT ![x] = Append(@, body)]
           \/ ~calm /\ UNCHANGED <<wire, sent>>
    /\ AfterSend(x, g)
    /\ UNCHANGED <<halfVars, chData, chClosed, streamMap, opened, dead, rpc, rcur, connVars,
                   userVars, panicked>>

\* CloseSendContext: halfClose, after the EOF message was pushed
CloseSendHalf_Both(x, g) ==
    /\ pc[x][g] = "half"
    /\ CloseRecv(x)
    /\ pc' = [pc EXCEPT ![x][g] = "idle"]
    /\ op' = [op EXCEPT ![x][g] = "none"]
    /\ UNCHANGED <<stateSend, chData, opened, dead, wire, rpc, rcur, connVars, sent, userVars,
                   panicked>>
CloseSendHalf(x, g) ==
    /\ pc[x][g] = "half"
    /\ HalfClose(x)
    /\ pc' = [pc EXCEPT ![x][g] = "idle"]
    /\ op' = [op EXCEPT ![x][g] = "none"]
    /\ UNCHANGED <<stateRecv, stateSend, chData, chClosed, opened, dead, wire, rpc, rcur,
                   connVars, sent, userVars, panicked>>

SendStep(x, g) == SendState(x, g) \/ Push(x, g) \/ CloseSendHalf(x, g)

-----------------------------------------------------------------------------
(* recvLoop and OnMessage                                                  *)

\* onMessage releases an empty body, and what comes after CloseRecv.
Wanted_NotEOF(x, m) == m.body # 0 /\ ~m.eof /\ x \notin stateRecv
Wanted(x, m) == m.body # 0 /\ x \notin stateRecv

\* getStreamAndPushMsg: an EOF message removes the Stream.  For an unknown one
\* the peer opens a Stream, and the creator's side drops the message.
OpensNew(side) == side = "svr" /\ streamMap[side] = None /\ opened < MaxStreams
Target(side) == IF OpensNew(side) THEN opened + 1 ELSE streamMap[side]

RecvMessage(side) ==
    /\ Up /\ rpc[side] = "read"
    /\ wire[side] # <<>>
    /\ wire' = [wire EXCEPT ![side] = Tail(@)]
    /\ LET m == Head(wire[side])
           x == Target(side)
       IN  /\ opened' = IF OpensNew(side) THEN opened + 1 ELSE opened
           /\ streamMap' = [streamMap EXCEPT ![side] =
                               IF OpensNew(side) THEN x ELSE IF m.eof THEN None ELSE @]
           /\ IF x = None
              THEN UNCHANGED <<rpc, rcur>>
              ELSE /\ rcur' = [rcur EXCEPT ![side] = [x |-> x, body |-> m.body, eof |-> m.eof,
                                                        new |-> OpensNew(side)]]
                   /\ rpc' = [rpc EXCEPT ![side] = IF Wanted(x, m) THEN "push" ELSE "eof"]
    /\ UNCHANGED <<halfVars, chData, chClosed, dead, pc, op, connVars, sent, userVars,
                   panicked>>

\* chData <- msg, which waits for room
PutData_DropsWhenFull(x, body) ==
    chData' = IF Len(chData[x]) < QueueSize THEN [chData EXCEPT ![x] = Append(@, body)]
                                            ELSE chData
PutData(x, body) ==
    /\ Len(chData[x]) < QueueSize
    /\ chData' = [chData EXCEPT ![x] = Append(@, body)]

\* onMessage: on a closed chData the send panics, and OnMessage recovers and ends
\* there.
PushData(side) ==
    /\ rpc[side] = "push"
    /\ LET x == rcur[side].x IN
          \/ /\ x \in chClosed
             /\ panicked' = panicked \cup {x}
             /\ rpc' = [rpc EXCEPT ![side] = "read"]
             /\ rcur' = [rcur EXCEPT ![side] = NoMsg]
             /\ UNCHANGED chData
          \/ /\ x \notin chClosed
             /\ PutData(x, rcur[side].body)
             /\ rpc' = [rpc EXCEPT ![side] = "eof"]
             /\ UNCHANGED <<panicked, rcur>>
    /\ UNCHANGED <<halfVars, chClosed, streamMap, opened, dead, wire, pc, op,
                   connVars, sent, userVars>>

PeerClosed_OnlyWhenDrained(x) ==
    IF chData[x] = <<>> THEN CloseRecv(x)
                        ELSE UNCHANGED <<stateRecv, chClosed, closeCnt, streamMap>>
PeerClosed(x) == CloseRecv(x)

\* if eof { stream.CloseRecv() }; a new Stream's handler is started.
HandleEOF(side) ==
    /\ rpc[side] = "eof"
    /\ IF rcur[side].eof
       THEN PeerClosed(rcur[side].x)
       ELSE UNCHANGED <<stateRecv, chClosed, closeCnt, streamMap>>
    /\ rpc' = [rpc EXCEPT ![side] = "read"]
    /\ rcur' = [rcur EXCEPT ![side] = NoMsg]
    /\ UNCHANGED <<stateSend, chData, opened, dead, wire, pc, op, connVars, sent,
                   userVars, panicked>>

LoopStep(side) == RecvMessage(side) \/ PushData(side) \/ HandleEOF(side)

-----------------------------------------------------------------------------
(* Receiving                                                               *)

\* Recv takes a queued message ...
RecvData(x) ==
    /\ x \in Live
    /\ chData[x] # <<>>
    /\ chData' = [chData EXCEPT ![x] = Tail(@)]
    /\ recvd' = [recvd EXCEPT ![x] = Append(@, Head(chData[x]))]
    /\ UNCHANGED <<halfVars, chClosed, streamMap, opened, dead, wire, rpc, rcur, pc, op,
                   connVars, sent, appClosed, panicked>>

\* ... and returns io.EOF once chData is closed and drained, where RecvContext,
\* which does not look whether chData is closed, uses a nil message.
RecvEOF(x) == x \in Live /\ x \in chClosed /\ chData[x] = <<>>

\* The application calls CloseRecv.
UserCloseRecv(x) ==
    /\ ~calm /\ x \in Live
    /\ x \notin stateRecv
    /\ CloseRecv(x)
    /\ appClosed' = appClosed \cup {x}
    /\ UNCHANGED <<stateSend, chData, opened, dead, wire, rpc, rcur, pc, op, connVars, sent,
                   recvd, panicked>>

-----------------------------------------------------------------------------
(* The conn breaks and is replaced                                         *)

\* What the server-role Client had queued is lost with it.  What is on its way
\* to it may be lost or still be in the send queue of the client-role one.
Break ==
    /\ ~calm /\ Up /\ breaks < MaxBreaks
    /\ breaks' = breaks + 1
    /\ failing' = Sides
    /\ wire' = [wire EXCEPT !["cli"] = <<>>]
    /\ UNCHANGED <<halfVars, chData, chClosed, streamMap, opened, dead, rpc, rcur, pc, op,
                   calm, reconnecting, sent, userVars, panicked>>

\* recvLoop of the server-role Client ends and stops it; the next conn has a
\* Client of its own.
ServerStops ==
    /\ "svr" \in failing /\ rpc["svr"] = "read"
    /\ failing' = failing \ {"svr"}
    /\ dead' = 1..opened
    /\ streamMap' = [streamMap EXCEPT !["svr"] = None]
    /\ UNCHANGED <<halfVars, chData, chClosed, opened, wire, rpc, rcur, pc, op, calm,
                   reconnecting, breaks, sent, userVars, panicked>>

\* recvLoop of the client-role Client sets reconnecting and calls clearStream,
\* which empties the map, has CloseSend run on a goroutine of its own and closes
\* the receive half.
ClearStream ==
    /\ "cli" \in failing /\ rpc["cli"] = "read"
    /\ failing' = failing \ {"cli"}
    /\ reconnecting' = TRUE
    /\ streamMap' = [streamMap EXCEPT !["cli"] = None]
    /\ IF streamMap["cli"] = 0
       THEN /\ op' = [op EXCEPT ![0]["clear"] = "CloseSend"]
            /\ pc' = [pc EXCEPT ![0]["clear"] = "closeSend"]
            /\ stateRecv' = stateRecv \cup {0}
            /\ chClosed' = chClosed \cup {0}
            /\ closeCnt' = [closeCnt EXCEPT ![0] = IF 0 \in stateRecv THEN @ ELSE @ + 1]
       ELSE UNCHANGED <<op, pc, stateRecv, chClosed, closeCnt>>
    /\ UNCHANGED <<stateSend, chData, opened, dead, wire, rpc, rcur, calm, breaks, sent,
                   userVars, panicked>>

\* The goroutine of clearStream's CloseSend gets to CloseSendContext.
ClearedCloseSend ==
    /\ pc[0]["clear"] = "closeSend"
    /\ stateSend' = stateSend \cup {0}
    /\ pc' = [pc EXCEPT ![0]["clear"] = IF 0 \in stateSend THEN "idle" ELSE "send"]
    /\ op' = [op EXCEPT ![0]["clear"] = IF 0 \in stateSend THEN "none" ELSE @]
    /\ UNCHANGED <<stateRecv, closeCnt, chData, chClosed, streamMap, opened, dead, wire, rpc,
                   rcur, connVars, sent, userVars, panicked>>

\* The new conn gets what the send loop has not yet taken from its queue.
Reconnect ==
    /\ reconnecting /\ failing = {}
    /\ reconnecting' = FALSE
    /\ \E k \in 1..(Len(wire["svr"]) + 1) :
          wire' = [wire EXCEPT !["svr"] = SubSeq(@, k, Len(@))]
    /\ UNCHANGED <<halfVars, chData, chClosed, streamMap, opened, dead, rpc, rcur, pc, op,
                   calm, failing, breaks, sent, userVars, panicked>>

-----------------------------------------------------------------------------
Next ==
    \/ \E x \in Streams :
          \/ \E g \in Workers : SendStep(x, g)
          \/ \E g \in Goros, o \in Ops : BeginSend(x, g, o)
          \/ RecvData(x) \/ UserCloseRecv(x)
    \/ \E side \in Sides : LoopStep(side)
    \/ Break \/ ServerStops \/ ClearStream \/ ClearedCloseSend \/ Reconnect

Spec == Init /\ [][Next]_vars

\* The loops run, a call of send completes, and the application keeps calling
\* Recv.
FairSpec ==
    /\ Spec
    /\ \A side \in Sides : WF_vars(LoopStep(side))
    /\ \A x \in Streams :
          /\ WF_vars(RecvData(x))
          /\ \A g \in Workers : WF_vars(SendStep(x, g))

-----------------------------------------------------------------------------
(* Properties                                                              *)

Bodies == 1..(MaxBody + Cardinality(Goros))

\* The type invariant
TypeOK ==
    /\ stateRecv \in SUBSET Streams /\ stateSend \in SUBSET Streams
    /\ closeCnt \in [Streams -> 0..2]
    /\ chClosed \in SUBSET Streams
    /\ streamMap \in [Sides -> Streams \cup {None}]
    /\ opened \in 0..MaxStreams
    /\ dead \in SUBSET Streams
    /\ \A x \in Streams : /\ Len(chData[x]) <= QueueSize
                          /\ \A i \in DOMAIN chData[x] : chData[x][i] \in Bodies
    /\ rpc \in [Sides -> {"read", "push", "eof"}]
    /\ reconnecting \in BOOLEAN /\ failing \in SUBSET Sides
    /\ appClosed \in SUBSET Streams /\ panicked \in SUBSET Streams

StartsWith(s, t) == Len(t) <= Len(s) /\ \A i \in 1..Len(t) : s[i] = t[i]

\* What one side receives is what the other sent, in order, from the start and
\* without gaps, with a single Stream on the peer, and Recv returns io.EOF only
\* after all that the peer sent before closing its send half, unless this side
\* called CloseRecv or lost the conn.  Over a reconnect there may be gaps, but
\* nothing is received twice or out of order.
InOrder ==
    /\ opened <= 1 /\ breaks = 0 =>
          \A x \in {0, 1} :
              /\ StartsWith(sent[1 - x], recvd[x])
              /\ RecvEOF(x) /\ x \notin appClosed => recvd[x] = sent[1 - x] /\ 1 - x \in stateSend
    /\ \A x \in 1..opened : \A i, j \in DOMAIN recvd[x] : i < j => recvd[x][i] < recvd[x][j]

\* A Stream with both halves closed is not registered any more.
NoStreamLeak == \A x \in Streams : closeCnt[x] = 2 => streamMap[Side(x)] # x

\* The read loop sends on a closed chData, a panic, only if the application called
\* CloseRecv while messages were arriving: an EOF from the peer and clearStream
\* close the half in the read loop itself.
PanicNeedsCloseRecv == panicked \subseteq appClosed

\* HandleStream: the handler "is called when the peer sends the first message of
\* a new Stream", so once for a Stream, in calm.
HandlerOncePerStream == calm => opened <= 1

\* Whatever is sent is received in the end, if the application keeps receiving,
\* and a send half that was closed ends the peer's Recv.
AllDelivered ==
    calm => /\ <>[](recvd[1] = sent[0] /\ (opened = 1 => recvd[0] = sent[1]))
            /\ \A x \in {0, 1} : x \in stateSend ~> 1 - x \in chClosed

-----------------------------------------------------------------------------
(* What the documentation says and the code does not keep: the README gives
   the constants under which TLC shows it.                                 *)

\* HandlerOncePerStream, also over a reconnect and after CloseRecv
NeverReopened == opened <= 1

\* recvLoop never sends on a closed chData: "messages arriving after CloseRecv
\* are released".
NoSendOnClosed == panicked = {}

\* "the Stream is removed from the Client once both are closed", not before.
RemovedWhenBothClosed == streamMap["cli"] = None /\ ~reconnecting => closeCnt[0] = 2

=============================================================================
