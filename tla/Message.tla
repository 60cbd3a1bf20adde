------------------------------- MODULE Message -------------------------------
(***************************************************************************)
(* Messages as bytes (proto.go): how newMessage and newWritevMessage lay    *)
(* them out in pooled buffers, how the send loop merges and writes them,     *)
(* how Recv reads them again, and when their buffers go back to the pools    *)
(* (EnablePool), which both directions of all Clients share.  The            *)
(* application has set HandleMessageDropped, so that dropped messages are     *)
(* done with as well.                                                        *)
(*                                                                         *)
(* A cell stands for a byte, except that the body length and the sequence    *)
(* number, which are written and read as a whole, take one cell each.        *)
(***************************************************************************)
EXTENDS Allocator

CONSTANTS
    Metas,            \* Metas[k]: the k-th message's cmd, err, async, local, eof, bits
    Method,           \* the cells of a method name
    Values,           \* the values to send; "bytes" is a slice of the caller
    CoderCounts,      \* how many MessageCoders there may be
    SendBufferSize,   \* the sendBufferSize of the Handler
    MaxBodyLen,       \* its maxBodyLen
    MaxSends          \* bound on the messages sent

ASSUME MessageAssumption ==
    /\ Method # <<>> /\ CoderCounts \subseteq Nat /\ SendBufferSize \in Nat
    /\ MaxBodyLen \in Nat /\ MaxSends \in Nat

Msgs == 1..MaxSends
CallerBytes == {<<10>>, <<11>>}    \* what the slice of the caller may hold

-----------------------------------------------------------------------------
(* The header.  b is a buffer that begins with one.                        *)

BodyLenAt == 1
ReservedAt == 2
CmdAt == 3
FlagAt == 4
MethodLenAt == 5
SeqAt == 6
HeadLen == 6

ErrorBit == 0     \* HeaderFlagMaskError
AsyncBit == 1     \* HeaderFlagMaskAsync
EOFBit == 6       \* HeaderStreamEOFBitIndex
LocalBit == 7     \* HeaderStreamLocalBitIndex

IsBitSet(byte, i) == (byte \div 2^i) % 2 = 1
WithBit(byte, i, on) ==
    IF IsBitSet(byte, i) = on THEN byte ELSE IF on THEN byte + 2^i ELSE byte - 2^i

Cmd(b) == b[CmdAt] % 2^EOFBit
SetCmd(b, cmd) == [b EXCEPT ![CmdAt] = (@ \div 2^EOFBit) * 2^EOFBit + cmd]
SetBit(b, at, i, on) == [b EXCEPT ![at] = WithBit(@, i, on)]
SetFlagBit(b, i, on) == IF i \in 0..7 THEN SetBit(b, ReservedAt, i, on) ELSE b
SetMethodLen(b, n) == [b EXCEPT ![MethodLenAt] = n % 256]
SetBodyLen(b, n) == [b EXCEPT ![BodyLenAt] = n]
SetSeq(b, n) == [b EXCEPT ![SeqAt] = n]
MethodOf(b) == SubSeq(b, HeadLen + 1, HeadLen + b[MethodLenAt])
Data(b) == SubSeq(b, HeadLen + b[MethodLenAt] + 1, Len(b))

ResetAttrs_Never(b) == b
ResetAttrs(b) == [i \in DOMAIN b |-> IF i \in ReservedAt..MethodLenAt THEN 0 ELSE b[i]]

\* What newMessage and newWritevMessage write over the old content b of a buffer
NewHeader(b, meta, bodyLen, seq) ==
    LET attrs == SetBit(SetBit(SetCmd(ResetAttrs(b), meta.cmd),
                               FlagAt, ErrorBit, meta.err), FlagAt, AsyncBit, meta.async)
    IN  SetSeq(SetBodyLen(SetMethodLen(attrs, Len(Method)), bodyLen), seq)

\* What the getters say about the message in b
Meaning(b) ==
    [meta   |-> [cmd |-> Cmd(b),
                 err |-> IsBitSet(b[FlagAt], ErrorBit), async |-> IsBitSet(b[FlagAt], AsyncBit),
                 local |-> IsBitSet(b[CmdAt], LocalBit), eof |-> IsBitSet(b[CmdAt], EOFBit),
                 bits |-> {i \in 0..7 : IsBitSet(b[ReservedAt], i)}],
     method |-> MethodOf(b), data |-> Data(b), seq |-> b[SeqAt]]

-----------------------------------------------------------------------------

VARIABLES
    coders,   \* how many MessageCoders the Handler has
    mode,     \* "queue" for AsyncWrite with BatchSend, "writev" for AsyncWritev
    alloc,    \* DefaultAllocator
    caller,   \* what the slice of the caller holds now
    msg,      \* msg[k]: the k-th Message sent
    queue,    \* chSend, or writevMsgs
    batch,    \* batchSendLoop: buffer, the messages left of chLen, and in its
              \* first round whether the second message is still to be taken
    loop,     \* is the send loop running?
    wire,     \* the bytes on the conn
    up,       \* is the conn usable?
    rx,       \* the Buffer of the Message Recv returned
    held,     \* the Messages the application retained
    asked,    \* what was sent, in order
    got       \* what was received, in order

vars == <<coders, mode, alloc, caller, msg, queue, batch, loop, wire, up, rx, held, asked, got>>

NoBody == [kind |-> "none", slice |-> NoSlice, data |-> <<>>]
EmptyMessage == [ref |-> -1, buffer |-> NoSlice, body |-> NoBody]
Idle(s) == [buffer |-> s, left |-> 0, second |-> FALSE]

Init ==
    /\ coders \in CoderCounts
    /\ mode \in {"queue", "writev"}
    /\ \E r \in Malloc(NewAllocator, SmallSize) :
           IF mode = "queue"
           THEN alloc = r.a /\ batch = Idle(Resized(r.s, 0))
           ELSE alloc = NewAllocator /\ batch = Idle(NoSlice)
    /\ caller = <<10>>
    /\ msg = [k \in Msgs |-> EmptyMessage]
    /\ queue = <<>> /\ loop = TRUE /\ wire = <<>> /\ up = TRUE
    /\ rx = NoSlice /\ held = {} /\ asked = <<>> /\ got = <<>>

\* ValueToBytes; the text is a string, an error or what a codec returned.
ValueToBytes(v) == CASE v = "nil" -> <<>> [] v = "bytes" -> caller [] v = "text" -> <<12, 13>>

\* newWritevMessage: a slice that belongs to the caller is copied.
BodyKind_NotCopied(v) == IF v = "bytes" THEN "caller" ELSE "owned"
BodyKind(v) == IF v = "bytes" THEN "pooled" ELSE "owned"

BodyOf(k) ==
    LET b == msg[k].body
    IN  CASE b.kind = "pooled" -> Content(alloc, b.slice)
          [] b.kind = "caller" -> caller
          [] OTHER -> b.data
BytesOf(k) == Content(alloc, msg[k].buffer) \o BodyOf(k)

Bodies(a, v) ==
    LET data == ValueToBytes(v)
    IN  IF data = <<>> THEN {[a |-> a, body |-> NoBody]}
        ELSE IF BodyKind(v) = "pooled"
        THEN {[a |-> Copy(r.a, r.s, 0, data),
               body |-> [kind |-> "pooled", slice |-> r.s, data |-> <<>>]] :
                  r \in Malloc(a, Len(data))}
        ELSE {[a |-> a, body |-> [kind |-> BodyKind(v), slice |-> NoSlice, data |-> data]]}

\* The MessageCoders of the application: the i-th appends a cell of its own with
\* Realloc and removes it again.
CoderCell(i) == 100 + i
Encoded(a, s) ==
    LET encode(rs, i) ==
            UNION {{[a |-> Copy(n.a, n.s, 0, SetBodyLen(Append(Content(r.a, r.s), CoderCell(i)),
                                                        Content(r.a, r.s)[BodyLenAt] + 1)),
                     s |-> n.s] : n \in Realloc(r.a, r.s, r.s.len + 1)} : r \in rs}
    IN  FoldLeft(encode, {[a |-> a, s |-> s]}, [i \in 1..coders |-> i])

DecodeOrder_Forward == [i \in 1..coders |-> i]
DecodeOrder == [i \in 1..coders |-> coders + 1 - i]
Decoded(b) ==
    LET decode(c, i) ==
            IF Last(c) = CoderCell(i) THEN SetBodyLen(Front(c), c[BodyLenAt] - 1) ELSE c
    IN  FoldLeft(decode, b, DecodeOrder)

\* newRequestMessage and the setters of Stream, then the queue: with writev the
\* data is kept apart unless there are coders, which run before it is queued.
Send(k, v) ==
    LET meta  == Metas[k]
        data  == ValueToBytes(v)
        apart == mode = "writev" /\ coders = 0
        inBuf == IF apart THEN Method ELSE Method \o data
    IN
    /\ k = Len(asked) + 1 /\ loop
    /\ \E r \in Malloc(alloc, HeadLen + Len(inBuf)) :
       \E b \in IF apart THEN Bodies(r.a, v) ELSE {[a |-> r.a, body |-> NoBody]} :
          LET head   == NewHeader(SubSeq(Content(r.a, r.s), 1, HeadLen), meta,
                                  Len(Method) + Len(data), k)
              stream == SetBit(SetBit(head, CmdAt, LocalBit, meta.local), CmdAt, EOFBit, meta.eof)
              marked == FoldLeft(LAMBDA h, i : SetFlagBit(h, i, TRUE), stream, SetToSeq(meta.bits))
              filled == Copy(b.a, r.s, 0, marked \o inBuf)
          IN  \E e \in IF mode = "writev" THEN Encoded(filled, r.s)
                       ELSE {[a |-> filled, s |-> r.s]} :
                 /\ alloc' = e.a
                 /\ msg' = [msg EXCEPT ![k] = [ref |-> 0, buffer |-> e.s, body |-> b.body]]
    /\ queue' = Append(queue, k)
    /\ asked' = Append(asked, [meta |-> meta, method |-> Method, data |-> data, seq |-> k])
    /\ UNCHANGED <<coders, mode, caller, batch, loop, wire, up, rx, held, got>>

\* The caller has its slice back once the call that sent it returned.
CallerWrites ==
    /\ \E bytes \in CallerBytes \ {caller} : caller' = bytes
    /\ UNCHANGED <<coders, mode, alloc, msg, queue, batch, loop, wire, up, rx, held, asked, got>>

-----------------------------------------------------------------------------
(* Message.Release: the buffers are freed when the count drops below 0.    *)

Freed(a, m) ==
    LET b == Free(a, m.buffer) IN IF m.body.kind = "pooled" THEN Free(b, m.body.slice) ELSE b

LastRef_IgnoresRetain(m) == m.ref >= 0
LastRef(m) == m.ref = 0

ReleaseIn(a, ms, k) ==
    IF LastRef(ms[k])
    THEN [a |-> Freed(a, ms[k]), msg |-> [ms EXCEPT ![k] = EmptyMessage]]
    ELSE [a |-> a, msg |-> [ms EXCEPT ![k].ref = @ - 1]]

\* OnMessageDone, as EnablePool sets it, for each of the messages ks
DoneWith(a, ms, ks) ==
    LET r == FoldLeft(LAMBDA x, k : ReleaseIn(x.a, x.msg, k), [a |-> a, msg |-> ms], ks)
    IN  alloc' = r.a /\ msg' = r.msg

\* The application keeps a Message it pushes: Retain, and Release later.
Retain(k) ==
    /\ msg[k] # EmptyMessage /\ held = {}
    /\ held' = {k}
    /\ msg' = [msg EXCEPT ![k].ref = @ + 1]
    /\ UNCHANGED <<coders, mode, alloc, caller, queue, batch, loop, wire, up, rx, asked, got>>

Release(k) ==
    /\ k \in held
    /\ held' = {}
    /\ DoneWith(alloc, msg, <<k>>)
    /\ UNCHANGED <<coders, mode, caller, queue, batch, loop, wire, up, rx, asked, got>>

-----------------------------------------------------------------------------
(* The send loops                                                          *)

Write(bytes) == wire' = IF up THEN wire \o bytes ELSE wire
InBatch == batch.buffer.len > 0

\* batchSendLoop, one message: nothing is queued behind it, it is written itself.
WriteOne ==
    /\ mode = "queue" /\ loop /\ ~InBatch
    /\ queue # <<>> /\ (Len(queue) = 1 \/ SendBufferSize = 0)
    /\ LET k == Head(queue) IN
       \E e \in Encoded(alloc, msg[k].buffer) :
          /\ Write(Content(e.a, e.s))
          /\ DoneWith(e.a, [msg EXCEPT ![k].buffer = e.s], <<k>>)
    /\ queue' = Tail(queue)
    /\ UNCHANGED <<coders, mode, caller, batch, loop, up, rx, held, asked, got>>

\* Several are merged: of those queued behind the first, the second is always
\* taken, the others while the buffer is not full.
Merge ==
    LET k == Head(queue) IN
    /\ mode = "queue" /\ loop /\ queue # <<>>
    /\ IF InBatch THEN batch.left > 0 /\ (batch.second \/ batch.buffer.len < SendBufferSize)
                  ELSE Len(queue) > 1 /\ SendBufferSize > 0
    /\ \E e \in Encoded(alloc, msg[k].buffer) :
       \E r \in AppendCells(e.a, batch.buffer, Content(e.a, e.s)) :
          /\ DoneWith(r.a, [msg EXCEPT ![k].buffer = e.s], <<k>>)
          /\ batch' = [buffer |-> r.s, second |-> ~InBatch,
                       left |-> IF InBatch THEN batch.left - 1 ELSE Len(queue) - 1]
    /\ queue' = Tail(queue)
    /\ UNCHANGED <<coders, mode, caller, loop, wire, up, rx, held, asked, got>>

Flush ==
    /\ mode = "queue" /\ loop /\ InBatch /\ ~batch.second
    /\ batch.left = 0 \/ batch.buffer.len >= SendBufferSize
    /\ Write(Content(alloc, batch.buffer))
    /\ batch' = Idle(Resized(batch.buffer, 0))
    /\ UNCHANGED <<coders, mode, alloc, caller, msg, queue, loop, up, rx, held, asked, got>>

\* writevLoop: the whole queue is written with one writev.
Writev ==
    /\ mode = "writev" /\ queue # <<>>
    /\ Write(FlattenSeq([i \in DOMAIN queue |-> BytesOf(queue[i])]))
    /\ DoneWith(alloc, msg, queue)
    /\ queue' = <<>>
    /\ UNCHANGED <<coders, mode, caller, batch, loop, up, rx, held, asked, got>>

\* The Client stops: what is queued is done with, and batchSendLoop frees the
\* buffer that it has now.
BatchBuffer_FirstOne == [buf |-> 1, len |-> 0]
BatchBuffer == batch.buffer

Stop ==
    /\ loop /\ ~InBatch
    /\ loop' = FALSE
    /\ DoneWith(IF mode = "queue" THEN Free(alloc, BatchBuffer) ELSE alloc, msg, queue)
    /\ queue' = <<>>
    /\ batch' = Idle(NoSlice)
    /\ UNCHANGED <<coders, mode, caller, wire, up, rx, held, asked, got>>

-----------------------------------------------------------------------------
(* The read goroutine of the peer, in the same process                     *)

\* Recv: the body length is read first; a too long body breaks the conn.
TooLong_OrEqual(n) == n >= MaxBodyLen
TooLong(n) == n > MaxBodyLen

Recv ==
    /\ rx = NoSlice /\ up /\ wire # <<>>
    /\ LET n == wire[BodyLenAt] IN
       IF TooLong(n)
       THEN up' = FALSE /\ wire' = <<>> /\ UNCHANGED <<alloc, rx>>
       ELSE /\ \E r \in Malloc(alloc, HeadLen + n) :
                   /\ alloc' = Copy(r.a, r.s, 0, SubSeq(wire, 1, HeadLen + n))
                   /\ rx' = r.s
            /\ wire' = SubSeq(wire, HeadLen + n + 1, Len(wire))
            /\ UNCHANGED up
    /\ UNCHANGED <<coders, mode, caller, msg, queue, batch, loop, held, asked, got>>

\* OnMessage and the handlers, until the Message is released
Consume ==
    /\ rx # NoSlice
    /\ LET b == Decoded(Content(alloc, rx))
       IN  got' = IF b[MethodLenAt] \in 1..(Len(b) - HeadLen) THEN Append(got, Meaning(b)) ELSE got
    /\ alloc' = Free(alloc, rx)
    /\ rx' = NoSlice
    /\ UNCHANGED <<coders, mode, caller, msg, queue, batch, loop, wire, up, held, asked>>

Next ==
    \/ \E k \in Msgs, v \in Values : Send(k, v)
    \/ CallerWrites
    \/ \E k \in Msgs : Retain(k) \/ Release(k)
    \/ WriteOne \/ Merge \/ Flush \/ Writev \/ Stop
    \/ Recv \/ Consume

Spec == Init /\ [][Next]_vars

-----------------------------------------------------------------------------

\* The slices in use: by the Messages, the send loop and the receiver
InUse ==
    {msg[k].buffer : k \in {k \in Msgs : msg[k] # EmptyMessage}}
    \cup {msg[k].body.slice : k \in {k \in Msgs : msg[k].body.kind = "pooled"}}
    \cup {s \in {batch.buffer, rx} : s.buf # 0}

TypeOK ==
    /\ Len(alloc.cells) \in 0..MaxBuffers
    /\ alloc.small \cup alloc.big \cup alloc.tracked \subseteq DOMAIN alloc.cells
    /\ \A k \in Msgs : msg[k].ref \in -1..1 /\ (msg[k].ref = -1 <=> msg[k] = EmptyMessage)
    /\ \A s \in InUse : s.len \in 0..Cap(alloc, s)
    /\ Len(got) <= Len(asked)

\* BufferPool with Message.Release and batchSendLoop: a buffer is tracked as
\* allocated exactly while one slice of a live Message, of the send loop or of
\* the receiver is on it, so none leaks, none is freed early or twice, and none
\* has two users.  Those in the pools are not in use, and smallPool has only
\* buffers smaller than bigSize and bigPool only others, however they grew.
BuffersHaveOneUser ==
    /\ ~alloc.panic /\ ~alloc.twice
    /\ alloc.tracked = {s.buf : s \in InUse}
    /\ \A s, t \in InUse : s.buf = t.buf => s = t
    /\ alloc.small \cap alloc.big = {}
    /\ (alloc.small \cup alloc.big) \cap alloc.tracked = {}
    /\ \A b \in alloc.small : Len(alloc.cells[b]) >= SmallSize /\ PoolOf(Len(alloc.cells[b])) = "small"
    /\ \A b \in alloc.big : Len(alloc.cells[b]) >= BigSize

\* newMessage, newWritevMessage, the coders, the send loops and Recv: the peer
\* gets what was sent, in order, with every attribute, although buffers are used
\* again without being cleared and the caller changes its slice after the call;
\* only a body longer than MaxBodyLen ends this.
ReceivedAsSent ==
    /\ IsPrefix(got, asked)
    /\ ~up => LET next == asked[Len(got) + 1]
              IN  Len(next.method) + Len(next.data) + coders > MaxBodyLen

\* Message.Retain: a Message the application retained keeps its content until
\* the application releases it, also after it was sent.
RetainedIntact ==
    \A k \in held :
        msg[k] # EmptyMessage /\ (coders = 0 => Meaning(BytesOf(k)) = asked[k])

=============================================================================
