------------------------------ MODULE Dispatch ------------------------------
(***************************************************************************)
(* How received requests and notifies are served: the part of               *)
(* handler.OnMessage that finds the route of a message, and the Context      *)
(* (context.go) that carries it through the chain of callbacks, on the       *)
(* Client's read goroutine or on one of AsyncExecute, from and back to the   *)
(* pool of Contexts.                                                         *)
(*                                                                         *)
(* Handlers are set up first (HandlerConfig), then messages arrive.  What a  *)
(* callback does between two calls of Next is one step: it may write a       *)
(* response, Abort, and then call Next, return or panic.                     *)
(***************************************************************************)
EXTENDS HandlerConfig, FiniteSets

CONSTANTS
    Unknown,     \* a method without handler
    MaxMsgs,     \* bound on the messages received
    MaxNexts,    \* bound on the calls of Next one callback makes itself
    MaxWrites    \* bound on the responses written to one message

ASSUME DispatchAssumption ==
    /\ Unknown \notin Routes
    /\ MaxMsgs \in Nat /\ MaxNexts \in Nat /\ MaxWrites \in Nat

Msgs == 1..MaxMsgs
Ctxs == 1..MaxMsgs        \* as many Contexts as messages are ever in use
Reader == 0               \* the read goroutine; goroutine m > 0 is message m's
MaxInt == MaxSetup + 1    \* math.MaxInt: more than any chain is long

VARIABLES
    serving,   \* the Handler in use, or none while Handlers are set up
    received,  \* how many messages arrived
    msg,       \* msg[m]: its command and method, and the goroutine it is run on
    state,     \* state[m]: "none", "queued", "run", "done" or "panicked"
    ctxOf,     \* ctxOf[m]: its Context, in the hands of its goroutine
    ctx,       \* ctx[c]: the fields message, index and handlers of a Context
    pooled,    \* pooled[c]: how often c is in the pool
    stack,     \* stack[m]: the callbacks that were entered and did not return
    entered,   \* entered[m]: the callbacks that were entered, in order
    aborted,   \* the messages for which Abort was called
    out        \* the responses: who wrote them, and to which message

dispatchVars == <<serving, received, msg, state, ctxOf, ctx, pooled, stack,
                  entered, aborted, out>>
vars == <<configVars, dispatchVars>>

NoHandler == "no handler"
EmptyContext == [message |-> 0, index |-> 0, handlers |-> <<>>]

Init ==
    /\ ConfigInit
    /\ serving = NoHandler
    /\ received = 0
    /\ msg = [m \in Msgs |-> [cmd |-> "none", method |-> NotFound, on |-> Reader]]
    /\ state = [m \in Msgs |-> "none"]
    /\ ctxOf = [m \in Msgs |-> 0]
    /\ ctx = [c \in Ctxs |-> EmptyContext]
    /\ pooled = [c \in Ctxs |-> 1]
    /\ stack = [m \in Msgs |-> <<>>]
    /\ entered = [m \in Msgs |-> <<>>]
    /\ aborted = {}
    /\ out = {}

\* The Handlers are set up; a Client uses one of them from now on.  Since a clone
\* has the chains documented for it like any other Handler (ChainsAsDocumented),
\* the one to serve is bounded to be the only one.
Serve(h) ==
    /\ serving = NoHandler /\ made = {h}
    /\ serving' = h
    /\ UNCHANGED <<configVars, received, msg, state, ctxOf, ctx, pooled, stack,
                   entered, aborted, out>>

Busy(m) == state[m] \in {"queued", "run"}    \* its goroutine has its Context
ReaderFree == \A m \in Msgs : Busy(m) => msg[m].on # Reader

-----------------------------------------------------------------------------
(* The Context                                                             *)

\* Release: the fields are cleared and the Context goes back to the pool.
Cleared(c) == EmptyContext

Release(c) ==
    /\ ctx' = [ctx EXCEPT ![c] = Cleared(c)]
    /\ pooled' = [pooled EXCEPT ![c] = @ + 1]

\* newContext sets all fields but index.
NewContext(c, m, handlers) ==
    [ctx EXCEPT ![c].message = m, ![c].handlers = handlers]

\* What is left of the pool once OnMessage returned: an asynchronous chain has
\* its Context until it is done.
PoolAfter_DoneTooEarly(c, async) == IF async THEN pooled ELSE [pooled EXCEPT ![c] = @ - 1]
PoolAfter(c, async) == [pooled EXCEPT ![c] = @ - 1]

\* OnMessage, CmdRequest and CmdNotify: the route of the method, run where it
\* says, or else that of "", run on the read goroutine, or else nothing.
OnMessage(m, cmd, method) ==
    LET rs    == RoutesOf(serving)
        found == method \in DOMAIN rs
        r     == rs[IF found THEN method ELSE NotFound]
        async == found /\ r.async
    IN
    /\ serving # NoHandler /\ m = received + 1 /\ ReaderFree
    /\ received' = m
    /\ msg' = [msg EXCEPT ![m] = [cmd |-> cmd, method |-> method,
                                  on |-> IF found /\ r.async THEN m ELSE Reader]]
    /\ IF ~found /\ NotFound \notin DOMAIN rs
       THEN UNCHANGED <<state, ctxOf, ctx, pooled>>
       ELSE \E c \in Ctxs :
                /\ pooled[c] > 0
                /\ \A d \in Ctxs : pooled[d] > 0 => c <= d    \* which one is no matter
                /\ ctxOf' = [ctxOf EXCEPT ![m] = c]
                /\ ctx' = NewContext(c, m, r.chain)
                /\ pooled' = PoolAfter(c, async)
                /\ state' = [state EXCEPT ![m] = "queued"]
    /\ UNCHANGED <<configVars, serving, stack, entered, aborted, out>>

\* The stack without the callbacks that have returned from their last Next
Unwind(frames) ==
    LET open == {i \in DOMAIN frames : frames[i].in = "body"}
    IN  IF open = {} THEN <<>> ELSE SubSeq(frames, 1, CHOOSE i \in open : \A j \in open : j <= i)

\* Next, on a Context whose index is i, with frames on the stack: the callback
\* at index is entered, if there is one.
Advanced_Kept(i) == i
Advanced(i) == i + 1

NextCallback(m, frames, i) ==
    LET c == ctxOf[m] IN
    IF i < Len(ctx[c].handlers)
    THEN LET cb == ctx[c].handlers[i + 1] IN
         /\ ctx' = [ctx EXCEPT ![c].index = Advanced(i)]
         /\ entered' = [entered EXCEPT ![m] = Append(@, cb)]
         /\ stack' = [stack EXCEPT ![m] = Append(frames, [cb |-> cb, in |-> "body", nexts |-> 0])]
    ELSE /\ ctx' = [ctx EXCEPT ![c].index = i]
         /\ stack' = [stack EXCEPT ![m] = Unwind(frames)]
         /\ UNCHANGED entered

\* ctx.Next() of OnMessage, on the goroutine of m
Begin(m) ==
    /\ state[m] = "queued"
    /\ state' = [state EXCEPT ![m] = "run"]
    /\ NextCallback(m, <<>>, ctx[ctxOf[m]].index)
    /\ UNCHANGED <<configVars, serving, received, msg, ctxOf, pooled, aborted, out>>

\* What the callback on top of the stack does before its next call of Next: it
\* writes a response or not, and calls Abort or not.  The default callback of
\* unknown methods writes its error.
Written(m) == Cardinality({r \in out : r.by = m})

\* Context.write and writeDirectly: a notify has no response.
Writable_Always(c) == TRUE
Writable(c) == msg[ctx[c].message].cmd = "request"

Write(m, what) ==
    LET c == ctxOf[m] IN
    out' = IF what = "nothing" \/ ~Writable(c) THEN out
           ELSE out \cup {[by |-> m, to |-> ctx[c].message, what |-> what]}

Index_NotAborted(m, abort) == ctx[ctxOf[m]].index
Index(m, abort) == IF abort THEN MaxInt ELSE ctx[ctxOf[m]].index

Top(m) == Last(stack[m])
SegmentsOf(m) ==
    IF Top(m).cb = 0 THEN {<<"error", FALSE>>}
    ELSE (IF Written(m) < MaxWrites THEN {"nothing", "value"} ELSE {"nothing"}) \X BOOLEAN

Segment(m, what, abort) ==
    /\ state[m] = "run" /\ stack[m] # <<>>
    /\ <<what, abort>> \in SegmentsOf(m)
    /\ Write(m, what)
    /\ aborted' = IF abort THEN aborted \cup {m} ELSE aborted
    /\ UNCHANGED <<configVars, serving, received, msg, ctxOf, pooled>>

\* The callback calls Next itself.
CallsNext(m, what, abort) ==
    /\ Segment(m, what, abort)
    /\ Top(m).cb # 0 /\ Top(m).nexts < MaxNexts
    /\ NextCallback(m, Append(Front(stack[m]), [Top(m) EXCEPT !.nexts = @ + 1]), Index(m, abort))
    /\ UNCHANGED state

\* It returns, and what Use or handle wrapped around it calls Next.
Returns(m, what, abort) ==
    /\ Segment(m, what, abort)
    /\ NextCallback(m, Append(Front(stack[m]), [Top(m) EXCEPT !.in = "tail"]), Index(m, abort))
    /\ UNCHANGED state

\* It panics: the recover of OnMessage or of the goroutine ends the chain, and
\* OnContextDone is not called.
Panics(m, what) ==
    /\ Segment(m, what, FALSE)
    /\ Top(m).cb # 0
    /\ state' = [state EXCEPT ![m] = "panicked"]
    /\ stack' = [stack EXCEPT ![m] = <<>>]
    /\ UNCHANGED <<ctx, entered>>

\* OnContextDone, as EnablePool sets it
Done(m) ==
    /\ state[m] = "run" /\ stack[m] = <<>>
    /\ Release(ctxOf[m])
    /\ state' = [state EXCEPT ![m] = "done"]
    /\ UNCHANGED <<configVars, serving, received, msg, ctxOf, stack, entered, aborted, out>>

Run(m) ==
    \/ Begin(m)
    \/ \E what \in {"nothing", "value", "error"} :
           \/ \E abort \in BOOLEAN : CallsNext(m, what, abort) \/ Returns(m, what, abort)
           \/ Panics(m, what)
    \/ Done(m)

Receive == \E m \in Msgs, cmd \in {"request", "notify"}, method \in Methods \cup {Unknown} :
              OnMessage(m, cmd, method)

Next ==
    \/ serving = NoHandler /\ Configure /\ UNCHANGED dispatchVars
    \/ \E h \in Handlers : Serve(h)
    \/ Receive
    \/ \E m \in Msgs : Run(m)

Spec == Init /\ [][Next]_vars

-----------------------------------------------------------------------------

TypeOK ==
    /\ serving \in made \cup {NoHandler}
    /\ received \in 0..MaxMsgs
    /\ \A m \in Msgs : msg[m].on \in {Reader, m} /\ state[m] \in {"none", "queued", "run", "done", "panicked"}
    /\ ctxOf \in [Msgs -> 0..MaxMsgs]
    /\ \A c \in Ctxs : ctx[c].index \in 0..MaxInt /\ ctx[c].message \in 0..MaxMsgs
    /\ pooled \in [Ctxs -> 0..1]
    /\ aborted \subseteq Msgs

\* The chain of the message m
ChainOf(m) ==
    LET rs == RoutesOf(serving)
    IN  rs[IF msg[m].method \in DOMAIN rs THEN msg[m].method ELSE NotFound].chain

\* Context.Next: however the callbacks call Next themselves, each callback of the
\* chain is entered once at most and in the order of the chain, and when the
\* chain ends without Abort or panic all of them were.
ChainRunsOnce ==
    \A m \in Msgs : state[m] # "none" =>
        /\ IsPrefix(entered[m], ChainOf(m))
        /\ state[m] = "done" /\ m \notin aborted => entered[m] = ChainOf(m)

\* Context.Abort: no callback is entered after it, be it called before or after
\* the rest of the chain was run, and by whichever callback.
AbortIsFinal ==
    [][\A m \in aborted : entered'[m] = entered[m]]_vars

\* newContext, Release and Context.write: a Context that serves a message is not in
\* the pool, serves no other, and refers to this message until its chain is done;
\* so what is written answers this message, and a notify is never answered.
AnswersOwnRequest ==
    /\ \A m \in Msgs : Busy(m) => pooled[ctxOf[m]] = 0 /\ ctx[ctxOf[m]].message = m
    /\ \A r \in out : r.by = r.to /\ msg[r.to].cmd = "request"

=============================================================================
