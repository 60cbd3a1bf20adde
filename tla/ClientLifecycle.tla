--------------------------- MODULE ClientLifecycle ---------------------------
(***************************************************************************)
(* The life of one Client (client.go): run, the read loop with its         *)
(* reconnect phase, Stop, closeAndClean and Restart, with their accesses   *)
(* to running, reconnecting, Conn, chClose, recvDone and mux interleaved.  *)
(*                                                                         *)
(* A generation is one chClose/recvDone pair and the read loop started     *)
(* with it: NewClient makes generation 1 and every successful Restart the  *)
(* next one.  What a message means, and the send loops, are not here.      *)
(***************************************************************************)
EXTENDS Naturals, FiniteSets

CONSTANTS
    Stoppers,           \* goroutines that call Stop, any number of times
    Restarters,         \* goroutines that call Restart
    HasDialer,          \* TRUE: client role; FALSE: server role (Dialer = nil)
    MaxReconnectTimes,  \* Handler.MaxReconnectTimes(); 0 means unlimited
    MaxGen,             \* bound on the generations explored
    MaxConns,           \* bound on the conns dialed, all generations together
    NoProc              \* mux is free

ASSUME LifecycleAssumption ==
    /\ HasDialer \in BOOLEAN
    /\ MaxReconnectTimes \in Nat
    /\ MaxGen \in Nat \ {0}
    /\ MaxConns \in Nat \ {0}
    /\ Stoppers \cap Restarters = {}
    /\ NoProc \notin Stoppers \cup Restarters
    /\ ~HasDialer => Restarters = {}

Gens == 1..MaxGen
Conns == 1..MaxConns
Procs == Stoppers \cup Restarters

VARIABLES
    running,       \* c.running
    reconnecting,  \* c.reconnecting
    mux,           \* Restart holds c.mux across its dial; others for one step
    conn,          \* c.Conn
    reader,        \* the conn c.Reader reads from
    gen,           \* the generation c.chClose and c.recvDone belong to
    closed,        \* closed[g]: generation g's chClose is closed
    live,          \* conns that are open at both ends
    dialed,        \* number of conns dialed so far
    loop,          \* loop[g]: where generation g's recvLoop is
    reading,       \* reading[g]: the conn its current Recv reads from
    tries,         \* tries[g]: reconnect attempts made in this phase
    fresh,         \* fresh[g]: the conn its Dialer returned, before c.Conn is set
    pc,            \* pc[p]: where goroutine p is in Stop or Restart
    waitGen        \* waitGen[p]: the generation whose recvDone Restart captured

vars == <<running, reconnecting, mux, conn, reader, gen, closed, live, dialed,
          loop, reading, tries, fresh, pc, waitGen>>

\* What a read loop owns, and what Stop and Restart own.
loopVars == <<loop, reading, tries, fresh>>
procVars == <<pc, waitGen>>

ReconnectPhase == {"close", "clear", "retry", "dial", "install", "resume"}
LoopStates == {"none", "check", "read", "fail", "stop", "stopConn", "exit", "done"}
              \cup ReconnectPhase
StopStates == {"idle", "stop", "stopConn"}
RestartStates == {"idle", "capture", "stop", "stopConn", "wait", "lock", "dial", "start"}

\* NewClient or newClientWithConn has returned: run started generation 1.
Init ==
    /\ running = TRUE
    /\ reconnecting = FALSE
    /\ mux = NoProc
    /\ conn = 1
    /\ reader = 1
    /\ gen = 1
    /\ closed = [g \in Gens |-> FALSE]
    /\ live = {1}
    /\ dialed = 1
    /\ loop = [g \in Gens |-> IF g = 1 THEN "check" ELSE "none"]
    /\ reading = [g \in Gens |-> 1]
    /\ tries = [g \in Gens |-> 0]
    /\ fresh = [g \in Gens |-> 1]
    /\ pc = [p \in Procs |-> "idle"]
    /\ waitGen = [p \in Procs |-> 1]

Free == mux = NoProc

-----------------------------------------------------------------------------
(* The pieces several steps share.  A definition whose name has an          *)
(* underscore is a mutation of the next one, for checking the properties.   *)

\* running = false and close a chClose that is not closed yet, under mux:
\* the critical section of Stop and of closeAndClean.
CloseChan_KeepsRunning(g) ==
    /\ UNCHANGED running
    /\ closed' = [closed EXCEPT ![g] = TRUE]
CloseChan(g) ==
    /\ running' = FALSE
    /\ closed' = [closed EXCEPT ![g] = TRUE]

\* c.Conn.Close(), whichever conn c.Conn is by now
CloseCurrentConn == live' = live \ {conn}

\* The condition of the reconnect loop, evaluated before each Dialer call
MayRetry(g) ==
    ~closed[g] /\ (MaxReconnectTimes = 0 \/ tries[g] < MaxReconnectTimes)

\* i++ after a failed attempt; only counted when it is compared
CountTry_Stuck(n) == n
CountTry_Down(n) == IF MaxReconnectTimes = 0 THEN 0 ELSE n - 1
CountTry(n) == IF MaxReconnectTimes = 0 THEN 0 ELSE n + 1

\* c.reconnecting is set when the conn is lost, and reset with the new one
SetReconnecting_Lost == UNCHANGED reconnecting
SetReconnecting == reconnecting' = TRUE
ResetReconnecting_Lost == UNCHANGED reconnecting
ResetReconnecting == reconnecting' = FALSE

\* Generation g's recvDone is closed
RecvDone_Ignored(g) == TRUE
RecvDone(g) == loop[g] = "done"

-----------------------------------------------------------------------------
(* recvLoop(chClose) of generation g                                       *)

\* for !chanClosed(chClose): the outer loop of both roles.  A Recv that starts
\* reads from the conn c.Reader wraps at that moment.
CheckClosed(g) ==
    /\ loop[g] = "check"
    /\ loop' = [loop EXCEPT ![g] = IF closed[g] THEN "stop" ELSE "read"]
    /\ reading' = [reading EXCEPT ![g] = reader]
    /\ UNCHANGED <<running, reconnecting, mux, conn, reader, gen, closed, live,
                   dialed, tries, fresh, procVars>>

\* Recv returns a message and OnMessage handles it.  Only the server role looks
\* at chClose again; the inner loop of the client role goes straight to Recv.
RecvMessage(g) ==
    /\ loop[g] = "read"
    /\ reading[g] \in live
    /\ loop' = [loop EXCEPT ![g] = IF HasDialer THEN "read" ELSE "check"]
    /\ reading' = [reading EXCEPT ![g] = reader]
    /\ UNCHANGED <<running, reconnecting, mux, conn, reader, gen, closed, live,
                   dialed, tries, fresh, procVars>>

RecvFails(g) ==
    /\ loop[g] = "read"
    /\ loop' = [loop EXCEPT ![g] = IF HasDialer THEN "fail" ELSE "stop"]
    /\ UNCHANGED <<running, reconnecting, mux, conn, reader, gen, closed, live,
                   dialed, reading, tries, fresh, procVars>>

\* Recv fails because its conn is gone ...
RecvBroken(g) == reading[g] \notin live /\ RecvFails(g)
\* ... or with the conn still open (read timeout, BeforeRecv, bad body length).
RecvFault(g) == reading[g] \in live /\ RecvFails(g)

BeginReconnect(g) ==
    /\ loop[g] = "fail"
    /\ SetReconnecting
    /\ loop' = [loop EXCEPT ![g] = "close"]
    /\ UNCHANGED <<running, mux, conn, reader, gen, closed, live, dialed,
                   reading, tries, fresh, procVars>>

CloseConn(g) ==
    /\ loop[g] = "close"
    /\ CloseCurrentConn
    /\ loop' = [loop EXCEPT ![g] = "clear"]
    /\ UNCHANGED <<running, reconnecting, mux, conn, reader, gen, closed, dialed,
                   reading, tries, fresh, procVars>>

\* clearSession, clearAsyncHandler and clearStream, each under mux.
ClearPending(g) ==
    /\ loop[g] = "clear"
    /\ Free
    /\ tries' = [tries EXCEPT ![g] = 0]
    /\ loop' = [loop EXCEPT ![g] = "retry"]
    /\ UNCHANGED <<running, reconnecting, mux, conn, reader, gen, closed, live,
                   dialed, reading, fresh, procVars>>

Retry(g) ==
    /\ loop[g] = "retry"
    /\ loop' = [loop EXCEPT ![g] = IF MayRetry(g) THEN "dial" ELSE "stop"]
    /\ UNCHANGED <<running, reconnecting, mux, conn, reader, gen, closed, live,
                   dialed, reading, tries, fresh, procVars>>

\* The Dialer returns an error; one second later the loop tries again.
DialFails(g) ==
    /\ loop[g] = "dial"
    /\ tries' = [tries EXCEPT ![g] = CountTry(@)]
    /\ loop' = [loop EXCEPT ![g] = "retry"]
    /\ UNCHANGED <<running, reconnecting, mux, conn, reader, gen, closed, live,
                   dialed, reading, fresh, procVars>>

NewConn ==
    /\ dialed < MaxConns
    /\ dialed' = dialed + 1
    /\ live' = live \cup {dialed + 1}

DialSucceeds(g) ==
    /\ loop[g] = "dial"
    /\ NewConn
    /\ fresh' = [fresh EXCEPT ![g] = dialed + 1]
    /\ loop' = [loop EXCEPT ![g] = "install"]
    /\ UNCHANGED <<running, reconnecting, mux, conn, reader, gen, closed,
                   reading, tries, procVars>>

\* c.Conn = conn; c.initReader()
InstallConn(g) ==
    /\ loop[g] = "install"
    /\ conn' = fresh[g]
    /\ reader' = fresh[g]
    /\ loop' = [loop EXCEPT ![g] = "resume"]
    /\ UNCHANGED <<running, reconnecting, mux, gen, closed, live, dialed,
                   reading, tries, fresh, procVars>>

\* c.reconnecting = false; OnReconnect; goto RECV, past the chClose check.
Resume(g) ==
    /\ loop[g] = "resume"
    /\ ResetReconnecting
    /\ loop' = [loop EXCEPT ![g] = "read"]
    /\ reading' = [reading EXCEPT ![g] = reader]
    /\ UNCHANGED <<running, mux, conn, reader, gen, closed, live, dialed,
                   tries, fresh, procVars>>

\* The deferred closeAndClean(chClose), first under mux ...
CloseAndClean(g) ==
    /\ loop[g] = "stop"
    /\ Free
    /\ CloseChan(g)
    /\ loop' = [loop EXCEPT ![g] = "stopConn"]
    /\ UNCHANGED <<reconnecting, mux, conn, reader, gen, live, dialed, reading,
                   tries, fresh, procVars>>

\* ... then c.Conn.Close() ...
CloseAndCleanConn(g) ==
    /\ loop[g] = "stopConn"
    /\ CloseCurrentConn
    /\ loop' = [loop EXCEPT ![g] = "exit"]
    /\ UNCHANGED <<running, reconnecting, mux, conn, reader, gen, closed, dialed,
                   reading, tries, fresh, procVars>>

\* ... drainWritev, onStop, OnDisconnected; the goroutine closes recvDone.
LoopExit_KeepsRecvDone(g) == loop[g] = "exit" /\ UNCHANGED vars
LoopExit(g) ==
    /\ loop[g] = "exit"
    /\ loop' = [loop EXCEPT ![g] = "done"]
    /\ UNCHANGED <<running, reconnecting, mux, conn, reader, gen, closed, live,
                   dialed, reading, tries, fresh, procVars>>

LoopStep(g) ==
    \/ CheckClosed(g) \/ RecvBroken(g) \/ BeginReconnect(g) \/ CloseConn(g)
    \/ ClearPending(g) \/ Retry(g) \/ DialFails(g) \/ DialSucceeds(g)
    \/ InstallConn(g) \/ Resume(g)
    \/ CloseAndClean(g) \/ CloseAndCleanConn(g) \/ LoopExit(g)

-----------------------------------------------------------------------------
(* Stop, called by a Stopper or as the first part of Restart               *)

CallStop(p) ==
    /\ p \in Stoppers
    /\ pc[p] = "idle"
    /\ pc' = [pc EXCEPT ![p] = "stop"]
    /\ UNCHANGED <<running, reconnecting, mux, conn, reader, gen, closed, live,
                   dialed, loopVars, waitGen>>

\* running = false; closeChan(c.chClose), under mux
StopClient(p) ==
    /\ pc[p] = "stop"
    /\ Free
    /\ CloseChan(gen)
    /\ pc' = [pc EXCEPT ![p] = "stopConn"]
    /\ UNCHANGED <<reconnecting, mux, conn, reader, gen, live, dialed, loopVars,
                   waitGen>>

\* c.Conn.Close(), after mux is released
StopConn(p) ==
    /\ pc[p] = "stopConn"
    /\ CloseCurrentConn
    /\ pc' = [pc EXCEPT ![p] = IF p \in Restarters THEN "wait" ELSE "idle"]
    /\ UNCHANGED <<running, reconnecting, mux, conn, reader, gen, closed, dialed,
                   loopVars, waitGen>>

-----------------------------------------------------------------------------
(* Restart                                                                 *)

CallRestart(p) ==
    /\ p \in Restarters
    /\ pc[p] = "idle"
    /\ gen < MaxGen
    /\ pc' = [pc EXCEPT ![p] = "capture"]
    /\ UNCHANGED <<running, reconnecting, mux, conn, reader, gen, closed, live,
                   dialed, loopVars, waitGen>>

\* recvDone := c.recvDone, under mux; then Stop
CaptureRecvDone(p) ==
    /\ pc[p] = "capture"
    /\ Free
    /\ waitGen' = [waitGen EXCEPT ![p] = gen]
    /\ pc' = [pc EXCEPT ![p] = "stop"]
    /\ UNCHANGED <<running, reconnecting, mux, conn, reader, gen, closed, live,
                   dialed, loopVars>>

\* <-recvDone
AwaitRecvDone(p) ==
    /\ pc[p] = "wait"
    /\ RecvDone(waitGen[p])
    /\ pc' = [pc EXCEPT ![p] = "lock"]
    /\ UNCHANGED <<running, reconnecting, mux, conn, reader, gen, closed, live,
                   dialed, loopVars, waitGen>>

\* Lock mux; return at once if another Restart got here first.
LockForRestart(p) ==
    /\ pc[p] = "lock"
    /\ Free
    /\ IF running
       THEN pc' = [pc EXCEPT ![p] = "idle"] /\ UNCHANGED mux
       ELSE pc' = [pc EXCEPT ![p] = "dial"] /\ mux' = p
    /\ UNCHANGED <<running, reconnecting, conn, reader, gen, closed, live,
                   dialed, loopVars, waitGen>>

RestartDialFails(p) ==
    /\ pc[p] = "dial"
    /\ mux' = NoProc
    /\ pc' = [pc EXCEPT ![p] = "idle"]
    /\ UNCHANGED <<running, reconnecting, conn, reader, gen, closed, live,
                   dialed, loopVars, waitGen>>

\* Install the new conn and channels and start the new read loop.
NewGeneration(p) ==
    /\ pc[p] = "dial"
    /\ gen < MaxGen
    /\ NewConn
    /\ conn' = dialed + 1
    /\ reader' = dialed + 1
    /\ gen' = gen + 1
    /\ loop' = [loop EXCEPT ![gen + 1] = "check"]
    /\ pc' = [pc EXCEPT ![p] = "start"]
    /\ UNCHANGED <<running, reconnecting, mux, closed, reading, tries, fresh,
                   waitGen>>

\* c.running = true; c.reconnecting = false, while the new loop already runs.
MarkRunning(p) ==
    /\ pc[p] = "start"
    /\ running' = TRUE
    /\ reconnecting' = FALSE
    /\ mux' = NoProc
    /\ pc' = [pc EXCEPT ![p] = "idle"]
    /\ UNCHANGED <<conn, reader, gen, closed, live, dialed, loopVars, waitGen>>

ProcStep(p) ==
    \/ StopClient(p) \/ StopConn(p)
    \/ CaptureRecvDone(p) \/ AwaitRecvDone(p) \/ LockForRestart(p)
    \/ RestartDialFails(p) \/ NewGeneration(p) \/ MarkRunning(p)

-----------------------------------------------------------------------------
\* The peer or the network breaks a conn.
ConnBreaks ==
    /\ \E k \in live : live' = live \ {k}
    /\ UNCHANGED <<running, reconnecting, mux, conn, reader, gen, closed, dialed,
                   loopVars, procVars>>

Next ==
    \/ \E g \in Gens : LoopStep(g) \/ RecvMessage(g) \/ RecvFault(g)
    \/ \E p \in Procs : CallStop(p) \/ CallRestart(p) \/ ProcStep(p)
    \/ ConnBreaks

Spec == Init /\ [][Next]_vars

\* The Go scheduler runs every goroutine that can go on, and Dialer returns.
\* Nothing makes a peer send, a conn break or a user call Stop or Restart.
FairSpec ==
    /\ Spec
    /\ \A g \in Gens : WF_vars(LoopStep(g))
    /\ \A p \in Procs : WF_vars(ProcStep(p))
-----------------------------------------------------------------------------
(* Properties                                                              *)

\* The type invariant
TypeOK ==
    /\ running \in BOOLEAN
    /\ reconnecting \in BOOLEAN
    /\ mux \in Restarters \cup {NoProc}
    /\ conn \in Conns
    /\ reader \in Conns
    /\ gen \in Gens
    /\ closed \in [Gens -> BOOLEAN]
    /\ live \in SUBSET Conns
    /\ dialed \in Conns
    /\ loop \in [Gens -> LoopStates]
    /\ reading \in [Gens -> Conns]
    /\ tries \in [Gens -> Nat]
    /\ fresh \in [Gens -> Conns]
    /\ pc \in [Procs -> StopStates \cup RestartStates]
    /\ waitGen \in [Procs -> Gens]

\* Restart only builds a generation once the read loops of all earlier ones
\* have returned, so no old teardown can overlap with the new state
\* (the recvDone field of Client).
OneGeneration == \A g \in Gens : g < gen => loop[g] = "done"

\* A Client that reports running has an open chClose and a read loop that has
\* not begun its teardown: running is never left TRUE by a stopped generation,
\* nor set by Restart for one that already stopped.
RunningIsServed ==
    running => /\ ~closed[gen]
               /\ loop[gen] \notin {"none", "stopConn", "exit", "done"}

\* What CheckState reports agrees with the read loop: a running Client that reports
\* reconnecting is in the reconnect phase of its current read loop, or about to
\* stop for want of attempts, and one whose read loop is between losing its conn
\* and having the next one reports reconnecting.  The latter as long as it was not
\* restarted (a Restart resets the flag late, see MarkRunning).
ReconnectingAgrees ==
    running =>
        /\ reconnecting => loop[gen] \in ReconnectPhase \cup {"stop"}
        /\ gen = 1 /\ loop[gen] \in ReconnectPhase => reconnecting

\* A broken conn is replaced, or the Client stops, when the reconnect attempts
\* are bounded.
BreakIsResolved == conn \notin live ~> conn \in live \/ ~running

\* Restart waits for the old read loop no longer than that takes to return, unless
\* the loop is back in Recv on a conn it installed after Stop.
RestartWaitsOnlyForRecv ==
    \A p \in Restarters :
        pc[p] = "wait" ~> \/ pc[p] # "wait"
                          \/ loop[waitGen[p]] = "read" /\ reading[waitGen[p]] \in live

-----------------------------------------------------------------------------
(* What the documentation says and the code does not keep: the README gives
   the constants under which TLC shows it.                                 *)

\* A stopped generation keeps its conn: "a client-role Client does not
\* reconnect after" Stop; only Restart installs another conn.
NoReconnectAfterStop ==
    [][closed[gen] /\ gen' = gen => conn' = conn]_vars

\* Once chClose is closed (Stop, or no attempt left) the read loop returns and
\* calls OnDisconnected.
StopEndsLoop == \A g \in Gens : closed[g] ~> loop[g] = "done"

\* Restart does not wait for ever for the old read loop.
RestartReturns == \A p \in Restarters : pc[p] = "wait" ~> pc[p] # "wait"

=============================================================================
