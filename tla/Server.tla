------------------------------- MODULE Server --------------------------------
(***************************************************************************)
(* The Server (server.go): the accept loop, the set of connected Clients    *)
(* and the load count, Stop and Shutdown, and Broadcast with the reference  *)
(* count of the Message it shares among the conns (proto.go).               *)
(*                                                                         *)
(* A server-role Client is its read loop: it runs from newClientWithConn to *)
(* onStop, which deleteClient and subLoad make up.                          *)
(***************************************************************************)
EXTENDS Integers, FiniteSets

CONSTANTS
    Conns,     \* the conns peers open
    MaxLoad    \* Server.MaxLoad; 0 means unlimited

ASSUME ServerAssumption == IsFiniteSet(Conns) /\ MaxLoad \in Nat

VARIABLES
    running, listening,
    acc,       \* where runLoop is
    cur,       \* the conn it is setting up, or none
    load,      \* CurrLoad
    clients,   \* s.clients
    cst,       \* cst[c]: "none", "open", "closing", "sub", "gone" or "rejected"
    toStop,    \* conns with a go c.Stop() to run
    chStop,    \* whether chStop is closed
    stopper,   \* a goroutine calling Stop
    shutter,   \* a goroutine calling Shutdown
    mux,       \* whether Broadcast holds s.mux
    bpc,       \* where Broadcast is
    todo,      \* the conns it has yet to push to
    ref,       \* msg.ref
    holds,     \* the conns that hold msg and have not passed it to OnMessageDone
    freed      \* how often msg was freed

acceptVars == <<running, listening, acc, cur, load>>
connVars   == <<clients, cst, toStop>>
stopVars   == <<chStop, stopper, shutter>>
bcastVars  == <<mux, bpc, todo, ref, holds, freed>>
vars == <<acceptVars, connVars, stopVars, bcastVars>>

Init ==
    /\ running = FALSE /\ listening = TRUE
    /\ acc = "start" /\ cur = {}
    /\ load = 0
    /\ clients = {} /\ toStop = {}
    /\ cst = [c \in Conns |-> "none"]
    /\ chStop = FALSE
    /\ stopper = "idle" /\ shutter = "idle"
    /\ mux = FALSE
    /\ bpc = "idle" /\ todo = {}
    /\ ref = 0 /\ holds = {} /\ freed = 0

-----------------------------------------------------------------------------
(* runLoop.  A definition whose name has an underscore is a mutation of the *)
(* next one, for checking the properties.                                   *)

GoTo(l) == acc' = l

Start ==
    /\ acc = "start"
    /\ running' = TRUE
    /\ GoTo("check")
    /\ UNCHANGED <<listening, cur, load, connVars, stopVars, bcastVars>>

CheckRunning ==
    /\ acc = "check"
    /\ GoTo(IF running THEN "accept" ELSE "clear")
    /\ UNCHANGED <<running, listening, cur, load, connVars, stopVars, bcastVars>>

Accept(c) ==
    /\ acc = "accept" /\ listening
    /\ cst[c] = "none"
    /\ cur' = {c}
    /\ GoTo("load")
    /\ UNCHANGED <<running, listening, load, connVars, stopVars, bcastVars>>

\* Accept fails: temporarily, with the loop going on after 50ms, or for good,
\* as on a closed listener, which ends the loop if the Server still runs.
AcceptRetries ==
    /\ acc = "accept" /\ listening
    /\ GoTo("check")
    /\ UNCHANGED <<running, listening, cur, load, connVars, stopVars, bcastVars>>

AcceptFails ==
    /\ acc = "accept"
    /\ GoTo(IF running THEN "clear" ELSE "check")
    /\ UNCHANGED <<running, listening, cur, load, connVars, stopVars, bcastVars>>

\* addLoad, and what it returned against MaxLoad
Admits_OffByOne(n) == MaxLoad = 0 \/ n <= MaxLoad + 1
Admits(n) == MaxLoad = 0 \/ n <= MaxLoad

AddLoad ==
    /\ acc = "load"
    /\ load' = load + 1
    /\ GoTo(IF Admits(load + 1) THEN "new" ELSE "reject")
    /\ UNCHANGED <<running, listening, cur, connVars, stopVars, bcastVars>>

TakeBack_Forgotten == UNCHANGED load
TakeBack == load' = load - 1

Reject ==
    /\ acc = "reject"
    /\ cst' = [c \in Conns |-> IF c \in cur THEN "rejected" ELSE cst[c]]
    /\ TakeBack
    /\ cur' = {}
    /\ GoTo("check")
    /\ UNCHANGED <<running, listening, clients, toStop, stopVars, bcastVars>>

\* newClientWithConn starts the read loop before addClient.
NewClient ==
    /\ acc = "new"
    /\ cst' = [c \in Conns |-> IF c \in cur THEN "open" ELSE cst[c]]
    /\ GoTo("add")
    /\ UNCHANGED <<running, listening, cur, load, clients, toStop, stopVars, bcastVars>>

AddClient ==
    /\ acc = "add" /\ ~mux
    /\ clients' = clients \cup cur
    /\ cur' = {}
    /\ GoTo("check")
    /\ UNCHANGED <<running, listening, load, cst, toStop, stopVars, bcastVars>>

\* The deferred clearClients and close(chStop)
StopAll_Forgotten == UNCHANGED toStop
StopAll == toStop' = toStop \cup clients

ClearClients ==
    /\ acc = "clear" /\ ~mux
    /\ StopAll
    /\ clients' = {}
    /\ GoTo("close")
    /\ UNCHANGED <<running, listening, cur, load, cst, stopVars, bcastVars>>

CloseStop ==
    /\ acc = "close"
    /\ chStop' = TRUE
    /\ GoTo("exit")
    /\ UNCHANGED <<running, listening, cur, load, connVars, stopper, shutter, bcastVars>>

AcceptStep ==
    \/ Start \/ CheckRunning \/ AddLoad \/ Reject \/ NewClient \/ AddClient \/ ClearClients
    \/ CloseStop
    \/ \E c \in Conns : Accept(c)

-----------------------------------------------------------------------------
(* The Clients                                                             *)

Close(c) == cst' = [cst EXCEPT ![c] = IF @ = "open" THEN "closing" ELSE @]

PeerCloses(c) ==
    /\ cst[c] = "open"
    /\ Close(c)
    /\ UNCHANGED <<acceptVars, clients, toStop, stopVars, bcastVars>>

StopClient(c) ==
    /\ c \in toStop
    /\ toStop' = toStop \ {c}
    /\ Close(c)
    /\ UNCHANGED <<acceptVars, clients, stopVars, bcastVars>>

\* onStop: deleteClient, then subLoad
Removed_IfRunning(c) == IF running THEN clients \ {c} ELSE clients
Removed(c) == clients \ {c}

DeleteClient(c) ==
    /\ cst[c] = "closing" /\ ~mux
    /\ clients' = Removed(c)
    /\ cst' = [cst EXCEPT ![c] = "sub"]
    /\ UNCHANGED <<acceptVars, toStop, stopVars, bcastVars>>

SubLoad(c) ==
    /\ cst[c] = "sub"
    /\ load' = load - 1
    /\ cst' = [cst EXCEPT ![c] = "gone"]
    /\ UNCHANGED <<running, listening, acc, cur, clients, toStop, stopVars, bcastVars>>

ClientStep(c) == StopClient(c) \/ DeleteClient(c) \/ SubLoad(c)

-----------------------------------------------------------------------------
(* Stop and Shutdown                                                       *)

\* setRunning(false), then ln.Close(); Stop returns without waiting, as its
\* select has a default case.
CallStop ==
    /\ stopper = "idle"
    /\ running' = FALSE
    /\ stopper' = "close"
    /\ UNCHANGED <<listening, acc, cur, load, connVars, chStop, shutter, bcastVars>>

StopListener ==
    /\ stopper = "close"
    /\ listening' = FALSE
    /\ stopper' = "ret"
    /\ UNCHANGED <<running, acc, cur, load, connVars, chStop, shutter, bcastVars>>

CallShutdown ==
    /\ shutter = "idle"
    /\ running' = FALSE
    /\ shutter' = "close"
    /\ UNCHANGED <<listening, acc, cur, load, connVars, chStop, stopper, bcastVars>>

ShutdownListener ==
    /\ shutter = "close"
    /\ listening' = FALSE
    /\ shutter' = "wait"
    /\ UNCHANGED <<running, acc, cur, load, connVars, chStop, stopper, bcastVars>>

ShutdownDone ==
    /\ shutter = "wait" /\ chStop
    /\ shutter' = "nil"
    /\ UNCHANGED <<acceptVars, connVars, chStop, stopper, bcastVars>>

ShutdownTimeout ==
    /\ shutter = "wait"
    /\ shutter' = "ErrTimeout"
    /\ UNCHANGED <<acceptVars, connVars, chStop, stopper, bcastVars>>

-----------------------------------------------------------------------------
(* Broadcast, with the pool enabled: OnMessageDone releases the Message     *)

\* Release frees the Message when ref drops to -1; a Retain of a later step is
\* in r.
ReleaseTo(r) ==
    /\ ref' = r - 1
    /\ freed' = IF r - 1 = -1 THEN freed + 1 ELSE freed

BroadcastLock ==
    /\ bpc = "idle" /\ ~mux
    /\ mux' = TRUE
    /\ bpc' = "push"
    /\ todo' = clients
    /\ UNCHANGED <<acceptVars, connVars, stopVars, ref, holds, freed>>

\* msg.Retain() and PushMsg: the Client queues the Message ...
Retained_Forgotten == ref
Retained == ref + 1

BroadcastPush(c) ==
    /\ bpc = "push" /\ c \in todo
    /\ todo' = todo \ {c}
    /\ ref' = Retained
    /\ holds' = holds \cup {c}
    /\ UNCHANGED <<acceptVars, connVars, stopVars, mux, bpc, freed>>

\* ... or passes it to OnMessageDone or OnOverstock at once.
BroadcastFails(c) ==
    /\ bpc = "push" /\ c \in todo
    /\ todo' = todo \ {c}
    /\ ReleaseTo(Retained)
    /\ UNCHANGED <<acceptVars, connVars, stopVars, mux, bpc, holds>>

\* The deferred msg.Release() and Unlock()
BroadcastEnd ==
    /\ bpc = "push" /\ todo = {}
    /\ ReleaseTo(ref)
    /\ mux' = FALSE
    /\ bpc' = "ret"
    /\ UNCHANGED <<acceptVars, connVars, stopVars, todo, holds>>

\* The Client's send loop has written or dropped the Message: OnMessageDone.
MessageDone(c) ==
    /\ c \in holds
    /\ holds' = holds \ {c}
    /\ ReleaseTo(ref)
    /\ UNCHANGED <<acceptVars, connVars, stopVars, mux, bpc, todo>>

BroadcastStep == BroadcastEnd \/ \E c \in Conns : BroadcastPush(c) \/ BroadcastFails(c)

-----------------------------------------------------------------------------
Next ==
    \/ AcceptStep \/ AcceptRetries \/ AcceptFails
    \/ CallStop \/ StopListener
    \/ CallShutdown \/ ShutdownListener \/ ShutdownDone \/ ShutdownTimeout
    \/ BroadcastLock \/ BroadcastStep
    \/ \E c \in Conns : PeerCloses(c) \/ ClientStep(c) \/ MessageDone(c)

Spec == Init /\ [][Next]_vars

\* The loops run; Accept returns once the listener is closed; send loops finish
\* what they hold.  Nobody need connect, disconnect, call or time out.
FairSpec ==
    /\ Spec
    /\ WF_vars(AcceptStep) /\ WF_vars(~listening /\ AcceptFails)
    /\ WF_vars(StopListener) /\ WF_vars(ShutdownListener) /\ WF_vars(ShutdownDone)
    /\ WF_vars(BroadcastStep)
    /\ \A c \in Conns : WF_vars(ClientStep(c)) /\ WF_vars(MessageDone(c))

-----------------------------------------------------------------------------
(* Properties                                                              *)

Served == {c \in Conns : cst[c] \in {"open", "closing", "sub"}}

\* The type invariant
TypeOK ==
    /\ running \in BOOLEAN /\ listening \in BOOLEAN
    /\ acc \in {"start", "check", "accept", "load", "reject", "new", "add", "clear", "close",
                "exit"}
    /\ cur \in SUBSET Conns
    /\ load \in Nat
    /\ clients \in SUBSET Conns
    /\ cst \in [Conns -> {"none", "open", "closing", "sub", "gone", "rejected"}]
    /\ toStop \in SUBSET Conns
    /\ chStop \in BOOLEAN
    /\ stopper \in {"idle", "close", "ret"}
    /\ shutter \in {"idle", "close", "wait", "nil", "ErrTimeout"}
    /\ mux \in BOOLEAN
    /\ bpc \in {"idle", "push", "ret"}
    /\ todo \in SUBSET Conns
    /\ ref \in Int
    /\ holds \in SUBSET Conns
    /\ freed \in Nat

\* CurrLoad is "the number of current conns", with the one being decided on, and
\* MaxLoad "the max number of concurrent conns", however accepts and closes
\* interleave.
LoadCounts ==
    /\ load = Cardinality(Served) + (IF acc \in {"reject", "new"} THEN 1 ELSE 0)
    /\ MaxLoad > 0 => Cardinality(Served) <= MaxLoad

\* Broadcast: the Message is freed once, when the last conn is done with it, and
\* never while one holds it.
FreedWhenDone ==
    IF bpc = "ret" /\ holds = {} THEN freed = 1 ELSE freed = 0

\* A stopped Server stops: the accept loop exits and every conn is closed.
StopStopsConns ==
    stopper = "ret" ~> acc = "exit" /\ \A c \in Conns : cst[c] \in {"none", "gone", "rejected"}

Lingers(c) == c \in clients /\ cst[c] \in {"sub", "gone"}

\* A Client whose onStop has run is in the Server's set only if addClient came
\* after its deleteClient: nothing else lists a Client that is gone.
OnlyLateAddsLinger ==
    [][\A c \in Conns : Lingers(c)' => Lingers(c) \/ c \in cur]_vars

-----------------------------------------------------------------------------
(* What the documentation says and the code does not keep: the README gives
   the constants under which TLC shows it.                                 *)

\* Shutdown "waits for the accept loop to exit and stop all conns".
ShutdownStopsConns == shutter = "nil" => \A c \in Conns : cst[c] # "open"

\* A Client that disconnects is removed from the Server's set.
GoneIsRemoved == \A c \in Conns : cst[c] = "gone" ~> c \notin clients

=============================================================================
