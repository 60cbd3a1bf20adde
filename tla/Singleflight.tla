---------------------------- MODULE Singleflight -----------------------------
(***************************************************************************)
(* De-duplication of concurrent calls (singleflight.go, callSingleflight    *)
(* and callAsyncSingleflight of client.go): the group of calls in flight,   *)
(* the reference counts of the shared singleflightCall objects and the pool *)
(* that recycles them, followers waiting for or subscribing to the leader's *)
(* result, and their own timeouts.                                          *)
(*                                                                         *)
(* Each caller makes one call.  The result of a round is named by the       *)
(* caller that led it, and so is the round's done channel.  The leader's    *)
(* round-trip is ClientCalls seen from outside.                             *)
(***************************************************************************)
EXTENDS Integers, FiniteSets

CONSTANTS
    Callers,
    Keys,
    Objs,      \* singleflightCall objects, pooled or allocated by the pool's New
    None,
    AsyncKeys  \* the keys of CallAsync; the others are those of Call and
               \* CallContext (sfKey keeps the two apart)

ASSUME SingleflightAssumption ==
    /\ IsFiniteSet(Callers)
    /\ None \notin Callers \cup Objs
    /\ AsyncKeys \subseteq Keys

VARIABLES
    \* the group and the objects
    calls,     \* g.calls: the object of the call in flight for a key, or None
    refs,      \* refs[o]: call.refs
    round,     \* round[o]: the leader of the round o serves, None in the zero
               \* object; it also names call.done
    val,       \* val[o]: call.data, result and err
    finished,  \* finished[o]: call.finished
    subs,      \* subs[o]: call.subs
    pooled,    \* pooled[o]: how many times o is in singleflightCallPool
    closed,    \* the done channels that are closed
    \* the callers
    pc, key, obj,
    joined,    \* joined[p]: the leader of the round p takes part in
    got,       \* got[p]: the result p returns or passes to its handler
    owes,      \* callers that have acquired a call and not released it
    \* the handlers of async calls
    reg,       \* reg[p]: the handler callAsyncOnce registered: "no", "yes",
               \* "taken" by who calls it, "gone" when removed without a call
    ipc,       \* ipc[p]: where internal, the leader's handler, is
    timer,     \* timer[p]: the timer of a follower's sfAsyncSub
    fired,     \* the sfAsyncSubs whose fired is 1
    firing,    \* sub.fire calls handed to AsyncExecute: <<caller, result>>
    hcalls     \* hcalls[p]: how often the handler of p was called

objVars    == <<refs, round, val, finished, subs, pooled, closed>>
callerVars == <<pc, key, obj, joined, got, owes>>
asyncVars  == <<reg, ipc, timer, fired, firing, hcalls>>
vars == <<calls, objVars, callerVars, asyncVars>>

Init ==
    /\ calls = [k \in Keys |-> None]
    /\ refs = [o \in Objs |-> 0]
    /\ round = [o \in Objs |-> None]
    /\ val = [o \in Objs |-> None]
    /\ finished = [o \in Objs |-> FALSE]
    /\ subs = [o \in Objs |-> {}]
    /\ pooled = [o \in Objs |-> 1]
    /\ closed = {}
    /\ pc = [p \in Callers |-> "idle"]
    /\ key \in [Callers -> Keys]
    /\ obj = [p \in Callers |-> None]
    /\ joined = [p \in Callers |-> None]
    /\ got = [p \in Callers |-> None]
    /\ owes = {}
    /\ reg = [p \in Callers |-> "no"]
    /\ ipc = [p \in Callers |-> "none"]
    /\ timer = [p \in Callers |-> "off"]
    /\ fired = {}
    /\ firing = {}
    /\ hcalls = [p \in Callers |-> 0]

Async(p) == key[p] \in AsyncKeys

-----------------------------------------------------------------------------
(* The group.  A definition whose name has an underscore is a mutation of   *)
(* the next one, for checking the properties.                               *)

TakeRef_Skipped(o) == UNCHANGED refs
TakeRef(o) == refs' = [refs EXCEPT ![o] = @ + 1]

\* acquire, under g.mu: join the call in flight for the key ...
Join(p) ==
    /\ pc[p] = "idle"
    /\ calls[key[p]] # None
    /\ LET o == calls[key[p]] IN
          /\ TakeRef(o)
          /\ obj' = [obj EXCEPT ![p] = o]
          /\ joined' = [joined EXCEPT ![p] = round[o]]
    /\ owes' = owes \cup {p}
    /\ pc' = [pc EXCEPT ![p] = "joined"]
    /\ timer' = [timer EXCEPT ![p] = IF Async(p) THEN "armed" ELSE "off"]
    /\ UNCHANGED <<calls, round, val, finished, subs, pooled, closed, key, got, reg, ipc,
                   fired, firing, hcalls>>

NotInFlight_Unchecked(p) == TRUE
NotInFlight(p) == calls[key[p]] = None

\* ... or lead a new one, with an object from the pool.  callAsyncOnce then
\* registers internal as the handler.
Lead(p) ==
    /\ pc[p] = "idle"
    /\ NotInFlight(p)
    /\ \E o \in Objs :
          /\ pooled[o] > 0
          /\ pooled' = [pooled EXCEPT ![o] = @ - 1]
          /\ refs' = [refs EXCEPT ![o] = 1]
          /\ round' = [round EXCEPT ![o] = p]
          /\ calls' = [calls EXCEPT ![key[p]] = o]
          /\ obj' = [obj EXCEPT ![p] = o]
    /\ joined' = [joined EXCEPT ![p] = p]
    /\ owes' = owes \cup {p}
    /\ pc' = [pc EXCEPT ![p] = "request"]
    /\ reg' = [reg EXCEPT ![p] = IF Async(p) THEN "yes" ELSE "no"]
    /\ UNCHANGED <<val, finished, subs, closed, key, got, ipc, timer, fired, firing, hcalls>>

\* release: remove the entry of p's key, unless it was replaced.
Unlist_Skipped(p) == UNCHANGED calls
Unlist(p) ==
    calls' = [calls EXCEPT ![key[p]] = IF @ = obj[p] THEN None ELSE @]

\* releaseCall by p: drop a reference; the last one recycles the object.
DropRef(p) ==
    /\ refs' = [refs EXCEPT ![obj[p]] = @ - 1]
    /\ owes' = owes \ {p}

IsLast_Early(o) == refs[o] <= 2
IsLast(o) == refs[o] = 1

Recycle(o) ==
    /\ refs' = [refs EXCEPT ![o] = 0]
    /\ round' = [round EXCEPT ![o] = None]
    /\ val' = [val EXCEPT ![o] = None]
    /\ finished' = [finished EXCEPT ![o] = FALSE]
    /\ subs' = [subs EXCEPT ![o] = {}]
    /\ pooled' = [pooled EXCEPT ![o] = @ + 1]

\* The two steps of releaseCall on the caller's goroutine
Release(p) ==
    /\ pc[p] = "release"
    /\ DropRef(p)
    /\ pc' = [pc EXCEPT ![p] = IF IsLast(obj[p]) THEN "recycle" ELSE "ret"]
    /\ UNCHANGED <<calls, round, val, finished, subs, pooled, closed, key, obj, joined, got,
                   asyncVars>>

RecycleCall(p) ==
    /\ pc[p] = "recycle"
    /\ Recycle(obj[p])
    /\ pc' = [pc EXCEPT ![p] = "ret"]
    /\ UNCHANGED <<calls, closed, key, obj, joined, got, owes, asyncVars>>

-----------------------------------------------------------------------------
(* callSingleflight                                                        *)

\* The leader's request returns, whatever its result, and finish publishes it ...
Publish(p) ==
    /\ ~Async(p) /\ pc[p] = "request"
    /\ val' = [val EXCEPT ![obj[p]] = p]
    /\ got' = [got EXCEPT ![p] = p]
    /\ pc' = [pc EXCEPT ![p] = "unlist"]
    /\ UNCHANGED <<calls, refs, round, finished, subs, pooled, closed, key, obj, joined,
                   owes, asyncVars>>

\* ... takes the call out of the group ...
FinishUnlist(p) ==
    /\ pc[p] = "unlist"
    /\ Unlist(p)
    /\ pc' = [pc EXCEPT ![p] = "close"]
    /\ UNCHANGED <<objVars, key, obj, joined, got, owes, asyncVars>>

\* ... and closes done.
CloseDone_Skipped(p) == UNCHANGED closed
CloseDone(p) == closed' = closed \cup {round[obj[p]]}

FinishClose(p) ==
    /\ pc[p] = "close"
    /\ CloseDone(p)
    /\ pc' = [pc EXCEPT ![p] = "release"]
    /\ UNCHANGED <<calls, refs, round, val, finished, subs, pooled, key, obj, joined, got,
                   owes, asyncVars>>

\* A follower's select: done is closed, and it reads the shared result, ...
FollowerReads(p) ==
    /\ pc[p] = "joined" /\ ~Async(p)
    /\ round[obj[p]] \in closed
    /\ got' = [got EXCEPT ![p] = val[obj[p]]]
    /\ pc' = [pc EXCEPT ![p] = "release"]
    /\ UNCHANGED <<calls, objVars, key, obj, joined, owes, asyncVars>>

\* ... or its own ctx is done, or the Client stops.
FollowerGivesUp(p) ==
    /\ pc[p] = "joined" /\ ~Async(p)
    /\ pc' = [pc EXCEPT ![p] = "release"]
    /\ UNCHANGED <<calls, objVars, key, obj, joined, got, owes, asyncVars>>

-----------------------------------------------------------------------------
(* callAsyncSingleflight                                                   *)

\* finishAsync and fireAsyncSubs: mark the call finished, unlist it, and hand
\* the followers taken from it to AsyncExecute.
FinishAsync(p) ==
    /\ finished' = [finished EXCEPT ![obj[p]] = TRUE]
    /\ subs' = [subs EXCEPT ![obj[p]] = {}]
    /\ Unlist(p)
    /\ firing' = firing \cup (subs[obj[p]] \X {p})

\* callAsyncOnce returns nil to the leader or to a follower that fell back ...
AsyncOnceReturns(p) ==
    /\ Async(p) /\ pc[p] \in {"request", "fallback"}
    /\ pc' = [pc EXCEPT ![p] = IF @ = "request" THEN "ret" ELSE "release"]
    /\ UNCHANGED <<calls, objVars, key, obj, joined, got, owes, asyncVars>>

\* ... or an error, after deleteAsyncHandler: the leader wakes the followers.  The
\* handler may have been taken before, by the timer or because the conn broke.
AsyncOnceFails(p) ==
    /\ Async(p) /\ pc[p] \in {"request", "fallback"}
    /\ reg' = [reg EXCEPT ![p] = IF @ = "yes" THEN "gone" ELSE @]
    /\ IF pc[p] = "request"
       THEN FinishAsync(p)
       ELSE UNCHANGED <<calls, finished, subs, firing>>
    /\ pc' = [pc EXCEPT ![p] = "release"]
    /\ UNCHANGED <<refs, round, val, pooled, closed, key, obj, joined, got, owes, ipc,
                   timer, fired, hcalls>>

\* dropMessage, or a timer that fired before the handler was registered: the
\* handler is never called.
RequestDropped(p) ==
    /\ reg[p] = "yes"
    /\ reg' = [reg EXCEPT ![p] = "gone"]
    /\ UNCHANGED <<calls, objVars, callerVars, ipc, timer, fired, firing, hcalls>>

CallHandler(p, r) ==
    /\ hcalls' = [hcalls EXCEPT ![p] = @ + 1]
    /\ got' = [got EXCEPT ![p] = r]

\* The registered handler is called, with a response, on the timeout or because
\* the conn broke: for a leader it is internal.
RequestDone(p) ==
    /\ reg[p] = "yes"
    /\ reg' = [reg EXCEPT ![p] = "taken"]
    /\ CallHandler(p, p)
    /\ ipc' = [ipc EXCEPT ![p] = IF joined[p] = p THEN "finish" ELSE "ret"]
    /\ UNCHANGED <<calls, objVars, pc, key, obj, joined, owes, timer, fired, firing>>

InternalFinish(p) ==
    /\ ipc[p] = "finish"
    /\ FinishAsync(p)
    /\ ipc' = [ipc EXCEPT ![p] = "release"]
    /\ UNCHANGED <<refs, round, val, pooled, closed, callerVars, reg, timer, fired, hcalls>>

InternalRelease(p) ==
    /\ ipc[p] = "release"
    /\ DropRef(p)
    /\ ipc' = [ipc EXCEPT ![p] = IF IsLast(obj[p]) THEN "recycle" ELSE "ret"]
    /\ UNCHANGED <<calls, round, val, finished, subs, pooled, closed, pc, key, obj, joined,
                   got, reg, timer, fired, firing, hcalls>>

InternalRecycle(p) ==
    /\ ipc[p] = "recycle"
    /\ Recycle(obj[p])
    /\ ipc' = [ipc EXCEPT ![p] = "ret"]
    /\ UNCHANGED <<calls, closed, callerVars, reg, timer, fired, firing, hcalls>>

\* addSub: subscribe, or fall back to a request of one's own.
AddSub(p) ==
    /\ Async(p) /\ pc[p] = "joined"
    /\ IF finished[obj[p]]
       THEN /\ timer' = [timer EXCEPT ![p] = IF @ = "armed" THEN "stopped" ELSE @]
            /\ reg' = [reg EXCEPT ![p] = "yes"]
            /\ pc' = [pc EXCEPT ![p] = "fallback"]
            /\ UNCHANGED subs
       ELSE /\ subs' = [subs EXCEPT ![obj[p]] = @ \cup {p}]
            /\ pc' = [pc EXCEPT ![p] = "release"]
            /\ UNCHANGED <<timer, reg>>
    /\ UNCHANGED <<calls, refs, round, val, finished, pooled, closed, key, obj, joined, got,
                   owes, ipc, fired, firing, hcalls>>

\* sub.fire(r): only the first one calls the handler.
Fire_Always(p, r) ==
    /\ fired' = fired \cup {p}
    /\ CallHandler(p, r)
Fire(p, r) ==
    /\ fired' = fired \cup {p}
    /\ IF p \in fired THEN UNCHANGED <<hcalls, got>> ELSE CallHandler(p, r)

SubTimeout(p) ==
    /\ timer[p] = "armed" /\ p \notin fired
    /\ Fire(p, None)
    /\ timer' = [timer EXCEPT ![p] = "fired"]
    /\ UNCHANGED <<calls, objVars, pc, key, obj, joined, owes, reg, ipc, firing>>

SubFired(p) ==
    \E r \in Callers :
        /\ <<p, r>> \in firing
        /\ firing' = firing \ {<<p, r>>}
        /\ Fire(p, r)
        /\ timer' = [timer EXCEPT ![p] = IF @ = "armed" /\ p \notin fired THEN "stopped" ELSE @]
        /\ UNCHANGED <<calls, objVars, pc, key, obj, joined, owes, reg, ipc>>

-----------------------------------------------------------------------------
\* callAsyncOnce failed for a leader whose handler, internal, is called as well:
\* both release the call.  What becomes of it after that is not followed.
ReleasedTwice ==
    \E p \in Callers : Async(p) /\ joined[p] = p /\ reg[p] = "taken" /\ pc[p] = "release"

\* Every caller has returned and nothing is left to run.
Terminated ==
    /\ \/ /\ \A p \in Callers :
                /\ pc[p] = "ret" /\ ipc[p] \in {"none", "ret"}
                /\ reg[p] # "yes"
          /\ firing = {}
       \/ ReleasedTwice
    /\ UNCHANGED vars

CallerStep(p) ==
    /\ ~ReleasedTwice
    /\ \/ Join(p) \/ Lead(p) \/ Release(p) \/ RecycleCall(p)
       \/ Publish(p) \/ FinishUnlist(p) \/ FinishClose(p) \/ FollowerReads(p)
       \/ AsyncOnceReturns(p) \/ AsyncOnceFails(p) \/ AddSub(p)

HandlerStep(p) ==
    /\ ~ReleasedTwice
    /\ \/ RequestDone(p) \/ RequestDropped(p)
       \/ InternalFinish(p) \/ InternalRelease(p) \/ InternalRecycle(p)
       \/ SubTimeout(p) \/ SubFired(p)

Next ==
    \/ \E p \in Callers : CallerStep(p) \/ HandlerStep(p) \/ FollowerGivesUp(p)
    \/ Terminated

Spec == Init /\ [][Next]_vars

\* A leader's request ends, at the latest with its timeout; a follower need not
\* give up.
FairSpec ==
    Spec /\ \A p \in Callers : WF_vars(CallerStep(p)) /\ WF_vars(HandlerStep(p))

-----------------------------------------------------------------------------
(* Properties                                                              *)

Held(o) == {p \in owes : obj[p] = o}

\* The type invariant: references, too, never go below 0.
TypeOK ==
    /\ calls \in [Keys -> Objs \cup {None}]
    /\ refs \in [Objs -> Nat]
    /\ round \in [Objs -> Callers \cup {None}]
    /\ val \in [Objs -> Callers \cup {None}]
    /\ finished \in [Objs -> BOOLEAN]
    /\ subs \in [Objs -> SUBSET Callers]
    /\ pooled \in [Objs -> Nat]
    /\ closed \in SUBSET (Callers \cup {None})
    /\ pc \in [Callers -> {"idle", "joined", "request", "fallback", "unlist", "close",
                           "release", "recycle", "ret"}]
    /\ key \in [Callers -> Keys]
    /\ obj \in [Callers -> Objs \cup {None}]
    /\ joined \in [Callers -> Callers \cup {None}]
    /\ got \in [Callers -> Callers \cup {None}]
    /\ owes \in SUBSET Callers
    /\ reg \in [Callers -> {"no", "yes", "taken", "gone"}]
    /\ ipc \in [Callers -> {"none", "finish", "release", "recycle", "ret"}]
    /\ timer \in [Callers -> {"off", "armed", "stopped", "fired"}]
    /\ fired \in SUBSET Callers
    /\ firing \in SUBSET (Callers \X Callers)
    /\ hcalls \in [Callers -> Nat]

\* refs counts "the leader plus every follower that joined", as long as the call is
\* not about to be recycled, and one in the pool is there once, listed for no key
\* and held by no caller: "a pooled call can never be observed by an in-flight
\* follower".
RefsCountHolders ==
    \A o \in Objs :
        /\ refs[o] = Cardinality(Held(o))
        /\ pooled[o] > 0 => pooled[o] = 1 /\ Held(o) = {} /\ \A k \in Keys : calls[k] # o

\* A caller gets the result of the round it joined or led, or one of its own.
OwnRound == \A p \in Callers : got[p] \in {None, p, joined[p]}

\* At most one request is in flight for a key: two leaders of the same key are
\* never both before finish.
OneRequestPerKey ==
    \A p, q \in Callers :
        key[p] = key[q] /\ ~Async(p) /\ pc[p] \in {"request", "unlist"} /\ pc[q] \in {"request", "unlist"}
            => p = q

\* Every caller returns, without its ctx being done: finish wakes the blocked
\* followers, and an async caller waits for nobody.
CallersReturn == \A p \in Callers : <>(pc[p] = "ret" \/ ReleasedTwice)

\* A call listed for a key has a leader that is yet to take it out, so that late
\* callers do not join a call that never ends.  The exception: an async leader
\* whose handler was dropped uncalled.
ListedHasLeader ==
    \A k \in Keys : calls[k] # None =>
        \E p \in Callers :
            /\ round[calls[k]] = p /\ key[p] = k
            /\ IF Async(p) THEN reg[p] \in {"yes", "gone"} \/ ipc[p] = "finish"
                           ELSE pc[p] \in {"request", "unlist"}

\* The handler of a follower that subscribed is called at most once, by the
\* leader's fan-out or by its own timeout, whichever comes first.
SubFiresOnce == \A p \in Callers : joined[p] # p /\ reg[p] = "no" => hcalls[p] <= 1

-----------------------------------------------------------------------------
(* What the documentation says and the code does not keep: the README gives
   the constants under which TLC shows it.                                 *)

\* The call of a round is released once by each that acquired it.
ReleasedOnce == ~ReleasedTwice

\* CallAsync with singleflight calls each handler at most once, also that of a
\* follower that timed out or fell back.
HandlerAtMostOnce == \A p \in Callers : hcalls[p] <= 1

\* An async call leaves the group again, "so late followers start a fresh
\* request".
KeyIsReleased == \A k \in Keys : \A o \in Objs : calls[k] = o ~> calls[k] # o

=============================================================================
