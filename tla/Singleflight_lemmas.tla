------------------------- MODULE Singleflight_lemmas -------------------------
(***************************************************************************)
(* The inductive invariant of Singleflight, for any sets of callers, keys   *)
(* and objects, and the proofs that a step keeps what it says of callers,   *)
(* of the group and of the results.  What rests on counting references is   *)
(* in Singleflight_proofs, with the theorems.                               *)
(*                                                                         *)
(* None of the properties is inductive: each rests on who may still touch   *)
(* an object.  The invariant follows a caller through its round: from       *)
(* acquire to releaseCall it owes a reference to an object that serves the  *)
(* round it joined, and that object is neither pooled nor recycled.         *)
(***************************************************************************)
EXTENDS Singleflight, TLAPS

-----------------------------------------------------------------------------
(* The inductive invariant                                                 *)

\* p leads an async call that it and its handler both release.
Twice(p) == Async(p) /\ joined[p] = p /\ reg[p] = "taken" /\ pc[p] = "release"

\* A caller that has not called acquire has left no trace.
IdleInv ==
    \A p \in Callers : pc[p] = "idle" =>
        /\ p \notin owes /\ obj[p] = None /\ joined[p] = None /\ got[p] = None
        /\ reg[p] = "no" /\ ipc[p] = "none" /\ timer[p] = "off"
        /\ p \notin fired /\ hcalls[p] = 0
        /\ \A o \in Objs : round[o] # p

\* A caller that owes a reference has the object of the round it joined.
OwesInv ==
    \A p \in owes :
        /\ round[obj[p]] = joined[p] /\ pooled[obj[p]] = 0
        /\ pc[p] # "recycle" /\ ipc[p] # "recycle"

\* Where a caller and its handler are tells whether it leads or follows and
\* whether it still owes its reference.
CallerInv ==
    \A p \in Callers :
        /\ pc[p] # "idle" => obj[p] \in Objs /\ joined[p] \in Callers
        /\ pc[p] \in {"joined", "fallback"} => p \in owes /\ joined[p] # p
        /\ pc[p] \in {"unlist", "close"} => p \in owes /\ ~Async(p) /\ joined[p] = p
        /\ pc[p] = "request" => /\ joined[p] = p
                                /\ p \in owes \/ (Async(p) /\ reg[p] = "taken")
        /\ pc[p] = "release" => p \in owes \/ Twice(p)
        /\ pc[p] = "joined" => reg[p] = "no"
        /\ ipc[p] \in {"finish", "release"} => p \in owes
        /\ ipc[p] \in {"finish", "release", "recycle"} => joined[p] = p
        /\ reg[p] # "no" => Async(p)
        /\ reg[p] = "taken" /\ joined[p] = p => pc[p] \in {"request", "ret", "release"}
        /\ ipc[p] # "none" => reg[p] = "taken"
        /\ reg[p] = "yes" /\ joined[p] = p => p \in owes /\ pc[p] \in {"request", "ret"}

\* Between its last release and the pool an object is in the hands of one caller.
RecycleInv ==
    \A p \in Callers : pc[p] = "recycle" \/ ipc[p] = "recycle" =>
        /\ Held(obj[p]) = {} /\ pooled[obj[p]] = 0
        /\ \A k \in Keys : calls[k] # obj[p]
        /\ \A q \in Callers : pc[q] = "recycle" \/ ipc[q] = "recycle" =>
              q = p \/ obj[q] # obj[p]

\* An object in the pool is there once and serves no round.
PoolInv ==
    \A o \in Objs : pooled[o] > 0 =>
        /\ pooled[o] = 1 /\ round[o] = None
        /\ \A k \in Keys : calls[k] # o

\* A listed call is that of a leader that holds it and is yet to take it out.
Leads(p, k) ==
    /\ p \in owes /\ joined[p] = p /\ key[p] = k /\ obj[p] = calls[k]
    /\ IF Async(p)
       THEN pc[p] \in {"request", "ret"} /\ (reg[p] \in {"yes", "gone"} \/ ipc[p] = "finish")
       ELSE pc[p] \in {"request", "unlist"}

ListInv == \A k \in Keys : calls[k] # None => \E p \in Callers : Leads(p, k)

\* The call of a blocking leader is listed until it takes it out.
LeaderInv ==
    \A p \in Callers : ~Async(p) /\ pc[p] \in {"request", "unlist"} => calls[key[p]] = obj[p]

\* What an object keeps is of the round it serves, and so is what fire gets.
ValInv == \A o \in Objs : val[o] \in {None, round[o]}

SubsInv ==
    \A o \in Objs : \A q \in subs[o] :
        /\ joined[q] = round[o] /\ joined[q] \in Callers \ {q}
        /\ reg[q] = "no" /\ pc[q] \in {"release", "recycle", "ret"}

FiringInv == \A q, r \in Callers : <<q, r>> \in firing => joined[q] = r \/ Twice(r)

\* A handler of a follower that made no request of its own is called by fire.
FireInv ==
    \A p \in Callers : joined[p] # p /\ reg[p] = "no" =>
        hcalls[p] = IF p \in fired THEN 1 ELSE 0

\* refs counts the callers that owe a reference.
RefsInv == \A o \in Objs : refs[o] = Cardinality(Held(o))

SingleflightInv ==
    /\ TypeOK /\ IdleInv /\ OwesInv /\ CallerInv /\ RecycleInv /\ PoolInv
    /\ ListInv /\ LeaderInv /\ ValInv /\ SubsInv /\ FiringInv /\ FireInv
    /\ OwnRound /\ RefsInv

-----------------------------------------------------------------------------
(* The steps                                                               *)

Releases(p) == Release(p) \/ InternalRelease(p)
Recycles(p) == RecycleCall(p) \/ InternalRecycle(p)
Finishes(p) == FinishUnlist(p) \/ AsyncOnceFails(p) \/ InternalFinish(p)
Moves(p) == Publish(p) \/ FinishClose(p) \/ FollowerReads(p) \/ AsyncOnceReturns(p)
Answers(p) == RequestDone(p) \/ RequestDropped(p)
Fires(p) == SubTimeout(p) \/ SubFired(p)

\* What a step is, by what it does to the objects.
LEMMA Cases ==
  ASSUME [Next]_vars
  PROVE  \/ /\ ~ReleasedTwice
            /\ \E p \in Callers : \/ Join(p) \/ Lead(p) \/ Releases(p) \/ Recycles(p)
                                  \/ Finishes(p) \/ Moves(p) \/ AddSub(p) \/ Answers(p)
                                  \/ Fires(p)
         \/ \E p \in Callers : FollowerGivesUp(p)
         \/ UNCHANGED vars
BY DEF Next, CallerStep, HandlerStep, Terminated, Releases, Recycles, Finishes, Moves,
       Answers, Fires

\* What the steps leave alone.
LEMMA Frames ==
  ASSUME NEW p \in Callers
  PROVE  /\ Releases(p) => UNCHANGED <<calls, round, val, finished, subs, pooled, closed, key, obj,
                                       joined, got, reg, timer, fired, firing, hcalls>>
         /\ Recycles(p) => UNCHANGED <<calls, closed, key, obj, joined, got, owes, reg, timer,
                                       fired, firing, hcalls>>
         /\ Finishes(p) => UNCHANGED <<refs, round, val, pooled, closed, key, obj, joined, got,
                                       owes, timer, fired, hcalls>>
         /\ Moves(p) => UNCHANGED <<calls, refs, round, finished, subs, pooled, key, obj, joined,
                                    owes, reg, ipc, timer, fired, firing, hcalls>>
         /\ AddSub(p) => UNCHANGED <<calls, refs, round, val, finished, pooled, closed, key, obj,
                                     joined, got, owes, ipc, fired, firing, hcalls>>
         /\ Answers(p) => UNCHANGED <<calls, refs, round, val, finished, subs, pooled, closed, pc,
                                      key, obj, joined, owes, timer, fired, firing>>
         /\ Fires(p) => UNCHANGED <<calls, refs, round, val, finished, subs, pooled, closed, pc,
                                    key, obj, joined, owes, reg, ipc>>
         /\ FollowerGivesUp(p) => UNCHANGED <<calls, refs, round, val, finished, subs, pooled,
                                              closed, key, obj, joined, got, owes, reg, ipc,
                                              timer, fired, firing, hcalls>>
<1> USE DEF objVars, callerVars, asyncVars
<1>1. Releases(p) => UNCHANGED <<calls, round, val, finished, subs, pooled, closed, key, obj,
                                 joined, got, reg, timer, fired, firing, hcalls>>
  BY DEF Releases, Release, InternalRelease
<1>2. Recycles(p) => UNCHANGED <<calls, closed, key, obj, joined, got, owes, reg, timer, fired,
                                 firing, hcalls>>
  BY DEF Recycles, RecycleCall, InternalRecycle
<1>3. Finishes(p) => UNCHANGED <<refs, round, val, pooled, closed, key, obj, joined, got, owes,
                                 timer, fired, hcalls>>
  BY DEF Finishes, FinishUnlist, AsyncOnceFails, InternalFinish
<1>4. Moves(p) => UNCHANGED <<calls, refs, round, finished, subs, pooled, key, obj, joined, owes,
                              reg, ipc, timer, fired, firing, hcalls>>
  BY DEF Moves, Publish, FinishClose, FollowerReads, AsyncOnceReturns
<1>5. Fires(p) => UNCHANGED <<calls, refs, round, val, finished, subs, pooled, closed, pc, key,
                              obj, joined, owes, reg, ipc>>
  <2>1. SubTimeout(p) => UNCHANGED <<calls, refs, round, val, finished, subs, pooled, closed, pc,
                                     key, obj, joined, owes, reg, ipc>>
    BY DEF SubTimeout
  <2>2. SubFired(p) => UNCHANGED <<calls, refs, round, val, finished, subs, pooled, closed, pc,
                                   key, obj, joined, owes, reg, ipc>>
    BY DEF SubFired
  <2> QED
    BY <2>1, <2>2 DEF Fires
<1>6. Answers(p) => UNCHANGED <<calls, refs, round, val, finished, subs, pooled, closed, pc, key,
                                obj, joined, owes, timer, fired, firing>>
  BY DEF Answers, RequestDone, RequestDropped
<1> QED
  BY <1>1, <1>2, <1>3, <1>4, <1>5, <1>6 DEF AddSub, FollowerGivesUp

-----------------------------------------------------------------------------
(* A step keeps the invariant                                              *)

\* A caller leaves idle with acquire; no other step touches an idle one.
LEMMA IdleNext ==
  ASSUME TypeOK, IdleInv, FiringInv, [Next]_vars
  PROVE  IdleInv'
<1>0. \/ UNCHANGED <<pc, round, owes, obj, joined, got, reg, ipc, timer, fired, hcalls>>
      \/ /\ ~ReleasedTwice
         /\ \E p \in Callers : \/ Join(p) \/ Lead(p) \/ Releases(p)
                               \/ Recycles(p) \/ Finishes(p) \/ Moves(p) \/ AddSub(p) \/ Answers(p)
                               \/ Fires(p)
      \/ \E p \in Callers : FollowerGivesUp(p)
  BY Zenon, Cases, Frames DEF vars, objVars, callerVars, asyncVars
<1> USE SingleflightAssumption DEF SingleflightAssumption, TypeOK
<1> USE DEF objVars, callerVars, asyncVars, ReleasedTwice, Twice, Async
<1>1. ASSUME NEW p \in Callers, ~ReleasedTwice, Join(p) PROVE IdleInv'
  BY <1>1 DEF Join, TakeRef, IdleInv
<1>2. ASSUME NEW p \in Callers, ~ReleasedTwice, Lead(p) PROVE IdleInv'
  BY <1>2 DEF Lead, NotInFlight, IdleInv
<1>3. ASSUME NEW p \in Callers, ~ReleasedTwice, Releases(p) PROVE IdleInv'
  BY <1>3 DEF Releases, Release, InternalRelease, DropRef, IsLast, IdleInv
<1>4. ASSUME NEW p \in Callers, ~ReleasedTwice, Recycles(p) PROVE IdleInv'
  BY <1>4 DEF Recycles, RecycleCall, InternalRecycle, Recycle, IdleInv
<1>5. ASSUME NEW p \in Callers, ~ReleasedTwice, Finishes(p) PROVE IdleInv'
  BY <1>5 DEF Finishes, FinishUnlist, AsyncOnceFails, InternalFinish, FinishAsync, Unlist,
     IdleInv
<1>6. ASSUME NEW p \in Callers, ~ReleasedTwice, Moves(p) PROVE IdleInv'
  BY <1>6 DEF Moves, Publish, FinishClose, FollowerReads, AsyncOnceReturns, CloseDone,
     IdleInv
<1>7. ASSUME NEW p \in Callers, ~ReleasedTwice, AddSub(p) PROVE IdleInv'
  BY <1>7 DEF AddSub, IdleInv
<1>8. ASSUME NEW p \in Callers, ~ReleasedTwice, Answers(p) PROVE IdleInv'
  BY <1>8 DEF Answers, RequestDone, RequestDropped, CallHandler, IdleInv
<1>9. ASSUME NEW p \in Callers, ~ReleasedTwice, SubTimeout(p) PROVE IdleInv'
  BY <1>9 DEF SubTimeout, Fire, CallHandler, IdleInv
<1>10. ASSUME NEW p \in Callers, ~ReleasedTwice, SubFired(p) PROVE IdleInv'
  BY <1>10 DEF SubFired, Fire, CallHandler, IdleInv, FiringInv
<1>11. ASSUME NEW p \in Callers, FollowerGivesUp(p) PROVE IdleInv'
  BY <1>11 DEF FollowerGivesUp, IdleInv
<1>12. CASE UNCHANGED <<pc, round, owes, obj, joined, got, reg, ipc, timer, fired, hcalls>>
  BY <1>12 DEF IdleInv
<1> QED
  BY Zenon, <1>0, <1>1, <1>2, <1>3, <1>4, <1>5, <1>6, <1>7, <1>8, <1>9, <1>10, <1>11,
     <1>12 DEF Fires

\* Lead takes an object that nobody holds, Join one that its leader holds, and
\* recycle one that nobody holds.
LEMMA OwesNext ==
  ASSUME TypeOK, IdleInv, OwesInv, CallerInv, RecycleInv, PoolInv, ListInv, [Next]_vars
  PROVE  OwesInv'
<1>0. \/ UNCHANGED <<owes, obj, joined, round, pooled, pc, ipc>>
      \/ /\ ~ReleasedTwice
         /\ \E p \in Callers : \/ Join(p) \/ Lead(p) \/ Releases(p)
                               \/ Recycles(p) \/ Finishes(p) \/ Moves(p) \/ AddSub(p) \/ Answers(p)
      \/ \E p \in Callers : FollowerGivesUp(p)
  BY Zenon, Cases, Frames DEF vars, objVars, callerVars, asyncVars
<1> USE SingleflightAssumption DEF SingleflightAssumption, TypeOK
<1> USE DEF objVars, callerVars, asyncVars, ReleasedTwice, Twice, Async
<1>1. ASSUME NEW p \in Callers, ~ReleasedTwice, Join(p) PROVE OwesInv'
  BY <1>1 DEF Join, TakeRef, IdleInv, OwesInv, ListInv, Leads
<1>2. ASSUME NEW p \in Callers, ~ReleasedTwice, Lead(p) PROVE OwesInv'
  BY <1>2 DEF Lead, NotInFlight, OwesInv, CallerInv, RecycleInv, PoolInv
<1>3. ASSUME NEW p \in Callers, ~ReleasedTwice, Releases(p) PROVE OwesInv'
  BY <1>3 DEF Releases, Release, InternalRelease, DropRef, IsLast, OwesInv
<1>4. ASSUME NEW p \in Callers, ~ReleasedTwice, Recycles(p) PROVE OwesInv'
  BY <1>4 DEF Recycles, RecycleCall, InternalRecycle, Recycle, IdleInv, OwesInv, CallerInv,
     RecycleInv, Held
<1>5. ASSUME NEW p \in Callers, ~ReleasedTwice, Finishes(p) PROVE OwesInv'
  BY <1>5 DEF Finishes, FinishUnlist, AsyncOnceFails, InternalFinish, FinishAsync, Unlist,
     OwesInv
<1>6. ASSUME NEW p \in Callers, ~ReleasedTwice, Moves(p) PROVE OwesInv'
  BY <1>6 DEF Moves, Publish, FinishClose, FollowerReads, AsyncOnceReturns, CloseDone,
     OwesInv
<1>7. ASSUME NEW p \in Callers, ~ReleasedTwice, AddSub(p) PROVE OwesInv'
  BY <1>7 DEF AddSub, OwesInv
<1>8. ASSUME NEW p \in Callers, ~ReleasedTwice, Answers(p) PROVE OwesInv'
  BY <1>8 DEF Answers, RequestDone, RequestDropped, CallHandler, OwesInv
<1>9. ASSUME NEW p \in Callers, FollowerGivesUp(p) PROVE OwesInv'
  BY <1>9 DEF FollowerGivesUp, OwesInv
<1>10. CASE UNCHANGED <<owes, obj, joined, round, pooled, pc, ipc>>
  BY <1>10 DEF OwesInv
<1> QED
  BY Zenon, <1>0, <1>1, <1>2, <1>3, <1>4, <1>5, <1>6, <1>7, <1>8, <1>9, <1>10

\* Each caller follows its own path; a follower joins a leader other than itself.
LEMMA CallerNext ==
  ASSUME TypeOK, IdleInv, OwesInv, CallerInv, ListInv, [Next]_vars
  PROVE  CallerInv'
<1>0. \/ UNCHANGED <<key, pc, obj, joined, owes, reg, ipc>>
      \/ /\ ~ReleasedTwice
         /\ \E p \in Callers : \/ Join(p) \/ Lead(p) \/ Releases(p)
                               \/ Recycles(p) \/ Finishes(p) \/ Moves(p) \/ AddSub(p) \/ Answers(p)
      \/ \E p \in Callers : FollowerGivesUp(p)
  BY Zenon, Cases, Frames DEF vars, objVars, callerVars, asyncVars
<1> USE SingleflightAssumption DEF SingleflightAssumption, TypeOK
<1> USE DEF objVars, callerVars, asyncVars, ReleasedTwice, Twice, Async
<1>1. ASSUME NEW p \in Callers, ~ReleasedTwice, Join(p) PROVE CallerInv'
  BY <1>1 DEF Join, TakeRef, IdleInv, OwesInv, CallerInv, ListInv, Leads
<1>2. ASSUME NEW p \in Callers, ~ReleasedTwice, Lead(p) PROVE CallerInv'
  BY <1>2 DEF Lead, NotInFlight, IdleInv, CallerInv
<1>3. ASSUME NEW p \in Callers, ~ReleasedTwice, Releases(p) PROVE CallerInv'
  BY <1>3 DEF Releases, Release, InternalRelease, DropRef, IsLast, CallerInv
<1>4. ASSUME NEW p \in Callers, ~ReleasedTwice, Recycles(p) PROVE CallerInv'
  BY <1>4 DEF Recycles, RecycleCall, InternalRecycle, Recycle, CallerInv
<1>5. ASSUME NEW p \in Callers, ~ReleasedTwice, Finishes(p) PROVE CallerInv'
  BY <1>5 DEF Finishes, FinishUnlist, AsyncOnceFails, InternalFinish, FinishAsync, Unlist,
     CallerInv
<1>6. ASSUME NEW p \in Callers, ~ReleasedTwice, Moves(p) PROVE CallerInv'
  BY <1>6 DEF Moves, Publish, FinishClose, FollowerReads, AsyncOnceReturns, CloseDone,
     CallerInv
<1>7. ASSUME NEW p \in Callers, ~ReleasedTwice, AddSub(p) PROVE CallerInv'
  BY <1>7 DEF AddSub, CallerInv
<1>8. ASSUME NEW p \in Callers, ~ReleasedTwice, Answers(p) PROVE CallerInv'
  BY <1>8 DEF Answers, RequestDone, RequestDropped, CallHandler, CallerInv
<1>9. ASSUME NEW p \in Callers, FollowerGivesUp(p) PROVE CallerInv'
  BY <1>9 DEF FollowerGivesUp, CallerInv
<1>10. CASE UNCHANGED <<key, pc, obj, joined, owes, reg, ipc>>
  BY <1>10 DEF CallerInv
<1> QED
  BY Zenon, <1>0, <1>1, <1>2, <1>3, <1>4, <1>5, <1>6, <1>7, <1>8, <1>9, <1>10

\* Only recycle puts an object into the pool, once, and acquire takes it out.
LEMMA PoolNext ==
  ASSUME TypeOK, RecycleInv, PoolInv, [Next]_vars
  PROVE  PoolInv'
<1>0. \/ UNCHANGED <<calls, pooled, round>>
      \/ ~ReleasedTwice /\ \E p \in Callers : Join(p) \/ Lead(p) \/ Recycles(p) \/ Finishes(p)
  BY Zenon, Cases, Frames DEF vars, objVars, callerVars, asyncVars
<1> USE SingleflightAssumption DEF SingleflightAssumption, TypeOK
<1> USE DEF objVars, callerVars, asyncVars, ReleasedTwice, Twice, Async
<1>1. ASSUME NEW p \in Callers, ~ReleasedTwice, Join(p) PROVE PoolInv'
  BY <1>1 DEF Join, TakeRef, PoolInv
<1>2. ASSUME NEW p \in Callers, ~ReleasedTwice, Lead(p) PROVE PoolInv'
  BY <1>2 DEF Lead, NotInFlight, PoolInv
<1>3. ASSUME NEW p \in Callers, ~ReleasedTwice, Recycles(p) PROVE PoolInv'
  BY <1>3 DEF Recycles, RecycleCall, InternalRecycle, Recycle, RecycleInv, PoolInv
<1>4. ASSUME NEW p \in Callers, ~ReleasedTwice, Finishes(p) PROVE PoolInv'
  BY <1>4 DEF Finishes, FinishUnlist, AsyncOnceFails, InternalFinish, FinishAsync, Unlist,
     PoolInv
<1>5. CASE UNCHANGED <<calls, pooled, round>>
  BY <1>5 DEF PoolInv
<1> QED
  BY Zenon, <1>0, <1>1, <1>2, <1>3, <1>4, <1>5

\* An entry stays until its leader takes it out, and a new one is that of a leader.
LEMMA ListNext ==
  ASSUME TypeOK, OwesInv, CallerInv, ListInv, [Next]_vars
  PROVE  ListInv'
<1>0. \/ UNCHANGED <<calls, key, pc, obj, joined, owes, reg, ipc>>
      \/ /\ ~ReleasedTwice
         /\ \E p \in Callers : \/ Join(p) \/ Lead(p) \/ Releases(p)
                               \/ Recycles(p) \/ Finishes(p) \/ Moves(p) \/ AddSub(p) \/ Answers(p)
      \/ \E p \in Callers : FollowerGivesUp(p)
  BY Zenon, Cases, Frames DEF vars, objVars, callerVars, asyncVars
<1> USE SingleflightAssumption DEF SingleflightAssumption, TypeOK
<1> USE DEF objVars, callerVars, asyncVars, ReleasedTwice, Twice, Async
<1>1. ASSUME NEW p \in Callers, ~ReleasedTwice, Join(p) PROVE ListInv'
  BY <1>1 DEF Join, TakeRef, ListInv, Leads
<1>2. ASSUME NEW p \in Callers, ~ReleasedTwice, Lead(p) PROVE ListInv'
  BY <1>2 DEF Lead, NotInFlight, OwesInv, ListInv, Leads
<1>3. ASSUME NEW p \in Callers, ~ReleasedTwice, Releases(p) PROVE ListInv'
  BY <1>3 DEF Releases, Release, InternalRelease, DropRef, IsLast, CallerInv, ListInv, Leads
<1>4. ASSUME NEW p \in Callers, ~ReleasedTwice, Recycles(p) PROVE ListInv'
  <2>1. ASSUME NEW k \in Keys, NEW q \in Callers, Leads(q, k)
        PROVE  Leads(q, k)'
    BY <2>1, <1>4 DEF Recycles, RecycleCall, InternalRecycle, Leads
  <2> QED
    BY <2>1, <1>4 DEF Recycles, RecycleCall, InternalRecycle, ListInv
<1>5. ASSUME NEW p \in Callers, ~ReleasedTwice, Finishes(p) PROVE ListInv'
  <2>1. \A k \in Keys : calls'[k] \in {calls[k], None}
    BY <1>5 DEF Finishes, FinishUnlist, AsyncOnceFails, InternalFinish, FinishAsync, Unlist
  <2>2. joined[p] = p => calls'[key[p]] # obj[p]
    BY <1>5 DEF Finishes, FinishUnlist, AsyncOnceFails, InternalFinish, FinishAsync,
       Unlist, CallerInv
  <2>3. ASSUME NEW k \in Keys, calls'[k] # None, NEW q \in Callers, Leads(q, k)
        PROVE  Leads(q, k)'
    <3>1. calls'[k] = calls[k] /\ q # p
      BY <2>1, <2>2, <2>3 DEF Leads
    <3> QED
      BY <3>1, <2>3, <1>5 DEF Finishes, FinishUnlist, AsyncOnceFails, InternalFinish,
         FinishAsync, Leads
  <2> QED
    BY <2>1, <2>3 DEF ListInv
<1>6. ASSUME NEW p \in Callers, ~ReleasedTwice, Moves(p) PROVE ListInv'
  BY <1>6 DEF Moves, Publish, FinishClose, FollowerReads, AsyncOnceReturns, CloseDone,
     ListInv, Leads
<1>7. ASSUME NEW p \in Callers, ~ReleasedTwice, AddSub(p) PROVE ListInv'
  BY <1>7 DEF AddSub, ListInv, Leads
<1>8. ASSUME NEW p \in Callers, ~ReleasedTwice, Answers(p) PROVE ListInv'
  BY <1>8 DEF Answers, RequestDone, RequestDropped, CallHandler, OwesInv, ListInv, Leads
<1>9. ASSUME NEW p \in Callers, FollowerGivesUp(p) PROVE ListInv'
  BY <1>9 DEF FollowerGivesUp, ListInv, Leads
<1>10. CASE UNCHANGED <<calls, key, pc, obj, joined, owes, reg, ipc>>
  BY <1>10 DEF ListInv, Leads
<1> QED
  BY Zenon, <1>0, <1>1, <1>2, <1>3, <1>4, <1>5, <1>6, <1>7, <1>8, <1>9, <1>10

\* Nobody but the leader takes its entry out or replaces it.
LEMMA LeaderNext ==
  ASSUME TypeOK, OwesInv, CallerInv, LeaderInv, [Next]_vars
  PROVE  LeaderInv'
<1>0. \/ UNCHANGED <<calls, key, pc, obj>>
      \/ /\ ~ReleasedTwice
         /\ \E p \in Callers : \/ Join(p) \/ Lead(p) \/ Releases(p)
                               \/ Recycles(p) \/ Finishes(p) \/ Moves(p) \/ AddSub(p)
      \/ \E p \in Callers : FollowerGivesUp(p)
  BY Zenon, Cases, Frames DEF vars, objVars, callerVars, asyncVars
<1> USE SingleflightAssumption DEF SingleflightAssumption, TypeOK
<1> USE DEF objVars, callerVars, asyncVars, ReleasedTwice, Twice, Async
<1>1. ASSUME NEW p \in Callers, ~ReleasedTwice, Join(p) PROVE LeaderInv'
  BY <1>1 DEF Join, TakeRef, LeaderInv
<1>2. ASSUME NEW p \in Callers, ~ReleasedTwice, Lead(p) PROVE LeaderInv'
  BY <1>2 DEF Lead, NotInFlight, CallerInv, LeaderInv
<1>3. ASSUME NEW p \in Callers, ~ReleasedTwice, Releases(p) PROVE LeaderInv'
  BY <1>3 DEF Releases, Release, InternalRelease, DropRef, IsLast, LeaderInv
<1>4. ASSUME NEW p \in Callers, ~ReleasedTwice, Recycles(p) PROVE LeaderInv'
  BY <1>4 DEF Recycles, RecycleCall, InternalRecycle, Recycle, LeaderInv
<1>5. ASSUME NEW p \in Callers, ~ReleasedTwice, Finishes(p) PROVE LeaderInv'
  BY <1>5 DEF Finishes, FinishUnlist, AsyncOnceFails, InternalFinish, FinishAsync, Unlist,
     OwesInv, CallerInv, LeaderInv
<1>6. ASSUME NEW p \in Callers, ~ReleasedTwice, Moves(p) PROVE LeaderInv'
  BY <1>6 DEF Moves, Publish, FinishClose, FollowerReads, AsyncOnceReturns, CloseDone,
     LeaderInv
<1>7. ASSUME NEW p \in Callers, ~ReleasedTwice, AddSub(p) PROVE LeaderInv'
  BY <1>7 DEF AddSub, LeaderInv
<1>8. ASSUME NEW p \in Callers, FollowerGivesUp(p) PROVE LeaderInv'
  BY <1>8 DEF FollowerGivesUp, LeaderInv
<1>9. CASE UNCHANGED <<calls, key, pc, obj>>
  BY <1>9 DEF LeaderInv
<1> QED
  BY Zenon, <1>0, <1>1, <1>2, <1>3, <1>4, <1>5, <1>6, <1>7, <1>8, <1>9

\* Only the leader of the round publishes its result in the object.
LEMMA ValNext ==
  ASSUME TypeOK, OwesInv, CallerInv, PoolInv, ValInv, [Next]_vars
  PROVE  ValInv'
<1>0. \/ UNCHANGED <<val, round>>
      \/ ~ReleasedTwice /\ \E p \in Callers : Join(p) \/ Lead(p) \/ Recycles(p) \/ Moves(p)
  BY Zenon, Cases, Frames DEF vars, objVars, callerVars, asyncVars
<1> USE SingleflightAssumption DEF SingleflightAssumption, TypeOK
<1> USE DEF objVars, callerVars, asyncVars, ReleasedTwice, Twice, Async
<1>1. ASSUME NEW p \in Callers, ~ReleasedTwice, Join(p) PROVE ValInv'
  BY <1>1 DEF Join, TakeRef, ValInv
<1>2. ASSUME NEW p \in Callers, ~ReleasedTwice, Lead(p) PROVE ValInv'
  BY <1>2 DEF Lead, NotInFlight, PoolInv, ValInv
<1>3. ASSUME NEW p \in Callers, ~ReleasedTwice, Recycles(p) PROVE ValInv'
  BY <1>3 DEF Recycles, RecycleCall, InternalRecycle, Recycle, ValInv
<1>4. ASSUME NEW p \in Callers, ~ReleasedTwice, Moves(p) PROVE ValInv'
  BY <1>4 DEF Moves, Publish, FinishClose, FollowerReads, AsyncOnceReturns, CloseDone,
     OwesInv, CallerInv, ValInv
<1>5. CASE UNCHANGED <<val, round>>
  BY <1>5 DEF ValInv
<1> QED
  BY Zenon, <1>0, <1>1, <1>2, <1>3, <1>4, <1>5

\* Only a follower of the round subscribes; recycle empties the list.
LEMMA SubsNext ==
  ASSUME TypeOK, OwesInv, CallerInv, PoolInv, SubsInv, [Next]_vars
  PROVE  SubsInv'
<1>0. \/ UNCHANGED <<subs, round, joined, reg, pc>>
      \/ /\ ~ReleasedTwice
         /\ \E p \in Callers : \/ Join(p) \/ Lead(p) \/ Releases(p)
                               \/ Recycles(p) \/ Finishes(p) \/ Moves(p) \/ AddSub(p) \/ Answers(p)
      \/ \E p \in Callers : FollowerGivesUp(p)
  BY Zenon, Cases, Frames DEF vars, objVars, callerVars, asyncVars
<1> USE SingleflightAssumption DEF SingleflightAssumption, TypeOK
<1> USE DEF objVars, callerVars, asyncVars, ReleasedTwice, Twice, Async
<1>1. ASSUME NEW p \in Callers, ~ReleasedTwice, Join(p) PROVE SubsInv'
  BY <1>1 DEF Join, TakeRef, SubsInv
<1>2. ASSUME NEW p \in Callers, ~ReleasedTwice, Lead(p) PROVE SubsInv'
  BY <1>2 DEF Lead, NotInFlight, PoolInv, SubsInv
<1>3. ASSUME NEW p \in Callers, ~ReleasedTwice, Releases(p) PROVE SubsInv'
  BY <1>3 DEF Releases, Release, InternalRelease, DropRef, IsLast, PoolInv, SubsInv
<1>4. ASSUME NEW p \in Callers, ~ReleasedTwice, Recycles(p) PROVE SubsInv'
  <2>1. CASE RecycleCall(p)
    BY <2>1 DEF RecycleCall, Recycle, SubsInv
  <2>2. CASE InternalRecycle(p)
    BY <2>2 DEF InternalRecycle, Recycle, SubsInv
  <2> QED
    BY Zenon, <1>4, <2>1, <2>2 DEF Recycles
<1>5. ASSUME NEW p \in Callers, ~ReleasedTwice, Finishes(p) PROVE SubsInv'
  BY <1>5 DEF Finishes, FinishUnlist, AsyncOnceFails, InternalFinish, FinishAsync, Unlist,
     OwesInv, SubsInv
<1>6. ASSUME NEW p \in Callers, ~ReleasedTwice, Moves(p) PROVE SubsInv'
  BY <1>6 DEF Moves, Publish, FinishClose, FollowerReads, AsyncOnceReturns, CloseDone,
     SubsInv
<1>7. ASSUME NEW p \in Callers, ~ReleasedTwice, AddSub(p) PROVE SubsInv'
  <2>1. p \in owes /\ obj[p] \in Objs /\ round[obj[p]] = joined[p]
    BY <1>7 DEF AddSub, OwesInv, CallerInv
  <2>2. CASE finished[obj[p]]
    BY <1>7, <2>2 DEF AddSub, SubsInv
  <2>3. CASE ~finished[obj[p]]
    BY <1>7, <2>1, <2>3 DEF AddSub, CallerInv, SubsInv
  <2> QED
    BY <2>2, <2>3
<1>8. ASSUME NEW p \in Callers, ~ReleasedTwice, Answers(p) PROVE SubsInv'
  BY <1>8 DEF Answers, RequestDone, RequestDropped, CallHandler, SubsInv
<1>9. ASSUME NEW p \in Callers, FollowerGivesUp(p) PROVE SubsInv'
  BY <1>9 DEF FollowerGivesUp, SubsInv
<1>10. CASE UNCHANGED <<subs, round, joined, reg, pc>>
  BY <1>10 DEF SubsInv
<1> QED
  BY Zenon, <1>0, <1>1, <1>2, <1>3, <1>4, <1>5, <1>6, <1>7, <1>8, <1>9, <1>10

\* The leader hands over the followers of its round, unless it released it before.
LEMMA FiringNext ==
  ASSUME TypeOK, IdleInv, OwesInv, CallerInv, SubsInv, FiringInv, [Next]_vars
  PROVE  FiringInv'
<1>0. \/ UNCHANGED <<firing, joined, key, reg, pc>>
      \/ /\ ~ReleasedTwice
         /\ \E p \in Callers : \/ Join(p) \/ Lead(p) \/ Releases(p)
                               \/ Recycles(p) \/ Finishes(p) \/ Moves(p) \/ AddSub(p) \/ Answers(p)
                               \/ Fires(p)
      \/ \E p \in Callers : FollowerGivesUp(p)
  BY Zenon, Cases, Frames DEF vars, objVars, callerVars, asyncVars
<1> USE SingleflightAssumption DEF SingleflightAssumption, TypeOK
<1> USE DEF objVars, callerVars, asyncVars, ReleasedTwice, Twice, Async
<1>1. ASSUME NEW p \in Callers, ~ReleasedTwice, Join(p) PROVE FiringInv'
  BY <1>1 DEF Join, TakeRef, IdleInv, FiringInv
<1>2. ASSUME NEW p \in Callers, ~ReleasedTwice, Lead(p) PROVE FiringInv'
  BY <1>2 DEF Lead, NotInFlight, IdleInv, FiringInv
<1>3. ASSUME NEW p \in Callers, ~ReleasedTwice, Releases(p) PROVE FiringInv'
  BY <1>3 DEF Releases, Release, InternalRelease, DropRef, IsLast, FiringInv
<1>4. ASSUME NEW p \in Callers, ~ReleasedTwice, Recycles(p) PROVE FiringInv'
  BY <1>4 DEF Recycles, RecycleCall, InternalRecycle, Recycle, FiringInv
<1>5. ASSUME NEW p \in Callers, ~ReleasedTwice, Finishes(p) PROVE FiringInv'
  BY <1>5 DEF Finishes, FinishUnlist, AsyncOnceFails, InternalFinish, FinishAsync, Unlist,
     OwesInv, CallerInv, SubsInv, FiringInv
<1>6. ASSUME NEW p \in Callers, ~ReleasedTwice, Moves(p) PROVE FiringInv'
  BY <1>6 DEF Moves, Publish, FinishClose, FollowerReads, AsyncOnceReturns, CloseDone,
     FiringInv
<1>7. ASSUME NEW p \in Callers, ~ReleasedTwice, AddSub(p) PROVE FiringInv'
  BY <1>7 DEF AddSub, FiringInv
<1>8. ASSUME NEW p \in Callers, ~ReleasedTwice, Answers(p) PROVE FiringInv'
  BY <1>8 DEF Answers, RequestDone, RequestDropped, CallHandler, FiringInv
<1>9. ASSUME NEW p \in Callers, ~ReleasedTwice, SubTimeout(p) PROVE FiringInv'
  BY <1>9 DEF SubTimeout, Fire, CallHandler, FiringInv
<1>10. ASSUME NEW p \in Callers, ~ReleasedTwice, SubFired(p) PROVE FiringInv'
  BY <1>10 DEF SubFired, Fire, CallHandler, FiringInv
<1>11. ASSUME NEW p \in Callers, FollowerGivesUp(p) PROVE FiringInv'
  BY <1>11 DEF FollowerGivesUp, FiringInv
<1>12. CASE UNCHANGED <<firing, joined, key, reg, pc>>
  BY <1>12 DEF FiringInv
<1> QED
  BY Zenon, <1>0, <1>1, <1>2, <1>3, <1>4, <1>5, <1>6, <1>7, <1>8, <1>9, <1>10, <1>11,
     <1>12 DEF Fires

\* The first fire sets fired and calls the handler, a later one does nothing.
LEMMA FireNext ==
  ASSUME TypeOK, IdleInv, FireInv, [Next]_vars
  PROVE  FireInv'
<1>0. \/ UNCHANGED <<joined, reg, hcalls, fired>>
      \/ /\ ~ReleasedTwice
         /\ \E p \in Callers : \/ Join(p) \/ Lead(p) \/ Finishes(p) \/ AddSub(p)
                                  \/ Answers(p) \/ Fires(p)
  BY Zenon, Cases, Frames DEF vars, objVars, callerVars, asyncVars
<1> USE SingleflightAssumption DEF SingleflightAssumption, TypeOK
<1> USE DEF objVars, callerVars, asyncVars, ReleasedTwice, Twice, Async
<1>1. ASSUME NEW p \in Callers, ~ReleasedTwice, Join(p) PROVE FireInv'
  BY <1>1 DEF Join, TakeRef, IdleInv, FireInv
<1>2. ASSUME NEW p \in Callers, ~ReleasedTwice, Lead(p) PROVE FireInv'
  BY <1>2 DEF Lead, NotInFlight, FireInv
<1>3. ASSUME NEW p \in Callers, ~ReleasedTwice, Finishes(p) PROVE FireInv'
  BY <1>3 DEF Finishes, FinishUnlist, AsyncOnceFails, InternalFinish, FinishAsync, Unlist,
     FireInv
<1>4. ASSUME NEW p \in Callers, ~ReleasedTwice, AddSub(p) PROVE FireInv'
  BY <1>4 DEF AddSub, FireInv
<1>5. ASSUME NEW p \in Callers, ~ReleasedTwice, Answers(p) PROVE FireInv'
  BY <1>5 DEF Answers, RequestDone, RequestDropped, CallHandler, FireInv
<1>6. ASSUME NEW p \in Callers, ~ReleasedTwice, SubTimeout(p) PROVE FireInv'
  BY <1>6 DEF SubTimeout, Fire, CallHandler, FireInv
<1>7. ASSUME NEW p \in Callers, ~ReleasedTwice, SubFired(p) PROVE FireInv'
  BY <1>7 DEF SubFired, Fire, CallHandler, FireInv
<1>8. CASE UNCHANGED <<joined, reg, hcalls, fired>>
  BY <1>8 DEF FireInv
<1> QED
  BY Zenon, <1>0, <1>1, <1>2, <1>3, <1>4, <1>5, <1>6, <1>7, <1>8 DEF Fires

\* What a follower reads, or is passed, is the result of the round it joined.
LEMMA OwnRoundNext ==
  ASSUME TypeOK, IdleInv, OwesInv, CallerInv, ValInv, FiringInv, OwnRound, [Next]_vars
  PROVE  OwnRound'
<1>0. \/ UNCHANGED <<got, joined>>
      \/ /\ ~ReleasedTwice
         /\ \E p \in Callers : \/ Join(p) \/ Lead(p) \/ Moves(p) \/ Answers(p)
                                  \/ Fires(p)
  BY Zenon, Cases, Frames DEF vars, objVars, callerVars, asyncVars
<1> USE SingleflightAssumption DEF SingleflightAssumption, TypeOK
<1> USE DEF objVars, callerVars, asyncVars, ReleasedTwice, Twice, Async
<1>1. ASSUME NEW p \in Callers, ~ReleasedTwice, Join(p) PROVE OwnRound'
  BY <1>1 DEF Join, TakeRef, IdleInv, OwnRound
<1>2. ASSUME NEW p \in Callers, ~ReleasedTwice, Lead(p) PROVE OwnRound'
  BY <1>2 DEF Lead, NotInFlight, IdleInv, OwnRound
<1>3. ASSUME NEW p \in Callers, ~ReleasedTwice, Moves(p) PROVE OwnRound'
  BY <1>3 DEF Moves, Publish, FinishClose, FollowerReads, AsyncOnceReturns, CloseDone,
     OwesInv, CallerInv, ValInv, OwnRound
<1>4. ASSUME NEW p \in Callers, ~ReleasedTwice, Answers(p) PROVE OwnRound'
  BY <1>4 DEF Answers, RequestDone, RequestDropped, CallHandler, OwnRound
<1>5. ASSUME NEW p \in Callers, ~ReleasedTwice, SubTimeout(p) PROVE OwnRound'
  BY <1>5 DEF SubTimeout, Fire, CallHandler, OwnRound
<1>6. ASSUME NEW p \in Callers, ~ReleasedTwice, SubFired(p) PROVE OwnRound'
  BY <1>6 DEF SubFired, Fire, CallHandler, FiringInv, OwnRound
<1>7. CASE UNCHANGED <<got, joined>>
  BY <1>7 DEF OwnRound
<1> QED
  BY Zenon, <1>0, <1>1, <1>2, <1>3, <1>4, <1>5, <1>6, <1>7 DEF Fires

=============================================================================
