------------------------- MODULE Singleflight_proofs -------------------------
(***************************************************************************)
(* Proofs about Singleflight, for any sets of callers, keys and objects:    *)
(* call.refs counts the callers between acquire and releaseCall, so that    *)
(* the one that brings it to 0 is alone with the object, and the theorems   *)
(* that follow from the invariant of Singleflight_lemmas.                   *)
(***************************************************************************)
EXTENDS Singleflight_lemmas, FiniteSetTheorems

-----------------------------------------------------------------------------
(* Reference counts                                                        *)

\* Finitely many callers hold an object, and none beside those that owe one.
LEMMA HeldFinite ==
  ASSUME TypeOK, NEW o
  PROVE  IsFiniteSet(Held(o))
BY FS_Subset, SingleflightAssumption DEF SingleflightAssumption, TypeOK, Held

\* As long as a caller owes a reference the count is positive, and when it is 1
\* that caller is the only holder.
LEMMA LastHolder ==
  ASSUME TypeOK, RefsInv, NEW p \in owes, obj[p] \in Objs
  PROVE  /\ refs[obj[p]] > 0
         /\ refs[obj[p]] = 1 => Held(obj[p]) = {p}
<1> DEFINE H == Held(obj[p])
<1>0. IsFiniteSet(H)
  BY HeldFinite
<1>1. p \in H /\ Cardinality(H) = refs[obj[p]]
  BY DEF Held, RefsInv
<1>2. /\ IsFiniteSet(H \ {p})
      /\ Cardinality(H \ {p}) = Cardinality(H) - 1
      /\ Cardinality(H \ {p}) \in Nat
  BY <1>0, <1>1, FS_RemoveElement, FS_CardinalityType
<1>3. Cardinality(H \ {p}) = 0 => H \ {p} = {}
  BY <1>2, FS_EmptySet
<1> QED
  BY <1>0, <1>1, <1>2, <1>3, FS_CardinalityType

\* A function stays one when one of its values is replaced.
LEMMA Update ==
  ASSUME NEW S, NEW T, NEW f \in [S -> T], NEW x, NEW e \in T
  PROVE  [f EXCEPT ![x] = e] \in [S -> T]
BY Zenon

-----------------------------------------------------------------------------
(* A step keeps what depends on the counts                                 *)

\* The objects' references stay natural numbers, as only who owes one drops one.
LEMMA TypeNext ==
  ASSUME TypeOK, IdleInv, CallerInv, RefsInv, [Next]_vars
  PROVE  TypeOK'
<1>0. \A p \in owes : obj[p] \in Objs => refs[obj[p]] > 0
  BY LastHolder
<1> USE SingleflightAssumption DEF SingleflightAssumption, TypeOK
<1> USE DEF objVars, callerVars, asyncVars, ReleasedTwice, Twice, Async
<1>a. ASSUME NEW p \in Callers, obj[p] \in Objs, FinishAsync(p)
      PROVE  /\ calls' \in [Keys -> Objs \cup {None}] /\ finished' \in [Objs -> BOOLEAN]
             /\ subs' \in [Objs -> SUBSET Callers] /\ firing' \in SUBSET (Callers \X Callers)
  <2>1. finished' \in [Objs -> BOOLEAN]
    BY Zenon, <1>a, Update DEF FinishAsync
  <2>2. subs[obj[p]] \X {p} \in SUBSET (Callers \X Callers)
    BY <1>a
  <2>3. subs' \in [Objs -> SUBSET Callers]
    BY Zenon, <1>a, Update DEF FinishAsync
  <2>4. calls' \in [Keys -> Objs \cup {None}]
    BY <1>a DEF FinishAsync, Unlist
  <2>5. firing' \in SUBSET (Callers \X Callers)
    BY <1>a, <2>2 DEF FinishAsync
  <2> QED
    BY <2>1, <2>3, <2>4, <2>5
<1>1. ASSUME NEW p \in Callers, Join(p) PROVE TypeOK'
  BY <1>1 DEF Join, TakeRef
<1>2. ASSUME NEW p \in Callers, Lead(p) PROVE TypeOK'
  BY <1>2 DEF Lead, NotInFlight
<1>3. ASSUME NEW p \in Callers, ~ReleasedTwice, Releases(p) PROVE TypeOK'
  <2>1. refs' \in [Objs -> Nat] /\ owes' \in SUBSET Callers
    BY <1>0, <1>3 DEF Releases, Release, InternalRelease, DropRef, CallerInv
  <2>2. CASE Release(p)
    BY <2>1, <2>2 DEF Release
  <2>3. CASE InternalRelease(p)
    BY <2>1, <2>3 DEF InternalRelease
  <2> QED
    BY Zenon, <1>3, <2>2, <2>3 DEF Releases
<1>4. ASSUME NEW p \in Callers, Recycles(p) PROVE TypeOK'
  <2>1. CASE RecycleCall(p)
    BY <2>1 DEF RecycleCall, Recycle, CallerInv
  <2>2. CASE InternalRecycle(p)
    BY <2>2 DEF InternalRecycle, Recycle, IdleInv, CallerInv
  <2> QED
    BY Zenon, <1>4, <2>1, <2>2 DEF Recycles
<1>5. ASSUME NEW p \in Callers, Finishes(p) PROVE TypeOK'
  <2>1. CASE FinishUnlist(p)
    BY <2>1 DEF FinishUnlist, Unlist
  <2>2. CASE AsyncOnceFails(p)
    <3>1. CASE pc[p] = "request"
      <4>1. FinishAsync(p) /\ obj[p] \in Objs
        BY <2>2, <3>1 DEF AsyncOnceFails, CallerInv
      <4>2. /\ calls' \in [Keys -> Objs \cup {None}] /\ finished' \in [Objs -> BOOLEAN]
            /\ subs' \in [Objs -> SUBSET Callers] /\ firing' \in SUBSET (Callers \X Callers)
        BY <1>a, <4>1
      <4>3. /\ reg' \in [Callers -> {"no", "yes", "taken", "gone"}]
            /\ pc' \in [Callers -> {"idle", "joined", "request", "fallback", "unlist", "close",
                                    "release", "recycle", "ret"}]
        BY <2>2 DEF AsyncOnceFails
      <4> QED
        BY <2>2, <4>2, <4>3 DEF AsyncOnceFails
    <3>2. CASE pc[p] # "request"
      BY <2>2, <3>2 DEF AsyncOnceFails
    <3> QED
      BY <3>1, <3>2
  <2>3. CASE InternalFinish(p)
    <3>1. FinishAsync(p) /\ obj[p] \in Objs
      BY <2>3 DEF InternalFinish, CallerInv
    <3>2. /\ calls' \in [Keys -> Objs \cup {None}] /\ finished' \in [Objs -> BOOLEAN]
          /\ subs' \in [Objs -> SUBSET Callers] /\ firing' \in SUBSET (Callers \X Callers)
      BY <1>a, <3>1
    <3> QED
      BY <2>3, <3>2 DEF InternalFinish
  <2> QED
    BY Zenon, <1>5, <2>1, <2>2, <2>3 DEF Finishes
<1>6. ASSUME NEW p \in Callers, Moves(p) PROVE TypeOK'
  <2>1. CASE Publish(p)
    BY <2>1 DEF Publish, CallerInv
  <2>2. CASE FinishClose(p)
    BY <2>2 DEF FinishClose, CloseDone, CallerInv
  <2>3. CASE FollowerReads(p)
    BY <2>3 DEF FollowerReads, CallerInv
  <2>4. CASE AsyncOnceReturns(p)
    BY <2>4 DEF AsyncOnceReturns
  <2> QED
    BY <1>6, <2>1, <2>2, <2>3, <2>4 DEF Moves, CallerInv
<1>7. ASSUME NEW p \in Callers, AddSub(p) PROVE TypeOK'
  <2>1. CASE finished[obj[p]]
    BY <1>7, <2>1 DEF AddSub, IdleInv, CallerInv
  <2>2. CASE ~finished[obj[p]]
    <3>1. subs' \in [Objs -> SUBSET Callers]
      BY <1>7, <2>2 DEF AddSub
    <3> QED
      BY <1>7, <2>2, <3>1 DEF AddSub
  <2> QED
    BY <2>1, <2>2
<1>8. ASSUME NEW p \in Callers, Answers(p) PROVE TypeOK'
  <2>1. CASE RequestDone(p)
    BY <2>1 DEF RequestDone, CallHandler
  <2>2. CASE RequestDropped(p)
    BY <2>2 DEF RequestDropped
  <2> QED
    BY Zenon, <1>8, <2>1, <2>2 DEF Answers
<1>9. ASSUME NEW p \in Callers, Fires(p) PROVE TypeOK'
  <2>1. CASE SubTimeout(p)
    BY <2>1 DEF SubTimeout, Fire, CallHandler, IdleInv
  <2>2. CASE SubFired(p)
    <3>1. PICK r \in Callers :
              /\ firing' = firing \ {<<p, r>>}
              /\ Fire(p, r)
              /\ timer' = [timer EXCEPT ![p] = IF @ = "armed" /\ p \notin fired THEN "stopped" ELSE @]
              /\ UNCHANGED <<calls, objVars, pc, key, obj, joined, owes, reg, ipc>>
      BY Zenon, <2>2 DEF SubFired
    <3>2. /\ fired' \in SUBSET Callers
          /\ hcalls' \in [Callers -> Nat] /\ got' \in [Callers -> Callers \cup {None}]
      BY <3>1 DEF Fire, CallHandler, IdleInv
    <3>3. /\ firing' \in SUBSET (Callers \X Callers)
          /\ timer' \in [Callers -> {"off", "armed", "stopped", "fired"}]
      BY <3>1
    <3> QED
      BY <3>1, <3>2, <3>3
  <2> QED
    BY Zenon, <1>9, <2>1, <2>2 DEF Fires
<1>10. ASSUME NEW p \in Callers, FollowerGivesUp(p) PROVE TypeOK'
  BY <1>10 DEF FollowerGivesUp
<1>11. CASE UNCHANGED vars
  BY <1>11 DEF vars
<1> QED
  BY Zenon, <1>1, <1>2, <1>3, <1>4, <1>5, <1>6, <1>7, <1>8, <1>9, <1>10, <1>11, Cases

\* The last holder is alone with the object: a listed one has its leader as a
\* holder, who is not releasing yet.
LEMMA RecycleNext ==
  ASSUME TypeOK, OwesInv, CallerInv, RecycleInv, ListInv, RefsInv, [Next]_vars
  PROVE  RecycleInv'
<1>0. \/ UNCHANGED <<calls, pooled, owes, obj, pc, ipc>>
      \/ /\ ~ReleasedTwice
         /\ \E p \in Callers : \/ Join(p) \/ Lead(p) \/ Releases(p)
                               \/ Recycles(p) \/ Finishes(p) \/ Moves(p) \/ AddSub(p) \/ Answers(p)
      \/ \E p \in Callers : FollowerGivesUp(p)
  BY Zenon, Cases, Frames DEF vars, objVars, callerVars, asyncVars
<1>a. \A p \in owes : obj[p] \in Objs /\ refs[obj[p]] = 1 => Held(obj[p]) = {p}
  BY LastHolder
<1> USE SingleflightAssumption DEF SingleflightAssumption, TypeOK
<1> USE DEF objVars, callerVars, asyncVars, ReleasedTwice, Twice, Async
<1>1. ASSUME NEW p \in Callers, ~ReleasedTwice, Join(p) PROVE RecycleInv'
  BY <1>1 DEF Join, TakeRef, CallerInv, RecycleInv, Held
<1>2. ASSUME NEW p \in Callers, ~ReleasedTwice, Lead(p) PROVE RecycleInv'
  BY <1>2 DEF Lead, NotInFlight, CallerInv, RecycleInv, Held
<1>3. ASSUME NEW p \in Callers, ~ReleasedTwice, Releases(p) PROVE RecycleInv'
  <2> DEFINE o == obj[p]
  <2>1. p \in owes /\ o \in Objs /\ pooled[o] = 0
    BY <1>3 DEF Releases, Release, InternalRelease, OwesInv, CallerInv
  <2>2. \A q \in Callers : Held(obj[q]) = {} => Held(obj[q])' = {} /\ obj[q] # o
    BY <1>3, <2>1 DEF Releases, Release, InternalRelease, DropRef, Held
  <2>3. CASE refs[o] = 1
    <3>1. Held(o) = {p} /\ Held(o)' = {}
      BY <1>3, <1>a, <2>1, <2>3 DEF Releases, Release, InternalRelease, DropRef, Held
    <3>2. \A k \in Keys : calls[k] # o
      BY <1>3, <2>1, <3>1 DEF Releases, Release, InternalRelease, CallerInv, ListInv,
         Leads, Held
    <3> QED
      BY <1>3, <2>1, <2>2, <3>1, <3>2 DEF Releases, Release, InternalRelease, CallerInv,
         RecycleInv, Held
  <2>4. CASE refs[o] # 1
    BY <1>3, <2>2, <2>4 DEF Releases, Release, InternalRelease, IsLast, RecycleInv, Held
  <2> QED
    BY <2>3, <2>4
<1>4. ASSUME NEW p \in Callers, ~ReleasedTwice, Recycles(p) PROVE RecycleInv'
  BY <1>4 DEF Recycles, RecycleCall, InternalRecycle, Recycle, CallerInv, RecycleInv, Held
<1>5. ASSUME NEW p \in Callers, ~ReleasedTwice, Finishes(p) PROVE RecycleInv'
  BY <1>5 DEF Finishes, FinishUnlist, AsyncOnceFails, InternalFinish, FinishAsync, Unlist,
     CallerInv, RecycleInv, Held
<1>6. ASSUME NEW p \in Callers, ~ReleasedTwice, Moves(p) PROVE RecycleInv'
  BY <1>6 DEF Moves, Publish, FinishClose, FollowerReads, AsyncOnceReturns, CloseDone,
     RecycleInv, Held
<1>7. ASSUME NEW p \in Callers, ~ReleasedTwice, AddSub(p) PROVE RecycleInv'
  BY <1>7 DEF AddSub, RecycleInv, Held
<1>8. ASSUME NEW p \in Callers, ~ReleasedTwice, Answers(p) PROVE RecycleInv'
  BY <1>8 DEF Answers, RequestDone, RequestDropped, CallHandler, RecycleInv, Held
<1>9. ASSUME NEW p \in Callers, FollowerGivesUp(p) PROVE RecycleInv'
  BY <1>9 DEF FollowerGivesUp, RecycleInv, Held
<1>10. CASE UNCHANGED <<calls, pooled, owes, obj, pc, ipc>>
  BY <1>10 DEF RecycleInv, Held
<1> QED
  BY Zenon, <1>0, <1>1, <1>2, <1>3, <1>4, <1>5, <1>6, <1>7, <1>8, <1>9, <1>10

\* acquire adds its caller to the holders of an object, or makes it the only one;
\* the decrement of releaseCall takes it away.
LEMMA RefsNext ==
  ASSUME TypeOK, IdleInv, OwesInv, CallerInv, RecycleInv, RefsInv, [Next]_vars
  PROVE  RefsInv'
<1>0. \/ UNCHANGED <<refs, obj, owes>>
      \/ /\ ~ReleasedTwice
         /\ \E p \in Callers : Join(p) \/ Lead(p) \/ Releases(p) \/ Recycles(p)
  BY Zenon, Cases, Frames DEF vars, objVars, callerVars, asyncVars
<1>a. SUFFICES ASSUME NEW o \in Objs PROVE refs'[o] = Cardinality(Held(o)')
  BY DEF RefsInv
<1> DEFINE old == Held(o)
           new == Held(o)'
<1>b. IsFiniteSet(old) /\ refs[o] = Cardinality(old)
  BY HeldFinite DEF RefsInv
<1> SUFFICES refs'[o] = Cardinality(new)
  OBVIOUS
<1> HIDE DEF old, new
<1>c. Cardinality({}) = 0
  BY FS_EmptySet
<1>d. ASSUME NEW p
      PROVE  /\ p \notin old => Cardinality(old \cup {p}) = refs[o] + 1
             /\ p \in old => Cardinality(old \ {p}) = refs[o] - 1
             /\ Cardinality({p}) = 1
  <2>1. p \notin old => Cardinality(old \cup {p}) = Cardinality(old) + 1
    BY Zenon, <1>b, FS_AddElement
  <2>2. p \in old => Cardinality(old \ {p}) = Cardinality(old) - 1
    BY Zenon, <1>b, FS_RemoveElement
  <2> QED
    BY Zenon, <1>b, <2>1, <2>2, FS_Singleton
<1> USE SingleflightAssumption DEF SingleflightAssumption, TypeOK
<1> USE DEF objVars, callerVars, asyncVars, ReleasedTwice, Twice, Async
<1>1. ASSUME NEW p \in Callers, ~ReleasedTwice, Join(p) PROVE refs'[o] = Cardinality(new)
  <2>1. CASE o = calls[key[p]]
    <3>1. p \notin old /\ new = old \cup {p}
      BY <1>1, <2>1 DEF Join, old, new, Held, IdleInv
    <3>2. Cardinality(new) = refs[o] + 1
      BY Zenon, <1>d, <3>1
    <3> QED
      BY <1>1, <2>1, <3>2 DEF Join, TakeRef
  <2>2. CASE o # calls[key[p]]
    <3>1. new = old
      BY <1>1, <2>2 DEF Join, old, new, Held, IdleInv
    <3> QED
      BY <1>1, <1>b, <2>2, <3>1 DEF Join, TakeRef
  <2> QED
    BY <2>1, <2>2
<1>2. ASSUME NEW p \in Callers, ~ReleasedTwice, Lead(p) PROVE refs'[o] = Cardinality(new)
  <2>1. PICK c \in Objs : /\ pooled[c] > 0 /\ refs' = [refs EXCEPT ![c] = 1]
                          /\ obj' = [obj EXCEPT ![p] = c]
    BY Zenon, <1>2 DEF Lead
  <2>2. owes' = owes \cup {p} /\ p \notin owes
    BY <1>2 DEF Lead, IdleInv
  <2>3. new = IF o = c THEN {p} ELSE old
    BY <2>1, <2>2 DEF old, new, Held, OwesInv
  <2>4. Cardinality(new) = IF o = c THEN 1 ELSE refs[o]
    BY Zenon, <1>b, <1>d, <2>3
  <2> QED
    BY <2>1, <2>4
<1>3. ASSUME NEW p \in Callers, ~ReleasedTwice, Releases(p) PROVE refs'[o] = Cardinality(new)
  <2>1. CASE o = obj[p]
    <3>1. p \in old /\ new = old \ {p}
      BY <1>3, <2>1 DEF Releases, Release, InternalRelease, DropRef, old, new, Held,
         CallerInv
    <3>2. Cardinality(new) = refs[o] - 1
      BY Zenon, <1>d, <3>1
    <3> QED
      BY <1>3, <2>1, <3>2 DEF Releases, Release, InternalRelease, DropRef
  <2>2. CASE o # obj[p]
    <3>1. new = old
      BY <1>3, <2>2 DEF Releases, Release, InternalRelease, DropRef, old, new, Held
    <3> QED
      BY <1>3, <1>b, <2>2, <3>1 DEF Releases, Release, InternalRelease, DropRef
  <2> QED
    BY <2>1, <2>2
<1>4. ASSUME NEW p \in Callers, ~ReleasedTwice, Recycles(p) PROVE refs'[o] = Cardinality(new)
  <2>1. new = old
    BY <1>4 DEF Recycles, RecycleCall, InternalRecycle, old, new, Held
  <2>2. o = obj[p] => old = {}
    BY <1>4 DEF Recycles, RecycleCall, InternalRecycle, RecycleInv, old
  <2>3. refs' = [refs EXCEPT ![obj[p]] = 0]
    BY <1>4 DEF Recycles, RecycleCall, InternalRecycle, Recycle
  <2>4. Cardinality(new) = IF o = obj[p] THEN 0 ELSE refs[o]
    BY Zenon, <1>b, <1>c, <2>1, <2>2
  <2> QED
    BY <2>3, <2>4
<1>5. CASE UNCHANGED <<refs, obj, owes>>
  BY <1>5, <1>b DEF old, new, Held
<1> QED
  BY Zenon, <1>0, <1>1, <1>2, <1>3, <1>4, <1>5

-----------------------------------------------------------------------------
(* The theorems                                                            *)

\* All objects are in the pool and all callers idle at first.
LEMMA InitInv == Init => SingleflightInv
<1> SUFFICES ASSUME Init PROVE SingleflightInv
  OBVIOUS
<1> USE SingleflightAssumption DEF SingleflightAssumption, Init
<1>1. TypeOK
  BY DEF TypeOK
<1>2. RefsInv
  <2>1. \A o \in Objs : Held(o) = {} /\ refs[o] = 0
    BY DEF Held
  <2> QED
    BY Zenon, <2>1, FS_EmptySet DEF RefsInv
<1>3. IdleInv /\ OwesInv /\ CallerInv /\ RecycleInv
  BY DEF IdleInv, OwesInv, CallerInv, RecycleInv, Twice
<1>4. PoolInv /\ ListInv /\ LeaderInv /\ ValInv
  BY DEF PoolInv, ListInv, LeaderInv, ValInv
<1>5. SubsInv /\ FiringInv /\ FireInv /\ OwnRound
  BY DEF SubsInv, FiringInv, FireInv, OwnRound
<1> QED
  BY <1>1, <1>2, <1>3, <1>4, <1>5 DEF SingleflightInv

\* The inductive invariant holds in every reachable state.
THEOREM InvHolds == Spec => []SingleflightInv
<1>1. SingleflightInv /\ [Next]_vars => SingleflightInv'
  BY TypeNext, IdleNext, OwesNext, CallerNext, RecycleNext, PoolNext, ListNext, LeaderNext,
     ValNext, SubsNext, FiringNext, FireNext, OwnRoundNext, RefsNext DEF SingleflightInv
<1> QED
  BY InitInv, <1>1, PTL DEF Spec

\* The types of the state, reference counts that are never negative among them.
THEOREM TypeCorrect == Spec => []TypeOK
<1>1. SingleflightInv => TypeOK
  BY DEF SingleflightInv
<1> QED
  BY InvHolds, <1>1, PTL

\* call.refs counts the callers between acquire and releaseCall, and no pooled
\* object is held or listed.
THEOREM RefsCountHoldersHolds == Spec => []RefsCountHolders
<1>1. SingleflightInv => RefsCountHolders
  <2> SUFFICES ASSUME SingleflightInv, NEW o \in Objs, pooled[o] > 0 PROVE Held(o) = {}
    BY Zenon DEF SingleflightInv, RefsCountHolders, RefsInv, PoolInv
  <2> QED
    BY DEF SingleflightInv, OwesInv, Held
<1> QED
  BY InvHolds, <1>1, PTL

\* No caller gets the result of a round it did not take part in, though objects
\* are reused for other rounds.
THEOREM OwnRoundHolds == Spec => []OwnRound
<1>1. SingleflightInv => OwnRound
  BY DEF SingleflightInv
<1> QED
  BY InvHolds, <1>1, PTL

\* Blocking calls of one key are led by one caller at a time.
THEOREM OneRequestPerKeyHolds == Spec => []OneRequestPerKey
<1>1. SingleflightInv => OneRequestPerKey
  BY DEF SingleflightInv, OneRequestPerKey, LeaderInv, OwesInv, CallerInv, TypeOK, Async
<1> QED
  BY InvHolds, <1>1, PTL

\* Whoever joins a call in flight has a leader that is yet to finish it.
THEOREM ListedHasLeaderHolds == Spec => []ListedHasLeader
<1>1. SingleflightInv => ListedHasLeader
  <2> SUFFICES ASSUME SingleflightInv, NEW k \in Keys, calls[k] # None
               PROVE  \E p \in Callers :
                         /\ round[calls[k]] = p /\ key[p] = k
                         /\ IF Async(p) THEN reg[p] \in {"yes", "gone"} \/ ipc[p] = "finish"
                                        ELSE pc[p] \in {"request", "unlist"}
    BY DEF ListedHasLeader
  <2>1. PICK p \in Callers : Leads(p, k)
    BY DEF SingleflightInv, ListInv
  <2>2. round[calls[k]] = p
    BY <2>1 DEF Leads, SingleflightInv, OwesInv
  <2> QED
    BY <2>1, <2>2 DEF Leads
<1> QED
  BY InvHolds, <1>1, PTL

\* The fan-out and a follower's own timeout do not both call its handler.
THEOREM SubFiresOnceHolds == Spec => []SubFiresOnce
<1>1. SingleflightInv => SubFiresOnce
  BY DEF SingleflightInv, FireInv, SubFiresOnce
<1> QED
  BY InvHolds, <1>1, PTL

=============================================================================
