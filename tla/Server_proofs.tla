---------------------------- MODULE Server_proofs ----------------------------
(***************************************************************************)
(* Proofs about Server, for any finite set of conns and any MaxLoad.        *)
(***************************************************************************)
EXTENDS Server, FiniteSetTheorems, TLAPS

\* The conn that runLoop is setting up: it has one from Accept to addClient, and
\* nobody else has changed its state before newClientWithConn.
CurInv ==
    /\ acc \in {"load", "reject", "new", "add"} => \E c \in Conns : cur = {c}
    /\ acc \notin {"load", "reject", "new", "add"} => cur = {}
    /\ acc \in {"load", "reject", "new"} => \A c \in cur : cst[c] = "none"

\* The load is exact, and there is room for a conn that was let in.
LoadInv ==
    /\ load = Cardinality(Served) + (IF acc \in {"reject", "new"} THEN 1 ELSE 0)
    /\ MaxLoad > 0 => Cardinality(Served) + (IF acc = "new" THEN 1 ELSE 0) <= MaxLoad

\* The reference count of the Message: one for each conn that holds it, and one,
\* which counts as 0, for Broadcast until it returns.
RefInv ==
    /\ ref = Cardinality(holds) - (IF bpc = "ret" THEN 1 ELSE 0)
    /\ todo \cap holds = {}
    /\ bpc = "idle" => holds = {}
    /\ freed = IF bpc = "ret" /\ holds = {} THEN 1 ELSE 0

USE ServerAssumption DEF ServerAssumption

\* The sets that are counted are finite.
LEMMA CountedSets ==
  ASSUME TypeOK
  PROVE  /\ IsFiniteSet(Served) /\ Cardinality(Served) \in Nat
         /\ IsFiniteSet(holds) /\ Cardinality(holds) \in Nat
<1>1. Served \in SUBSET Conns /\ holds \in SUBSET Conns
  BY DEF Served, TypeOK
<1> QED
  BY <1>1, FS_Subset, FS_CardinalityType

ServerInv == TypeOK /\ CurInv /\ LoadInv /\ RefInv

\* A conn that is open, closing or about to be subtracted is in the load.
LEMMA ServedIsLoad ==
  ASSUME ServerInv, NEW c \in Conns, cst[c] \in {"open", "closing", "sub"}
  PROVE  load >= 1 /\ c \in Served
<1>1. c \in Served
  BY DEF Served
<1>2. Cardinality(Served) # 0
  BY <1>1, CountedSets, FS_EmptySet DEF ServerInv
<1> QED
  BY <1>1, <1>2, CountedSets DEF ServerInv, LoadInv

\* The initial state satisfies the invariant.
LEMMA InitInv == Init => ServerInv
<1> SUFFICES ASSUME Init PROVE ServerInv
  OBVIOUS
<1>1. TypeOK
  <2>1. running \in BOOLEAN /\ listening \in BOOLEAN /\ chStop \in BOOLEAN /\ mux \in BOOLEAN
    BY Zenon DEF Init
  <2> QED
    BY <2>1 DEF Init, TypeOK
<1>2. Served = {}
  BY DEF Init, Served
<1>3. CurInv /\ LoadInv /\ RefInv
  BY <1>2, FS_EmptySet DEF Init, CurInv, LoadInv, RefInv
<1> QED
  BY <1>1, <1>3 DEF ServerInv

\* Type correctness is preserved; the load stays a natural number as what is
\* subtracted was counted.
LEMMA TypeNext ==
  ASSUME ServerInv, [Next]_vars
  PROVE  TypeOK'
<1> USE DEF ServerInv, TypeOK, acceptVars, connVars, stopVars, bcastVars, GoTo
<1>1. CASE Start \/ CheckRunning \/ AcceptRetries \/ AcceptFails
  <2>1. running' \in BOOLEAN /\ listening' \in BOOLEAN
    BY Zenon, <1>1 DEF Start, CheckRunning, AcceptRetries, AcceptFails
  <2>2. acc' \in {"check", "accept", "clear"}
    BY <1>1 DEF Start, CheckRunning, AcceptRetries, AcceptFails
  <2> QED
    BY <1>1, <2>1, <2>2 DEF Start, CheckRunning, AcceptRetries, AcceptFails
<1>2. ASSUME NEW c \in Conns, Accept(c) PROVE TypeOK'
  BY <1>2 DEF Accept
<1>3. CASE AddLoad
  BY <1>3 DEF AddLoad
<1>4. CASE Reject
  <2>1. load - 1 \in Nat
    BY <1>4, CountedSets DEF Reject, LoadInv
  <2> QED
    BY <1>4, <2>1 DEF Reject, TakeBack
<1>5. CASE NewClient
  BY <1>5 DEF NewClient
<1>6. CASE AddClient
  BY <1>6 DEF AddClient
<1>7. CASE ClearClients \/ CloseStop
  BY <1>7 DEF ClearClients, StopAll, CloseStop
<1>8. ASSUME NEW c \in Conns, PeerCloses(c) \/ StopClient(c) \/ DeleteClient(c) PROVE TypeOK'
  BY <1>8 DEF PeerCloses, StopClient, DeleteClient, Close, Removed
<1>9. ASSUME NEW c \in Conns, SubLoad(c) PROVE TypeOK'
  <2>1. load - 1 \in Nat
    BY <1>9, ServedIsLoad DEF SubLoad
  <2> QED
    BY <1>9, <2>1 DEF SubLoad
<1>10. CASE CallStop \/ StopListener \/ CallShutdown \/ ShutdownListener \/ ShutdownDone
            \/ ShutdownTimeout
  BY <1>10 DEF CallStop, StopListener, CallShutdown, ShutdownListener, ShutdownDone,
               ShutdownTimeout
<1>11. CASE BroadcastLock \/ BroadcastEnd
  <2>1. mux' \in BOOLEAN
    BY Zenon, <1>11 DEF BroadcastLock, BroadcastEnd
  <2> QED
    BY <1>11, <2>1 DEF BroadcastLock, BroadcastEnd, ReleaseTo
<1>12. ASSUME NEW c \in Conns, BroadcastPush(c) \/ BroadcastFails(c) \/ MessageDone(c)
       PROVE  TypeOK'
  BY <1>12 DEF BroadcastPush, BroadcastFails, MessageDone, ReleaseTo, Retained
<1>13. CASE UNCHANGED vars
  BY <1>13 DEF vars
<1> QED
  BY <1>1, <1>2, <1>3, <1>4, <1>5, <1>6, <1>7, <1>8, <1>9, <1>10, <1>11, <1>12, <1>13
  DEF Next, AcceptStep, ClientStep, BroadcastStep

\* runLoop keeps its conn to itself until addClient: no other step touches the
\* state of a conn that is not served.
LEMMA CurNext ==
  ASSUME ServerInv, [Next]_vars
  PROVE  CurInv'
<1> USE DEF ServerInv, TypeOK, CurInv, acceptVars, connVars, GoTo
<1>1. CASE Start \/ CheckRunning \/ AcceptRetries \/ AcceptFails \/ ClearClients \/ CloseStop
  BY <1>1 DEF Start, CheckRunning, AcceptRetries, AcceptFails, ClearClients, CloseStop
<1>2. ASSUME NEW c \in Conns, Accept(c) PROVE CurInv'
  BY <1>2 DEF Accept
<1>3. CASE AddLoad \/ Reject \/ NewClient \/ AddClient
  BY <1>3 DEF AddLoad, Reject, NewClient, AddClient
<1>4. ASSUME NEW c \in Conns, PeerCloses(c) \/ ClientStep(c) PROVE CurInv'
  BY <1>4 DEF PeerCloses, ClientStep, StopClient, DeleteClient, SubLoad, Close
<1>5. CASE UNCHANGED <<acc, cur, cst>>
  BY <1>5
<1>6. CASE \/ CallStop \/ StopListener \/ CallShutdown \/ ShutdownListener \/ ShutdownDone
           \/ ShutdownTimeout \/ BroadcastLock \/ BroadcastStep
           \/ \E c \in Conns : MessageDone(c)
  BY <1>5, <1>6 DEF CallStop, StopListener, CallShutdown, ShutdownListener, ShutdownDone,
           ShutdownTimeout, BroadcastLock, BroadcastStep, BroadcastEnd, BroadcastPush,
           BroadcastFails, MessageDone
<1> QED
  BY <1>1, <1>2, <1>3, <1>4, <1>5, <1>6 DEF Next, AcceptStep, vars

\* What one conn's change of state does to the number of conns served.
LEMMA ServedChange ==
  ASSUME TypeOK, TypeOK', NEW c \in Conns, \A d \in Conns \ {c} : cst'[d] = cst[d]
  PROVE  LET in  == cst[c] \in {"open", "closing", "sub"}
             in2 == cst'[c] \in {"open", "closing", "sub"}
         IN  Cardinality(Served') =
                 Cardinality(Served) + (IF in2 THEN 1 ELSE 0) - (IF in THEN 1 ELSE 0)
<1>1. c \in Served <=> cst[c] \in {"open", "closing", "sub"}
  BY DEF Served
<1>2. c \in Served' <=> cst'[c] \in {"open", "closing", "sub"}
  BY DEF Served
<1>3. Served' = IF c \in Served' THEN Served \cup {c} ELSE Served \ {c}
  BY DEF Served
<1>4. /\ Cardinality(Served \cup {c}) = IF c \in Served THEN Cardinality(Served)
                                        ELSE Cardinality(Served) + 1
      /\ Cardinality(Served \ {c}) = IF c \in Served THEN Cardinality(Served) - 1
                                     ELSE Cardinality(Served)
  BY CountedSets, FS_AddElement, FS_RemoveElement
<1>5. CASE c \in Served'
  <2>1. Cardinality(Served') = Cardinality(Served \cup {c})
    BY <1>3, <1>5
  <2> QED
    BY <2>1, <1>1, <1>2, <1>4, <1>5, CountedSets
<1>6. CASE c \notin Served'
  <2>1. Cardinality(Served') = Cardinality(Served \ {c})
    BY <1>3, <1>6
  <2> QED
    BY <2>1, <1>1, <1>2, <1>4, <1>6, CountedSets
<1> QED
  BY <1>5, <1>6

\* The load is exact and bounded after every step: addLoad comes before the conn
\* is served, subLoad after it, and the two other decrements belong to them.
LEMMA LoadNext ==
  ASSUME ServerInv, TypeOK', [Next]_vars
  PROVE  LoadInv'
<1> USE DEF ServerInv, LoadInv, acceptVars, connVars, GoTo
<1>1. ASSUME UNCHANGED <<cst, load>>, acc' \notin {"reject", "new"}, acc \notin {"reject", "new"}
      PROVE  LoadInv'
  BY <1>1 DEF Served
<1>2. ASSUME UNCHANGED <<cst, load, acc>> PROVE LoadInv'
  BY <1>2 DEF Served
<1>3. CASE Start \/ CheckRunning \/ AcceptRetries \/ AcceptFails \/ AddClient \/ ClearClients
           \/ CloseStop \/ \E c \in Conns : Accept(c)
  BY <1>1, <1>3 DEF Start, CheckRunning, AcceptRetries, AcceptFails, AddClient,
                    ClearClients, CloseStop, Accept
<1>4. CASE AddLoad
  <2>1. Served' = Served
    BY <1>4 DEF AddLoad, Served
  <2> QED
    BY <1>4, <2>1, CountedSets DEF AddLoad, Admits, TypeOK
<1>5. CASE Reject \/ NewClient
  <2>1. PICK c \in Conns : cur = {c} /\ cst[c] = "none"
    BY <1>5 DEF Reject, NewClient, CurInv
  <2>2. \A d \in Conns \ {c} : cst'[d] = cst[d]
    BY <1>5, <2>1 DEF Reject, NewClient
  <2>3. CASE Reject
    <3>1. cst'[c] = "rejected"
      BY <2>1, <2>3 DEF Reject
    <3>2. Cardinality(Served') = Cardinality(Served)
      BY <2>1, <2>2, <3>1, ServedChange, CountedSets
    <3> QED
      BY <2>3, <3>2, CountedSets DEF Reject, TakeBack
  <2>4. CASE NewClient
    <3>1. cst'[c] = "open"
      BY <2>1, <2>4 DEF NewClient
    <3>2. Cardinality(Served') = Cardinality(Served) + 1
      BY <2>1, <2>2, <3>1, ServedChange, CountedSets
    <3> QED
      BY <2>4, <3>2, CountedSets DEF NewClient
  <2> QED
    BY <1>5, <2>3, <2>4
<1>6. ASSUME NEW c \in Conns, PeerCloses(c) \/ StopClient(c) \/ DeleteClient(c)
      PROVE  LoadInv'
  <2>1. /\ \A d \in Conns \ {c} : cst'[d] = cst[d]
        /\ cst[c] \in {"open", "closing", "sub"} <=> cst'[c] \in {"open", "closing", "sub"}
    BY <1>6 DEF PeerCloses, StopClient, DeleteClient, Close, TypeOK
  <2>2. Cardinality(Served') = Cardinality(Served)
    BY <2>1, ServedChange, CountedSets
  <2> QED
    BY <1>6, <2>2 DEF PeerCloses, StopClient, DeleteClient
<1>7. ASSUME NEW c \in Conns, SubLoad(c) PROVE LoadInv'
  <2>1. (\A d \in Conns \ {c} : cst'[d] = cst[d]) /\ cst[c] = "sub" /\ cst'[c] = "gone"
    BY <1>7 DEF SubLoad, TypeOK
  <2>2. Cardinality(Served') = Cardinality(Served) - 1
    BY <2>1, ServedChange, CountedSets
  <2> QED
    BY <1>7, <2>2, CountedSets DEF SubLoad
<1>8. CASE \/ CallStop \/ StopListener \/ CallShutdown \/ ShutdownListener \/ ShutdownDone
           \/ ShutdownTimeout \/ BroadcastLock \/ BroadcastStep
           \/ \E c \in Conns : MessageDone(c)
  BY <1>2, <1>8 DEF CallStop, StopListener, CallShutdown, ShutdownListener, ShutdownDone,
           ShutdownTimeout, BroadcastLock, BroadcastStep, BroadcastEnd, BroadcastPush,
           BroadcastFails, MessageDone
<1>9. CASE UNCHANGED vars
  BY <1>2, <1>9 DEF vars
<1> QED
  BY <1>3, <1>4, <1>5, <1>6, <1>7, <1>8, <1>9 DEF Next, AcceptStep, ClientStep

\* The count of references is exact after every step, so that the Release that
\* frees the Message is the last one, whoever makes it.
LEMMA RefNext ==
  ASSUME ServerInv, TypeOK', [Next]_vars
  PROVE  RefInv'
<1> USE DEF ServerInv, RefInv, TypeOK, bcastVars
<1>1. CASE UNCHANGED bcastVars
  BY <1>1
<1>2. CASE AcceptStep \/ AcceptRetries \/ AcceptFails
  BY <1>1, <1>2 DEF AcceptStep, AcceptRetries, AcceptFails, Start, CheckRunning, AddLoad,
                    Reject, NewClient, AddClient, ClearClients, CloseStop, Accept
<1>3. CASE \/ CallStop \/ StopListener \/ CallShutdown \/ ShutdownListener \/ ShutdownDone
           \/ ShutdownTimeout \/ \E c \in Conns : PeerCloses(c) \/ ClientStep(c)
  BY <1>1, <1>3 DEF CallStop, StopListener, CallShutdown, ShutdownListener, ShutdownDone,
                    ShutdownTimeout, PeerCloses, ClientStep, StopClient, DeleteClient, SubLoad
<1>4. CASE BroadcastLock
  BY <1>4 DEF BroadcastLock
<1>5. ASSUME NEW c \in Conns, BroadcastPush(c) PROVE RefInv'
  <2>1. Cardinality(holds \cup {c}) = Cardinality(holds) + 1
    BY <1>5, CountedSets, FS_AddElement DEF BroadcastPush
  <2> QED
    BY <1>5, <2>1, CountedSets DEF BroadcastPush, Retained
<1>6. ASSUME NEW c \in Conns, BroadcastFails(c) PROVE RefInv'
  BY <1>6, CountedSets DEF BroadcastFails, Retained, ReleaseTo
<1>7. CASE BroadcastEnd
  BY <1>7, CountedSets, FS_EmptySet DEF BroadcastEnd, ReleaseTo
<1>8. ASSUME NEW c \in Conns, MessageDone(c) PROVE RefInv'
  <2>1. /\ Cardinality(holds \ {c}) = Cardinality(holds) - 1
        /\ Cardinality(holds \ {c}) = 0 <=> holds \ {c} = {}
    BY <1>8, CountedSets, FS_RemoveElement, FS_EmptySet DEF MessageDone
  <2>2. Cardinality(holds \ {c}) \in Nat
    BY CountedSets, FS_RemoveElement, FS_CardinalityType
  <2>3. holds' = holds \ {c} /\ bpc' = bpc /\ todo' = todo /\ ref' = ref - 1 /\ freed = 0
    BY <1>8 DEF MessageDone, ReleaseTo
  <2>4. ref' = Cardinality(holds') - (IF bpc' = "ret" THEN 1 ELSE 0)
    BY <2>1, <2>2, <2>3, CountedSets
  <2>5. ref' = -1 <=> bpc' = "ret" /\ holds' = {}
    BY <2>1, <2>2, <2>3, <2>4
  <2>6. freed' = IF ref' = -1 THEN 1 ELSE 0
    BY <1>8, <2>3 DEF MessageDone, ReleaseTo
  <2> QED
    BY <2>3, <2>4, <2>5, <2>6
<1> QED
  BY <1>1, <1>2, <1>3, <1>4, <1>5, <1>6, <1>7, <1>8 DEF Next, BroadcastStep, vars

\* The invariant holds in every behaviour of the Server.
LEMMA InvHolds == Spec => []ServerInv
<1>1. ServerInv /\ [Next]_vars => ServerInv'
  BY TypeNext, CurNext, LoadNext, RefNext DEF ServerInv
<1> QED
  BY <1>1, InitInv, PTL DEF Spec

\* Type correctness.
THEOREM TypeCorrect == Spec => []TypeOK
<1>1. ServerInv => TypeOK
  BY DEF ServerInv
<1> QED
  BY <1>1, InvHolds, PTL

\* CurrLoad is the number of conns served, with the one being decided on, and
\* never more than MaxLoad are served, for any number of conns (addLoad, subLoad
\* and the two paths of runLoop).
THEOREM LoadCountsHolds == Spec => []LoadCounts
<1>1. ServerInv => LoadCounts
  BY CountedSets DEF ServerInv, LoadInv, LoadCounts
<1> QED
  BY <1>1, InvHolds, PTL

\* The Message of a Broadcast is freed once, when the last conn is done with it,
\* for any number of conns (Broadcast, Retain and Release).
THEOREM FreedWhenDoneHolds == Spec => []FreedWhenDone
<1>1. ServerInv => FreedWhenDone
  BY DEF ServerInv, RefInv, FreedWhenDone
<1> QED
  BY <1>1, InvHolds, PTL

\* A Client whose onStop has run is put in the set only by a late addClient.
THEOREM OnlyLateAddsLingerHolds == Spec => OnlyLateAddsLinger
<1> DEFINE Late == \A c \in Conns : Lingers(c)' => Lingers(c) \/ c \in cur
<1>1. TypeOK /\ [Next]_vars => [Late]_vars
  <2> SUFFICES ASSUME TypeOK, Next, NEW c \in Conns, c \in clients', cst'[c] \in {"sub", "gone"},
                      c \notin cur
               PROVE  c \in clients /\ cst[c] \in {"sub", "gone"}
    BY DEF Lingers, vars
  <2> USE DEF TypeOK, acceptVars, connVars
  <2>1. CASE AcceptStep \/ AcceptRetries \/ AcceptFails
    BY <2>1 DEF AcceptStep, AcceptRetries, AcceptFails, Start, CheckRunning, AddLoad, Reject,
                NewClient, AddClient, ClearClients, CloseStop, Accept
  <2>2. ASSUME NEW d \in Conns, PeerCloses(d) \/ ClientStep(d)
        PROVE  c \in clients /\ cst[c] \in {"sub", "gone"}
    BY <2>2 DEF PeerCloses, ClientStep, StopClient, DeleteClient, SubLoad, Close, Removed
  <2>3. CASE \/ CallStop \/ StopListener \/ CallShutdown \/ ShutdownListener \/ ShutdownDone
             \/ ShutdownTimeout \/ BroadcastLock \/ BroadcastStep
             \/ \E d \in Conns : MessageDone(d)
    BY <2>3 DEF CallStop, StopListener, CallShutdown, ShutdownListener, ShutdownDone,
             ShutdownTimeout, BroadcastLock, BroadcastStep, BroadcastEnd, BroadcastPush,
             BroadcastFails, MessageDone
  <2> QED
    BY <2>1, <2>2, <2>3 DEF Next
<1> QED
  BY <1>1, TypeCorrect, PTL DEF Spec, OnlyLateAddsLinger

=============================================================================
