------------------------ MODULE ClientLifecycle_proofs ------------------------
(***************************************************************************)
(* Proofs about ClientLifecycle, for any number of generations, conns and   *)
(* Stoppers, and at most one goroutine calling Restart: with two of them    *)
(* TLC finds a violation of OneGeneration (see README.md).                  *)
(***************************************************************************)
EXTENDS ClientLifecycle, TLAPS

OneRestarter == \A p, q \in Restarters : p = q

TearingDown == {"stopConn", "exit", "done"}

\* A Restart in progress: the generation it stopped is still the current one
\* until it installs the next, and mux is held from the dial on.
RestartInv ==
    \A p \in Restarters :
        /\ pc[p] \in {"stop", "stopConn", "wait", "lock", "dial"} => waitGen[p] = gen
        /\ pc[p] \in {"lock", "dial"} => loop[gen] = "done"
        /\ pc[p] \in {"dial", "start"} <=> mux = p
        /\ pc[p] = "start" => ~closed[gen] /\ loop[gen] \notin TearingDown

\* The generations after the current one are untouched, the earlier ones over.
GenInv ==
    \A g \in Gens :
        /\ g > gen => loop[g] = "none" /\ ~closed[g]
        /\ g < gen => loop[g] = "done"
        /\ g = gen => loop[g] # "none"
        /\ loop[g] \in TearingDown => closed[g]

StopperInv == \A p \in Stoppers : pc[p] \in StopStates

LifecycleInv == TypeOK /\ GenInv /\ RestartInv /\ StopperInv /\ RunningIsServed

USE LifecycleAssumption DEF LifecycleAssumption, Gens, Conns, Procs

\* The initial state satisfies the inductive invariant.
LEMMA InitInv == Init => LifecycleInv
<1> SUFFICES ASSUME Init PROVE LifecycleInv
  OBVIOUS
<1>1. TypeOK
  <2>1. closed \in [Gens -> BOOLEAN] /\ loop \in [Gens -> LoopStates]
    BY DEF Init, LoopStates
  <2>2. reading \in [Gens -> Conns] /\ fresh \in [Gens -> Conns] /\ tries \in [Gens -> Nat]
    BY DEF Init
  <2>3. pc \in [Procs -> StopStates \cup RestartStates] /\ waitGen \in [Procs -> Gens]
    BY DEF Init, StopStates
  <2>4. mux \in Restarters \cup {NoProc} /\ live \in SUBSET Conns
    BY DEF Init
  <2>6. running \in BOOLEAN /\ reconnecting \in BOOLEAN
    BY Zenon DEF Init
  <2>5. gen \in Gens /\ conn \in Conns /\ reader \in Conns /\ dialed \in Conns
    BY DEF Init
  <2> QED
    BY <2>1, <2>2, <2>3, <2>4, <2>5, <2>6 DEF TypeOK
<1>2. GenInv
  BY DEF Init, GenInv, TearingDown
<1>3. RestartInv /\ StopperInv
  BY DEF Init, RestartInv, StopperInv, StopStates
<1>4. RunningIsServed
  BY DEF Init, RunningIsServed
<1> QED
  BY <1>1, <1>2, <1>3, <1>4 DEF LifecycleInv

\* A conn returned by Dialer is one of Conns.
LEMMA NewConnType ==
  ASSUME TypeOK, NewConn
  PROVE  dialed + 1 \in Conns /\ dialed' \in Conns /\ live' \in SUBSET Conns
<1>1. dialed + 1 \in Conns
  BY DEF TypeOK, NewConn
<1>2. dialed' \in Conns /\ live' \in SUBSET Conns
  BY <1>1 DEF TypeOK, NewConn
<1> QED
  BY <1>1, <1>2

\* Type correctness is preserved by every step.  A Stopper never gets past
\* StopStates, so mux is only ever held by a Restarter.
LEMMA TypeNext ==
  ASSUME TypeOK, StopperInv, [Next]_vars
  PROVE  TypeOK' /\ StopperInv'
<1> USE DEF TypeOK, StopperInv, LoopStates, ReconnectPhase, StopStates, RestartStates,
            loopVars, procVars
<1>1. ASSUME NEW g \in Gens, CheckClosed(g) PROVE TypeOK' /\ StopperInv'
  BY <1>1 DEF CheckClosed
<1>2. ASSUME NEW g \in Gens, RecvMessage(g) PROVE TypeOK' /\ StopperInv'
  BY <1>2 DEF RecvMessage
<1>3. ASSUME NEW g \in Gens, RecvBroken(g) PROVE TypeOK' /\ StopperInv'
  BY <1>3 DEF RecvBroken, RecvFails
<1>4. ASSUME NEW g \in Gens, RecvFault(g) PROVE TypeOK' /\ StopperInv'
  BY <1>4 DEF RecvFault, RecvFails
<1>5. ASSUME NEW g \in Gens, BeginReconnect(g) PROVE TypeOK' /\ StopperInv'
  BY <1>5 DEF BeginReconnect, SetReconnecting
<1>6. ASSUME NEW g \in Gens, CloseConn(g) PROVE TypeOK' /\ StopperInv'
  BY <1>6 DEF CloseConn, CloseCurrentConn
<1>7. ASSUME NEW g \in Gens, ClearPending(g) PROVE TypeOK' /\ StopperInv'
  BY <1>7 DEF ClearPending, Free
<1>8. ASSUME NEW g \in Gens, Retry(g) PROVE TypeOK' /\ StopperInv'
  BY <1>8 DEF Retry, MayRetry
<1>9. ASSUME NEW g \in Gens, DialFails(g) PROVE TypeOK' /\ StopperInv'
  <2>1. CountTry(tries[g]) \in Nat
    BY <1>9 DEF CountTry
  <2>2. tries' = [tries EXCEPT ![g] = CountTry(tries[g])]
    BY <1>9 DEF DialFails
  <2>3. tries' \in [Gens -> Nat]
    BY <2>1, <2>2
  <2> QED
    BY <1>9, <2>3 DEF DialFails
<1>10. ASSUME NEW g \in Gens, DialSucceeds(g) PROVE TypeOK' /\ StopperInv'
  <2>1. dialed + 1 \in Conns /\ dialed' \in Conns /\ live' \in SUBSET Conns
    BY <1>10, NewConnType DEF DialSucceeds
  <2> QED
    BY <1>10, <2>1 DEF DialSucceeds
<1>11. ASSUME NEW g \in Gens, InstallConn(g) PROVE TypeOK' /\ StopperInv'
  BY <1>11 DEF InstallConn
<1>12. ASSUME NEW g \in Gens, Resume(g) PROVE TypeOK' /\ StopperInv'
  BY <1>12 DEF Resume, ResetReconnecting
<1>13. ASSUME NEW g \in Gens, CloseAndClean(g) PROVE TypeOK' /\ StopperInv'
  BY <1>13 DEF CloseAndClean, CloseChan, Free
<1>14. ASSUME NEW g \in Gens, CloseAndCleanConn(g) PROVE TypeOK' /\ StopperInv'
  BY <1>14 DEF CloseAndCleanConn, CloseCurrentConn
<1>15. ASSUME NEW g \in Gens, LoopExit(g) PROVE TypeOK' /\ StopperInv'
  BY <1>15 DEF LoopExit
<1>16. ASSUME NEW p \in Procs, CallStop(p) PROVE TypeOK' /\ StopperInv'
  BY <1>16 DEF CallStop
<1>17. ASSUME NEW p \in Procs, CallRestart(p) PROVE TypeOK' /\ StopperInv'
  BY <1>17 DEF CallRestart
<1>18. ASSUME NEW p \in Procs, StopClient(p) PROVE TypeOK' /\ StopperInv'
  BY <1>18 DEF StopClient, CloseChan, Free
<1>19. ASSUME NEW p \in Procs, StopConn(p) PROVE TypeOK' /\ StopperInv'
  BY <1>19 DEF StopConn, CloseCurrentConn
<1>20. ASSUME NEW p \in Procs, CaptureRecvDone(p) PROVE TypeOK' /\ StopperInv'
  BY <1>20 DEF CaptureRecvDone, Free
<1>21. ASSUME NEW p \in Procs, AwaitRecvDone(p) PROVE TypeOK' /\ StopperInv'
  BY <1>21 DEF AwaitRecvDone, RecvDone
<1>22. ASSUME NEW p \in Procs, LockForRestart(p) PROVE TypeOK' /\ StopperInv'
  BY <1>22 DEF LockForRestart, Free
<1>23. ASSUME NEW p \in Procs, RestartDialFails(p) PROVE TypeOK' /\ StopperInv'
  BY <1>23 DEF RestartDialFails
<1>24. ASSUME NEW p \in Procs, NewGeneration(p) PROVE TypeOK' /\ StopperInv'
  <2>1. dialed + 1 \in Conns /\ dialed' \in Conns /\ live' \in SUBSET Conns
    BY <1>24, NewConnType DEF NewGeneration
  <2>2. gen + 1 \in Gens
    BY <1>24 DEF NewGeneration
  <2> QED
    BY <1>24, <2>1, <2>2 DEF NewGeneration
<1>25. ASSUME NEW p \in Procs, MarkRunning(p) PROVE TypeOK' /\ StopperInv'
  BY <1>25 DEF MarkRunning
<1>26. ASSUME ConnBreaks PROVE TypeOK' /\ StopperInv'
  BY <1>26 DEF ConnBreaks
<1>27. ASSUME UNCHANGED vars PROVE TypeOK' /\ StopperInv'
  BY <1>27 DEF vars
<1> QED
  BY <1>1, <1>2, <1>3, <1>4, <1>5, <1>6, <1>7, <1>8, <1>9, <1>10, <1>11, <1>12, <1>13, <1>14, <1>15, <1>16, <1>17, <1>18, <1>19, <1>20, <1>21, <1>22, <1>23, <1>24, <1>25, <1>26, <1>27 DEF Next, LoopStep, ProcStep

\* A read loop that is neither unstarted nor tearing down is the current one.
LEMMA ActiveLoopIsCurrent ==
  ASSUME LifecycleInv, NEW g \in Gens, loop[g] \notin {"none", "done"}
  PROVE  g = gen
BY DEF LifecycleInv, TypeOK, GenInv

SafeInv == GenInv /\ RestartInv /\ RunningIsServed

\* Most steps of a read loop only move it between states outside its teardown,
\* and touch nothing that Stop and Restart look at.
LEMMA QuietLoopStep ==
  ASSUME LifecycleInv, TypeOK', NEW g \in Gens, NEW s \in LoopStates,
         loop[g] \notin TearingDown \cup {"none"}, s \notin TearingDown \cup {"none"},
         loop' = [loop EXCEPT ![g] = s],
         UNCHANGED <<running, closed, gen, mux, procVars>>
  PROVE  SafeInv'
<1>1. g = gen
  BY ActiveLoopIsCurrent DEF TearingDown
<1>2. GenInv'
  BY <1>1 DEF LifecycleInv, TypeOK, GenInv, TearingDown
<1>3. RestartInv'
  BY <1>1 DEF LifecycleInv, TypeOK, RestartInv, TearingDown, procVars
<1>4. RunningIsServed'
  BY <1>1 DEF LifecycleInv, TypeOK, RunningIsServed, TearingDown
<1> QED
  BY <1>2, <1>3, <1>4 DEF SafeInv

\* Every step of a read loop up to its teardown preserves the invariant.
LEMMA QuietSteps ==
  ASSUME LifecycleInv, TypeOK', NEW g \in Gens,
         \/ CheckClosed(g) \/ RecvMessage(g) \/ RecvFails(g) \/ BeginReconnect(g)
         \/ CloseConn(g) \/ ClearPending(g) \/ Retry(g) \/ DialFails(g)
         \/ DialSucceeds(g) \/ InstallConn(g) \/ Resume(g)
  PROVE  SafeInv'
<1> USE DEF TearingDown, LoopStates, ReconnectPhase
<1>1. CASE CheckClosed(g)
  BY <1>1, QuietLoopStep DEF CheckClosed
<1>2. CASE RecvMessage(g)
  BY <1>2, QuietLoopStep DEF RecvMessage
<1>3. CASE RecvFails(g)
  BY <1>3, QuietLoopStep DEF RecvFails
<1>4. CASE BeginReconnect(g)
  BY <1>4, QuietLoopStep DEF BeginReconnect
<1>5. CASE CloseConn(g)
  BY <1>5, QuietLoopStep DEF CloseConn
<1>6. CASE ClearPending(g)
  BY <1>6, QuietLoopStep DEF ClearPending
<1>7. CASE Retry(g)
  BY <1>7, QuietLoopStep DEF Retry
<1>8. CASE DialFails(g)
  BY <1>8, QuietLoopStep DEF DialFails
<1>9. CASE DialSucceeds(g)
  BY <1>9, QuietLoopStep DEF DialSucceeds
<1>10. CASE InstallConn(g)
  BY <1>10, QuietLoopStep DEF InstallConn
<1>11. CASE Resume(g)
  BY <1>11, QuietLoopStep DEF Resume
<1> QED
  BY <1>1, <1>2, <1>3, <1>4, <1>5, <1>6, <1>7, <1>8, <1>9, <1>10, <1>11

\* Nothing lies between a generation and the next.
LEMMA Successor ==
  \A g, h \in Gens : (h < g + 1 => h < g \/ h = g) /\ (h > g + 1 => h > g)
OBVIOUS

\* The teardown of the current generation and the steps of Stop and Restart
\* preserve the invariant.  With one Restarter nobody changes gen between its
\* capture of recvDone and its new generation, which is where the proof needs
\* OneRestarter.
LEMMA OtherSteps ==
  ASSUME OneRestarter, LifecycleInv, TypeOK', StopperInv', Next
  PROVE  SafeInv'
<1> USE DEF LifecycleInv, TypeOK, StopperInv, SafeInv, GenInv, RestartInv,
            RunningIsServed, TearingDown, StopStates, OneRestarter, loopVars, procVars
<1>1. ASSUME NEW g \in Gens, CloseAndClean(g) PROVE SafeInv'
  <2>1. g = gen
    BY <1>1, ActiveLoopIsCurrent DEF CloseAndClean, CloseChan, Free
  <2>2. GenInv'
    BY <1>1, <2>1 DEF CloseAndClean, CloseChan, Free
  <2>3. RestartInv'
    BY <1>1, <2>1 DEF CloseAndClean, CloseChan, Free
  <2>4. RunningIsServed'
    BY <1>1, <2>1 DEF CloseAndClean, CloseChan, Free
  <2> QED
    BY <2>2, <2>3, <2>4
<1>2. ASSUME NEW g \in Gens, CloseAndCleanConn(g) PROVE SafeInv'
  <2>1. g = gen
    BY <1>2, ActiveLoopIsCurrent DEF CloseAndCleanConn
  <2>2. GenInv'
    BY <1>2, <2>1 DEF CloseAndCleanConn
  <2>3. RestartInv'
    BY <1>2, <2>1 DEF CloseAndCleanConn
  <2>4. RunningIsServed'
    BY <1>2, <2>1 DEF CloseAndCleanConn
  <2> QED
    BY <2>2, <2>3, <2>4
<1>3. ASSUME NEW g \in Gens, LoopExit(g) PROVE SafeInv'
  <2>1. g = gen
    BY <1>3, ActiveLoopIsCurrent DEF LoopExit
  <2>2. GenInv'
    BY <1>3, <2>1 DEF LoopExit
  <2>3. RestartInv'
    BY <1>3, <2>1 DEF LoopExit
  <2>4. RunningIsServed'
    BY <1>3, <2>1 DEF LoopExit
  <2> QED
    BY <2>2, <2>3, <2>4
<1>4. ASSUME NEW p \in Procs, CallStop(p) PROVE SafeInv'
  <2>1. GenInv'
    BY <1>4 DEF CallStop
  <2>2. RestartInv'
    BY <1>4 DEF CallStop
  <2>3. RunningIsServed'
    BY <1>4 DEF CallStop
  <2> QED
    BY <2>1, <2>2, <2>3
<1>5. ASSUME NEW p \in Procs, CallRestart(p) PROVE SafeInv'
  <2>1. GenInv'
    BY <1>5 DEF CallRestart
  <2>2. RestartInv'
    BY <1>5 DEF CallRestart
  <2>3. RunningIsServed'
    BY <1>5 DEF CallRestart
  <2> QED
    BY <2>1, <2>2, <2>3
<1>6. ASSUME NEW p \in Procs, StopClient(p) PROVE SafeInv'
  <2>1. GenInv'
    BY <1>6 DEF StopClient, CloseChan, Free
  <2>2. RestartInv'
    BY <1>6 DEF StopClient, CloseChan, Free
  <2>3. RunningIsServed'
    BY <1>6 DEF StopClient, CloseChan, Free
  <2> QED
    BY <2>1, <2>2, <2>3
<1>7. ASSUME NEW p \in Procs, StopConn(p) PROVE SafeInv'
  <2>1. GenInv'
    BY <1>7 DEF StopConn
  <2>2. RestartInv'
    BY <1>7 DEF StopConn
  <2>3. RunningIsServed'
    BY <1>7 DEF StopConn
  <2> QED
    BY <2>1, <2>2, <2>3
<1>8. ASSUME NEW p \in Procs, CaptureRecvDone(p) PROVE SafeInv'
  <2>1. GenInv'
    BY <1>8 DEF CaptureRecvDone
  <2>2. RestartInv'
    BY <1>8 DEF CaptureRecvDone
  <2>3. RunningIsServed'
    BY <1>8 DEF CaptureRecvDone
  <2> QED
    BY <2>1, <2>2, <2>3
<1>9. ASSUME NEW p \in Procs, AwaitRecvDone(p) PROVE SafeInv'
  <2>1. GenInv'
    BY <1>9 DEF AwaitRecvDone, RecvDone
  <2>2. RestartInv'
    BY <1>9 DEF AwaitRecvDone, RecvDone
  <2>3. RunningIsServed'
    BY <1>9 DEF AwaitRecvDone, RecvDone
  <2> QED
    BY <2>1, <2>2, <2>3
<1>10. ASSUME NEW p \in Procs, LockForRestart(p) PROVE SafeInv'
  <2>1. GenInv'
    BY <1>10 DEF LockForRestart, Free
  <2>2. RestartInv'
    <3>1. p \in Restarters
      BY <1>10 DEF LockForRestart
    <3>2. \A q \in Restarters : q = p
      BY <3>1
    <3> QED
      BY <1>10, <3>1, <3>2 DEF LockForRestart, Free
  <2>3. RunningIsServed'
    BY <1>10 DEF LockForRestart, Free
  <2> QED
    BY <2>1, <2>2, <2>3
<1>11. ASSUME NEW p \in Procs, RestartDialFails(p) PROVE SafeInv'
  <2>1. GenInv'
    BY <1>11 DEF RestartDialFails
  <2>2. RestartInv'
    <3>1. p \in Restarters
      BY <1>11 DEF RestartDialFails
    <3>2. \A q \in Restarters : q = p
      BY <3>1
    <3> QED
      BY <1>11, <3>1, <3>2 DEF RestartDialFails
  <2>3. RunningIsServed'
    BY <1>11 DEF RestartDialFails
  <2> QED
    BY <2>1, <2>2, <2>3
<1>12. ASSUME NEW p \in Procs, NewGeneration(p) PROVE SafeInv'
  <2>1. GenInv'
    <3>1. p \in Restarters /\ gen + 1 \in Gens /\ loop[gen] = "done"
      BY <1>12 DEF NewGeneration
    <3>2. loop' = [loop EXCEPT ![gen + 1] = "check"] /\ gen' = gen + 1 /\ closed' = closed
      BY <1>12 DEF NewGeneration
    <3>3. SUFFICES ASSUME NEW h \in Gens
                   PROVE  /\ h > gen + 1 => loop'[h] = "none" /\ ~closed[h]
                          /\ h < gen + 1 => loop'[h] = "done"
                          /\ h = gen + 1 => loop'[h] # "none"
                          /\ loop'[h] \in TearingDown => closed[h]
      BY <3>2
    <3>4. CASE h = gen + 1
      <4>1. loop'[h] = "check"
        BY <3>1, <3>2, <3>4
      <4> QED
        BY <3>1, <3>4, <4>1
    <3>5. CASE h # gen + 1
      <4>1. loop'[h] = loop[h]
        BY <3>1, <3>2, <3>5
      <4>2. (h < gen + 1 => h < gen \/ h = gen) /\ (h > gen + 1 => h > gen)
        BY Successor
      <4> QED
        BY <3>1, <3>5, <4>1, <4>2
    <3> QED
      BY <3>4, <3>5
  <2>2. RestartInv'
    BY <1>12 DEF NewGeneration
  <2>3. RunningIsServed'
    BY <1>12 DEF NewGeneration
  <2> QED
    BY <2>1, <2>2, <2>3
<1>13. ASSUME NEW p \in Procs, MarkRunning(p) PROVE SafeInv'
  <2>1. GenInv'
    BY <1>13 DEF MarkRunning
  <2>2. RestartInv'
    <3>1. p \in Restarters
      BY <1>13 DEF MarkRunning
    <3>2. \A q \in Restarters : q = p
      BY <3>1
    <3> QED
      BY <1>13, <3>1, <3>2 DEF MarkRunning
  <2>3. RunningIsServed'
    BY <1>13 DEF MarkRunning
  <2> QED
    BY <2>1, <2>2, <2>3
<1>14. CASE ConnBreaks
  BY <1>14 DEF ConnBreaks
<1> QED
  BY <1>1, <1>2, <1>3, <1>4, <1>5, <1>6, <1>7, <1>8, <1>9, <1>10, <1>11, <1>12, <1>13, <1>14, QuietSteps DEF Next, LoopStep, ProcStep, RecvBroken, RecvFault

\* The inductive step.
LEMMA NextInv ==
  ASSUME OneRestarter, LifecycleInv, [Next]_vars
  PROVE  LifecycleInv'
<1>1. TypeOK' /\ StopperInv'
  BY TypeNext DEF LifecycleInv
<1>2. CASE Next
  BY <1>1, <1>2, OtherSteps DEF LifecycleInv, SafeInv
<1>3. CASE UNCHANGED vars
  BY <1>1, <1>3 DEF LifecycleInv, GenInv, RestartInv, RunningIsServed, vars
<1> QED
  BY <1>2, <1>3

\* Every behaviour with at most one Restarter satisfies the invariant.
THEOREM Invariance ==
  ASSUME OneRestarter
  PROVE  Spec => []LifecycleInv
BY InitInv, NextInv, PTL DEF Spec

\* The variables keep their types (TypeOK), whatever Stop, Restart and the
\* reconnecting read loop do.
THEOREM TypeCorrect ==
  ASSUME OneRestarter
  PROVE  Spec => []TypeOK
<1>1. LifecycleInv => TypeOK
  BY DEF LifecycleInv
<1> QED
  BY Invariance, <1>1, PTL

\* Restart never builds a generation while an earlier read loop has not
\* returned, as the comment on Client.recvDone promises.
THEOREM OneGenerationHolds ==
  ASSUME OneRestarter
  PROVE  Spec => []OneGeneration
<1>1. LifecycleInv => OneGeneration
  BY DEF LifecycleInv, GenInv, OneGeneration
<1> QED
  BY Invariance, <1>1, PTL

\* A Client that reports running has an open chClose and a live read loop.
THEOREM RunningIsServedHolds ==
  ASSUME OneRestarter
  PROVE  Spec => []RunningIsServed
<1>1. LifecycleInv => RunningIsServed
  BY DEF LifecycleInv
<1> QED
  BY Invariance, <1>1, PTL
=============================================================================
