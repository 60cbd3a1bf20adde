-------------------------- MODULE ClientPool_proofs --------------------------
(***************************************************************************)
(* Proofs about ClientPool, for any number of Clients, goroutines, calls    *)
(* of Next and losses of a conn.                                            *)
(***************************************************************************)
EXTENDS ClientPool, Integers, FiniteSetTheorems, TLAPS

\* Both loops that stop Clients go through them in order, and only Clients that
\* were created and not stopped are up.
StopInv ==
    /\ next <= made /\ stopped = 0..(next - 1)
    /\ \A c \in up : c < made /\ c >= next
    /\ phase \in {"create", "ready"} => next = 0
    /\ phase = "create" => made < Size
    /\ phase \in {"ready", "stop"} => made = Size
    /\ phase = "failed" => next = made

\* A Next under way has a try left before AddUint64 and has made one after it.
TryInv ==
    \A p \in Procs : /\ pc[p] = "add" => i[p] < Size
                     /\ pc[p] = "look" => i[p] > 0

\* The tries that the calls of Next under way have left.
Tries == {t \in Procs \X (1..Size) : pc[t[1]] # "idle" /\ t[2] > i[t[1]]}

\* Each call of Next adds to round at most Size times.  As round starts at its
\* last value, Bump counts what was added, and does not wrap a second time.
RoundInv == Bump + Cardinality(Tries) <= Size * nexts

\* The Clients that p has yet to try, if it is alone with round.
Ahead(p) == {(Bump + k) % Size : k \in 0..(Size - i[p] - 1)}

\* A Next that is alone has ahead of it every Client that was up all along,
\* except for the one it is looking at.
AloneInv ==
    \A p \in Procs :
        pc[p] # "idle" /\ steady[p] # {} =>
            /\ \A q \in Procs \ {p} : pc[q] = "idle"
            /\ steady[p] \subseteq up
            /\ \A c \in steady[p] : \/ c \in Ahead(p)
                                    \/ pc[p] = "look" /\ c = client[p]

\* How many of the first n rounds are those of Client c
Rounds(n, c) == IF c < n % Size THEN (n \div Size) + 1 ELSE n \div Size

\* The goroutines about to look at Client c
Looking(c) == {p \in Procs : pc[p] = "look" /\ client[p] = c}

\* As long as no Client has failed, each round of a Client gives it out.
ShareInv ==
    flips = 0 /\ phase \in {"create", "ready"} =>
        /\ up = 0..(made - 1)
        /\ \A c \in Clients : given[c] + Cardinality(Looking(c)) = Rounds(Bump, c)

\* No Next is called before the pool is returned.
CreateInv ==
    phase \notin {"ready", "stop"} =>
        /\ \A p \in Procs : pc[p] = "idle"
        /\ round = RoundMod - 1

PoolInv ==
    /\ TypeOK /\ StopInv /\ TryInv /\ RoundInv /\ AloneInv /\ ShareInv /\ CreateInv
    /\ SkipsUnusable

\* What most proofs need of the constants
LEMMA Sizes ==
    /\ IsFiniteSet(Procs)
    /\ Size \in Nat /\ Size > 0 /\ RoundMod \in Nat /\ RoundMod > 0
    /\ MaxNexts \in Nat /\ MaxFlips \in Nat
BY PoolAssumption DEF PoolAssumption

USE Sizes

\* Updating a function at one argument keeps its type.
LEMMA Update ==
  ASSUME NEW S, NEW T, NEW f \in [S -> T], NEW x \in S, NEW e \in T
  PROVE  [f EXCEPT ![x] = e] \in [S -> T]
OBVIOUS

-----------------------------------------------------------------------------
(* Lemmas about round, which Next takes modulo Size                        *)

\* A number has one quotient and one remainder.
LEMMA Remainder ==
  ASSUME NEW d \in Nat, NEW q \in 0..(Size - 1)
  PROVE  (Size * d + q) % Size = q /\ (Size * d + q) \div Size = d
OBVIOUS

\* The quotient and the remainder of a number, put together, give it back.
LEMMA Division ==
  ASSUME NEW n \in Nat
  PROVE  /\ n = Size * (n \div Size) + (n % Size)
         /\ n % Size \in 0..(Size - 1) /\ n \div Size \in Nat
OBVIOUS

\* The next round is the next Client's, and after the last one the first one's.
LEMMA NextRound ==
  ASSUME NEW n \in Nat
  PROVE  \/ /\ (n % Size) + 1 < Size
            /\ (n + 1) % Size = (n % Size) + 1 /\ (n + 1) \div Size = n \div Size
         \/ /\ (n % Size) + 1 = Size
            /\ (n + 1) % Size = 0 /\ (n + 1) \div Size = (n \div Size) + 1
<1> DEFINE d == n \div Size
           q == n % Size
<1>1. n = Size * d + q /\ q \in 0..(Size - 1) /\ d \in Nat
  BY Division
<1> HIDE DEF d, q
<1>2. CASE q + 1 < Size
  <2>1. n + 1 = Size * d + (q + 1) /\ q + 1 \in 0..(Size - 1)
    BY <1>1, <1>2
  <2>2. (n + 1) % Size = q + 1 /\ (n + 1) \div Size = d
    BY <1>1, <2>1, Remainder
  <2> QED
    BY <1>2, <2>2 DEF d, q
<1>3. CASE q + 1 = Size
  <2>1. PICK e \in Nat : e = d + 1
    BY <1>1
  <2>2. n + 1 = Size * e + 0
    BY <1>1, <1>3, <2>1
  <2>3. (n + 1) % Size = 0 /\ (n + 1) \div Size = e
    BY <2>2, Remainder
  <2> QED
    BY <1>3, <2>1, <2>3 DEF d, q
<1> QED
  BY <1>1, <1>2, <1>3

\* Size rounds in a row reach every Client.
LEMMA AllAhead ==
  ASSUME NEW n \in Nat, NEW c \in Clients
  PROVE  \E k \in 0..(Size - 1) : (n + k) % Size = c
<1> DEFINE d == n \div Size
           q == n % Size
<1>1. n = Size * d + q /\ q \in 0..(Size - 1) /\ d \in Nat
  BY Division
<1> HIDE DEF d, q
<1>2. CASE q <= c
  <2>1. n + (c - q) = Size * d + c /\ c - q \in 0..(Size - 1)
    BY <1>1, <1>2 DEF Clients
  <2> QED
    BY <1>1, <2>1, Remainder DEF Clients
<1>3. CASE c < q
  <2>1. n + (Size + c - q) = Size * (d + 1) + c /\ Size + c - q \in 0..(Size - 1)
        /\ d + 1 \in Nat
    BY <1>1, <1>3 DEF Clients
  <2> QED
    BY <1>1, <2>1, Remainder DEF Clients
<1> QED
  BY <1>1, <1>2, <1>3 DEF Clients

\* The round after n is the next of the Client that round n is of, and of no other.
LEMMA RoundsStep ==
  ASSUME NEW n \in Nat, NEW c \in Clients
  PROVE  /\ Rounds(n, c) \in Nat
         /\ Rounds(n + 1, c) = Rounds(n, c) + (IF c = n % Size THEN 1 ELSE 0)
<1> DEFINE d == n \div Size
           q == n % Size
           d2 == (n + 1) \div Size
           q2 == (n + 1) % Size
<1>1. q \in 0..(Size - 1) /\ d \in Nat
  BY Division
<1>2. \/ q + 1 < Size /\ q2 = q + 1 /\ d2 = d
      \/ q + 1 = Size /\ q2 = 0 /\ d2 = d + 1
  BY NextRound
<1>3. /\ Rounds(n, c) = IF c < q THEN d + 1 ELSE d
      /\ Rounds(n + 1, c) = IF c < q2 THEN d2 + 1 ELSE d2
  BY DEF Rounds
<1> HIDE DEF d, q, d2, q2
<1>4. /\ Rounds(n, c) \in Nat
      /\ Rounds(n + 1, c) = Rounds(n, c) + (IF c = q THEN 1 ELSE 0)
  BY <1>1, <1>2, <1>3 DEF Clients
<1> QED
  BY <1>4 DEF q

\* The Clients' shares of the first n rounds differ by at most one.
LEMMA RoundsEven ==
  ASSUME NEW n \in Nat, NEW c \in Clients, NEW d \in Clients
  PROVE  Rounds(n, c) <= Rounds(n, d) + 1
BY Division DEF Rounds, Clients

-----------------------------------------------------------------------------
(* The invariant                                                           *)

\* The tries left are finitely many.
LEMMA TriesFinite == IsFiniteSet(Tries) /\ Cardinality(Tries) \in Nat
<1>1. IsFiniteSet(Procs \X (1..Size))
  BY FS_Product, FS_Interval, 1 \in Int, Size \in Int
<1> QED
  BY <1>1, FS_Subset, FS_CardinalityType DEF Tries

\* Each step of Next has a try left to make, and what it adds to round does not
\* make it wrap.
LEMMA BumpStep ==
  ASSUME TypeOK, RoundInv, TryInv, NEW p \in Procs, pc[p] = "add", round' = Bump
  PROVE  Bump \in Nat /\ Bump' = Bump + 1 /\ Cardinality(Tries) >= 1
<1>1. IsFiniteSet(Tries) /\ Cardinality(Tries) \in Nat
  BY TriesFinite
<1>2. <<p, i[p] + 1>> \in Tries
  BY DEF Tries, TypeOK, TryInv
<1>3. Cardinality(Tries) >= 1
  BY <1>1, <1>2, FS_EmptySet
<1>4. Bump \in Nat
  BY DEF Bump, TypeOK
<1>5. Size * nexts <= Size * MaxNexts /\ Size * nexts \in Nat /\ Size * MaxNexts \in Nat
  BY DEF TypeOK
<1>6. RoundMod > Size * MaxNexts + Size
  BY PoolAssumption DEF PoolAssumption
<1>7. Bump + 1 < RoundMod
  BY <1>1, <1>3, <1>4, <1>5, <1>6 DEF RoundInv
<1>8. Bump' = (Bump + 1) % RoundMod
  BY DEF Bump
<1> QED
  BY <1>3, <1>4, <1>7, <1>8

\* The initial state satisfies the invariant.
LEMMA InitInv == Init => PoolInv
<1> SUFFICES ASSUME Init PROVE PoolInv
  OBVIOUS
<1>1. TypeOK
  <2>1. usable \in [Procs -> BOOLEAN]
    BY Zenon DEF Init
  <2> QED
    BY <2>1 DEF Init, TypeOK, Clients
<1>2. StopInv /\ TryInv /\ AloneInv /\ CreateInv
  BY DEF Init, StopInv, TryInv, AloneInv, CreateInv
<1>3. SkipsUnusable
  BY DEF Init, SkipsUnusable
<1>4. Bump = 0
  BY DEF Init, Bump
<1>5. RoundInv
  <2>1. Tries = {}
    BY DEF Init, Tries
  <2> QED
    BY <1>4, <2>1, FS_EmptySet DEF Init, RoundInv
<1>6. ShareInv
  <2>1. up = 0..(made - 1)
    BY DEF Init
  <2>2. ASSUME NEW c \in Clients PROVE given[c] = 0 /\ Looking(c) = {}
    BY DEF Init, Looking
  <2>3. ASSUME NEW c \in Clients PROVE Rounds(0, c) = 0
    <3>1. 0 = Size * 0 + 0
      OBVIOUS
    <3>2. 0 % Size = 0 /\ 0 \div Size = 0
      BY <3>1, Remainder
    <3> QED
      BY <3>2 DEF Rounds, Clients
  <2>4. ASSUME NEW c \in Clients
        PROVE  given[c] + Cardinality(Looking(c)) = Rounds(Bump, c)
    <3>1. Cardinality(Looking(c)) = 0
      BY <2>2, FS_EmptySet
    <3> QED
      BY <1>4, <2>2, <2>3, <3>1
  <2> QED
    BY <2>1, <2>4 DEF ShareInv
<1> QED
  BY <1>1, <1>2, <1>3, <1>5, <1>6 DEF PoolInv

\* Type correctness is preserved: a Next makes at most Size tries.
LEMMA TypeNext ==
  ASSUME PoolInv, [Next]_vars
  PROVE  TypeOK'
<1> USE DEF TypeOK, poolVars, nextVars
<1>0. TypeOK /\ StopInv /\ TryInv
  BY DEF PoolInv
<1>1. CASE Created
  BY <1>0, <1>1 DEF Created, Clients
<1>2. CASE CreateFails
  BY <1>0, <1>2 DEF CreateFails
<1>3. CASE CallStop
  BY <1>0, <1>3 DEF CallStop
<1>4. CASE StopOne
  BY <1>0, <1>4 DEF StopOne, MoreToStop, Clients
<1>5. CASE CreateReturnsError
  BY <1>0, <1>5 DEF CreateReturnsError
<1>6. ASSUME NEW c \in Clients, Flip(c) PROVE TypeOK'
  BY <1>0, <1>6 DEF Flip
<1>7. ASSUME NEW p \in Procs, CallNext(p) PROVE TypeOK'
  BY <1>0, <1>7 DEF CallNext
<1>8. ASSUME NEW p \in Procs, AddRound(p) PROVE TypeOK'
  <2>1. Bump \in 0..(RoundMod - 1) /\ Bump \in Nat
    BY <1>0 DEF Bump
  <2>2. Bump % Size \in Clients
    BY <2>1, Division DEF Clients
  <2>3. i[p] + 1 \in 0..Size
    BY <1>0, <1>8 DEF AddRound, TryInv
  <2> QED
    BY <1>0, <1>8, <2>1, <2>2, <2>3 DEF AddRound
<1>9. ASSUME NEW p \in Procs, Look(p) PROVE TypeOK'
  <2>1. usable' = [usable EXCEPT ![p] = client[p] \in up] \/ usable' = usable
    BY <1>9 DEF Look
  <2>2. usable' \in [Procs -> BOOLEAN]
    <3>1. (client[p] \in up) \in BOOLEAN
      BY SMT
    <3> QED
      BY Zenon, <1>0, <2>1, <3>1, Update
  <2>3. given' \in [Clients -> Nat]
    BY <1>0, <1>9 DEF Look
  <2> QED
    BY <1>0, <1>9, <2>2, <2>3 DEF Look
<1>10. CASE UNCHANGED vars
  BY <1>0, <1>10 DEF vars
<1> QED
  BY <1>1, <1>2, <1>3, <1>4, <1>5, <1>6, <1>7, <1>8, <1>9, <1>10 DEF Next

\* The steps of creation, Stop and Flip keep StopInv and CreateInv; those of Next
\* keep them as they do not touch the pool.
LEMMA StopNext ==
  ASSUME PoolInv, [Next]_vars
  PROVE  StopInv' /\ CreateInv'
<1> USE DEF TypeOK, StopInv, CreateInv, poolVars, nextVars
<1>0. TypeOK /\ StopInv /\ CreateInv
  BY DEF PoolInv
<1>1. CASE Created
  BY <1>0, <1>1 DEF Created
<1>2. CASE CreateFails
  BY <1>0, <1>2 DEF CreateFails
<1>3. CASE CallStop
  BY <1>0, <1>3 DEF CallStop
<1>4. CASE StopOne
  BY <1>0, <1>4 DEF StopOne, MoreToStop
<1>5. CASE CreateReturnsError
  BY <1>0, <1>5 DEF CreateReturnsError, MoreToStop
<1>6. ASSUME NEW c \in Clients, Flip(c) PROVE StopInv' /\ CreateInv'
  BY <1>0, <1>6 DEF Flip, Clients
<1>7. ASSUME NEW p \in Procs, CallNext(p) \/ AddRound(p) \/ Look(p)
      PROVE  StopInv' /\ CreateInv'
  <2>1. phase \in {"ready", "stop"} /\ UNCHANGED <<poolVars, up>>
    BY <1>0, <1>7 DEF CallNext, AddRound, Look
  <2> QED
    BY <1>0, <2>1
<1>8. CASE UNCHANGED vars
  BY <1>0, <1>8 DEF vars
<1> QED
  BY <1>1, <1>2, <1>3, <1>4, <1>5, <1>6, <1>7, <1>8 DEF Next

\* A Next goes on after a failed try only if it has one left.
LEMMA TryNext ==
  ASSUME PoolInv, [Next]_vars
  PROVE  TryInv'
<1> USE DEF TypeOK, TryInv
<1>0. TypeOK /\ TryInv
  BY DEF PoolInv
<1>1. CASE UNCHANGED <<pc, i>>
  BY <1>0, <1>1
<1>2. ASSUME NEW p \in Procs, CallNext(p) PROVE TryInv'
  BY <1>0, <1>2 DEF CallNext
<1>3. ASSUME NEW p \in Procs, AddRound(p) PROVE TryInv'
  BY <1>0, <1>3 DEF AddRound
<1>4. ASSUME NEW p \in Procs, Look(p) PROVE TryInv'
  BY <1>0, <1>4 DEF Look, TriedAll
<1> QED
  BY <1>1, <1>2, <1>3, <1>4
  DEF Next, Created, CreateFails, CallStop, StopOne, CreateReturnsError, Flip, vars, nextVars

\* A call of Next brings Size tries, and each of them adds one to round.
LEMMA RoundNext ==
  ASSUME PoolInv, [Next]_vars
  PROVE  RoundInv'
<1> USE DEF TypeOK
<1>0. TypeOK /\ TryInv /\ RoundInv /\ TypeOK' /\ Bump \in Nat
  BY TypeNext DEF PoolInv, Bump
<1>1. IsFiniteSet(Tries) /\ Cardinality(Tries) \in Nat
  BY TriesFinite
<1> DEFINE most == Size * nexts
           most2 == Size * nexts'
<1>2. most \in Nat /\ Bump + Cardinality(Tries) <= most
  BY <1>0 DEF RoundInv
<1>3. ASSUME Bump' + Cardinality(Tries)' <= most2 PROVE RoundInv'
  BY <1>3 DEF RoundInv
<1>4. CASE UNCHANGED <<round, pc, i, nexts>>
  BY <1>0, <1>4 DEF RoundInv, Bump, Tries
<1>5. ASSUME NEW p \in Procs, CallNext(p) PROVE RoundInv'
  <2> DEFINE Mine == {p} \X (1..Size)
  <2>1. Tries' = Tries \cup Mine
    BY <1>0, <1>5 DEF CallNext, Tries
  <2>2. IsFiniteSet(Mine) /\ Cardinality(Mine) = Size
    <3>1. IsFiniteSet(1..Size) /\ Cardinality(1..Size) = Size
      BY FS_Interval
    <3>2. IsFiniteSet({p}) /\ Cardinality({p}) = 1
      BY FS_Singleton
    <3> QED
      BY <3>1, <3>2, FS_Product
  <2>3. Tries \cap Mine = {}
    BY <1>0, <1>5 DEF CallNext, Tries
  <2> HIDE DEF Mine
  <2>4. Cardinality(Tries') = Cardinality(Tries) + Size
    <3>1. Cardinality(Tries \cap Mine) = 0
      BY <2>3, FS_EmptySet
    <3> QED
      BY <1>1, <2>1, <2>2, <3>1, FS_Union
  <2>5. most2 = most + Size /\ Bump' = Bump
    BY <1>0, <1>5 DEF CallNext, Bump
  <2> HIDE DEF most, most2
  <2> QED
    BY <1>0, <1>1, <1>2, <1>3, <2>4, <2>5
<1>6. ASSUME NEW p \in Procs, AddRound(p) PROVE RoundInv'
  <2> DEFINE t == <<p, i[p] + 1>>
  <2>1. t \in Tries
    BY <1>0, <1>6 DEF AddRound, Tries, TryInv
  <2>2. Tries' = Tries \ {t}
    BY <1>0, <1>6 DEF AddRound, Tries
  <2>3. Cardinality(Tries') = Cardinality(Tries) - 1
    BY <1>1, <2>1, <2>2, FS_RemoveElement
  <2>4. Bump' = Bump + 1 /\ most2 = most
    BY <1>0, <1>6, BumpStep DEF AddRound
  <2> HIDE DEF most, most2
  <2> QED
    BY <1>0, <1>1, <1>2, <1>3, <2>3, <2>4
<1>7. ASSUME NEW p \in Procs, Look(p) PROVE RoundInv'
  <2>1. Tries' \subseteq Tries
    BY <1>0, <1>7 DEF Look, Tries
  <2>2. Cardinality(Tries') <= Cardinality(Tries) /\ Cardinality(Tries') \in Nat
    BY <1>1, <2>1, FS_Subset, FS_CardinalityType
  <2>3. most2 = most /\ Bump' = Bump
    BY <1>0, <1>7 DEF Look, Bump
  <2> HIDE DEF most, most2
  <2> QED
    BY <1>0, <1>1, <1>2, <1>3, <2>2, <2>3
<1> QED
  BY <1>4, <1>5, <1>6, <1>7
  DEF Next, Created, CreateFails, CallStop, StopOne, CreateReturnsError, Flip, vars, nextVars

\* A Next that is alone tries the Clients ahead of it one by one.
LEMMA AloneNext ==
  ASSUME PoolInv, [Next]_vars
  PROVE  AloneInv'
<1> USE DEF TypeOK
<1>0. TypeOK /\ TryInv /\ RoundInv /\ AloneInv /\ CreateInv /\ Bump \in Nat
  BY DEF PoolInv, Bump
<1>1. CASE UNCHANGED <<up, round, pc, i, client, steady>>
  BY <1>0, <1>1 DEF AloneInv, Ahead, Bump
<1>2. CASE Created
  BY <1>0, <1>2 DEF Created, AloneInv, CreateInv, nextVars
<1>3. ASSUME NEW c, UNCHANGED <<round, pc, i, client>>,
             up \ {c} \subseteq up', steady' = [p \in Procs |-> steady[p] \ {c}]
      PROVE  AloneInv'
  BY <1>0, <1>3 DEF AloneInv, Ahead, Bump
<1>4. ASSUME NEW c \in Clients, Flip(c) PROVE AloneInv'
  BY <1>3, <1>4 DEF Flip, nextVars
<1>5. CASE StopOne
  BY <1>3, <1>5 DEF StopOne, nextVars
<1>6. ASSUME NEW p \in Procs, CallNext(p) PROVE AloneInv'
  <2> SUFFICES ASSUME NEW q \in Procs, pc'[q] # "idle", steady'[q] # {}
               PROVE  /\ \A r \in Procs \ {q} : pc'[r] = "idle"
                      /\ steady'[q] \subseteq up'
                      /\ \A c \in steady'[q] : c \in Ahead(q)'
    BY DEF AloneInv
  <2>1. q = p /\ \A r \in Procs \ {p} : pc[r] = "idle"
    BY <1>0, <1>6 DEF CallNext, AloneInv
  <2>2. steady'[p] = up /\ up' = up /\ i'[p] = 0 /\ Bump' = Bump
    BY <1>0, <1>6, <2>1 DEF CallNext, Bump
  <2>3. ASSUME NEW c \in up PROVE c \in Ahead(p)'
    <3>1. PICK k \in 0..(Size - 1) : (Bump + k) % Size = c
      BY <1>0, <2>3, AllAhead
    <3> QED
      BY <2>2, <3>1 DEF Ahead
  <2>4. \A r \in Procs \ {p} : pc'[r] = "idle"
    BY <1>0, <1>6, <2>1 DEF CallNext
  <2> QED
    BY <2>1, <2>2, <2>3, <2>4
<1>7. ASSUME NEW p \in Procs, AddRound(p) PROVE AloneInv'
  <2> SUFFICES ASSUME NEW q \in Procs, pc'[q] # "idle", steady'[q] # {}
               PROVE  /\ \A r \in Procs \ {q} : pc'[r] = "idle"
                      /\ steady'[q] \subseteq up'
                      /\ \A c \in steady'[q] : \/ c \in Ahead(q)'
                                               \/ pc'[q] = "look" /\ c = client'[q]
    BY DEF AloneInv
  <2>1. /\ q = p /\ pc[p] = "add"
        /\ \A r \in Procs \ {p} : pc[r] = "idle"
        /\ \A c \in steady[p] : c \in Ahead(p)
        /\ steady'[p] \subseteq up'
    BY <1>0, <1>7 DEF AddRound, AloneInv
  <2>2. Bump' = Bump + 1
    BY <1>0, <1>7, BumpStep DEF AddRound
  <2>3. i'[p] = i[p] + 1 /\ client'[p] = Bump % Size /\ pc'[p] = "look" /\ steady' = steady
    BY <1>0, <1>7 DEF AddRound
  <2>4. ASSUME NEW c \in steady[p] PROVE c \in Ahead(p)' \/ c = client'[p]
    <3>1. PICK k \in 0..(Size - i[p] - 1) : c = (Bump + k) % Size
      BY <2>1, <2>4 DEF Ahead
    <3>2. CASE k = 0
      BY <1>0, <2>3, <3>1, <3>2
    <3>3. CASE k # 0
      <4>1. k - 1 \in 0..(Size - i'[p] - 1) /\ Bump' + (k - 1) = Bump + k
        BY <1>0, <2>2, <2>3, <3>3
      <4> QED
        BY <3>1, <4>1 DEF Ahead
    <3> QED
      BY <3>2, <3>3
  <2>5. \A r \in Procs \ {p} : pc'[r] = "idle"
    BY <1>0, <1>7, <2>1 DEF AddRound
  <2> QED
    BY <2>1, <2>3, <2>4, <2>5
<1>8. ASSUME NEW p \in Procs, Look(p) PROVE AloneInv'
  BY <1>0, <1>8 DEF Look, AloneInv, Ahead, Bump
<1> QED
  BY <1>1, <1>2, <1>4, <1>5, <1>6, <1>7, <1>8
  DEF Next, CreateFails, CallStop, CreateReturnsError, vars, nextVars

\* When a Next that is alone gives up, nothing is ahead of it, so the Client it is
\* looking at is the only one that can have been up all along.
LEMMA SkipsNext ==
  ASSUME PoolInv, [Next]_vars
  PROVE  SkipsUnusable'
<1> USE DEF TypeOK, SkipsUnusable
<1>0. TypeOK /\ AloneInv /\ SkipsUnusable
  BY DEF PoolInv
<1>1. CASE /\ UNCHANGED <<pc, usable>>
           /\ \A p \in Procs : steady'[p] \subseteq steady[p]
  BY <1>0, <1>1
<1>2. ASSUME NEW c \in Clients, Flip(c) PROVE SkipsUnusable'
  BY <1>0, <1>1, <1>2 DEF Flip, nextVars
<1>3. CASE StopOne
  BY <1>0, <1>1, <1>3 DEF StopOne, nextVars
<1>4. ASSUME NEW p \in Procs, CallNext(p) PROVE SkipsUnusable'
  BY <1>0, <1>4 DEF CallNext
<1>5. ASSUME NEW p \in Procs, AddRound(p) PROVE SkipsUnusable'
  BY <1>0, <1>5 DEF AddRound
<1>6. ASSUME NEW p \in Procs, Look(p) PROVE SkipsUnusable'
  <2>1. ASSUME steady[p] # {}, i[p] = Size PROVE client[p] \in up
    <3>1. Ahead(p) = {}
      BY <2>1 DEF Ahead
    <3> QED
      BY <1>0, <1>6, <2>1, <3>1 DEF Look, AloneInv
  <2>2. ASSUME pc'[p] = "idle", steady[p] # {} PROVE client[p] \in up
    BY <1>0, <1>6, <2>1, <2>2 DEF Look, TriedAll
  <2>3. ASSUME pc'[p] = "idle", steady[p] # {} PROVE usable'[p]
    BY <1>0, <1>6, <2>2, <2>3 DEF Look
  <2>4. ASSUME NEW q \in Procs \ {p} PROVE pc'[q] = pc[q] /\ usable'[q] = usable[q]
    BY <1>0, <1>6 DEF Look
  <2> QED
    BY <1>0, <1>6, <2>3, <2>4 DEF Look
<1> QED
  BY <1>1, <1>2, <1>3, <1>4, <1>5, <1>6
  DEF Next, Created, CreateFails, CallStop, CreateReturnsError, vars, nextVars

\* While no Client fails, AddUint64 gives its Client one more goroutine that looks
\* at it, and Look turns one such goroutine into a Client given out.
LEMMA ShareNext ==
  ASSUME PoolInv, [Next]_vars
  PROVE  ShareInv'
<1> USE DEF TypeOK
<1>0. /\ TypeOK /\ StopInv /\ TryInv /\ RoundInv /\ ShareInv /\ CreateInv /\ TypeOK'
      /\ Bump \in Nat
  BY TypeNext DEF PoolInv, Bump
<1>1. ASSUME NEW c \in Clients
      PROVE  IsFiniteSet(Looking(c)) /\ Cardinality(Looking(c)) \in Nat
  BY FS_Subset, FS_CardinalityType DEF Looking
<1>2. CASE flips' # 0 \/ phase' \notin {"create", "ready"}
  BY <1>2 DEF ShareInv
<1>3. CASE Created
  <2>1. UNCHANGED <<flips, round, given, pc, client>> /\ phase = "create"
    BY <1>3 DEF Created, nextVars
  <2>2. up = 0..(made - 1) => up' = 0..(made' - 1)
    BY <1>0, <1>3 DEF Created
  <2> QED
    BY <1>0, <2>1, <2>2 DEF ShareInv, Looking, Bump
<1>4. ASSUME NEW p \in Procs, CallNext(p) PROVE ShareInv'
  <2>1. UNCHANGED <<flips, phase, made, up, round, given>>
    BY <1>4 DEF CallNext, poolVars
  <2>2. ASSUME NEW c \in Clients PROVE Looking(c)' = Looking(c)
    BY <1>0, <1>4 DEF CallNext, Looking
  <2> QED
    BY <1>0, <2>1, <2>2 DEF ShareInv, Bump
<1>5. ASSUME NEW p \in Procs, AddRound(p), flips = 0, phase = "ready" PROVE ShareInv'
  <2>1. UNCHANGED <<flips, phase, made, up, given>>
    BY <1>5 DEF AddRound, poolVars
  <2>2. Bump' = Bump + 1
    BY <1>0, <1>5, BumpStep DEF AddRound
  <2>3. ASSUME NEW c \in Clients
        PROVE  Cardinality(Looking(c)') =
                   Cardinality(Looking(c)) + (IF c = Bump % Size THEN 1 ELSE 0)
    <3>1. CASE c = Bump % Size
      <4>1. Looking(c)' = Looking(c) \cup {p} /\ p \notin Looking(c)
        BY <1>0, <1>5, <3>1 DEF AddRound, Looking
      <4> QED
        BY <1>1, <3>1, <4>1, FS_AddElement
    <3>2. CASE c # Bump % Size
      <4>1. Looking(c)' = Looking(c)
        BY <1>0, <1>5, <3>2 DEF AddRound, Looking
      <4> QED
        BY <1>1, <3>2, <4>1
    <3> QED
      BY <3>1, <3>2
  <2>4. ASSUME NEW c \in Clients
        PROVE  given'[c] + Cardinality(Looking(c)') = Rounds(Bump', c)
    <3>1. given[c] + Cardinality(Looking(c)) = Rounds(Bump, c)
      BY <1>0, <1>5 DEF ShareInv
    <3>2. Rounds(Bump + 1, c) = Rounds(Bump, c) + (IF c = Bump % Size THEN 1 ELSE 0)
      BY <1>0, RoundsStep
    <3>3. given[c] \in Nat
      BY <1>0
    <3>4. (IF c = Bump % Size THEN 1 ELSE 0) \in Nat
      OBVIOUS
    <3> QED
      BY <1>1, <2>1, <2>2, <2>3, <3>1, <3>2, <3>3, <3>4
  <2>5. up' = 0..(made' - 1)
    BY <1>0, <1>5, <2>1 DEF ShareInv
  <2> QED
    BY <2>4, <2>5 DEF ShareInv
<1>6. ASSUME NEW p \in Procs, Look(p), flips = 0, phase = "ready" PROVE ShareInv'
  <2>1. UNCHANGED <<flips, phase, made, up, round, client>>
    BY <1>6 DEF Look, poolVars
  <2>2. client[p] \in up
    BY <1>0, <1>6 DEF ShareInv, StopInv, Clients
  <2>3. /\ pc' = [pc EXCEPT ![p] = "idle"]
        /\ given' = [given EXCEPT ![client[p]] = @ + 1]
    BY <1>6, <2>2 DEF Look
  <2>4. ASSUME NEW c \in Clients
        PROVE  given'[c] + Cardinality(Looking(c)') = given[c] + Cardinality(Looking(c))
    <3>1. CASE c = client[p]
      <4>1. Looking(c)' = Looking(c) \ {p} /\ p \in Looking(c)
        BY <1>0, <1>6, <2>1, <2>3, <3>1 DEF Look, Looking
      <4>2. Cardinality(Looking(c)') = Cardinality(Looking(c)) - 1
        BY <1>1, <4>1, FS_RemoveElement
      <4>3. given'[c] = given[c] + 1 /\ given[c] \in Nat
        BY <1>0, <2>3, <3>1
      <4> QED
        BY <1>1, <4>2, <4>3
    <3>2. CASE c # client[p]
      <4>1. Looking(c)' = Looking(c)
        BY <1>0, <2>1, <2>3, <3>2 DEF Looking
      <4> QED
        BY <1>0, <2>3, <3>2, <4>1
    <3> QED
      BY <3>1, <3>2
  <2> QED
    BY <1>0, <1>6, <2>1, <2>4 DEF ShareInv, Bump
<1>7. ASSUME NEW p \in Procs, AddRound(p) \/ Look(p) PROVE ShareInv'
  <2>1. flips' = flips /\ phase' = phase /\ phase \in {"ready", "stop"}
    BY <1>0, <1>7 DEF AddRound, Look, poolVars, CreateInv
  <2> QED
    BY <1>2, <1>5, <1>6, <1>7, <2>1
<1>8. ASSUME NEW c \in Clients, Flip(c) PROVE ShareInv'
  <2>1. flips' # 0
    BY <1>0, <1>8 DEF Flip
  <2> QED
    BY <1>2, <2>1
<1>9. CASE CreateFails \/ CallStop \/ StopOne \/ CreateReturnsError
  <2>1. phase' \notin {"create", "ready"}
    BY <1>9 DEF CreateFails, CallStop, StopOne, CreateReturnsError
  <2> QED
    BY <1>2, <2>1
<1>10. CASE UNCHANGED vars
  BY <1>0, <1>10 DEF vars, poolVars, nextVars, ShareInv, Looking, Bump
<1> QED
  BY <1>3, <1>4, <1>7, <1>8, <1>9, <1>10 DEF Next

\* The invariant holds in every reachable state.
LEMMA InvHolds == Spec => []PoolInv
<1>1. PoolInv /\ [Next]_vars => PoolInv'
  BY TypeNext, StopNext, TryNext, RoundNext, AloneNext, SkipsNext, ShareNext DEF PoolInv
<1> QED
  BY InitInv, <1>1, PTL DEF Spec

-----------------------------------------------------------------------------
(* Theorems                                                                *)

\* When a dial fails, the undo loop of NewClientPool has stopped every Client it
\* created before the error is returned, however their conns came and went.
THEOREM NoClientLeftHolds == Spec => []NoClientLeft
<1>1. PoolInv => NoClientLeft
  <2> SUFFICES ASSUME PoolInv, phase = "failed" PROVE up = {} /\ stopped = 0..(made - 1)
    BY DEF NoClientLeft
  <2>1. /\ next = made /\ stopped = 0..(next - 1)
        /\ \A c \in up : c \in Int /\ c < made /\ c >= next
    BY DEF PoolInv, StopInv, TypeOK, Clients
  <2> QED
    BY <2>1 DEF PoolInv, TypeOK
<1> QED
  BY InvHolds, <1>1, PTL

\* A Next that overlaps with no other returns an unusable Client only if none was
\* usable all through it, for any number of Clients: Size rounds in a row reach
\* each of them.
THEOREM SkipsUnusableHolds == Spec => []SkipsUnusable
<1>1. PoolInv => SkipsUnusable
  BY DEF PoolInv
<1> QED
  BY InvHolds, <1>1, PTL

\* As long as no Client has failed, Next gives the Clients out equally often, up
\* to the calls under way, for any number of Clients and any interleaving.
THEOREM RoundRobinHolds == Spec => []RoundRobin
<1>1. PoolInv => RoundRobin
  <2> DEFINE Look1 == {p \in Procs : pc[p] = "look"}
  <2> SUFFICES ASSUME PoolInv, flips = 0, phase = "ready",
                      NEW c \in Clients, NEW d \in Clients
               PROVE  given[c] <= given[d] + 1 + Cardinality(Look1)
    BY DEF RoundRobin
  <2>1. TypeOK /\ ShareInv /\ Bump \in Nat
    BY DEF PoolInv, TypeOK, Bump
  <2>2. /\ given[c] + Cardinality(Looking(c)) = Rounds(Bump, c)
        /\ given[d] + Cardinality(Looking(d)) = Rounds(Bump, d)
        /\ given[c] \in Nat /\ given[d] \in Nat
    BY <2>1 DEF ShareInv, TypeOK
  <2>3. Rounds(Bump, c) <= Rounds(Bump, d) + 1
    BY <2>1, RoundsEven
  <2>4. /\ Cardinality(Looking(c)) \in Nat /\ Cardinality(Look1) \in Nat
        /\ Cardinality(Looking(d)) \in Nat /\ Cardinality(Looking(d)) <= Cardinality(Look1)
    <3>1. Looking(c) \subseteq Procs /\ Looking(d) \subseteq Look1 /\ Look1 \subseteq Procs
      BY DEF Looking
    <3> QED
      BY <3>1, FS_Subset, FS_CardinalityType
  <2> HIDE DEF Look1
  <2> QED
    BY <2>2, <2>3, <2>4
<1> QED
  BY InvHolds, <1>1, PTL

=============================================================================
