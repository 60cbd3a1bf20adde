----------------------------- MODULE ClientPool ------------------------------
(***************************************************************************)
(* ClientPool (client.go): its creation, which undoes a partial failure,    *)
(* Next, by which goroutines take Clients in round robin and skip those     *)
(* stopped or reconnecting, and Stop.                                       *)
(*                                                                         *)
(* A Client is its index and whether it is usable; what makes it so is in   *)
(* ClientLifecycle.                                                         *)
(***************************************************************************)
EXTENDS Naturals, FiniteSets

CONSTANTS
    Procs,     \* goroutines that call Next
    Size,      \* number of Clients
    RoundMod,  \* round is a uint64: 2^64 scaled down, with the same residue mod Size
    MaxNexts,  \* bound on the calls of Next
    MaxFlips   \* bound on how often a Client loses or regains its conn

ASSUME PoolAssumption ==
    /\ IsFiniteSet(Procs)
    /\ Size \in Nat \ {0}
    /\ RoundMod \in Nat /\ RoundMod > Size * (MaxNexts + 1)
    /\ MaxNexts \in Nat /\ MaxFlips \in Nat

Clients == 0..(Size - 1)

VARIABLES
    phase,    \* "create", "undo", "ready", "failed" or "stop"
    made,     \* pool.clients[0..made-1] are created
    next,     \* the next Client to stop, in the undo loop and in Stop
    stopped,  \* the Clients that were stopped
    up,       \* the Clients that are running and not reconnecting
    flips,
    round,    \* pool.round
    pc,       \* pc[p]: "idle", "add" or "look"
    i,        \* i[p]: how many Clients p has tried
    client,   \* client[p]: the last of them
    steady,   \* steady[p]: the Clients that were up all along this Next, none
              \* of them if it overlapped with another Next
    usable,   \* usable[p]: whether p's last Next found its Client up
    given,    \* given[c]: how often Next returned c
    nexts

poolVars == <<phase, made, next, stopped>>
nextVars == <<round, pc, i, client, usable, given, nexts>>
vars == <<poolVars, up, flips, nextVars, steady>>

Init ==
    /\ phase = "create" /\ made = 0 /\ next = 0 /\ stopped = {}
    /\ up = {} /\ flips = 0
    /\ round = RoundMod - 1
    /\ pc = [p \in Procs |-> "idle"]
    /\ i = [p \in Procs |-> 0]
    /\ client = [p \in Procs |-> 0]
    /\ steady = [p \in Procs |-> {}]
    /\ usable = [p \in Procs |-> TRUE]
    /\ given = [c \in Clients |-> 0]
    /\ nexts = 0

-----------------------------------------------------------------------------
(* NewClientPool, NewClientPoolFromDialers and Stop.  A definition whose    *)
(* name has an underscore is a mutation of the next one.                    *)

Created ==
    /\ phase = "create" /\ made < Size
    /\ made' = made + 1
    /\ up' = up \cup {made}
    /\ phase' = IF made + 1 = Size THEN "ready" ELSE phase
    /\ UNCHANGED <<next, stopped, flips, nextVars, steady>>

\* A dial fails: stop the Clients created so far, return the error.
CreateFails ==
    /\ phase = "create" /\ made < Size
    /\ phase' = "undo"
    /\ UNCHANGED <<made, next, stopped, up, flips, nextVars, steady>>

CallStop ==
    /\ phase = "ready"
    /\ phase' = "stop"
    /\ UNCHANGED <<made, next, stopped, up, flips, nextVars, steady>>

MoreToStop_OffByOne == next + 1 < made
MoreToStop == next < made

StopOne ==
    /\ phase \in {"undo", "stop"} /\ MoreToStop
    /\ next' = next + 1
    /\ stopped' = stopped \cup {next}
    /\ up' = up \ {next}
    /\ steady' = [p \in Procs |-> steady[p] \ {next}]
    /\ UNCHANGED <<phase, made, flips, nextVars>>

CreateReturnsError ==
    /\ phase = "undo" /\ ~MoreToStop
    /\ phase' = "failed"
    /\ UNCHANGED <<made, next, stopped, up, flips, nextVars, steady>>

\* A Client loses its conn, or has it again.
Flip(c) ==
    /\ c < made /\ c \notin stopped
    /\ flips < MaxFlips
    /\ flips' = flips + 1
    /\ up' = IF c \in up THEN up \ {c} ELSE up \cup {c}
    /\ steady' = [p \in Procs |-> steady[p] \ {c}]
    /\ UNCHANGED <<poolVars, nextVars>>

-----------------------------------------------------------------------------
(* Next                                                                    *)

CallNext(p) ==
    /\ phase \in {"ready", "stop"} /\ pc[p] = "idle"
    /\ nexts < MaxNexts
    /\ nexts' = nexts + 1
    /\ i' = [i EXCEPT ![p] = 0]
    /\ steady' = [q \in Procs |->
                     IF \A r \in Procs \ {p} : pc[r] = "idle"
                     THEN IF q = p THEN up ELSE steady[q]
                     ELSE IF q = p \/ pc[q] # "idle" THEN {} ELSE steady[q]]
    /\ pc' = [pc EXCEPT ![p] = "add"]
    /\ UNCHANGED <<poolVars, up, flips, round, client, usable, given>>

\* atomic.AddUint64(&pool.round, 1), which wraps on the first call
Bump_Saturates == IF round = RoundMod - 1 THEN round ELSE round + 1
Bump == (round + 1) % RoundMod

AddRound(p) ==
    /\ pc[p] = "add"
    /\ round' = Bump
    /\ client' = [client EXCEPT ![p] = Bump % Size]
    /\ i' = [i EXCEPT ![p] = @ + 1]
    /\ pc' = [pc EXCEPT ![p] = "look"]
    /\ UNCHANGED <<poolVars, up, flips, steady, usable, given, nexts>>

\* client.running && !client.reconnecting, or the last try
TriedAll_OneLess(p) == i[p] >= Size - 1
TriedAll(p) == i[p] = Size

Look(p) ==
    /\ pc[p] = "look"
    /\ IF client[p] \in up \/ TriedAll(p)
       THEN /\ pc' = [pc EXCEPT ![p] = "idle"]
            /\ usable' = [usable EXCEPT ![p] = client[p] \in up]
            /\ given' = [given EXCEPT ![client[p]] = @ + 1]
       ELSE /\ pc' = [pc EXCEPT ![p] = "add"]
            /\ UNCHANGED <<usable, given>>
    /\ UNCHANGED <<poolVars, up, flips, round, i, client, steady, nexts>>

-----------------------------------------------------------------------------
Next ==
    \/ Created \/ CreateFails \/ CallStop \/ StopOne \/ CreateReturnsError
    \/ \E c \in Clients : Flip(c)
    \/ \E p \in Procs : CallNext(p) \/ AddRound(p) \/ Look(p)

Spec == Init /\ [][Next]_vars

-----------------------------------------------------------------------------
(* Properties                                                              *)

\* The type invariant
TypeOK ==
    /\ phase \in {"create", "undo", "ready", "failed", "stop"}
    /\ made \in 0..Size /\ next \in 0..Size
    /\ stopped \in SUBSET Clients /\ up \in SUBSET Clients
    /\ flips \in 0..MaxFlips /\ nexts \in 0..MaxNexts
    /\ round \in 0..(RoundMod - 1)
    /\ pc \in [Procs -> {"idle", "add", "look"}]
    /\ i \in [Procs -> 0..Size]
    /\ client \in [Procs -> Clients]
    /\ steady \in [Procs -> SUBSET Clients]
    /\ usable \in [Procs -> BOOLEAN]
    /\ given \in [Clients -> Nat]

\* "If any dial fails, the created Clients are stopped": none is left running
\* behind an error.
NoClientLeft == phase = "failed" => up = {} /\ stopped = 0..(made - 1)

\* Next skips "the ones stopped or reconnecting": a call that overlaps with no
\* other returns an unusable Client only if none was usable all through it.
\* (Calls that overlap share round, so each may try the same Client again and
\* miss a usable one.)
SkipsUnusable == \A p \in Procs : pc[p] = "idle" /\ steady[p] # {} => usable[p]

\* Next is round robin: as long as no Client has failed, the Clients are given
\* out equally often, whatever the interleaving, up to the calls under way.
RoundRobin ==
    flips = 0 /\ phase = "ready" =>
        \A c, d \in Clients :
            given[c] <= given[d] + 1 + Cardinality({p \in Procs : pc[p] = "look"})

=============================================================================
