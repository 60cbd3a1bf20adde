------------------------------ MODULE Allocator ------------------------------
(***************************************************************************)
(* BufferPool (allocator.go) with Debug on: byte buffers that two sync.Pools *)
(* keep for reuse.  Its operations are operators that take the state of the  *)
(* allocator and give the set of its possible outcomes, each with the new    *)
(* state a and the slice s that is returned; Message uses them.              *)
(*                                                                         *)
(* A buffer is the number of an array of cells; a slice is a buffer and a    *)
(* length, starting with the first cell.                                     *)
(***************************************************************************)
EXTENDS Integers, Sequences, SequencesExt

CONSTANTS
    SmallSize, BigSize,   \* the arguments of New
    Spare,                \* how many cells more than needed append may allocate
    MaxBuffers            \* bound on the arrays ever made

ASSUME AllocatorAssumption ==
    /\ SmallSize \in Nat \ {0} /\ BigSize \in Nat /\ SmallSize <= BigSize
    /\ Spare # {} /\ Spare \subseteq Nat /\ MaxBuffers \in Nat

\* What New returns
NewAllocator ==
    [cells   |-> <<>>,    \* cells[b]: the content of the array b
     small   |-> {},      \* the arrays in smallPool
     big     |-> {},      \* those in bigPool, if it is another pool
     tracked |-> {},      \* the keys of allocStacks
     panic   |-> FALSE,   \* deleteAllocStack found nothing to delete
     twice   |-> FALSE]   \* an array was put into a pool that was in one

NoSlice == [buf |-> 0, len |-> 0]
Cap(a, s) == Len(a.cells[s.buf])
Content(a, s) == SubSeq(a.cells[s.buf], 1, s.len)
Resized(s, n) == [s EXCEPT !.len = n]
Zeros(n) == [i \in 1..n |-> 0]

\* copy(s[at:], values)
Copy(a, s, at, values) ==
    [a EXCEPT !.cells[s.buf] =
        [i \in DOMAIN @ |-> IF i - at \in DOMAIN values THEN values[i - at] ELSE @[i]]]

\* A new array: the numbers of the arrays say in which order they were made.
Fresh(a, content) ==
    IF Len(a.cells) = MaxBuffers THEN {}
    ELSE {[a |-> [a EXCEPT !.cells = Append(@, content)],
           s |-> [buf |-> Len(a.cells) + 1, len |-> Len(content)]]}

-----------------------------------------------------------------------------
(* A definition whose name has an underscore is a mutation of the next one. *)

OnePool == SmallSize = BigSize
PoolOf(size) == IF size >= BigSize /\ ~OnePool THEN "big" ELSE "small"

\* sync.Pool.Get: an array that was put there, or a new one, since a sync.Pool
\* may drop any of its items.
Get(a, pool) ==
    {[a |-> [a EXCEPT ![pool] = @ \ {b}],
      s |-> [buf |-> b, len |-> Len(a.cells[b])]] : b \in a[pool]}
    \cup Fresh(a, Zeros(IF pool = "big" THEN BigSize ELSE SmallSize))

\* append(s[:cap(s)], make([]byte, n - cap(s))...), if s is smaller than n
Grown(a, s, n) ==
    IF Cap(a, s) >= n THEN {[a |-> a, s |-> s]}
    ELSE UNION {Fresh(a, a.cells[s.buf] \o Zeros(n + k - Cap(a, s))) : k \in Spare}

Track(a, s) == [a EXCEPT !.tracked = @ \cup {s.buf}]
Untrack(a, s) ==
    [a EXCEPT !.panic = @ \/ s.buf \notin a.tracked, !.tracked = @ \ {s.buf}]

\* Get from a pool, with at least n cells, and tracked
GetGrown(a, pool, n) ==
    {[a |-> Track(r.a, r.s), s |-> Resized(r.s, n)] :
        r \in UNION {Grown(g.a, g.s, n) : g \in Get(a, pool)}}

Malloc(a, n) == GetGrown(a, PoolOf(n), n)

\* Free: the pool is chosen by the capacity, which may have grown since Malloc.
FreePool_ByLength(a, s) == PoolOf(s.len)
FreePool(a, s) == PoolOf(Cap(a, s))

Free(a, s) ==
    LET b == Untrack(a, s)
    IN  [b EXCEPT ![FreePool(a, s)] = @ \cup {s.buf},
                  !.twice = @ \/ s.buf \in a.small \cup a.big]

\* The two ways Realloc and AppendString let s become n cells long: it moves to
\* an array from the big pool, and its own is freed, or it grows in its place or
\* to a new array that replaces its own.
Moved(a, s, n) ==
    {[a |-> Free(Copy(r.a, r.s, 0, Content(a, s)), s), s |-> r.s] :
        r \in GetGrown(a, IF OnePool THEN "small" ELSE "big", n)}

Replaced(a, s, r) == IF r.s.buf = s.buf THEN r.a ELSE Track(Untrack(r.a, s), r.s)

InPlace(a, s, n) ==
    {[a |-> Replaced(a, s, r), s |-> Resized(r.s, n)] : r \in Grown(a, s, n)}

\* Realloc and reallocDebug
Realloc(a, s, n) ==
    IF n <= Cap(a, s) THEN {[a |-> a, s |-> Resized(s, n)]}
    ELSE IF Cap(a, s) < BigSize /\ n >= BigSize THEN Moved(a, s, n)
    ELSE InPlace(a, s, n)

\* Append, AppendString and appendStringDebug
AppendCells(a, s, more) ==
    LET n == s.len + Len(more)
    IN  {[a |-> Copy(r.a, r.s, s.len, more), s |-> r.s] :
            r \in IF s.len < BigSize /\ n >= BigSize THEN Moved(a, s, n) ELSE InPlace(a, s, n)}

=============================================================================
