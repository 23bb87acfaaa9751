--------------------------------- MODULE Rand ------------------------------
(***************************************************************************)
(* The buffer of random bytes, misc/rand.c: the super loop refills it from *)
(* the soft device's pool, RandGet takes bytes out.  A byte is the number  *)
(* of its draw from the pool; 0 is the one RandGet makes up when it has    *)
(* none.                                                                   *)
(***************************************************************************)
EXTENDS Integers, Sequences

CONSTANTS RAND_BUF_SIZE,
          MaxPool,   \* most bytes the soft device has ready
          MaxDraws   \* bound: bytes drawn

RandAssumption ==
    /\ RAND_BUF_SIZE \in Nat \ {0}
    /\ MaxPool \in Nat /\ MaxDraws \in Nat

VARIABLES read, write, count, data,   \* randBuf
          drawn,    \* history: bytes drawn from the pool
          given     \* history: bytes RandGet gave out, but for made up ones

vars == <<read, write, count, data, drawn, given>>

RAND_REFIL_THRESHOLD == RAND_BUF_SIZE \div 4
Index == 0 .. RAND_BUF_SIZE - 1

\* write is one past the end after a refill that ended there.
TypeOK ==
    /\ read \in Index /\ write \in 0 .. RAND_BUF_SIZE
    /\ count \in 0 .. RAND_BUF_SIZE
    /\ data \in [Index -> 0 .. MaxDraws]
    /\ drawn \in 0 .. MaxDraws
    /\ given \in Seq(Nat) /\ Len(given) <= drawn

Init ==
    /\ read = 0 /\ write = 0 /\ count = 0
    /\ data = [i \in Index |-> 0]
    /\ drawn = 0 /\ given = <<>>

\* An index that runs over the end goes on at the start.
Wrap(i) == IF i < RAND_BUF_SIZE THEN i ELSE i - RAND_BUF_SIZE

\* RandGet(n), n calls of getOne: those that find the buffer empty give 0.
RandGet(n) ==
    LET bytes == IF n <= count THEN n ELSE count
    IN  /\ read' = Wrap(read + bytes)
        /\ count' = count - bytes
        /\ given' = given \o [i \in 1 .. bytes |-> data[Wrap(read + i - 1)]]
        /\ UNCHANGED <<write, data, drawn>>

\* Mutant of WriteAfter: the part before the end of the buffer alone counts.
BugForgetsRest(n, rem) == write + n

\* Where a refill of n bytes up to the end and rem from the start leaves write.
WriteAfter(n, rem) == IF rem > 0 THEN rem ELSE write + n

\* RandRefill, when the soft device has pool bytes: nothing unless a quarter
\* of the buffer is free; else what there is and fits, in one piece or two.
RandRefill(pool) ==
    LET available == RAND_BUF_SIZE - count
        length == IF pool > available THEN available ELSE pool
        n   == IF length < RAND_BUF_SIZE - write THEN length ELSE RAND_BUF_SIZE - write
        rem == length - n
        Draw(i) == IF i \in write .. write + n - 1 THEN drawn + 1 + (i - write)
                   ELSE IF i \in 0 .. rem - 1 THEN drawn + 1 + n + i
                   ELSE data[i]
    IN  /\ available >= RAND_REFIL_THRESHOLD /\ pool > 0
        /\ drawn + length <= MaxDraws
        /\ data' = [i \in Index |-> Draw(i)]
        /\ write' = WriteAfter(n, rem)
        /\ count' = count + length
        /\ drawn' = drawn + length
        /\ UNCHANGED <<read, given>>

Next ==
    \/ \E n \in 1 .. 4 : RandGet(n)
    \/ \E pool \in 0 .. MaxPool : RandRefill(pool)

Spec == Init /\ [][Next]_vars

-----------------------------------------------------------------------------
\* However refills and takers meet at the end of the buffer, every byte drawn
\* from the pool is given out once, in the order drawn, or still waits in the
\* buffer; none is given twice or overwritten (rand.c:134-149).
GivesEachByteOnce ==
    /\ Len(given) + count = drawn
    /\ \A i \in DOMAIN given : given[i] = i
    /\ \A i \in 1 .. count : data[Wrap(read + i - 1)] = Len(given) + i
=============================================================================
