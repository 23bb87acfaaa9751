------------------------- MODULE Parts_proofs ------------------------------
(***************************************************************************)
(* The clock, the chunk map, the random bytes, the packing of records, the *)
(* command line and the callouts, for any sizes, periods and numbers of    *)
(* steps.                                                                  *)
(***************************************************************************)
EXTENDS Parts, SequenceTheorems, WellFoundedInduction, TLAPS

-----------------------------------------------------------------------------
(* Dividing                                                                *)

LEMMA MulMono ==
    ASSUME NEW p \in Nat, NEW q \in Nat, NEW w \in Nat \ {0}, p < q
    PROVE  p * w + w <= q * w /\ p * w \in Nat /\ q * w \in Nat
BY Z3

LEMMA DivMod ==
    ASSUME NEW a \in Nat, NEW w \in Nat \ {0}
    PROVE  /\ a \div w \in Nat /\ a % w \in Nat /\ a % w < w
           /\ (a \div w) * w \in Nat
           /\ a = (a \div w) * w + (a % w)
BY Z3

\* A number is divided in one way.
LEMMA DivIs ==
    ASSUME NEW a \in Nat, NEW w \in Nat \ {0}, NEW p \in Nat, NEW r \in Nat, r < w, a = p * w + r
    PROVE  a \div w = p /\ a % w = r
<1>1. /\ a \div w \in Nat /\ a % w \in Nat /\ a % w < w /\ (a \div w) * w \in Nat
      /\ a = (a \div w) * w + (a % w) /\ p * w \in Nat
  BY DivMod
<1>2. p < a \div w => p * w + w <= (a \div w) * w
  BY <1>1, MulMono
<1>3. a \div w < p => (a \div w) * w + w <= p * w
  BY <1>1, MulMono
<1>4. a \div w = p
  BY <1>1, <1>2, <1>3
<1> QED BY <1>1, <1>4

LEMMA DivMono ==
    ASSUME NEW a \in Nat, NEW b \in Nat, NEW w \in Nat \ {0}, a <= b
    PROVE  a \div w <= b \div w
<1>1. /\ a \div w \in Nat /\ b \div w \in Nat /\ b % w < w /\ a % w \in Nat /\ b % w \in Nat
      /\ (a \div w) * w \in Nat /\ (b \div w) * w \in Nat
      /\ a = (a \div w) * w + (a % w) /\ b = (b \div w) * w + (b % w)
  BY DivMod
<1>2. b \div w < a \div w => (b \div w) * w + w <= (a \div w) * w
  BY <1>1, MulMono
<1> QED BY <1>1, <1>2

\* A quotient is below p if the number is below p times the divisor.
LEMMA DivBelow ==
    ASSUME NEW a \in Nat, NEW w \in Nat \ {0}, NEW p \in Nat, a < p * w
    PROVE  a \div w < p
<1>1. /\ a \div w \in Nat /\ (a \div w) * w \in Nat /\ a % w \in Nat
      /\ a = (a \div w) * w + (a % w)
  BY DivMod
<1>2. p * w \in Nat
  OBVIOUS
<1>3. p < a \div w => p * w + w <= (a \div w) * w
  BY <1>1, MulMono
<1>4. p = a \div w => a >= p * w
  BY <1>1
<1> QED BY <1>1, <1>2, <1>3, <1>4

\* Of numbers that are less than w apart only equal ones have one remainder.
LEMMA SameRest ==
    ASSUME NEW a \in Nat, NEW b \in Nat, NEW w \in Nat \ {0}, a <= b, b < a + w, a % w = b % w
    PROVE  a = b
<1>1. /\ a \div w \in Nat /\ b \div w \in Nat /\ a % w \in Nat
      /\ (a \div w) * w \in Nat /\ (b \div w) * w \in Nat
      /\ a = (a \div w) * w + (a % w) /\ b = (b \div w) * w + (b % w)
  BY DivMod
<1>2. a \div w < b \div w => (a \div w) * w + w <= (b \div w) * w
  BY <1>1, MulMono
<1>3. b \div w < a \div w => (b \div w) * w + w <= (a \div w) * w
  BY <1>1, MulMono
<1>4. a \div w = b \div w
  BY <1>1, <1>2, <1>3
<1> QED BY <1>1, <1>4

\* Whole turns of a counter do not show.
LEMMA WholeTurns ==
    ASSUME NEW a \in Nat, NEW k \in Nat, NEW w \in Nat \ {0}
    PROVE  /\ k * w \in Nat /\ (k + 1) * w = k * w + w
           /\ (a + k * w) % w = a % w
<1> DEFINE x == a \div w
           y == a % w
           b == a + k * w
<1>1. x \in Nat /\ y \in Nat /\ y < w /\ x * w \in Nat /\ a = x * w + y
  BY DivMod
<1> HIDE DEF x, y
<1>2. k * w \in Nat /\ (k + 1) * w = k * w + w /\ (x + k) * w = x * w + k * w
  BY <1>1
<1>3. b \in Nat /\ b = (x + k) * w + y /\ x + k \in Nat
  BY <1>1, <1>2
<1> HIDE DEF b
<1>4. b % w = y
  BY <1>1, <1>3, DivIs
<1> QED BY <1>2, <1>4 DEF b, y

-----------------------------------------------------------------------------
(* Loops                                                                   *)
(* A recursive function whose argument is the loop's variables computes    *)
(* what the loop does if a count goes down every time round it.            *)

LEMMA LeastOf ==
    ASSUME NEW S \in SUBSET Nat, S # {}
    PROVE  \E n \in S : \A k \in S : n <= k
<1>1. PICK n \in S : \A k \in S : ~ (<<k, n>> \in OpToRel(<, Nat))
  BY NatLessThanWellFounded, WFMin
<1>2. \A k \in S : n <= k
  <2> TAKE k \in S
  <2>1. ~(k < n)
    BY <1>1 DEF OpToRel
  <2> QED BY <2>1
<1> QED BY <1>2

LEMMA NatInduct ==
    ASSUME NEW P, 0 \in P, \A n \in Nat : n \in P => n + 1 \in P
    PROVE  Nat \subseteq P
<1> DEFINE S == {n \in Nat : n \notin P}
<1> SUFFICES ASSUME S # {} PROVE FALSE
  OBVIOUS
<1>1. PICK n \in S : \A k \in S : n <= k
  <2>1. S \in SUBSET Nat
    OBVIOUS
  <2> HIDE DEF S
  <2> QED BY <2>1, LeastOf
<1>2. n \in Nat /\ n # 0 /\ n - 1 \in Nat /\ n - 1 \notin S
  BY <1>1
<1> QED BY <1>2

\* One more round of the loop: until B, x becomes nx[x].
Round(f, D, B, b, nx) == [x \in D |-> IF x \in B THEN b[x] ELSE f[nx[x]]]
\* f is right where the loop ends after n rounds at most.
RightUpTo(f, D, B, b, nx, m, n) ==
    \A x \in D : m[x] <= n => f[x] = Round(f, D, B, b, nx)[x]

\* The loop counts down with m.
CountsDown(D, B, R, b, nx, m) ==
    /\ b \in [D -> R] /\ nx \in [D -> D] /\ m \in [D -> Nat]
    /\ \A x \in D : x \notin B => m[nx[x]] < m[x]

\* A loop that counts down gives every x a result.
LEMMA LoopExists ==
    ASSUME NEW D, NEW B, NEW R, NEW b, NEW nx, NEW m, CountsDown(D, B, R, b, nx, m)
    PROVE  \E f \in [D -> R] : f = Round(f, D, B, b, nx)
<1> USE DEF CountsDown
<1> DEFINE Up(f, n) == RightUpTo(f, D, B, b, nx, m, n)
<1> DEFINE P == {n \in Nat : \E f \in [D -> R] : Up(f, n)}
<1>1. ASSUME NEW f \in [D -> R], NEW n \in Nat, Up(f, n)
      PROVE  Up(Round(f, D, B, b, nx), n + 1) /\ Round(f, D, B, b, nx) \in [D -> R]
  <2> DEFINE g == Round(f, D, B, b, nx)
  <2>1. g \in [D -> R]
    BY DEF Round
  <2>2. ASSUME NEW x \in D, m[x] <= n + 1 PROVE g[x] = Round(g, D, B, b, nx)[x]
    <3>1. CASE x \in B
      BY <3>1 DEF Round
    <3>2. CASE x \notin B
      <4>1. m[nx[x]] <= n /\ nx[x] \in D
        BY <2>2, <3>2
      <4>2. f[nx[x]] = g[nx[x]]
        BY <1>1, <4>1 DEF RightUpTo
      <4> QED BY <3>2, <4>1, <4>2 DEF Round
    <3> QED BY <3>1, <3>2
  <2> QED BY <2>1, <2>2 DEF RightUpTo
<1>2. 0 \in P
  <2> DEFINE f == [x \in D |-> b[x]]
  <2>1. f \in [D -> R]
    OBVIOUS
  <2>2. Up(f, 0)
    <3> SUFFICES ASSUME NEW x \in D, m[x] <= 0 PROVE f[x] = Round(f, D, B, b, nx)[x]
      BY DEF RightUpTo
    <3>1. x \in B
      OBVIOUS
    <3> QED BY <3>1 DEF Round
  <2> QED BY <2>1, <2>2
<1>3. Nat \subseteq P
  <2>1. ASSUME NEW n \in Nat, n \in P PROVE n + 1 \in P
    <3>1. PICK f \in [D -> R] : Up(f, n)
      BY <2>1
    <3>2. Round(f, D, B, b, nx) \in [D -> R] /\ Up(Round(f, D, B, b, nx), n + 1)
      BY <1>1, <3>1
    <3> HIDE DEF Up
    <3> QED BY <3>2
  <2> HIDE DEF P
  <2> QED BY <1>2, <2>1, NatInduct
<1> DEFINE F == [n \in Nat |-> CHOOSE f \in [D -> R] : Up(f, n)]
<1>4. \A n \in Nat : F[n] \in [D -> R] /\ Up(F[n], n)
  BY <1>3
<1> HIDE DEF F
\* The approximations agree.
<1> DEFINE Q == {n \in Nat : \A x \in D : m[x] <= n =>
                    \A i, j \in Nat : m[x] <= i /\ m[x] <= j => F[i][x] = F[j][x]}
<1>5. 0 \in Q
  <2> SUFFICES ASSUME NEW x \in D, m[x] <= 0, NEW i \in Nat, NEW j \in Nat PROVE F[i][x] = F[j][x]
    OBVIOUS
  <2>1. x \in B
    OBVIOUS
  <2>2. m[x] <= i /\ m[x] <= j
    OBVIOUS
  <2> QED BY <1>4, <2>1, <2>2 DEF RightUpTo, Round
<1>6. ASSUME NEW n \in Nat, n \in Q PROVE n + 1 \in Q
  <2> SUFFICES ASSUME NEW x \in D, m[x] <= n + 1, NEW i \in Nat, NEW j \in Nat,
                      m[x] <= i, m[x] <= j
               PROVE  F[i][x] = F[j][x]
    OBVIOUS
  <2>1. F[i][x] = Round(F[i], D, B, b, nx)[x] /\ F[j][x] = Round(F[j], D, B, b, nx)[x]
    BY <1>4 DEF RightUpTo
  <2>2. CASE x \in B
    BY <2>1, <2>2 DEF Round
  <2>3. CASE x \notin B
    <3>1. nx[x] \in D /\ m[nx[x]] <= n /\ m[nx[x]] <= i /\ m[nx[x]] <= j
      BY <2>3
    <3>2. F[i][nx[x]] = F[j][nx[x]]
      BY <1>6, <3>1
    <3> QED BY <2>1, <2>3, <3>1, <3>2 DEF Round
  <2> QED BY <2>2, <2>3
<1>7. Nat \subseteq Q
  <2>1. \A n \in Nat : n \in Q => n + 1 \in Q
    BY <1>6
  <2> HIDE DEF Q
  <2> QED BY <1>5, <2>1, NatInduct
<1> DEFINE f == [x \in D |-> F[m[x]][x]]
<1>8. f \in [D -> R]
  BY <1>4
<1>9. ASSUME NEW x \in D PROVE f[x] = Round(f, D, B, b, nx)[x]
  <2>1. F[m[x]][x] = Round(F[m[x]], D, B, b, nx)[x]
    BY <1>4 DEF RightUpTo
  <2>2. CASE x \in B
    BY <2>1, <2>2 DEF Round
  <2>3. CASE x \notin B
    <3>1. nx[x] \in D /\ m[nx[x]] \in Nat /\ m[x] \in Nat /\ m[nx[x]] <= m[x] /\ m[nx[x]] \in Q
      BY <1>7, <2>3
    <3>2. F[m[x]][nx[x]] = F[m[nx[x]]][nx[x]]
      BY <3>1
    <3> QED BY <2>1, <2>3, <3>1, <3>2 DEF Round
  <2> QED BY <2>2, <2>3
<1>10. f = Round(f, D, B, b, nx)
  <2>1. Round(f, D, B, b, nx) = [x \in D |-> Round(f, D, B, b, nx)[x]]
    BY DEF Round
  <2>2. f = [x \in D |-> f[x]]
    OBVIOUS
  <2> HIDE DEF f
  <2> QED BY <1>9, <2>1, <2>2
<1> QED BY <1>8, <1>10

\* What holds of every round holds at the end.
LEMMA LoopKeeps ==
    ASSUME NEW D, NEW B, NEW R, NEW b, NEW nx, NEW m, CountsDown(D, B, R, b, nx, m),
           NEW f, f = Round(f, D, B, b, nx),
           NEW I \in SUBSET D, \A x \in I : x \notin B => nx[x] \in I,
           NEW z \in I
    PROVE  \E y \in I : y \in B /\ f[z] = b[y]
<1> USE DEF CountsDown
<1>0. \A x \in D : f[x] = IF x \in B THEN b[x] ELSE f[nx[x]]
  BY DEF Round
<1> DEFINE P == {n \in Nat : \A x \in I : m[x] <= n => \E y \in I : y \in B /\ f[x] = b[y]}
<1>1. 0 \in P
  <2> SUFFICES ASSUME NEW x \in I, m[x] <= 0 PROVE \E y \in I : y \in B /\ f[x] = b[y]
    OBVIOUS
  <2>1. x \in B
    OBVIOUS
  <2> QED BY <1>0, <2>1
<1>2. ASSUME NEW n \in Nat, n \in P PROVE n + 1 \in P
  <2> SUFFICES ASSUME NEW x \in I, m[x] <= n + 1 PROVE \E y \in I : y \in B /\ f[x] = b[y]
    OBVIOUS
  <2>1. CASE x \in B
    BY <1>0, <2>1
  <2>2. CASE x \notin B
    <3>1. nx[x] \in I /\ m[nx[x]] <= n /\ f[x] = f[nx[x]]
      BY <1>0, <2>2
    <3> QED BY <1>2, <3>1
  <2> QED BY <2>1, <2>2
<1>3. Nat \subseteq P
  <2>1. \A n \in Nat : n \in P => n + 1 \in P
    BY <1>2
  <2> HIDE DEF P
  <2> QED BY <1>1, <2>1, NatInduct
<1>4. z \in D /\ m[z] \in P /\ m[z] <= m[z]
  BY <1>3
<1> QED BY <1>4

\* Induction over the rounds of a loop, from its end.
LEMMA LoopInduct ==
    ASSUME NEW D, NEW B, NEW R, NEW b, NEW nx, NEW m, CountsDown(D, B, R, b, nx, m),
           NEW S, \A x \in D : x \in B => x \in S,
           \A x \in D : x \notin B /\ nx[x] \in S => x \in S
    PROVE  D \subseteq S
<1> USE DEF CountsDown
<1> DEFINE P == {n \in Nat : \A x \in D : m[x] <= n => x \in S}
<1>1. 0 \in P
  <2> SUFFICES ASSUME NEW x \in D, m[x] <= 0 PROVE x \in S
    OBVIOUS
  <2>1. x \in B
    OBVIOUS
  <2> QED BY <2>1
<1>2. ASSUME NEW n \in Nat, n \in P PROVE n + 1 \in P
  <2> SUFFICES ASSUME NEW x \in D, m[x] <= n + 1, x \notin B PROVE x \in S
    OBVIOUS
  <2>1. nx[x] \in D /\ m[nx[x]] <= n
    OBVIOUS
  <2> QED BY <1>2, <2>1
<1>3. Nat \subseteq P
  <2>1. \A n \in Nat : n \in P => n + 1 \in P
    BY <1>2
  <2> HIDE DEF P
  <2> QED BY <1>1, <2>1, NatInduct
<1>4. ASSUME NEW x \in D PROVE x \in S
  <2>1. m[x] \in P /\ m[x] <= m[x]
    BY <1>3
  <2> QED BY <2>1
<1> QED BY <1>4

-----------------------------------------------------------------------------
(* The clock                                                               *)

Seconds == TICK_MAX \div TICK_UNIT
Beats == TICK_UNIT \div Incr

\* Seconds are whole beats, and the counter wraps after two seconds or more.
LEMMA Periods ==
    /\ TICK_UNIT \in Nat \ {0} /\ TICK_MAX \in Nat \ {0} /\ Incr \in Nat \ {0}
    /\ Fractions \in Nat \ {0} /\ Rtc!Step \in Nat \ {0}
    /\ Late \in Nat /\ MaxTicks \in Nat /\ Late + TICK_UNIT + TICK_UNIT <= TICK_MAX
    /\ Seconds \in Nat /\ Beats \in Nat /\ Seconds >= 2 /\ Beats >= 1
    /\ TICK_MAX = Seconds * TICK_UNIT
    /\ TICK_UNIT = Beats * Incr
    /\ TICK_UNIT = Fractions * Rtc!Step
    /\ Incr <= TICK_UNIT /\ TICK_UNIT + TICK_UNIT <= TICK_MAX
<1> DEFINE U == TICK_UNIT
           W == TICK_MAX
           S == U \div Fractions
<1>1. /\ U \in Nat \ {0} /\ W \in Nat \ {0} /\ Incr \in Nat \ {0} /\ Fractions \in Nat \ {0}
      /\ W % U = 0 /\ U < W /\ U % Incr = 0 /\ U % Fractions = 0
      /\ Late \in Nat /\ Late + 2 * U <= W /\ MaxTicks \in Nat
  BY PartsAssumption DEF PartsAssumption, Rtc!RtcAssumption
<1> HIDE DEF U, W
<1>2. Seconds \in Nat /\ W = Seconds * U
  <2>1. W \div U \in Nat /\ W = (W \div U) * U + (W % U) /\ (W \div U) * U \in Nat
    BY <1>1, DivMod
  <2> QED BY <1>1, <2>1 DEF Seconds, U, W
<1>3. Beats \in Nat /\ U = Beats * Incr
  <2>1. U \div Incr \in Nat /\ U = (U \div Incr) * Incr + (U % Incr) /\ (U \div Incr) * Incr \in Nat
    BY <1>1, DivMod
  <2> QED BY <1>1, <2>1 DEF Beats, U
<1>4. S \in Nat /\ U = S * Fractions
  <2>1. S \in Nat /\ U = S * Fractions + (U % Fractions) /\ S * Fractions \in Nat
    BY <1>1, DivMod
  <2> QED BY <1>1, <2>1
<1> HIDE DEF S
<1>5. S \in Nat \ {0} /\ U = Fractions * S
  <2>1. S # 0
    BY <1>1, <1>4
  <2>2. S * Fractions = Fractions * S
    BY <1>1, <1>4
  <2> QED BY <2>1, <2>2, <1>4
<1>6. Beats >= 1 /\ Incr <= U
  <2>1. Beats # 0
    BY <1>1, <1>3
  <2>2. 0 * Incr + Incr <= Beats * Incr
    BY <2>1, <1>1, <1>3, MulMono
  <2> QED BY <2>1, <2>2, <1>1, <1>3
<1>7. Seconds >= 2 /\ U + U <= W
  <2>1. Seconds # 0 /\ Seconds # 1
    BY <1>1, <1>2
  <2>2. Seconds >= 2
    BY <2>1, <1>2
  <2>3. 1 * U + U <= Seconds * U
    BY <2>2, <1>1, <1>2, MulMono
  <2> QED BY <2>2, <2>3, <1>1, <1>2
<1>8. Rtc!Step = S
  BY DEF Rtc!Step, S, U
<1> QED BY <1>1, <1>2, <1>3, <1>5, <1>6, <1>7, <1>8 DEF U, W

\* What the interrupt leaves of the counter if it reads it at the true time h.
ReadAt(h) ==
    /\ todWraps = h \div TICK_MAX
    /\ todSecs = (h % TICK_MAX) \div TICK_UNIT
    /\ rtcTod0 = h \div TICK_UNIT
    /\ tod0Frac = (h % TICK_UNIT) \div Rtc!Step

\* The true time of the match it asks for then; the first one is TimerInit's.
NextMatch(h) == IF h = 0 THEN TICK_UNIT ELSE h + Incr - (h % Incr)

\* The time as the counter tells it: each match that went by unseen has cost
\* it a wrap.
Unseen == lost * TICK_MAX
Due(h) == NextMatch(h) + Unseen

\* The match asked for at h is less than a wrap ahead, or it waits for the
\* interrupt, or the interrupt it caused has read the counter at h.
Awaits(h) == /\ matched = -1 /\ match = -1 /\ cc = NextMatch(h) % TICK_MAX
             /\ ticks < Due(h) /\ Due(h) <= ticks + TICK_MAX
Pending(h) == /\ matched = Due(h) /\ match = -1
              /\ matched <= ticks /\ ticks <= matched + Late
Handles(h) == /\ matched \in Nat /\ matched <= h + Unseen /\ h + Unseen <= ticks
              /\ ticks <= matched + Late
              /\ h # 0 /\ match = NextMatch(h) % TICK_MAX

ReadLast(h) ==
    /\ h <= ticks /\ (h = 0 \/ TICK_UNIT <= h)
    /\ ReadAt(h)
    /\ Awaits(h) \/ Pending(h) \/ Handles(h)

ClockInv == /\ ticks \in 0 .. MaxTicks /\ lost \in Nat /\ sure \in BOOLEAN
            /\ \E h \in Nat : ReadLast(h)

LEMMA MatchIs ==
    ASSUME NEW h \in Nat, h = 0 \/ TICK_UNIT <= h
    PROVE  /\ NextMatch(h) \in Nat /\ h < NextMatch(h) /\ NextMatch(h) <= h + TICK_UNIT
           /\ h # 0 => NextMatch(h) <= h + Incr
<1>1. CASE h = 0
  <2>1. NextMatch(h) = TICK_UNIT
    BY <1>1 DEF NextMatch
  <2> QED BY <1>1, <2>1, Periods
<1>2. CASE h # 0
  <2> DEFINE g == h % Incr
  <2>1. NextMatch(h) = h + Incr - g
    BY <1>2 DEF NextMatch
  <2>2. g \in Nat /\ g < Incr /\ Incr \in Nat /\ Incr <= TICK_UNIT /\ TICK_UNIT \in Nat
    BY Periods, DivMod
  <2> HIDE DEF g
  <2> QED BY <2>1, <2>2
<1> QED BY <1>1, <1>2

\* The counter's seconds are fewer than at the last interrupt if and only if
\* the counter has wrapped since, and then it has wrapped once.
LEMMA WrapSeen ==
    ASSUME NEW h \in Nat, NEW t \in Nat, h <= t, t <= h + TICK_UNIT + Late
    PROVE  t \div TICK_MAX = IF (t % TICK_MAX) \div TICK_UNIT < (h % TICK_MAX) \div TICK_UNIT
                             THEN h \div TICK_MAX + 1 ELSE h \div TICK_MAX
<1> DEFINE W == TICK_MAX
           U == TICK_UNIT
           q == h \div W
           a == q * W
           r == h % W
<1>1. W \in Nat \ {0} /\ U \in Nat \ {0} /\ Late \in Nat /\ Late + U + U <= W
  BY Periods
<1>2. t <= h + U + Late
  OBVIOUS
<1> HIDE DEF W, U
<1>3. q \in Nat /\ r \in Nat /\ r < W /\ a \in Nat /\ h = a + r
  BY <1>1, DivMod
<1>4. (q + 1) * W = a + W /\ q + 1 \in Nat
  BY <1>1, <1>3
<1> DEFINE z == IF t < a + W THEN t - a ELSE t - (a + W)
           p == IF t < a + W THEN q ELSE q + 1
<1>5. z \in Nat /\ z < W /\ p \in Nat /\ t = p * W + z
  <2> HIDE DEF a, r
  <2>1. q * W = a
    BY DEF a
  <2> QED BY <2>1, <1>1, <1>2, <1>3, <1>4
<1>6. t \div W = p /\ t % W = z
  <2> HIDE DEF p, z
  <2> QED BY <1>1, <1>5, DivIs
<1>7. CASE t < a + W
  <2>1. z = t - a /\ r <= z
    BY <1>3, <1>7
  <2>2. r \div U <= z \div U /\ r \div U \in Nat /\ z \div U \in Nat
    <3> HIDE DEF z, r
    <3> QED BY <2>1, <1>1, <1>3, <1>5, DivMono, DivMod
  <2> HIDE DEF r
  <2>3. ~(z \div U < r \div U)
    <3> HIDE DEF z
    <3> QED BY <2>2
  <2>4. p = q
    BY <1>7
  <2> HIDE DEF p, z, q
  <2> QED BY <1>6, <2>3, <2>4 DEF W, U, r, q
<1>8. CASE ~(t < a + W)
  <2>1. z = t - (a + W)
    BY <1>8
  <2>2. z + U <= r
    <3> HIDE DEF a, r, z
    <3> QED BY <2>1, <1>1, <1>2, <1>3
  <2>3. z \div U + 1 <= r \div U /\ r \div U \in Nat /\ z \div U \in Nat
    <3> HIDE DEF z, r
    <3> DEFINE x == z \div U
               y == z % U
    <3>1. x \in Nat /\ y \in Nat /\ y < U /\ x * U \in Nat /\ z = x * U + y
      BY <1>1, <1>5, DivMod
    <3> HIDE DEF x, y
    <3>2. (x + 1) * U = x * U + U
      BY <1>1, <3>1
    <3>3. z + U = (x + 1) * U + y /\ x + 1 \in Nat /\ z + U \in Nat
      BY <3>1, <3>2, <1>1
    <3> DEFINE w == z + U
               n == x + 1
    <3>4. w \in Nat /\ n \in Nat /\ w = n * U + y /\ w <= r
      BY <3>3, <2>2
    <3> HIDE DEF w, n
    <3>5. w \div U = n
      BY <3>1, <3>4, <1>1, DivIs
    <3>6. w \div U <= r \div U /\ r \div U \in Nat
      BY <3>4, <1>1, <1>3, DivMono, DivMod
    <3> QED BY <3>1, <3>5, <3>6 DEF n, x
  <2>4. z \div U < r \div U
    <3> HIDE DEF z, r
    <3> QED BY <2>3
  <2>5. p = q + 1
    BY <1>8
  <2> HIDE DEF p, z, q, r
  <2> QED BY <1>6, <2>4, <2>5 DEF W, U, r, q
<1> QED BY <1>7, <1>8

\* What the interrupt works out from the counter.
LEMMA CounterTells ==
    ASSUME NEW t \in Nat, NEW c \in Nat, c = t % TICK_MAX
    PROVE  /\ (t \div TICK_MAX) * (TICK_MAX \div TICK_UNIT) + (c \div TICK_UNIT) = t \div TICK_UNIT
           /\ c % TICK_UNIT = t % TICK_UNIT
           /\ t # 0 => (c + Incr - (c % Incr)) % TICK_MAX = NextMatch(t) % TICK_MAX
<1> DEFINE W == TICK_MAX
           U == TICK_UNIT
           w == t \div W
           s == c \div U
           f == c % U
<1>1. /\ W \in Nat \ {0} /\ U \in Nat \ {0} /\ Incr \in Nat \ {0} /\ Seconds \in Nat /\ Beats \in Nat
      /\ W = Seconds * U /\ U = Beats * Incr
  BY Periods
<1> HIDE DEF W, U
<1>2. w \in Nat /\ w * W \in Nat /\ t = w * W + c
  BY <1>1, DivMod DEF W
<1>3. s \in Nat /\ f \in Nat /\ f < U /\ s * U \in Nat /\ c = s * U + f
  BY <1>1, DivMod
<1> HIDE DEF w, s, f
<1>4. t = (w * Seconds + s) * U + f /\ w * Seconds + s \in Nat
  <2>1. \A a, b, k \in Nat : (a * b) * k = a * (b * k) /\ a * b \in Nat
    BY Z3
  <2>2. w * (Seconds * U) = (w * Seconds) * U /\ w * Seconds \in Nat
    BY <2>1, <1>1, <1>2
  <2>3. \A a, b, k \in Nat : (a + b) * k = a * k + b * k
    BY Z3
  <2>4. (w * Seconds + s) * U = (w * Seconds) * U + s * U
    BY <2>2, <2>3, <1>1, <1>3
  <2> QED BY <2>2, <2>4, <1>1, <1>2, <1>3
<1>5. t \div U = w * Seconds + s /\ t % U = f
  BY <1>4, <1>1, <1>3, DivIs
<1>6. ASSUME t # 0 PROVE (c + Incr - (c % Incr)) % W = NextMatch(t) % W
  <2> DEFINE d == c \div Incr
             g == c % Incr
             n == w * Seconds * Beats
  <2>1. d \in Nat /\ g \in Nat /\ g < Incr /\ d * Incr \in Nat /\ c = d * Incr + g
    BY <1>1, DivMod
  <2>2. w * W = n * Incr /\ n \in Nat
    <3>1. \A x, y, z, v \in Nat : x * (y * (z * v)) = (x * y * z) * v /\ x * y * z \in Nat
      BY Z3
    <3>2. W = Seconds * (Beats * Incr)
      BY <1>1
    <3> QED BY <3>1, <3>2, <1>1, <1>2
  <2> HIDE DEF d, g, n
  <2>3. t = (n + d) * Incr + g /\ n + d \in Nat
    <3>1. (n + d) * Incr = n * Incr + d * Incr
      BY <2>1, <2>2, <1>1
    <3> QED BY <3>1, <2>1, <2>2, <1>2
  <2>4. t % Incr = g
    BY <2>3, <2>1, <1>1, DivIs
  <2> DEFINE b == c + Incr - g
  <2>5. b \in Nat /\ t + Incr - g = w * W + b
    BY <2>1, <1>1, <1>2
  <2>6. (w * W + b) % W = b % W
    <3> HIDE DEF b
    <3> DEFINE x == b \div W
               y == b % W
    <3>1. x \in Nat /\ y \in Nat /\ y < W /\ x * W \in Nat /\ b = x * W + y
      BY <2>5, <1>1, DivMod
    <3> HIDE DEF x, y
    <3>2. w * W + b = (w + x) * W + y /\ w + x \in Nat
      <4>1. (w + x) * W = w * W + x * W
        BY <3>1, <1>1, <1>2
      <4> QED BY <4>1, <3>1, <1>2
    <3> DEFINE z == w * W + b
               p == w + x
    <3>3. z \in Nat /\ z = p * W + y /\ p \in Nat
      BY <3>2, <2>5, <1>2
    <3> HIDE DEF z, p
    <3>4. z % W = y
      BY <3>1, <3>3, <1>1, DivIs
    <3> QED BY <3>4 DEF y, z
  <2>7. NextMatch(t) = w * W + b
    BY <1>6, <2>4, <2>5 DEF NextMatch
  <2>8. b = c + Incr - (c % Incr)
    BY DEF g
  <2> HIDE DEF b
  <2> QED BY <2>6, <2>7, <2>8
<1> QED BY <1>2, <1>5, <1>6 DEF W, U, w, s, f, Seconds

\* The clock that was read at h, and what it shows.
Fraction(h) == (h % TICK_UNIT) \div Rtc!Step
ShownAt(h) == Rtc!InTicks(h \div TICK_UNIT, Fraction(h))

LEMMA ShownIs ==
    ASSUME NEW h \in Nat
    PROVE  /\ h \div TICK_UNIT \in Nat /\ Fraction(h) \in 0 .. Fractions - 1
           /\ ShownAt(h) \in Nat /\ ShownAt(h) <= h /\ h < ShownAt(h) + Rtc!Step
           /\ TICK_UNIT <= h => ShownAt(h) # 0
<1> DEFINE U == TICK_UNIT
           S == Rtc!Step
           s == h \div U
           r == h % U
           x == r \div S
<1>1. U \in Nat \ {0} /\ S \in Nat \ {0} /\ Fractions \in Nat \ {0} /\ U = Fractions * S
  BY Periods
<1> HIDE DEF U, S
<1>2. s \in Nat /\ r \in Nat /\ r < U /\ s * U \in Nat /\ h = s * U + r
  BY <1>1, DivMod
<1>3. U <= h => s # 0
  <2>1. s = 0 => s * U = 0
    BY <1>1
  <2> QED BY <2>1, <1>1, <1>2
<1> HIDE DEF s, r
<1>4. x \in Nat /\ r % S \in Nat /\ r % S < S /\ x * S \in Nat /\ r = x * S + (r % S)
  BY <1>1, <1>2, DivMod
<1>5. x < Fractions
  BY <1>1, <1>2, DivBelow
<1> HIDE DEF x
<1>6. s # 0 => s * U # 0
  BY <1>1, <1>2
<1>7. ShownAt(h) = s * U + x * S /\ h \div TICK_UNIT = s /\ Fraction(h) = x
  BY DEF ShownAt, Fraction, Rtc!InTicks, s, r, x, U, S
<1>8. /\ s * U + x * S \in Nat /\ s * U + x * S <= h /\ h < s * U + x * S + S
      /\ U <= h => s * U + x * S # 0
  BY <1>1, <1>2, <1>3, <1>4, <1>6
<1> QED BY <1>1, <1>2, <1>4, <1>5, <1>7, <1>8 DEF U, S

\* The clock does not go back, and neither do its words: within a second the
\* fraction grows.
LEMMA ShownGrows ==
    ASSUME NEW h \in Nat, NEW t \in Nat, h <= t
    PROVE  h \div TICK_UNIT <= t \div TICK_UNIT /\ ShownAt(h) <= ShownAt(t)
<1> DEFINE U == TICK_UNIT
           S == Rtc!Step
           s == h \div U
           r == h % U
           x == r \div S
           s2 == t \div U
           r2 == t % U
           x2 == r2 \div S
<1>1. U \in Nat \ {0} /\ S \in Nat \ {0}
  BY Periods
<1> HIDE DEF U, S
<1>2. /\ s \in Nat /\ r \in Nat /\ r < U /\ s * U \in Nat /\ h = s * U + r
      /\ s2 \in Nat /\ r2 \in Nat /\ r2 < U /\ s2 * U \in Nat /\ t = s2 * U + r2
      /\ s <= s2
  BY <1>1, DivMod, DivMono
<1> HIDE DEF s, r, s2, r2
<1>3. /\ x \in Nat /\ r % S \in Nat /\ x * S \in Nat /\ r = x * S + (r % S)
      /\ x2 \in Nat /\ r2 % S \in Nat /\ x2 * S \in Nat /\ r2 = x2 * S + (r2 % S)
  BY <1>1, <1>2, DivMod
<1>4. r <= r2 => x <= x2
  BY <1>1, <1>2, DivMono
<1> HIDE DEF x, x2
<1>5. s * U + x * S <= s2 * U + x2 * S
  <2>1. CASE s = s2
    <3>1. s * U = s2 * U
      BY <2>1
    <3>2. r <= r2
      BY <3>1, <1>2
    <3>3. x < x2 => x * S + S <= x2 * S
      BY <1>1, <1>3, MulMono
    <3>4. x = x2 => x * S = x2 * S
      OBVIOUS
    <3> QED BY <3>1, <3>2, <3>3, <3>4, <1>1, <1>2, <1>3, <1>4
  <2>2. CASE s < s2
    <3>1. s * U + U <= s2 * U
      BY <2>2, <1>1, <1>2, MulMono
    <3> QED BY <3>1, <1>1, <1>2, <1>3
  <2> QED BY <2>1, <2>2, <1>2
<1>6. /\ ShownAt(h) = s * U + x * S /\ ShownAt(t) = s2 * U + x2 * S
      /\ h \div TICK_UNIT = s /\ t \div TICK_UNIT = s2
  BY DEF ShownAt, Fraction, Rtc!InTicks, s, r, x, s2, r2, x2, U, S
<1> QED BY <1>2, <1>5, <1>6

\* The time lost is whole wraps.
LEMMA UnseenIs ==
    ASSUME lost \in Nat
    PROVE  /\ Unseen \in Nat
           /\ lost' = lost => Unseen' = Unseen
           /\ lost' = lost + 1 => Unseen' = Unseen + TICK_MAX
           /\ \A v \in Nat : (v + Unseen) % TICK_MAX = v % TICK_MAX
<1>1. TICK_MAX \in Nat \ {0}
  BY Periods
<1>2. /\ lost * TICK_MAX \in Nat /\ (lost + 1) * TICK_MAX = lost * TICK_MAX + TICK_MAX
      /\ \A v \in Nat : (v + lost * TICK_MAX) % TICK_MAX = v % TICK_MAX
  BY <1>1, WholeTurns
<1> QED BY <1>2 DEF Unseen

LEMMA ClockInit == Rtc!Init => ClockInv
<1> SUFFICES ASSUME Rtc!Init PROVE ClockInv
  OBVIOUS
<1>1. \A w \in Nat \ {0} : 0 \div w = 0 /\ 0 % w = 0
  <2> SUFFICES ASSUME NEW w \in Nat \ {0} PROVE 0 \div w = 0 /\ 0 % w = 0
    OBVIOUS
  <2>1. 0 = 0 * w + 0 /\ 0 < w
    OBVIOUS
  <2> QED BY <2>1, DivIs
<1>2. ReadAt(0)
  BY <1>1, Periods DEF Rtc!Init, ReadAt
<1>3. ticks = 0 /\ lost = 0 /\ sure = TRUE /\ matched = -1 /\ match = -1 /\ cc = TICK_UNIT % TICK_MAX
  BY DEF Rtc!Init
<1>4. Awaits(0)
  <2>1. Unseen = 0
    BY <1>3, Periods DEF Unseen
  <2>2. NextMatch(0) = TICK_UNIT
    BY DEF NextMatch
  <2> QED BY <1>3, <2>1, <2>2, Periods DEF Awaits, Due
<1>5. ReadLast(0)
  BY <1>2, <1>3, <1>4 DEF ReadLast
<1> QED BY <1>3, <1>5, Periods DEF ClockInv

\* The counter goes on: it meets CC when the true time meets the match, less
\* than a wrap after it was asked for.
LEMMA TickSound ==
    ASSUME ClockInv, Rtc!Tick
    PROVE  ClockInv'
<1>1. PICK h \in Nat : ReadLast(h)
  BY DEF ClockInv
<1>2. /\ ticks \in Nat /\ ticks < MaxTicks /\ ticks' = ticks + 1 /\ MaxTicks \in Nat
      /\ ticks' \in 0 .. MaxTicks /\ lost \in Nat /\ sure \in BOOLEAN
  BY Periods DEF ClockInv, Rtc!Tick
<1>3. /\ matched # -1 => ticks < matched + Late
      /\ UNCHANGED <<cc, match, todWraps, todSecs, rtcTod0, tod0Frac>>
  BY DEF Rtc!Tick, Rtc!clockVars
<1>4. h <= ticks /\ (h = 0 \/ TICK_UNIT <= h) /\ ReadAt(h)' /\ NextMatch(h)' = NextMatch(h)
  BY <1>1, <1>3 DEF ReadLast, ReadAt, NextMatch
<1> DEFINE m == NextMatch(h)
           n == Due(h)
           b == ticks + 1
<1>5. /\ Unseen \in Nat /\ (lost' = lost => Unseen' = Unseen)
      /\ (lost' = lost + 1 => Unseen' = Unseen + TICK_MAX)
      /\ m \in Nat /\ n \in Nat /\ n = m + Unseen /\ n % TICK_MAX = m % TICK_MAX
      /\ n' = m + Unseen'
  BY <1>2, <1>4, MatchIs, UnseenIs DEF Due
<1>6. b \in Nat /\ ticks' = b /\ TICK_MAX \in Nat \ {0} /\ Late \in Nat
  BY <1>2, Periods
<1>7. ASSUME ~(matched = -1 /\ b % TICK_MAX = cc)
      PROVE  /\ UNCHANGED <<matched, lost, sure>> /\ n' = n
             /\ (Unseen)' = Unseen
  BY <1>5, <1>7 DEF Rtc!Tick
<1>8. Awaits(h)' \/ Pending(h)' \/ Handles(h)'
  <2>1. CASE Awaits(h)
    <3>1. matched = -1 /\ match = -1 /\ cc = m % TICK_MAX /\ ticks < n /\ n <= ticks + TICK_MAX
      BY <2>1 DEF Awaits
    <3>2. m' = m /\ cc' = cc /\ match' = match
      BY <1>3, <1>4
    <3>3. CASE b % TICK_MAX = cc
      <4>1. b = n
        <5>1. b <= n /\ n < b + TICK_MAX
          BY <3>1, <1>2, <1>5, <1>6
        <5> HIDE DEF b, n, m
        <5> QED BY <5>1, <3>1, <3>3, <1>5, <1>6, SameRest
      <4>2. CASE sure
        <5>1. matched' = b /\ lost' = lost
          BY <4>2, <3>1, <3>3 DEF Rtc!Tick
        <5> HIDE DEF b, m, n
        <5>2. matched' = n' /\ matched' <= ticks' /\ ticks' <= matched' + Late
          BY <5>1, <4>1, <1>5, <1>6
        <5>3. Pending(h)'
          BY <5>2, <3>1, <3>2 DEF Pending, n
        <5> QED BY <5>3
      <4>3. CASE ~sure
        <5>1. matched' = -1 /\ lost' = lost + 1
          BY <4>3, <3>1, <3>3 DEF Rtc!Tick
        <5> HIDE DEF b, m, n
        <5>2. ticks' < n' /\ n' <= ticks' + TICK_MAX
          BY <5>1, <4>1, <1>5, <1>6
        <5>3. Awaits(h)'
          BY <5>1, <5>2, <3>1, <3>2 DEF Awaits, m, n
        <5> QED BY <5>3
      <4> QED BY <4>2, <4>3
    <3>4. CASE b % TICK_MAX # cc
      <4>1. UNCHANGED <<matched, lost>> /\ n' = n
        BY <3>4, <1>7
      <4>2. b # n
        BY <3>1, <3>4, <1>5
      <4> HIDE DEF m, n
      <4>3. ticks' < n' /\ n' <= ticks' + TICK_MAX
        BY <4>1, <4>2, <3>1, <1>2, <1>5, <1>6
      <4>4. Awaits(h)'
        BY <4>1, <4>3, <3>1, <3>2 DEF Awaits, m, n
      <4> QED BY <4>4
    <3> QED BY <3>3, <3>4
  <2>2. CASE Pending(h)
    <3>1. matched = n /\ match = -1 /\ matched <= ticks /\ ticks <= matched + Late
      BY <2>2 DEF Pending
    <3>2. matched # -1
      BY <3>1, <1>5
    <3>3. UNCHANGED <<matched, match>> /\ n' = n /\ ticks < matched + Late
      BY <3>2, <1>3, <1>7
    <3> HIDE DEF m, n
    <3>4. matched' = n' /\ matched' <= ticks' /\ ticks' <= matched' + Late
      BY <3>1, <3>3, <1>2, <1>5, <1>6
    <3>5. Pending(h)'
      BY <3>1, <3>3, <3>4 DEF Pending, n
    <3> QED BY <3>5
  <2>3. CASE Handles(h)
    <3>1. /\ matched \in Nat /\ matched <= h + Unseen /\ h + Unseen <= ticks /\ h # 0
          /\ match = m % TICK_MAX
      BY <2>3 DEF Handles
    <3>2. matched # -1
      BY <3>1
    <3>3. UNCHANGED <<matched, match>> /\ Unseen' = Unseen /\ ticks < matched + Late
      BY <3>2, <1>3, <1>7
    <3>4. m' = m
      BY <1>4
    <3> HIDE DEF m, n
    <3>5. h + Unseen <= ticks' /\ ticks' <= matched' + Late
      BY <3>1, <3>3, <1>2, <1>5, <1>6
    <3>6. Handles(h)'
      BY <3>1, <3>3, <3>4, <3>5 DEF Handles, m
    <3> QED BY <3>6
  <2> QED BY <1>1, <2>1, <2>2, <2>3 DEF ReadLast
<1>9. ReadLast(h)'
  BY <1>2, <1>4, <1>8 DEF ReadLast
<1>10. lost' \in Nat /\ sure' \in BOOLEAN
  <2>1. CASE matched = -1 /\ b % TICK_MAX = cc
    <3>1. sure' = TRUE /\ (lost' = lost \/ lost' = lost + 1)
      BY <2>1 DEF Rtc!Tick
    <3>2. lost' \in Nat
      BY <3>1, <1>2
    <3> QED BY <3>1, <3>2
  <2>2. CASE ~(matched = -1 /\ b % TICK_MAX = cc)
    <3>1. UNCHANGED <<lost, sure>>
      BY <2>2, <1>7
    <3> QED BY <3>1, <1>2
  <2> QED BY <2>1, <2>2
<1> QED BY <1>2, <1>9, <1>10 DEF ClockInv

\* The interrupt reads the counter now, and asks for the next multiple of Incr.
LEMMA HandlerSound ==
    ASSUME ClockInv, Rtc!RTC2_IRQHandler
    PROVE  /\ ClockInv'
           /\ \E h \in Nat : \E t \in Nat : h <= t /\ t <= ticks /\ ReadAt(h) /\ ReadAt(t)'
<1>1. PICK h \in Nat : ReadLast(h)
  BY DEF ClockInv
<1> DEFINE c == ticks % TICK_MAX
           m == NextMatch(h)
           t == ticks - Unseen
<1>2. /\ ticks \in Nat /\ ticks' = ticks /\ ticks' \in 0 .. MaxTicks
      /\ lost \in Nat /\ lost' = lost /\ sure' \in BOOLEAN
  BY DEF ClockInv, Rtc!RTC2_IRQHandler
<1>3. /\ matched # -1 /\ match = -1 /\ matched' = matched
      /\ match' = (c + Incr - (c % Incr)) % TICK_MAX
      /\ todSecs' = c \div TICK_UNIT
      /\ todWraps' = IF c \div TICK_UNIT < todSecs THEN todWraps + 1 ELSE todWraps
      /\ rtcTod0' = todWraps' * (TICK_MAX \div TICK_UNIT) + c \div TICK_UNIT
      /\ tod0Frac' = (c % TICK_UNIT) \div Rtc!Step
  BY DEF Rtc!RTC2_IRQHandler, Rtc!updateTOD, Rtc!COUNTER, Rtc!Wrapped
<1>4. h <= ticks /\ (h = 0 \/ TICK_UNIT <= h) /\ ReadAt(h)
  BY <1>1 DEF ReadLast
<1>5. m \in Nat /\ h < m /\ m <= h + TICK_UNIT
  BY <1>4, MatchIs
<1>6. /\ Unseen \in Nat /\ Unseen' = Unseen
      /\ \A v \in Nat : (v + Unseen) % TICK_MAX = v % TICK_MAX
  BY <1>2, UnseenIs
<1>7. matched = m + Unseen /\ matched <= ticks /\ ticks <= matched + Late
  <2>1. ~Awaits(h)
    BY <1>3 DEF Awaits
  <2>2. ~Handles(h)
    <3>1. TICK_MAX \in Nat \ {0}
      BY Periods
    <3>2. m % TICK_MAX # -1
      BY <1>5, <3>1, DivMod
    <3> QED BY <1>3, <3>2 DEF Handles
  <2> QED BY <1>1, <2>1, <2>2 DEF ReadLast, Pending, Due
<1>8. /\ t \in Nat /\ t + Unseen = ticks /\ m <= t /\ h <= t /\ t <= h + TICK_UNIT + Late
      /\ t <= ticks /\ t # 0 /\ TICK_UNIT <= t
  <2>1. TICK_UNIT <= m
    BY <1>4, <1>5, Periods DEF NextMatch
  <2> HIDE DEF m
  <2> QED BY <2>1, <1>2, <1>4, <1>5, <1>6, <1>7, Periods
<1>9. c = t % TICK_MAX /\ c \in Nat
  <2>1. c \in Nat
    BY <1>2, Periods, DivMod
  <2>2. (t + Unseen) % TICK_MAX = t % TICK_MAX
    BY <1>6, <1>8
  <2> HIDE DEF t
  <2> QED BY <2>1, <2>2, <1>8
<1> HIDE DEF t, c
<1>10. t \div TICK_MAX = todWraps'
  <2>1. t \div TICK_MAX = IF (t % TICK_MAX) \div TICK_UNIT < (h % TICK_MAX) \div TICK_UNIT
                          THEN h \div TICK_MAX + 1 ELSE h \div TICK_MAX
    BY <1>8, WrapSeen
  <2> QED BY <2>1, <1>3, <1>4, <1>9 DEF ReadAt
<1>11. /\ (t \div TICK_MAX) * (TICK_MAX \div TICK_UNIT) + (c \div TICK_UNIT) = t \div TICK_UNIT
       /\ c % TICK_UNIT = t % TICK_UNIT
       /\ (c + Incr - (c % Incr)) % TICK_MAX = NextMatch(t) % TICK_MAX
  BY <1>8, <1>9, CounterTells
<1>12. t' = t
  BY <1>2, <1>6 DEF t
<1>13. ReadAt(t)'
  BY <1>3, <1>9, <1>10, <1>11, <1>12 DEF ReadAt
<1>14. Handles(t)'
  <2>1. NextMatch(t)' = NextMatch(t)
    BY <1>12 DEF NextMatch
  <2>2. matched' \in Nat /\ matched' <= t + Unseen /\ t + Unseen <= ticks /\ ticks <= matched' + Late
    BY <1>2, <1>3, <1>5, <1>6, <1>7, <1>8
  <2>3. match' = NextMatch(t) % TICK_MAX
    BY <1>3, <1>11
  <2> QED BY <2>1, <2>2, <2>3, <1>2, <1>6, <1>8, <1>12 DEF Handles
<1>15. ReadLast(t)'
  BY <1>2, <1>8, <1>12, <1>13, <1>14 DEF ReadLast
<1>16. \E x \in Nat : ReadLast(x)'
  BY <1>8, <1>12, <1>15
<1>17. ClockInv'
  BY <1>2, <1>16 DEF ClockInv
<1>18. ReadAt(t)' /\ h <= t /\ t <= ticks /\ ReadAt(h)
  BY <1>4, <1>8, <1>13
<1> QED BY <1>8, <1>12, <1>17, <1>18

\* CC is written: ahead of the match that it asks for, or at it, or after it.
LEMMA SetMatchSound ==
    ASSUME ClockInv, Rtc!SetMatch
    PROVE  ClockInv'
<1>1. PICK h \in Nat : ReadLast(h)
  BY DEF ClockInv
<1> DEFINE m == NextMatch(h)
           n == Due(h)
           a == Rtc!Ahead
<1>2. /\ match # -1 /\ cc' = match /\ match' = -1
      /\ \/ a = 0 /\ matched' = ticks /\ lost' = lost
         \/ a \in 1 .. Incr /\ matched' = -1 /\ lost' = lost
         \/ a \notin 1 .. Incr /\ matched' = -1 /\ lost' = lost + 1
      /\ sure' \in BOOLEAN
      /\ UNCHANGED <<ticks, todWraps, todSecs, rtcTod0, tod0Frac>>
  BY DEF Rtc!SetMatch, Rtc!clockVars
<1>3. h <= ticks /\ (h = 0 \/ TICK_UNIT <= h) /\ ReadAt(h)
  BY <1>1 DEF ReadLast
<1>4. Handles(h)
  BY <1>1, <1>2 DEF ReadLast, Awaits, Pending
<1>5. /\ ticks \in Nat /\ ticks' \in 0 .. MaxTicks /\ lost \in Nat /\ lost' \in Nat
  BY <1>2 DEF ClockInv
<1>6. /\ Unseen \in Nat /\ (lost' = lost => Unseen' = Unseen)
      /\ (lost' = lost + 1 => Unseen' = Unseen + TICK_MAX)
      /\ m \in Nat /\ h < m /\ n \in Nat /\ n = m + Unseen /\ n % TICK_MAX = m % TICK_MAX
      /\ (h # 0 => m <= h + Incr)
  BY <1>3, <1>5, MatchIs, UnseenIs DEF Due
<1>7. m' = m /\ n' = m + Unseen' /\ (ReadAt(h))' /\ h <= ticks'
  BY <1>2, <1>3 DEF NextMatch, Due, ReadAt
<1>8. /\ TICK_MAX \in Nat \ {0} /\ Incr \in Nat \ {0} /\ Late \in Nat
      /\ Late + Incr < TICK_MAX
  BY Periods
<1>9. /\ match = m % TICK_MAX /\ n <= ticks + Incr /\ ticks <= n + Late
  BY <1>4, <1>5, <1>6, <1>8 DEF Handles
<1>10. a = IF ticks <= n THEN n - ticks ELSE n + TICK_MAX - ticks
  <2> DEFINE W == TICK_MAX
             x == n \div W
             y == n % W
             u == ticks \div W
             v == ticks % W
             e == y + W - v
             z == e \div W
             d == IF ticks <= n THEN n - ticks ELSE n + W - ticks
  <2>1. a = e % W
    BY <1>6, <1>9 DEF Rtc!Ahead, Rtc!COUNTER
  <2> HIDE DEF W, n, a, e
  <2>2. W \in Nat \ {0} /\ Late + Incr < W
    BY <1>8 DEF W
  <2>3. /\ x \in Nat /\ y \in Nat /\ y < W /\ x * W \in Nat /\ n = x * W + y
        /\ u \in Nat /\ v \in Nat /\ v < W /\ u * W \in Nat /\ ticks = u * W + v
    BY <1>5, <1>6, <2>2, DivMod
  <2>4. d \in Nat /\ d < W
    BY <1>5, <1>6, <1>8, <1>9, <2>2
  <2> HIDE DEF x, y, u, v
  <2>5. e \in Nat /\ e = y + W - v
    BY <2>2, <2>3 DEF e
  <2>6. PICK k \in 0 .. 1 : e = k * W + d
    <3>1. x < u => x * W + W <= u * W
      BY <2>2, <2>3, MulMono
    <3>2. u < x => u * W + W <= x * W
      BY <2>2, <2>3, MulMono
    <3>3. u + 1 < x => (u + 1) * W + W <= x * W
      BY <2>2, <2>3, MulMono
    <3>4. x + 1 < u => (x + 1) * W + W <= u * W
      BY <2>2, <2>3, MulMono
    <3>5. (u + 1) * W = u * W + W /\ (x + 1) * W = x * W + W
      BY <2>2, <2>3
    <3>6. x = u => x * W = u * W
      OBVIOUS
    <3>7. x = u + 1 => x * W = u * W + W
      BY <3>5
    <3>8. u = x + 1 => u * W = x * W + W
      BY <3>5
    <3> DEFINE p == x * W
               q == u * W
    <3>9. \/ p = q \/ p = q + W \/ q = p + W \/ q + W + W <= p \/ p + W + W <= q
      BY <3>1, <3>2, <3>3, <3>4, <3>5, <3>6, <3>7, <3>8, <2>2, <2>3
    <3>10. p \in Nat /\ q \in Nat /\ n = p + y /\ ticks = q + v
      BY <2>3
    <3> HIDE DEF p, q
    <3>11. e = d \/ e = d + W
      BY <3>9, <3>10, <2>2, <2>3, <2>4, <2>5, <1>5, <1>6, <1>8, <1>9
    <3>12. 0 * W = 0 /\ 1 * W = W
      BY <2>2
    <3> HIDE DEF d
    <3> QED BY <3>11, <3>12, <2>2, <2>4, <2>5
  <2>7. e % W = d
    <3> HIDE DEF d
    <3> QED BY <2>2, <2>4, <2>5, <2>6, DivIs
  <2> QED BY <2>1, <2>7 DEF W, n, a
<1> HIDE DEF a, m, n
<1>11. Awaits(h)' \/ Pending(h)'
  <2>1. CASE a = 0 /\ matched' = ticks /\ lost' = lost
    <3>1. matched' = n' /\ matched' <= ticks' /\ ticks' <= matched' + Late
      BY <2>1, <1>2, <1>5, <1>6, <1>7, <1>8, <1>9, <1>10
    <3>2. Pending(h)'
      BY <3>1, <1>2 DEF Pending, n
    <3> QED BY <3>2
  <2>2. CASE a \in 1 .. Incr /\ matched' = -1 /\ lost' = lost
    <3>1. ticks' < n' /\ n' <= ticks' + TICK_MAX
      BY <2>2, <1>2, <1>5, <1>6, <1>7, <1>8, <1>9, <1>10
    <3>2. Awaits(h)'
      BY <3>1, <2>2, <1>2, <1>7, <1>9 DEF Awaits, m, n
    <3> QED BY <3>2
  <2>3. CASE a \notin 1 .. Incr /\ matched' = -1 /\ lost' = lost + 1
    <3>1. ticks' < n' /\ n' <= ticks' + TICK_MAX
      BY <2>3, <1>2, <1>5, <1>6, <1>7, <1>8, <1>9, <1>10
    <3>2. Awaits(h)'
      BY <3>1, <2>3, <1>2, <1>7, <1>9 DEF Awaits, m, n
    <3> QED BY <3>2
  <2> QED BY <1>2, <2>1, <2>2, <2>3
<1>12. ReadLast(h)'
  BY <1>3, <1>7, <1>11 DEF ReadLast
<1> QED BY <1>2, <1>5, <1>12 DEF ClockInv

\* What GetTODZero64 has read: had the seconds changed since, it would see so.
ReaderInv ==
    /\ reader \in {"idle", "s0", "f0", "s1", "done"}
    /\ s0 \in Nat /\ s0 <= rtcTod0 /\ f0 \in 0 .. Fractions - 1
    /\ began \in Nat /\ began <= Rtc!Shown
    /\ reader = "done" \/ (reader = "s1" /\ s0 = rtcTod0) =>
          began <= Rtc!InTicks(s0, f0) /\ Rtc!InTicks(s0, f0) <= Rtc!Shown

\* What the words show, read at h.
LEMMA WordsShow ==
    ASSUME NEW h \in Nat, ReadAt(h)
    PROVE  /\ rtcTod0 = h \div TICK_UNIT /\ tod0Frac = Fraction(h) /\ Rtc!Shown = ShownAt(h)
           /\ rtcTod0 \in Nat /\ tod0Frac \in 0 .. Fractions - 1 /\ Rtc!Shown \in Nat
<1>1. rtcTod0 = h \div TICK_UNIT /\ tod0Frac = Fraction(h)
  BY DEF ReadAt, Fraction
<1>2. Rtc!Shown = ShownAt(h)
  BY <1>1 DEF Rtc!Shown, ShownAt
<1> QED BY <1>1, <1>2, ShownIs

\* An interrupt during the call: the seconds read are of the past, or the time
\* read is still one that the clock has shown.
LEMMA ReaderWaits ==
    ASSUME ReaderInv, UNCHANGED <<reader, s0, f0, began>>,
           rtcTod0 \in Nat, rtcTod0' \in Nat, rtcTod0 <= rtcTod0',
           Rtc!Shown \in Nat, Rtc!Shown' \in Nat, Rtc!Shown <= Rtc!Shown'
    PROVE  ReaderInv'
<1> DEFINE i == Rtc!InTicks(s0, f0)
<1>1. i \in Nat /\ i' = i
  BY Periods DEF ReaderInv, Rtc!InTicks
<1>2. s0 = rtcTod0' => s0 = rtcTod0
  BY DEF ReaderInv
<1>3. i <= Rtc!Shown => i <= Rtc!Shown'
  BY <1>1
<1>4. began \in Nat /\ began <= Rtc!Shown' /\ s0 <= rtcTod0'
  BY DEF ReaderInv
<1> HIDE DEF i
<1>5. reader = "done" \/ (reader = "s1" /\ s0 = rtcTod0') => began <= i' /\ i' <= Rtc!Shown'
  BY <1>1, <1>2, <1>3 DEF ReaderInv, i
<1> QED BY <1>4, <1>5 DEF ReaderInv, i

\* One read of the call, with the clock standing still.
LEMMA ReaderSteps ==
    ASSUME ReaderInv, Rtc!GetTODZero64,
           rtcTod0 \in Nat, tod0Frac \in 0 .. Fractions - 1, Rtc!Shown \in Nat
    PROVE  ReaderInv'
<1>1. Rtc!Shown' = Rtc!Shown /\ UNCHANGED <<rtcTod0, tod0Frac>>
  BY DEF Rtc!GetTODZero64, Rtc!ReadCall, Rtc!ReadSeconds, Rtc!ReadFraction, Rtc!ReadAgain,
         Rtc!ReadReturn, Rtc!clockVars, Rtc!rtcVars, Rtc!Shown, Rtc!InTicks
<1>2. CASE Rtc!ReadCall
  BY <1>1, <1>2 DEF ReaderInv, Rtc!ReadCall
<1>3. CASE Rtc!ReadSeconds
  BY <1>1, <1>3 DEF ReaderInv, Rtc!ReadSeconds
<1>4. CASE Rtc!ReadFraction
  <2>1. reader' = "s1" /\ f0' = tod0Frac /\ UNCHANGED <<s0, began>>
    BY <1>4 DEF Rtc!ReadFraction
  <2>2. s0 = rtcTod0 => Rtc!InTicks(s0, f0)' = Rtc!Shown
    BY <2>1 DEF Rtc!Shown, Rtc!InTicks
  <2> QED BY <1>1, <2>1, <2>2 DEF ReaderInv
<1>5. CASE Rtc!ReadAgain
  <2>1. /\ reader = "s1" /\ reader' = IF s0 = rtcTod0 THEN "done" ELSE "s0"
        /\ UNCHANGED <<s0, f0, began>> /\ Rtc!InTicks(s0, f0)' = Rtc!InTicks(s0, f0)
    BY <1>5 DEF Rtc!ReadAgain, Rtc!InTicks
  <2> QED BY <1>1, <2>1 DEF ReaderInv
<1>6. CASE Rtc!ReadReturn
  <2>1. reader' = "idle" /\ s0' = 0 /\ f0' = 0 /\ began' = 0
    BY <1>6 DEF Rtc!ReadReturn
  <2> QED BY <1>1, <2>1, Periods DEF ReaderInv
<1> QED BY <1>2, <1>3, <1>4, <1>5, <1>6 DEF Rtc!GetTODZero64

RtcInv == ClockInv /\ ReaderInv

LEMMA RtcInit == Rtc!Init => RtcInv
<1> SUFFICES ASSUME Rtc!Init PROVE ReaderInv
  BY ClockInit DEF RtcInv
<1>1. Rtc!Shown = 0
  BY Periods DEF Rtc!Init, Rtc!Shown, Rtc!InTicks
<1> QED BY <1>1, Periods DEF Rtc!Init, ReaderInv

LEMMA RtcNext == RtcInv /\ [Rtc!Next]_(Rtc!vars) => RtcInv'
<1> SUFFICES ASSUME RtcInv, [Rtc!Next]_(Rtc!vars) PROVE RtcInv'
  OBVIOUS
<1>1. PICK h \in Nat : h <= ticks /\ ReadAt(h)
  BY DEF RtcInv, ClockInv, ReadLast
<1>2. rtcTod0 \in Nat /\ tod0Frac \in 0 .. Fractions - 1 /\ Rtc!Shown \in Nat
  BY <1>1, WordsShow
<1>3. ASSUME UNCHANGED <<reader, s0, f0, began, rtcTod0, tod0Frac>> PROVE ReaderInv'
  <2>1. Rtc!Shown' = Rtc!Shown
    BY <1>3 DEF Rtc!Shown, Rtc!InTicks
  <2> QED BY <2>1, <1>2, <1>3, ReaderWaits DEF RtcInv
<1>4. CASE Rtc!Tick
  BY <1>3, <1>4, TickSound DEF RtcInv, Rtc!Tick, Rtc!clockVars, Rtc!readVars
<1>5. CASE Rtc!RTC2_IRQHandler
  <2>1. ClockInv'
    BY <1>5, HandlerSound DEF RtcInv
  <2>2. PICK g \in Nat : \E t \in Nat : g <= t /\ t <= ticks /\ ReadAt(g) /\ ReadAt(t)'
    BY <1>5, HandlerSound DEF RtcInv
  <2> PICK t \in Nat : g <= t /\ t <= ticks /\ ReadAt(g) /\ ReadAt(t)'
    BY <2>2
  <2>3. UNCHANGED <<reader, s0, f0, began>>
    BY <1>5 DEF Rtc!RTC2_IRQHandler, Rtc!readVars
  <2>4. rtcTod0 = g \div TICK_UNIT /\ Rtc!Shown = ShownAt(g)
    BY WordsShow
  <2>5. rtcTod0' = t \div TICK_UNIT /\ Rtc!Shown' = ShownAt(t)
    <3>1. rtcTod0' = t \div TICK_UNIT /\ tod0Frac' = Fraction(t)
      BY DEF ReadAt, Fraction
    <3> QED BY <3>1 DEF Rtc!Shown, ShownAt, Rtc!InTicks
  <2>6. rtcTod0' \in Nat /\ Rtc!Shown' \in Nat
    BY <2>5, ShownIs
  <2>7. rtcTod0 <= rtcTod0' /\ Rtc!Shown <= Rtc!Shown'
    BY <2>4, <2>5, ShownGrows
  <2>8. ReaderInv'
    BY <1>2, <2>3, <2>6, <2>7, ReaderWaits DEF RtcInv
  <2> QED BY <2>1, <2>8 DEF RtcInv
<1>6. CASE Rtc!SetMatch
  BY <1>3, <1>6, SetMatchSound DEF RtcInv, Rtc!SetMatch, Rtc!clockVars, Rtc!readVars
<1>7. ASSUME UNCHANGED <<ticks, cc, matched, match, sure, lost, todWraps, todSecs, rtcTod0, tod0Frac>>
      PROVE  ClockInv'
  BY <1>7 DEF RtcInv, ClockInv, ReadLast, ReadAt, Awaits, Pending, Handles, NextMatch, Due, Unseen
<1>8. CASE Rtc!GetTODZero64
  <2>1. UNCHANGED <<ticks, cc, matched, match, sure, lost, todWraps, todSecs, rtcTod0, tod0Frac>>
    BY <1>8 DEF Rtc!GetTODZero64, Rtc!ReadCall, Rtc!ReadSeconds, Rtc!ReadFraction, Rtc!ReadAgain,
                Rtc!ReadReturn, Rtc!clockVars, Rtc!rtcVars
  <2>2. ReaderInv'
    BY <1>2, <1>8, ReaderSteps DEF RtcInv
  <2> QED BY <2>1, <2>2, <1>7 DEF RtcInv
<1>9. CASE UNCHANGED Rtc!vars
  BY <1>3, <1>7, <1>9 DEF RtcInv, Rtc!vars, Rtc!rtcVars, Rtc!clockVars, Rtc!readVars
<1> QED BY <1>4, <1>5, <1>6, <1>8, <1>9 DEF Rtc!Next

\* The clock is at most one interval behind, the handler's lateness until it is
\* done, and the matches that went by unseen.
LEMMA ClockShows == ClockInv => ClockIsRight
<1> SUFFICES ASSUME ClockInv PROVE ClockIsRight
  OBVIOUS
<1>1. PICK h \in Nat : ReadLast(h)
  BY DEF ClockInv
<1>2. ticks \in Nat /\ lost \in Nat /\ h <= ticks /\ (h = 0 \/ TICK_UNIT <= h) /\ ReadAt(h)
  BY <1>1 DEF ReadLast, ClockInv
<1> DEFINE s == ShownAt(h)
           m == NextMatch(h)
           i == IF s = 0 THEN TICK_UNIT ELSE Incr
           l == IF matched = -1 THEN 0 ELSE Late
<1>3. Rtc!Shown = s
  BY <1>2, WordsShow
<1>4. s \in Nat /\ s <= h /\ h < s + Rtc!Step /\ (TICK_UNIT <= h => s # 0)
  BY ShownIs
<1>5. /\ m \in Nat /\ (h = 0 => m = TICK_UNIT) /\ (h # 0 => m <= h + Incr) /\ Unseen \in Nat
  BY <1>2, MatchIs, UnseenIs DEF NextMatch
<1>6. l \in Nat /\ (ticks < m + l + Unseen \/ (l = Late /\ ticks <= m + l + Unseen))
  <2>1. CASE Awaits(h)
    <3>1. matched = -1 /\ ticks < m + Unseen
      BY <2>1 DEF Awaits, Due
    <3> QED BY <3>1, <1>2, <1>5
  <2>2. CASE Pending(h)
    <3>1. matched = m + Unseen /\ ticks <= matched + Late
      BY <2>2 DEF Pending, Due
    <3>2. l = Late /\ Late \in Nat
      BY <3>1, <1>5, Periods
    <3> HIDE DEF l, m
    <3> QED BY <3>1, <3>2, <1>2, <1>5
  <2>3. CASE Handles(h)
    <3>1. matched \in Nat /\ matched <= h + Unseen /\ ticks <= matched + Late /\ h < m
      BY <2>3, <1>2, MatchIs DEF Handles
    <3>2. l = Late /\ Late \in Nat
      BY <3>1, Periods
    <3> HIDE DEF l, m
    <3> QED BY <3>1, <3>2, <1>2, <1>5
  <2> QED BY <1>1, <2>1, <2>2, <2>3 DEF ReadLast
<1>7. i \in Nat /\ m <= h + i
  <2>1. TICK_UNIT \in Nat /\ Incr \in Nat /\ Incr <= TICK_UNIT
    BY Periods
  <2>2. h = 0 => s = 0
    BY <1>4
  <2>3. h # 0 => s # 0
    BY <1>2, <1>4
  <2> HIDE DEF m, s
  <2> QED BY <2>1, <2>2, <2>3, <1>5
<1>8. Rtc!Step \in Nat \ {0} /\ Late \in Nat
  BY Periods
<1> HIDE DEF s, m, i, l
<1>9. s <= ticks /\ ticks - s < Rtc!Step + i + l + Unseen
  BY <1>2, <1>4, <1>5, <1>6, <1>7, <1>8
<1> QED BY <1>3, <1>9 DEF ClockIsRight, Rtc!ClockIsRight, Unseen, i, l

\* What CC holds is a value of the counter.
CcInv == cc \in 0 .. TICK_MAX - 1

LEMMA CcInit == Rtc!Init => CcInv
<1> SUFFICES ASSUME Rtc!Init PROVE CcInv
  OBVIOUS
<1>1. TICK_UNIT % TICK_MAX \in 0 .. TICK_MAX - 1
  BY Periods, DivMod
<1> QED BY <1>1 DEF Rtc!Init, CcInv

LEMMA CcNext == RtcInv /\ CcInv /\ [Rtc!Next]_(Rtc!vars) => CcInv'
<1> SUFFICES ASSUME RtcInv, CcInv, [Rtc!Next]_(Rtc!vars) PROVE CcInv'
  OBVIOUS
<1>1. CASE Rtc!SetMatch
  <2>1. PICK h \in Nat : ReadLast(h)
    BY DEF RtcInv, ClockInv
  <2>2. match # -1 /\ cc' = match
    BY <1>1 DEF Rtc!SetMatch
  <2>3. match = NextMatch(h) % TICK_MAX
    BY <2>1, <2>2 DEF ReadLast, Awaits, Pending, Handles
  <2>4. NextMatch(h) \in Nat
    BY <2>1, MatchIs DEF ReadLast
  <2> QED BY <2>2, <2>3, <2>4, Periods, DivMod DEF CcInv
<1>2. CASE ~Rtc!SetMatch
  <2>1. cc' = cc
    BY <1>2 DEF Rtc!Next, Rtc!vars, Rtc!rtcVars, Rtc!Tick, Rtc!RTC2_IRQHandler, Rtc!GetTODZero64,
                Rtc!ReadCall, Rtc!ReadSeconds, Rtc!ReadFraction, Rtc!ReadAgain, Rtc!ReadReturn
  <2> QED BY <2>1 DEF CcInv
<1> QED BY <1>1, <1>2

LEMMA RtcTyped == RtcInv /\ CcInv => Rtc!TypeOK
<1> SUFFICES ASSUME RtcInv, CcInv PROVE Rtc!TypeOK
  OBVIOUS
<1> DEFINE U == TICK_UNIT
           W == TICK_MAX
<1>1. PICK h \in Nat : ReadLast(h)
  BY DEF RtcInv, ClockInv
<1>2. /\ ticks \in 0 .. MaxTicks /\ ticks \in Nat /\ MaxTicks \in Nat
      /\ h <= ticks /\ (h = 0 \/ U <= h) /\ ReadAt(h)
      /\ Awaits(h) \/ Pending(h) \/ Handles(h)
      /\ lost \in Nat /\ sure \in BOOLEAN
  BY <1>1, Periods DEF RtcInv, ClockInv, ReadLast
<1>3. NextMatch(h) \in Nat /\ Due(h) \in Nat /\ (matched = Due(h) \/ matched \in Nat \/ matched = -1)
  BY <1>2, MatchIs, UnseenIs DEF Due, Awaits, Pending, Handles
<1>4. match \in -1 .. W - 1 /\ matched \in -1 .. MaxTicks
  <2>1. NextMatch(h) % W \in 0 .. W - 1 /\ W \in Nat
    BY <1>3, Periods, DivMod
  <2>2. match = -1 \/ match = NextMatch(h) % W
    BY <1>2 DEF Awaits, Pending, Handles
  <2>3. matched = -1 \/ (matched \in Nat /\ matched <= ticks)
    <3>1. CASE Handles(h)
      <4>1. matched \in Nat /\ matched <= h + Unseen /\ h + Unseen <= ticks /\ Unseen \in Nat
        BY <3>1, <1>2, UnseenIs DEF Handles
      <4> QED BY <4>1, <1>2
    <3>2. CASE Awaits(h) \/ Pending(h)
      BY <3>2, <1>3 DEF Awaits, Pending
    <3> QED BY <3>1, <3>2, <1>2
  <2> QED BY <1>2, <2>1, <2>2, <2>3
<1>5. rtcTod0 \in 0 .. ticks \div U /\ tod0Frac \in 0 .. Fractions - 1 /\ Rtc!Shown \in Nat
  <2>1. h \div U <= ticks \div U /\ ticks \div U \in Nat
    BY <1>2, Periods, DivMono, DivMod
  <2>2. rtcTod0 = h \div U /\ rtcTod0 \in Nat /\ tod0Frac \in 0 .. Fractions - 1 /\ Rtc!Shown \in Nat
    BY <1>2, WordsShow
  <2> QED BY <2>1, <2>2
<1>6. todWraps \in 0 .. ticks \div W
  <2>1. h \div W <= ticks \div W /\ ticks \div W \in Nat /\ h \div W \in Nat
    BY <1>2, Periods, DivMono, DivMod
  <2> QED BY <1>2, <2>1 DEF ReadAt
<1>7. todSecs \in 0 .. (W \div U) - 1
  <2> DEFINE r == h % W
  <2>1. r \in Nat /\ r < Seconds * U /\ Seconds \in Nat /\ U \in Nat \ {0}
    BY Periods, DivMod
  <2> HIDE DEF r
  <2>2. r \div U < Seconds /\ r \div U \in Nat
    BY <2>1, DivBelow, DivMod
  <2> QED BY <1>2, <2>1, <2>2 DEF ReadAt, Seconds, r
<1>8. /\ reader \in {"idle", "s0", "f0", "s1", "done"}
      /\ s0 \in 0 .. rtcTod0 /\ f0 \in 0 .. Fractions - 1 /\ began \in 0 .. Rtc!Shown
  BY <1>5 DEF RtcInv, ReaderInv
<1> QED BY <1>2, <1>4, <1>5, <1>6, <1>7, <1>8 DEF Rtc!TypeOK, CcInv

-----------------------------------------------------------------------------
(* The chunk map                                                           *)

Places == 0 .. (ChunkMap!EntryCount * BitsPerByte) - 1

\* A slot's byte and bit, and the order of slots: by their bytes, then bits.
LEMMA BitPlace ==
    ASSUME NEW s \in Nat
    PROVE  /\ ChunkMap!ByteOf(s) \in Nat /\ ChunkMap!BitOf(s) \in 0 .. BitsPerByte - 1
           /\ BitsPerByte \in Nat \ {0}
           /\ ChunkMap!ByteOf(s) * BitsPerByte \in Nat
           /\ s = ChunkMap!ByteOf(s) * BitsPerByte + ChunkMap!BitOf(s)
<1>1. BitsPerByte \in Nat \ {0}
  BY PartsAssumption DEF PartsAssumption, ChunkMap!MapAssumption
<1>2. /\ s \div BitsPerByte \in Nat /\ s % BitsPerByte \in Nat /\ s % BitsPerByte < BitsPerByte
      /\ (s \div BitsPerByte) * BitsPerByte \in Nat
      /\ s = (s \div BitsPerByte) * BitsPerByte + (s % BitsPerByte)
  BY <1>1, DivMod
<1> QED BY <1>1, <1>2 DEF ChunkMap!ByteOf, ChunkMap!BitOf

LEMMA SlotOrder ==
    ASSUME NEW s \in Nat, NEW t \in Nat
    PROVE  s < t <=> \/ ChunkMap!ByteOf(s) < ChunkMap!ByteOf(t)
                     \/ /\ ChunkMap!ByteOf(s) = ChunkMap!ByteOf(t)
                        /\ ChunkMap!BitOf(s) < ChunkMap!BitOf(t)
<1> DEFINE p == ChunkMap!ByteOf(s)
           b == ChunkMap!BitOf(s)
           q == ChunkMap!ByteOf(t)
           c == ChunkMap!BitOf(t)
           w == BitsPerByte
<1>1. /\ w \in Nat \ {0} /\ p \in Nat /\ b \in 0 .. w - 1 /\ q \in Nat /\ c \in 0 .. w - 1
      /\ p * w \in Nat /\ q * w \in Nat /\ s = p * w + b /\ t = q * w + c
  BY BitPlace
<1> HIDE DEF p, b, q, c, w
<1>2. p < q => p * w + w <= q * w
  BY <1>1, MulMono
<1>3. q < p => q * w + w <= p * w
  BY <1>1, MulMono
<1>4. p = q => p * w = q * w
  OBVIOUS
<1>5. s < t <=> p < q \/ (p = q /\ b < c)
  BY <1>1, <1>2, <1>3, <1>4
<1> QED BY <1>5 DEF p, b, q, c

\* The map has a bit for every slot, and maybe some more.
LEMMA MapSize ==
    /\ ChunkMap!Slots \in Nat /\ ChunkMap!EntryCount \in Nat
    /\ ChunkMap!Slots <= ChunkMap!EntryCount * BitsPerByte
    /\ ChunkMap!EntryCount * BitsPerByte \in Nat
    /\ ChunkSize \in Nat \ {0} /\ MapStart \in Nat /\ MapEnd \in Nat /\ MapStart < MapEnd
    /\ MapEnd = MapStart + ChunkMap!Slots * ChunkSize /\ ChunkMap!Slots * ChunkSize \in Nat
<1> DEFINE C == ChunkSize
           B == BitsPerByte
           n == MapEnd - MapStart
           k == n \div C
<1>1. /\ C \in Nat \ {0} /\ B \in Nat \ {0} /\ MapStart \in Nat /\ MapEnd \in Nat /\ MapStart < MapEnd
      /\ MapStart % C = 0 /\ MapEnd % C = 0
  BY PartsAssumption DEF PartsAssumption, ChunkMap!MapAssumption
<1> HIDE DEF C, B
<1>2. k \in Nat /\ n = k * C /\ k * C \in Nat
  <2> DEFINE p == MapEnd \div C
             q == MapStart \div C
  <2>1. /\ p \in Nat /\ q \in Nat /\ MapEnd = p * C /\ MapStart = q * C
        /\ p * C \in Nat /\ q * C \in Nat
    <3>1. p \in Nat /\ p * C \in Nat /\ MapEnd = p * C + (MapEnd % C)
      BY <1>1, DivMod
    <3>2. q \in Nat /\ q * C \in Nat /\ MapStart = q * C + (MapStart % C)
      BY <1>1, DivMod
    <3> HIDE DEF p, q
    <3> QED BY <1>1, <3>1, <3>2
  <2> HIDE DEF p, q
  <2>2. q < p
    <3>1. p = q => p * C = q * C
      OBVIOUS
    <3>2. p < q => p * C + C <= q * C
      BY <1>1, <2>1, MulMono
    <3> QED BY <3>1, <3>2, <1>1, <2>1
  <2> DEFINE d == p - q
  <2>3. d \in Nat /\ p = q + d
    BY <2>1, <2>2
  <2> HIDE DEF d
  <2>4. p * C = q * C + d * C /\ d * C \in Nat
    <3>1. (q + d) * C = q * C + d * C
      BY <1>1, <2>1, <2>3
    <3> QED BY <3>1, <1>1, <2>3
  <2>5. n = d * C + 0 /\ n \in Nat
    <3> DEFINE x == d * C
               y == q * C
               z == p * C
    <3>1. x \in Nat /\ y \in Nat /\ z = y + x /\ MapEnd = z /\ MapStart = y
      BY <2>1, <2>4
    <3> HIDE DEF x, y, z
    <3>2. n = x /\ n = x + 0 /\ n \in Nat
      BY <3>1, <1>1
    <3> QED BY <3>2 DEF x
  <2>6. k = d
    <3> HIDE DEF n
    <3> QED BY <2>3, <2>5, <1>1, DivIs DEF k
  <2> QED BY <2>3, <2>4, <2>5, <2>6
<1> HIDE DEF n, k
<1> DEFINE m == k + B - 1
           e == m \div B
<1>3. m \in Nat
  BY <1>1, <1>2
<1>4. e \in Nat /\ e * B \in Nat /\ m % B \in Nat /\ m % B < B /\ m = e * B + (m % B)
  <2> HIDE DEF m
  <2> QED BY <1>1, <1>3, DivMod
<1> HIDE DEF e
<1>5. k <= e * B
  BY <1>1, <1>2, <1>3, <1>4
<1>6. ChunkMap!Slots = k /\ ChunkMap!EntryCount = e
  BY DEF ChunkMap!Slots, ChunkMap!EntryCount, k, n, e, C, B
<1> QED BY <1>1, <1>2, <1>4, <1>5, <1>6 DEF C, B, n

\* Every place is one bit of one byte.
LEMMA PlaceIs ==
    /\ \A s \in Places : s \in Nat /\ ChunkMap!ByteOf(s) \in ChunkMap!Entries /\ ChunkMap!BitOf(s) \in ChunkMap!Bit
    /\ \A i \in ChunkMap!Entries, b \in ChunkMap!Bit :
          \E s \in Places : ChunkMap!ByteOf(s) = i /\ ChunkMap!BitOf(s) = b
    /\ 0 .. ChunkMap!Slots - 1 \subseteq Places
<1> DEFINE B == BitsPerByte
           E == ChunkMap!EntryCount
<1>1. B \in Nat \ {0} /\ E \in Nat /\ E * B \in Nat
  BY MapSize, BitPlace
<1>2. ASSUME NEW s \in Places
      PROVE  s \in Nat /\ ChunkMap!ByteOf(s) \in ChunkMap!Entries /\ ChunkMap!BitOf(s) \in ChunkMap!Bit
  <2>1. s \in Nat /\ s < E * B
    BY <1>1 DEF Places
  <2>2. s \div B < E /\ s \div B \in Nat
    <3> HIDE DEF B, E
    <3> QED BY <2>1, <1>1, DivBelow, DivMod
  <2>3. ChunkMap!ByteOf(s) \in Nat /\ ChunkMap!ByteOf(s) < E
    BY <2>2 DEF ChunkMap!ByteOf
  <2> QED BY <1>1, <2>1, <2>3, BitPlace DEF ChunkMap!Entries, ChunkMap!Bit
<1>3. ASSUME NEW i \in ChunkMap!Entries, NEW b \in ChunkMap!Bit
      PROVE  \E s \in Places : ChunkMap!ByteOf(s) = i /\ ChunkMap!BitOf(s) = b
  <2> DEFINE s == i * B + b
  <2>1. i \in Nat /\ i < E /\ b \in Nat /\ b < B
    BY <1>1 DEF ChunkMap!Entries, ChunkMap!Bit
  <2>2. i * B + B <= E * B /\ i * B \in Nat
    <3> HIDE DEF B, E
    <3> QED BY <1>1, <2>1, MulMono
  <2>3. s \in Nat /\ s < E * B
    <3> HIDE DEF B, E
    <3> QED BY <1>1, <2>1, <2>2
  <2>4. s \div B = i /\ s % B = b
    <3>1. s = i * B + b
      OBVIOUS
    <3> HIDE DEF s, B
    <3> QED BY <3>1, <1>1, <2>1, <2>3, DivIs
  <2>5. s \in Places
    <3> HIDE DEF s
    <3> QED BY <2>3, <1>1 DEF Places
  <2> HIDE DEF s
  <2> QED BY <2>4, <2>5 DEF ChunkMap!ByteOf, ChunkMap!BitOf
<1>4. 0 .. ChunkMap!Slots - 1 \subseteq Places
  BY <1>1, MapSize DEF Places
<1> QED BY <1>2, <1>3, <1>4

\* The slots of addresses, and the slot behind a range.
LEMMA SlotIs ==
    ASSUME NEW a \in ChunkMap!Addresses
    PROVE  ChunkMap!SlotOf(a) \in 0 .. ChunkMap!Slots - 1
<1> DEFINE n == a - MapStart
           k == ChunkMap!Slots
<1>1. n \in Nat /\ n < k * ChunkSize /\ k \in Nat /\ ChunkSize \in Nat \ {0}
  BY MapSize DEF ChunkMap!Addresses
<1> HIDE DEF n, k
<1>2. n \div ChunkSize \in Nat /\ n \div ChunkSize < k
  BY <1>1, DivBelow, DivMod
<1> QED BY <1>1, <1>2 DEF n, k, ChunkMap!SlotOf

LEMMA RangeEndIs ==
    ASSUME NEW a \in ChunkMap!Addresses, NEW e, ChunkMap!ValidRange(a, e), e \in ChunkMap!Addresses \cup {MapEnd}
    PROVE  /\ ChunkMap!EndSlot(e) \in Nat /\ ChunkMap!EndSlot(e) <= ChunkMap!Slots
           /\ ChunkMap!SlotOf(a) \in Nat /\ ChunkMap!SlotOf(a) < ChunkMap!EndSlot(e)
<1> DEFINE n == e - MapStart + ChunkSize - 1
           d == a - MapStart
           k == ChunkMap!Slots
           C == ChunkSize
<1>1. /\ C \in Nat \ {0} /\ k \in Nat /\ k * C \in Nat
      /\ n \in Nat /\ n < k * C + C /\ d \in Nat /\ d + C <= n
  BY MapSize DEF ChunkMap!Addresses, ChunkMap!ValidRange
<1> HIDE DEF n, d, k, C
<1>2. (k + 1) * C = k * C + C /\ k + 1 \in Nat
  BY <1>1
<1>3. n \div C \in Nat /\ n \div C < k + 1
  BY <1>1, <1>2, DivBelow, DivMod
<1>4. d \div C \in Nat /\ d \div C < n \div C
  <2>1. /\ d \div C \in Nat /\ d % C \in Nat /\ d % C < C /\ (d \div C) * C \in Nat
        /\ d = (d \div C) * C + (d % C)
    BY <1>1, DivMod
  <2> DEFINE x == d \div C
             r == d % C
  <2>2. x \in Nat /\ r \in Nat /\ r < C /\ x * C \in Nat /\ d = x * C + r
    BY <2>1
  <2> HIDE DEF x, r
  <2>3. x < n \div C
    <3> DEFINE y == n \div C
    <3>1. y \in Nat /\ n % C \in Nat /\ n % C < C /\ y * C \in Nat /\ n = y * C + (n % C)
      BY <1>1, DivMod
    <3> HIDE DEF y
    <3>2. y = x => y * C = x * C
      OBVIOUS
    <3>3. y < x => y * C + C <= x * C
      BY <3>1, <2>2, <1>1, MulMono
    <3>4. x < y
      BY <3>1, <3>2, <3>3, <2>2, <1>1
    <3> QED BY <3>4 DEF y
  <2> QED BY <2>1, <2>3 DEF x
<1>5. ChunkMap!EndSlot(e) = n \div C /\ ChunkMap!SlotOf(a) = d \div C
  BY DEF ChunkMap!EndSlot, ChunkMap!SlotOf, n, d, C
<1> QED BY <1>1, <1>3, <1>4, <1>5 DEF k

-----------------------------------------------------------------------------
(* What the map holds                                                      *)

MapInv ==
    /\ bits \in [ChunkMap!Entries -> SUBSET ChunkMap!Bit]
    /\ wanted \subseteq 0 .. ChunkMap!Slots - 1
    /\ \A s \in Places : ChunkMap!BitOf(s) \in bits[ChunkMap!ByteOf(s)] <=> s \in wanted

\* The bits that a range sets are those of its slots.
LEMMA RangeIs ==
    ASSUME NEW x \in Nat, NEW from \in Nat, NEW to \in Nat, from < to
    PROVE  /\ ChunkMap!BitOf(x) \in ChunkMap!RangeBits(ChunkMap!ByteOf(x), from, to)
                <=> x \in from .. to - 1
           /\ \A i : ChunkMap!RangeBits(i, from, to) \subseteq ChunkMap!Bit
<1> DEFINE p == ChunkMap!ByteOf(x)
           b == ChunkMap!BitOf(x)
           q == ChunkMap!ByteOf(from)
           c == ChunkMap!BitOf(from)
           r == ChunkMap!ByteOf(to)
           d == ChunkMap!BitOf(to)
           B == BitsPerByte
<1>1. /\ B \in Nat \ {0} /\ p \in Nat /\ q \in Nat /\ r \in Nat
      /\ b \in 0 .. B - 1 /\ c \in 0 .. B - 1 /\ d \in 0 .. B - 1
  BY BitPlace
<1>2. /\ x < from <=> p < q \/ (p = q /\ b < c)
      /\ x < to <=> p < r \/ (p = r /\ b < d)
      /\ q < r \/ (q = r /\ c < d)
  BY SlotOrder
<1>3. x \in from .. to - 1 <=> ~(x < from) /\ x < to
  OBVIOUS
<1>4. \A i : ChunkMap!RangeBits(i, from, to) =
        CASE q = r /\ i = q -> c .. d - 1
          [] q # r /\ i = q -> c .. B - 1
          [] i > q /\ i < r -> ChunkMap!Bit
          [] i > q /\ i = r -> 0 .. d - 1
          [] OTHER -> {}
  BY DEF ChunkMap!RangeBits
<1>5. ChunkMap!Bit = 0 .. B - 1
  BY DEF ChunkMap!Bit
<1> DEFINE R(i) == ChunkMap!RangeBits(i, from, to)
<1> HIDE DEF p, b, q, c, r, d, B
<1>6. /\ \A i : q = r /\ i = q => R(i) = c .. d - 1
      /\ \A i : q # r /\ i = q => R(i) = c .. B - 1
      /\ \A i : i # q /\ i > q /\ i < r => R(i) = 0 .. B - 1
      /\ \A i : i # q /\ i > q /\ ~(i < r) /\ i = r => R(i) = 0 .. d - 1
      /\ \A i : i # q /\ ~(i > q /\ i < r) /\ ~(i > q /\ i = r) => R(i) = {}
  <2> SUFFICES ASSUME NEW i
               PROVE  /\ q = r /\ i = q => R(i) = c .. d - 1
                      /\ q # r /\ i = q => R(i) = c .. B - 1
                      /\ i # q /\ i > q /\ i < r => R(i) = 0 .. B - 1
                      /\ i # q /\ i > q /\ ~(i < r) /\ i = r => R(i) = 0 .. d - 1
                      /\ i # q /\ ~(i > q /\ i < r) /\ ~(i > q /\ i = r) => R(i) = {}
    OBVIOUS
  <2>1. R(i) = CASE q = r /\ i = q -> c .. d - 1
                 [] q # r /\ i = q -> c .. B - 1
                 [] i > q /\ i < r -> 0 .. B - 1
                 [] i > q /\ i = r -> 0 .. d - 1
                 [] OTHER -> {}
    BY <1>4, <1>5
  <2> HIDE DEF R
  <2> QED BY <2>1, <1>1
<1>7. b \in R(p) <=> x \in from .. to - 1
  <2> HIDE DEF R
  <2>1. CASE p = q /\ q = r
    BY <2>1, <1>1, <1>2, <1>3, <1>6
  <2>2. CASE p = q /\ q # r
    BY <2>2, <1>1, <1>2, <1>3, <1>6
  <2>3. CASE p # q /\ p > q /\ p < r
    BY <2>3, <1>1, <1>2, <1>3, <1>6
  <2>4. CASE p # q /\ p > q /\ p = r
    BY <2>4, <1>1, <1>2, <1>3, <1>6
  <2>5. CASE p # q /\ ~(p > q /\ p < r) /\ ~(p > q /\ p = r)
    <3>1. R(p) = {}
      BY <2>5, <1>6
    <3>2. x < from \/ ~(x < to)
      BY <2>5, <1>1, <1>2
    <3> QED BY <3>1, <3>2, <1>3
  <2> QED BY <2>1, <2>2, <2>3, <2>4, <2>5, <1>1
<1>8. \A i : R(i) \subseteq 0 .. B - 1
  <2> SUFFICES ASSUME NEW i PROVE R(i) \subseteq 0 .. B - 1
    OBVIOUS
  <2> HIDE DEF R
  <2>1. /\ c .. d - 1 \subseteq 0 .. B - 1 /\ c .. B - 1 \subseteq 0 .. B - 1
        /\ 0 .. d - 1 \subseteq 0 .. B - 1
    BY <1>1
  <2>2. \/ R(i) = c .. d - 1 \/ R(i) = c .. B - 1 \/ R(i) = 0 .. B - 1
        \/ R(i) = 0 .. d - 1 \/ R(i) = {}
    BY <1>6
  <2> QED BY <2>1, <2>2
<1> QED BY <1>5, <1>7, <1>8 DEF p, b, R, B

LEMMA MapInit == ChunkMap!Init => MapInv
<1> SUFFICES ASSUME ChunkMap!Init PROVE MapInv
  OBVIOUS
<1>1. bits = [i \in ChunkMap!Entries |-> {}] /\ wanted = {}
  BY DEF ChunkMap!Init
<1>2. \A s \in Places : bits[ChunkMap!ByteOf(s)] = {}
  BY <1>1, PlaceIs
<1> QED BY <1>1, <1>2 DEF MapInv

\* Setting or clearing the bits of some slots.
LEMMA MapSetSound ==
    ASSUME MapInv, NEW a \in ChunkMap!Addresses, ChunkMap!MapSet(a) \/ ChunkMap!MapClear(a)
    PROVE  MapInv'
<1> DEFINE t == ChunkMap!SlotOf(a)
           i == ChunkMap!ByteOf(t)
           b == ChunkMap!BitOf(t)
<1>1. t \in 0 .. ChunkMap!Slots - 1 /\ t \in Places /\ i \in ChunkMap!Entries /\ b \in ChunkMap!Bit /\ t \in Nat
  BY SlotIs, PlaceIs
<1>2. ASSUME NEW s \in Places
      PROVE  /\ s \in Nat /\ ChunkMap!ByteOf(s) \in ChunkMap!Entries
             /\ s # t => ChunkMap!ByteOf(s) # i \/ ChunkMap!BitOf(s) # b
  <2>1. s \in Nat /\ ChunkMap!ByteOf(s) \in ChunkMap!Entries
    BY PlaceIs
  <2>2. /\ s = ChunkMap!ByteOf(s) * BitsPerByte + ChunkMap!BitOf(s)
        /\ t = i * BitsPerByte + b
    BY <2>1, <1>1, BitPlace
  <2>3. ChunkMap!ByteOf(s) = i /\ ChunkMap!BitOf(s) = b => s = t
    BY <2>2
  <2> QED BY <2>1, <2>3
<1>3. CASE ChunkMap!MapSet(a)
  <2>1. bits' = [bits EXCEPT ![i] = @ \cup {b}] /\ wanted' = wanted \cup {t}
    BY <1>3 DEF ChunkMap!MapSet
  <2> HIDE DEF t, i, b
  <2>2. bits' \in [ChunkMap!Entries -> SUBSET ChunkMap!Bit] /\ wanted' \subseteq 0 .. ChunkMap!Slots - 1
    BY <2>1, <1>1 DEF MapInv
  <2>3. ASSUME NEW s \in Places
        PROVE  ChunkMap!BitOf(s) \in bits'[ChunkMap!ByteOf(s)] <=> s \in wanted'
    <3>1. CASE s = t
      BY <3>1, <2>1, <1>1 DEF MapInv, t, i, b
    <3>2. CASE s # t
      BY <3>2, <2>1, <1>1, <1>2 DEF MapInv
    <3> QED BY <3>1, <3>2
  <2> QED BY <2>2, <2>3 DEF MapInv
<1>4. CASE ChunkMap!MapClear(a)
  <2>1. bits' = [bits EXCEPT ![i] = @ \ {b}] /\ wanted' = wanted \ {t}
    BY <1>4 DEF ChunkMap!MapClear
  <2> HIDE DEF t, i, b
  <2>2. bits' \in [ChunkMap!Entries -> SUBSET ChunkMap!Bit] /\ wanted' \subseteq 0 .. ChunkMap!Slots - 1
    BY <2>1, <1>1 DEF MapInv
  <2>3. ASSUME NEW s \in Places
        PROVE  ChunkMap!BitOf(s) \in bits'[ChunkMap!ByteOf(s)] <=> s \in wanted'
    <3>1. CASE s = t
      BY <3>1, <2>1, <1>1 DEF MapInv, t, i, b
    <3>2. CASE s # t
      BY <3>2, <2>1, <1>1, <1>2 DEF MapInv
    <3> QED BY <3>1, <3>2
  <2> QED BY <2>2, <2>3 DEF MapInv
<1> QED BY <1>3, <1>4

LEMMA MapRangeSound ==
    ASSUME MapInv, NEW a \in ChunkMap!Addresses, NEW e \in ChunkMap!Addresses \cup {MapEnd},
           ChunkMap!MapSetRange(a, e)
    PROVE  MapInv'
<1>1. CASE ~ChunkMap!ValidRange(a, e)
  BY <1>1 DEF ChunkMap!MapSetRange, ChunkMap!vars, MapInv
<1>2. CASE ChunkMap!ValidRange(a, e)
  <2> DEFINE from == ChunkMap!SlotOf(a)
             to == ChunkMap!EndSlot(e)
  <2>1. /\ bits' = [i \in ChunkMap!Entries |-> bits[i] \cup ChunkMap!RangeBits(i, from, to)]
        /\ wanted' = wanted \cup from .. to - 1
    BY <1>2 DEF ChunkMap!MapSetRange
  <2>2. from \in Nat /\ to \in Nat /\ from < to /\ to <= ChunkMap!Slots
    BY <1>2, RangeEndIs
  <2> HIDE DEF from, to
  <2>3. bits' \in [ChunkMap!Entries -> SUBSET ChunkMap!Bit]
    BY <2>1, <2>2, RangeIs DEF MapInv
  <2>4. wanted' \subseteq 0 .. ChunkMap!Slots - 1
    BY <2>1, <2>2, MapSize DEF MapInv
  <2>5. ASSUME NEW s \in Places
        PROVE  ChunkMap!BitOf(s) \in bits'[ChunkMap!ByteOf(s)] <=> s \in wanted'
    <3>1. s \in Nat /\ ChunkMap!ByteOf(s) \in ChunkMap!Entries
      BY PlaceIs
    <3>2. bits'[ChunkMap!ByteOf(s)]
            = bits[ChunkMap!ByteOf(s)] \cup ChunkMap!RangeBits(ChunkMap!ByteOf(s), from, to)
      BY <2>1, <3>1
    <3>3. ChunkMap!BitOf(s) \in ChunkMap!RangeBits(ChunkMap!ByteOf(s), from, to) <=> s \in from .. to - 1
      BY <2>2, <3>1, RangeIs
    <3>4. ChunkMap!BitOf(s) \in bits[ChunkMap!ByteOf(s)] <=> s \in wanted
      BY DEF MapInv
    <3> QED BY <2>1, <3>2, <3>3, <3>4
  <2> QED BY <2>3, <2>4, <2>5 DEF MapInv
<1> QED BY <1>1, <1>2

LEMMA MapNext == MapInv /\ [ChunkMap!Next]_(ChunkMap!vars) => MapInv'
<1> SUFFICES ASSUME MapInv, [ChunkMap!Next]_(ChunkMap!vars) PROVE MapInv'
  OBVIOUS
<1>1. CASE ChunkMap!MapClearAll
  <2>1. ChunkMap!Init'
    BY <1>1 DEF ChunkMap!MapClearAll, ChunkMap!Init
  <2>2. bits' = [i \in ChunkMap!Entries |-> {}] /\ wanted' = {}
    BY <1>1 DEF ChunkMap!MapClearAll
  <2>3. \A s \in Places : bits'[ChunkMap!ByteOf(s)] = {}
    BY <2>2, PlaceIs
  <2> QED BY <2>2, <2>3 DEF MapInv
<1>2. CASE UNCHANGED ChunkMap!vars
  BY <1>2 DEF ChunkMap!vars, MapInv
<1> QED BY <1>1, <1>2, MapSetSound, MapRangeSound DEF ChunkMap!Next

\* The map answers from the slots it holds.
LEMMA MapAnswers == MapInv => TracksSlots
<1> SUFFICES ASSUME MapInv PROVE TracksSlots
  OBVIOUS
<1>1. ChunkMap!TracksSlots
  BY PlaceIs DEF MapInv, ChunkMap!TracksSlots, Places
<1>2. \A a \in ChunkMap!Addresses : ChunkMap!IsSet(bits, a) <=> ChunkMap!SlotOf(a) \in wanted
  BY SlotIs, PlaceIs DEF MapInv, ChunkMap!IsSet
<1> DEFINE n == ChunkMap!Slots
           Seen(i) == IF i >= ChunkMap!ByteOf(n) THEN 0 .. ChunkMap!BitOf(n) - 1 ELSE ChunkMap!Bit
<1>3. ASSUME NEW s \in wanted PROVE ~ChunkMap!IsClear(bits)
  <2> DEFINE i == ChunkMap!ByteOf(s)
             b == ChunkMap!BitOf(s)
  <2>1. s \in Nat /\ s < n /\ s \in Places /\ n \in Nat
    BY PlaceIs, MapSize DEF MapInv
  <2>2. i \in ChunkMap!Entries /\ b \in ChunkMap!Bit /\ b \in bits[i]
    BY <2>1, PlaceIs DEF MapInv
  <2>3. b \in Seen(i)
    <3>1. i < ChunkMap!ByteOf(n) \/ (i = ChunkMap!ByteOf(n) /\ b < ChunkMap!BitOf(n))
      BY <2>1, SlotOrder
    <3>2. /\ i \in Nat /\ ChunkMap!ByteOf(n) \in Nat
          /\ b \in 0 .. BitsPerByte - 1 /\ ChunkMap!BitOf(n) \in 0 .. BitsPerByte - 1 /\ BitsPerByte \in Nat
      BY <2>1, BitPlace
    <3> HIDE DEF i, b, n
    <3> QED BY <2>2, <3>1, <3>2
  <2> HIDE DEF i, b, n
  <2>4. \E j \in ChunkMap!Entries : bits[j] \cap Seen(j) # {}
    BY <2>2, <2>3
  <2> QED BY <2>4 DEF ChunkMap!IsClear, n
<1>4. wanted = {} => ChunkMap!IsClear(bits)
  <2> SUFFICES ASSUME wanted = {} PROVE \A i \in ChunkMap!Entries : bits[i] = {}
    BY DEF ChunkMap!IsClear
  <2> SUFFICES ASSUME NEW i \in ChunkMap!Entries, NEW b \in bits[i] PROVE FALSE
    OBVIOUS
  <2>1. b \in ChunkMap!Bit
    BY DEF MapInv
  <2>2. PICK s \in Places : ChunkMap!ByteOf(s) = i /\ ChunkMap!BitOf(s) = b
    BY <2>1, PlaceIs
  <2> QED BY <2>2 DEF MapInv
<1> QED BY <1>1, <1>2, <1>3, <1>4 DEF TracksSlots, ChunkMap!AnswersRight

-----------------------------------------------------------------------------
(* The random bytes                                                        *)

\* write is where the bytes that wait end.
EndsAtWrite == Rand!Wrap(write) = Rand!Wrap(read + count)

RandInv == Rand!TypeOK /\ EndsAtWrite /\ Rand!GivesEachByteOnce

LEMMA RandInit == Rand!RandAssumption /\ Rand!Init => RandInv
BY DEF Rand!RandAssumption, Rand!Init, RandInv, Rand!TypeOK, EndsAtWrite, Rand!GivesEachByteOnce, Rand!Wrap, Rand!Index

\* Taking bytes out: those given are the next ones in the order drawn.
LEMMA RandGetSound ==
    ASSUME Rand!RandAssumption, RandInv, NEW n \in 1 .. 4, Rand!RandGet(n)
    PROVE  RandInv'
<1> DEFINE bytes == IF n <= count THEN n ELSE count
           taken == [i \in 1 .. bytes |-> data[Rand!Wrap(read + i - 1)]]
<1>t. /\ RAND_BUF_SIZE \in Nat \ {0} /\ MaxDraws \in Nat
      /\ read \in 0 .. RAND_BUF_SIZE - 1 /\ write \in 0 .. RAND_BUF_SIZE
      /\ count \in 0 .. RAND_BUF_SIZE
      /\ data \in [Rand!Index -> 0 .. MaxDraws]
      /\ drawn \in 0 .. MaxDraws
      /\ given \in Seq(Nat) /\ Len(given) \in Nat
      /\ DOMAIN given = 1 .. Len(given)
  BY DEF Rand!RandAssumption, RandInv, Rand!TypeOK, Rand!Index
<1>s. Len(given) + count = drawn
  BY DEF RandInv, Rand!GivesEachByteOnce
<1>w. \A i \in 1 .. count : data[Rand!Wrap(read + i - 1)] = Len(given) + i
  BY DEF RandInv, Rand!GivesEachByteOnce
<1>b. bytes \in 0 .. count /\ bytes \in Nat
  BY <1>t
<1>1. /\ read' = Rand!Wrap(read + bytes)
      /\ count' = count - bytes
      /\ given' = given \o taken
      /\ UNCHANGED <<write, data, drawn>>
  BY DEF Rand!RandGet
<1> HIDE DEF bytes
<1>2. \A i \in 1 .. count : Rand!Wrap(read + i - 1) \in Rand!Index
  BY <1>t DEF Rand!Wrap, Rand!Index
<1>c. \A i \in 1 .. bytes : i \in 1 .. count
  BY <1>b, <1>t
<1>3. \A i \in 1 .. bytes : taken[i] = Len(given) + i
  BY <1>c, <1>w
<1>4. taken \in Seq(Nat) /\ Len(taken) = bytes
  <2>1. \A i \in 1 .. bytes : data[Rand!Wrap(read + i - 1)] \in Nat
    <3> SUFFICES ASSUME NEW i \in 1 .. bytes PROVE data[Rand!Wrap(read + i - 1)] \in Nat
      OBVIOUS
    <3>1. Rand!Wrap(read + i - 1) \in Rand!Index
      BY <1>c, <1>2
    <3> QED BY <3>1, <1>t
  <2> QED BY <2>1, <1>b
<1> HIDE DEF taken
<1>5. /\ given' \in Seq(Nat)
      /\ Len(given') = Len(given) + bytes
      /\ \A i \in 1 .. Len(given) + bytes :
            given'[i] = IF i <= Len(given) THEN given[i] ELSE taken[i - Len(given)]
  BY <1>1, <1>4, <1>t, ConcatProperties
<1>a. count' = count - bytes /\ drawn' = drawn
  BY <1>1
<1>l. Len(given') = Len(given) + bytes
  BY <1>5
<1>n. /\ count \in Int /\ drawn \in Int /\ Len(given) \in Int /\ bytes \in Int
  BY <1>t, <1>b
<1>6. \A i \in DOMAIN given' : given'[i] = i
  <2> SUFFICES ASSUME NEW i \in 1 .. Len(given) + bytes PROVE given'[i] = i
    BY <1>5
  <2>1. CASE i <= Len(given)
    BY <2>1, <1>5, <1>t DEF RandInv, Rand!GivesEachByteOnce
  <2>2. CASE i > Len(given)
    <3>1. i - Len(given) \in 1 .. bytes /\ Len(given) + (i - Len(given)) = i
      BY <2>2, <1>b, <1>t
    <3>2. taken[i - Len(given)] = Len(given) + (i - Len(given))
      BY <3>1, <1>3
    <3> QED BY <3>1, <3>2, <2>2, <1>5, <1>t
  <2> QED BY <2>1, <2>2, <1>t, <1>b
<1>7. read' \in Rand!Index /\ count' \in 0 .. RAND_BUF_SIZE
  BY <1>1, <1>b, <1>t DEF Rand!Wrap, Rand!Index
<1>8. Rand!TypeOK'
  <2>1. Len(given') <= drawn'
    BY <1>1, <1>5, <1>b, <1>s, <1>t
  <2> QED BY <2>1, <1>1, <1>5, <1>7, <1>t DEF Rand!TypeOK
<1>9. EndsAtWrite'
  BY <1>1, <1>b, <1>t DEF RandInv, EndsAtWrite, Rand!Wrap
<1>10. Rand!GivesEachByteOnce'
  <2>1. Len(given') + count' = drawn'
    BY <1>a, <1>l, <1>s, <1>b, <1>n
  <2>2. ASSUME NEW i \in 1 .. count'
        PROVE  data'[Rand!Wrap(read' + i - 1)] = Len(given') + i
    <3>1. i + bytes \in 1 .. count /\ i \in Int
      BY <1>1, <1>b, <1>t
    <3>2. Rand!Wrap(read' + i - 1) = Rand!Wrap(read + (i + bytes) - 1)
      BY <3>1, <1>1, <1>b, <1>t DEF Rand!Wrap
    <3>3. data[Rand!Wrap(read + (i + bytes) - 1)] = Len(given) + (i + bytes)
      BY <3>1, <1>w
    <3> QED BY <3>1, <3>2, <3>3, <1>1, <1>5, <1>b, <1>t
  <2> QED BY <2>1, <2>2, <1>6 DEF Rand!GivesEachByteOnce
<1> QED BY <1>8, <1>9, <1>10 DEF RandInv

\* Drawing bytes: they go where the waiting ones end, in one piece or two.
LEMMA RandRefillSound ==
    ASSUME Rand!RandAssumption, RandInv, NEW pool \in 0 .. MaxPool, Rand!RandRefill(pool)
    PROVE  RandInv'
<1> DEFINE N == RAND_BUF_SIZE
           length == IF pool > N - count THEN N - count ELSE pool
           n == IF length < N - write THEN length ELSE N - write
           rem == length - n
           Draw(i) == IF i \in write .. write + n - 1 THEN drawn + 1 + (i - write)
                      ELSE IF i \in 0 .. rem - 1 THEN drawn + 1 + n + i
                      ELSE data[i]
<1>t. /\ N \in Int /\ N >= 1 /\ MaxDraws \in Int
      /\ read \in Int /\ 0 <= read /\ read < N
      /\ write \in Int /\ 0 <= write /\ write <= N
      /\ count \in Int /\ 0 <= count /\ count <= N
      /\ drawn \in Int /\ 0 <= drawn /\ drawn <= MaxDraws
      /\ pool \in Int /\ 0 <= pool
  BY DEF Rand!RandAssumption, RandInv, Rand!TypeOK, Rand!Index
<1>d. data \in [Rand!Index -> 0 .. MaxDraws] /\ given \in Seq(Nat) /\ Len(given) \in Int
  BY DEF RandInv, Rand!TypeOK
<1>s. Len(given) + count = drawn
  BY DEF RandInv, Rand!GivesEachByteOnce
<1>g. \A i \in DOMAIN given : given[i] = i
  BY DEF RandInv, Rand!GivesEachByteOnce
<1>w. \A i \in 1 .. count : data[Rand!Wrap(read + i - 1)] = Len(given) + i
  BY DEF RandInv, Rand!GivesEachByteOnce
<1>e. Rand!Wrap(write) = Rand!Wrap(read + count)
  BY DEF RandInv, EndsAtWrite
<1>f. /\ write < N => write = read + count \/ write = read + count - N
      /\ write = N => read + count = N \/ read + count = 0
  BY <1>e, <1>t DEF Rand!Wrap
<1>1. /\ write' = IF rem > 0 THEN rem ELSE write + n
      /\ count' = count + length
      /\ drawn' = drawn + length
      /\ drawn + length <= MaxDraws
      /\ UNCHANGED <<read, given>>
  BY DEF Rand!RandRefill, Rand!WriteAfter
<1>2. data' = [i \in Rand!Index |-> Draw(i)]
  BY DEF Rand!RandRefill
<1>3. length \in Int /\ 0 <= length /\ length <= N - count
  BY <1>t
<1> HIDE DEF length
<1>4. /\ n \in Int /\ 0 <= n /\ n <= length /\ n <= N - write
      /\ rem \in Int /\ 0 <= rem /\ rem + n = length
      /\ rem > 0 => write + n = N
  BY <1>3, <1>t
<1> HIDE DEF n, rem
<1>5. /\ \A i : i \in write .. write + n - 1 => Draw(i) = drawn + 1 + (i - write)
      /\ \A i : i \notin write .. write + n - 1 /\ i \in 0 .. rem - 1
                  => Draw(i) = drawn + 1 + n + i
      /\ \A i : i \notin write .. write + n - 1 /\ i \notin 0 .. rem - 1
                  => Draw(i) = data[i]
  BY Zenon
<1> HIDE DEF Draw
\* Neither piece reaches the bytes that wait.
<1>6. ASSUME NEW i \in 1 .. count
      PROVE  data'[Rand!Wrap(read + i - 1)] = Len(given) + i
  <2> DEFINE j == Rand!Wrap(read + i - 1)
  <2>1. j \in Int /\ ((j = read + i - 1 /\ j < N) \/ (j = read + i - 1 - N /\ j >= 0))
    BY <1>t DEF Rand!Wrap
  <2>2. j \in Rand!Index
    BY <2>1, <1>t DEF Rand!Index
  <2>3. j \notin write .. write + n - 1 /\ j \notin 0 .. rem - 1
    BY <2>1, <1>f, <1>t, <1>3, <1>4
  <2>4. j = Rand!Wrap(read + i - 1)
    OBVIOUS
  <2> HIDE DEF j
  <2>5. data'[j] = data[j]
    BY <2>2, <2>3, <1>2, <1>5
  <2> QED BY <2>4, <2>5, <1>w
\* The k-th new byte is drawn to the k-th place behind them.
<1>7. ASSUME NEW k \in 1 .. length
      PROVE  data'[Rand!Wrap(read + count + k - 1)] = drawn + k
  <2> DEFINE j == Rand!Wrap(read + count + k - 1)
  <2>1. /\ j \in Int
        /\ \/ j = read + count + k - 1 /\ j < N
           \/ j = read + count + k - 1 - N /\ j >= 0 /\ read + count + k - 1 >= N
    BY <1>t, <1>3 DEF Rand!Wrap
  <2>2. j \in Rand!Index
    BY <2>1, <1>t, <1>3 DEF Rand!Index
  <2>3. j = Rand!Wrap(read + count + k - 1) /\ k \in Int /\ 1 <= k /\ k <= length
    BY <1>3
  <2> HIDE DEF j
  <2>4. CASE k <= n
    <3>1. j = write + k - 1
      BY <2>1, <2>3, <2>4, <1>f, <1>t, <1>3, <1>4
    <3>2. j \in write .. write + n - 1 /\ drawn + 1 + (j - write) = drawn + k
      BY <3>1, <2>3, <2>4, <1>t, <1>4
    <3>3. data'[j] = drawn + 1 + (j - write)
      BY <3>2, <2>2, <1>2, <1>5
    <3> QED BY <3>2, <3>3, <2>3
  <2>5. CASE k > n
    <3>1. rem > 0 /\ write + n = N
      BY <2>3, <2>5, <1>3, <1>4
    <3>2. j = k - n - 1
      BY <3>1, <2>1, <2>3, <2>5, <1>f, <1>t, <1>3, <1>4
    <3>3. /\ j \in 0 .. rem - 1 /\ j \notin write .. write + n - 1
          /\ drawn + 1 + n + j = drawn + k
      BY <3>1, <3>2, <2>1, <2>3, <2>5, <1>f, <1>t, <1>3, <1>4
    <3>4. data'[j] = drawn + 1 + n + j
      BY <3>3, <2>2, <1>2, <1>5
    <3> QED BY <3>3, <3>4, <2>3
  <2> QED BY <2>3, <2>4, <2>5, <1>4
<1>8. ASSUME NEW i \in Rand!Index PROVE Draw(i) \in 0 .. MaxDraws
  <2>1. CASE i \in write .. write + n - 1
    <3>1. drawn + 1 + (i - write) \in 0 .. MaxDraws
      BY <2>1, <1>1, <1>t, <1>3, <1>4
    <3> QED BY <2>1, <3>1, <1>5
  <2>2. CASE i \notin write .. write + n - 1 /\ i \in 0 .. rem - 1
    <3>1. drawn + 1 + n + i \in 0 .. MaxDraws
      BY <2>2, <1>1, <1>t, <1>3, <1>4
    <3> QED BY <2>2, <3>1, <1>5
  <2>3. CASE i \notin write .. write + n - 1 /\ i \notin 0 .. rem - 1
    BY <2>3, <1>5, <1>d
  <2> QED BY <2>1, <2>2, <2>3
<1>9. Rand!TypeOK'
  <2>1. data' \in [Rand!Index -> 0 .. MaxDraws]
    BY <1>2, <1>8
  <2>2. write' \in 0 .. N
    BY <1>1, <1>t, <1>3, <1>4
  <2>3. count' \in 0 .. N /\ drawn' \in 0 .. MaxDraws /\ Len(given') <= drawn'
    BY <1>1, <1>t, <1>3, <1>s, <1>d
  <2> QED BY <2>1, <2>2, <2>3, <1>1, <1>t, <1>d DEF Rand!TypeOK, Rand!Index
<1>10. EndsAtWrite'
  <2>1. CASE rem > 0
    <3>1. write' = rem /\ read' + count' = read + count + length
      BY <2>1, <1>1, <1>t, <1>3
    <3> QED BY <3>1, <2>1, <1>4, <1>f, <1>t, <1>3 DEF EndsAtWrite, Rand!Wrap
  <2>2. CASE rem = 0
    <3>1. write' = write + length /\ read' + count' = read + count + length
      BY <2>2, <1>1, <1>t, <1>3, <1>4
    <3> QED BY <3>1, <2>2, <1>4, <1>f, <1>t, <1>3 DEF EndsAtWrite, Rand!Wrap
  <2> QED BY <2>1, <2>2, <1>4
<1>11. Rand!GivesEachByteOnce'
  <2>1. Len(given') + count' = drawn'
    BY <1>1, <1>3, <1>s, <1>t, <1>d
  <2>2. ASSUME NEW i \in 1 .. count'
        PROVE  data'[Rand!Wrap(read' + i - 1)] = Len(given') + i
    <3>0. i \in Int /\ 1 <= i /\ i <= count + length
      BY <1>1, <1>t, <1>3
    <3>1. CASE i <= count
      <4>1. i \in 1 .. count
        BY <3>0, <3>1, <1>t
      <4> QED BY <4>1, <1>6, <1>1
    <3>2. CASE i > count
      <4> DEFINE k == i - count
      <4>1. k \in 1 .. length /\ read + count + k - 1 = read + i - 1
        BY <3>0, <3>2, <1>t, <1>3
      <4>2. drawn + k = Len(given) + i
        BY <3>0, <1>s, <1>t, <1>d
      <4> HIDE DEF k
      <4>3. data'[Rand!Wrap(read + count + k - 1)] = drawn + k
        BY <4>1, <1>7
      <4> QED BY <4>1, <4>2, <4>3, <1>1
    <3> QED BY <3>0, <3>1, <3>2, <1>t
  <2> QED BY <2>1, <2>2, <1>1, <1>g DEF Rand!GivesEachByteOnce
<1> QED BY <1>9, <1>10, <1>11 DEF RandInv

LEMMA RandNext == Rand!RandAssumption /\ RandInv /\ [Rand!Next]_(Rand!vars) => RandInv'
<1> SUFFICES ASSUME Rand!RandAssumption, RandInv, [Rand!Next]_(Rand!vars) PROVE RandInv'
  OBVIOUS
<1>1. CASE UNCHANGED Rand!vars
  BY <1>1 DEF Rand!vars, RandInv, Rand!TypeOK, EndsAtWrite, Rand!GivesEachByteOnce
<1> QED BY <1>1, RandGetSound, RandRefillSound DEF Rand!Next

-----------------------------------------------------------------------------
(* Packing records: the loops of wr and rd                                 *)

Word == 0 .. WordBits - 1
Fill(x) == BitPack!FillWord(x)
TakeW(x) == BitPack!TakeWord(x)

LEMMA PackSizes ==
    /\ FirstBits \in Nat \ {0} /\ WordBits \in Nat \ {0} /\ BufWords \in Nat \ {0}
    /\ FirstBits <= WordBits /\ Widths \subseteq Nat \ {0} /\ MaxFields \in Nat
BY PartsAssumption DEF BitPack!PackAssumption

\* Words stay words.
LEMMA LowBitsWord ==
    ASSUME NEW w \in SUBSET Word, NEW p \in 0 .. WordBits, NEW d \in SUBSET Nat
    PROVE  BitPack!LowBits(w, p, d) \in SUBSET Word
<1>1. \A b \in BitPack!LowBits(w, p, d) : b \in w \/ (b \in Nat /\ b < p)
  BY DEF BitPack!LowBits, BitPack!Low
<1>2. w \subseteq Word /\ (\A b \in Nat : b < p => b \in Word)
  BY PackSizes DEF Word
<1> QED BY <1>1, <1>2

LEMMA ShiftsAreNat ==
    ASSUME NEW d \in SUBSET Nat, NEW n \in Nat
    PROVE  BitPack!Left(d, n) \in SUBSET Nat /\ BitPack!Right(d, n) \in SUBSET Nat
           /\ BitPack!Low(d, n) \in SUBSET Nat
<1>1. \A b \in BitPack!Left(d, n) : b \in Nat
  BY DEF BitPack!Left
<1>2. \A b \in BitPack!Right(d, n) : b \in Nat
  BY DEF BitPack!Right
<1>3. \A b \in BitPack!Low(d, n) : b \in Nat
  BY DEF BitPack!Low
<1> QED BY <1>1, <1>2, <1>3

LEMMA FillIs ==
    ASSUME NEW x \in BitPack!WrLoop, x.bits > x.ptr
    PROVE  Fill(x) \in BitPack!WrLoop
<1> DEFINE next == IF x.idx < BufWords - 1 THEN x.idx + 1 ELSE x.idx
           w == BitPack!LowBits(x.buf[x.idx], x.ptr, x.data)
           buf == [[x.buf EXCEPT ![x.idx] = w] EXCEPT ![next] = {}]
<1>1. /\ x.buf \in [BitPack!Index -> SUBSET Word] /\ x.idx \in BitPack!Index
      /\ x.ptr \in 0 .. WordBits /\ x.bits \in Nat /\ x.data \in SUBSET Nat
  BY DEF BitPack!WrLoop, BitPack!Buffers, Word
<1>2. next \in BitPack!Index /\ WordBits \in 0 .. WordBits
  BY <1>1, PackSizes DEF BitPack!Index
<1>3. w \in SUBSET Word
  BY <1>1, LowBitsWord
<1>4. buf \in [BitPack!Index -> SUBSET Word]
  <2> HIDE DEF w, next
  <2> QED BY <1>1, <1>2, <1>3
<1>5. x.bits - x.ptr \in Nat /\ BitPack!Right(x.data, x.ptr) \in SUBSET Nat
  <2>1. x.ptr \in Nat
    BY <1>1, PackSizes
  <2>2. x.bits - x.ptr \in Nat
    BY <1>1, <2>1
  <2> QED BY <1>1, <2>1, <2>2, ShiftsAreNat
<1>6. Fill(x) = [buf |-> buf, idx |-> next, ptr |-> WordBits,
                 bits |-> x.bits - x.ptr, data |-> BitPack!Right(x.data, x.ptr)]
  BY DEF Fill, BitPack!FillWord
<1> HIDE DEF buf, next
<1> QED BY <1>2, <1>4, <1>5, <1>6 DEF BitPack!WrLoop, BitPack!Buffers, Word

LEMMA LastIs ==
    ASSUME NEW x \in BitPack!WrLoop, ~(x.bits > x.ptr)
    PROVE  BitPack!LastBits(x) \in BitPack!WrLoop
<1> DEFINE d == BitPack!Left(x.data, x.ptr - x.bits)
           w == BitPack!LowBits(x.buf[x.idx], x.ptr, d)
<1>1. /\ x.buf \in [BitPack!Index -> SUBSET Word] /\ x.idx \in BitPack!Index
      /\ x.ptr \in 0 .. WordBits /\ x.bits \in Nat /\ x.data \in SUBSET Nat
  BY DEF BitPack!WrLoop, BitPack!Buffers, Word
<1>2. x.ptr - x.bits \in 0 .. WordBits /\ x.ptr - x.bits \in Nat
  BY <1>1, PackSizes
<1>3. w \in SUBSET Word
  <2>1. d \in SUBSET Nat
    BY <1>1, <1>2, ShiftsAreNat
  <2> HIDE DEF d
  <2> QED BY <1>1, <2>1, LowBitsWord
<1>4. BitPack!LastBits(x) = [x EXCEPT !.buf[x.idx] = w, !.ptr = x.ptr - x.bits]
  BY DEF BitPack!LastBits
<1> HIDE DEF w
<1> QED BY <1>1, <1>2, <1>3, <1>4 DEF BitPack!WrLoop, BitPack!Buffers, Word

LEMMA WrCounts ==
    ASSUME NEW x \in BitPack!WrLoop, x.bits > x.ptr
    PROVE  /\ 2 * Fill(x).bits + (IF Fill(x).ptr = 0 THEN 1 ELSE 0) < 2 * x.bits + (IF x.ptr = 0 THEN 1 ELSE 0)
BY PackSizes DEF Fill, BitPack!FillWord, BitPack!WrLoop

WrEnds == {x \in BitPack!WrLoop : ~(x.bits > x.ptr)}
WrLast == [x \in BitPack!WrLoop |-> IF x \in WrEnds THEN BitPack!LastBits(x) ELSE x]
WrNext == [x \in BitPack!WrLoop |-> IF x \in WrEnds THEN x ELSE Fill(x)]
WrLeft == [x \in BitPack!WrLoop |-> 2 * x.bits + (IF x.ptr = 0 THEN 1 ELSE 0)]

LEMMA WrCountsDown ==
    CountsDown(BitPack!WrLoop, WrEnds, BitPack!WrLoop, WrLast, WrNext, WrLeft)
<1>1. WrLast \in [BitPack!WrLoop -> BitPack!WrLoop]
  BY LastIs DEF WrLast, WrEnds
<1>2. WrNext \in [BitPack!WrLoop -> BitPack!WrLoop]
  BY FillIs DEF WrNext, WrEnds
<1>3. WrLeft \in [BitPack!WrLoop -> Nat]
  BY DEF WrLeft, BitPack!WrLoop
<1>4. ASSUME NEW x \in BitPack!WrLoop, x \notin WrEnds PROVE WrLeft[WrNext[x]] < WrLeft[x]
  <2>1. x.bits > x.ptr
    BY <1>4 DEF WrEnds
  <2>2. WrNext[x] = Fill(x) /\ Fill(x) \in BitPack!WrLoop
    BY <1>4, <2>1, FillIs DEF WrNext
  <2> QED BY <2>1, <2>2, WrCounts DEF WrLeft
<1> QED BY <1>1, <1>2, <1>3, <1>4 DEF CountsDown

\* wr is what its loop computes.
LEMMA WrIs ==
    \A x \in BitPack!WrLoop :
        BitPack!wr[x] = IF x.bits > x.ptr THEN BitPack!wr[Fill(x)] ELSE BitPack!LastBits(x)
<1> DEFINE D == BitPack!WrLoop
           G(f) == [x \in D |-> IF BitPack!Spills(x.bits, x.ptr) THEN f[BitPack!FillWord(x)] ELSE BitPack!LastBits(x)]
<1>1. \E f : f = G(f)
  <2>1. PICK f : f = Round(f, BitPack!WrLoop, WrEnds, WrLast, WrNext)
    BY WrCountsDown, LoopExists
  <2>2. Round(f, D, WrEnds, WrLast, WrNext) = G(f)
    BY DEF Round, WrEnds, WrLast, WrNext, BitPack!Spills, Fill
  <2> QED BY <2>1, <2>2
<1>2. BitPack!wr = CHOOSE f : f = G(f)
  BY DEF BitPack!wr
<1>3. BitPack!wr = G(BitPack!wr)
  BY <1>1, <1>2
<1> QED BY <1>3 DEF BitPack!Spills, Fill

LEMMA TakeIs ==
    ASSUME NEW z \in BitPack!RdLoop, z.bits > z.ptr
    PROVE  TakeW(z) \in BitPack!RdLoop
<1> DEFINE short == z.idx + 1 >= z.limit
           d == z.data \cup BitPack!Left(BitPack!Low(z.buf[z.idx], z.ptr), z.ins)
<1>1. /\ z.buf \in [BitPack!Index -> SUBSET Word] /\ z.idx \in BitPack!Index
      /\ z.ptr \in 0 .. WordBits /\ z.bits \in Nat /\ z.ins \in Nat /\ z.data \in SUBSET Nat
      /\ z.limit \in 0 .. BufWords
  BY DEF BitPack!RdLoop, BitPack!Buffers, Word
<1>2. /\ (IF short THEN 0 ELSE z.idx + 1) \in BitPack!Index
      /\ (IF short THEN 0 ELSE z.limit) \in 0 .. BufWords
      /\ WordBits \in 0 .. WordBits /\ z.bits - z.ptr \in Nat /\ z.ins + z.ptr \in Nat
  <2>1. \A i \in BitPack!Index : \A l \in 0 .. BufWords :
            /\ (IF i + 1 >= l THEN 0 ELSE i + 1) \in BitPack!Index
            /\ (IF i + 1 >= l THEN 0 ELSE l) \in 0 .. BufWords
    BY PackSizes DEF BitPack!Index
  <2>2. z.bits - z.ptr \in Nat /\ z.ins + z.ptr \in Nat /\ WordBits \in 0 .. WordBits
    BY <1>1, PackSizes
  <2> QED BY <1>1, <2>1, <2>2
<1>3. d \in SUBSET Nat
  <2>1. z.buf[z.idx] \in SUBSET Nat
    BY <1>1, PackSizes DEF Word
  <2>2. BitPack!Low(z.buf[z.idx], z.ptr) \in SUBSET Nat
    BY <2>1 DEF BitPack!Low
  <2>3. BitPack!Left(BitPack!Low(z.buf[z.idx], z.ptr), z.ins) \in SUBSET Nat
    BY <1>1, <2>2, ShiftsAreNat
  <2> QED BY <1>1, <2>3
<1>4. TakeW(z) = [z EXCEPT !.idx = IF short THEN 0 ELSE z.idx + 1,
                           !.limit = IF short THEN 0 ELSE z.limit,
                           !.ptr = WordBits, !.bits = z.bits - z.ptr, !.ins = z.ins + z.ptr,
                           !.data = d]
  BY DEF TakeW, BitPack!TakeWord
<1> HIDE DEF d, short
<1> QED BY <1>2, <1>3, <1>4 DEF BitPack!RdLoop

LEMMA TakeBitsIs ==
    ASSUME NEW z \in BitPack!RdLoop, ~(z.bits > z.ptr)
    PROVE  BitPack!TakeBits(z) \in BitPack!RdLoop
<1> DEFINE w == BitPack!Low(BitPack!Right(z.buf[z.idx], z.ptr - z.bits), z.bits)
<1>1. /\ z.buf \in [BitPack!Index -> SUBSET Word] /\ z.idx \in BitPack!Index
      /\ z.ptr \in 0 .. WordBits /\ z.bits \in Nat /\ z.ins \in Nat /\ z.data \in SUBSET Nat
  BY DEF BitPack!RdLoop, BitPack!Buffers, Word
<1>2. z.ptr - z.bits \in 0 .. WordBits /\ z.ptr - z.bits \in Nat
  BY <1>1, PackSizes
<1>3. BitPack!Left(w, z.ins) \in SUBSET Nat
  <2>1. z.buf[z.idx] \in SUBSET Nat
    BY <1>1, PackSizes DEF Word
  <2>2. BitPack!Right(z.buf[z.idx], z.ptr - z.bits) \in SUBSET Nat
    BY <1>2, <2>1, ShiftsAreNat
  <2>3. w \in SUBSET Nat
    BY <2>2 DEF BitPack!Low
  <2> HIDE DEF w
  <2> QED BY <1>1, <2>3, ShiftsAreNat
<1>4. BitPack!TakeBits(z) = [z EXCEPT !.ptr = z.ptr - z.bits, !.data = z.data \cup BitPack!Left(w, z.ins)]
  BY DEF BitPack!TakeBits
<1> HIDE DEF w
<1> QED BY <1>1, <1>2, <1>3, <1>4 DEF BitPack!RdLoop

RdEnds == {z \in BitPack!RdLoop : ~(z.bits > z.ptr)}
RdLast == [z \in BitPack!RdLoop |-> IF z \in RdEnds THEN BitPack!TakeBits(z) ELSE z]
RdNext == [z \in BitPack!RdLoop |-> IF z \in RdEnds THEN z ELSE TakeW(z)]
RdLeft == [z \in BitPack!RdLoop |-> 2 * z.bits + (IF z.ptr = 0 THEN 1 ELSE 0)]

LEMMA RdCountsDown ==
    CountsDown(BitPack!RdLoop, RdEnds, BitPack!RdLoop, RdLast, RdNext, RdLeft)
<1>1. RdLast \in [BitPack!RdLoop -> BitPack!RdLoop]
  BY TakeBitsIs DEF RdLast, RdEnds
<1>2. RdNext \in [BitPack!RdLoop -> BitPack!RdLoop]
  BY TakeIs DEF RdNext, RdEnds
<1>3. RdLeft \in [BitPack!RdLoop -> Nat]
  BY DEF RdLeft, BitPack!RdLoop
<1>4. ASSUME NEW z \in BitPack!RdLoop, z \notin RdEnds PROVE RdLeft[RdNext[z]] < RdLeft[z]
  <2>1. z.bits > z.ptr
    BY <1>4 DEF RdEnds
  <2>2. RdNext[z] = TakeW(z) /\ TakeW(z) \in BitPack!RdLoop
    BY <1>4, <2>1, TakeIs DEF RdNext
  <2>3. /\ z.ptr \in Nat /\ z.bits \in Nat
        /\ TakeW(z).ptr = WordBits /\ TakeW(z).bits = z.bits - z.ptr
    BY PackSizes DEF TakeW, BitPack!TakeWord, BitPack!RdLoop
  <2>4. 2 * TakeW(z).bits + (IF TakeW(z).ptr = 0 THEN 1 ELSE 0) < 2 * z.bits + (IF z.ptr = 0 THEN 1 ELSE 0)
    BY <2>1, <2>3, PackSizes
  <2> QED BY <2>2, <2>4 DEF RdLeft
<1> QED BY <1>1, <1>2, <1>3, <1>4 DEF CountsDown

\* rd is what its loop computes.
LEMMA RdIs ==
    \A z \in BitPack!RdLoop :
        BitPack!rd[z] = IF z.bits > z.ptr THEN BitPack!rd[TakeW(z)] ELSE BitPack!TakeBits(z)
<1> DEFINE G(f) == [x \in BitPack!RdLoop |-> IF x.bits > x.ptr THEN f[BitPack!TakeWord(x)] ELSE BitPack!TakeBits(x)]
<1>1. \E f : f = G(f)
  <2>1. PICK f : f = Round(f, BitPack!RdLoop, RdEnds, RdLast, RdNext)
    BY RdCountsDown, LoopExists
  <2>2. Round(f, BitPack!RdLoop, RdEnds, RdLast, RdNext) = G(f)
    BY DEF Round, RdEnds, RdLast, RdNext, TakeW
  <2> QED BY <2>1, <2>2
<1>2. BitPack!rd = CHOOSE f : f = G(f)
  BY DEF BitPack!rd
<1>3. BitPack!rd = G(BitPack!rd)
  BY <1>1, <1>2
<1> QED BY <1>3 DEF TakeW

LEMMA RdTyped == \A z \in BitPack!RdLoop : BitPack!rd[z] \in BitPack!RdLoop
<1> DEFINE S == {z \in BitPack!RdLoop : BitPack!rd[z] \in BitPack!RdLoop}
<1>1. \A z \in BitPack!RdLoop : z \in RdEnds => z \in S
  BY RdIs, TakeBitsIs DEF RdEnds
<1>2. \A z \in BitPack!RdLoop : z \notin RdEnds /\ RdNext[z] \in S => z \in S
  BY RdIs DEF RdEnds, RdNext
<1> HIDE DEF S
<1>3. BitPack!RdLoop \subseteq S
  BY <1>1, <1>2, RdCountsDown, LoopInduct
<1> QED BY <1>3 DEF S

\* B and C hold the same up to a place: before word i, and above bit p of it.
Same(B, C, i, p) ==
    /\ \A j \in BitPack!Index : j < i => B[j] = C[j]
    /\ \A c \in Word : c >= p => (c \in B[i] <=> c \in C[i])

\* The place <<i, p>> is not behind <<j, q>>.
Before(i, p, j, q) == i < j \/ (i = j /\ p >= q)

\* A field of so many bits put in at <<i, p>> is read from there, over any
\* buffer that is the same up to where it ends, <<j, q>>; with fewer words to
\* read, the record is found too short.
FieldAt(buf, i, p, j, q, n, field) ==
    \A z \in BitPack!RdLoop : z.ptr = p /\ z.bits = n =>
        /\ (z.idx = i /\ Same(z.buf, buf, j, q) /\ j < z.limit) =>
               /\ BitPack!rd[z].idx = j /\ BitPack!rd[z].ptr = q
               /\ BitPack!rd[z].limit = z.limit
               /\ BitPack!rd[z].data = z.data \cup BitPack!Left(field, z.ins)
        /\ (z.limit = 0 \/ (z.idx = i /\ i < z.limit /\ z.limit <= j)) =>
               BitPack!rd[z].limit = 0 /\ BitPack!rd[z].ptr = q

\* Bits of the type are not touched.
UnderType(buf, i, p) == buf[0] \subseteq 0 .. FirstBits - 1 /\ (i = 0 => p <= FirstBits)

\* There is room for what the loop of wr has to put in.
HasRoom(x) == /\ x.bits <= x.ptr + (BufWords - 1 - x.idx) * WordBits
              /\ x.data \subseteq 0 .. x.bits - 1

\* What wr makes of x.
Packed(x, y) ==
    /\ y \in BitPack!WrLoop
    /\ Before(x.idx, x.ptr, y.idx, y.ptr)
    /\ Same(y.buf, x.buf, x.idx, x.ptr)
    /\ UnderType(x.buf, x.idx, x.ptr) => UnderType(y.buf, y.idx, y.ptr)
    /\ FieldAt(y.buf, x.idx, x.ptr, y.idx, y.ptr, x.bits, x.data)

\* A field that fits in the word.
LEMMA LastBitsRead ==
    ASSUME NEW w \in SUBSET Word, NEW v \in SUBSET Word, NEW p \in 0 .. WordBits, NEW n \in Nat, n <= p,
           NEW d \in SUBSET (0 .. n - 1),
           \A c \in Word : c >= p - n => (c \in v <=> c \in BitPack!LowBits(w, p, BitPack!Left(d, p - n)))
    PROVE  BitPack!Low(BitPack!Right(v, p - n), n) = d
<1>1. WordBits \in Nat /\ p \in Nat /\ p - n \in Nat
  BY PackSizes
<1>2. ASSUME NEW c \in Nat, c < n PROVE c \in BitPack!Right(v, p - n) <=> c \in d
  <2>1. c + (p - n) \in Word /\ c + (p - n) < p /\ c + (p - n) >= p - n
    BY <1>1, <1>2, PackSizes DEF Word
  <2>2. c \in BitPack!Right(v, p - n) <=> c + (p - n) \in v
    <3>1. v \subseteq Nat
      BY PackSizes DEF Word
    <3> QED BY <1>1, <3>1 DEF BitPack!Right
  <2>3. c \in d <=> c + (p - n) \in BitPack!Left(d, p - n)
    <3>1. d \subseteq Nat
      OBVIOUS
    <3> QED BY <1>1, <3>1 DEF BitPack!Left
  <2>4. c + (p - n) \in v <=> c + (p - n) \in BitPack!Left(d, p - n)
    BY <2>1 DEF BitPack!LowBits, BitPack!Low
  <2> QED BY <2>2, <2>3, <2>4
<1>3. \A c \in BitPack!Right(v, p - n) : c \in Nat
  <2>1. v \subseteq Nat
    BY PackSizes DEF Word
  <2> QED BY <1>1, <2>1, ShiftsAreNat
<1>4. \A c \in d : c \in Nat /\ c < n
  OBVIOUS
<1> QED BY <1>2, <1>3, <1>4 DEF BitPack!Low

\* The two parts of a field that does not.
LEMMA SplitRead ==
    ASSUME NEW d \in SUBSET Nat, NEW p \in Nat, NEW i \in Nat
    PROVE  BitPack!Left(BitPack!Low(d, p), i) \cup BitPack!Left(BitPack!Right(d, p), i + p) = BitPack!Left(d, i)
<1>1. ASSUME NEW c \in BitPack!Left(d, i)
      PROVE  c \in BitPack!Left(BitPack!Low(d, p), i) \/ c \in BitPack!Left(BitPack!Right(d, p), i + p)
  <2>1. PICK b \in d : c = b + i
    BY DEF BitPack!Left
  <2>2. CASE b < p
    BY <2>1, <2>2 DEF BitPack!Left, BitPack!Low
  <2>3. CASE ~(b < p)
    <3>1. b \in Nat /\ b >= p /\ c = (b - p) + (i + p)
      BY <2>1, <2>3
    <3>2. b - p \in BitPack!Right(d, p)
      BY <3>1 DEF BitPack!Right
    <3> QED BY <3>1, <3>2 DEF BitPack!Left
  <2> QED BY <2>2, <2>3
<1>2. ASSUME NEW c \in BitPack!Left(BitPack!Low(d, p), i) PROVE c \in BitPack!Left(d, i)
  BY DEF BitPack!Left, BitPack!Low
<1>3. ASSUME NEW c \in BitPack!Left(BitPack!Right(d, p), i + p) PROVE c \in BitPack!Left(d, i)
  <2>1. PICK e \in BitPack!Right(d, p) : c = e + (i + p)
    BY DEF BitPack!Left
  <2>2. PICK b \in d : e = b - p
    BY DEF BitPack!Right
  <2>3. c = b + i
    BY <2>1, <2>2
  <2> QED BY <2>3 DEF BitPack!Left
<1> QED BY <1>1, <1>2, <1>3

LEMMA LoopVars ==
    ASSUME NEW x \in BitPack!WrLoop
    PROVE  /\ x.buf \in [BitPack!Index -> SUBSET Word] /\ x.idx \in BitPack!Index /\ x.idx \in Nat
           /\ x.ptr \in 0 .. WordBits /\ x.ptr \in Nat /\ x.bits \in Nat /\ x.data \in SUBSET Nat
           /\ x.buf[x.idx] \in SUBSET Word
<1>1. /\ x.buf \in [BitPack!Index -> SUBSET Word] /\ x.idx \in BitPack!Index
      /\ x.ptr \in 0 .. WordBits /\ x.bits \in Nat /\ x.data \in SUBSET Nat
  BY DEF BitPack!WrLoop, BitPack!Buffers, Word
<1>2. x.idx \in Nat /\ x.ptr \in Nat
  BY <1>1, PackSizes DEF BitPack!Index
<1> QED BY <1>1, <1>2

LEMMA ReadVars ==
    ASSUME NEW z \in BitPack!RdLoop
    PROVE  /\ z.buf \in [BitPack!Index -> SUBSET Word] /\ z.idx \in BitPack!Index /\ z.idx \in Nat
           /\ z.ptr \in 0 .. WordBits /\ z.ptr \in Nat /\ z.bits \in Nat /\ z.data \in SUBSET Nat
           /\ z.buf[z.idx] \in SUBSET Word /\ z.ins \in Nat /\ z.limit \in Nat
<1>1. /\ z.buf \in [BitPack!Index -> SUBSET Word] /\ z.idx \in BitPack!Index
      /\ z.ptr \in 0 .. WordBits /\ z.bits \in Nat /\ z.data \in SUBSET Nat
      /\ z.ins \in Nat /\ z.limit \in 0 .. BufWords
  BY DEF BitPack!RdLoop, BitPack!Buffers, Word
<1>2. z.idx \in Nat /\ z.ptr \in Nat /\ z.limit \in Nat
  BY <1>1, PackSizes DEF BitPack!Index
<1> QED BY <1>1, <1>2

\* The last of a field.
LEMMA LastPacks ==
    ASSUME NEW x \in BitPack!WrLoop, HasRoom(x), ~(x.bits > x.ptr)
    PROVE  Packed(x, BitPack!LastBits(x))
<1> DEFINE y == BitPack!LastBits(x)
           q == x.ptr - x.bits
           w == BitPack!LowBits(x.buf[x.idx], x.ptr, BitPack!Left(x.data, q))
<1>1. /\ x.buf \in [BitPack!Index -> SUBSET Word] /\ x.idx \in BitPack!Index /\ x.idx \in Nat
      /\ x.ptr \in 0 .. WordBits /\ x.ptr \in Nat /\ x.bits \in Nat /\ x.buf[x.idx] \in SUBSET Word
      /\ x.data \in SUBSET Nat
  BY LoopVars
<1>2. q \in Nat /\ q <= x.ptr
  BY <1>1
<1>3. y = [buf |-> [x.buf EXCEPT ![x.idx] = w], idx |-> x.idx, ptr |-> q,
           bits |-> x.bits, data |-> x.data]
  <2>1. y = [x EXCEPT !.buf = [x.buf EXCEPT ![x.idx] = w], !.ptr = q]
    BY DEF BitPack!LastBits
  <2> HIDE DEF w, q, y
  <2> QED BY <2>1 DEF BitPack!WrLoop
<1>4. y \in BitPack!WrLoop
  BY LastIs
<1>5. \A c \in Word : c >= x.ptr => (c \in w <=> c \in x.buf[x.idx])
  BY <1>1 DEF BitPack!LowBits, BitPack!Low, Word
<1>6. y.buf[x.idx] = w /\ \A j \in BitPack!Index : j # x.idx => y.buf[j] = x.buf[j]
  BY <1>1, <1>3
<1>7. y.idx = x.idx /\ y.ptr = q
  BY <1>3
<1> HIDE DEF y
<1>8. Same(y.buf, x.buf, x.idx, x.ptr)
  <2>1. \A j \in BitPack!Index : j \in Nat
    BY PackSizes DEF BitPack!Index
  <2>2. \A j \in BitPack!Index : j < x.idx => y.buf[j] = x.buf[j]
    BY <1>1, <1>6, <2>1
  <2> QED BY <1>5, <1>6, <2>2 DEF Same
<1>9. UnderType(x.buf, x.idx, x.ptr) => UnderType(y.buf, y.idx, y.ptr)
  <2> SUFFICES ASSUME UnderType(x.buf, x.idx, x.ptr) PROVE UnderType(y.buf, y.idx, y.ptr)
    OBVIOUS
  <2>1. 0 \in BitPack!Index
    BY PackSizes DEF BitPack!Index
  <2>2. CASE x.idx = 0
    <3>1. \A c \in w : c \in x.buf[0] \/ (c \in Nat /\ c < x.ptr)
      <4>1. BitPack!Left(x.data, q) \subseteq Nat
        BY <1>1, <1>2, ShiftsAreNat
      <4> QED BY <2>2, <4>1 DEF BitPack!LowBits, BitPack!Low
    <3>2. x.ptr <= FirstBits /\ FirstBits \in Nat /\ x.buf[0] \subseteq 0 .. FirstBits - 1
      BY <2>2, PackSizes DEF UnderType
    <3>3. \A c \in w : c \in 0 .. FirstBits - 1
      <4> HIDE DEF w
      <4> QED BY <1>1, <3>1, <3>2
    <3>4. q <= FirstBits
      BY <1>1, <1>2, <3>2
    <3> HIDE DEF w, q
    <3> QED BY <1>6, <1>7, <2>2, <3>3, <3>4 DEF UnderType
  <2>3. CASE x.idx # 0
    BY <1>6, <1>7, <2>1, <2>3 DEF UnderType
  <2> QED BY <2>2, <2>3
<1>10. ASSUME NEW z \in BitPack!RdLoop, z.ptr = x.ptr, z.bits = x.bits
       PROVE  /\ (z.idx = x.idx /\ Same(z.buf, y.buf, y.idx, y.ptr) /\ y.idx < z.limit) =>
                   /\ BitPack!rd[z].idx = y.idx /\ BitPack!rd[z].ptr = y.ptr
                   /\ BitPack!rd[z].limit = z.limit
                   /\ BitPack!rd[z].data = z.data \cup BitPack!Left(x.data, z.ins)
              /\ (z.limit = 0 \/ (z.idx = x.idx /\ x.idx < z.limit /\ z.limit <= y.idx)) =>
                   BitPack!rd[z].limit = 0 /\ BitPack!rd[z].ptr = y.ptr
  <2> DEFINE got1 == BitPack!Low(BitPack!Right(z.buf[z.idx], q), x.bits)
  <2>1. BitPack!rd[z] = BitPack!TakeBits(z)
    BY <1>10, RdIs
  <2>2. BitPack!TakeBits(z) = [z EXCEPT !.ptr = q, !.data = z.data \cup BitPack!Left(got1, z.ins)]
    BY <1>10 DEF BitPack!TakeBits
  <2>3. /\ BitPack!rd[z].idx = z.idx /\ BitPack!rd[z].ptr = q /\ BitPack!rd[z].limit = z.limit
        /\ BitPack!rd[z].data = z.data \cup BitPack!Left(got1, z.ins)
    <3> HIDE DEF got1, q
    <3> QED BY <2>1, <2>2 DEF BitPack!RdLoop
  <2>4. ASSUME z.idx = x.idx, Same(z.buf, y.buf, y.idx, y.ptr) PROVE got1 = x.data
    <3>1. z.buf[z.idx] \in SUBSET Word
      BY ReadVars
    <3>2. \A c \in Word : c >= q => (c \in z.buf[z.idx] <=> c \in w)
      BY <1>6, <1>7, <2>4 DEF Same
    <3>3. x.data \in SUBSET (0 .. x.bits - 1) /\ x.bits <= x.ptr
      BY <1>1 DEF HasRoom
    <3> QED BY <1>1, <3>1, <3>2, <3>3, LastBitsRead
  <2>5. z.limit \in Nat /\ z.idx \in Nat
    BY ReadVars
  <2> HIDE DEF got1, q
  <2> QED BY <1>1, <1>7, <2>3, <2>4, <2>5
<1>11. FieldAt(y.buf, x.idx, x.ptr, y.idx, y.ptr, x.bits, x.data)
  BY <1>10 DEF FieldAt
<1>12. Before(x.idx, x.ptr, y.idx, y.ptr)
  BY <1>2, <1>7 DEF Before
<1>13. Packed(x, y)
  BY <1>4, <1>8, <1>9, <1>11, <1>12 DEF Packed
<1> QED BY <1>13 DEF y

\* The first part of a field that goes on in the next word.
LEMMA FillPacks ==
    ASSUME NEW x \in BitPack!WrLoop, HasRoom(x), x.bits > x.ptr
    PROVE  /\ Fill(x) \in BitPack!WrLoop /\ HasRoom(Fill(x))
           /\ Fill(x).idx = x.idx + 1 /\ Fill(x).ptr = WordBits
           /\ Fill(x).bits = x.bits - x.ptr /\ Fill(x).data = BitPack!Right(x.data, x.ptr)
           /\ \A j \in BitPack!Index : j < x.idx => Fill(x).buf[j] = x.buf[j]
           /\ Fill(x).buf[x.idx] = BitPack!LowBits(x.buf[x.idx], x.ptr, x.data)
           /\ UnderType(x.buf, x.idx, x.ptr) => UnderType(Fill(x).buf, x.idx + 1, WordBits)
<1> DEFINE w == BitPack!LowBits(x.buf[x.idx], x.ptr, x.data)
           i == x.idx
           p == x.ptr
           y == Fill(x)
<1>1. /\ x.buf \in [BitPack!Index -> SUBSET Word] /\ i \in BitPack!Index /\ i \in Nat
      /\ p \in 0 .. WordBits /\ p \in Nat /\ x.bits \in Nat /\ x.buf[i] \in SUBSET Word
      /\ x.data \in SUBSET Nat
  BY LoopVars
<1>2. x.bits <= p + (BufWords - 1 - i) * WordBits /\ x.data \subseteq 0 .. x.bits - 1
  BY DEF HasRoom
<1>3. i < BufWords - 1
  <2>1. CASE i = BufWords - 1
    <3>1. (BufWords - 1 - i) * WordBits = 0
      BY <2>1, PackSizes
    <3> QED BY <1>1, <1>2, <3>1
  <2>2. CASE i # BufWords - 1
    BY <1>1, <2>2, PackSizes DEF BitPack!Index
  <2> QED BY <2>1, <2>2
<1>4. /\ y.buf = [[x.buf EXCEPT ![i] = w] EXCEPT ![i + 1] = {}]
      /\ y.idx = i + 1 /\ y.ptr = WordBits
      /\ y.bits = x.bits - p /\ y.data = BitPack!Right(x.data, p)
  BY <1>3 DEF Fill, BitPack!FillWord
<1>5. i + 1 \in BitPack!Index /\ 0 \in BitPack!Index
  BY <1>1, <1>3, PackSizes DEF BitPack!Index
<1>6. \A j \in BitPack!Index : j < i => y.buf[j] = x.buf[j]
  <2>1. \A j \in BitPack!Index : j < i => j # i /\ j # i + 1 /\ j \in Nat
    BY <1>1, PackSizes DEF BitPack!Index
  <2> HIDE DEF w, i, y
  <2> QED BY <1>1, <1>4, <2>1
<1>7. y.buf[i] = w
  <2> HIDE DEF w, i, y
  <2> QED BY <1>1, <1>4, <1>5
<1>8. HasRoom(y)
  <2>1. (BufWords - 1 - i) * WordBits = WordBits + (BufWords - 1 - (i + 1)) * WordBits
    <3> HIDE DEF i
    <3> QED BY <1>1, PackSizes
  <2>2. x.bits - p <= WordBits + (BufWords - 1 - (i + 1)) * WordBits
    <3>1. (BufWords - 1 - (i + 1)) * WordBits \in Int
      <4> HIDE DEF i
      <4> QED BY <1>1, PackSizes
    <3> QED BY <1>1, <1>2, <2>1, <3>1, PackSizes
  <2>3. ASSUME NEW c \in BitPack!Right(x.data, p) PROVE c \in 0 .. x.bits - p - 1
    <3>1. PICK b \in x.data : b >= p /\ c = b - p
      BY DEF BitPack!Right
    <3>2. b \in Nat /\ b < x.bits
      BY <1>1, <1>2
    <3> QED BY <1>1, <3>1, <3>2
  <2> HIDE DEF y, i, p
  <2> QED BY <1>4, <2>2, <2>3 DEF HasRoom
<1>9. UnderType(x.buf, i, p) => UnderType(y.buf, i + 1, WordBits)
  <2> SUFFICES ASSUME UnderType(x.buf, i, p) PROVE UnderType(y.buf, i + 1, WordBits)
    OBVIOUS
  <2>1. i + 1 # 0
    BY <1>1
  <2>2. CASE i = 0
    <3>1. \A c \in w : c \in x.buf[0] \/ (c \in Nat /\ c < p)
      BY <1>1, <2>2 DEF BitPack!LowBits, BitPack!Low
    <3>2. p <= FirstBits /\ FirstBits \in Nat /\ x.buf[0] \subseteq 0 .. FirstBits - 1
      BY <2>2, PackSizes DEF UnderType
    <3>3. \A c \in w : c \in 0 .. FirstBits - 1
      <4> HIDE DEF w
      <4> QED BY <1>1, <3>1, <3>2
    <3> HIDE DEF w, y
    <3> QED BY <1>7, <2>1, <2>2, <3>3 DEF UnderType
  <2>3. CASE i # 0
    <3>1. y.buf[0] = x.buf[0]
      BY <1>1, <1>5, <1>6, <2>3
    <3> HIDE DEF y
    <3> QED BY <2>1, <3>1 DEF UnderType
  <2> QED BY <2>2, <2>3
<1>10. y \in BitPack!WrLoop
  BY FillIs
<1> QED BY <1>4, <1>6, <1>7, <1>8, <1>9, <1>10

LEMMA StepPacks ==
    ASSUME NEW x \in BitPack!WrLoop, HasRoom(x), x.bits > x.ptr, NEW y, Packed(Fill(x), y)
    PROVE  Packed(x, y)
<1> DEFINE u == Fill(x)
           i == x.idx
           p == x.ptr
<1>1. /\ i \in BitPack!Index /\ i \in Nat /\ p \in Nat /\ p <= WordBits /\ x.bits \in Nat
      /\ x.data \in SUBSET Nat /\ WordBits \in Nat
  BY LoopVars, PackSizes
<1>2. /\ u.idx = i + 1 /\ u.ptr = WordBits
      /\ u.bits = x.bits - p /\ u.data = BitPack!Right(x.data, p)
      /\ \A j \in BitPack!Index : j < i => u.buf[j] = x.buf[j]
      /\ u.buf[i] = BitPack!LowBits(x.buf[i], p, x.data)
      /\ UnderType(x.buf, i, p) => UnderType(u.buf, i + 1, WordBits)
  BY FillPacks
<1> HIDE DEF u
<1>3. /\ y \in BitPack!WrLoop /\ Before(i + 1, WordBits, y.idx, y.ptr)
      /\ Same(y.buf, u.buf, i + 1, WordBits)
      /\ UnderType(u.buf, i + 1, WordBits) => UnderType(y.buf, y.idx, y.ptr)
      /\ FieldAt(y.buf, i + 1, WordBits, y.idx, y.ptr, x.bits - p, BitPack!Right(x.data, p))
  BY <1>2 DEF Packed, u
<1>4. y.idx \in Nat /\ i < y.idx /\ i + 1 <= y.idx
  <2>1. y.idx \in Nat
    BY <1>3, LoopVars
  <2> QED BY <1>1, <1>3, <2>1 DEF Before
<1>5. \A j \in BitPack!Index : j <= i => y.buf[j] = u.buf[j]
  <2>1. \A j \in BitPack!Index : j <= i => j < i + 1
    BY <1>1, PackSizes DEF BitPack!Index
  <2> QED BY <1>3, <2>1 DEF Same
<1>6. Same(y.buf, x.buf, i, p)
  <2>1. \A j \in BitPack!Index : j < i => y.buf[j] = x.buf[j]
    <3>1. \A j \in BitPack!Index : j < i => j <= i
      BY <1>1, PackSizes DEF BitPack!Index
    <3> QED BY <1>2, <1>5, <3>1
  <2>2. y.buf[i] = BitPack!LowBits(x.buf[i], p, x.data)
    BY <1>1, <1>2, <1>5
  <2>3. \A c \in Word : c >= p => (c \in BitPack!LowBits(x.buf[i], p, x.data) <=> c \in x.buf[i])
    BY <1>1, PackSizes DEF BitPack!LowBits, BitPack!Low, Word
  <2> QED BY <2>1, <2>2, <2>3 DEF Same
<1>7. ASSUME NEW z \in BitPack!RdLoop, z.ptr = p, z.bits = x.bits
      PROVE  /\ (z.idx = i /\ Same(z.buf, y.buf, y.idx, y.ptr) /\ y.idx < z.limit) =>
                  /\ BitPack!rd[z].idx = y.idx /\ BitPack!rd[z].ptr = y.ptr
                  /\ BitPack!rd[z].limit = z.limit
                  /\ BitPack!rd[z].data = z.data \cup BitPack!Left(x.data, z.ins)
             /\ (z.limit = 0 \/ (z.idx = i /\ i < z.limit /\ z.limit <= y.idx)) =>
                  BitPack!rd[z].limit = 0 /\ BitPack!rd[z].ptr = y.ptr
  <2> DEFINE v == TakeW(z)
             l == BitPack!Low(z.buf[z.idx], p)
  <2>1. /\ z.idx \in Nat /\ z.limit \in Nat /\ z.ins \in Nat /\ z.ins + p \in Nat
        /\ z.buf[z.idx] \in SUBSET Word /\ z.data \in SUBSET Nat
    BY <1>1, ReadVars
  <2>2. v \in BitPack!RdLoop /\ BitPack!rd[z] = BitPack!rd[v]
    BY <1>7, TakeIs, RdIs
  <2>3. /\ v.ptr = WordBits /\ v.bits = x.bits - p /\ v.ins = z.ins + p /\ v.buf = z.buf
        /\ v.data = z.data \cup BitPack!Left(l, z.ins)
        /\ v.idx = IF z.idx + 1 >= z.limit THEN 0 ELSE z.idx + 1
        /\ v.limit = IF z.idx + 1 >= z.limit THEN 0 ELSE z.limit
    BY <1>7 DEF TakeW, BitPack!TakeWord, BitPack!RdLoop
  <2> HIDE DEF v, l
  <2>4. /\ (v.idx = i + 1 /\ Same(v.buf, y.buf, y.idx, y.ptr) /\ y.idx < v.limit) =>
               /\ BitPack!rd[v].idx = y.idx /\ BitPack!rd[v].ptr = y.ptr
               /\ BitPack!rd[v].limit = v.limit
               /\ BitPack!rd[v].data = v.data \cup BitPack!Left(BitPack!Right(x.data, p), v.ins)
        /\ (v.limit = 0 \/ (v.idx = i + 1 /\ i + 1 < v.limit /\ v.limit <= y.idx)) =>
               BitPack!rd[v].limit = 0 /\ BitPack!rd[v].ptr = y.ptr
    BY <1>3, <2>2, <2>3 DEF FieldAt
  <2>5. ASSUME z.idx = i, Same(z.buf, y.buf, y.idx, y.ptr), y.idx < z.limit
        PROVE  /\ BitPack!rd[z].idx = y.idx /\ BitPack!rd[z].ptr = y.ptr
               /\ BitPack!rd[z].limit = z.limit
               /\ BitPack!rd[z].data = z.data \cup BitPack!Left(x.data, z.ins)
    <3>1. v.idx = i + 1 /\ v.limit = z.limit
      BY <1>1, <1>4, <2>1, <2>3, <2>5
    <3>2. z.buf[i] = BitPack!LowBits(x.buf[i], p, x.data)
      BY <1>1, <1>2, <1>4, <1>5, <2>5 DEF Same
    <3>3. l = BitPack!Low(x.data, p)
      <4>1. x.buf[i] \subseteq Nat
        BY LoopVars, PackSizes DEF Word
      <4>2. BitPack!Low(BitPack!LowBits(x.buf[i], p, x.data), p) = BitPack!Low(x.data, p)
        <5>1. \A c \in x.buf[i] : ~(c >= p /\ c < p)
          BY <1>1, <4>1
        <5> HIDE DEF i, p
        <5> QED BY <5>1 DEF BitPack!LowBits, BitPack!Low
      <4> QED BY <2>5, <3>2, <4>2 DEF l
    <3>4. BitPack!rd[v].data = (z.data \cup BitPack!Left(BitPack!Low(x.data, p), z.ins))
                               \cup BitPack!Left(BitPack!Right(x.data, p), z.ins + p)
      BY <2>3, <2>4, <2>5, <3>1, <3>3
    <3>5. BitPack!rd[v].data = z.data \cup BitPack!Left(x.data, z.ins)
      BY <1>1, <2>1, <3>4, SplitRead
    <3> QED BY <2>2, <2>3, <2>4, <2>5, <3>1, <3>5
  <2>6. ASSUME z.limit = 0 \/ (z.idx = i /\ i < z.limit /\ z.limit <= y.idx)
        PROVE  BitPack!rd[z].limit = 0 /\ BitPack!rd[z].ptr = y.ptr
    <3>1. v.limit = 0 \/ (v.idx = i + 1 /\ i + 1 < v.limit /\ v.limit <= y.idx)
      <4> HIDE DEF i
      <4> QED BY <1>1, <1>4, <2>1, <2>3, <2>6
    <3> QED BY <2>2, <2>4, <3>1
  <2> QED BY <2>5, <2>6
<1>8. FieldAt(y.buf, i, p, y.idx, y.ptr, x.bits, x.data)
  BY <1>7 DEF FieldAt
<1>9. Before(i, p, y.idx, y.ptr)
  BY <1>4 DEF Before
<1> QED BY <1>2, <1>3, <1>6, <1>8, <1>9 DEF Packed

\* wr packs a field that has room.
LEMMA WrPacks == ASSUME NEW x \in BitPack!WrLoop, HasRoom(x) PROVE Packed(x, BitPack!wr[x])
<1> DEFINE S == {v \in BitPack!WrLoop : HasRoom(v) => Packed(v, BitPack!wr[v])}
<1>1. \A v \in BitPack!WrLoop : v \in WrEnds => v \in S
  BY LastPacks, WrIs DEF WrEnds
<1>2. ASSUME NEW v \in BitPack!WrLoop, v \notin WrEnds, WrNext[v] \in S, HasRoom(v)
      PROVE  Packed(v, BitPack!wr[v])
  <2>1. v.bits > v.ptr /\ WrNext[v] = Fill(v) /\ BitPack!wr[v] = BitPack!wr[Fill(v)]
    BY <1>2, WrIs DEF WrEnds, WrNext
  <2>2. HasRoom(Fill(v))
    BY <1>2, <2>1, FillPacks
  <2> QED BY <1>2, <2>1, <2>2, StepPacks
<1>3. \A v \in BitPack!WrLoop : v \notin WrEnds /\ WrNext[v] \in S => v \in S
  BY <1>2
<1> HIDE DEF S
<1>4. BitPack!WrLoop \subseteq S
  BY <1>1, <1>3, WrCountsDown, LoopInduct
<1> QED BY <1>4 DEF S

-----------------------------------------------------------------------------
(* What a record holds while it is packed and read                         *)

Fields == [bits : Nat, data : SUBSET Nat]

\* Where the fields of a record begin and end: the k-th ends at at[k].
Placed(buf, fields, at) ==
    /\ at \in [0 .. Len(fields) -> [idx : BitPack!Index, ptr : 0 .. WordBits]]
    /\ at[0] = [idx |-> 0, ptr |-> FirstBits]
    /\ \A k \in 1 .. Len(fields) :
          /\ FieldAt(buf, at[k - 1].idx, at[k - 1].ptr, at[k].idx, at[k].ptr,
                     fields[k].bits, fields[k].data)
          /\ Before(at[k].idx, at[k].ptr, at[Len(fields)].idx, at[Len(fields)].ptr)

\* A record is being packed: the next field goes behind the last.
PackedSoFar(at) ==
    /\ at[Len(written)] = [idx |-> bufferIndex, ptr |-> bufferPointer]
    /\ UnderType(buffer, bufferIndex, bufferPointer)
    /\ got = <<>>

\* A record is being read: the fields so far are those that were packed, unless
\* a word was lost; then there are too few for the last field.
ReadSoFar(at) ==
    /\ bufferPointer = at[Len(got)].ptr
    /\ bufferLimit # 0 => bufferIndex = at[Len(got)].idx /\ bufferIndex < bufferLimit
    /\ IF whole THEN /\ bufferLimit = at[Len(written)].idx + 1
                     /\ \A k \in 1 .. Len(got) : got[k] = written[k]
                ELSE bufferLimit <= at[Len(written)].idx

PackType ==
    /\ BitPack!TypeOK
    /\ written \in Seq(Fields) /\ got \in Seq(Fields)

PackInv ==
    /\ PackType
    /\ \E at : /\ Placed(buffer, written, at)
               /\ IF BitPack!Packing THEN PackedSoFar(at) ELSE ReadSoFar(at)

LEMMA PackVars ==
    ASSUME BitPack!TypeOK
    PROVE  /\ buffer \in BitPack!Buffers /\ buffer \in [BitPack!Index -> SUBSET Word]
           /\ bufferIndex \in BitPack!Index /\ bufferPointer \in 0 .. WordBits
           /\ bufferIndex \in Nat /\ bufferPointer \in Nat
           /\ bufferLimit \in -1 .. BufWords
           /\ Len(written) <= MaxFields /\ Len(got) <= Len(written) /\ whole \in BOOLEAN
           /\ buffer[0] \subseteq 0 .. FirstBits - 1
BY PackSizes DEF BitPack!TypeOK, BitPack!Buffers, BitPack!Index, Word

LEMMA SameToo ==
    ASSUME NEW B, NEW C, NEW E, NEW i \in BitPack!Index, NEW p \in Nat,
           NEW j \in BitPack!Index, NEW q \in Nat,
           Same(B, C, j, q), Same(C, E, i, p), Before(i, p, j, q)
    PROVE  Same(B, E, i, p)
<1>1. i \in Nat /\ j \in Nat /\ BitPack!Index \subseteq Nat /\ Word \subseteq Nat
  BY PackSizes DEF BitPack!Index, Word
<1>2. \A k \in BitPack!Index : k < i => B[k] = C[k]
  BY <1>1 DEF Same, Before
<1>3. \A c \in Word : c >= p => (c \in B[i] <=> c \in C[i])
  <2>1. CASE i < j
    BY <2>1 DEF Same
  <2>2. CASE i = j /\ p >= q
    BY <1>1, <2>2 DEF Same
  <2> QED BY <2>1, <2>2 DEF Before
<1> QED BY <1>2, <1>3 DEF Same

LEMMA BeforeToo ==
    ASSUME NEW i \in Nat, NEW p \in Nat, NEW j \in Nat, NEW q \in Nat, NEW k \in Nat, NEW r \in Nat,
           Before(i, p, j, q), Before(j, q, k, r)
    PROVE  Before(i, p, k, r)
BY DEF Before

\* What is packed later leaves a field as it is.
LEMMA FieldStays ==
    ASSUME NEW B, NEW C, NEW i, NEW p, NEW j \in BitPack!Index, NEW q \in Nat, NEW n, NEW d,
           NEW k \in BitPack!Index, NEW r \in Nat,
           FieldAt(C, i, p, j, q, n, d), Same(B, C, k, r), Before(j, q, k, r)
    PROVE  FieldAt(B, i, p, j, q, n, d)
<1>1. Same(C, C, j, q)
  BY DEF Same
<1>2. Same(B, C, j, q)
  BY <1>1, SameToo
<1>3. \A D : Same(D, B, j, q) => Same(D, C, j, q)
  BY <1>2 DEF Same
<1> QED BY <1>3 DEF FieldAt

LEMMA PackInit == BitPack!Init => PackInv
<1> SUFFICES ASSUME BitPack!Init PROVE PackInv
  OBVIOUS
<1> USE DEF BitPack!Init
<1> DEFINE at == [k \in 0 .. 0 |-> [idx |-> 0, ptr |-> FirstBits]]
<1>1. 0 \in BitPack!Index /\ FirstBits \in 0 .. WordBits /\ FirstBits \in Nat
  BY PackSizes DEF BitPack!Index
<1>2. PackType
  <2>1. buffer \in BitPack!Buffers /\ buffer[0] = {}
    BY <1>1 DEF BitPack!Buffers
  <2> QED BY <1>1, <2>1, PackSizes DEF PackType, BitPack!TypeOK
<1>3. Placed(buffer, written, at)
  BY <1>1 DEF Placed
<1>4. PackedSoFar(at)
  BY <1>1 DEF PackedSoFar, UnderType
<1> HIDE DEF at
<1> QED BY <1>2, <1>3, <1>4 DEF PackInv, BitPack!Packing

LEMMA WrSound == PackInv /\ BitPack!Wr => PackInv'
<1> SUFFICES ASSUME PackInv, BitPack!Wr PROVE PackInv'
  OBVIOUS
<1>1. /\ BitPack!TypeOK /\ written \in Seq(Fields) /\ got \in Seq(Fields)
      /\ BitPack!Packing /\ Len(written) < MaxFields
      /\ UNCHANGED <<bufferLimit, got, whole>>
  BY DEF PackInv, PackType, BitPack!Wr
<1>2. PICK at : Placed(buffer, written, at) /\ PackedSoFar(at)
  BY <1>1 DEF PackInv
<1>w. PICK n \in Widths : \E d \in SUBSET (0 .. n - 1) :
          LET r == BitPack!wr[[buf |-> buffer, idx |-> bufferIndex, ptr |-> bufferPointer,
                               bits |-> n, data |-> d]]
          IN  /\ BitPack!Fits(n)
              /\ buffer' = r.buf
              /\ bufferIndex' = r.idx /\ bufferPointer' = r.ptr
              /\ written' = Append(written, [bits |-> n, data |-> d])
  BY DEF BitPack!Wr
<1>3. PICK d \in SUBSET (0 .. n - 1) :
          LET r == BitPack!wr[[buf |-> buffer, idx |-> bufferIndex, ptr |-> bufferPointer,
                               bits |-> n, data |-> d]]
          IN  /\ BitPack!Fits(n)
              /\ buffer' = r.buf
              /\ bufferIndex' = r.idx /\ bufferPointer' = r.ptr
              /\ written' = Append(written, [bits |-> n, data |-> d])
  BY <1>w
<1> DEFINE x == [buf |-> buffer, idx |-> bufferIndex, ptr |-> bufferPointer, bits |-> n, data |-> d]
           y == BitPack!wr[x]
           N == Len(written)
           f == [bits |-> n, data |-> d]
           end == [idx |-> bufferIndex', ptr |-> bufferPointer']
           new == [k \in 0 .. N + 1 |-> IF k = N + 1 THEN end ELSE at[k]]
<1>4. n \in Nat /\ d \in SUBSET Nat /\ f \in Fields
  <2>1. n \in Nat
    BY PackSizes
  <2>2. \A b \in 0 .. n - 1 : b \in Nat
    OBVIOUS
  <2> QED BY <2>1, <2>2 DEF Fields
<1>5. x \in BitPack!WrLoop
  BY <1>1, <1>4, PackVars DEF BitPack!WrLoop
<1>6. HasRoom(x)
  BY <1>3 DEF HasRoom, BitPack!Fits
<1>7. Packed(x, y)
  BY <1>5, <1>6, WrPacks
<1>8. buffer' = y.buf /\ bufferIndex' = y.idx /\ bufferPointer' = y.ptr /\ written' = Append(written, f)
  BY <1>3
<1>9. /\ y \in BitPack!WrLoop
      /\ Before(bufferIndex, bufferPointer, bufferIndex', bufferPointer')
      /\ Same(buffer', buffer, bufferIndex, bufferPointer)
      /\ UnderType(buffer, bufferIndex, bufferPointer) => UnderType(buffer', bufferIndex', bufferPointer')
      /\ FieldAt(buffer', bufferIndex, bufferPointer, bufferIndex', bufferPointer', n, d)
  <2> HIDE DEF y
  <2> QED BY <1>7, <1>8 DEF Packed
<1> HIDE DEF x, y
<1>10. /\ buffer' \in BitPack!Buffers /\ bufferIndex' \in BitPack!Index /\ bufferPointer' \in 0 .. WordBits
       /\ bufferIndex' \in Nat /\ bufferPointer' \in Nat
  <2>1. y.idx \in BitPack!Index /\ y.idx \in Nat /\ y.ptr \in 0 .. WordBits /\ y.ptr \in Nat
        /\ y.buf \in BitPack!Buffers
    BY <1>9, LoopVars DEF BitPack!WrLoop
  <2> QED BY <1>8, <2>1
<1>11. /\ N \in Nat /\ Len(written') = N + 1 /\ written'[N + 1] = f
       /\ \A k \in 1 .. N : written'[k] = written[k]
       /\ written' \in Seq(Fields)
  BY <1>1, <1>4, <1>8
<1>12. UnderType(buffer', bufferIndex', bufferPointer')
  BY <1>2, <1>9 DEF PackedSoFar
<1>13. PackType'
  <2>1. got' \in Seq(Fields) /\ written' \in Seq(Fields)
    BY <1>1, <1>11
  <2>2. Len(got') <= Len(written') /\ Len(written') <= MaxFields
    BY <1>1, <1>11, PackVars, PackSizes
  <2>3. buffer'[0] \subseteq 0 .. FirstBits - 1
    BY <1>12 DEF UnderType
  <2>4. bufferLimit' \in -1 .. BufWords /\ whole' \in BOOLEAN
    BY <1>1, PackVars
  <2> QED BY <1>10, <2>1, <2>2, <2>3, <2>4 DEF PackType, BitPack!TypeOK
<1>14. /\ at \in [0 .. N -> [idx : BitPack!Index, ptr : 0 .. WordBits]]
       /\ at[N].idx = bufferIndex /\ at[N].ptr = bufferPointer
       /\ \A k \in 0 .. N : at[k].idx \in BitPack!Index /\ at[k].idx \in Nat /\ at[k].ptr \in Nat
  <2>1. /\ at \in [0 .. N -> [idx : BitPack!Index, ptr : 0 .. WordBits]]
        /\ at[N].idx = bufferIndex /\ at[N].ptr = bufferPointer
    BY <1>2 DEF Placed, PackedSoFar
  <2>2. \A k \in 0 .. N : at[k].idx \in BitPack!Index /\ at[k].ptr \in 0 .. WordBits
    BY <2>1
  <2> QED BY <2>1, <2>2, PackSizes DEF BitPack!Index
<1>15. /\ new[N + 1] = end /\ end.idx = bufferIndex' /\ end.ptr = bufferPointer'
       /\ \A k \in 0 .. N : new[k] = at[k]
       /\ new \in [0 .. N + 1 -> [idx : BitPack!Index, ptr : 0 .. WordBits]]
  BY <1>10, <1>11, <1>14
<1> HIDE DEF new, end
<1>16. ASSUME NEW k \in 1 .. N + 1
       PROVE  /\ FieldAt(buffer', new[k - 1].idx, new[k - 1].ptr, new[k].idx, new[k].ptr,
                         written'[k].bits, written'[k].data)
              /\ Before(new[k].idx, new[k].ptr, new[N + 1].idx, new[N + 1].ptr)
  <2>1. CASE k = N + 1
    <3>1. new[k - 1] = at[N] /\ written'[k].bits = n /\ written'[k].data = d
      BY <1>11, <1>15, <2>1
    <3>2. Before(end.idx, end.ptr, end.idx, end.ptr)
      BY <1>10, <1>15 DEF Before
    <3> QED BY <1>9, <1>14, <1>15, <2>1, <3>1, <3>2
  <2>2. CASE k \in 1 .. N
    <3>1. k \in 0 .. N /\ k - 1 \in 0 .. N
      BY <1>11, <2>2
    <3>2. /\ FieldAt(buffer, at[k - 1].idx, at[k - 1].ptr, at[k].idx, at[k].ptr,
                     written[k].bits, written[k].data)
          /\ Before(at[k].idx, at[k].ptr, bufferIndex, bufferPointer)
      BY <1>2, <1>14, <2>2 DEF Placed
    <3>3. FieldAt(buffer', at[k - 1].idx, at[k - 1].ptr, at[k].idx, at[k].ptr,
                  written[k].bits, written[k].data)
      BY <1>1, <1>9, <1>14, <3>1, <3>2, PackVars, FieldStays
    <3>4. Before(at[k].idx, at[k].ptr, bufferIndex', bufferPointer')
      <4>1. /\ at[k].idx \in Nat /\ at[k].ptr \in Nat
            /\ bufferIndex \in Nat /\ bufferPointer \in Nat
            /\ bufferIndex' \in Nat /\ bufferPointer' \in Nat
        BY <1>1, <1>10, <1>14, <3>1, PackVars
      <4> QED BY <1>9, <3>2, <4>1, BeforeToo
    <3> QED BY <1>11, <1>15, <2>2, <3>1, <3>3, <3>4
  <2> QED BY <1>11, <2>1, <2>2
<1>17. Placed(buffer', written', new)
  <2>1. new[0] = [idx |-> 0, ptr |-> FirstBits]
    BY <1>2, <1>11, <1>15 DEF Placed
  <2> QED BY <1>11, <1>15, <1>16, <2>1 DEF Placed
<1>18. /\ new[Len(written')] = [idx |-> bufferIndex', ptr |-> bufferPointer']
       /\ got' = <<>> /\ bufferLimit' = -1
  BY <1>1, <1>2, <1>11, <1>15 DEF PackedSoFar, BitPack!Packing, end
<1> QED BY <1>12, <1>13, <1>17, <1>18 DEF PackInv, PackedSoFar, BitPack!Packing

LEMMA ImportSound == PackInv /\ BitPack!ImportRecord => PackInv'
<1> SUFFICES ASSUME PackInv, BitPack!ImportRecord PROVE PackInv'
  OBVIOUS
<1>1. /\ BitPack!TypeOK /\ written \in Seq(Fields) /\ got \in Seq(Fields)
      /\ BitPack!Packing /\ written # <<>>
      /\ bufferIndex' = 0 /\ bufferPointer' = FirstBits /\ UNCHANGED <<buffer, written, got>>
  BY DEF PackInv, PackType, BitPack!ImportRecord
<1>2. PICK words \in 1 .. bufferIndex + 1 :
          bufferLimit' = words /\ whole' = (words = bufferIndex + 1)
  BY DEF BitPack!ImportRecord
<1>3. PICK at : Placed(buffer, written, at) /\ PackedSoFar(at)
  BY <1>1 DEF PackInv
<1>4. /\ bufferIndex \in 0 .. BufWords - 1 /\ bufferIndex \in Nat /\ BufWords \in Nat
      /\ words \in Nat /\ words # 0 /\ words <= bufferIndex + 1
      /\ 0 \in BitPack!Index /\ FirstBits \in 0 .. WordBits
  BY <1>1, PackVars, PackSizes DEF BitPack!Index
<1>5. PackType'
  <2>1. bufferLimit' \in -1 .. BufWords /\ whole' \in BOOLEAN
    BY <1>2, <1>4
  <2>2. bufferIndex' \in BitPack!Index /\ bufferPointer' \in 0 .. WordBits
    BY <1>1, <1>4
  <2> QED BY <1>1, <2>1, <2>2 DEF PackType, BitPack!TypeOK
<1>6. /\ got = <<>> /\ Len(got) = 0 /\ at[0] = [idx |-> 0, ptr |-> FirstBits]
      /\ at[Len(written)].idx = bufferIndex
  BY <1>3 DEF PackedSoFar, Placed
<1>7. Placed(buffer', written', at)
  BY <1>1, <1>3
<1>8. /\ at[Len(got)].ptr = FirstBits /\ at[Len(got)].idx = 0
      /\ bufferLimit' # 0 /\ bufferLimit' # -1 /\ 0 < bufferLimit'
      /\ whole' => bufferLimit' = bufferIndex + 1
      /\ ~whole' => bufferLimit' <= bufferIndex
  <2>1. /\ bufferLimit' # 0 /\ bufferLimit' # -1 /\ 0 < bufferLimit'
        /\ words = bufferIndex + 1 => bufferLimit' = bufferIndex + 1
        /\ words # bufferIndex + 1 => bufferLimit' <= bufferIndex
    BY <1>2, <1>4
  <2>2. whole' <=> words = bufferIndex + 1
    BY <1>2
  <2>3. at[Len(got)].ptr = FirstBits /\ at[Len(got)].idx = 0
    BY <1>6
  <2> QED BY <2>1, <2>2, <2>3
<1>9. ReadSoFar(at)'
  BY <1>1, <1>6, <1>8 DEF ReadSoFar
<1> QED BY <1>5, <1>7, <1>8, <1>9 DEF PackInv, BitPack!Packing

LEMMA RdSound == PackInv /\ BitPack!Rd => PackInv'
<1> SUFFICES ASSUME PackInv, BitPack!Rd PROVE PackInv'
  OBVIOUS
<1> DEFINE K == Len(got)
           n == written[K + 1].bits
           d == written[K + 1].data
           z == [buf |-> buffer, idx |-> bufferIndex, ptr |-> bufferPointer,
                 limit |-> bufferLimit, bits |-> n, ins |-> 0, data |-> {}]
           r == BitPack!rd[z]
           f == [bits |-> n, data |-> r.data]
<1>1. /\ BitPack!TypeOK /\ written \in Seq(Fields) /\ got \in Seq(Fields)
      /\ bufferLimit # -1 /\ Len(got) < Len(written)
      /\ UNCHANGED <<buffer, written, whole>>
      /\ bufferIndex' = r.idx /\ bufferPointer' = r.ptr /\ bufferLimit' = r.limit
      /\ got' = Append(got, f)
  BY DEF PackInv, PackType, BitPack!Rd, BitPack!Packing
<1>2. PICK at : Placed(buffer, written, at) /\ ReadSoFar(at)
  BY <1>1 DEF PackInv, BitPack!Packing
<1>3. K \in Nat /\ Len(written) \in Nat /\ K + 1 \in 1 .. Len(written)
      /\ K \in 0 .. Len(written) /\ K + 1 \in 0 .. Len(written)
  BY <1>1
<1>4. n \in Nat /\ d \in SUBSET Nat /\ written[K + 1] = [bits |-> n, data |-> d]
  <2>1. written[K + 1] \in Fields
    BY <1>1, <1>3
  <2> QED BY <2>1 DEF Fields
<1>5. z \in BitPack!RdLoop
  <2>1. bufferLimit \in 0 .. BufWords
    BY <1>1, PackVars, PackSizes
  <2> HIDE DEF n
  <2> QED BY <1>1, <1>4, <2>1, PackVars DEF BitPack!RdLoop
<1>6. /\ r \in BitPack!RdLoop /\ r.idx \in BitPack!Index /\ r.ptr \in 0 .. WordBits
      /\ r.limit \in 0 .. BufWords /\ r.data \in SUBSET Nat
  <2>1. r \in BitPack!RdLoop
    BY <1>5, RdTyped
  <2> HIDE DEF r
  <2> QED BY <2>1 DEF BitPack!RdLoop
<1>7. /\ z.idx = bufferIndex /\ z.ptr = bufferPointer /\ z.limit = bufferLimit /\ z.bits = n
      /\ z.ins = 0 /\ z.data = {} /\ z.buf = buffer
  OBVIOUS
<1> HIDE DEF z, n, d, r
<1>8. /\ Len(got') = K + 1 /\ got'[K + 1] = f /\ \A k \in 1 .. K : got'[k] = got[k]
      /\ got' \in Seq(Fields)
  BY <1>1, <1>4, <1>6 DEF Fields
<1>9. PackType'
  <2>1. Len(got') <= Len(written') /\ Len(written') <= MaxFields /\ whole' \in BOOLEAN
    BY <1>1, <1>3, <1>8, PackVars
  <2>2. bufferLimit' \in -1 .. BufWords
    BY <1>1, <1>6, PackSizes
  <2>3. bufferIndex' \in BitPack!Index /\ bufferPointer' \in 0 .. WordBits
    BY <1>1, <1>6
  <2> QED BY <1>1, <1>8, <2>1, <2>2, <2>3, PackVars DEF PackType, BitPack!TypeOK
<1> DEFINE i == at[K].idx
           j == at[K + 1].idx
           q == at[K + 1].ptr
           e == at[Len(written)].idx
<1>10. /\ i \in Nat /\ j \in Nat /\ e \in Nat /\ j <= e /\ bufferPointer = at[K].ptr
       /\ FieldAt(buffer, i, bufferPointer, j, q, n, d)
  <2>1. /\ at \in [0 .. Len(written) -> [idx : BitPack!Index, ptr : 0 .. WordBits]]
        /\ FieldAt(buffer, at[K].idx, at[K].ptr, j, q, n, d)
        /\ Before(j, q, e, at[Len(written)].ptr)
    BY <1>2, <1>3 DEF Placed, n, d
  <2>2. at[K] \in [idx : BitPack!Index, ptr : 0 .. WordBits]
        /\ at[K + 1] \in [idx : BitPack!Index, ptr : 0 .. WordBits]
        /\ at[Len(written)] \in [idx : BitPack!Index, ptr : 0 .. WordBits]
    BY <1>3, <2>1
  <2>3. i \in BitPack!Index /\ j \in BitPack!Index /\ e \in BitPack!Index
    BY <2>2
  <2>4. i \in Nat /\ j \in Nat /\ e \in Nat
    BY <2>3, PackSizes DEF BitPack!Index
  <2>5. bufferPointer = at[K].ptr
    BY <1>2 DEF ReadSoFar
  <2> HIDE DEF i, j, e
  <2>6. j <= e
    BY <2>1, <2>4 DEF Before
  <2> QED BY <2>1, <2>4, <2>5, <2>6 DEF i
<1> HIDE DEF i, j, q, e
<1>11. /\ (bufferIndex = i /\ j < bufferLimit) =>
              r.idx = j /\ r.ptr = q /\ r.limit = bufferLimit
              /\ r.data = {} \cup BitPack!Left(d, 0)
       /\ (bufferLimit = 0 \/ (bufferIndex = i /\ i < bufferLimit /\ bufferLimit <= j)) =>
              r.limit = 0 /\ r.ptr = q
  <2>1. Same(z.buf, buffer, j, q)
    BY <1>7 DEF Same
  <2> QED BY <1>5, <1>7, <1>10, <2>1 DEF FieldAt, r
<1>12. BitPack!Left(d, 0) = d
  BY <1>4 DEF BitPack!Left
<1>13. /\ bufferLimit # 0 => bufferIndex = i /\ i < bufferLimit
       /\ IF whole THEN bufferLimit = e + 1 /\ \A k \in 1 .. K : got[k] = written[k]
                   ELSE bufferLimit <= e
  BY <1>2 DEF ReadSoFar, i, e
<1>14. bufferLimit \in Nat
  BY <1>1, PackVars, PackSizes
<1>15. /\ r.ptr = q /\ (r.limit # 0 => r.idx = j /\ j < r.limit)
       /\ IF whole THEN r.limit = e + 1 /\ r.data = d ELSE r.limit <= e
  <2>1. CASE whole
    BY <1>10, <1>11, <1>12, <1>13, <1>14, <2>1
  <2>2. CASE ~whole
    BY <1>10, <1>11, <1>13, <1>14, <2>2
  <2> QED BY <2>1, <2>2
<1>16. ReadSoFar(at)'
  <2>1. at[Len(got')].ptr = q /\ at[Len(got')].idx = j /\ at[Len(written')].idx = e
    BY <1>1, <1>8 DEF q, j, e
  <2>2. whole => \A k \in 1 .. Len(got') : got'[k] = written'[k]
    <3> SUFFICES ASSUME whole, NEW k \in 1 .. K + 1 PROVE got'[k] = written[k]
      BY <1>1, <1>8
    <3>1. CASE k = K + 1
      BY <1>4, <1>8, <1>15, <3>1
    <3>2. CASE k # K + 1
      <4>1. k \in 1 .. K
        BY <1>3, <3>2
      <4> QED BY <1>8, <1>13, <4>1
    <3> QED BY <3>1, <3>2
  <2> QED BY <1>1, <1>15, <2>1, <2>2 DEF ReadSoFar
<1>17. Placed(buffer', written', at) /\ bufferLimit' # -1
  BY <1>1, <1>2, <1>6, PackSizes
<1> QED BY <1>9, <1>16, <1>17 DEF PackInv, BitPack!Packing

LEMMA PackNext == PackInv /\ [BitPack!Next]_(BitPack!vars) => PackInv'
<1> SUFFICES ASSUME PackInv, [BitPack!Next]_(BitPack!vars) PROVE PackInv'
  OBVIOUS
<1>1. CASE UNCHANGED BitPack!vars
  BY <1>1 DEF BitPack!vars, PackInv, PackType, BitPack!TypeOK, PackedSoFar, ReadSoFar, BitPack!Packing
<1> QED BY <1>1, WrSound, ImportSound, RdSound DEF BitPack!Next

LEMMA PackReads == PackInv => ReadsWhatWasWritten
<1> SUFFICES ASSUME PackInv, ~BitPack!Packing, Len(got) = Len(written)
             PROVE  IF whole THEN bufferLimit # 0 /\ got = written ELSE bufferLimit = 0
  BY DEF ReadsWhatWasWritten, BitPack!ReadsWhatWasWritten
<1>1. PICK at : Placed(buffer, written, at) /\ ReadSoFar(at)
  BY DEF PackInv
<1>2. BitPack!TypeOK /\ written \in Seq(Fields) /\ got \in Seq(Fields)
  BY DEF PackInv, PackType
<1>3. at[Len(written)].idx \in Nat
  <2>1. at[Len(written)] \in [idx : BitPack!Index, ptr : 0 .. WordBits]
    BY <1>1, <1>2 DEF Placed
  <2> QED BY <2>1, PackSizes DEF BitPack!Index
<1>4. bufferLimit \in Nat
  BY <1>2, PackVars, PackSizes DEF BitPack!Packing
<1>5. CASE whole
  <2>1. bufferLimit # 0 /\ \A k \in 1 .. Len(got) : got[k] = written[k]
    BY <1>1, <1>3, <1>5 DEF ReadSoFar
  <2>2. got = written
    BY <1>2, <2>1
  <2> QED BY <1>5, <2>1, <2>2
<1>6. CASE ~whole
  BY <1>1, <1>3, <1>4, <1>6 DEF ReadSoFar
<1> QED BY <1>5, <1>6

-----------------------------------------------------------------------------
(* The words of a line                                                     *)

LineChars == Letters \cup {"blank"}

LEMMA LineSizes ==
    /\ LineSize \in Nat \ {0} /\ ArgSize \in Nat \ {0}
    /\ Letters \cap {"blank", "cr", "lf", "bs", "ctrl"} = {}
BY PartsAssumption DEF CommandLine!CommandAssumption

LEMMA SkipIs ==
    ASSUME NEW l \in Seq(LineChars), NEW cp \in 1 .. Len(l) + 1
    PROVE  /\ CommandLine!Skip(l, cp) \in cp .. Len(l) + 1
           /\ \A j \in cp .. CommandLine!Skip(l, cp) - 1 : l[j] = "blank"
           /\ CommandLine!Skip(l, cp) <= Len(l) => l[CommandLine!Skip(l, cp)] # "blank"
<1> DEFINE S == {i \in cp .. Len(l) + 1 : i = Len(l) + 1 \/ l[i] # "blank"}
<1>1. Len(l) \in Nat
  OBVIOUS
<1>2. PICK i \in S : \A k \in S : i <= k
  <2>1. S \in SUBSET Nat /\ Len(l) + 1 \in S
    BY <1>1
  <2> HIDE DEF S
  <2> QED BY <2>1, LeastOf
<1>3. \A j \in cp .. i - 1 : l[j] = "blank"
  <2> SUFFICES ASSUME NEW j \in cp .. i - 1 PROVE l[j] = "blank"
    OBVIOUS
  <2>1. j \in cp .. Len(l) + 1 /\ j < i
    BY <1>1
  <2>2. j \notin S
    BY <1>2, <2>1
  <2> QED BY <2>1, <2>2
<1>4. i \in cp .. Len(l) + 1 /\ (i <= Len(l) => l[i] # "blank")
  BY <1>1, <1>2
<1> HIDE DEF S
<1> QED BY <1>3, <1>4 DEF CommandLine!Skip

LEMMA WordEndIs ==
    ASSUME NEW l \in Seq(LineChars), NEW i \in 1 .. Len(l), l[i] # "blank"
    PROVE  /\ CommandLine!WordEnd(l, i) \in i .. Len(l)
           /\ \A j \in i .. CommandLine!WordEnd(l, i) : l[j] # "blank"
           /\ CommandLine!WordEnd(l, i) < Len(l) => l[CommandLine!WordEnd(l, i) + 1] = "blank"
<1> DEFINE S == {e \in i .. Len(l) : e = Len(l) \/ l[e + 1] = "blank"}
<1>1. Len(l) \in Nat
  OBVIOUS
<1>2. PICK e \in S : \A k \in S : e <= k
  <2>1. S \in SUBSET Nat /\ Len(l) \in S
    BY <1>1
  <2> HIDE DEF S
  <2> QED BY <2>1, LeastOf
<1>3. \A j \in i .. e : l[j] # "blank"
  <2> SUFFICES ASSUME NEW j \in i .. e, j # i PROVE l[j] # "blank"
    OBVIOUS
  <2>1. j - 1 \in i .. Len(l) /\ j - 1 < e /\ (j - 1) + 1 = j
    BY <1>1
  <2>2. j - 1 \notin S
    <3>1. e \in Nat
      BY <1>1, <1>2
    <3>2. \A k \in S : ~(k < e)
      BY <1>1, <1>2, <3>1
    <3> HIDE DEF S
    <3> QED BY <2>1, <3>2
  <2> QED BY <2>1, <2>2
<1>4. e \in i .. Len(l) /\ (e < Len(l) => l[e + 1] = "blank")
  BY <1>1, <1>2
<1> HIDE DEF S
<1> QED BY <1>3, <1>4 DEF CommandLine!WordEnd

\* The next word is a run of the line, and the next place is past it.
LEMMA CutIs ==
    ASSUME NEW x \in CommandLine!CutLoop, CommandLine!MoreWords(x)
    PROVE  LET l == x.line
               i == CommandLine!Skip(l, x.cp)
               e == CommandLine!WordEnd(l, i)
               y == CommandLine!CutWord(x)
           IN  /\ i \in x.cp .. Len(l) /\ e \in i .. Len(l) /\ i \in Nat /\ e \in Nat
               /\ \A j \in x.cp .. i - 1 : l[j] = "blank"
               /\ \A j \in i .. e : l[j] # "blank"
               /\ e < Len(l) => l[e + 1] = "blank"
               /\ y.line = l /\ y.args = Append(x.args, SubSeq(l, i, e))
               /\ y.cp = (IF e < Len(l) THEN e + 2 ELSE e + 1)
               /\ y \in CommandLine!CutLoop
<1> DEFINE l == x.line
           cp == x.cp
           i == CommandLine!Skip(l, cp)
           e == CommandLine!WordEnd(l, i)
           y == CommandLine!CutWord(x)
           next == IF e < Len(l) THEN e + 2 ELSE e + 1
           w == SubSeq(l, i, e)
<1>1. /\ l \in Seq(LineChars) /\ cp \in Nat \ {0} /\ x.args \in Seq(Seq(Letters))
      /\ cp \in 1 .. Len(l) + 1 /\ Len(l) \in Nat
      /\ x \in [line : Seq(LineChars), cp : Nat \ {0}, args : Seq(Seq(Letters))]
  BY DEF CommandLine!CutLoop, LineChars
<1>2. i <= Len(l)
  BY DEF CommandLine!MoreWords
<1>3. i \in cp .. Len(l) /\ i \in 1 .. Len(l) /\ l[i] # "blank" /\ \A j \in cp .. i - 1 : l[j] = "blank"
  <2> HIDE DEF l, cp
  <2>1. /\ i \in cp .. Len(l) + 1
        /\ \A j \in cp .. i - 1 : l[j] = "blank"
        /\ i <= Len(l) => l[i] # "blank"
    BY <1>1, SkipIs
  <2> HIDE DEF i
  <2> QED BY <1>1, <1>2, <2>1
<1>4. /\ e \in i .. Len(l) /\ \A j \in i .. e : l[j] # "blank"
      /\ e < Len(l) => l[e + 1] = "blank"
  <2> HIDE DEF l, i
  <2> QED BY <1>1, <1>3, WordEndIs
<1>5. y = [x EXCEPT !.cp = next, !.args = Append(x.args, w)]
  BY DEF CommandLine!CutWord, CommandLine!NextBegin
<1> HIDE DEF l, cp, i, e, y
<1>6. w \in Seq(Letters)
  <2>1. \A j \in i .. e : l[j] \in Letters
    <3>1. \A j \in 1 .. Len(l) : l[j] \in LineChars
      BY <1>1
    <3>2. \A j \in i .. e : j \in 1 .. Len(l)
      BY <1>1, <1>3, <1>4
    <3> QED BY <1>4, <3>1, <3>2 DEF LineChars
  <2> QED BY <1>1, <1>3, <1>4, <2>1
<1>7. next \in Nat \ {0} /\ next <= Len(l) + 1
  BY <1>1, <1>3, <1>4
<1>8. Append(x.args, w) \in Seq(Seq(Letters))
  <2> HIDE DEF w
  <2> QED BY <1>1, <1>6
<1>9. /\ y.line = l /\ y.args = Append(x.args, w) /\ y.cp = next
      /\ y \in [line : Seq(LineChars), cp : Nat \ {0}, args : Seq(Seq(Letters))]
  <2> HIDE DEF next, w
  <2> QED BY <1>1, <1>5, <1>7, <1>8 DEF l
<1>10. y \in CommandLine!CutLoop
  <2> HIDE DEF next
  <2> QED BY <1>7, <1>9 DEF CommandLine!CutLoop, LineChars
<1>11. i \in Nat /\ e \in Nat
  BY <1>3, <1>4
<1> QED BY <1>3, <1>4, <1>9, <1>10, <1>11 DEF l, cp, i, e, y

CutEnds == {x \in CommandLine!CutLoop : ~CommandLine!MoreWords(x)}
CutLast == [x \in CommandLine!CutLoop |-> x.args]
CutNext == [x \in CommandLine!CutLoop |-> IF x \in CutEnds THEN x ELSE CommandLine!CutWord(x)]
CutLeft == [x \in CommandLine!CutLoop |->
               IF Len(x.args) < ArgSize - 1 THEN ArgSize - 1 - Len(x.args) ELSE 0]

LEMMA CutCountsDown ==
    CountsDown(CommandLine!CutLoop, CutEnds, Seq(Seq(Letters)), CutLast, CutNext, CutLeft)
<1>1. \A x \in CommandLine!CutLoop : x.args \in Seq(Seq(Letters)) /\ Len(x.args) \in Nat
  BY DEF CommandLine!CutLoop
<1>2. CutLast \in [CommandLine!CutLoop -> Seq(Seq(Letters))]
  BY <1>1 DEF CutLast
<1>3. CutNext \in [CommandLine!CutLoop -> CommandLine!CutLoop]
  BY CutIs DEF CutNext, CutEnds
<1>4. CutLeft \in [CommandLine!CutLoop -> Nat]
  BY <1>1, LineSizes DEF CutLeft
<1>5. ASSUME NEW x \in CommandLine!CutLoop, x \notin CutEnds PROVE CutLeft[CutNext[x]] < CutLeft[x]
  <2> DEFINE y == CommandLine!CutWord(x)
  <2>1. CommandLine!MoreWords(x) /\ CutNext[x] = y
    BY <1>5 DEF CutEnds, CutNext
  <2>2. PICK w : y.args = Append(x.args, w)
    BY <2>1, CutIs
  <2>3. y \in CommandLine!CutLoop
    BY <2>1, CutIs
  <2>4. Len(y.args) = Len(x.args) + 1 /\ Len(x.args) < ArgSize - 1
    BY <1>1, <2>1, <2>2 DEF CommandLine!MoreWords
  <2> HIDE DEF y
  <2> QED BY <1>1, <2>1, <2>3, <2>4, LineSizes DEF CutLeft
<1> QED BY <1>2, <1>3, <1>4, <1>5 DEF CountsDown

\* args is what its loop computes.
LEMMA ArgsIs == CommandLine!args = Round(CommandLine!args, CommandLine!CutLoop, CutEnds, CutLast, CutNext)
<1> DEFINE G(f) == [x \in CommandLine!CutLoop |->
                       IF CommandLine!MoreWords(x) THEN f[CommandLine!CutWord(x)] ELSE x.args]
<1>1. \A f : Round(f, CommandLine!CutLoop, CutEnds, CutLast, CutNext) = G(f)
  BY DEF Round, CutEnds, CutLast, CutNext
<1>2. PICK f : f = Round(f, CommandLine!CutLoop, CutEnds, CutLast, CutNext)
  BY CutCountsDown, LoopExists
<1>3. f = G(f)
  BY <1>1, <1>2
<1>4. CommandLine!args = CHOOSE g : g = G(g)
  BY DEF CommandLine!args
<1>5. CommandLine!args = G(CommandLine!args)
  BY <1>3, <1>4
<1> QED BY <1>1, <1>5

\* The words so far are the runs of the line before cp, and cp is not within a
\* word.
CutSoFar(l, x) ==
    /\ x.line = l /\ Len(x.args) < ArgSize
    /\ x.cp \in 1 .. Len(l) + 1
    /\ x.cp > 1 /\ x.cp <= Len(l) => l[x.cp - 1] = "blank"
    /\ \E runs \in [1 .. Len(x.args) -> CommandLine!Runs(l)] :
          /\ \A i, j \in 1 .. Len(x.args) : i < j => runs[i][2] < runs[j][1]
          /\ \A i \in 1 .. Len(x.args) : /\ x.args[i] = SubSeq(l, runs[i][1], runs[i][2])
                                         /\ runs[i][2] < x.cp
          /\ \A r \in CommandLine!Runs(l) : r[1] < x.cp => \E i \in 1 .. Len(x.args) : runs[i] = r

LEMMA RunIs ==
    ASSUME NEW l, NEW r \in CommandLine!Runs(l), Len(l) \in Nat
    PROVE  /\ r[1] \in 1 .. Len(l) /\ r[2] \in 1 .. Len(l) /\ r = <<r[1], r[2]>>
           /\ r[1] \in Nat /\ r[2] \in Nat /\ r[1] <= r[2]
           /\ \A j \in r[1] .. r[2] : l[j] # "blank"
           /\ r[1] > 1 => l[r[1] - 1] = "blank"
           /\ r[2] < Len(l) => l[r[2] + 1] = "blank"
BY DEF CommandLine!Runs

\* The run that begins at i ends where WordEnd says; the next one begins later.
LEMMA NextRun ==
    ASSUME NEW l, Len(l) \in Nat, NEW cp \in 1 .. Len(l) + 1, NEW i \in cp .. Len(l), NEW e \in i .. Len(l),
           \A j \in cp .. i - 1 : l[j] = "blank", \A j \in i .. e : l[j] # "blank",
           e < Len(l) => l[e + 1] = "blank",
           NEW r \in CommandLine!Runs(l), r[1] >= cp, r # <<i, e>>
    PROVE  r[1] >= (IF e < Len(l) THEN e + 2 ELSE e + 1)
<1> DEFINE a == r[1]
           b == r[2]
<1>1. /\ a \in 1 .. Len(l) /\ b \in 1 .. Len(l) /\ a <= b /\ a \in Nat /\ b \in Nat /\ r = <<a, b>>
      /\ \A j \in a .. b : l[j] # "blank"
      /\ a > 1 => l[a - 1] = "blank"
      /\ b < Len(l) => l[b + 1] = "blank"
      /\ a >= cp
  BY RunIs
<1> HIDE DEF a, b
<1>2. l[a] # "blank"
  BY <1>1
<1>3. a >= i
  BY <1>1, <1>2
<1>4. CASE a = i
  <2>1. b # e
    BY <1>1, <1>4
  <2>2. CASE b < e
    <3>1. b + 1 \in i .. e /\ b < Len(l)
      BY <1>1, <1>4, <2>2
    <3> QED BY <1>1, <3>1
  <2>3. CASE b > e
    <3>1. e + 1 \in a .. b /\ e < Len(l)
      BY <1>1, <1>4, <2>3
    <3> QED BY <1>1, <3>1
  <2> QED BY <1>1, <2>1, <2>2, <2>3
<1>5. CASE a > i
  <2>1. ~(a <= e)
    <3> SUFFICES ASSUME a <= e PROVE FALSE
      OBVIOUS
    <3>1. a > 1 /\ a - 1 \in i .. e
      BY <1>1, <1>5
    <3> QED BY <1>1, <3>1
  <2>2. e < Len(l) /\ a # e + 1
    BY <1>1, <1>2, <2>1
  <2> QED BY <1>1, <2>1, <2>2 DEF a
<1> QED BY <1>1, <1>3, <1>4, <1>5

\* The line as it is before the first word.
LEMMA CutStarts ==
    ASSUME NEW l \in Seq(LineChars)
    PROVE  LET z == [line |-> l, cp |-> 1, args |-> <<>>]
           IN  z \in CommandLine!CutLoop /\ CutSoFar(l, z)
<1> DEFINE z == [line |-> l, cp |-> 1, args |-> <<>>]
<1>1. z.line = l /\ z.cp = 1 /\ z.args = <<>> /\ Len(z.args) = 0 /\ Len(l) \in Nat
  OBVIOUS
<1>2. z \in CommandLine!CutLoop
  BY <1>1 DEF CommandLine!CutLoop, LineChars
<1>3. \A r \in CommandLine!Runs(l) : ~(r[1] < 1)
  BY <1>1, RunIs
<1> HIDE DEF z
<1>4. PICK runs : runs = [k \in 1 .. Len(z.args) |-> CHOOSE r \in CommandLine!Runs(l) : TRUE]
  OBVIOUS
<1>5. runs \in [1 .. Len(z.args) -> CommandLine!Runs(l)]
  BY <1>1, <1>4
<1>6. CutSoFar(l, z)
  <2>1. /\ \A k, j \in 1 .. Len(z.args) : k < j => runs[k][2] < runs[j][1]
        /\ \A k \in 1 .. Len(z.args) : /\ z.args[k] = SubSeq(l, runs[k][1], runs[k][2])
                                       /\ runs[k][2] < z.cp
    BY <1>1
  <2>2. \A r \in CommandLine!Runs(l) : r[1] < z.cp => \E k \in 1 .. Len(z.args) : runs[k] = r
    BY <1>1, <1>3
  <2>3. z.line = l /\ Len(z.args) < ArgSize /\ z.cp \in 1 .. Len(l) + 1 /\ ~(z.cp > 1)
    BY <1>1, LineSizes
  <2> QED BY <1>5, <2>1, <2>2, <2>3 DEF CutSoFar
<1> QED BY <1>2, <1>6 DEF z

\* Every word that is cut keeps the words so far the runs before cp.
LEMMA CutStep ==
    ASSUME NEW l \in Seq(LineChars), NEW x \in CommandLine!CutLoop, CommandLine!MoreWords(x), CutSoFar(l, x)
    PROVE  CutSoFar(l, CommandLine!CutWord(x))
<1> DEFINE cp == x.cp
           i == CommandLine!Skip(l, cp)
           e == CommandLine!WordEnd(l, i)
           y == CommandLine!CutWord(x)
           n == Len(x.args)
           next == IF e < Len(l) THEN e + 2 ELSE e + 1
<1>1. /\ x.line = l /\ n < ArgSize - 1 /\ n \in Nat /\ Len(l) \in Nat
      /\ x.args \in Seq(Seq(Letters))
      /\ cp \in 1 .. Len(l) + 1
      /\ cp > 1 /\ cp <= Len(l) => l[cp - 1] = "blank"
  BY LineSizes DEF CutSoFar, CommandLine!CutLoop, CommandLine!MoreWords
<1>2. PICK runs \in [1 .. n -> CommandLine!Runs(l)] :
          /\ \A k, j \in 1 .. n : k < j => runs[k][2] < runs[j][1]
          /\ \A k \in 1 .. n : /\ x.args[k] = SubSeq(l, runs[k][1], runs[k][2])
                               /\ runs[k][2] < cp
          /\ \A r \in CommandLine!Runs(l) : r[1] < cp => \E k \in 1 .. n : runs[k] = r
  BY DEF CutSoFar
<1>3. /\ i \in cp .. Len(l) /\ e \in i .. Len(l) /\ i \in Nat /\ e \in Nat
      /\ \A j \in cp .. i - 1 : l[j] = "blank"
      /\ \A j \in i .. e : l[j] # "blank"
      /\ e < Len(l) => l[e + 1] = "blank"
      /\ y.line = l /\ y.args = Append(x.args, SubSeq(l, i, e))
      /\ y.cp = next
      /\ y \in CommandLine!CutLoop
  BY <1>1, CutIs
<1> HIDE DEF cp, i, e, y, n
<1>4. next \in 1 .. Len(l) + 1 /\ cp <= i /\ e < next /\ i < next /\ next \in Nat /\ cp \in Nat
  <2>1. /\ Len(l) \in Nat /\ cp \in Nat /\ i \in Nat /\ e \in Nat
        /\ 1 <= cp /\ cp <= i /\ i <= e /\ e <= Len(l)
    BY <1>1, <1>3
  <2> QED BY <2>1
<1>5. next > 1 /\ next <= Len(l) => l[next - 1] = "blank"
  <2>1. CASE e < Len(l)
    <3>1. next - 1 = e + 1
      BY <1>1, <1>3, <2>1
    <3> HIDE DEF next
    <3> QED BY <1>3, <2>1, <3>1
  <2>2. CASE ~(e < Len(l))
    <3>1. ~(next <= Len(l))
      BY <1>1, <1>3, <2>2
    <3> QED BY <3>1
  <2> QED BY <2>1, <2>2
<1>6. <<i, e>> \in CommandLine!Runs(l)
  <2>1. i > 1 => l[i - 1] = "blank"
    <3> SUFFICES ASSUME i > 1 PROVE l[i - 1] = "blank"
      OBVIOUS
    <3>1. CASE i = cp
      BY <1>1, <1>3, <3>1
    <3>2. CASE i # cp
      <4>1. i - 1 \in cp .. i - 1
        BY <1>1, <1>3, <3>2
      <4> QED BY <1>3, <4>1
    <3> QED BY <3>1, <3>2
  <2>2. i \in 1 .. Len(l) /\ e \in 1 .. Len(l) /\ i <= e
    BY <1>1, <1>3
  <2> QED BY <1>3, <2>1, <2>2 DEF CommandLine!Runs
<1>7. /\ Len(y.args) = n + 1 /\ n + 1 < ArgSize
      /\ y.args[n + 1] = SubSeq(l, i, e)
      /\ \A k \in 1 .. n : y.args[k] = x.args[k]
  <2> DEFINE w == SubSeq(l, i, e)
  <2>1. y.args = Append(x.args, w) /\ Len(x.args) = n
    BY <1>3 DEF n
  <2> HIDE DEF w
  <2>2. Len(y.args) = n + 1 /\ y.args[n + 1] = w /\ \A k \in 1 .. n : y.args[k] = x.args[k]
    BY <1>1, <2>1
  <2> QED BY <1>1, <2>2, LineSizes DEF w
<1> HIDE DEF next
<1> DEFINE all == [k \in 1 .. n + 1 |-> IF k = n + 1 THEN <<i, e>> ELSE runs[k]]
<1>8. /\ all \in [1 .. n + 1 -> CommandLine!Runs(l)] /\ all[n + 1] = <<i, e>>
      /\ \A k \in 1 .. n : all[k] = runs[k] /\ k \in 1 .. n + 1
      /\ \A k \in 1 .. n + 1 : k = n + 1 \/ k \in 1 .. n
  BY <1>1, <1>6
<1> HIDE DEF all
<1>9. ASSUME NEW k \in 1 .. n + 1, NEW j \in 1 .. n + 1, k < j PROVE all[k][2] < all[j][1]
  <2>1. k \in 1 .. n
    BY <1>1, <1>9
  <2>2. CASE j = n + 1
    <3>1. runs[k][2] < cp /\ runs[k][2] \in Nat
      BY <1>1, <1>2, <2>1, RunIs
    <3> QED BY <1>3, <1>4, <1>8, <2>1, <2>2, <3>1
  <2>3. CASE j \in 1 .. n
    BY <1>2, <1>8, <1>9, <2>1, <2>3
  <2> QED BY <1>8, <2>2, <2>3
<1>10. ASSUME NEW k \in 1 .. n + 1
       PROVE  y.args[k] = SubSeq(l, all[k][1], all[k][2]) /\ all[k][2] < next
  <2>1. CASE k = n + 1
    BY <1>4, <1>7, <1>8, <2>1
  <2>2. CASE k \in 1 .. n
    <3>1. runs[k][2] < cp /\ runs[k][2] \in Nat
      BY <1>1, <1>2, <2>2, RunIs
    <3>2. runs[k][2] < next
      BY <1>3, <1>4, <3>1
    <3> QED BY <1>2, <1>7, <1>8, <2>2, <3>2
  <2> QED BY <1>8, <2>1, <2>2
<1>11. ASSUME NEW r \in CommandLine!Runs(l), r[1] < next PROVE \E k \in 1 .. n + 1 : all[k] = r
  <2>1. r[1] \in Nat
    BY <1>1, RunIs
  <2>2. CASE r[1] < cp
    BY <1>2, <1>8, <2>2
  <2>3. CASE r = <<i, e>>
    <3>1. n + 1 \in 1 .. n + 1
      BY <1>1
    <3> QED BY <1>8, <2>3, <3>1
  <2>4. CASE r[1] >= cp /\ r # <<i, e>>
    <3>1. r[1] >= (IF e < Len(l) THEN e + 2 ELSE e + 1)
      BY <1>1, <1>3, <2>4, NextRun
    <3> QED BY <1>4, <1>11, <2>1, <3>1 DEF next
  <2> QED BY <1>4, <2>1, <2>2, <2>3, <2>4
<1>12. CutSoFar(l, y)
  <2>1. Len(y.args) = n + 1 /\ Len(y.args) < ArgSize /\ y.cp = next /\ y.line = l
    BY <1>3, <1>7
  <2>2. /\ all \in [1 .. Len(y.args) -> CommandLine!Runs(l)]
        /\ \A k, j \in 1 .. Len(y.args) : k < j => all[k][2] < all[j][1]
        /\ \A k \in 1 .. Len(y.args) : /\ y.args[k] = SubSeq(l, all[k][1], all[k][2])
                                       /\ all[k][2] < y.cp
        /\ \A r \in CommandLine!Runs(l) : r[1] < y.cp => \E k \in 1 .. Len(y.args) : all[k] = r
    BY <1>8, <1>9, <1>10, <1>11, <2>1
  <2>3. /\ y.cp \in 1 .. Len(l) + 1
        /\ y.cp > 1 /\ y.cp <= Len(l) => l[y.cp - 1] = "blank"
    BY <1>4, <1>5, <2>1
  <2> QED BY <2>1, <2>2, <2>3 DEF CutSoFar
<1> QED BY <1>12 DEF y

\* When the loop ends, no word is left, or no room for one.
LEMMA CutStops ==
    ASSUME NEW l \in Seq(LineChars), NEW x \in CutEnds, CutSoFar(l, x)
    PROVE  CommandLine!AreWords(x.args, l)
<1> DEFINE cp == x.cp
           n == Len(x.args)
<1>1. /\ x.line = l /\ n < ArgSize /\ n \in Nat /\ Len(l) \in Nat
      /\ cp \in 1 .. Len(l) + 1 /\ cp \in Nat
      /\ ~(n < ArgSize - 1 /\ CommandLine!Skip(l, cp) <= Len(l))
  BY DEF CutSoFar, CommandLine!CutLoop, CutEnds, CommandLine!MoreWords
<1>2. PICK runs \in [1 .. n -> CommandLine!Runs(l)] :
          /\ \A k, j \in 1 .. n : k < j => runs[k][2] < runs[j][1]
          /\ \A k \in 1 .. n : /\ x.args[k] = SubSeq(l, runs[k][1], runs[k][2])
                               /\ runs[k][2] < cp
          /\ \A r \in CommandLine!Runs(l) : r[1] < cp => \E k \in 1 .. n : runs[k] = r
  BY DEF CutSoFar
<1>3. ASSUME NEW r \in CommandLine!Runs(l), ~(r[1] < cp)
      PROVE  n = ArgSize - 1 /\ \A k \in 1 .. n : runs[k][2] < r[1]
  <2>1. /\ r[1] \in 1 .. Len(l) /\ r[1] \in Nat /\ r[2] \in Nat /\ r[1] <= r[2]
        /\ \A j \in r[1] .. r[2] : l[j] # "blank"
    BY <1>1, RunIs
  <2>2. n = ArgSize - 1
    <3> SUFFICES ASSUME CommandLine!Skip(l, cp) > Len(l) PROVE FALSE
      <4>1. CommandLine!Skip(l, cp) \in cp .. Len(l) + 1
        BY <1>1, SkipIs
      <4> DEFINE i == CommandLine!Skip(l, cp)
      <4> HIDE DEF i, n, cp
      <4>2. i \in cp .. Len(l) + 1 /\ (~(i > Len(l)) => ~(n < ArgSize - 1))
        BY <1>1, <4>1 DEF i
      <4> QED BY <1>1, <4>2, LineSizes DEF i
    <3>1. /\ CommandLine!Skip(l, cp) \in cp .. Len(l) + 1
          /\ \A j \in cp .. CommandLine!Skip(l, cp) - 1 : l[j] = "blank"
      BY <1>1, SkipIs
    <3> DEFINE i == CommandLine!Skip(l, cp)
    <3>2. i \in cp .. Len(l) + 1 /\ i > Len(l) /\ \A j \in cp .. i - 1 : l[j] = "blank"
      BY <3>1
    <3> HIDE DEF i, cp
    <3>3. r[1] \in cp .. i - 1 /\ r[1] \in r[1] .. r[2]
      BY <1>1, <1>3, <2>1, <3>2
    <3> QED BY <2>1, <3>2, <3>3
  <2>3. ASSUME NEW k \in 1 .. n PROVE runs[k][2] < r[1]
    <3>1. runs[k][2] \in Nat /\ runs[k][2] < cp
      BY <1>1, <1>2, RunIs
    <3> HIDE DEF cp
    <3> QED BY <1>1, <1>3, <2>1, <3>1
  <2> QED BY <2>2, <2>3
<1> HIDE DEF cp
<1>4. \A r \in CommandLine!Runs(l) : \/ \E k \in 1 .. n : runs[k] = r
                                    \/ /\ n = ArgSize - 1
                                       /\ \A k \in 1 .. n : runs[k][2] < r[1]
  BY <1>2, <1>3
<1> QED BY <1>1, <1>2, <1>4 DEF CommandLine!AreWords

\* The words that a line is cut into are its runs.
LEMMA WordsAre ==
    ASSUME NEW l \in Seq(LineChars)
    PROVE  /\ CommandLine!AreWords(CommandLine!Words(l), l)
           /\ CommandLine!Words(l) \in Seq(Seq(Letters))
<1> DEFINE I == {x \in CommandLine!CutLoop : CutSoFar(l, x)}
           z == [line |-> l, cp |-> 1, args |-> <<>>]
<1>1. z \in I
  BY CutStarts
<1>2. \A x \in I : x \notin CutEnds => CutNext[x] \in I
  <2> SUFFICES ASSUME NEW x \in I, x \notin CutEnds PROVE CutNext[x] \in I
    OBVIOUS
  <2>1. x \in CommandLine!CutLoop /\ CutSoFar(l, x)
    OBVIOUS
  <2>m. CommandLine!MoreWords(x) /\ CutNext[x] = CommandLine!CutWord(x)
    <3> HIDE DEF I
    <3> QED BY <2>1 DEF CutEnds, CutNext
  <2>2. CommandLine!CutWord(x) \in CommandLine!CutLoop
    BY <2>1, <2>m, CutIs
  <2>3. CutSoFar(l, CommandLine!CutWord(x))
    BY <2>1, <2>m, CutStep
  <2> QED BY <2>2, <2>m, <2>3
<1>3. I \in SUBSET CommandLine!CutLoop
  OBVIOUS
<1> HIDE DEF I
<1>4. PICK y \in I : y \in CutEnds /\ CommandLine!args[z] = CutLast[y]
  <2> HIDE DEF z
  <2> QED BY <1>1, <1>2, <1>3, ArgsIs, CutCountsDown, LoopKeeps
<1>5. y \in CommandLine!CutLoop /\ CutSoFar(l, y) /\ CutLast[y] = y.args /\ y.args \in Seq(Seq(Letters))
  BY <1>4 DEF CutLast, I, CommandLine!CutLoop
<1>6. CommandLine!AreWords(y.args, l)
  BY <1>4, <1>5, CutStops
<1> QED BY <1>4, <1>5, <1>6 DEF CommandLine!Words

-----------------------------------------------------------------------------
(* The command line                                                        *)

CmdInv ==
    /\ CommandLine!TypeOK
    /\ CR <=> last = "cr"
    /\ ~beenHere => last = "none" /\ ran = <<>>

LEMMA CmdInit == CommandLine!Init => CmdInv
<1> SUFFICES ASSUME CommandLine!Init PROVE CmdInv
  OBVIOUS
<1>1. beenHere = FALSE /\ CR = FALSE /\ line = <<>> /\ ran = <<>> /\ last = "none"
  BY DEF CommandLine!Init
<1>2. Len(line) < LineSize /\ Len(ran) < ArgSize
  BY <1>1, LineSizes
<1>3. CommandLine!TypeOK
  <2>1. line \in Seq(Letters \cup {"blank"}) /\ ran \in Seq(Seq(Letters))
    BY <1>1
  <2>2. beenHere \in BOOLEAN /\ CR \in BOOLEAN
    BY <1>1
  <2> QED BY <1>1, <1>2, <2>1, <2>2 DEF CommandLine!TypeOK
<1> QED BY <1>1, <1>3 DEF CmdInv

LEMMA FrontIs ==
    ASSUME NEW l \in Seq(LineChars), l # <<>>
    PROVE  /\ CommandLine!Front(l) \in Seq(LineChars)
           /\ Len(CommandLine!Front(l)) < Len(l)
BY DEF CommandLine!Front

\* An end of line runs the words of the line.
LEMMA EndSound ==
    ASSUME CmdInv, NEW c \in CommandLine!Chars, CommandLine!CommandLoop(c), CommandLine!EndOfLine(c)
    PROVE  /\ CmdInv'
           /\ last' = "cr" \/ (last' = "lf" /\ last # "cr")
           /\ CommandLine!AreWords(ran', line)
<1>1. /\ line \in Seq(LineChars) /\ CR \in BOOLEAN /\ (CR <=> last = "cr")
      /\ beenHere = TRUE /\ beenHere' = TRUE
      /\ c \in {"cr", "lf"} /\ ~(CR /\ c = "lf")
      /\ line' = <<>> /\ ran' = CommandLine!Words(line) /\ CR' = (c = "cr") /\ last' = c
  BY DEF CmdInv, CommandLine!TypeOK, LineChars, CommandLine!CommandLoop, CommandLine!EndOfLine,
         CommandLine!Folded
<1>2. /\ CommandLine!AreWords(ran', line) /\ ran' \in Seq(Seq(Letters))
  BY <1>1, WordsAre
<1>3. Len(ran') < ArgSize
  BY <1>2 DEF CommandLine!AreWords
<1>4. line' \in Seq(LineChars) /\ Len(line') < LineSize
  BY <1>1, LineSizes
<1> QED BY <1>1, <1>2, <1>3, <1>4 DEF CmdInv, CommandLine!TypeOK, LineChars

\* Any other character keeps the line within its bytes and runs nothing.
LEMMA EditSound ==
    ASSUME CmdInv, NEW c \in CommandLine!Chars, CommandLine!CommandLoop(c), CommandLine!Edit(c)
    PROVE  /\ CmdInv'
           /\ ~(last' = "cr" \/ (last' = "lf" /\ last # "cr"))
           /\ ran' = <<>>
<1>1. /\ line \in Seq(LineChars) /\ Len(line) < LineSize
      /\ CR \in BOOLEAN /\ (CR <=> last = "cr")
      /\ beenHere = TRUE /\ beenHere' = TRUE
      /\ c \notin {"cr", "lf"} \/ (CR /\ c = "lf")
      /\ ran' = <<>> /\ CR' = (c = "cr") /\ last' = c
  BY DEF CmdInv, CommandLine!TypeOK, LineChars, CommandLine!CommandLoop, CommandLine!Edit,
         CommandLine!Folded
<1>2. line' \in Seq(LineChars) /\ Len(line') < LineSize
  <2>1. CASE c = "bs" /\ line # <<>>
    <3>1. line' = CommandLine!Front(line)
      <4>1. c \notin Letters \cup {"blank"}
        BY <2>1, LineSizes
      <4> QED BY <2>1, <4>1 DEF CommandLine!Edit
    <3>2. CommandLine!Front(line) \in Seq(LineChars) /\ Len(CommandLine!Front(line)) < Len(line)
      BY <1>1, <2>1, FrontIs
    <3> QED BY <1>1, <3>1, <3>2, LineSizes
  <2>2. CASE c \in LineChars /\ Len(line) < LineSize - 1
    <3>1. line' = Append(line, c)
      BY <2>2, LineSizes DEF CommandLine!Edit, LineChars
    <3> QED BY <1>1, <2>2, <3>1, LineSizes
  <2>3. CASE ~(c = "bs" /\ line # <<>>) /\ ~(c \in LineChars /\ Len(line) < LineSize - 1)
    <3>1. line' = line
      BY <2>3 DEF CommandLine!Edit, LineChars
    <3> QED BY <1>1, <3>1
  <2> QED BY <2>1, <2>2, <2>3
<1>3. Len(ran') < ArgSize /\ ran' \in Seq(Seq(Letters))
  BY <1>1, LineSizes
<1> QED BY <1>1, <1>2, <1>3 DEF CmdInv, CommandLine!TypeOK, LineChars

RunsNow ==
    LET end == last' = "cr" \/ (last' = "lf" /\ last # "cr")
    IN  IF end THEN CommandLine!AreWords(ran', line) ELSE ran' = <<>>

LEMMA CmdNext ==
    CmdInv /\ [CommandLine!Next]_(CommandLine!vars) => CmdInv' /\ [RunsNow]_(CommandLine!vars)
<1> SUFFICES ASSUME CmdInv, [CommandLine!Next]_(CommandLine!vars)
             PROVE  CmdInv' /\ [RunsNow]_(CommandLine!vars)
  OBVIOUS
<1>1. CASE UNCHANGED CommandLine!vars
  BY <1>1 DEF CommandLine!vars, CmdInv, CommandLine!TypeOK
<1>2. CASE CommandLine!Greet
  BY <1>2 DEF CommandLine!Greet, CmdInv, CommandLine!TypeOK, RunsNow
<1>3. ASSUME NEW c \in CommandLine!Chars, CommandLine!CommandLoop(c) PROVE CmdInv' /\ RunsNow
  <2>1. CASE CommandLine!EndOfLine(c)
    BY <1>3, <2>1, EndSound DEF RunsNow
  <2>2. CASE CommandLine!Edit(c)
    BY <1>3, <2>2, EditSound DEF RunsNow
  <2> QED BY <1>3, <2>1, <2>2 DEF CommandLine!CommandLoop
<1> QED BY <1>1, <1>2, <1>3 DEF CommandLine!Next

-----------------------------------------------------------------------------
(* The parts side by side                                                  *)

\* A step of one part changes nothing of the others.
PartsStep ==
    /\ [Rtc!Next]_(Rtc!vars) /\ [ChunkMap!Next]_(ChunkMap!vars) /\ [Rand!Next]_(Rand!vars)
    /\ [BitPack!Next]_(BitPack!vars) /\ [CommandLine!Next]_(CommandLine!vars)

LEMMA PartRuns == [Next]_vars => PartsStep
<1> SUFFICES ASSUME [Next]_vars PROVE PartsStep
  OBVIOUS
<1> USE DEF PartsStep
<1>1. ASSUME UNCHANGED rtcVars PROVE UNCHANGED Rtc!vars
  BY <1>1 DEF rtcVars, Rtc!vars, Rtc!rtcVars, Rtc!clockVars, Rtc!readVars
<1>2. ASSUME UNCHANGED mapVars PROVE UNCHANGED ChunkMap!vars
  BY <1>2 DEF mapVars, ChunkMap!vars
<1>3. ASSUME UNCHANGED randVars PROVE UNCHANGED Rand!vars
  BY <1>3 DEF randVars, Rand!vars
<1>4. ASSUME UNCHANGED packVars PROVE UNCHANGED BitPack!vars
  BY <1>4 DEF packVars, BitPack!vars
<1>5. ASSUME UNCHANGED cmdVars PROVE UNCHANGED CommandLine!vars
  BY <1>5 DEF cmdVars, CommandLine!vars
<1>6. CASE TempusRuns
  <2>1. UNCHANGED <<rtcVars, mapVars, packVars, randVars, cmdVars>>
    BY <1>6 DEF TempusRuns
  <2> QED BY <2>1, <1>1, <1>2, <1>3, <1>4, <1>5
<1>7. CASE RtcRuns /\ Rtc!Next
  <2>1. UNCHANGED <<mapVars, packVars, randVars, cmdVars>>
    BY <1>7 DEF RtcRuns
  <2> QED BY <2>1, <1>2, <1>3, <1>4, <1>5, <1>7
<1>8. CASE MapRuns /\ ChunkMap!Next
  <2>1. UNCHANGED <<rtcVars, packVars, randVars, cmdVars>>
    BY <1>8 DEF MapRuns
  <2> QED BY <2>1, <1>1, <1>3, <1>4, <1>5, <1>8
<1>9. CASE PackRuns /\ BitPack!Next
  <2>1. UNCHANGED <<rtcVars, mapVars, randVars, cmdVars>>
    BY <1>9 DEF PackRuns
  <2> QED BY <2>1, <1>1, <1>2, <1>3, <1>5, <1>9
<1>10. CASE RandRuns /\ Rand!Next
  <2>1. UNCHANGED <<rtcVars, mapVars, packVars, cmdVars>>
    BY <1>10 DEF RandRuns
  <2> QED BY <2>1, <1>1, <1>2, <1>4, <1>5, <1>10
<1>11. CASE CommandRuns /\ CommandLine!Next
  <2>1. UNCHANGED <<rtcVars, mapVars, packVars, randVars>>
    BY <1>11 DEF CommandRuns
  <2> QED BY <2>1, <1>1, <1>2, <1>3, <1>4, <1>11
<1>12. CASE UNCHANGED vars
  <2>1. UNCHANGED <<rtcVars, mapVars, packVars, randVars, cmdVars>>
    BY <1>12 DEF vars
  <2> QED BY <2>1, <1>1, <1>2, <1>3, <1>4, <1>5
<1> QED BY <1>6, <1>7, <1>8, <1>9, <1>10, <1>11, <1>12 DEF Next

\* However late the handler runs, short of a wrap of the counter, the clock never
\* shows a time to come, counts each wrap once, and once the handler is done is
\* behind by less than the interval between matches and a step of the fraction;
\* only a match that CC was written too late for (rtc.c:312) costs it a wrap
\* (updateTOD, RTC2_IRQHandler).
THEOREM ClockKeepsTime == Spec => []ClockIsRight
<1>1. Init => RtcInv
  BY RtcInit DEF Init
<1>2. RtcInv /\ [Next]_vars => RtcInv'
  BY PartRuns, RtcNext DEF PartsStep
<1>3. RtcInv => ClockIsRight
  BY ClockShows DEF RtcInv
<1> QED BY <1>1, <1>2, <1>3, PTL DEF Spec

\* However often the interrupt comes between the three reads of GetTODZero64,
\* the time it returns is one the clock showed during the call.
THEOREM TimeReadIsReal == Spec => []ReadsARealTime
<1>1. Init => RtcInv
  BY RtcInit DEF Init
<1>2. RtcInv /\ [Next]_vars => RtcInv'
  BY PartRuns, RtcNext DEF PartsStep
<1>3. RtcInv => ReadsARealTime
  BY DEF RtcInv, ReaderInv, ReadsARealTime, Rtc!ReadsARealTime
<1> QED BY <1>1, <1>2, <1>3, PTL DEF Spec

\* The chunk map holds and answers from exactly the slots that were set and not
\* cleared, for any map and wherever a range begins and ends in its bytes
\* (MapSetRange, MapIsClearAll).
THEOREM MapHoldsSlots == Spec => []TracksSlots
<1>1. Init => MapInv
  BY MapInit DEF Init
<1>2. MapInv /\ [Next]_vars => MapInv'
  BY PartRuns, MapNext DEF PartsStep
<1>3. MapInv => TracksSlots
  BY MapAnswers
<1> QED BY <1>1, <1>2, <1>3, PTL DEF Spec

\* For a buffer of any size, every byte drawn from the pool is given out once,
\* in the order drawn, or still waits (RandGet, RandRefill).
THEOREM EachByteOnce == Spec => []GivesEachByteOnce
<1>1. Rand!RandAssumption
  BY PartsAssumption DEF PartsAssumption
<1>2. Init => RandInv
  BY <1>1, RandInit DEF Init
<1>3. RandInv /\ [Next]_vars => RandInv'
  BY <1>1, PartRuns, RandNext DEF PartsStep
<1>4. RandInv => GivesEachByteOnce
  BY DEF RandInv, GivesEachByteOnce
<1> QED BY <1>2, <1>3, <1>4, PTL DEF Spec

\* For words of any size, fields of any widths and a buffer that the record
\* fits, a record read back whole gives the fields that were packed, and one
\* that lost words is found too short (wr, rd, importRecord).
THEOREM PackedIsRead == Spec => []ReadsWhatWasWritten
<1>1. Init => PackInv
  BY PackInit DEF Init
<1>2. PackInv /\ [Next]_vars => PackInv'
  BY PartRuns, PackNext DEF PartsStep
<1>3. PackInv => ReadsWhatWasWritten
  BY PackReads
<1> QED BY <1>1, <1>2, <1>3, PTL DEF Spec

\* For lines and argument lists of any size, each line end, CR LF together one
\* of them, runs the words of the line before it, and no other character runs
\* anything (CommandLoop, runCommand).
THEOREM LinesRun == Spec => RunsTheLine
<1>1. Init => CmdInv
  BY CmdInit DEF Init
<1>2. CmdInv /\ [Next]_vars => CmdInv' /\ [RunsNow]_(CommandLine!vars)
  BY PartRuns, CmdNext DEF PartsStep
<1>3. Spec => [][RunsNow]_(CommandLine!vars)
  BY <1>1, <1>2, PTL DEF Spec
<1> QED BY <1>3, PTL DEF RunsTheLine, CommandLine!RunsTheLine, RunsNow

-----------------------------------------------------------------------------
(* The callouts: the steps of Parts that run the list are steps of Tempus, *)
(* of which Tempus_proofs speaks.                                          *)

TempusP == INSTANCE Tempus_proofs

LEMMA SameScan ==
    /\ Tempus!Tick => TempusP!Tick
    /\ Tempus!TempusMagnaCirculi => TempusP!TempusMagnaCirculi
BY DEF Tempus!Tick, TempusP!Tick, Tempus!TempusMagnaCirculi, TempusP!TempusMagnaCirculi,
       Tempus!ScanBegin, TempusP!ScanBegin, Tempus!ScanFire, TempusP!ScanFire,
       Tempus!Return, TempusP!Return, Tempus!ScanEnd, TempusP!ScanEnd

LEMMA SameCallout ==
    ASSUME NEW c \in Callout, NEW t, Tempus!TempusCallout(c, t)
    PROVE  TempusP!TempusCallout(c, t)
<1>1. Tempus!InList(c) = TempusP!InList(c) /\ Tempus!PositionOf(c) = TempusP!PositionOf(c)
  BY DEF Tempus!InList, TempusP!InList, Tempus!PositionOf, TempusP!PositionOf
<1>2. \A l, i : Tempus!RemoveAt(l, i) = TempusP!RemoveAt(l, i)
  BY DEF Tempus!RemoveAt, TempusP!RemoveAt
<1>3. \A l, i, e : Tempus!InsertAt(l, i, e) = TempusP!InsertAt(l, i, e)
  BY DEF Tempus!InsertAt, TempusP!InsertAt
<1>4. Tempus!Unlinked(c) = TempusP!Unlinked(c)
  BY <1>1, <1>2 DEF Tempus!Unlinked, TempusP!Unlinked
<1>5. \A l : Tempus!Place(l, t) = TempusP!Place(l, t)
  BY DEF Tempus!Place, TempusP!Place
<1> QED BY <1>3, <1>4, <1>5 DEF Tempus!TempusCallout, TempusP!TempusCallout

LEMMA SameSteps == [Next]_vars => [TempusP!Next]_(TempusP!vars)
<1>1. UNCHANGED tempusVars => UNCHANGED TempusP!vars
  BY DEF tempusVars, TempusP!vars
<1>2. Tempus!Next => TempusP!Next
  BY SameScan, SameCallout
  DEF Tempus!Next, TempusP!Next, Tempus!AppCallout, TempusP!AppCallout,
      Tempus!CallbackCallout, TempusP!CallbackCallout
<1> QED
  BY <1>1, <1>2
  DEF Next, vars, TempusRuns, RtcRuns, MapRuns, PackRuns, RandRuns, CommandRuns

LEMMA SameService ==
    /\ TempusP!Service!Init => Tempus!Service!Init
    /\ [TempusP!Service!Next]_(TempusP!Service!vars)
       => [Tempus!Service!Next]_(Tempus!Service!vars)
BY DEF TempusP!Service!Init, Tempus!Service!Init, TempusP!Service!Next, Tempus!Service!Next,
       TempusP!Service!vars, Tempus!Service!vars, TempusP!Service!Tick, Tempus!Service!Tick,
       TempusP!Service!Fire, Tempus!Service!Fire, TempusP!Service!Return, Tempus!Service!Return,
       TempusP!Service!Schedule, Tempus!Service!Schedule,
       TempusP!InList, Tempus!InList, TempusP!Times, Tempus!Times

\* Whatever callbacks do to the list that is being run, no callout is lost, run
\* twice, run early or run before an earlier one, and those of the same second
\* run in the order they were scheduled (TempusCallout, TempusMagnaCirculi).
THEOREM ServesCallouts == Spec => IsCalloutService
<1>1. TempusP!TempusAssumption
  BY PartsAssumption DEF PartsAssumption, Tempus!TempusAssumption, TempusP!TempusAssumption
<1>2. Init => TempusP!Init
  BY DEF Init, Tempus!Init, TempusP!Init
<1>3. [Next]_vars => [TempusP!Next]_(TempusP!vars)
  BY SameSteps
<1>4. TempusP!Spec => TempusP!IsCalloutService
  BY <1>1, TempusP!Refines
<1>5. TempusP!Service!Spec => Tempus!Service!Spec
  BY SameService, PTL DEF TempusP!Service!Spec, Tempus!Service!Spec
<1>6. TempusP!FirstComeFirstServed => Tempus!FirstComeFirstServed
  BY DEF TempusP!FirstComeFirstServed, Tempus!FirstComeFirstServed,
         TempusP!InList, Tempus!InList, TempusP!vars, Tempus!vars
<1> QED
  BY <1>2, <1>3, <1>4, <1>5, <1>6, PTL
  DEF Spec, TempusP!Spec, IsCalloutService, Tempus!IsCalloutService, TempusP!IsCalloutService

-----------------------------------------------------------------------------
(* The types of all the parts                                              *)

\* The types of the callout list, where the modules share their definitions.
LEMMA SameList == TempusP!TypeOK /\ TempusP!ListSound => Tempus!TypeOK /\ Tempus!ListSound
BY DEF TempusP!TypeOK, Tempus!TypeOK, TempusP!ListSound, Tempus!ListSound,
       TempusP!Times, Tempus!Times

\* The words of every part stay within their widths, the indices of the record
\* and random buffers and of the line within theirs, the clock within the true
\* time, and the callout list is sorted and holds no callout twice (Tempus,
\* RTC2_IRQHandler, MapSetRange, wr, rd, RandGet, CommandLoop).
THEOREM PartsTyped == Spec => []PartsTypeOK
<1> DEFINE All == RtcInv /\ CcInv /\ MapInv /\ RandInv /\ PackInv /\ CmdInv
<1>1. Rand!RandAssumption
  BY PartsAssumption DEF PartsAssumption
<1>2. Init => All
  BY <1>1, RtcInit, CcInit, MapInit, RandInit, PackInit, CmdInit DEF Init
<1>3. All /\ [Next]_vars => All'
  BY <1>1, PartRuns, RtcNext, CcNext, MapNext, RandNext, PackNext, CmdNext DEF PartsStep
<1>4. All => /\ Rtc!TypeOK /\ ChunkMap!TypeOK /\ BitPack!TypeOK /\ Rand!TypeOK
             /\ CommandLine!TypeOK
  <2>1. MapInv => ChunkMap!TypeOK
    BY DEF MapInv, ChunkMap!TypeOK
  <2> QED BY <2>1, RtcTyped DEF PackInv, PackType, RandInv, CmdInv
<1>5. TempusP!TempusAssumption
  BY PartsAssumption DEF PartsAssumption, Tempus!TempusAssumption, TempusP!TempusAssumption
<1>6. Init => TempusP!Init
  BY DEF Init, Tempus!Init, TempusP!Init
<1>7. [Next]_vars => [TempusP!Next]_(TempusP!vars)
  BY SameSteps
<1>8. TempusP!Spec => [](TempusP!TypeOK /\ TempusP!ListSound)
  BY <1>5, TempusP!ListCorrect
<1>9. TempusP!TypeOK /\ TempusP!ListSound => Tempus!TypeOK /\ Tempus!ListSound
  BY SameList
<1> HIDE DEF All
<1>10. All /\ Tempus!TypeOK /\ Tempus!ListSound => PartsTypeOK
  BY <1>4 DEF PartsTypeOK
<1> QED BY <1>2, <1>3, <1>6, <1>7, <1>8, <1>9, <1>10, PTL DEF Spec, TempusP!Spec
=============================================================================
