--------------------------------- MODULE Rtc --------------------------------
(***************************************************************************)
(* The clock, time/rtc.c: RTC2 counts and matches, its interrupt keeps the *)
(* seconds and fractions since boot in two words, and GetTODZero64 reads   *)
(* them in the super loop without shutting the interrupt out.              *)
(*                                                                         *)
(* The hardware: COUNTER is 24 bits; a match at CC is certain only when CC *)
(* is written two ticks or more ahead.  One written a tick ahead, or at    *)
(* the match, may be missed, and one written after it waits for the        *)
(* counter to come round.  hibernate is never set.                         *)
(***************************************************************************)
EXTENDS Integers

CONSTANTS TICK_UNIT,  \* ticks in a second (32768)
          TICK_MAX,   \* where COUNTER wraps (2^24)
          Fractions,  \* steps of tod0Frac in a second (256)
          Incr,       \* ticks between matches, OQ_LFCLK / HZ (2048)
          Late,       \* ticks at most from a match until CC is written again
          MaxTicks    \* bound: ticks

\* A second is a whole number of intervals (OQ_LFCLK / HZ, HZ a power of 2,
\* inc/defs.h) and of steps; the counter wraps after whole seconds, 512 of
\* them.  The handler may come after any number of intervals, but not a whole
\* wrap after the last time, which updateTOD does not deal with (rtc.c:209).
RtcAssumption ==
    /\ {TICK_UNIT, TICK_MAX, Fractions, Incr} \subseteq Nat \ {0}
    /\ TICK_MAX % TICK_UNIT = 0 /\ TICK_UNIT < TICK_MAX
    /\ TICK_UNIT % Incr = 0 /\ TICK_UNIT % Fractions = 0
    /\ Late \in Nat /\ Late + 2 * TICK_UNIT <= TICK_MAX
    /\ MaxTicks \in Nat

VARIABLES ticks,      \* true time since the counter was started
          cc,         \* CC[0]
          matched,    \* when CC was met, or -1: the interrupt is pending
          match,      \* in the handler: what it will write to CC, else -1
          sure,       \* the counter will not pass CC unseen
          lost,       \* history: the matches that went by unseen
          tod0, tod0Frac, todWraps, todSecs,
          reader,     \* GetTODZero64: "idle", "s0", "f0", "s1" next, "done"
          s0, f0,     \* what it has read
          began       \* history: what the clock showed when it was called

clockVars == <<tod0, tod0Frac, todWraps, todSecs>>
readVars == <<reader, s0, f0, began>>
rtcVars == <<ticks, cc, matched, match, sure, lost>>
vars == <<rtcVars, clockVars, readVars>>

Step == TICK_UNIT \div Fractions
COUNTER == ticks % TICK_MAX

\* The time in two words, in ticks.
InTicks(secs, frac) == secs * TICK_UNIT + frac * Step
Shown == InTicks(tod0, tod0Frac)

TypeOK ==
    /\ ticks \in 0 .. MaxTicks
    /\ cc \in 0 .. TICK_MAX - 1 /\ match \in -1 .. TICK_MAX - 1
    /\ matched \in -1 .. MaxTicks
    /\ sure \in BOOLEAN /\ lost \in Nat
    /\ tod0 \in 0 .. ticks \div TICK_UNIT /\ tod0Frac \in 0 .. Fractions - 1
    /\ todWraps \in 0 .. ticks \div TICK_MAX
    /\ todSecs \in 0 .. (TICK_MAX \div TICK_UNIT) - 1
    /\ reader \in {"idle", "s0", "f0", "s1", "done"}
    /\ s0 \in 0 .. tod0 /\ f0 \in 0 .. Fractions - 1
    /\ began \in 0 .. Shown

\* TimerInit: the first match is a second ahead.
Init ==
    /\ ticks = 0 /\ cc = TICK_UNIT % TICK_MAX
    /\ matched = -1 /\ match = -1 /\ sure = TRUE /\ lost = 0
    /\ tod0 = 0 /\ tod0Frac = 0 /\ todWraps = 0 /\ todSecs = 0
    /\ reader = "idle" /\ s0 = 0 /\ f0 = 0 /\ began = 0

\* The counter goes on; a match raises the interrupt, if it is seen.  Nothing
\* keeps the handler from its work longer than Late.
Tick ==
    /\ ticks < MaxTicks
    /\ matched # -1 => ticks < matched + Late
    /\ ticks' = ticks + 1
    /\ IF matched = -1 /\ (ticks + 1) % TICK_MAX = cc
       THEN /\ matched' = IF sure THEN ticks + 1 ELSE -1
            /\ lost' = IF sure THEN lost ELSE lost + 1
            /\ sure' = TRUE
       ELSE UNCHANGED <<matched, lost, sure>>
    /\ UNCHANGED <<cc, match, clockVars, readVars>>

\* Mutant of Wrapped: an interrupt in the same second counts as a wrap.
BugWrapsOften(secs) == secs <= todSecs

\* The counter has wrapped since the last interrupt.
Wrapped(secs) == secs < todSecs

updateTOD ==
    LET secs == COUNTER \div TICK_UNIT
        wraps == IF Wrapped(secs) THEN todWraps + 1 ELSE todWraps
    IN  /\ todWraps' = wraps
        /\ todSecs' = secs
        /\ tod0' = wraps * (TICK_MAX \div TICK_UNIT) + secs
        /\ tod0Frac' = (COUNTER % TICK_UNIT) \div Step

\* The handler reads COUNTER, once: the time, and the next multiple of Incr.
RTC2_IRQHandler ==
    /\ matched # -1 /\ match = -1
    /\ updateTOD
    /\ match' = (COUNTER + Incr - (COUNTER % Incr)) % TICK_MAX
    /\ UNCHANGED <<ticks, cc, matched, sure, lost, readVars>>

\* It writes CC, ahead of the match, at it or after it, and returns.
Ahead == (match + TICK_MAX - COUNTER) % TICK_MAX

SetMatch ==
    /\ match # -1
    /\ cc' = match /\ match' = -1
    /\ \/ Ahead = 0 /\ matched' = ticks /\ UNCHANGED lost
       \/ Ahead \in 1 .. Incr /\ matched' = -1 /\ UNCHANGED lost
       \/ Ahead \notin 1 .. Incr /\ matched' = -1 /\ lost' = lost + 1
    /\ sure' \in IF Ahead = 1 THEN BOOLEAN ELSE {TRUE}
    /\ UNCHANGED <<ticks, clockVars, readVars>>

-----------------------------------------------------------------------------
(* GetTODZero64: three reads; the handler runs before, between and after   *)
(* them, never during one, and none of them while it runs.                 *)
ReadCall ==
    /\ reader = "idle" /\ match = -1
    /\ reader' = "s0"
    /\ began' = Shown
    /\ UNCHANGED <<rtcVars, clockVars, s0, f0>>

ReadSeconds ==
    /\ reader = "s0" /\ match = -1
    /\ s0' = tod0
    /\ reader' = "f0"
    /\ UNCHANGED <<rtcVars, clockVars, f0, began>>

ReadFraction ==
    /\ reader = "f0" /\ match = -1
    /\ f0' = tod0Frac
    /\ reader' = "s1"
    /\ UNCHANGED <<rtcVars, clockVars, s0, began>>

\* Mutant of ReadAgain: the second read is not compared with the first.
BugNoCompare ==
    /\ reader = "s1" /\ match = -1
    /\ reader' = "done"
    /\ UNCHANGED <<rtcVars, clockVars, s0, f0, began>>

\* The seconds are read again; had they changed, start over.
ReadAgain ==
    /\ reader = "s1" /\ match = -1
    /\ reader' = IF s0 = tod0 THEN "done" ELSE "s0"
    /\ UNCHANGED <<rtcVars, clockVars, s0, f0, began>>

ReadReturn ==
    /\ reader = "done" /\ match = -1
    /\ reader' = "idle" /\ s0' = 0 /\ f0' = 0 /\ began' = 0
    /\ UNCHANGED <<rtcVars, clockVars>>

GetTODZero64 == ReadCall \/ ReadSeconds \/ ReadFraction \/ ReadAgain \/ ReadReturn

Next == Tick \/ RTC2_IRQHandler \/ SetMatch \/ GetTODZero64

Spec == Init /\ [][Next]_vars

-----------------------------------------------------------------------------
\* The clock is right: it never shows a time to come, and once the handler is
\* done, however many rounds it has skipped, is behind by less than the interval
\* between matches (a second until the first one) and the step of the fraction,
\* before that by its lateness in addition.  So no wrap of the counter is missed
\* and none is counted twice (updateTOD); only a match that went by unseen, CC
\* being written too late for it (rtc.c:312), costs the clock a wrap.
ClockIsRight ==
    /\ Shown <= ticks
    /\ ticks - Shown < Step + (IF Shown = 0 THEN TICK_UNIT ELSE Incr)
                           + (IF matched = -1 THEN 0 ELSE Late) + lost * TICK_MAX

\* GetTODZero64 returns a time the clock did show during the call: never one
\* put together from the seconds of one interrupt and the fraction of another
\* that lies before the call or after it.
ReadsARealTime ==
    reader = "done" => began <= InTicks(s0, f0) /\ InTicks(s0, f0) <= Shown
=============================================================================
