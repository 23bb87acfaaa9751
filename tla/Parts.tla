-------------------------------- MODULE Parts ------------------------------
(***************************************************************************)
(* Six parts of the firmware that keep a few words of state each and do    *)
(* not touch each other's: the callout list, the clock, the boot loader's  *)
(* chunk map, the packing of records, the random bytes and the command     *)
(* line.  A behaviour picks one of them and runs it; the others stay in    *)
(* their initial states.                                                   *)
(***************************************************************************)
EXTENDS Integers

CONSTANTS Callout, Nobody, Delays, MaxTod,
          TICK_UNIT, TICK_MAX, Fractions, Incr, Late, MaxTicks,
          MapStart, MapEnd, ChunkSize, BitsPerByte,
          FirstBits, WordBits, Widths, BufWords, MaxFields,
          RAND_BUF_SIZE, MaxPool, MaxDraws,
          Letters, LineSize, ArgSize

VARIABLES part,
          tod0, time, list, pc, tod, tp,
          ticks, cc, matched, match, sure, lost, rtcTod0, tod0Frac, todWraps, todSecs,
          reader, s0, f0, began,
          bits, wanted,
          buffer, bufferIndex, bufferPointer, bufferLimit, written, got, whole,
          read, write, count, data, drawn, given,
          beenHere, CR, line, ran, last

tempusVars == <<tod0, time, list, pc, tod, tp>>
rtcVars    == <<ticks, cc, matched, match, sure, lost, rtcTod0, tod0Frac,
                todWraps, todSecs, reader, s0, f0, began>>
mapVars    == <<bits, wanted>>
packVars   == <<buffer, bufferIndex, bufferPointer, bufferLimit, written, got, whole>>
randVars   == <<read, write, count, data, drawn, given>>
cmdVars    == <<beenHere, CR, line, ran, last>>
vars == <<part, tempusVars, rtcVars, mapVars, packVars, randVars, cmdVars>>

Tempus   == INSTANCE Tempus
Rtc      == INSTANCE Rtc WITH tod0 <- rtcTod0
ChunkMap == INSTANCE ChunkMap
BitPack  == INSTANCE BitPack
Rand     == INSTANCE Rand
CommandLine == INSTANCE CommandLine

ASSUME PartsAssumption ==
    /\ Tempus!TempusAssumption
    /\ Rtc!RtcAssumption
    /\ ChunkMap!MapAssumption
    /\ BitPack!PackAssumption
    /\ Rand!RandAssumption
    /\ CommandLine!CommandAssumption

Init ==
    /\ part \in {"tempus", "rtc", "map", "pack", "rand", "cmd"}
    /\ Tempus!Init /\ Rtc!Init /\ ChunkMap!Init
    /\ BitPack!Init /\ Rand!Init /\ CommandLine!Init

\* A step of one part.
TempusRuns ==
    /\ part = "tempus"
    /\ UNCHANGED <<part, rtcVars, mapVars, packVars, randVars, cmdVars>>
RtcRuns ==
    /\ part = "rtc"
    /\ UNCHANGED <<part, tempusVars, mapVars, packVars, randVars, cmdVars>>
MapRuns ==
    /\ part = "map"
    /\ UNCHANGED <<part, tempusVars, rtcVars, packVars, randVars, cmdVars>>
PackRuns ==
    /\ part = "pack"
    /\ UNCHANGED <<part, tempusVars, rtcVars, mapVars, randVars, cmdVars>>
RandRuns ==
    /\ part = "rand"
    /\ UNCHANGED <<part, tempusVars, rtcVars, mapVars, packVars, cmdVars>>
CommandRuns ==
    /\ part = "cmd"
    /\ UNCHANGED <<part, tempusVars, rtcVars, mapVars, packVars, randVars>>

Next ==
    \/ TempusRuns /\ Tempus!Next
    \/ RtcRuns /\ Rtc!Next
    \/ MapRuns /\ ChunkMap!Next
    \/ PackRuns /\ BitPack!Next
    \/ RandRuns /\ Rand!Next
    \/ CommandRuns /\ CommandLine!Next

\* The super loop calls TempusMagnaCirculi every time round; callbacks return.
Spec == Init /\ [][Next]_vars /\ WF_vars(TempusRuns /\ Tempus!TempusMagnaCirculi)

-----------------------------------------------------------------------------
\* The types of every part; the callout list is sorted and holds no callout
\* twice, and no bit of the map lies past its bytes.
PartsTypeOK ==
    /\ Tempus!TypeOK /\ Tempus!ListSound
    /\ Rtc!TypeOK
    /\ ChunkMap!TypeOK
    /\ BitPack!TypeOK
    /\ Rand!TypeOK
    /\ CommandLine!TypeOK

\* Whatever callbacks do to the list that is being run, no callout is lost,
\* run twice, run early or run before an earlier one, and those of the same
\* second run in the order they were scheduled (tempus.c:80).
IsCalloutService == Tempus!IsCalloutService

\* A callout that is due is run, unless somebody changes or deletes it.
EventuallyRun == Tempus!EventuallyRun

\* The clock never shows a time to come, and however late its handler was is
\* behind by less than the interval between matches once that is done, and by a
\* wrap for each match CC was written too late for (rtc.c:227, rtc.c:281).
ClockIsRight == Rtc!ClockIsRight

\* GetTODZero64 returns a time the clock showed during the call (rtc.c:109).
ReadsARealTime == Rtc!ReadsARealTime

\* The chunk map holds the slots that were set and not cleared, and answers
\* from them, wherever ranges and the map end in a byte (map.c:281).
TracksSlots == ChunkMap!TracksSlots /\ ChunkMap!AnswersRight

\* A record read back whole gives the fields that were packed; one that lost a
\* word is found too short (store.c:546, store.c:817).
ReadsWhatWasWritten == BitPack!ReadsWhatWasWritten

\* Every byte drawn from the soft device's pool is given out once or waits,
\* wherever the buffer's ends meet (rand.c:134).
GivesEachByteOnce == Rand!GivesEachByteOnce

\* Each line typed runs as the words it holds, once (cmd.c:335).
RunsTheLine == CommandLine!RunsTheLine
=============================================================================
