------------------------------- MODULE MainLoop -----------------------------
(***************************************************************************)
(* The super loop of main.c around the packet buffer: it calls its parts   *)
(* in turn and, when none of them reports work, sleeps in sd_app_evt_wait  *)
(* until there has been an interrupt since it last did.  TraceSuperLoop    *)
(* takes one packet a round and always reports no work (tracer.c:396), so  *)
(* the loop sleeps with packets in the buffer.                             *)
(*                                                                         *)
(* The parts before TraceSuperLoop are one stage, in which a command may   *)
(* retune the radio; whether they report work is open.                     *)
(***************************************************************************)
EXTENDS PacketRing

VARIABLES stage,  \* "wait", or the part the loop is at: "parts", "trace"
          work,   \* whether a part did work in this round
          event   \* an interrupt came since the last sd_app_evt_wait

loopVars == <<stage, work, event>>
mainVars == <<vars, loopVars>>

MainTypeOK ==
    /\ TypeOK
    /\ stage \in {"wait", "parts", "trace"}
    /\ work \in BOOLEAN /\ event \in BOOLEAN

MainInit == Init /\ stage = "parts" /\ work = FALSE /\ event = FALSE

\* Every interrupt sets the event that sd_app_evt_wait waits for.
Interrupt == event' = TRUE /\ UNCHANGED <<stage, work>>

\* Mutant of RtcInterrupt: it does not wake a processor that sleeps.
BugNoWake == stage # "wait" /\ Interrupt /\ UNCHANGED vars

\* RTC2_IRQHandler, HZ times a second.
RtcInterrupt == Interrupt /\ UNCHANGED vars

\* sd_app_evt_wait
WakeUp ==
    /\ stage = "wait" /\ event
    /\ event' = FALSE
    /\ stage' = "parts" /\ work' = FALSE
    /\ UNCHANGED vars

\* CommandLoop runs FREQUENCY.
Command == stage = "parts" /\ Retune /\ UNCHANGED loopVars

\* The other parts, from TempusMagnaCirculi to RandStateMachine.
OtherParts ==
    /\ stage = "parts" /\ radio # "off"
    /\ stage' = "trace"
    /\ work' \in BOOLEAN
    /\ UNCHANGED <<vars, event>>

\* Round again, or to sleep.
NextRound == /\ stage' = IF work THEN "parts" ELSE "wait"
             /\ work' = FALSE
             /\ UNCHANGED event

\* TraceSuperLoop: take one packet and print it, if there is one.
TraceSuperLoop ==
    /\ stage = "trace"
    /\ \/ (TakePacket \/ ReadStamp \/ ReadData) /\ UNCHANGED loopVars
       \/ EndPrint /\ NextRound
       \/ reader = "idle" /\ packetCnt = 0 /\ NextRound /\ UNCHANGED vars

SuperLoop == WakeUp \/ Command \/ OtherParts \/ TraceSuperLoop

MainNext ==
    \/ Radio /\ UNCHANGED loopVars
    \/ RadioInterrupt /\ Interrupt
    \/ RtcInterrupt
    \/ SuperLoop

MainSpec == MainInit /\ [][MainNext]_mainVars

\* The processor runs, and the clock interrupts it (Rtc); the radio may fall
\* silent at any time.
FairSpec ==
    MainSpec /\ WF_mainVars(SuperLoop) /\ WF_mainVars(RtcInterrupt)

-----------------------------------------------------------------------------
\* A packet in the buffer is printed in the end: although the loop goes to
\* sleep with packets waiting (tracer.c:396), the clock's interrupts keep it
\* going round, a packet a round.
EventuallyPrinted ==
    \A n \in 0 .. MaxPackets :
        (packetCnt > 0 /\ Len(taken) = n) ~> Len(taken) > n
=============================================================================
