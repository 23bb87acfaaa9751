------------------------------- MODULE FlashOp ------------------------------
(***************************************************************************)
(* The retry engine under every flash operation: flashErase, flashWrite    *)
(* and StoreFlashed (store.c:279-487), with handleSocEvents (main.c:245)   *)
(* handing it the soft device's events.                                    *)
(*                                                                         *)
(* The soft device is external.  It accepts one operation, may land any    *)
(* prefix of it, and posts one event: success only when all of it landed,  *)
(* error whenever it found no time slot.  After FlashTries retries the     *)
(* code writes the flash itself.                                           *)
(***************************************************************************)
EXTENDS Integers, Sequences

CONSTANTS PageCount, PageWords, Word, Erased, Garbled,
          FlashTries,  \* retries through the soft device (4 in the code)
          Bursts       \* the word sequences callers write

ASSUME FlashOpAssumption ==
    /\ PageCount \in Nat \ {0}
    /\ PageWords \in Nat \ {0}
    /\ Erased \in Word /\ Garbled \in Word /\ Garbled # Erased
    /\ FlashTries \in Nat
    /\ Bursts \subseteq Seq(Word) \ {<<>>}

VARIABLES flash, flashComplete,
          flashOp,        \* flashEraseOp / flashWriteOp, with address and source
          flashTries,     \* soft device retries left
          sd              \* the soft device: "idle", "busy", or its posted event

vars == <<flash, flashComplete, flashOp, flashTries, sd>>

\* The operation is outstanding until flashComplete says otherwise.
Outstanding == flashOp.op # "none" /\ ~flashComplete

Service == INSTANCE FlashService WITH
    request <- IF Outstanding THEN flashOp
               ELSE [op |-> "none", at |-> 0, words |-> <<>>]

Addr == Service!Addr

TypeOK ==
    /\ flash \in [Addr -> Word]
    /\ flashComplete \in BOOLEAN
    /\ flashOp \in Service!Request
    /\ flashTries \in 0 .. FlashTries
    /\ sd \in {"idle", "busy", "ok", "error"}

Init ==
    /\ flash = [a \in Addr |-> Erased]
    /\ flashComplete = FALSE
    /\ flashOp = Service!NoRequest
    /\ flashTries = 0
    /\ sd = "idle"

-----------------------------------------------------------------------------
\* Mutant of Schedule: the flag of the last operation is not cleared.
BugKeepsFlag(r) ==
    /\ flashOp' = r
    /\ flashTries' = FlashTries
    /\ sd' = "busy"
    /\ UNCHANGED <<flash, flashComplete>>

\* What flashErase and flashWrite have in common: remember the operation so
\* that it can be restarted, then hand it to the soft device.
Schedule(r) ==
    /\ flashComplete' = FALSE
    /\ flashOp' = r
    /\ flashTries' = FlashTries
    /\ sd' = "busy"
    /\ UNCHANGED flash

\* The super loop schedules an operation only when none is outstanding.
FlashErase(a) ==
    /\ ~Outstanding
    /\ Schedule(Service!EraseRequest(a))

FlashWrite(a, ws) ==
    /\ ~Outstanding
    /\ a + Len(ws) - 1 \in Addr
    /\ flash[a] = Erased
    /\ Schedule(Service!WriteRequest(a, ws))

\* The soft device lands some of the operation.
SdLand ==
    /\ sd = "busy"
    /\ \/ /\ flashOp.op = "write"
          /\ \E k \in 1 .. Len(flashOp.words) :
                flash' = Service!Written(flash, flashOp, k)
       \/ /\ flashOp.op = "erase"
          /\ flash' = Service!ErasedPage(flash, flashOp)
    /\ UNCHANGED <<flashComplete, flashOp, flashTries, sd>>

\* The soft device finished and posts NRF_EVT_FLASH_OPERATION_SUCCESS.
SdSucceed ==
    /\ sd = "busy"
    /\ flash' = Service!Applied(flash, flashOp)
    /\ sd' = "ok"
    /\ UNCHANGED <<flashComplete, flashOp, flashTries>>

\* The soft device gives up and posts NRF_EVT_FLASH_OPERATION_ERROR.
SdFail ==
    /\ sd = "busy"
    /\ sd' = "error"
    /\ UNCHANGED <<flash, flashComplete, flashOp, flashTries>>

\* StoreFlashed(true).
FlashedOk ==
    /\ sd = "ok"
    /\ sd' = "idle"
    /\ flashComplete' = TRUE
    /\ UNCHANGED <<flash, flashOp, flashTries>>

\* Mutants of FlashedRetry: it does not count the tries, or counts below zero.
BugRetryForever ==
    /\ sd = "error" /\ ~flashComplete
    /\ sd' = "busy"
    /\ UNCHANGED <<flash, flashComplete, flashOp, flashTries>>
BugRetryBelowZero ==
    /\ sd = "error" /\ ~flashComplete
    /\ flashTries' = flashTries - 1
    /\ sd' = "busy"
    /\ UNCHANGED <<flash, flashComplete, flashOp>>

\* StoreFlashed(false) with retries left: the same operation again.
FlashedRetry ==
    /\ sd = "error"
    /\ ~flashComplete
    /\ flashTries > 0
    /\ flashTries' = flashTries - 1
    /\ sd' = "busy"
    /\ UNCHANGED <<flash, flashComplete, flashOp>>

\* Mutants of FlashedRaw: it gives up, or does not raise flashComplete.
BugRawGivesUp ==
    /\ sd = "error" /\ ~flashComplete /\ flashTries = 0
    /\ flashComplete' = TRUE
    /\ sd' = "idle"
    /\ UNCHANGED <<flash, flashOp, flashTries>>
BugRawForgetsFlag ==
    /\ sd = "error" /\ ~flashComplete /\ flashTries = 0
    /\ flash' = Service!Applied(flash, flashOp)
    /\ sd' = "idle"
    /\ UNCHANGED <<flashComplete, flashOp, flashTries>>

\* StoreFlashed(false) with none left: flashEraseRaw or flashWriteRaw.
FlashedRaw ==
    /\ sd = "error"
    /\ ~flashComplete
    /\ flashTries = 0
    /\ flash' = Service!Applied(flash, flashOp)
    /\ flashComplete' = TRUE
    /\ sd' = "idle"
    /\ UNCHANGED <<flashOp, flashTries>>

\* Power fails at any point; a raw write may be cut short like any other.
PowerLoss ==
    /\ flashComplete' = FALSE
    /\ flashOp' = Service!NoRequest
    /\ flashTries' = 0
    /\ sd' = "idle"
    /\ UNCHANGED flash

Callers ==
    \/ \E a \in Addr : FlashErase(a)
    \/ \E a \in Addr, ws \in Bursts : FlashWrite(a, ws)

StoreFlashed == FlashedOk \/ FlashedRetry \/ FlashedRaw

Next == Callers \/ SdLand \/ SdSucceed \/ SdFail \/ StoreFlashed \/ PowerLoss

Spec == Init /\ [][Next]_vars

\* The super loop polls for events for ever, and the soft device answers
\* every operation it accepted.
FairSpec == Spec /\ WF_vars(StoreFlashed) /\ WF_vars(SdSucceed \/ SdFail)

-----------------------------------------------------------------------------
\* An outstanding operation is always in somebody's hands: the soft device
\* is working on it or its event waits to be polled.  Otherwise the super
\* loop would wait for flashComplete for ever.
NeverOrphaned == Outstanding <=> sd # "idle"

\* Success is only ever reported for an operation that is in the flash whole,
\* however many attempts it took (store.c:282-291).
CompleteIsWhole ==
    (flashComplete /\ flashOp.op # "none") => Service!Applied(flash, flashOp) = flash

\* Every scheduled operation completes or is cut off by a power loss: the
\* raw fallback bounds the retries ("We cannot tolerate a failed operation").
EventuallyComplete == Outstanding ~> ~Outstanding

\* The engine implements the service the storage manager relies on.
ImplementsService == Service!ServiceSpec
=============================================================================
