---------------------------- MODULE FlashOp_proofs --------------------------
(***************************************************************************)
(* The retry engine for every flash size, word, write and number of tries: *)
(* an outstanding operation is never orphaned, success is only reported    *)
(* for what is in the flash whole, and the engine implements the service   *)
(* the storage manager relies on.                                          *)
(*                                                                         *)
(* Repeating an operation is harmless because programming a word twice     *)
(* with one value is programming it once (ProgramTwice): that is why the   *)
(* engine may start again after any part of an operation has landed.       *)
(***************************************************************************)
EXTENDS FlashOp, TLAPS

None == Service!NoRequest

\* The words of a write, if there is one, are not the empty sequence.
OpShape ==
    /\ flashOp = None \/ flashOp.op \in {"erase", "write"}
    /\ flashOp.op = "write" => flashOp.words # <<>>

\* A posted success is for an operation that is in the flash.
OkIsWhole == sd = "ok" => Service!Applied(flash, flashOp) = flash

Inv == TypeOK /\ OpShape /\ NeverOrphaned /\ OkIsWhole /\ CompleteIsWhole

-----------------------------------------------------------------------------
\* Programming twice is programming once.
LEMMA ProgramTwice ==
    ASSUME NEW old, NEW new
    PROVE Service!Program(Service!Program(old, new), new) = Service!Program(old, new)
BY FlashOpAssumption DEF FlashOpAssumption, Service!Program

\* Programming leaves a word of flash.
LEMMA ProgramType ==
    ASSUME NEW old \in Word, NEW new \in Word
    PROVE Service!Program(old, new) \in Word
BY FlashOpAssumption DEF FlashOpAssumption, Service!Program

\* A write that landed in part or whole leaves a flash.
LEMMA WrittenType ==
    ASSUME NEW f \in [Addr -> Word], NEW r \in Service!Request,
           NEW k \in 0 .. Len(r.words)
    PROVE Service!Written(f, r, k) \in [Addr -> Word]
<1> SUFFICES ASSUME NEW a \in Addr
             PROVE (IF a - r.at \in 0 .. k - 1
                    THEN Service!Program(f[a], r.words[a - r.at + 1]) ELSE f[a]) \in Word
  BY DEF Service!Written
<1>1. CASE a - r.at \in 0 .. k - 1
  <2>1. r.words \in Seq(Word) /\ a \in Int /\ r.at \in Int
    BY FlashOpAssumption DEF FlashOpAssumption, Service!Request, Addr, Service!Addr
  <2>2. a - r.at + 1 \in 1 .. Len(r.words)
    BY <1>1, <2>1
  <2>3. r.words[a - r.at + 1] \in Word
    BY <2>1, <2>2
  <2> QED BY <1>1, <2>3, ProgramType
<1>2. CASE a - r.at \notin 0 .. k - 1
  BY <1>2
<1> QED BY <1>1, <1>2

\* Applying an operation to the flash leaves a flash.
LEMMA AppliedType ==
    ASSUME NEW f \in [Addr -> Word], NEW r \in Service!Request
    PROVE Service!Applied(f, r) \in [Addr -> Word]
<1>1. CASE r.op = "erase"
  <2>1. Service!ErasedPage(f, r) \in [Addr -> Word]
    BY FlashOpAssumption DEF FlashOpAssumption, Service!ErasedPage
  <2> QED BY <1>1, <2>1 DEF Service!Applied
<1>2. CASE r.op = "write"
  <2>1. Len(r.words) \in 0 .. Len(r.words)
    BY DEF Service!Request
  <2> QED BY <1>2, <2>1, WrittenType DEF Service!Applied
<1>3. CASE r.op \notin {"erase", "write"}
  BY <1>3 DEF Service!Applied
<1> QED BY <1>1, <1>2, <1>3

\* Applying an operation twice is applying it once.
LEMMA AppliedTwice ==
    ASSUME NEW f \in [Addr -> Word], NEW r \in Service!Request
    PROVE Service!Applied(Service!Applied(f, r), r) = Service!Applied(f, r)
<1>1. CASE r.op = "erase"
  <2>1. Service!ErasedPage(Service!ErasedPage(f, r), r) = Service!ErasedPage(f, r)
    BY DEF Service!ErasedPage
  <2> QED BY <1>1, <2>1 DEF Service!Applied
<1>2. CASE r.op = "write"
  <2> DEFINE g == Service!Written(f, r, Len(r.words))
  <2>1. Service!Written(g, r, Len(r.words)) = g
    BY ProgramTwice DEF Service!Written
  <2> QED BY <1>2, <2>1 DEF Service!Applied
<1>3. CASE r.op \notin {"erase", "write"}
  BY <1>3 DEF Service!Applied
<1> QED BY <1>1, <1>2, <1>3

-----------------------------------------------------------------------------
LEMMA RequestTypes ==
    /\ Service!NoRequest \in Service!Request
    /\ \A a \in Addr : Service!EraseRequest(a) \in Service!Request
    /\ \A a \in Addr, ws \in Bursts :
          Service!WriteRequest(a, ws) \in Service!Request /\ ws # <<>>
BY FlashOpAssumption
DEF FlashOpAssumption, Service!NoRequest, Service!EraseRequest, Service!WriteRequest,
    Service!Request, Addr, Service!Addr

LEMMA InitInv == Init => Inv
<1> SUFFICES ASSUME Init PROVE Inv
  OBVIOUS
<1>1. flash \in [Addr -> Word] /\ flashTries \in 0 .. FlashTries
  BY FlashOpAssumption DEF FlashOpAssumption, Init
<1>2. TypeOK
  BY <1>1, RequestTypes DEF Init, TypeOK
<1>3. sd = "idle" /\ ~flashComplete /\ flashOp.op = "none"
  BY DEF Init, Service!NoRequest
<1>4. NeverOrphaned /\ OkIsWhole /\ CompleteIsWhole
  BY <1>3 DEF NeverOrphaned, Outstanding, OkIsWhole, CompleteIsWhole
<1>5. OpShape
  BY <1>3 DEF OpShape, Init, None
<1> QED BY <1>2, <1>4, <1>5 DEF Inv

-----------------------------------------------------------------------------
\* Scheduling an operation that has the right shape keeps the invariant.
LEMMA ScheduleInv ==
    ASSUME Inv, NEW r \in Service!Request, Schedule(r),
           r.op \in {"erase", "write"}, r.op = "write" => r.words # <<>>
    PROVE Inv'
<1>1. TypeOK'
  <2>1. flash' \in [Addr -> Word] /\ flashOp' \in Service!Request
    BY DEF Inv, TypeOK, Schedule
  <2>2. flashTries' \in 0 .. FlashTries /\ sd' = "busy"
    BY FlashOpAssumption DEF FlashOpAssumption, Schedule
  <2>3. flashComplete' \in BOOLEAN
    BY DEF Schedule
  <2> QED BY <2>1, <2>2, <2>3 DEF TypeOK
<1>2. ~flashComplete' /\ flashOp' = r /\ sd' = "busy"
  BY Zenon DEF Schedule
<1>3. r.op # "none"
  OBVIOUS
<1>4. NeverOrphaned' /\ OkIsWhole' /\ CompleteIsWhole'
  BY <1>2, <1>3 DEF NeverOrphaned, Outstanding, OkIsWhole, CompleteIsWhole
<1>5. OpShape'
  BY <1>2 DEF OpShape
<1> QED BY <1>1, <1>4, <1>5 DEF Inv

\* What the soft device may have landed of an operation.
LEMMA LandType == TypeOK /\ SdLand => flash' \in [Addr -> Word]
<1> SUFFICES ASSUME TypeOK, SdLand PROVE flash' \in [Addr -> Word]
  OBVIOUS
<1>1. flash \in [Addr -> Word] /\ flashOp \in Service!Request
  BY DEF TypeOK
<1>2. ASSUME NEW k \in 1 .. Len(flashOp.words), flash' = Service!Written(flash, flashOp, k)
      PROVE flash' \in [Addr -> Word]
  <2>1. k \in 0 .. Len(flashOp.words)
    OBVIOUS
  <2> QED BY <1>1, <1>2, <2>1, WrittenType
<1>3. ASSUME flash' = Service!ErasedPage(flash, flashOp) PROVE flash' \in [Addr -> Word]
  BY <1>1, <1>3, FlashOpAssumption DEF FlashOpAssumption, Service!ErasedPage
<1> QED BY <1>2, <1>3 DEF SdLand

LEMMA NextInv == Inv /\ [Next]_vars => Inv'
<1> SUFFICES ASSUME Inv, [Next]_vars PROVE Inv'
  OBVIOUS
<1>1. TypeOK /\ OpShape /\ NeverOrphaned /\ OkIsWhole /\ CompleteIsWhole
  BY DEF Inv
<1>2. flash \in [Addr -> Word] /\ flashOp \in Service!Request
  BY <1>1 DEF TypeOK
<1>3. Service!Applied(flash, flashOp) \in [Addr -> Word]
      /\ Service!Applied(Service!Applied(flash, flashOp), flashOp)
           = Service!Applied(flash, flashOp)
  BY <1>2, AppliedType, AppliedTwice
<1>4. sd # "idle" => ~flashComplete /\ flashOp.op # "none"
  BY <1>1, Zenon DEF NeverOrphaned, Outstanding
<1>5. CASE Callers
  <2>1. ASSUME NEW a \in Addr, FlashErase(a) PROVE Inv'
    BY <2>1, RequestTypes, ScheduleInv DEF FlashErase, Service!EraseRequest
  <2>2. ASSUME NEW a \in Addr, NEW ws \in Bursts, FlashWrite(a, ws) PROVE Inv'
    BY <2>2, RequestTypes, ScheduleInv DEF FlashWrite, Service!WriteRequest
  <2> QED BY <1>5, <2>1, <2>2 DEF Callers
<1>6. CASE SdLand
  <2>1. flash' \in [Addr -> Word] /\ sd = "busy" /\ sd' = "busy"
    BY <1>1, <1>6, LandType DEF SdLand
  <2>2. UNCHANGED <<flashComplete, flashOp, flashTries>>
    BY <1>6 DEF SdLand
  <2>3. ~flashComplete' /\ flashOp'.op # "none"
    BY <1>4, <2>1, <2>2, Zenon
  <2>4. TypeOK'
    BY <1>1, <2>1, <2>2 DEF TypeOK
  <2>5. OpShape'
    BY <1>1, <2>2 DEF OpShape
  <2>6. NeverOrphaned' /\ OkIsWhole' /\ CompleteIsWhole'
    BY <2>1, <2>3 DEF NeverOrphaned, Outstanding, OkIsWhole, CompleteIsWhole
  <2> QED BY <2>4, <2>5, <2>6 DEF Inv
<1>7. CASE SdSucceed
  <2>1. flash' = Service!Applied(flash, flashOp) /\ sd = "busy" /\ sd' = "ok"
    BY <1>7 DEF SdSucceed
  <2>2. UNCHANGED <<flashComplete, flashOp, flashTries>>
    BY <1>7 DEF SdSucceed
  <2>3. ~flashComplete' /\ flashOp'.op # "none"
    BY <1>4, <2>1, <2>2, Zenon
  <2>4. TypeOK'
    BY <1>1, <1>3, <2>1, <2>2 DEF TypeOK
  <2>5. OpShape'
    BY <1>1, <2>2 DEF OpShape
  <2>6. OkIsWhole'
    BY <1>3, <2>1, <2>2 DEF OkIsWhole
  <2>7. NeverOrphaned' /\ CompleteIsWhole'
    BY <2>1, <2>3 DEF NeverOrphaned, Outstanding, CompleteIsWhole
  <2> QED BY <2>4, <2>5, <2>6, <2>7 DEF Inv
<1>8. CASE SdFail
  <2>1. sd = "busy" /\ sd' = "error"
    BY <1>8 DEF SdFail
  <2>2. UNCHANGED <<flash, flashComplete, flashOp, flashTries>>
    BY <1>8 DEF SdFail
  <2>3. ~flashComplete' /\ flashOp'.op # "none"
    BY <1>4, <2>1, <2>2, Zenon
  <2>4. TypeOK'
    BY <1>1, <2>1, <2>2 DEF TypeOK
  <2>5. OpShape'
    BY <1>1, <2>2 DEF OpShape
  <2>6. NeverOrphaned' /\ OkIsWhole' /\ CompleteIsWhole'
    BY <2>1, <2>3 DEF NeverOrphaned, Outstanding, OkIsWhole, CompleteIsWhole
  <2> QED BY <2>4, <2>5, <2>6 DEF Inv
<1>9. CASE FlashedOk
  <2>1. sd = "ok" /\ sd' = "idle" /\ UNCHANGED <<flash, flashOp, flashTries>>
    BY <1>9 DEF FlashedOk
  <2>2. flashComplete' = TRUE
    BY <1>9 DEF FlashedOk
  <2>3. TypeOK'
    BY <1>1, <2>1, <2>2 DEF TypeOK
  <2>4. OpShape' /\ OkIsWhole' /\ CompleteIsWhole'
    BY <1>1, <2>1 DEF OpShape, OkIsWhole, CompleteIsWhole
  <2>5. NeverOrphaned'
    BY <2>1, <2>2 DEF NeverOrphaned, Outstanding
  <2> QED BY <2>3, <2>4, <2>5 DEF Inv
<1>10. CASE FlashedRetry
  <2>1. sd = "error" /\ sd' = "busy" /\ flashTries > 0 /\ flashTries' = flashTries - 1
    BY <1>10 DEF FlashedRetry
  <2>2. UNCHANGED <<flash, flashComplete, flashOp>>
    BY <1>10 DEF FlashedRetry
  <2>3. ~flashComplete' /\ flashOp'.op # "none"
    BY <1>4, <2>1, <2>2, Zenon
  <2>4. flashTries' \in 0 .. FlashTries
    BY <1>1, <2>1, FlashOpAssumption DEF TypeOK, FlashOpAssumption
  <2>5. TypeOK'
    BY <1>1, <2>1, <2>2, <2>4 DEF TypeOK
  <2>6. OpShape'
    BY <1>1, <2>2 DEF OpShape
  <2>7. NeverOrphaned' /\ OkIsWhole' /\ CompleteIsWhole'
    BY <2>1, <2>3 DEF NeverOrphaned, Outstanding, OkIsWhole, CompleteIsWhole
  <2> QED BY <2>5, <2>6, <2>7 DEF Inv
<1>11. CASE FlashedRaw
  <2>1. sd' = "idle" /\ flash' = Service!Applied(flash, flashOp)
    BY <1>11 DEF FlashedRaw
  <2>2. UNCHANGED <<flashOp, flashTries>>
    BY <1>11 DEF FlashedRaw
  <2>3. flashComplete' = TRUE
    BY <1>11 DEF FlashedRaw
  <2>4. TypeOK'
    BY <1>1, <1>3, <2>1, <2>2, <2>3 DEF TypeOK
  <2>5. OpShape' /\ OkIsWhole' /\ CompleteIsWhole'
    BY <1>1, <1>3, <2>1, <2>2 DEF OpShape, OkIsWhole, CompleteIsWhole
  <2>6. NeverOrphaned'
    BY <2>1, <2>3 DEF NeverOrphaned, Outstanding
  <2> QED BY <2>4, <2>5, <2>6 DEF Inv
<1>12. CASE PowerLoss
  <2>1. sd' = "idle" /\ flashOp' = Service!NoRequest /\ flashTries' = 0 /\ flash' = flash
    BY <1>12 DEF PowerLoss
  <2>2. flashComplete' = FALSE
    BY <1>12 DEF PowerLoss
  <2>3. flashOp'.op = "none"
    BY <2>1 DEF Service!NoRequest
  <2>4. TypeOK'
    <3>1. flash' \in [Addr -> Word] /\ flashOp' \in Service!Request
      BY <1>2, <2>1, RequestTypes
    <3>2. flashTries' \in 0 .. FlashTries
      BY <2>1, FlashOpAssumption DEF FlashOpAssumption
    <3>3. flashComplete' \in BOOLEAN
      BY <2>2
    <3> QED BY <2>1, <3>1, <3>2, <3>3 DEF TypeOK
  <2>5. OpShape' /\ OkIsWhole'
    BY <2>1, <2>3 DEF OpShape, OkIsWhole, None
  <2>6. NeverOrphaned' /\ CompleteIsWhole'
    BY <2>1, <2>2, <2>3 DEF NeverOrphaned, Outstanding, CompleteIsWhole
  <2> QED BY <2>4, <2>5, <2>6 DEF Inv
<1>13. CASE UNCHANGED vars
  BY <1>1, <1>13
  DEF vars, Inv, TypeOK, OpShape, NeverOrphaned, Outstanding, OkIsWhole, CompleteIsWhole
<1> QED BY <1>5, <1>6, <1>7, <1>8, <1>9, <1>10, <1>11, <1>12, <1>13
    DEF Next, StoreFlashed

\* Every variable keeps its type.
THEOREM TypeCorrect == Spec => []TypeOK
<1>1. Inv => TypeOK
  BY DEF Inv
<1> QED BY InitInv, NextInv, <1>1, PTL DEF Spec

\* An outstanding operation is always in the soft device's hands or about to
\* be retried: the super loop never waits for an event nobody will post.
THEOREM Unorphaned == Spec => []NeverOrphaned
<1>1. Inv => NeverOrphaned
  BY DEF Inv
<1> QED BY InitInv, NextInv, <1>1, PTL DEF Spec

\* flashComplete is only ever set for an operation that is in the flash
\* whole, through any number of partial attempts (store.c:282-291).
THEOREM Whole == Spec => []CompleteIsWhole
<1>1. Inv => CompleteIsWhole
  BY DEF Inv
<1> QED BY InitInv, NextInv, <1>1, PTL DEF Spec

-----------------------------------------------------------------------------
(* The refinement: what the soft device and StoreFlashed do to an          *)
(* operation is progress, completion, or nothing the service can see.      *)
SvcRequest == IF Outstanding THEN flashOp ELSE [op |-> "none", at |-> 0, words |-> <<>>]
SvcVars == <<flash, SvcRequest, flashComplete>>

LEMMA InitRefines == Init => Service!FlashInit
<1> SUFFICES ASSUME Init PROVE Service!FlashInit
  OBVIOUS
<1>1. ~Outstanding
  BY DEF Init, Outstanding, Service!NoRequest
<1> QED BY <1>1 DEF Init, Service!FlashInit, Service!NoRequest, Addr

\* A scheduled operation is the service's request.
LEMMA ScheduleRefines ==
    ASSUME NEW r, r.op # "none", Schedule(r)
    PROVE SvcRequest' = r /\ flashComplete' = FALSE /\ flash' = flash
<1>1. flashOp' = r /\ flash' = flash
  BY DEF Schedule
<1>2. flashComplete' = FALSE
  BY DEF Schedule
<1>3. Outstanding'
  BY <1>1, <1>2 DEF Outstanding
<1> QED BY <1>1, <1>2, <1>3 DEF SvcRequest

LEMMA NextRefines == Inv /\ [Next]_vars => [Service!ServiceNext]_SvcVars
<1> SUFFICES ASSUME Inv, [Next]_vars PROVE Service!ServiceNext \/ UNCHANGED SvcVars
  OBVIOUS
<1>1. TypeOK /\ OpShape /\ NeverOrphaned /\ OkIsWhole
  BY DEF Inv
<1>2. sd # "idle" => SvcRequest = flashOp /\ flashOp.op # "none" /\ Outstanding
  BY <1>1, Zenon DEF NeverOrphaned, Outstanding, SvcRequest
<1>3. ~Outstanding => SvcRequest = Service!NoRequest
  BY DEF SvcRequest, Service!NoRequest
<1>4. CASE Callers
  <2>1. ASSUME NEW a \in Addr, FlashErase(a) PROVE Service!ServiceNext
    <3>1. SvcRequest = Service!NoRequest
      BY <1>3, <2>1 DEF FlashErase
    <3>2. /\ SvcRequest' = Service!EraseRequest(a)
          /\ flashComplete' = FALSE /\ flash' = flash
      BY <2>1, ScheduleRefines DEF FlashErase, Service!EraseRequest
    <3>3. Service!FlashErase(a)
      BY <3>2 DEF Service!FlashErase, SvcRequest
    <3> QED BY <2>1, <3>1, <3>3 DEF Service!ServiceNext, SvcRequest, Addr
  <2>2. ASSUME NEW a \in Addr, NEW ws \in Bursts, FlashWrite(a, ws)
        PROVE Service!ServiceNext
    <3>1. SvcRequest = Service!NoRequest
      BY <1>3, <2>2 DEF FlashWrite
    <3>2. /\ SvcRequest' = Service!WriteRequest(a, ws)
          /\ flashComplete' = FALSE /\ flash' = flash
      BY <2>2, ScheduleRefines DEF FlashWrite, Service!WriteRequest
    <3>3. Service!FlashWrite(a, ws)
      BY <3>2 DEF Service!FlashWrite, SvcRequest
    <3>4. Service!CanWrite(a, ws)
      BY <2>2, <3>1 DEF FlashWrite, Service!CanWrite, SvcRequest, Addr
    <3> QED BY <2>2, <3>3, <3>4 DEF Service!ServiceNext, Addr
  <2> QED BY <1>4, <2>1, <2>2 DEF Callers
<1>5. ASSUME sd # "idle", sd' # "idle", UNCHANGED <<flashOp, flashComplete>>
      PROVE UNCHANGED <<SvcRequest, flashComplete>>
  <2>1. Outstanding'
    BY <1>2, <1>5, Zenon DEF Outstanding
  <2> QED BY <1>2, <1>5, <2>1 DEF SvcRequest
<1>6. CASE SdLand
  <2>1. UNCHANGED <<SvcRequest, flashComplete>>
    BY <1>5, <1>6 DEF SdLand
  <2>2. SvcRequest = flashOp
    BY <1>2, <1>6 DEF SdLand
  <2> QED BY <1>6, <2>1, <2>2 DEF SdLand, Service!ServiceNext, Service!FlashProgress, SvcRequest
<1>7. CASE SdSucceed
  <2>1. UNCHANGED <<SvcRequest, flashComplete>>
    BY <1>5, <1>7 DEF SdSucceed
  <2>2. SvcRequest = flashOp /\ flashOp.op # "none"
    BY <1>2, <1>7 DEF SdSucceed
  <2>3. flash' = Service!Applied(flash, flashOp)
    BY <1>7 DEF SdSucceed
  <2>4. CASE flashOp.op = "erase"
    BY <2>1, <2>2, <2>3, <2>4
    DEF Service!Applied, Service!ServiceNext, Service!FlashProgress, SvcRequest
  <2>5. CASE flashOp.op = "write"
    <3>1. Len(flashOp.words) \in 1 .. Len(flashOp.words)
      BY <1>1, <2>5 DEF OpShape, TypeOK, Service!Request
    <3>2. flash' = Service!Written(flash, flashOp, Len(flashOp.words))
      BY <2>3, <2>5 DEF Service!Applied
    <3> QED BY <2>1, <2>2, <2>5, <3>1, <3>2
        DEF Service!ServiceNext, Service!FlashProgress, SvcRequest
  <2> QED BY <1>1, <2>2, <2>4, <2>5 DEF OpShape, None, Service!NoRequest
<1>8. CASE SdFail
  <2>1. UNCHANGED <<SvcRequest, flashComplete>>
    BY <1>5, <1>8 DEF SdFail
  <2> QED BY <1>8, <2>1 DEF SdFail, SvcVars
<1>9. CASE FlashedRetry
  <2>1. UNCHANGED <<SvcRequest, flashComplete>>
    BY <1>5, <1>9 DEF FlashedRetry
  <2> QED BY <1>9, <2>1 DEF FlashedRetry, SvcVars
<1>10. ASSUME FlashedOk \/ FlashedRaw PROVE Service!ServiceNext
  <2>1. SvcRequest = flashOp /\ flashOp.op # "none"
    BY <1>2, <1>10 DEF FlashedOk, FlashedRaw
  <2>2. flashComplete' = TRUE
    BY <1>10 DEF FlashedOk, FlashedRaw
  <2>3. SvcRequest' = Service!NoRequest
    BY <2>2 DEF SvcRequest, Outstanding, Service!NoRequest
  <2>4. flash' = Service!Applied(flash, flashOp)
    BY <1>1, <1>10 DEF FlashedOk, FlashedRaw, OkIsWhole
  <2>5. Service!FlashFinish
    BY <2>1, <2>2, <2>3, <2>4 DEF Service!FlashFinish, SvcRequest
  <2> QED BY <2>5 DEF Service!ServiceNext
<1>11. CASE PowerLoss
  <2>1. flashComplete' = FALSE /\ flash' = flash /\ flashOp' = Service!NoRequest
    BY <1>11 DEF PowerLoss
  <2>2. SvcRequest' = Service!NoRequest
    BY <2>1 DEF SvcRequest, Outstanding, Service!NoRequest
  <2>3. Service!FlashPowerLoss
    BY <2>1, <2>2 DEF Service!FlashPowerLoss, SvcRequest
  <2> QED BY <2>3 DEF Service!ServiceNext
<1>12. CASE UNCHANGED vars
  BY <1>12 DEF vars, SvcVars, SvcRequest, Outstanding
<1> QED BY <1>4, <1>6, <1>7, <1>8, <1>9, <1>10, <1>11, <1>12 DEF Next, StoreFlashed

\* The retry engine implements the flash service, so whatever StoreRing and
\* ConfigStore conclude from the service holds with the engine under it.
THEOREM Refines == Spec => ImplementsService
<1>1. Inv /\ [Next]_vars => [Service!ServiceNext]_(Service!flashVars)
  BY NextRefines DEF SvcVars, SvcRequest, Service!flashVars
<1> QED BY InitInv, NextInv, InitRefines, <1>1, PTL
    DEF Spec, ImplementsService, Service!ServiceSpec
=============================================================================
