---------------------------- MODULE FlashService ----------------------------
(***************************************************************************)
(* What the storage manager may rely on when it schedules a flash          *)
(* operation (store.c, flashErase and flashWrite): one operation at a time *)
(* is outstanding; the words of a write reach the flash in address order;  *)
(* flashComplete is set only when the whole operation is in the flash; a   *)
(* power loss forgets the operation and keeps what already landed.         *)
(*                                                                         *)
(* The flash is NOR: only an erase turns a word back to Erased, and a word *)
(* programmed twice with different values holds neither of them.  A page   *)
(* erase is one step (the assumption of store.c:697-699).                  *)
(***************************************************************************)
EXTENDS Integers, Sequences

CONSTANTS PageCount,  \* number of erasable pages
          PageWords,  \* words in a page (OQ_FLASH_PAGE / 4)
          Word,       \* what a word of flash can hold
          Erased,     \* the word 0xffffffff
          Garbled,    \* a word programmed twice with different values
          Bursts      \* the sequences of words callers write

VARIABLES flash,         \* the contents of every word
          request,       \* the operation outstanding, NoRequest if none
          flashComplete  \* the flag of the same name in store.c

flashVars == <<flash, request, flashComplete>>

Addr == 0 .. PageCount * PageWords - 1
PageOf(a) == a \div PageWords

NoRequest == [op |-> "none", at |-> 0, words |-> <<>>]
EraseRequest(a) == [op |-> "erase", at |-> a, words |-> <<>>]
WriteRequest(a, ws) == [op |-> "write", at |-> a, words |-> ws]

Request == [op : {"none", "erase", "write"}, at : Addr, words : Seq(Word)]

-----------------------------------------------------------------------------
\* Program one word: flash bits go from 1 to 0 only.
Program(old, new) ==
    CASE old = Erased -> new
      [] old = new    -> old
      [] OTHER        -> Garbled

\* The flash after the first k words of a write landed.
Written(f, r, k) ==
    [a \in DOMAIN f |->
        IF a - r.at \in 0 .. k - 1 THEN Program(f[a], r.words[a - r.at + 1])
                                   ELSE f[a]]

\* The flash after the page holding r.at is erased.
ErasedPage(f, r) ==
    [a \in DOMAIN f |-> IF PageOf(a) = PageOf(r.at) THEN Erased ELSE f[a]]

\* The flash once all of r is in it.
Applied(f, r) ==
    CASE r.op = "erase" -> ErasedPage(f, r)
      [] r.op = "write" -> Written(f, r, Len(r.words))
      [] OTHER          -> f

-----------------------------------------------------------------------------
FlashInit ==
    /\ flash = [a \in Addr |-> Erased]
    /\ request = NoRequest
    /\ flashComplete = FALSE

\* flashErase(addr): schedule a page erase.
FlashErase(a) ==
    /\ request' = EraseRequest(a)
    /\ flashComplete' = FALSE
    /\ UNCHANGED flash

\* flashWrite(dst, src, cnt): schedule a write of the words ws.
FlashWrite(a, ws) ==
    /\ request' = WriteRequest(a, ws)
    /\ flashComplete' = FALSE
    /\ UNCHANGED flash

\* Part of a write, or an erase that is not yet reported, lands.
FlashProgress ==
    /\ \/ /\ request.op = "write"
          /\ \E k \in 1 .. Len(request.words) : flash' = Written(flash, request, k)
       \/ /\ request.op = "erase"
          /\ flash' = ErasedPage(flash, request)
    /\ UNCHANGED <<request, flashComplete>>

\* Mutant of FlashFinish: completion is never reported.
BugNeverComplete ==
    /\ request.op # "none"
    /\ flash' = Applied(flash, request)
    /\ request' = NoRequest
    /\ UNCHANGED flashComplete

\* The operation is reported complete, with all of it in the flash.
FlashFinish ==
    /\ request.op # "none"
    /\ flash' = Applied(flash, request)
    /\ request' = NoRequest
    /\ flashComplete' = TRUE

\* Power is lost: RAM restarts from zero, the flash keeps what landed.
FlashPowerLoss ==
    /\ request' = NoRequest
    /\ flashComplete' = FALSE
    /\ UNCHANGED flash

-----------------------------------------------------------------------------
(* The service on its own, for any well-behaved caller: one operation at a *)
(* time, a write only where its first word is erased and inside the flash. *)
CanWrite(a, ws) ==
    /\ request = NoRequest
    /\ a + Len(ws) - 1 \in Addr
    /\ flash[a] = Erased

ServiceNext ==
    \/ \E a \in Addr : request = NoRequest /\ FlashErase(a)
    \/ \E a \in Addr, ws \in Bursts : CanWrite(a, ws) /\ FlashWrite(a, ws)
    \/ FlashProgress
    \/ FlashFinish
    \/ FlashPowerLoss

ServiceSpec == FlashInit /\ [][ServiceNext]_flashVars
=============================================================================
