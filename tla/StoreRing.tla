------------------------------ MODULE StoreRing -----------------------------
(***************************************************************************)
(* The circular record store of store.c: the record writer wrGo, the       *)
(* start-up reader readFlash, and the part of StoreSuperLoop that drives   *)
(* them for the software-update records.                                   *)
(*                                                                         *)
(* A word of flash is abstracted to what the reader tells apart: the word  *)
(* idx of the record with identity id, a page's sequence record, erased,   *)
(* or garbled.  Word 0 of a record and a sequence record have their MSB    *)
(* set, continuation words do not.  Addresses count words from             *)
(* OQ_FLASH_STORE, so OQ_FLASH_STORE_END is PageCount * PageWords.         *)
(***************************************************************************)
EXTENDS Integers, Sequences, SequencesExt, FiniteSetsExt

CONSTANTS PageCount,   \* pages of the region
          PageWords,   \* words in a page
          RecWords,    \* record kind -> its words (the RT_ types it packs)
          BufWords,    \* ARRAY_SIZE(buffer)
          Priority,    \* the order in which IDLE looks at opFlag
          MaxRecords,  \* bound: records requested
          MaxCrashes,  \* bound: power losses
          ListAnytime  \* may "store list" come while a write is under way?

Kinds == DOMAIN RecWords
EraseStates == {"IDLE", "ERASE1", "ERASE2"}
WriteStates == {"WRITE1", "WRITE2"}

ASSUME RingAssumption ==
    /\ PageCount \in Nat /\ PageCount >= 2
    /\ PageWords \in Nat \ {0}
    /\ BufWords \in Nat
    /\ \A k \in Kinds : /\ RecWords[k] \in 1 .. BufWords - 1
                        /\ RecWords[k] < PageWords
    /\ Kinds \cap {"seq", "erased", "garbled"} = {}
    /\ Priority \in Seq(Kinds) /\ Kinds = {Priority[i] : i \in DOMAIN Priority}
    /\ MaxRecords \in Nat /\ MaxCrashes \in Nat
    /\ ListAnytime \in BOOLEAN

Erased  == [kind |-> "erased",  id |-> 0, idx |-> 0]
Garbled == [kind |-> "garbled", id |-> 0, idx |-> 1]
SeqWord(q) == [kind |-> "seq", id |-> q, idx |-> 0]
Word == [kind : Kinds \cup {"seq", "erased", "garbled"}, id : Nat, idx : Nat]

VARIABLES
    flash, request, flashComplete,   \* see FlashService
    currentWrite, sequence,          \* flash page info
    buffer,                          \* used words of buffer[]; <<>> is "empty"
    goState, needSeq,                \* wrGo's static state
    state,                           \* StoreSuperLoop's: INIT0, IDLE, WRITING
    opFlag, staging,                 \* requests waiting, and their one staging union
    log,                             \* history: ids of the records written, in order
    nextId, crashes                  \* bounds

ramVars == <<currentWrite, sequence, buffer, goState, needSeq, state, opFlag, staging>>
ghostVars == <<log, nextId, crashes>>
vars == <<flash, request, flashComplete, ramVars, ghostVars>>

StoreEnd == PageCount * PageWords

Flash == INSTANCE FlashService WITH Bursts <- {}

TypeOK ==
    /\ flash \in [Flash!Addr -> Word]
    /\ request \in Flash!Request
    /\ flashComplete \in BOOLEAN
    /\ currentWrite \in 0 .. StoreEnd
    /\ sequence \in Nat
    /\ buffer \in Seq(Word) /\ Len(buffer) <= BufWords
    /\ goState \in EraseStates \cup WriteStates \cup {"ERASE3", "WRITE3"}
    /\ needSeq \in BOOLEAN
    /\ state \in {"INIT0", "IDLE", "WRITING"}
    /\ opFlag \subseteq Kinds
    /\ staging \in 0 .. MaxRecords
    /\ log \in Seq(0 .. MaxRecords)
    /\ nextId \in 1 .. MaxRecords + 1
    /\ crashes \in 0 .. MaxCrashes

-----------------------------------------------------------------------------
(* readFlash: what a start-up scan makes of the flash f.                   *)

WordAt(f, p, i) == f[(p * PageWords) + i]

\* Where the scan of page p finds a sequence record: it stops at the first
\* sequence record, and at the first erased word.
SeqAt(f, p) ==
    {i \in 0 .. PageWords - 1 :
        /\ WordAt(f, p, i).kind = "seq"
        /\ \A j \in 0 .. i - 1 : WordAt(f, p, j).kind \notin {"seq", "erased"}}

\* The pages in use, each with its sequence number.
UsedPages(f) ==
    UNION {{[page |-> p, seq |-> WordAt(f, p, i).id] : i \in SeqAt(f, p)} :
            p \in 0 .. PageCount - 1}
Oldest(used) == CHOOSE u \in used : \A v \in used : u.seq <= v.seq
Newest(used) == CHOOSE u \in used : \A v \in used : u.seq >= v.seq

\* Mutant of Delivered: a short record is passed up.
BugDeliversShort(buf) ==
    IF buf = <<>> \/ buf[1].kind \notin Kinds THEN <<>>
    ELSE IF \A i \in DOMAIN buf : buf[i] = [buf[1] EXCEPT !.idx = i - 1]
         THEN <<buf[1].id>> ELSE <<0>>

\* importRecord: a record with all its words is passed up; a short one is
\* ignored; one mixed from several records is passed up as 0.
Delivered(buf) ==
    IF buf = <<>> \/ buf[1].kind \notin Kinds THEN <<>>
    ELSE LET n == RecWords[buf[1].kind]
         IN  IF Len(buf) < n THEN <<>>
             ELSE IF \A i \in 1 .. n : buf[i] = [buf[1] EXCEPT !.idx = i - 1]
                  THEN <<buf[1].id>> ELSE <<0>>

\* importWord, on the words collected in buf and the ids passed up in out.
\* The scan of a page stops at its first erased word.
IsHead(w) == w.idx = 0
ImportWord(st, w) ==
    IF IsHead(w)
    THEN [buf  |-> IF w = Erased THEN <<>> ELSE <<w>>,
          out  |-> st.out \o Delivered(st.buf),
          stop |-> w = Erased]
    ELSE IF st.buf = <<>> \/ Len(st.buf) = BufWords THEN st
         ELSE [st EXCEPT !.buf = Append(@, w)]

\* The ids passed up by reading all pages from the oldest to the newest,
\* then one erased word.
Readback(f) ==
    LET used  == UsedPages(f)
        first == Oldest(used).page
        words == (((Newest(used).page - first) % PageCount) + 1) * PageWords
        Import[n \in 0 .. words] ==
            IF n = 0 THEN [buf |-> <<>>, out |-> <<>>, stop |-> FALSE]
            ELSE LET st == Import[n - 1]
                 IN  IF st.stop /\ (n - 1) % PageWords # 0 THEN st
                     ELSE ImportWord([st EXCEPT !.stop = FALSE],
                                     f[((first * PageWords) + n - 1) % StoreEnd])
    IN  IF used = {} THEN <<>> ELSE ImportWord(Import[words], Erased).out

\* Mutant of ReadWritePtr: the index of the last word is counted twice.
BugPtrOneLate(f) ==
    LET used == UsedPages(f)
        p    == Newest(used).page
    IN  IF used = {} THEN 0
        ELSE (p * PageWords) + 2
             + Max({i \in 0 .. PageWords - 1 : WordAt(f, p, i).kind # "erased"})

\* newCurrentWrite: one past the last word in use of the newest page.
ReadWritePtr(f) ==
    LET used == UsedPages(f)
        p    == Newest(used).page
    IN  IF used = {} THEN 0
        ELSE (p * PageWords) + 1
             + Max({i \in 0 .. PageWords - 1 : WordAt(f, p, i).kind # "erased"})

ReadSequence(f) == IF UsedPages(f) = {} THEN 0 ELSE Newest(UsedPages(f)).seq

-----------------------------------------------------------------------------
(* wrGo, for the buffer buf in the state st it is entered with.            *)

\* cnt.  An empty buffer has bufferIndex = ARRAY_SIZE(buffer).
Count(buf) == IF buf = <<>> THEN BufWords + 1 ELSE Len(buf)

\* A pointer at the very start of a page still belongs to the page before.
Remain == IF currentWrite % PageWords = 0 THEN 0
          ELSE PageWords - (currentWrite % PageWords)
\* Mutant: the wrap misses the first page.
BugWrapsToSecond ==
    LET pe == currentWrite + Remain IN IF pe >= StoreEnd THEN PageWords ELSE pe
NextPage == LET pe == currentWrite + Remain IN IF pe >= StoreEnd THEN 0 ELSE pe

Later(st) ==
    CASE st = "IDLE"   -> "ERASE1"  [] st = "ERASE1" -> "ERASE2"
      [] st = "ERASE2" -> "ERASE3"  [] st = "WRITE1" -> "WRITE2"
      [] OTHER         -> "WRITE3"

NewPage(buf, st) == st \in EraseStates /\ Count(buf) > Remain
WrPtr(buf, st) ==
    IF NewPage(buf, st) /\ currentWrite > NextPage THEN NextPage ELSE currentWrite

\* Mutant of WithSeq: the new page gets no sequence record.
BugNoSequence(buf) == buf

\* wrSeq appends the new page's sequence record if the buffer has room.
WithSeq(buf) ==
    IF buf # <<>> /\ Len(buf) < BufWords THEN Append(buf, SeqWord(sequence + 1)) ELSE buf

\* What the flash is handed: an empty buffer still holds words nobody packed.
Burst(buf) == IF buf = <<>> THEN [i \in 1 .. BufWords + 1 |-> Garbled] ELSE buf

\* The record needs a page that is not erased: erase it and come back.
WrGoErase(buf, st) ==
    /\ NewPage(buf, st)
    /\ flash[NextPage] # Erased
    /\ Flash!FlashErase(NextPage)
    /\ goState' = Later(st)
    /\ buffer' = buf
    /\ state' = "WRITING"
    /\ UNCHANGED <<currentWrite, sequence, needSeq, log>>

\* Mutant of WrGoWrite: the next page is not looked at before it is written.
BugWritesUnerased(buf, st) ==
    LET ptr == WrPtr(buf, st)
        out == IF needSeq \/ NewPage(buf, st) THEN WithSeq(buf) ELSE buf
    IN  /\ st \in EraseStates \cup WriteStates
        /\ flash[ptr] = Erased
        /\ Flash!FlashWrite(ptr, Burst(out))
        /\ currentWrite' = ptr
        /\ buffer' = out
        /\ sequence' = IF out = buf THEN sequence ELSE sequence + 1
        /\ needSeq' = FALSE
        /\ goState' = IF st \in EraseStates THEN "WRITE1" ELSE Later(st)
        /\ state' = "WRITING"
        /\ UNCHANGED log

\* Write the whole record, with a sequence record behind it on a new page.
WrGoWrite(buf, st) ==
    LET ptr == WrPtr(buf, st)
        out == IF needSeq \/ NewPage(buf, st) THEN WithSeq(buf) ELSE buf
    IN  /\ st \in EraseStates \cup WriteStates
        /\ NewPage(buf, st) => flash[NextPage] = Erased
        /\ flash[ptr] = Erased
        /\ Flash!FlashWrite(ptr, Burst(out))
        /\ currentWrite' = ptr
        /\ buffer' = out
        /\ sequence' = IF out = buf THEN sequence ELSE sequence + 1
        /\ needSeq' = FALSE
        /\ goState' = IF st \in EraseStates THEN "WRITE1" ELSE Later(st)
        /\ state' = "WRITING"
        /\ UNCHANGED log

\* The first word is in the flash, or the retries ran out: wrap it up.
WrGoDone(buf, st) ==
    /\ NewPage(buf, st) => flash[NextPage] = Erased
    /\ st \notin {"ERASE3", "WRITE3"} => flash[WrPtr(buf, st)] # Erased
    /\ currentWrite' = IF st \in {"ERASE3", "WRITE3"} THEN currentWrite
                       ELSE WrPtr(buf, st) + Count(buf)
    /\ needSeq' = (needSeq \/ NewPage(buf, st))
    /\ buffer' = <<>>
    /\ goState' = "IDLE"
    /\ state' = "IDLE"
    /\ log' = IF buf = <<>> THEN log ELSE Append(log, buf[1].id)
    /\ UNCHANGED <<flash, request, flashComplete, sequence>>

WrGo(buf, st) == WrGoErase(buf, st) \/ WrGoWrite(buf, st) \/ WrGoDone(buf, st)

-----------------------------------------------------------------------------
Init ==
    /\ Flash!FlashInit
    /\ currentWrite = 0 /\ sequence = 0
    /\ buffer = <<>> /\ goState = "IDLE" /\ needSeq = FALSE
    /\ state = "INIT0" /\ opFlag = {} /\ staging = 0
    /\ log = <<>> /\ nextId = 1 /\ crashes = 0

\* importRecord unpacks every record it meets into the staging area: what is
\* there after a scan belongs to no request.
ScannedOver == IF UsedPages(flash) = {} THEN staging ELSE 0

\* Mutant of Startup: the sequence numbers start again.
BugForgetsSequence ==
    /\ state = "INIT0"
    /\ currentWrite' = ReadWritePtr(flash)
    /\ sequence' = 0
    /\ state' = "IDLE"
    /\ staging' = ScannedOver
    /\ UNCHANGED <<flash, request, flashComplete, buffer, goState, needSeq,
                   opFlag, ghostVars>>

\* INIT0: read the whole region and continue where the last run stopped.
Startup ==
    /\ state = "INIT0"
    /\ currentWrite' = ReadWritePtr(flash)
    /\ sequence' = ReadSequence(flash)
    /\ state' = "IDLE"
    /\ staging' = ScannedOver
    /\ UNCHANGED <<flash, request, flashComplete, buffer, goState, needSeq,
                   opFlag, ghostVars>>

\* StoreSoftwareUpdateInfo, ...Chunk and ...Execute: copy the caller's data
\* into the one staging union and raise the flag.  The callers to come wait
\* until the last request has been taken up: nothing here makes them.
RequestRecord(k) ==
    /\ state # "INIT0"
    /\ opFlag = {}
    /\ nextId <= MaxRecords
    /\ staging' = nextId
    /\ opFlag' = opFlag \cup {k}
    /\ nextId' = nextId + 1
    /\ UNCHANGED <<flash, request, flashComplete, currentWrite, sequence, buffer,
                   goState, needSeq, state, log, crashes>>

\* wrNew and wr: the words of a record of kind k made from the data id.
NewRecord(k, id) == [i \in 1 .. RecWords[k] |-> [kind |-> k, id |-> id, idx |-> i - 1]]

\* IDLE takes the first flag it finds, packs the record out of the staging
\* union (wrNew, wr) and enters wrGo.
StartRecord ==
    /\ state = "IDLE"
    /\ opFlag # {}
    /\ LET k == Priority[SelectInSeq(Priority, LAMBDA p : p \in opFlag)]
       IN  /\ opFlag' = opFlag \ {k}
           /\ WrGo(NewRecord(k, staging), goState)
    /\ UNCHANGED <<staging, nextId, crashes>>

\* WRITING, entered again once the flash operation is complete.
ContinueRecord ==
    /\ state = "WRITING"
    /\ flashComplete
    /\ WrGo(buffer, goState)
    /\ UNCHANGED <<opFlag, staging, nextId, crashes>>

\* "store list": readFlash(0) runs in the command loop, on the buffer and
\* the staging area of whatever write is under way.  The soft device may or
\* may not have fetched the words it was asked to write.
ListStore ==
    /\ state # "INIT0"
    /\ ListAnytime \/ (state = "IDLE" /\ opFlag = {})
    /\ UsedPages(flash) # {}
    /\ buffer' = <<>>
    /\ staging' = ScannedOver
    /\ \E words \in {request.words, [i \in DOMAIN request.words |-> Garbled]} :
          request' = [request EXCEPT !.words = words]
    /\ UNCHANGED <<flash, flashComplete, currentWrite, sequence, goState, needSeq,
                   state, opFlag, ghostVars>>

\* The soft device lands part of the operation, or reports it complete.
FlashLands == Flash!FlashProgress /\ UNCHANGED <<ramVars, ghostVars>>
FlashReports == Flash!FlashFinish /\ UNCHANGED <<ramVars, ghostVars>>

\* Every word of the record in the buffer is in the flash.
LandedWhole ==
    \A i \in DOMAIN buffer :
        buffer[i].kind \in Kinds => \E a \in Flash!Addr : flash[a] = buffer[i]

\* Power fails: RAM is lost.  A record that had landed whole and would be
\* read back, though nobody was told, counts as written.
PowerLoss ==
    /\ crashes < MaxCrashes
    /\ crashes' = crashes + 1
    /\ Flash!FlashPowerLoss
    /\ log' = IF /\ buffer # <<>> /\ LandedWhole
                 /\ buffer[1].id \in ToSet(Readback(flash)) \ ToSet(log)
              THEN Append(log, buffer[1].id) ELSE log
    /\ currentWrite' = 0 /\ sequence' = 0
    /\ buffer' = <<>> /\ goState' = "IDLE" /\ needSeq' = FALSE
    /\ state' = "INIT0" /\ opFlag' = {} /\ staging' = 0
    /\ UNCHANGED nextId

SuperLoop ==
    \/ Startup
    \/ StartRecord
    \/ ContinueRecord

Next ==
    \/ SuperLoop
    \/ \E k \in Kinds : RequestRecord(k)
    \/ ListStore
    \/ FlashLands
    \/ FlashReports
    \/ PowerLoss

Spec == Init /\ [][Next]_vars

\* The super loop runs for ever and every flash operation is answered
\* (FlashOp, EventuallyComplete).
FairSpec == Spec /\ WF_vars(SuperLoop) /\ WF_vars(FlashReports)

-----------------------------------------------------------------------------
\* If power failed now, the next start-up would read back exactly the newest
\* records written, in order, with nothing torn, mixed or out of order;
\* the record being written is there whole or not at all (store.c:44-118).
RecoversNewest ==
    LET back == Readback(flash)
    IN  \/ IsSuffix(back, log)
        \/ buffer # <<>> /\ IsSuffix(back, Append(log, buffer[1].id))

\* The last record reported written survives everything that follows until
\* the next one is written: page changes, wrap-around and torn writes.
LastRecordSurvives ==
    log # <<>> => Last(log) \in ToSet(Readback(flash))

\* An idle store stands exactly where a restart would put it: the write
\* pointer and the sequence number are those a scan of the flash finds.
RestartAgrees ==
    state = "IDLE" =>
        /\ ReadWritePtr(flash) = currentWrite
        /\ ReadSequence(flash) = sequence

\* wrGo only looks at the first word of its target and is never wrong: every
\* word it programs is erased or already holds that value (flash bits cannot
\* be set), and no target is found neither written nor erased, so that the
\* third tries (the XXX of store.c:622) are never needed.
NeverGarbles ==
    /\ \A a \in Flash!Addr : flash[a] # Garbled
    /\ goState \in {"IDLE", "ERASE1", "WRITE1"}

\* The records a start-up would have found in f and no longer finds in g.
Lost(f, g) == ToSet(Readback(f)) \ ToSet(Readback(g))

\* A step loses a record only by recycling the oldest page, and only if the
\* record has a word in it.
LosesOnlyOldest ==
    [][\A id \in Lost(flash, flash') :
          /\ request.op = "erase"
          /\ \E a \in Flash!Addr : /\ flash[a].id = id
                                    /\ flash[a].kind \in Kinds
                                    /\ Flash!PageOf(a) = Oldest(UsedPages(flash)).page]_flash

\* Every requested record is taken up and written unless power is lost.
EventuallyWritten == \A k \in Kinds : k \in opFlag ~> (k \notin opFlag /\ state # "WRITING")

\* The staging area is not taken for reading while a write is using it:
\* "Callers must ensure that both are not attempted at the same time"
\* (store.c:218).
StagingExclusive == state = "WRITING" => buffer # <<>>
=============================================================================
