------------------------- MODULE BootLoader_proofs -------------------------
(***************************************************************************)
(* For any updates, any geometry of the flash and any number of power      *)
(* losses, the boot loader programs nothing but erased flash and erases no *)
(* page that holds its part of the update already; and for well-formed     *)
(* updates it implements the promise of SoftwareUpdate.                    *)
(***************************************************************************)
EXTENDS BootLoader, TLAPS

\* Record i is a chunk of the update being installed.
Mine(i) == store[i].kind = "data" /\ SaneChunk(store[i])

\* Every chunk of the update is in the flash, or its page is marked.
Marked(i) ==
    \/ flash[store[i].addr] = suInfo.data[store[i].addr]
    \/ PageOf(store[i].addr) \in pages

Loading == op \in {"COMPARE", "ERASE", "WRITE"}

LoaderType ==
    /\ store \in Seq(Record)
    /\ op \in {"run", "SEARCH", "COMPARE", "ERASE", "WRITE"}
    /\ pos \in Nat \ {0}
    /\ busy => op \in {"ERASE", "WRITE"}
    /\ DOMAIN flash = Chunk
    /\ op = "SEARCH" => suInfo = NoUpdate \/ (suInfo \in Updates /\ SaneInfo(suInfo))
    /\ Loading => suInfo \in Updates /\ SaneInfo(suInfo)

\* The compare pass has marked what it has seen to be missing.
CompareSound ==
    op = "COMPARE" => \A i \in DOMAIN store : i < pos /\ Mine(i) => Marked(i)

\* The marked pages behind the erase loop are erased.
EraseSound ==
    op = "ERASE" =>
        /\ \A i \in DOMAIN store : Mine(i) => Marked(i)
        /\ \A c \in Chunk : PageOf(c) \in pages /\ 1 <= PageOf(c) /\ PageOf(c) < pos
                            => flash[c] = Erased
        /\ busy => pos \in pages

\* In the write pass every chunk of the update is there or erased, but for the
\* one being written.
WriteSound ==
    op = "WRITE" =>
        /\ \A i \in DOMAIN store : Mine(i) =>
              \/ flash[store[i].addr] \in {suInfo.data[store[i].addr], Erased}
              \/ busy /\ store[i].addr = store[pos].addr
        /\ busy => /\ pos \in DOMAIN store /\ Mine(pos)
                   /\ flash[store[pos].addr] = Torn

\* The inductive invariant.
IInv == LoaderType /\ NeverOverprograms /\ CompareSound /\ EraseSound /\ WriteSound

-----------------------------------------------------------------------------
(* Pages, chunks and records                                               *)

LEMMA DivLow == ASSUME NEW a \in Nat, NEW b \in Nat \ {0}, a >= b PROVE a \div b >= 1
BY Z3

LEMMA DivHigh ==
    ASSUME NEW a \in Nat, NEW b \in Nat \ {0}, NEW q \in Nat, a < q * b
    PROVE  a \div b < q
BY Z3

\* A record of the update in suInfo holds one of its chunks.
LEMMA MineIs ==
    ASSUME LoaderType, Loading, NEW i \in DOMAIN store, Mine(i)
    PROVE  /\ store[i].u = suInfo
           /\ store[i].addr \in DOMAIN suInfo.data
           /\ store[i].addr \in Chunk
           /\ 1 <= PageOf(store[i].addr)
           /\ store[i].addr < MapEnd
           /\ suInfo.data[store[i].addr] # Garbled
<1>1. suInfo \in Updates /\ SaneInfo(suInfo)
  BY DEF LoaderType
<1>2. store[i] \in Record
  BY DEF LoaderType
<1>3. PICK u \in Updates : store[i] \in RecordsOf(u)
  BY <1>2 DEF Record
<1>4. store[i].kind = "data" /\ store[i].u.seq = suInfo.seq /\ store[i].addr >= suInfo.start
  BY DEF Mine, SaneChunk
<1>5. PICK c \in DOMAIN u.data : store[i] = [kind |-> "data", u |-> u, addr |-> c]
  BY <1>3, <1>4 DEF RecordsOf
<1>6. store[i].u = u /\ store[i].addr = c
  BY <1>5
<1>7. u = suInfo
  BY <1>1, <1>4, <1>6, LoaderAssumption DEF LoaderAssumption
<1>8. c \in Chunk /\ c < MapEnd /\ c \in Nat /\ suInfo.data[c] # Garbled
  BY <1>1, <1>5, <1>7, LoaderAssumption DEF LoaderAssumption, Chunk
<1>9. c >= PageChunks
  BY <1>1, <1>4, <1>6, <1>8, LoaderAssumption DEF LoaderAssumption, SaneInfo
<1>10. 1 <= PageOf(c)
  BY <1>8, <1>9, DivLow, LoaderAssumption DEF LoaderAssumption, PageOf
<1> QED BY <1>5, <1>6, <1>7, <1>8, <1>10

-----------------------------------------------------------------------------
(* The first state, and the steps outside the passes that program          *)

LEMMA InitSound == Init => IInv
<1> SUFFICES ASSUME Init PROVE IInv
  OBVIOUS
<1>1. LoaderType
  BY LoaderAssumption DEF Init, LoaderType, LoaderAssumption, Chunk, Loading
<1>2. NeverOverprograms
  BY LoaderAssumption DEF Init, NeverOverprograms, LoaderAssumption, Chunk
<1> QED BY <1>1, <1>2 DEF Init, IInv, CompareSound, EraseSound, WriteSound

\* Outside the three passes over an update there is nothing to keep but types.
LEMMA QuietStep ==
    ASSUME IInv, LoaderType', flash' = flash, ~Loading'
    PROVE  IInv'
BY DEF IInv, NeverOverprograms, Loading, CompareSound, EraseSound, WriteSound

LEMMA RunSteps ==
    ASSUME IInv, (\E r \in Record : StoreRecord(r)) \/ Recycle \/ Reset \/ PowerLoss
    PROVE  IInv'
<1>1. LoaderType /\ flash' = flash /\ ~Loading'
  BY DEF IInv, StoreRecord, Recycle, Reset, PowerLoss, StartLoader, Loading
<1>2. store' \in Seq(Record)
  <2>1. store \in Seq(Record)
    BY <1>1 DEF LoaderType
  <2>2. ASSUME NEW r \in Record, StoreRecord(r) PROVE store' \in Seq(Record)
    BY <2>1, <2>2 DEF StoreRecord
  <2>3. CASE Recycle
    BY <2>1, <2>3 DEF Recycle
  <2>4. CASE Reset \/ PowerLoss
    BY <2>1, <2>4 DEF Reset, PowerLoss, StartLoader
  <2> QED BY <2>2, <2>3, <2>4
<1>3. op' \in {"run", "SEARCH"} /\ pos' \in Nat \ {0} /\ ~busy'
      /\ (op' = "SEARCH" => suInfo' = NoUpdate)
  <2>1. CASE (\E r \in Record : StoreRecord(r)) \/ Recycle
    <3>1. op = "run" /\ op' = op /\ pos' = pos /\ busy' = busy
      BY <2>1 DEF StoreRecord, Recycle
    <3> QED BY <1>1, <3>1 DEF LoaderType
  <2>2. CASE Reset \/ PowerLoss
    BY <2>2 DEF Reset, PowerLoss, StartLoader
  <2> QED BY <2>1, <2>2
<1>4. LoaderType'
  BY <1>1, <1>2, <1>3 DEF LoaderType, Loading
<1> QED BY <1>1, <1>4, QuietStep

LEMMA RecordIs == ASSUME NEW r \in Record PROVE r.u \in Updates
BY DEF Record, RecordsOf

LEMMA SearchSteps ==
    ASSUME IInv, SearchInfo \/ SearchChunk \/ SearchExecute \/ SearchGivesUp
    PROVE  IInv'
<1>1. LoaderType /\ flash' = flash /\ ~Loading' /\ store' = store /\ op = "SEARCH"
      /\ busy' = busy /\ pos' \in Nat \ {0} /\ op' \in {"SEARCH", "run"}
  BY DEF IInv, LoaderType, SearchInfo, SearchChunk, SearchExecute, SearchGivesUp,
         Reads, ReadDone, RunApp, loaderVars, Loading
<1>2. op' = "SEARCH" =>
        suInfo' = NoUpdate \/ (suInfo' \in Updates /\ SaneInfo(suInfo'))
  <2>1. CASE SearchInfo
    <3>1. store[pos].u \in Updates
      BY <1>1, <2>1, RecordIs DEF SearchInfo, Reads, LoaderType
    <3> QED BY <1>1, <2>1, <3>1 DEF SearchInfo, LoaderType
  <2>2. CASE ~SearchInfo
    BY <1>1, <2>2 DEF SearchChunk, SearchExecute, SearchGivesUp, RunApp, LoaderType
  <2> QED BY <2>1, <2>2
<1>3. ~busy
  BY DEF SearchInfo, SearchChunk, SearchExecute, SearchGivesUp, Reads, ReadDone
<1>4. LoaderType'
  BY <1>1, <1>2, <1>3 DEF LoaderType, Loading
<1> QED BY <1>1, <1>4, QuietStep

LEMMA EndSteps ==
    ASSUME IInv, CompareEqual \/ WriteDone
    PROVE  IInv'
<1>1. LoaderType /\ flash' = flash /\ op' = "run" /\ pos' = 1 /\ store' = store
      /\ ~busy /\ busy' = busy
  BY DEF IInv, CompareEqual, WriteDone, ReadDone, RunApp
<1>2. LoaderType' /\ ~Loading'
  BY <1>1 DEF LoaderType, Loading
<1> QED BY <1>1, <1>2, QuietStep

-----------------------------------------------------------------------------
(* OP_COMPARE                                                              *)

\* What a step keeps that leaves the records, the flash and the update alone.
LEMMA SameRecords ==
    ASSUME UNCHANGED <<store, flash, suInfo>>, NEW i \in DOMAIN store
    PROVE  /\ Mine(i)' <=> Mine(i)
           /\ pages \subseteq pages' /\ Marked(i) => Marked(i)'
BY DEF Mine, SaneChunk, Marked

LEMMA SearchFindsStep == ASSUME IInv, SearchFinds PROVE IInv'
<1>1. LoaderType /\ UNCHANGED <<store, flash, busy, suInfo>> /\ op = "SEARCH" /\ ~busy
      /\ op' = "COMPARE" /\ pos' = 1 /\ suInfo.seq # 0
  BY DEF IInv, SearchFinds, ReadDone
<1>2. LoaderType'
  <2>1. suInfo # NoUpdate
    BY <1>1 DEF NoUpdate
  <2> QED BY <1>1, <2>1 DEF LoaderType, Loading
<1>3. CompareSound'
  <2>1. DOMAIN store = 1 .. Len(store) /\ Len(store) \in Nat
    BY <1>1 DEF LoaderType
  <2> QED BY <1>1, <2>1 DEF CompareSound
<1> QED BY <1>1, <1>2, <1>3 DEF IInv, NeverOverprograms, EraseSound, WriteSound

LEMMA CompareChunkStep == ASSUME IInv, CompareChunk PROVE IInv'
<1>1. LoaderType /\ UNCHANGED <<store, flash, busy, suInfo>> /\ op = "COMPARE" /\ ~busy
      /\ op' = "COMPARE" /\ pos' = pos + 1 /\ pos \in Nat \ {0} /\ pos <= Len(store)
      /\ pages \subseteq pages'
  BY DEF IInv, LoaderType, CompareChunk, Reads
<1>2. LoaderType'
  BY <1>1 DEF LoaderType, Loading
<1>3. DOMAIN store = 1 .. Len(store) /\ Len(store) \in Nat
  BY <1>1 DEF LoaderType
<1>4. ASSUME NEW i \in DOMAIN store, i = pos, Mine(i) PROVE Marked(i)'
  <2>1. store[i].u = suInfo /\ store[i].addr < MapEnd
    BY <1>1, <1>4, MineIs DEF Loading
  <2>2. CASE flash[store[i].addr] = suInfo.data[store[i].addr]
    BY <1>1, <2>2 DEF Marked
  <2>3. CASE flash[store[i].addr] # suInfo.data[store[i].addr]
    <3>1. pages' = pages \cup {PageOf(store[i].addr)}
      BY <1>4, <2>1, <2>3 DEF CompareChunk, Mine
    <3> QED BY <1>1, <3>1 DEF Marked
  <2> QED BY <2>2, <2>3
<1>5. CompareSound'
  <2> SUFFICES ASSUME NEW i \in DOMAIN store, i < pos + 1, Mine(i)' PROVE Marked(i)'
    BY <1>1 DEF CompareSound
  <2>1. Mine(i)
    BY <1>1, SameRecords
  <2>2. i = pos \/ i < pos
    BY <1>1, <1>3
  <2>3. ASSUME i < pos PROVE Marked(i)'
    <3>1. Marked(i)
      BY <1>1, <2>1, <2>3 DEF IInv, CompareSound
    <3> QED BY <1>1, <3>1, SameRecords
  <2> QED BY <1>4, <2>1, <2>2, <2>3
<1> QED BY <1>1, <1>2, <1>5 DEF IInv, NeverOverprograms, EraseSound, WriteSound

LEMMA PassOverStep == ASSUME IInv, PassOver PROVE IInv'
<1>1. LoaderType /\ UNCHANGED <<store, flash, op, busy, suInfo, pages>> /\ ~busy
      /\ op \in {"COMPARE", "WRITE"} /\ pos' = pos + 1 /\ pos \in Nat \ {0}
      /\ store[pos].kind # "data"
  BY DEF IInv, LoaderType, PassOver, loaderVars
<1>2. LoaderType'
  BY <1>1 DEF LoaderType, Loading
<1>3. DOMAIN store = 1 .. Len(store) /\ Len(store) \in Nat
  BY <1>1 DEF LoaderType
<1>4. CompareSound'
  <2> SUFFICES ASSUME op = "COMPARE", NEW i \in DOMAIN store, i < pos + 1, Mine(i)'
               PROVE  Marked(i)'
    BY <1>1 DEF CompareSound
  <2>1. Mine(i)
    BY <1>1, SameRecords
  <2>2. i < pos
    BY <1>1, <1>3, <2>1 DEF Mine
  <2>3. Marked(i)
    BY <2>1, <2>2 DEF IInv, CompareSound
  <2> QED BY <1>1, <2>3, SameRecords
<1>5. WriteSound'
  BY <1>1, SameRecords DEF IInv, WriteSound
<1> QED BY <1>1, <1>2, <1>4, <1>5 DEF IInv, NeverOverprograms, EraseSound

LEMMA CompareDiffersStep == ASSUME IInv, CompareDiffers PROVE IInv'
<1>1. LoaderType /\ UNCHANGED <<store, flash, busy, suInfo, pages>> /\ ~busy
      /\ op = "COMPARE" /\ op' = "ERASE" /\ pos' = 1 /\ pos > Len(store)
  BY DEF IInv, CompareDiffers, ReadDone, loaderVars
<1>2. LoaderType'
  BY <1>1 DEF LoaderType, Loading
<1>3. ASSUME NEW i \in DOMAIN store, Mine(i) PROVE Marked(i)
  <2>1. i < pos
    BY <1>1 DEF LoaderType
  <2> QED BY <1>1, <1>3, <2>1 DEF IInv, CompareSound
<1>4. ASSUME NEW c \in Chunk PROVE ~(1 <= PageOf(c) /\ PageOf(c) < 1)
  <2>1. PageOf(c) \in Int
    BY LoaderAssumption DEF LoaderAssumption, Chunk, PageOf
  <2> QED BY <2>1
<1>5. EraseSound'
  BY <1>1, <1>3, <1>4, SameRecords DEF EraseSound
<1> QED BY <1>1, <1>2, <1>5 DEF IInv, NeverOverprograms, CompareSound, WriteSound

-----------------------------------------------------------------------------
(* The erase loop                                                          *)

LEMMA EraseStepType ==
    ASSUME IInv, EraseBegins \/ EraseEnds \/ EraseSkips
    PROVE  /\ LoaderType /\ LoaderType' /\ op = "ERASE" /\ op' = "ERASE"
           /\ UNCHANGED <<store, suInfo, pages>>
<1>1. LoaderType /\ op = "ERASE" /\ op' = "ERASE" /\ UNCHANGED <<store, suInfo, pages>>
      /\ DOMAIN flash' = Chunk /\ pos' \in {pos, pos + 1}
  BY DEF IInv, LoaderType, EraseBegins, EraseEnds, EraseSkips, EraseLoop, FillPage, loaderVars
<1>2. LoaderType'
  BY <1>1 DEF LoaderType, Loading
<1> QED BY <1>1, <1>2

\* The page the loop is at is filled with w, a marked page.
LEMMA PageFilled ==
    ASSUME IInv, UNCHANGED <<store, suInfo, pages>>, op = "ERASE", pos \in pages,
           NEW w, w # Garbled, flash' = FillPage(w)
    PROVE  /\ NeverOverprograms'
           /\ \A i \in DOMAIN store : Mine(i) => Marked(i)'
           /\ \A c \in Chunk : flash'[c] = IF PageOf(c) = pos THEN w ELSE flash[c]
<1>1. \A c \in Chunk : flash'[c] = IF PageOf(c) = pos THEN w ELSE flash[c]
  BY DEF FillPage
<1>2. NeverOverprograms'
  BY <1>1 DEF IInv, NeverOverprograms
<1>3. ASSUME NEW i \in DOMAIN store, Mine(i) PROVE Marked(i)'
  <2>1. Marked(i)
    BY <1>3 DEF IInv, EraseSound
  <2>2. store[i].addr \in Chunk
    BY <1>3, MineIs DEF IInv, Loading
  <2> QED BY <1>1, <2>1, <2>2 DEF Marked
<1> QED BY <1>1, <1>2, <1>3

LEMMA PageIsNat == ASSUME NEW c \in Chunk PROVE PageOf(c) \in Int
BY LoaderAssumption DEF LoaderAssumption, Chunk, PageOf

LEMMA EraseBeginsStep == ASSUME IInv, EraseBegins PROVE IInv'
<1>1. /\ LoaderType /\ LoaderType' /\ op = "ERASE" /\ op' = "ERASE"
      /\ UNCHANGED <<store, suInfo, pages>>
  BY EraseStepType
<1>2. pos \in pages /\ busy' /\ flash' = FillPage(Torn) /\ pos' = pos /\ Torn # Garbled
  BY LoaderAssumption DEF EraseBegins, LoaderAssumption
<1>3. /\ NeverOverprograms'
      /\ \A i \in DOMAIN store : Mine(i) => Marked(i)'
      /\ \A c \in Chunk : flash'[c] = IF PageOf(c) = pos THEN Torn ELSE flash[c]
  BY <1>1, <1>2, PageFilled
<1>4. EraseSound'
  <2>1. \A i \in DOMAIN store : Mine(i)' <=> Mine(i)
    BY <1>1 DEF Mine, SaneChunk
  <2>2. ASSUME NEW c \in Chunk, PageOf(c) \in pages, 1 <= PageOf(c), PageOf(c) < pos
        PROVE  flash'[c] = Erased
    <3>1. flash[c] = Erased
      BY <1>1, <2>2 DEF IInv, EraseSound
    <3>2. PageOf(c) # pos
      BY <1>1, <2>2, PageIsNat DEF LoaderType
    <3> QED BY <1>3, <3>1, <3>2
  <2> QED BY <1>1, <1>2, <1>3, <2>1, <2>2 DEF EraseSound
<1> QED BY <1>1, <1>3, <1>4 DEF IInv, CompareSound, WriteSound

LEMMA EraseEndsStep == ASSUME IInv, EraseEnds PROVE IInv'
<1>1. /\ LoaderType /\ LoaderType' /\ op = "ERASE" /\ op' = "ERASE"
      /\ UNCHANGED <<store, suInfo, pages>>
  BY EraseStepType
<1>2. ~busy' /\ flash' = FillPage(Erased) /\ pos' = pos + 1 /\ Erased # Garbled
  BY LoaderAssumption DEF EraseEnds, LoaderAssumption
<1>3. pos \in pages
  BY DEF EraseEnds, IInv, EraseSound
<1>4. /\ NeverOverprograms'
      /\ \A i \in DOMAIN store : Mine(i) => Marked(i)'
      /\ \A c \in Chunk : flash'[c] = IF PageOf(c) = pos THEN Erased ELSE flash[c]
  BY <1>1, <1>2, <1>3, PageFilled
<1>5. EraseSound'
  <2>1. \A i \in DOMAIN store : Mine(i)' <=> Mine(i)
    BY <1>1 DEF Mine, SaneChunk
  <2>2. ASSUME NEW c \in Chunk, PageOf(c) \in pages, 1 <= PageOf(c), PageOf(c) < pos + 1
        PROVE  flash'[c] = Erased
    <3>1. PageOf(c) < pos \/ PageOf(c) = pos
      BY <1>1, <2>2, PageIsNat DEF LoaderType
    <3>2. PageOf(c) < pos => flash[c] = Erased
      BY <1>1, <2>2 DEF IInv, EraseSound
    <3> QED BY <1>4, <3>1, <3>2
  <2> QED BY <1>1, <1>2, <1>4, <2>1, <2>2 DEF EraseSound
<1> QED BY <1>1, <1>4, <1>5 DEF IInv, CompareSound, WriteSound

LEMMA EraseSkipsStep == ASSUME IInv, EraseSkips PROVE IInv'
<1>1. /\ LoaderType /\ LoaderType' /\ op = "ERASE" /\ op' = "ERASE"
      /\ UNCHANGED <<store, suInfo, pages>>
  BY EraseStepType
<1>2. pos \notin pages /\ ~busy' /\ flash' = flash /\ pos' = pos + 1
  BY DEF EraseSkips, EraseLoop
<1>3. EraseSound'
  <2>1. \A i \in DOMAIN store : (Mine(i)' <=> Mine(i)) /\ (Marked(i) => Marked(i)')
    BY <1>1, <1>2, SameRecords
  <2>2. ASSUME NEW c \in Chunk, PageOf(c) \in pages, 1 <= PageOf(c), PageOf(c) < pos + 1
        PROVE  flash[c] = Erased
    <3>1. PageOf(c) # pos
      BY <1>2, <2>2
    <3>2. PageOf(c) < pos
      BY <1>1, <2>2, <3>1, PageIsNat DEF LoaderType
    <3> QED BY <1>1, <2>2, <3>2 DEF IInv, EraseSound
  <2>3. \A i \in DOMAIN store : Mine(i) => Marked(i)
    BY <1>1 DEF IInv, EraseSound
  <2> QED BY <1>1, <1>2, <2>1, <2>2, <2>3 DEF EraseSound
<1> QED BY <1>1, <1>2, <1>3 DEF IInv, NeverOverprograms, CompareSound, WriteSound

\* The loop ends at the store: all marked pages are behind it.
LEMMA EraseDoneStep == ASSUME IInv, EraseDone PROVE IInv'
<1>1. LoaderType /\ UNCHANGED <<store, flash, busy, suInfo, pages>> /\ ~busy
      /\ op = "ERASE" /\ op' = "WRITE" /\ pos' = 1 /\ ~(pos * PageChunks < StoreStart)
  BY DEF IInv, EraseDone, EraseLoop, loaderVars
<1>2. LoaderType'
  BY <1>1 DEF LoaderType, Loading
<1>3. ASSUME NEW c \in Chunk PROVE PageOf(c) < pos
  <2>1. pos \in Nat /\ PageChunks \in Nat \ {0} /\ StoreStart \in Nat
    BY <1>1, LoaderAssumption DEF LoaderType, LoaderAssumption
  <2>2. pos * PageChunks \in Nat /\ c \in Nat /\ c < StoreStart
    BY <2>1 DEF Chunk
  <2>3. c < pos * PageChunks
    BY <1>1, <2>1, <2>2
  <2> QED BY <2>1, <2>2, <2>3, DivHigh DEF PageOf
<1>4. ASSUME NEW i \in DOMAIN store, Mine(i)
      PROVE  flash[store[i].addr] \in {suInfo.data[store[i].addr], Erased}
  <2>1. store[i].addr \in Chunk /\ 1 <= PageOf(store[i].addr)
    BY <1>1, <1>4, MineIs DEF Loading
  <2>2. Marked(i)
    BY <1>1, <1>4 DEF IInv, EraseSound
  <2>3. PageOf(store[i].addr) \in pages => flash[store[i].addr] = Erased
    BY <1>1, <1>3, <2>1 DEF IInv, EraseSound
  <2> QED BY <2>2, <2>3 DEF Marked
<1>5. WriteSound'
  BY <1>1, <1>4, SameRecords DEF WriteSound
<1> QED BY <1>1, <1>2, <1>5 DEF IInv, NeverOverprograms, CompareSound, EraseSound

-----------------------------------------------------------------------------
(* OP_WRITE                                                                *)

\* The two steps of a write concern a chunk of the update.
LEMMA WriteFacts ==
    ASSUME IInv, WriteBegins \/ WriteEnds
    PROVE  /\ LoaderType /\ UNCHANGED <<store, op, suInfo>> /\ op = "WRITE"
           /\ pos \in DOMAIN store /\ Mine(pos)
           /\ store[pos].u = suInfo /\ store[pos].addr \in Chunk
           /\ suInfo.data[store[pos].addr] # Garbled
           /\ pos \in Nat \ {0}
<1>1. LoaderType /\ UNCHANGED <<store, op, suInfo>> /\ op = "WRITE" /\ pos \in Nat \ {0}
  BY DEF IInv, LoaderType, WriteBegins, WriteEnds, Reads, loaderVars
<1>2. CASE WriteBegins
  <2>1. pos \in DOMAIN store
    BY <1>1, <1>2 DEF WriteBegins, Reads, LoaderType
  <2>2. Mine(pos)
    BY <1>2 DEF WriteBegins, Reads, Mine
  <2> QED BY <1>1, <2>1, <2>2, MineIs DEF Loading
<1>3. CASE WriteEnds
  <2>1. pos \in DOMAIN store /\ Mine(pos)
    BY <1>1, <1>3 DEF WriteEnds, IInv, WriteSound
  <2> QED BY <1>1, <2>1, MineIs DEF Loading
<1> QED BY <1>2, <1>3

LEMMA WriteBeginsStep == ASSUME IInv, WriteBegins PROVE IInv'
<1>1. /\ LoaderType /\ UNCHANGED <<store, op, suInfo>> /\ op = "WRITE"
      /\ pos \in DOMAIN store /\ Mine(pos)
      /\ store[pos].u = suInfo /\ store[pos].addr \in Chunk
  BY WriteFacts
<1> DEFINE a == store[pos].addr
<1>2. busy' /\ pos' = pos /\ ~busy
      /\ flash[a] # suInfo.data[a]
      /\ flash' = [flash EXCEPT ![a] = IF @ = Erased THEN Torn ELSE Garbled]
  BY <1>1 DEF WriteBegins, Reads
<1>3. flash[a] = Erased
  BY <1>1, <1>2 DEF IInv, WriteSound
<1>4. /\ DOMAIN flash = Chunk /\ DOMAIN flash' = Chunk
      /\ \A c \in Chunk : flash'[c] = IF c = a THEN Torn ELSE flash[c]
  BY <1>1, <1>2, <1>3 DEF LoaderType
<1>5. LoaderType'
  BY <1>1, <1>2, <1>4 DEF LoaderType, Loading
<1>6. NeverOverprograms'
  BY <1>4, LoaderAssumption DEF IInv, NeverOverprograms, LoaderAssumption
<1>7. \A i \in DOMAIN store : Mine(i)' <=> Mine(i)
  BY <1>1 DEF Mine, SaneChunk
<1>8. ASSUME NEW i \in DOMAIN store, Mine(i), store[i].addr # a
      PROVE  flash'[store[i].addr] \in {suInfo.data[store[i].addr], Erased}
  <2>1. store[i].addr \in Chunk
    BY <1>1, <1>8, MineIs DEF Loading
  <2>2. flash[store[i].addr] \in {suInfo.data[store[i].addr], Erased}
    BY <1>1, <1>2, <1>8 DEF IInv, WriteSound
  <2> QED BY <1>4, <1>8, <2>1, <2>2
<1>9. WriteSound'
  BY <1>1, <1>2, <1>4, <1>7, <1>8 DEF WriteSound, Mine, SaneChunk
<1> QED BY <1>1, <1>5, <1>6, <1>9 DEF IInv, CompareSound, EraseSound

LEMMA WriteEndsStep == ASSUME IInv, WriteEnds PROVE IInv'
<1>1. /\ LoaderType /\ UNCHANGED <<store, op, suInfo>> /\ op = "WRITE"
      /\ pos \in DOMAIN store /\ Mine(pos)
      /\ store[pos].u = suInfo /\ store[pos].addr \in Chunk
      /\ suInfo.data[store[pos].addr] # Garbled
      /\ pos \in Nat \ {0}
  BY WriteFacts
<1> DEFINE a == store[pos].addr
<1>2. busy /\ ~busy' /\ pos' = pos + 1
      /\ flash' = [flash EXCEPT ![a] = IF @ = Torn THEN suInfo.data[a] ELSE Garbled]
  BY <1>1 DEF WriteEnds
<1>3. flash[a] = Torn
  BY <1>1, <1>2 DEF IInv, WriteSound
<1>4. /\ DOMAIN flash = Chunk /\ DOMAIN flash' = Chunk
      /\ \A c \in Chunk : flash'[c] = IF c = a THEN suInfo.data[a] ELSE flash[c]
  BY <1>1, <1>2, <1>3 DEF LoaderType
<1>5. LoaderType'
  BY <1>1, <1>2, <1>4 DEF LoaderType, Loading
<1>6. NeverOverprograms'
  BY <1>1, <1>4 DEF IInv, NeverOverprograms
<1>7. \A i \in DOMAIN store : Mine(i)' <=> Mine(i)
  BY <1>1 DEF Mine, SaneChunk
<1>8. ASSUME NEW i \in DOMAIN store, Mine(i)
      PROVE  flash'[store[i].addr] \in {suInfo.data[store[i].addr], Erased}
  <2>1. store[i].addr \in Chunk
    BY <1>1, <1>8, MineIs DEF Loading
  <2>2. CASE store[i].addr = a
    BY <1>4, <2>1, <2>2
  <2>3. CASE store[i].addr # a
    <3>1. flash[store[i].addr] \in {suInfo.data[store[i].addr], Erased}
      BY <1>1, <1>8, <2>3 DEF IInv, WriteSound
    <3> QED BY <1>4, <2>1, <2>3, <3>1
  <2> QED BY <2>2, <2>3
<1>9. WriteSound'
  BY <1>1, <1>2, <1>7, <1>8 DEF WriteSound
<1> QED BY <1>1, <1>5, <1>6, <1>9 DEF IInv, CompareSound, EraseSound

LEMMA WriteSkipsStep == ASSUME IInv, WriteSkips PROVE IInv'
<1>1. LoaderType /\ UNCHANGED <<store, flash, op, busy, suInfo>> /\ ~busy
      /\ op = "WRITE" /\ pos' = pos + 1
  BY DEF IInv, WriteSkips, Reads, loaderVars
<1>2. LoaderType'
  BY <1>1 DEF LoaderType, Loading
<1>3. \A i \in DOMAIN store : Mine(i)' <=> Mine(i)
  BY <1>1 DEF Mine, SaneChunk
<1>4. WriteSound'
  BY <1>1, <1>3 DEF IInv, WriteSound
<1> QED BY <1>1, <1>2, <1>4 DEF IInv, NeverOverprograms, CompareSound, EraseSound

-----------------------------------------------------------------------------
LEMMA StepSound == IInv /\ [Next]_vars => IInv'
<1> SUFFICES ASSUME IInv, [Next]_vars PROVE IInv'
  OBVIOUS
<1>1. CASE (\E r \in Record : StoreRecord(r)) \/ Recycle \/ Reset \/ PowerLoss
  BY <1>1, RunSteps
<1>2. CASE SearchInfo \/ SearchChunk \/ SearchExecute \/ SearchGivesUp
  BY <1>2, SearchSteps
<1>3. CASE SearchFinds \/ CompareChunk \/ CompareEqual \/ CompareDiffers \/ PassOver
  BY <1>3, SearchFindsStep, CompareChunkStep, EndSteps, CompareDiffersStep, PassOverStep
<1>4. CASE EraseBegins \/ EraseEnds \/ EraseSkips \/ EraseDone
  BY <1>4, EraseBeginsStep, EraseEndsStep, EraseSkipsStep, EraseDoneStep
<1>5. CASE WriteBegins \/ WriteEnds \/ WriteSkips \/ WriteDone
  BY <1>5, WriteBeginsStep, WriteEndsStep, WriteSkipsStep, EndSteps
<1>6. CASE UNCHANGED vars
  <2>1. UNCHANGED <<store, flash, op, pos, busy, suInfo, pages>>
    BY <1>6 DEF vars, loaderVars
  <2>2. LoaderType' /\ NeverOverprograms'
    BY <2>1 DEF IInv, LoaderType, Loading, NeverOverprograms
  <2>3. \A i \in DOMAIN store : (Mine(i)' <=> Mine(i)) /\ (Marked(i) => Marked(i)')
    BY <2>1, SameRecords
  <2>4. CompareSound' /\ EraseSound'
    BY <2>1, <2>3 DEF IInv, CompareSound, EraseSound
  <2>5. WriteSound'
    BY <2>1, <2>3 DEF IInv, WriteSound
  <2> QED BY <2>2, <2>4, <2>5 DEF IInv
<1> QED BY <1>1, <1>2, <1>3, <1>4, <1>5, <1>6 DEF Next, Main

\* The boot loader programs nothing but erased flash, whatever records the
\* store holds, in whatever order, and wherever power is lost (the erase loop
\* and StoreCallbackSoftwareUpdateChunk in loader/main.c).
THEOREM CleanFlash == Spec => []NeverOverprograms
<1>1. IInv => NeverOverprograms
  BY DEF IInv
<1> QED BY <1>1, InitSound, StepSound, PTL DEF Spec

-----------------------------------------------------------------------------
(* The promise of SoftwareUpdate                                           *)

HdrOf(u)     == [kind |-> "hdr", u |-> u, addr |-> 0]
ExecOf(u)    == [kind |-> "exec", u |-> u, addr |-> 0]
DataOf(u, c) == [kind |-> "data", u |-> u, addr |-> c]
RangeOf(u)   == u.start .. u.end - 1

\* An update the loader can install: it ends before the maps do, has a chunk for
\* every address of whole pages, and a version of its own that is not 0.
WellFormed ==
    /\ \A u \in Updates : SaneInfo(u) =>
          /\ u.end < MapEnd
          /\ DOMAIN u.data = RangeOf(u)
          /\ \A c, d \in Chunk : PageOf(c) = PageOf(d) /\ c \in RangeOf(u) => d \in RangeOf(u)
          /\ u.ver # 0
    /\ \A u, v \in Updates : u.ver = v.ver => u = v

-----------------------------------------------------------------------------
(* The search                                                              *)

\* h is the first header of suInfo, and chunks and suExec tell what came behind
\* it, before record pos.
Tells(h) ==
    /\ h \in DOMAIN store /\ h < pos
    /\ store[h] = HdrOf(suInfo)
    /\ \A i \in DOMAIN store : store[i] = HdrOf(suInfo) => h <= i
    /\ \A c \in RangeOf(suInfo) :
          c \in chunks <=> \A j \in DOMAIN store : h < j /\ j < pos => store[j] # DataOf(suInfo, c)
    /\ suExec.ver = suInfo.ver <=>
          \E j \in DOMAIN store : h < j /\ j < pos /\ store[j] = ExecOf(suInfo)

\* suExec is about an update no newer than suInfo.
ExecIsOld == suExec.ver = 0 \/ \E v \in Updates : suExec.ver = v.ver /\ v.seq <= suInfo.seq

SearchSound ==
    op = "SEARCH" =>
        /\ \A i \in DOMAIN store :
              i < pos /\ store[i].kind = "hdr" /\ SaneInfo(store[i].u)
              => store[i].u.seq <= suInfo.seq
        /\ suInfo # NoUpdate => chunks \subseteq RangeOf(suInfo) /\ \E h \in DOMAIN store : Tells(h)
        /\ suInfo = NoUpdate => chunks = {}
        /\ suExec \in [seq : Nat, ver : Nat]
        /\ ExecIsOld

\* u is what a search of the store ends with.
Chosen(u) == u \in Updates /\ SaneInfo(u) /\ Complete(u) /\ NewestHeader(u)

-----------------------------------------------------------------------------
(* From the search to the installed program                                *)

\* The loader works on the newest complete update, before and after a power loss.
TargetSound ==
    /\ op = "run" => target = NoUpdate
    /\ target # NoUpdate => Chosen(target)
    /\ Loading => Chosen(suInfo) /\ target \in {NoUpdate, suInfo}

\* Marked pages are pages of the update.
PagesSound ==
    op \in {"COMPARE", "ERASE"} =>
        \A p \in pages : \E c \in RangeOf(suInfo) : c \in Chunk /\ PageOf(c) = p

\* The update is the target from the first erase on, and there is one.
EraseStarted ==
    /\ op = "ERASE" => /\ pages # {}
                       /\ (\E p \in pages : p < pos) \/ busy => target = suInfo
    /\ op = "WRITE" => target = suInfo

\* The write pass leaves the update's chunks behind it.
WriteProgress ==
    op = "WRITE" => \A i \in DOMAIN store :
        i < pos /\ Mine(i) => flash[store[i].addr] = suInfo.data[store[i].addr]

\* Nothing but the contents of the flash changes.
FlashIsMap == flash = [c \in Chunk |-> flash[c]]

InstallInv ==
    FlashIsMap /\ IInv /\ SearchSound /\ TargetSound /\ PagesSound /\ EraseStarted /\ WriteProgress

-----------------------------------------------------------------------------
(* Records and updates                                                     *)

LEMMA UpdateIs ==
    ASSUME NEW u \in Updates
    PROVE  u.seq \in Nat \ {0} /\ u.ver \in Nat /\ u.start \in Nat /\ u.end \in Nat
BY LoaderAssumption DEF LoaderAssumption

LEMMA RecordIsOf ==
    ASSUME NEW r \in Record
    PROVE  /\ r.u \in Updates
           /\ r.kind = "hdr" => r = HdrOf(r.u)
           /\ r.kind = "exec" => r = ExecOf(r.u)
           /\ r.kind = "data" => r = DataOf(r.u, r.addr) /\ r.addr \in DOMAIN r.u.data
BY DEF Record, RecordsOf, HdrOf, ExecOf, DataOf

LEMMA SameSeq ==
    ASSUME NEW u \in Updates, NEW v \in Updates, u.seq = v.seq
    PROVE  u = v
BY LoaderAssumption DEF LoaderAssumption

\* What every step of the search has to do with.
LEMMA SearchFacts ==
    ASSUME IInv, SearchSound, op = "SEARCH"
    PROVE  /\ DOMAIN store = 1 .. Len(store) /\ Len(store) \in Nat
           /\ pos \in Nat \ {0}
           /\ \A i \in DOMAIN store : store[i] \in Record
           /\ suInfo = NoUpdate \/ (suInfo \in Updates /\ SaneInfo(suInfo))
           /\ suInfo.seq \in Nat
           /\ suInfo.seq = 0 <=> suInfo = NoUpdate
<1>1. suInfo = NoUpdate \/ (suInfo \in Updates /\ SaneInfo(suInfo))
  BY DEF IInv, LoaderType
<1>2. suInfo.seq \in Nat /\ (suInfo.seq = 0 <=> suInfo = NoUpdate)
  BY <1>1, UpdateIs DEF NoUpdate
<1>3. store \in Seq(Record) /\ pos \in Nat \ {0}
  BY DEF IInv, LoaderType
<1> QED BY <1>1, <1>2, <1>3

\* A newer header: the collection begins here.
LEMMA SearchTakes ==
    ASSUME WellFormed, IInv, SearchSound, SearchInfo,
           SaneInfo(store[pos].u), store[pos].u.seq > suInfo.seq
    PROVE  SearchSound'
<1> DEFINE u == store[pos].u
<1>1. op = "SEARCH" /\ op' = "SEARCH" /\ store' = store /\ pos' = pos + 1
      /\ pos \in DOMAIN store /\ store[pos] = HdrOf(u) /\ u \in Updates
  BY SearchFacts, RecordIsOf DEF SearchInfo, Reads
<1>2. /\ DOMAIN store = 1 .. Len(store) /\ Len(store) \in Nat /\ pos \in Nat \ {0}
      /\ suInfo.seq \in Nat /\ u.seq \in Nat /\ u.seq > suInfo.seq
  BY <1>1, SearchFacts, UpdateIs
<1>3. suInfo' = u /\ chunks' = RangeOf(u) /\ suExec' = [suExec EXCEPT !.seq = 0]
  <2>1. PageChunks \in Nat \ {0} /\ MapEnd \in Nat /\ u.end \in Nat /\ u.start \in Nat
    BY <1>1, UpdateIs, LoaderAssumption DEF LoaderAssumption
  <2>2. u.end < MapEnd /\ u.start < u.end
    BY <1>1, <2>1 DEF WellFormed, SaneInfo
  <2>3. RangeSet(u.start, u.end) = RangeOf(u)
    BY <2>1, <2>2 DEF RangeSet, RangeOf
  <2> QED BY <1>2, <2>3 DEF SearchInfo
<1>4. suExec' \in [seq : Nat, ver : Nat] /\ suExec'.ver = suExec.ver
  BY <1>1, <1>3 DEF SearchSound
<1>5. u # NoUpdate
  BY <1>1, UpdateIs DEF NoUpdate
<1>6. ASSUME NEW i \in DOMAIN store, i < pos + 1, store[i].kind = "hdr", SaneInfo(store[i].u)
      PROVE  store[i].u.seq <= u.seq
  <2>1. CASE i = pos
    BY <1>2, <2>1
  <2>2. CASE i < pos
    <3>1. store[i].u.seq <= suInfo.seq
      BY <1>1, <1>6, <2>2 DEF SearchSound
    <3>2. store[i].u.seq \in Nat
      BY <1>1, SearchFacts, RecordIsOf, UpdateIs
    <3> QED BY <1>2, <3>1, <3>2
  <2> QED BY <1>2, <1>6, <2>1, <2>2
<1>7. ExecIsOld /\ (suExec.ver = 0 \/ \E v \in Updates : suExec.ver = v.ver /\ v.seq <= suInfo.seq)
  BY <1>1 DEF SearchSound, ExecIsOld
<1>8. suExec.ver # u.ver
  <2>1. u.ver # 0
    BY <1>1 DEF WellFormed
  <2>2. ASSUME NEW v \in Updates, v.seq <= suInfo.seq PROVE v.ver # u.ver
    <3>1. v # u
      BY <1>2, <2>2, UpdateIs
    <3> QED BY <1>1, <3>1 DEF WellFormed
  <2> QED BY <1>7, <2>1, <2>2
<1>9. ASSUME NEW v \in Updates, v.seq <= suInfo.seq PROVE v.seq <= u.seq
  BY <1>2, <1>9, UpdateIs
<1>10. ExecIsOld'
  BY <1>3, <1>4, <1>7, <1>9 DEF ExecIsOld
<1>11. ASSUME NEW i \in DOMAIN store, store[i] = HdrOf(u) PROVE pos <= i
  <2>1. SUFFICES ASSUME i < pos PROVE FALSE
    BY <1>2
  <2>2. store[i].kind = "hdr" /\ store[i].u = u
    BY <1>11 DEF HdrOf
  <2>3. u.seq <= suInfo.seq
    BY <1>1, <2>1, <2>2 DEF SearchSound
  <2> QED BY <1>2, <2>3
<1>12. ASSUME NEW h, h = pos PROVE Tells(h)'
  <2>1. \A j \in DOMAIN store : ~(pos < j /\ j < pos + 1)
    BY <1>2
  <2> QED BY <1>1, <1>2, <1>3, <1>4, <1>8, <1>11, <1>12, <2>1 DEF Tells
<1>13. (\E h \in DOMAIN store : Tells(h))'
  BY <1>1, <1>12
<1> QED BY <1>1, <1>3, <1>4, <1>5, <1>6, <1>10, <1>13 DEF SearchSound

\* Any other header is passed over.
LEMMA SearchIgnores ==
    ASSUME IInv, SearchSound, SearchInfo,
           ~(SaneInfo(store[pos].u) /\ store[pos].u.seq > suInfo.seq)
    PROVE  SearchSound'
<1>1. /\ op = "SEARCH" /\ op' = "SEARCH" /\ store' = store /\ pos' = pos + 1
      /\ pos \in DOMAIN store /\ store[pos].kind = "hdr" /\ store[pos].u \in Updates
      /\ UNCHANGED <<suInfo, suExec, chunks>>
  BY SearchFacts, RecordIsOf DEF SearchInfo, Reads
<1>2. /\ DOMAIN store = 1 .. Len(store) /\ Len(store) \in Nat /\ pos \in Nat \ {0}
      /\ suInfo.seq \in Nat /\ store[pos].u.seq \in Nat
  BY <1>1, SearchFacts, UpdateIs
<1>3. ASSUME NEW i \in DOMAIN store, i < pos + 1, store[i].kind = "hdr", SaneInfo(store[i].u)
      PROVE  store[i].u.seq <= suInfo.seq
  <2>1. i = pos => store[i].u.seq <= suInfo.seq
    BY <1>2, <1>3
  <2>2. i < pos => store[i].u.seq <= suInfo.seq
    BY <1>1, <1>3 DEF SearchSound
  <2> QED BY <1>2, <1>3, <2>1, <2>2
<1>4. \A j \in DOMAIN store : j < pos + 1 <=> j < pos \/ j = pos
  BY <1>2
<1>5. \A u, c : store[pos] # DataOf(u, c) /\ store[pos] # ExecOf(u)
  BY <1>1 DEF DataOf, ExecOf
<1>6. ASSUME NEW h, Tells(h) PROVE Tells(h)'
  BY <1>1, <1>4, <1>5, <1>6 DEF Tells
<1>7. ExecIsOld => ExecIsOld'
  BY <1>1 DEF ExecIsOld
<1> QED BY <1>1, <1>3, <1>6, <1>7 DEF SearchSound

LEMMA SearchChunkStep == ASSUME IInv, SearchSound, SearchChunk PROVE SearchSound'
<1> DEFINE r == store[pos]
<1>1. /\ op = "SEARCH" /\ op' = "SEARCH" /\ store' = store /\ pos' = pos + 1
      /\ pos \in DOMAIN store /\ r \in Record /\ r.kind = "data"
      /\ r = DataOf(r.u, r.addr) /\ r.u \in Updates /\ r.addr \in DOMAIN r.u.data
      /\ UNCHANGED <<suInfo, suExec>>
  BY SearchFacts, RecordIsOf DEF SearchChunk, Reads
<1>2. /\ DOMAIN store = 1 .. Len(store) /\ Len(store) \in Nat /\ pos \in Nat \ {0}
  BY <1>1, SearchFacts
<1>3. chunks' = IF SaneChunk(r) THEN chunks \ {r.addr} ELSE chunks
  BY DEF SearchChunk
<1>4. \A j \in DOMAIN store : j < pos + 1 <=> j < pos \/ j = pos
  BY <1>2
<1>5. ASSUME suInfo # NoUpdate, NEW c \in RangeOf(suInfo)
      PROVE  r = DataOf(suInfo, c) <=> SaneChunk(r) /\ r.addr = c
  <2>1. suInfo \in Updates
    BY <1>1, <1>5, SearchFacts
  <2>2. r = DataOf(suInfo, c) => SaneChunk(r) /\ r.addr = c
    <3>1. c >= suInfo.start /\ c + 1 <= suInfo.end
      BY <1>5, <2>1, UpdateIs DEF RangeOf
    <3> QED BY <3>1 DEF DataOf, SaneChunk
  <2>3. SaneChunk(r) /\ r.addr = c => r = DataOf(suInfo, c)
    <3>1. SaneChunk(r) => r.u = suInfo
      BY <1>1, <2>1, SameSeq DEF SaneChunk
    <3> QED BY <1>1, <3>1
  <2> QED BY <2>2, <2>3
<1>6. r.kind # "hdr" /\ \A u : r # ExecOf(u)
  BY <1>1 DEF ExecOf
<1>7. ASSUME NEW h \in DOMAIN store, Tells(h), suInfo # NoUpdate PROVE Tells(h)'
  <2>1. h < pos /\ h < pos + 1
    BY <1>2, <1>7 DEF Tells
  <2>2. ASSUME NEW c \in RangeOf(suInfo)
        PROVE  c \in chunks' <=>
                 \A j \in DOMAIN store : h < j /\ j < pos + 1 => store[j] # DataOf(suInfo, c)
    <3>1. c \in chunks <=>
                 \A j \in DOMAIN store : h < j /\ j < pos => store[j] # DataOf(suInfo, c)
      BY <1>7 DEF Tells
    <3>2. c \in chunks' <=> c \in chunks /\ ~(SaneChunk(r) /\ r.addr = c)
      BY <1>3
    <3>3. c \in chunks' <=> c \in chunks /\ store[pos] # DataOf(suInfo, c)
      BY <3>2, <1>5, <1>7
    <3> QED BY <1>1, <1>4, <2>1, <3>1, <3>3
  <2>3. suExec.ver = suInfo.ver <=>
          \E j \in DOMAIN store : h < j /\ j < pos + 1 /\ store[j] = ExecOf(suInfo)
    BY <1>4, <1>6, <1>7 DEF Tells
  <2> QED BY <1>1, <1>7, <2>1, <2>2, <2>3 DEF Tells
<1>8. ASSUME NEW i \in DOMAIN store, i < pos + 1, store[i].kind = "hdr", SaneInfo(store[i].u)
      PROVE  store[i].u.seq <= suInfo.seq
  BY <1>1, <1>4, <1>6, <1>8 DEF SearchSound
<1>9. chunks' \subseteq chunks
  BY <1>3
<1>10. ExecIsOld => ExecIsOld'
  BY <1>1 DEF ExecIsOld
<1> QED BY <1>1, <1>7, <1>8, <1>9, <1>10 DEF SearchSound

LEMMA SearchExecuteStep == ASSUME IInv, SearchSound, SearchExecute PROVE SearchSound'
<1> DEFINE u == store[pos].u
<1>1. /\ op = "SEARCH" /\ op' = "SEARCH" /\ store' = store /\ pos' = pos + 1
      /\ pos \in DOMAIN store /\ store[pos].kind = "exec"
      /\ store[pos] = ExecOf(u) /\ u \in Updates
      /\ UNCHANGED <<suInfo, chunks>>
  BY SearchFacts, RecordIsOf DEF SearchExecute, Reads
<1>2. /\ DOMAIN store = 1 .. Len(store) /\ Len(store) \in Nat /\ pos \in Nat \ {0}
      /\ suInfo.seq \in Nat /\ u.seq \in Nat \ {0} /\ u.ver \in Nat
      /\ suInfo = NoUpdate \/ suInfo \in Updates
  BY <1>1, SearchFacts, UpdateIs
<1>3. suExec' = IF u.seq = suInfo.seq THEN [seq |-> u.seq, ver |-> u.ver] ELSE suExec
  BY DEF SearchExecute
<1>4. u.seq = suInfo.seq <=> u = suInfo
  BY <1>1, <1>2, SameSeq DEF NoUpdate
<1>5. \A j \in DOMAIN store : j < pos + 1 <=> j < pos \/ j = pos
  BY <1>2
<1>6. store[pos].kind # "hdr" /\ \A v, c : store[pos] # DataOf(v, c)
  BY <1>1 DEF DataOf
<1>7. store[pos] = ExecOf(suInfo) <=> u = suInfo
  BY <1>1 DEF ExecOf
<1>8. ASSUME NEW h \in DOMAIN store, Tells(h) PROVE Tells(h)'
  <2>1. h < pos /\ h < pos + 1
    BY <1>2, <1>8 DEF Tells
  <2>2. suExec'.ver = suInfo.ver <=>
          \E j \in DOMAIN store : h < j /\ j < pos + 1 /\ store[j] = ExecOf(suInfo)
    <3>1. CASE u = suInfo
      BY <1>1, <1>3, <1>4, <1>5, <1>7, <2>1, <3>1
    <3>2. CASE u # suInfo
      BY <1>3, <1>4, <1>5, <1>7, <1>8, <3>2 DEF Tells
    <3> QED BY <3>1, <3>2
  <2>3. \A c \in RangeOf(suInfo) : c \in chunks <=>
          \A j \in DOMAIN store : h < j /\ j < pos + 1 => store[j] # DataOf(suInfo, c)
    BY <1>5, <1>6, <1>8 DEF Tells
  <2> QED BY <1>1, <1>8, <2>1, <2>2, <2>3 DEF Tells
<1>9. ASSUME NEW i \in DOMAIN store, i < pos + 1, store[i].kind = "hdr", SaneInfo(store[i].u)
      PROVE  store[i].u.seq <= suInfo.seq
  BY <1>1, <1>5, <1>6, <1>9 DEF SearchSound
<1>10. suExec' \in [seq : Nat, ver : Nat]
  BY <1>1, <1>2, <1>3 DEF SearchSound
<1>11. ExecIsOld'
  <2>1. CASE u = suInfo
    BY <1>1, <1>2, <1>3, <1>4, <2>1 DEF ExecIsOld
  <2>2. CASE u # suInfo
    BY <1>1, <1>3, <1>4, <2>2 DEF SearchSound, ExecIsOld
  <2> QED BY <2>1, <2>2
<1> QED BY <1>1, <1>8, <1>9, <1>10, <1>11 DEF SearchSound

\* The steps outside the search have nothing to keep of it.
LEMMA SearchStep ==
    ASSUME WellFormed, IInv, SearchSound, [Next]_vars
    PROVE  SearchSound'
<1>1. CASE op' # "SEARCH"
  BY <1>1 DEF SearchSound
<1>2. CASE SearchInfo
  BY <1>2, SearchTakes, SearchIgnores
<1>3. CASE SearchChunk \/ SearchExecute
  BY <1>3, SearchChunkStep, SearchExecuteStep
<1>4. CASE Reset \/ PowerLoss
  <2>1. /\ pos' = 1 /\ suInfo' = NoUpdate /\ chunks' = {} /\ suExec' = NoExec
        /\ store' = store
    BY <1>4 DEF Reset, PowerLoss, StartLoader
  <2>2. \A i \in DOMAIN store : ~(i < 1)
    BY DEF IInv, LoaderType
  <2> QED BY <2>1, <2>2 DEF SearchSound, ExecIsOld, NoExec
<1>5. CASE UNCHANGED vars
  BY <1>5 DEF vars, loaderVars, SearchSound, Tells, ExecIsOld
<1>6. CASE op = "SEARCH" /\ (SearchGivesUp \/ SearchFinds)
  BY <1>6 DEF SearchSound, SearchGivesUp, SearchFinds, RunApp
<1> QED BY <1>1, <1>2, <1>3, <1>4, <1>5, <1>6
    DEF Next, Main, StoreRecord, Recycle, SearchGivesUp, SearchFinds, ReadDone,
        CompareChunk, CompareEqual, CompareDiffers, EraseBegins, EraseLoop, EraseEnds,
        EraseSkips, EraseDone, WriteBegins, WriteEnds, WriteSkips, WriteDone, PassOver,
        Reads, RunApp

-----------------------------------------------------------------------------
(* What the search ends with                                               *)

LEMMA ChosenIs ==
    ASSUME WellFormed, NEW u, Chosen(u)
    PROVE  /\ u \in Updates /\ SaneInfo(u) /\ u # NoUpdate
           /\ u.seq \in Nat \ {0}
           /\ DOMAIN u.data = RangeOf(u)
BY UpdateIs DEF Chosen, WellFormed, NoUpdate

\* There is one choice.
LEMMA OneChosen ==
    ASSUME NEW u, NEW v, Chosen(u), Chosen(v)
    PROVE  u = v
<1>1. PICK i \in DOMAIN store : store[i] = HdrOf(u)
  BY DEF Chosen, Complete, HdrOf
<1>2. PICK j \in DOMAIN store : store[j] = HdrOf(v)
  BY DEF Chosen, Complete, HdrOf
<1>3. u.seq <= v.seq
  BY <1>1 DEF Chosen, NewestHeader, HdrOf
<1>4. v.seq <= u.seq
  BY <1>2 DEF Chosen, NewestHeader, HdrOf
<1> QED BY <1>3, <1>4, UpdateIs, SameSeq DEF Chosen

LEMMA SearchEnds ==
    ASSUME WellFormed, IInv, SearchSound, ReadDone("SEARCH")
    PROVE  /\ suInfo.seq # 0 /\ chunks = {} /\ suInfo.ver = suExec.ver => Chosen(suInfo)
           /\ (\E u : Chosen(u)) => suInfo.seq # 0 /\ chunks = {} /\ suInfo.ver = suExec.ver
<1>1. /\ op = "SEARCH" /\ pos > Len(store)
      /\ DOMAIN store = 1 .. Len(store) /\ Len(store) \in Nat /\ pos \in Nat
      /\ \A i \in DOMAIN store : i < pos
  BY SearchFacts DEF ReadDone
<1>2. NewestHeader(suInfo)
  BY <1>1 DEF SearchSound, NewestHeader
<1>3. ASSUME suInfo.seq # 0, chunks = {}, suInfo.ver = suExec.ver PROVE Chosen(suInfo)
  <2>1. suInfo # NoUpdate /\ suInfo \in Updates /\ SaneInfo(suInfo)
    BY <1>1, <1>3, SearchFacts
  <2>2. PICK h \in DOMAIN store : Tells(h)
    BY <1>1, <2>1 DEF SearchSound
  <2>3. store[h] = HdrOf(suInfo) /\ DOMAIN suInfo.data = RangeOf(suInfo)
    BY <2>1, <2>2 DEF Tells, WellFormed
  <2>4. ASSUME NEW r \in RecordsOf(suInfo), r # HdrOf(suInfo)
        PROVE  \E j \in DOMAIN store : h < j /\ store[j] = r
    <3>1. CASE r = ExecOf(suInfo)
      BY <1>3, <2>2, <3>1 DEF Tells
    <3>2. CASE \E c \in RangeOf(suInfo) : r = DataOf(suInfo, c)
      BY <1>3, <2>2, <3>2 DEF Tells
    <3> QED BY <2>3, <2>4, <3>1, <3>2 DEF RecordsOf, HdrOf, ExecOf, DataOf
  <2>5. \A j \in DOMAIN store : h < j => j \in h + 1 .. Len(store)
    BY <1>1
  <2>6. Complete(suInfo)
    BY <2>3, <2>4, <2>5 DEF Complete, HdrOf
  <2> QED BY <1>2, <2>1, <2>6 DEF Chosen
<1>4. ASSUME NEW u, Chosen(u)
      PROVE  suInfo.seq # 0 /\ chunks = {} /\ suInfo.ver = suExec.ver
  <2>1. PICK i \in DOMAIN store : /\ store[i] = HdrOf(u)
                                 /\ \A r \in RecordsOf(u) \ {store[i]} :
                                       \E j \in i + 1 .. Len(store) : store[j] = r
    BY <1>4 DEF Chosen, Complete, HdrOf
  <2>2. u.seq <= suInfo.seq /\ u.seq \in Nat \ {0}
    BY <1>2, <1>4, <2>1, ChosenIs DEF NewestHeader, HdrOf
  <2>3. suInfo.seq # 0 /\ suInfo # NoUpdate /\ suInfo \in Updates /\ SaneInfo(suInfo)
    BY <1>1, <2>2, SearchFacts
  <2>4. PICK h \in DOMAIN store : Tells(h)
    BY <1>1, <2>3 DEF SearchSound
  <2>5. suInfo = u
    <3>1. suInfo.seq <= u.seq
      BY <1>4, <2>3, <2>4 DEF Tells, Chosen, NewestHeader, HdrOf
    <3> QED BY <1>4, <2>2, <2>3, <3>1, UpdateIs, ChosenIs, SameSeq
  <2>6. h <= i
    BY <2>1, <2>4, <2>5 DEF Tells
  <2>7. ASSUME NEW r \in RecordsOf(u), r # HdrOf(u)
        PROVE  \E j \in DOMAIN store : h < j /\ j < pos /\ store[j] = r
    <3>1. PICK j \in i + 1 .. Len(store) : store[j] = r
      BY <2>1, <2>7
    <3>2. j \in DOMAIN store /\ h < j
      BY <1>1, <2>6, <3>1
    <3> QED BY <1>1, <3>1, <3>2
  <2>8. suExec.ver = suInfo.ver
    <3>1. ExecOf(u) \in RecordsOf(u) /\ ExecOf(u) # HdrOf(u)
      BY DEF RecordsOf, ExecOf, HdrOf
    <3> QED BY <2>4, <2>5, <2>7, <3>1 DEF Tells
  <2>9. ASSUME NEW c \in RangeOf(u) PROVE c \notin chunks
    <3>1. DataOf(u, c) \in RecordsOf(u) /\ DataOf(u, c) # HdrOf(u)
      BY <1>4, ChosenIs DEF RecordsOf, DataOf, HdrOf
    <3> QED BY <2>4, <2>5, <2>7, <3>1 DEF Tells
  <2>10. chunks = {}
    BY <1>1, <2>3, <2>5, <2>9 DEF SearchSound
  <2> QED BY <2>3, <2>8, <2>10
<1> QED BY <1>3, <1>4

-----------------------------------------------------------------------------
(* The invariant                                                           *)

LEMMA InstallInit == Init => InstallInv
BY InitSound, LoaderAssumption
   DEF LoaderAssumption, Chunk, Init, InstallInv, FlashIsMap, SearchSound, TargetSound, PagesSound,
       EraseStarted, WriteProgress, Loading

LEMMA ChosenKept ==
    ASSUME store' = store, NEW u
    PROVE  Chosen(u)' <=> Chosen(u)
BY DEF Chosen, Complete, NewestHeader, SaneInfo

\* Steps of one pass, and into the next one.
LEMMA TargetKept ==
    ASSUME TargetSound, UNCHANGED <<store, target>>,
           op' = "run" => target = NoUpdate,
           Loading' => Loading /\ suInfo' = suInfo
    PROVE  TargetSound'
<1>1. target # NoUpdate => Chosen(target)'
  BY ChosenKept DEF TargetSound, Chosen, Complete, NewestHeader, SaneInfo
<1>2. Loading' => Chosen(suInfo)' /\ target \in {NoUpdate, suInfo}
  BY DEF TargetSound, Chosen, Complete, NewestHeader, SaneInfo
<1> QED BY <1>1, <1>2 DEF TargetSound, Chosen, Complete, NewestHeader, SaneInfo

LEMMA TargetStep ==
    ASSUME WellFormed, IInv, SearchSound, TargetSound, [Next]_vars
    PROVE  TargetSound'
<1>1. CASE (\E r \in Record : StoreRecord(r)) \/ Recycle
  BY <1>1 DEF StoreRecord, Recycle, TargetSound, Loading
<1>2. CASE SearchGivesUp \/ CompareEqual \/ WriteDone
  BY <1>2 DEF SearchGivesUp, CompareEqual, WriteDone, RunApp, TargetSound, Loading
<1>3. CASE SearchFinds
  <2>1. Chosen(suInfo)
    BY <1>3, SearchEnds DEF SearchFinds
  <2>2. target \in {NoUpdate, suInfo}
    BY <2>1, OneChosen DEF TargetSound
  <2>3. UNCHANGED <<store, suInfo, target>> /\ op' = "COMPARE"
    BY <1>3 DEF SearchFinds
  <2> QED BY <2>1, <2>2, <2>3 DEF TargetSound, Chosen, Complete, NewestHeader, SaneInfo
<1>4. CASE EraseBegins
  <2>1. store' = store /\ suInfo' = suInfo /\ target' = suInfo /\ op = "ERASE" /\ op' = "ERASE"
    BY <1>4 DEF EraseBegins, EraseLoop, loaderVars
  <2>2. Chosen(suInfo)
    BY <2>1 DEF TargetSound, Loading
  <2> QED BY <2>1, <2>2 DEF TargetSound, Chosen, Complete, NewestHeader, SaneInfo
<1>5. CASE Reset \/ PowerLoss \/ SearchInfo \/ SearchChunk \/ SearchExecute
  BY <1>5, TargetKept DEF Reset, PowerLoss, StartLoader, SearchInfo, SearchChunk, SearchExecute,
                     Reads, Loading
<1>6. CASE CompareChunk \/ CompareDiffers \/ PassOver
  BY <1>6, TargetKept DEF CompareChunk, CompareDiffers, PassOver, Reads, ReadDone,
                     loaderVars, Loading
<1>7. CASE EraseEnds \/ EraseSkips \/ EraseDone
  BY <1>7, TargetKept DEF EraseEnds, EraseSkips, EraseDone, EraseLoop, loaderVars, Loading
<1>8. CASE WriteBegins \/ WriteEnds \/ WriteSkips
  BY <1>8, TargetKept DEF WriteBegins, WriteEnds, WriteSkips, Reads, loaderVars, Loading
<1>9. CASE UNCHANGED vars
  BY <1>9, TargetKept DEF vars, loaderVars, TargetSound, Loading
<1> QED BY <1>1, <1>2, <1>3, <1>4, <1>5, <1>6, <1>7, <1>8, <1>9 DEF Next, Main

LEMMA PagesStep == ASSUME IInv, PagesSound, [Next]_vars PROVE PagesSound'
<1>1. CASE op' \notin {"COMPARE", "ERASE"}
  BY <1>1 DEF PagesSound
<1>2. CASE SearchFinds
  BY <1>2 DEF SearchFinds, PagesSound
<1>3. CASE CompareChunk
  <2>1. op = "COMPARE" /\ suInfo' = suInfo /\ pos \in DOMAIN store /\ LoaderType
    BY <1>3 DEF CompareChunk, Reads, IInv, LoaderType
  <2>2. CASE Mine(pos)
    <3>1. store[pos].addr \in Chunk
      BY <2>1, <2>2, MineIs DEF Loading
    <3>2. store[pos].addr \in RangeOf(suInfo)
      BY <2>1, <2>2, <3>1, UpdateIs, LoaderAssumption
      DEF Mine, SaneChunk, RangeOf, Chunk, LoaderAssumption, LoaderType, Loading
    <3>3. pages' \subseteq pages \cup {PageOf(store[pos].addr)}
      BY <1>3 DEF CompareChunk
    <3> QED BY <2>1, <3>1, <3>2, <3>3 DEF PagesSound
  <2>3. CASE ~Mine(pos)
    BY <1>3, <2>1, <2>3 DEF CompareChunk, Reads, Mine, PagesSound
  <2> QED BY <2>2, <2>3
<1>4. CASE UNCHANGED <<pages, suInfo>> /\ op \in {"COMPARE", "ERASE"}
  BY <1>4 DEF PagesSound
<1> QED BY <1>1, <1>2, <1>3, <1>4
    DEF Next, Main, StoreRecord, Recycle, Reset, PowerLoss, StartLoader, SearchInfo,
        SearchChunk, SearchExecute, SearchGivesUp, CompareEqual, CompareDiffers,
        EraseBegins, EraseLoop, EraseEnds, EraseSkips, EraseDone, WriteBegins, WriteEnds,
        WriteSkips, WriteDone, PassOver, Reads, ReadDone, RunApp, vars, loaderVars

\* Every page lies before the end of the loop, and the boot record's is not marked.
LEMMA MarkedPages ==
    ASSUME IInv, PagesSound, op \in {"COMPARE", "ERASE"}, NEW p \in pages
    PROVE  p \in Int /\ p >= 1 /\ (~(pos * PageChunks < StoreStart) => p < pos)
<1>1. PICK c \in RangeOf(suInfo) : c \in Chunk /\ PageOf(c) = p
  BY DEF PagesSound
<1>2. PageChunks \in Nat \ {0} /\ StoreStart \in Nat /\ c \in Nat /\ c < StoreStart
      /\ pos \in Nat \ {0} /\ p \in Int
  BY <1>1, PageIsNat, LoaderAssumption DEF LoaderAssumption, Chunk, IInv, LoaderType
<1>3. p >= 1
  <2>1. suInfo.start >= PageChunks /\ suInfo.start \in Nat /\ suInfo.end \in Nat
    BY UpdateIs DEF IInv, LoaderType, Loading, SaneInfo
  <2>2. c >= PageChunks
    BY <1>1, <1>2, <2>1 DEF RangeOf
  <2> QED BY <1>1, <1>2, <2>2, DivLow DEF PageOf
<1>4. ASSUME ~(pos * PageChunks < StoreStart) PROVE p < pos
  <2>1. pos * PageChunks \in Nat
    BY <1>2
  <2>2. c < pos * PageChunks
    BY <1>2, <1>4, <2>1
  <2> QED BY <1>1, <1>2, <2>2, DivHigh DEF PageOf
<1> QED BY <1>2, <1>3, <1>4

LEMMA EraseStep == ASSUME IInv, PagesSound, EraseStarted, [Next]_vars PROVE EraseStarted'
<1>1. CASE op' \notin {"ERASE", "WRITE"}
  BY <1>1 DEF EraseStarted
<1>2. CASE CompareDiffers
  <2>1. \A p \in pages : ~(p < 1)
    BY <1>2, MarkedPages DEF CompareDiffers, ReadDone
  <2> QED BY <1>2, <2>1 DEF CompareDiffers, ReadDone, loaderVars, EraseStarted
<1>3. CASE EraseBegins \/ EraseEnds
  BY <1>3 DEF EraseBegins, EraseEnds, EraseLoop, loaderVars, EraseStarted
<1>4. CASE EraseSkips
  <2>1. ASSUME NEW p \in pages, p < pos + 1 PROVE p < pos
    <3>1. p # pos /\ p \in Int /\ pos \in Int
      BY <1>4, MarkedPages DEF EraseSkips, EraseLoop, IInv, LoaderType
    <3> QED BY <2>1, <3>1
  <2> QED BY <1>4, <2>1 DEF EraseSkips, EraseLoop, loaderVars, EraseStarted
<1>5. CASE EraseDone
  <2>1. \A p \in pages : p < pos
    BY <1>5, MarkedPages DEF EraseDone, EraseLoop
  <2> QED BY <1>5, <2>1 DEF EraseDone, loaderVars, EraseStarted
<1>6. CASE op = "WRITE" /\ UNCHANGED <<op, target, suInfo>>
  BY <1>6 DEF EraseStarted
<1>7. CASE UNCHANGED vars
  BY <1>7 DEF vars, loaderVars, EraseStarted
<1> QED BY <1>1, <1>2, <1>3, <1>4, <1>5, <1>6, <1>7
    DEF Next, Main, StoreRecord, Recycle, Reset, PowerLoss, StartLoader, SearchInfo,
        SearchChunk, SearchExecute, SearchGivesUp, SearchFinds, CompareChunk, CompareEqual,
        WriteBegins, WriteEnds, WriteSkips, WriteDone, PassOver, Reads, ReadDone, RunApp,
        loaderVars

\* A chunk's write starts where the flash differs and ends where it agrees.
LEMMA WriteChanges ==
    ASSUME IInv, WriteBegins \/ WriteEnds
    PROVE  LET a == store[pos].addr
           IN  /\ \A c \in Chunk : c # a => flash'[c] = flash[c]
               /\ WriteBegins => flash[a] # suInfo.data[a] /\ pos' = pos
               /\ WriteEnds => flash'[a] = suInfo.data[a] /\ pos' = pos + 1
<1> DEFINE a == store[pos].addr
<1>1. /\ LoaderType /\ a \in Chunk /\ store[pos].u = suInfo /\ op = "WRITE"
  BY WriteFacts
<1>2. DOMAIN flash = Chunk
  BY <1>1 DEF LoaderType
<1>3. ASSUME WriteEnds PROVE flash[a] = Torn
  BY <1>1, <1>3 DEF WriteEnds, IInv, WriteSound
<1> QED BY <1>1, <1>2, <1>3 DEF WriteBegins, WriteEnds

LEMMA WriteStep == ASSUME IInv, WriteProgress, [Next]_vars PROVE WriteProgress'
<1>1. CASE op' # "WRITE"
  BY <1>1 DEF WriteProgress
<1>2. pos \in Nat \ {0} /\ LoaderType /\ DOMAIN store = 1 .. Len(store) /\ Len(store) \in Nat
  BY DEF IInv, LoaderType
<1>3. CASE EraseDone
  BY <1>2, <1>3 DEF EraseDone, WriteProgress, loaderVars
<1>4. CASE WriteBegins \/ WriteEnds
  <2>1. UNCHANGED <<store, op, suInfo>> /\ op = "WRITE"
    BY <1>4, WriteFacts
  <2>2. \A i \in DOMAIN store : Mine(i)' <=> Mine(i)
    BY <2>1 DEF Mine, SaneChunk
  <2>3. ASSUME NEW i \in DOMAIN store, i < pos', Mine(i)
        PROVE  flash'[store[i].addr] = suInfo.data[store[i].addr]
    <3>1. store[i].addr \in Chunk
      BY <1>2, <2>1, <2>3, MineIs DEF Loading
    <3>2. CASE i = pos
      BY <1>2, <1>4, <2>3, <3>2, WriteChanges
    <3>3. CASE i # pos
      <4>1. i < pos
        BY <1>2, <1>4, <2>3, <3>3, WriteChanges
      <4>2. flash[store[i].addr] = suInfo.data[store[i].addr]
        BY <2>1, <2>3, <4>1 DEF WriteProgress
      <4> QED BY <1>4, <3>1, <4>2, WriteChanges
    <3> QED BY <3>2, <3>3
  <2> QED BY <2>1, <2>2, <2>3 DEF WriteProgress
<1>5. CASE op = "WRITE" /\ (WriteSkips \/ PassOver)
  <2>1. UNCHANGED <<store, flash, op, suInfo>> /\ pos' = pos + 1 /\ pos \in DOMAIN store
    BY <1>2, <1>5 DEF WriteSkips, PassOver, Reads, loaderVars
  <2>2. \A i \in DOMAIN store : Mine(i)' <=> Mine(i)
    BY <2>1 DEF Mine, SaneChunk
  <2>3. ASSUME Mine(pos) PROVE flash[store[pos].addr] = suInfo.data[store[pos].addr]
    <3>1. store[pos].u = suInfo
      BY <1>2, <1>5, <2>1, <2>3, MineIs DEF Loading
    <3> QED BY <1>5, <2>3, <3>1 DEF WriteSkips, PassOver, Mine
  <2>4. \A i \in DOMAIN store : i < pos + 1 <=> i < pos \/ i = pos
    BY <1>2
  <2> QED BY <1>5, <2>1, <2>2, <2>3, <2>4 DEF WriteProgress
<1>6. CASE UNCHANGED vars
  BY <1>6 DEF vars, loaderVars, WriteProgress, Mine, SaneChunk
<1> QED BY <1>1, <1>3, <1>4, <1>5, <1>6
    DEF Next, Main, StoreRecord, Recycle, Reset, PowerLoss, StartLoader, SearchInfo,
        SearchChunk, SearchExecute, SearchGivesUp, SearchFinds, CompareChunk, CompareEqual,
        CompareDiffers, EraseBegins, EraseLoop, EraseEnds, EraseSkips,
        WriteSkips, WriteDone, PassOver, Reads, ReadDone, RunApp

LEMMA FlashStep == FlashIsMap /\ [Next]_vars => FlashIsMap'
<1> SUFFICES ASSUME FlashIsMap, [Next]_vars PROVE FlashIsMap'
  OBVIOUS
<1>1. CASE EraseBegins \/ EraseEnds
  BY <1>1 DEF EraseBegins, EraseEnds, FillPage, FlashIsMap
<1>2. CASE WriteBegins \/ WriteEnds
  BY <1>2 DEF WriteBegins, WriteEnds, FlashIsMap
<1>3. CASE flash' = flash
  BY <1>3 DEF FlashIsMap
<1> QED BY <1>1, <1>2, <1>3
    DEF Next, Main, StoreRecord, Recycle, Reset, PowerLoss, StartLoader, SearchInfo,
        SearchChunk, SearchExecute, SearchGivesUp, SearchFinds, CompareChunk, CompareEqual,
        CompareDiffers, EraseSkips, EraseDone, WriteSkips, WriteDone, PassOver, vars

LEMMA InstallStepSound == WellFormed /\ InstallInv /\ [Next]_vars => InstallInv'
<1> SUFFICES ASSUME WellFormed, InstallInv, [Next]_vars PROVE InstallInv'
  OBVIOUS
<1>1. FlashIsMap /\ IInv /\ SearchSound /\ TargetSound /\ PagesSound /\ EraseStarted
      /\ WriteProgress
  BY DEF InstallInv
<1>2. FlashIsMap' /\ IInv' /\ SearchSound' /\ TargetSound'
  BY <1>1, FlashStep, StepSound, SearchStep, TargetStep
<1>3. PagesSound' /\ EraseStarted' /\ WriteProgress'
  BY <1>1, PagesStep, EraseStep, WriteStep
<1> QED BY <1>2, <1>3 DEF InstallInv

-----------------------------------------------------------------------------
(* The steps of the loader are steps of SoftwareUpdate                     *)

LEMMA SameOffered == ASSUME store' = store PROVE Offered' = Offered
BY DEF Offered, Complete, SaneInfo

\* The update being installed has a chunk of code space for every address.
LEMMA LoadingFacts ==
    ASSUME WellFormed, InstallInv, Loading
    PROVE  /\ Chosen(suInfo) /\ suInfo \in Updates /\ suInfo # NoUpdate
           /\ DOMAIN suInfo.data = RangeOf(suInfo) /\ RangeOf(suInfo) \subseteq Chunk
           /\ target \in {NoUpdate, suInfo}
           /\ LoaderType /\ DOMAIN flash = Chunk
<1>1. Chosen(suInfo) /\ target \in {NoUpdate, suInfo} /\ LoaderType
  BY DEF InstallInv, TargetSound, IInv
<1>2. suInfo \in Updates /\ suInfo # NoUpdate /\ DOMAIN suInfo.data = RangeOf(suInfo)
  BY <1>1, ChosenIs
<1>3. DOMAIN suInfo.data \subseteq Chunk
  BY <1>2, LoaderAssumption DEF LoaderAssumption, Chunk
<1> QED BY <1>1, <1>2, <1>3 DEF LoaderType

\* The image does not change with the chunks of the update being installed.
LEMMA SameImage ==
    ASSUME WellFormed, InstallInv, Loading, store' = store, target = suInfo,
           target' = target, \A c \in Chunk \ RangeOf(suInfo) : flash'[c] = flash[c]
    PROVE  UNCHANGED <<Image, Offered>>
<1>1. suInfo # NoUpdate
  BY LoadingFacts
<1> QED BY <1>1, SameOffered DEF Image, RangeOf

LEMMA QuietInstall ==
    ASSUME UNCHANGED <<store, flash, target>>
    PROVE  UNCHANGED <<Image, Offered>>
BY SameOffered DEF Image

\* A page that is erased is a page of the update.
LEMMA ErasedPage ==
    ASSUME WellFormed, InstallInv, op = "ERASE", pos \in pages, NEW w, flash' = FillPage(w)
    PROVE  \A c \in Chunk \ RangeOf(suInfo) : flash'[c] = flash[c]
<1>1. PICK d \in RangeOf(suInfo) : d \in Chunk /\ PageOf(d) = pos
  BY DEF InstallInv, PagesSound
<1>2. suInfo \in Updates /\ SaneInfo(suInfo)
  BY LoadingFacts DEF Loading, Chosen
<1>3. \A c \in Chunk : PageOf(c) = pos => c \in RangeOf(suInfo)
  BY <1>1, <1>2 DEF WellFormed
<1> QED BY <1>3 DEF FillPage

LEMMA EraseInstalls ==
    ASSUME WellFormed, InstallInv, EraseBegins
    PROVE  InstallStep
<1>1. /\ op = "ERASE" /\ pos \in pages /\ store' = store /\ target' = suInfo
      /\ suInfo' = suInfo /\ flash' = FillPage(Torn)
  BY DEF EraseBegins, EraseLoop, loaderVars
<1>2. \A c \in Chunk \ RangeOf(suInfo) : flash'[c] = flash[c]
  BY <1>1, ErasedPage
<1>3. /\ Chosen(suInfo) /\ suInfo \in Updates /\ suInfo # NoUpdate
      /\ target \in {NoUpdate, suInfo} /\ DOMAIN flash = Chunk
  BY <1>1, LoadingFacts DEF Loading
<1>4. CASE target = suInfo
  BY <1>1, <1>2, <1>4, SameImage DEF InstallStep, Promise!vars, Loading
<1>5. CASE target = NoUpdate
  <2>1. Image = flash
    BY <1>5 DEF Image
  <2>2. Image' = [c \in Chunk |-> IF c \in RangeOf(suInfo) THEN suInfo.data[c] ELSE flash'[c]]
    BY <1>1, <1>3 DEF Image, RangeOf
  <2>3. Image' = Promise!Overlay(Image, suInfo)
    BY <1>2, <1>3, <2>1, <2>2 DEF Promise!Overlay, RangeOf
  <2>4. suInfo \in Offered
    BY <1>3 DEF Offered, Chosen
  <2>5. ASSUME NEW v \in Offered PROVE v.seq <= suInfo.seq
    <3>1. PICK i \in DOMAIN store : store[i] = HdrOf(v)
      BY <2>5 DEF Offered, Complete, HdrOf
    <3> QED BY <1>3, <2>5, <3>1 DEF Chosen, NewestHeader, Offered, HdrOf
  <2>6. Promise!Install(suInfo)
    BY <1>1, <2>3, <2>4, <2>5, SameOffered DEF Promise!Install
  <2> QED BY <1>3, <2>6 DEF InstallStep, Promise!Next
<1> QED BY <1>3, <1>4, <1>5

\* When a pass has found or put every chunk of the update in the flash, the
\* image is the flash.
LEMMA RunsImage ==
    ASSUME WellFormed, InstallInv, Loading, store' = store, flash' = flash,
           target' = NoUpdate,
           \A i \in DOMAIN store : Mine(i) => flash[store[i].addr] = suInfo.data[store[i].addr]
    PROVE  UNCHANGED <<Image, Offered>>
<1>1. /\ Chosen(suInfo) /\ suInfo \in Updates /\ DOMAIN suInfo.data = RangeOf(suInfo)
      /\ target \in {NoUpdate, suInfo} /\ DOMAIN store = 1 .. Len(store) /\ Len(store) \in Nat
  BY LoadingFacts DEF LoaderType
<1>2. ASSUME NEW c \in RangeOf(suInfo) PROVE flash[c] = suInfo.data[c]
  <2>1. PICK i \in DOMAIN store :
            /\ store[i] = HdrOf(suInfo)
            /\ \A r \in RecordsOf(suInfo) \ {store[i]} : \E j \in i + 1 .. Len(store) : store[j] = r
    BY <1>1 DEF Chosen, Complete, HdrOf
  <2>2. DataOf(suInfo, c) \in RecordsOf(suInfo) \ {store[i]}
    BY <1>1, <2>1 DEF RecordsOf, DataOf, HdrOf
  <2>3. PICK j \in i + 1 .. Len(store) : store[j] = DataOf(suInfo, c)
    BY <2>1, <2>2
  <2>4. j \in DOMAIN store
    BY <1>1, <2>1
  <2>5. c >= suInfo.start /\ c + 1 <= suInfo.end
    BY <1>1, UpdateIs DEF RangeOf
  <2>6. Mine(j)
    BY <2>3, <2>5 DEF Mine, SaneChunk, DataOf
  <2> QED BY <2>3, <2>4, <2>6 DEF DataOf
<1>3. Image' = flash
  BY DEF Image
<1>4. flash = [c \in Chunk |-> flash[c]]
  BY DEF InstallInv, FlashIsMap
<1>5. Image = flash
  BY <1>1, <1>2, <1>4 DEF Image, RangeOf
<1> QED BY <1>3, <1>5, SameOffered

LEMMA EveryStepInstalls ==
    ASSUME WellFormed, InstallInv, [Next]_vars
    PROVE  InstallStep
<1> USE DEF InstallStep, Promise!vars
<1>1. CASE (\E r \in Record : StoreRecord(r)) \/ Recycle
  <2>1. op = "run" /\ UNCHANGED <<flash, target>>
    BY <1>1 DEF StoreRecord, Recycle
  <2>2. target = NoUpdate
    BY <2>1 DEF InstallInv, TargetSound
  <2>3. Image' = Image
    BY <2>1, <2>2 DEF Image
  <2>4. Offered' \subseteq Updates
    BY DEF Offered
  <2> QED BY <2>3, <2>4 DEF Promise!Next, Promise!Offer
<1>2. CASE SearchGivesUp
  <2>1. UNCHANGED <<store, flash>> /\ target' = NoUpdate /\ ~\E u : Chosen(u)
    BY <1>2, SearchEnds DEF SearchGivesUp, RunApp, InstallInv
  <2>2. target = NoUpdate
    BY <2>1 DEF InstallInv, TargetSound
  <2> QED BY <2>1, <2>2, QuietInstall
<1>3. CASE CompareEqual
  <2>1. UNCHANGED <<store, flash>> /\ target' = NoUpdate /\ op = "COMPARE" /\ pos > Len(store)
        /\ pages = {}
    BY <1>3 DEF CompareEqual, ReadDone, RunApp
  <2>2. ASSUME NEW i \in DOMAIN store, Mine(i)
        PROVE  flash[store[i].addr] = suInfo.data[store[i].addr]
    <3>1. i < pos
      BY <2>1 DEF InstallInv, IInv, LoaderType
    <3> QED BY <2>1, <2>2, <3>1 DEF InstallInv, IInv, CompareSound, Marked
  <2> QED BY <2>1, <2>2, RunsImage DEF Loading
<1>4. CASE WriteDone
  <2>1. UNCHANGED <<store, flash>> /\ target' = NoUpdate /\ op = "WRITE" /\ pos > Len(store)
    BY <1>4 DEF WriteDone, ReadDone, RunApp
  <2>2. ASSUME NEW i \in DOMAIN store, Mine(i)
        PROVE  flash[store[i].addr] = suInfo.data[store[i].addr]
    <3>1. i < pos
      BY <2>1 DEF InstallInv, IInv, LoaderType
    <3> QED BY <2>1, <2>2, <3>1 DEF InstallInv, WriteProgress
  <2> QED BY <2>1, <2>2, RunsImage DEF Loading
<1>5. CASE EraseBegins
  BY <1>5, EraseInstalls
<1>6. CASE EraseEnds
  <2>1. /\ op = "ERASE" /\ pos \in pages /\ store' = store /\ target' = target
        /\ target = suInfo /\ flash' = FillPage(Erased)
    BY <1>6 DEF EraseEnds, InstallInv, IInv, EraseSound, EraseStarted
  <2> QED BY <2>1, ErasedPage, SameImage DEF Loading
<1>7. CASE WriteBegins \/ WriteEnds
  <2>1. /\ op = "WRITE" /\ store' = store /\ target' = target /\ target = suInfo
        /\ pos \in DOMAIN store /\ Mine(pos)
    BY <1>7, WriteFacts DEF InstallInv, EraseStarted, WriteBegins, WriteEnds
  <2>2. store[pos].addr \in RangeOf(suInfo)
    BY <2>1, LoadingFacts, MineIs DEF Loading
  <2>3. \A c \in Chunk \ RangeOf(suInfo) : flash'[c] = flash[c]
    BY <1>7, <2>2, WriteChanges DEF InstallInv
  <2> QED BY <2>1, <2>3, SameImage DEF Loading
<1>8. CASE UNCHANGED <<store, flash, target>>
  BY <1>8, QuietInstall
<1> QED BY <1>1, <1>2, <1>3, <1>4, <1>5, <1>6, <1>7, <1>8
    DEF Next, Main, Reset, PowerLoss, StartLoader, SearchInfo, SearchChunk, SearchExecute,
        SearchFinds, CompareChunk, CompareDiffers, EraseSkips, EraseDone, WriteSkips,
        PassOver, vars

LEMMA FirstImage == Init => Promise!Init
<1> SUFFICES ASSUME Init PROVE Image = Original /\ Offered = {}
  BY DEF Promise!Init
<1>1. Image = Original
  BY DEF Init, Image
<1>2. DOMAIN store = {}
  BY DEF Init
<1>3. Offered = {}
  BY <1>2 DEF Offered, Complete
<1> QED BY <1>1, <1>3

\* The boot loader implements SoftwareUpdate: whatever the order of the records
\* and wherever power is lost, the application is only ever run on the program
\* it had or on the newest complete update, installed whole (Main in
\* loader/main.c), if the updates are well-formed.
THEOREM InstallsUpdates == ASSUME WellFormed PROVE Spec => Installs
<1>1. InstallInv /\ [Next]_vars => InstallInv'
  BY InstallStepSound
<1>2. InstallInv /\ [Next]_vars => InstallStep
  BY EveryStepInstalls
<1> QED BY <1>1, <1>2, InstallInit, FirstImage, PTL DEF Spec, Installs

-----------------------------------------------------------------------------
(* Pages are erased for a reason                                           *)

\* Page p lacks a chunk of the update.
Differs(p) == \E c \in ChunksOf(p) : c \in RangeOf(suInfo) /\ flash[c] # suInfo.data[c]

\* A marked page lacks a chunk until it is erased.
NeedSound ==
    /\ op = "COMPARE" => \A p \in pages : Differs(p)
    /\ op = "ERASE" =>
          /\ \A p \in pages : p > pos \/ (p = pos /\ ~busy) => Differs(p)
          /\ busy => \A c \in ChunksOf(pos) : flash[c] = Torn

\* A page that a step leaves alone lacks what it lacked.
LEMMA SameDiffers ==
    ASSUME suInfo' = suInfo, NEW p, \A c \in ChunksOf(p) : flash'[c] = flash[c], Differs(p)
    PROVE  Differs(p)'
BY DEF Differs, RangeOf, ChunksOf, Chunk, PageOf

LEMMA MarksWhatDiffers ==
    ASSUME IInv, NeedSound, CompareChunk
    PROVE  \A p \in pages' : Differs(p)'
<1>1. op = "COMPARE" /\ UNCHANGED <<suInfo, flash, store>> /\ pos \in DOMAIN store /\ LoaderType
  BY DEF CompareChunk, Reads, IInv, LoaderType
<1> DEFINE r == store[pos]
<1>2. \A p \in pages : Differs(p)'
  BY <1>1, SameDiffers DEF NeedSound
<1>3. CASE SaneChunk(r) /\ flash[r.addr] # r.u.data[r.addr]
  <2>1. Mine(pos)
    BY <1>3 DEF CompareChunk, Reads, Mine
  <2>2. r.addr \in Chunk /\ r.u = suInfo
    BY <1>1, <2>1, MineIs DEF Loading
  <2>3. r.addr \in RangeOf(suInfo)
    BY <1>1, <1>3, <2>2, UpdateIs, LoaderAssumption
    DEF SaneChunk, RangeOf, Chunk, LoaderAssumption, LoaderType, Loading
  <2>4. ASSUME NEW p, p = PageOf(r.addr) PROVE Differs(p)'
    <3>1. Differs(p)
      BY <1>3, <2>2, <2>3, <2>4 DEF Differs, ChunksOf
    <3> QED BY <1>1, <3>1, SameDiffers
  <2>5. pages' \subseteq pages \cup {PageOf(r.addr)}
    BY DEF CompareChunk
  <2> QED BY <1>2, <2>4, <2>5
<1>4. CASE ~(SaneChunk(r) /\ flash[r.addr] # r.u.data[r.addr])
  <2>1. pages' = pages
    BY <1>4 DEF CompareChunk
  <2> QED BY <1>2, <2>1
<1> QED BY <1>3, <1>4

\* Erasing the page the loop is at changes no other page.
LEMMA ErasesOnePage ==
    ASSUME IInv, EraseBegins \/ EraseEnds
    PROVE  \A c \in Chunk : PageOf(c) # pos => flash'[c] = flash[c]
BY DEF EraseBegins, EraseEnds, FillPage

LEMMA NeedStep == ASSUME IInv, PagesSound, NeedSound, [Next]_vars PROVE NeedSound'
<1>1. CASE op' \notin {"COMPARE", "ERASE"}
  BY <1>1 DEF NeedSound
<1>2. CASE SearchFinds
  BY <1>2 DEF SearchFinds, NeedSound
<1>3. CASE CompareChunk
  BY <1>3, MarksWhatDiffers DEF CompareChunk, Reads, NeedSound
<1>4. CASE CompareDiffers
  <2>1. UNCHANGED <<pages, suInfo, flash, busy>> /\ op = "COMPARE" /\ op' = "ERASE" /\ ~busy
    BY <1>4 DEF CompareDiffers, ReadDone, loaderVars
  <2>2. \A p \in pages : Differs(p)'
    BY <2>1, SameDiffers DEF NeedSound
  <2> QED BY <2>1, <2>2 DEF NeedSound
<1>5. CASE EraseBegins
  <2>1. op = "ERASE" /\ op' = op /\ pos' = pos /\ busy' /\ UNCHANGED <<pages, suInfo>>
        /\ flash' = FillPage(Torn) /\ ~busy
    BY <1>5 DEF EraseBegins, EraseLoop, loaderVars
  <2>2. \A c \in ChunksOf(pos) : flash'[c] = Torn
    BY <2>1 DEF FillPage, ChunksOf
  <2>3. ASSUME NEW p \in pages, p > pos PROVE Differs(p)'
    <3>1. Differs(p)
      BY <2>1, <2>3 DEF NeedSound
    <3>2. \A c \in ChunksOf(p) : PageOf(c) # pos /\ c \in Chunk
      BY <2>1, <2>3, MarkedPages DEF ChunksOf, IInv, LoaderType
    <3> QED BY <1>5, <2>1, <3>1, <3>2, ErasesOnePage, SameDiffers
  <2> QED BY <2>1, <2>2, <2>3 DEF NeedSound, ChunksOf, Chunk, PageOf
<1>6. CASE EraseEnds
  <2>1. op = "ERASE" /\ op' = op /\ pos' = pos + 1 /\ ~busy' /\ UNCHANGED <<pages, suInfo>>
        /\ pos \in Nat
    BY <1>6 DEF EraseEnds, loaderVars, IInv, LoaderType
  <2>2. ASSUME NEW p \in pages, p > pos + 1 \/ p = pos + 1 PROVE Differs(p)'
    <3>1. p \in Int /\ p > pos
      BY <2>1, <2>2, MarkedPages
    <3>2. Differs(p)
      BY <2>1, <3>1 DEF NeedSound
    <3>3. \A c \in ChunksOf(p) : PageOf(c) # pos /\ c \in Chunk
      BY <2>1, <3>1 DEF ChunksOf
    <3> QED BY <1>6, <2>1, <3>2, <3>3, ErasesOnePage, SameDiffers
  <2> QED BY <2>1, <2>2 DEF NeedSound
<1>7. CASE EraseSkips
  <2>1. op = "ERASE" /\ op' = op /\ pos' = pos + 1 /\ busy' = busy /\ ~busy
        /\ UNCHANGED <<pages, suInfo, flash>> /\ pos \in Nat
    BY <1>7 DEF EraseSkips, EraseLoop, loaderVars, IInv, LoaderType
  <2>2. ASSUME NEW p \in pages, p > pos + 1 \/ p = pos + 1 PROVE Differs(p)'
    <3>1. p \in Int /\ p > pos
      BY <2>1, <2>2, MarkedPages
    <3>2. Differs(p)
      BY <2>1, <3>1 DEF NeedSound
    <3> QED BY <2>1, <3>2, SameDiffers
  <2> QED BY <2>1, <2>2 DEF NeedSound
<1>8. CASE UNCHANGED <<op, pos, busy, pages, suInfo, flash>>
  BY <1>8 DEF NeedSound, Differs, RangeOf, ChunksOf, Chunk, PageOf
<1>9. CASE PassOver /\ op = "COMPARE"
  <2>1. UNCHANGED <<op, busy, pages, suInfo, flash>>
    BY <1>9 DEF PassOver, loaderVars
  <2> QED BY <1>9, <2>1, SameDiffers DEF NeedSound
<1> QED BY <1>1, <1>2, <1>3, <1>4, <1>5, <1>6, <1>7, <1>8, <1>9
    DEF Next, Main, StoreRecord, Recycle, Reset, PowerLoss, StartLoader, SearchInfo,
        SearchChunk, SearchExecute, SearchGivesUp, CompareEqual,
        EraseDone, WriteBegins, WriteEnds,
        WriteSkips, WriteDone, PassOver, Reads, ReadDone, RunApp, vars, loaderVars

LEMMA NeedInit == Init => PagesSound /\ NeedSound
BY DEF Init, PagesSound, NeedSound

\* What an erase destroys is a page that lacks something.
LEMMA EraseNeeds == ASSUME IInv, NeedSound, [Next]_vars PROVE EraseIsNeeded
<1> SUFFICES ASSUME op = "ERASE", NEW p \in {PageOf(c) : c \in Chunk}, NEW d \in ChunksOf(p),
                    flash[d] # Torn, flash'[d] = Torn
             PROVE  Differs(p)
  BY DEF EraseIsNeeded, Differs, RangeOf
<1>1. EraseBegins \/ EraseEnds
  BY DEF Next, Main, StoreRecord, Recycle, Reset, PowerLoss, StartLoader, SearchInfo,
         SearchChunk, SearchExecute, SearchGivesUp, SearchFinds, CompareChunk, CompareEqual,
         CompareDiffers, EraseSkips, EraseDone, WriteBegins, WriteEnds,
         WriteSkips, WriteDone, PassOver, Reads, ReadDone, RunApp, vars, loaderVars
<1>2. p = pos /\ d \in Chunk
  BY <1>1, ErasesOnePage DEF ChunksOf
<1>3. ~busy /\ pos \in pages
  BY <1>1, <1>2 DEF NeedSound, EraseBegins, EraseEnds, EraseLoop
<1> QED BY <1>2, <1>3 DEF NeedSound

\* The loader erases a page only when a chunk of the update is missing from it,
\* also in a pass that takes up an install cut short (OP_COMPARE and the erase
\* loop of Main).
THEOREM ErasesForAReason == Spec => ErasesOnlyWhatDiffers
<1>1. Init => IInv /\ PagesSound /\ NeedSound
  BY InitSound, NeedInit
<1>2. (IInv /\ PagesSound /\ NeedSound) /\ [Next]_vars => (IInv /\ PagesSound /\ NeedSound)'
  BY StepSound, PagesStep, NeedStep
<1>3. (IInv /\ NeedSound) /\ [Next]_vars => [EraseIsNeeded]_vars
  BY EraseNeeds
<1> QED BY <1>1, <1>2, <1>3, PTL DEF Spec, ErasesOnlyWhatDiffers

-----------------------------------------------------------------------------
(* The types of the variables                                              *)

Execs == {NoExec} \cup [seq : {0} \cup {u.seq : u \in Updates}, ver : {u.ver : u \in Updates}]

\* Where each pass may stand.
PosSound ==
    /\ op = "run" => pos = 1
    /\ op \in {"SEARCH", "COMPARE", "WRITE"} => pos <= Len(store) + 1
    /\ op = "ERASE" => pos <= StoreStart + 1 /\ (busy => pos <= StoreStart)

TypeInv == TypeOK /\ PosSound

LEMMA RecordHas ==
    ASSUME NEW r \in Record
    PROVE  /\ r.u \in Updates
           /\ r.kind = "data" => r.addr \in DOMAIN r.u.data /\ r.addr \in Chunk
<1>1. PICK u \in Updates : r \in RecordsOf(u)
  BY DEF Record
<1>2. DOMAIN u.data \subseteq Chunk
  BY LoaderAssumption DEF LoaderAssumption, Chunk
<1> QED BY <1>1, <1>2 DEF RecordsOf

LEMMA InLoop ==
    ASSUME NEW p \in Nat, p * PageChunks < StoreStart
    PROVE  p < StoreStart
<1>1. PageChunks \in Nat /\ PageChunks >= 1 /\ StoreStart \in Nat
  BY LoaderAssumption DEF LoaderAssumption
<1>2. p * 1 <= p * PageChunks /\ p * PageChunks \in Nat
  BY <1>1, Z3
<1> QED BY <1>1, <1>2

LEMMA PosStep == ASSUME IInv, PosSound, [Next]_vars PROVE PosSound'
<1>1. store \in Seq(Record) /\ Len(store) \in Nat /\ pos \in Nat \ {0} /\ StoreStart \in Nat
  BY LoaderAssumption DEF IInv, LoaderType, LoaderAssumption
<1>2. CASE (\E r \in Record : StoreRecord(r)) \/ Recycle
  BY <1>2 DEF StoreRecord, Recycle, PosSound
<1>3. CASE Reset \/ PowerLoss
  BY <1>1, <1>3 DEF Reset, PowerLoss, StartLoader, PosSound
<1>4. CASE SearchGivesUp \/ CompareEqual \/ WriteDone
  BY <1>4 DEF SearchGivesUp, CompareEqual, WriteDone, RunApp, PosSound
<1>5. CASE SearchFinds \/ CompareDiffers \/ EraseDone
  BY <1>1, <1>5 DEF SearchFinds, CompareDiffers, EraseDone, ReadDone, loaderVars, PosSound
<1>6. CASE SearchInfo \/ SearchChunk \/ SearchExecute \/ CompareChunk \/ WriteSkips
  BY <1>1, <1>6 DEF SearchInfo, SearchChunk, SearchExecute, CompareChunk, WriteSkips, Reads, PosSound
<1>7. CASE PassOver
  BY <1>1, <1>7 DEF PassOver, PosSound
<1>8. CASE EraseBegins \/ EraseSkips
  BY <1>1, <1>8, InLoop DEF EraseBegins, EraseSkips, EraseLoop, PosSound
<1>9. CASE EraseEnds
  BY <1>1, <1>9 DEF EraseEnds, PosSound
<1>10. CASE WriteBegins
  BY <1>10 DEF WriteBegins, Reads, PosSound
<1>11. CASE WriteEnds
  <2>1. pos <= Len(store)
    BY <1>1, <1>11, WriteFacts
  <2> QED BY <1>1, <1>11, <2>1 DEF WriteEnds, PosSound
<1>12. CASE UNCHANGED vars
  BY <1>12 DEF vars, PosSound
<1> QED BY <1>2, <1>3, <1>4, <1>5, <1>6, <1>7, <1>8, <1>9, <1>10, <1>11, <1>12 DEF Next, Main

\* The bound of the type follows from where each pass stands.
LEMMA PosIs == LoaderType /\ PosSound => pos \in 1 .. Len(store) + StoreStart + 1
<1> SUFFICES ASSUME LoaderType, PosSound PROVE pos \in 1 .. Len(store) + StoreStart + 1
  OBVIOUS
<1>1. Len(store) \in Nat /\ pos \in Nat \ {0} /\ StoreStart \in Nat
  BY LoaderAssumption DEF LoaderType, LoaderAssumption
<1> QED BY <1>1 DEF LoaderType, PosSound

LEMMA StoreStep ==
    ASSUME TypeOK, [Next]_vars
    PROVE  store' \in Seq(Record) /\ Len(store') <= MaxRecords
<1>1. store \in Seq(Record) /\ Len(store) <= MaxRecords /\ MaxRecords \in Nat
  BY LoaderAssumption DEF TypeOK, LoaderAssumption
<1>2. ASSUME NEW r \in Record, StoreRecord(r) PROVE store' \in Seq(Record) /\ Len(store') <= MaxRecords
  BY <1>1, <1>2 DEF StoreRecord
<1>3. CASE Recycle
  BY <1>1, <1>3 DEF Recycle
<1> QED BY <1>1, <1>2, <1>3
    DEF Next, Main, Reset, PowerLoss, StartLoader, SearchInfo,
        SearchChunk, SearchExecute, SearchGivesUp, SearchFinds, CompareChunk, CompareEqual,
        CompareDiffers, EraseBegins, EraseEnds, EraseSkips, EraseDone, WriteBegins, WriteEnds,
        WriteSkips, WriteDone, PassOver, vars

LEMMA FlashTyped ==
    ASSUME IInv, flash \in [Chunk -> Contents], [Next]_vars
    PROVE  flash' \in [Chunk -> Contents]
<1>1. {Torn, Erased, Garbled} \subseteq Contents
  BY DEF Contents
<1>2. CASE EraseBegins \/ EraseEnds
  BY <1>1, <1>2 DEF EraseBegins, EraseEnds, FillPage
<1>3. CASE WriteBegins \/ WriteEnds
  <2>1. pos \in DOMAIN store /\ Mine(pos) /\ store[pos] \in Record
    BY <1>3, WriteFacts DEF LoaderType
  <2>2. store[pos].u.data[store[pos].addr] \in Contents
    BY <2>1, RecordHas DEF Mine, Contents
  <2> QED BY <1>1, <1>3, <2>2 DEF WriteBegins, WriteEnds
<1>4. CASE flash' = flash
  BY <1>4
<1> QED BY <1>2, <1>3, <1>4
    DEF Next, Main, StoreRecord, Recycle, Reset, PowerLoss, StartLoader, SearchInfo,
        SearchChunk, SearchExecute, SearchGivesUp, SearchFinds, CompareChunk, CompareEqual,
        CompareDiffers, EraseSkips, EraseDone, WriteSkips, WriteDone, PassOver, vars

\* A pass reads a record of the store.
LEMMA ReadsRecord ==
    ASSUME TypeOK, NEW o, NEW k, Reads(o, k)
    PROVE  store[pos] \in Record /\ store[pos].kind = k /\ store[pos].u \in Updates
<1>1. store \in Seq(Record) /\ Len(store) \in Nat /\ StoreStart \in Nat
  BY LoaderAssumption DEF TypeOK, LoaderAssumption
<1>2. pos \in 1 .. Len(store)
  BY <1>1 DEF TypeOK, Reads
<1>3. store[pos] \in Record
  BY <1>1, <1>2
<1> QED BY <1>3, RecordHas DEF Reads

LEMMA ExecIs ==
    ASSUME NEW u \in Updates, NEW s \in {0} \cup {v.seq : v \in Updates}
    PROVE  [seq |-> s, ver |-> u.ver] \in Execs
BY DEF Execs

\* What the search collects: an update, what it says is missing, its execute record.
LEMMA SearchTyped ==
    ASSUME TypeOK, [Next]_vars
    PROVE  /\ suInfo' \in Updates \cup {NoUpdate}
           /\ suExec' \in Execs
           /\ chunks' \subseteq 0 .. MapEnd - 1
<1>1. /\ suInfo \in Updates \cup {NoUpdate} /\ suExec \in Execs /\ chunks \subseteq 0 .. MapEnd - 1
      /\ store \in Seq(Record)
  BY DEF TypeOK, Execs
<1>2. CASE Reset \/ PowerLoss
  BY <1>2 DEF Reset, PowerLoss, StartLoader, Execs
<1>3. CASE SearchInfo
  <2> DEFINE u == store[pos].u
  <2>1. u \in Updates /\ u.start \in Nat /\ u.end \in Nat /\ MapEnd \in Nat
    BY <1>3, ReadsRecord, LoaderAssumption DEF SearchInfo, LoaderAssumption
  <2>2. RangeSet(u.start, u.end) \subseteq 0 .. MapEnd - 1
    BY <2>1 DEF RangeSet
  <2>3. [suExec EXCEPT !.seq = 0] \in Execs
    <3>1. CASE suExec = NoExec
      <4>1. [suExec EXCEPT !.seq = 0] = NoExec
        BY <3>1 DEF NoExec
      <4> QED BY <4>1 DEF Execs
    <3>2. CASE suExec # NoExec
      <4>1. PICK v \in Updates : suExec.ver = v.ver
        BY <1>1, <3>2 DEF Execs
      <4>2. [suExec EXCEPT !.seq = 0] = [seq |-> 0, ver |-> v.ver]
        BY <1>1, <3>2, <4>1 DEF Execs
      <4> QED BY <4>2, ExecIs
    <3> QED BY <3>1, <3>2
  <2> QED BY <1>1, <1>3, <2>1, <2>2, <2>3 DEF SearchInfo
<1>4. CASE SearchChunk
  BY <1>1, <1>4 DEF SearchChunk
<1>5. CASE SearchExecute
  <2>1. store[pos].u \in Updates
    BY <1>5, ReadsRecord DEF SearchExecute
  <2>2. [seq |-> store[pos].u.seq, ver |-> store[pos].u.ver] \in Execs
    BY <2>1, ExecIs
  <2> QED BY <1>1, <1>5, <2>2 DEF SearchExecute
<1>6. CASE UNCHANGED <<suInfo, suExec, chunks>>
  BY <1>1, <1>6
<1> QED BY <1>2, <1>3, <1>4, <1>5, <1>6
    DEF Next, Main, StoreRecord, Recycle,
        SearchGivesUp, SearchFinds, CompareChunk, CompareEqual,
        CompareDiffers, EraseBegins, EraseEnds, EraseSkips, EraseDone, WriteBegins, WriteEnds,
        WriteSkips, WriteDone, PassOver, vars, loaderVars

LEMMA PagesTyped ==
    ASSUME TypeOK, [Next]_vars
    PROVE  pages' \subseteq {PageOf(c) : c \in 0 .. MapEnd - 1}
<1>1. pages \subseteq {PageOf(c) : c \in 0 .. MapEnd - 1} /\ store \in Seq(Record)
  BY DEF TypeOK
<1>2. CASE Reset \/ PowerLoss \/ SearchFinds
  BY <1>2 DEF Reset, PowerLoss, StartLoader, SearchFinds
<1>3. CASE CompareChunk
  <2> DEFINE r == store[pos]
  <2>1. r \in Record /\ r.kind = "data"
    BY <1>3, ReadsRecord DEF CompareChunk
  <2>2. r.addr \in Nat /\ MapEnd \in Nat
    BY <2>1, RecordHas, LoaderAssumption DEF LoaderAssumption, Chunk
  <2>3. r.addr < MapEnd => PageOf(r.addr) \in {PageOf(c) : c \in 0 .. MapEnd - 1}
    BY <2>2
  <2> QED BY <1>1, <1>3, <2>3 DEF CompareChunk
<1>4. CASE pages' = pages
  BY <1>1, <1>4
<1> QED BY <1>2, <1>3, <1>4
    DEF Next, Main, StoreRecord, Recycle, SearchInfo, SearchChunk, SearchExecute,
        SearchGivesUp, CompareEqual,
        CompareDiffers, EraseBegins, EraseEnds, EraseSkips, EraseDone, WriteBegins, WriteEnds,
        WriteSkips, WriteDone, PassOver, vars, loaderVars

LEMMA RestTyped ==
    ASSUME TypeOK, [Next]_vars
    PROVE  /\ busy' \in BOOLEAN
           /\ target' \in Updates \cup {NoUpdate}
           /\ crashes' \in 0 .. MaxCrashes
<1>1. busy \in BOOLEAN /\ target \in Updates \cup {NoUpdate} /\ suInfo \in Updates \cup {NoUpdate}
      /\ crashes \in 0 .. MaxCrashes /\ MaxCrashes \in Nat
  BY LoaderAssumption DEF TypeOK, LoaderAssumption
<1>2. crashes' \in {crashes, crashes + 1} /\ (crashes' # crashes => crashes < MaxCrashes)
  BY DEF Next, Main, StoreRecord, Recycle, Reset, PowerLoss, StartLoader, SearchInfo,
         SearchChunk, SearchExecute, SearchGivesUp, SearchFinds, CompareChunk, CompareEqual,
         CompareDiffers, EraseBegins, EraseEnds, EraseSkips, EraseDone, WriteBegins, WriteEnds,
         WriteSkips, WriteDone, PassOver, vars
<1>3. target' \in {target, suInfo, NoUpdate}
  BY DEF Next, Main, StoreRecord, Recycle, Reset, PowerLoss, StartLoader, SearchInfo,
         SearchChunk, SearchExecute, SearchGivesUp, SearchFinds, CompareChunk, CompareEqual,
         CompareDiffers, EraseBegins, EraseEnds, EraseSkips, EraseDone, WriteBegins, WriteEnds,
         WriteSkips, WriteDone, PassOver, RunApp, vars
<1>4. busy' \in {busy, TRUE, FALSE}
  BY DEF Next, Main, StoreRecord, Recycle, Reset, PowerLoss, StartLoader, SearchInfo,
         SearchChunk, SearchExecute, SearchGivesUp, SearchFinds, CompareChunk, CompareEqual,
         CompareDiffers, EraseBegins, EraseEnds, EraseSkips, EraseDone, WriteBegins, WriteEnds,
         WriteSkips, WriteDone, PassOver, vars
<1>5. crashes' \in 0 .. MaxCrashes
  BY <1>1, <1>2
<1> QED BY <1>1, <1>3, <1>4, <1>5

LEMMA TypeInit == Init => TypeInv
<1> SUFFICES ASSUME Init PROVE TypeInv
  OBVIOUS
<1>1. flash \in [Chunk -> Contents]
  BY LoaderAssumption DEF Init, LoaderAssumption, Chunk, Contents
<1>2. PosSound /\ LoaderType
  BY InitSound DEF Init, PosSound, IInv
<1>3. pos \in 1 .. Len(store) + StoreStart + 1
  BY <1>2, PosIs
<1>4. store \in Seq(Record) /\ Len(store) <= MaxRecords /\ crashes \in 0 .. MaxCrashes
  BY LoaderAssumption DEF Init, LoaderAssumption
<1>5. suInfo \in Updates \cup {NoUpdate} /\ target \in Updates \cup {NoUpdate} /\ suExec \in Execs
  BY DEF Init, Execs
<1>6. /\ op \in {"run", "SEARCH", "COMPARE", "ERASE", "WRITE"} /\ busy \in BOOLEAN
      /\ chunks \subseteq 0 .. MapEnd - 1 /\ pages \subseteq {PageOf(c) : c \in 0 .. MapEnd - 1}
  BY DEF Init
<1> QED BY <1>1, <1>2, <1>3, <1>4, <1>5, <1>6 DEF TypeInv, TypeOK, Execs

LEMMA TypeStep == ASSUME IInv, TypeInv, [Next]_vars PROVE TypeInv'
<1>1. TypeOK /\ PosSound /\ LoaderType' /\ PosSound'
  BY StepSound, PosStep DEF TypeInv, IInv
<1>2. flash \in [Chunk -> Contents]
  BY <1>1 DEF TypeOK, Contents
<1>3. flash' \in [Chunk -> Contents]
  BY <1>2, FlashTyped
<1>4. (pos \in 1 .. Len(store) + StoreStart + 1)'
  <2>1. (LoaderType /\ PosSound => pos \in 1 .. Len(store) + StoreStart + 1)'
    BY PosIs, PTL
  <2> QED BY <1>1, <2>1
<1>5. op' \in {"run", "SEARCH", "COMPARE", "ERASE", "WRITE"}
  BY <1>1 DEF LoaderType
<1> QED BY <1>1, <1>3, <1>4, <1>5, StoreStep, SearchTyped, PagesTyped, RestTyped
    DEF TypeInv, TypeOK, Contents, Execs

\* Every variable of the boot loader keeps its type, and no pass leaves the
\* store or the code space (Main in loader/main.c).
THEOREM TypeCorrect == Spec => []TypeOK
<1>1. Init => IInv /\ TypeInv
  BY InitSound, TypeInit
<1>2. (IInv /\ TypeInv) /\ [Next]_vars => (IInv /\ TypeInv)'
  BY StepSound, TypeStep
<1>3. TypeInv => TypeOK
  BY DEF TypeInv
<1> QED BY <1>1, <1>2, <1>3, PTL DEF Spec
=============================================================================
