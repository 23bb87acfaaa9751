----------------------------- MODULE BootLoader ----------------------------
(***************************************************************************)
(* The boot loader, loader/main.c: three passes over the record store      *)
(* (search, compare, write) with an erase loop before the last, between    *)
(* runs of the application, which adds records to the store.  Power may    *)
(* fail at any point, in the middle of a page erase or of programming a    *)
(* chunk too: RAM is lost and the loader starts again.                     *)
(*                                                                         *)
(* Addresses count chunks (OQ_SU_CHUNK bytes); the records hold addresses  *)
(* in that unit (store.c:185, store.c:192).  A record of an update holds   *)
(* the update itself; the contents of a chunk are one value.               *)
(***************************************************************************)
EXTENDS Integers, Sequences, FiniteSets

CONSTANTS Updates,     \* what the application may store: see SoftwareUpdate
          Original,    \* the code space before any update
          PageChunks,  \* chunks in a page, OQ_FLASH_PAGE / OQ_SU_CHUNK
          StoreStart,  \* first chunk of the record store
          MapEnd,      \* where chunks[] and pages[] end
          FlashTop,    \* the highest end address a header may have
          Erased, Torn, Garbled,  \* a chunk erased, half written, overwritten
          MaxRecords,  \* bound: records in the store at a time
          MaxCopies,   \* bound: copies of a record among them
          MaxCrashes   \* bound: power losses

ASSUME LoaderAssumption ==
    /\ PageChunks \in Nat \ {0}
    /\ StoreStart \in Nat /\ MapEnd \in Nat /\ FlashTop \in Nat
    /\ StoreStart <= MapEnd
    /\ Original = [c \in 0 .. StoreStart - 1 |-> Original[c]]
    /\ \A u \in Updates : /\ u.seq \in Nat \ {0} /\ u.ver \in Nat
                          /\ u.start \in Nat /\ u.end \in Nat
                          /\ DOMAIN u.data \subseteq 0 .. StoreStart - 1
                          /\ \A c \in DOMAIN u.data : u.data[c] # Garbled
    /\ \A c \in DOMAIN Original : Original[c] # Garbled
    /\ Garbled \notin {Erased, Torn}
    /\ \A u, v \in Updates : u.seq = v.seq => u = v
    /\ MaxRecords \in Nat /\ MaxCopies \in Nat /\ MaxCrashes \in Nat

NoUpdate == [seq |-> 0, ver |-> 0, start |-> 0, end |-> 0, data |-> <<>>]
NoExec   == [seq |-> 0, ver |-> 0]

Chunk == 0 .. StoreStart - 1
PageOf(c) == c \div PageChunks
ChunksOf(p) == {c \in Chunk : PageOf(c) = p}

\* The records of an update: a header, its chunks, and the execute record.
RecordsOf(u) ==
    {[kind |-> "hdr", u |-> u, addr |-> 0], [kind |-> "exec", u |-> u, addr |-> 0]}
    \cup {[kind |-> "data", u |-> u, addr |-> c] : c \in DOMAIN u.data}
Record == UNION {RecordsOf(u) : u \in Updates}

VARIABLES
    store,           \* the records, oldest first
    flash,           \* code space: chunk -> contents
    op,              \* Op, "ERASE" for the loop between, "run" outside the loader
    pos,             \* the record read next, or the page looked at next
    busy,            \* an erase or a write is under way
    suInfo, suExec,  \* SuInfo, SuExec
    chunks,          \* chunks[]: the chunks still missing
    pages,           \* pages[]: the pages to program
    target,          \* history: the update being installed, kept over a power loss
    crashes          \* bound

loaderVars == <<suInfo, suExec, chunks, pages>>
vars == <<store, flash, op, pos, busy, loaderVars, target, crashes>>

\* What a chunk of the flash may hold.
Contents == (UNION {{u.data[c] : c \in DOMAIN u.data} : u \in Updates})
            \cup {Original[c] : c \in Chunk} \cup {Erased, Torn, Garbled}

TypeOK ==
    /\ store \in Seq(Record) /\ Len(store) <= MaxRecords
    /\ flash \in [Chunk -> Contents]
    /\ op \in {"run", "SEARCH", "COMPARE", "ERASE", "WRITE"}
    /\ pos \in 1 .. Len(store) + StoreStart + 1
    /\ busy \in BOOLEAN
    /\ suInfo \in Updates \cup {NoUpdate}
    /\ suExec \in {NoExec} \cup [seq : {0} \cup {u.seq : u \in Updates}, ver : {u.ver : u \in Updates}]
    /\ chunks \subseteq 0 .. MapEnd - 1
    /\ pages \subseteq {PageOf(c) : c \in 0 .. MapEnd - 1}
    /\ target \in Updates \cup {NoUpdate}
    /\ crashes \in 0 .. MaxCrashes

-----------------------------------------------------------------------------
Init ==
    /\ store = <<>>
    /\ flash = Original
    /\ op = "run" /\ pos = 1 /\ busy = FALSE
    /\ suInfo = NoUpdate /\ suExec = NoExec
    /\ chunks = {} /\ pages = {}
    /\ target = NoUpdate
    /\ crashes = 0

\* The application stores a record of an update, in whatever order they come.
StoreRecord(r) ==
    /\ op = "run"
    /\ Len(store) < MaxRecords
    /\ Cardinality({i \in DOMAIN store : store[i] = r}) < MaxCopies
    /\ store' = Append(store, r)
    /\ UNCHANGED <<flash, op, pos, busy, loaderVars, target, crashes>>

\* The ring recycles its oldest page: the oldest records go.
Recycle ==
    /\ op = "run"
    /\ store # <<>>
    /\ store' = Tail(store)
    /\ UNCHANGED <<flash, op, pos, busy, loaderVars, target, crashes>>

\* RAM is cleared and Main starts its search.
StartLoader ==
    /\ op' = "SEARCH" /\ pos' = 1 /\ busy' = FALSE
    /\ suInfo' = NoUpdate /\ suExec' = NoExec
    /\ chunks' = {} /\ pages' = {}
    /\ UNCHANGED <<store, flash, target>>

\* The application resets the device.
Reset ==
    /\ op = "run"
    /\ StartLoader
    /\ UNCHANGED crashes

\* Power is lost while the loader works; an operation under way stays as it is.
PowerLoss ==
    /\ op # "run"
    /\ crashes < MaxCrashes
    /\ crashes' = crashes + 1
    /\ StartLoader

-----------------------------------------------------------------------------
(* OP_SEARCH                                                               *)

\* The record that StoreRead delivers next, in pass o.
Reads(o, kind) ==
    /\ op = o /\ ~busy
    /\ pos <= Len(store)
    /\ store[pos].kind = kind
ReadDone(o) == op = o /\ ~busy /\ pos > Len(store)

SaneInfo(u) ==
    /\ u.start >= PageChunks /\ u.start <= FlashTop - PageChunks
    /\ u.end >= u.start + PageChunks /\ u.end <= FlashTop

\* MapSetRange on a cleared map: a range up to the map's end sets nothing.
RangeSet(s, e) == IF e >= MapEnd \/ s >= e THEN {} ELSE s .. e - 1

\* StoreCallbackSoftwareUpdateInfo: a newer header starts the collection again.
SearchInfo ==
    /\ Reads("SEARCH", "hdr")
    /\ LET u == store[pos].u
       IN  IF SaneInfo(u) /\ u.seq > suInfo.seq
           THEN /\ suInfo' = u
                /\ chunks' = RangeSet(u.start, u.end)
                /\ suExec' = [suExec EXCEPT !.seq = 0]
           ELSE UNCHANGED <<suInfo, suExec, chunks>>
    /\ pos' = pos + 1
    /\ UNCHANGED <<store, flash, op, busy, pages, target, crashes>>

\* A chunk of the update in suInfo, and of nothing else.
SaneChunk(r) ==
    /\ r.u.seq = suInfo.seq
    /\ r.addr >= suInfo.start /\ r.addr + 1 <= suInfo.end

\* StoreCallbackSoftwareUpdateChunk: one chunk less is missing.
SearchChunk ==
    /\ Reads("SEARCH", "data")
    /\ chunks' = IF SaneChunk(store[pos]) THEN chunks \ {store[pos].addr} ELSE chunks
    /\ pos' = pos + 1
    /\ UNCHANGED <<store, flash, op, busy, suInfo, suExec, pages, target, crashes>>

\* Mutant of SearchExecute: an execute record of any update counts.
BugAnyExecute ==
    /\ Reads("SEARCH", "exec")
    /\ suExec' = IF suInfo = NoUpdate THEN suExec ELSE [seq |-> suInfo.seq, ver |-> suInfo.ver]
    /\ pos' = pos + 1
    /\ UNCHANGED <<store, flash, op, busy, suInfo, chunks, pages, target, crashes>>

\* StoreCallbackSoftwareUpdateExecute
SearchExecute ==
    /\ Reads("SEARCH", "exec")
    /\ LET u == store[pos].u
       IN  suExec' = IF u.seq = suInfo.seq THEN [seq |-> u.seq, ver |-> u.ver] ELSE suExec
    /\ pos' = pos + 1
    /\ UNCHANGED <<store, flash, op, busy, suInfo, chunks, pages, target, crashes>>

\* Leave for the soft device and the application.
RunApp ==
    /\ op' = "run" /\ pos' = 1
    /\ target' = NoUpdate

\* No update, an incomplete one, or one not asked for: run what there is.
SearchGivesUp ==
    /\ ReadDone("SEARCH")
    /\ suInfo.seq = 0 \/ chunks # {} \/ suInfo.ver # suExec.ver
    /\ RunApp
    /\ UNCHANGED <<store, flash, busy, loaderVars, crashes>>

SearchFinds ==
    /\ ReadDone("SEARCH")
    /\ suInfo.seq # 0 /\ chunks = {} /\ suInfo.ver = suExec.ver
    /\ op' = "COMPARE" /\ pos' = 1 /\ pages' = {}
    /\ UNCHANGED <<store, flash, busy, suInfo, suExec, chunks, target, crashes>>

-----------------------------------------------------------------------------
(* OP_COMPARE, the erase loop, OP_WRITE                                    *)

\* Mutant of CompareChunk: every page of the update is to be programmed.
BugComparesNothing ==
    /\ Reads("COMPARE", "data")
    /\ LET r == store[pos]
       IN  pages' = IF SaneChunk(r) THEN pages \cup {PageOf(r.addr)} ELSE pages
    /\ pos' = pos + 1
    /\ UNCHANGED <<store, flash, op, busy, suInfo, suExec, chunks, target, crashes>>

\* A chunk that is not in the flash yet marks its page.
CompareChunk ==
    /\ Reads("COMPARE", "data")
    /\ LET r == store[pos]
       IN  pages' = IF /\ SaneChunk(r) /\ r.addr < MapEnd
                       /\ flash[r.addr] # r.u.data[r.addr]
                    THEN pages \cup {PageOf(r.addr)} ELSE pages
    /\ pos' = pos + 1
    /\ UNCHANGED <<store, flash, op, busy, suInfo, suExec, chunks, target, crashes>>

\* Everything is programmed already: run it.
CompareEqual ==
    /\ ReadDone("COMPARE")
    /\ pages = {}
    /\ RunApp
    /\ UNCHANGED <<store, flash, busy, loaderVars, crashes>>

CompareDiffers ==
    /\ ReadDone("COMPARE")
    /\ pages # {}
    /\ op' = "ERASE" /\ pos' = 1
    /\ UNCHANGED <<store, flash, busy, loaderVars, target, crashes>>

\* Mutant of EraseLoop: the loop misses the last page of the update.
BugEraseLoop == op = "ERASE" /\ ~busy /\ (pos + 1) * PageChunks < suInfo.end

\* Mutant of EraseLoop: the loop has no end.
BugErasesOn == op = "ERASE" /\ ~busy

\* The loop over the pages, from 1 to the start of the store.
EraseLoop == op = "ERASE" /\ ~busy /\ pos * PageChunks < StoreStart

FillPage(w) == [c \in Chunk |-> IF PageOf(c) = pos THEN w ELSE flash[c]]

\* FlashErase starts.  From here on the program is the update or nothing.
EraseBegins ==
    /\ EraseLoop
    /\ pos \in pages
    /\ busy' = TRUE
    /\ flash' = FillPage(Torn)
    /\ target' = suInfo
    /\ UNCHANGED <<store, op, pos, loaderVars, crashes>>

EraseEnds ==
    /\ op = "ERASE" /\ busy
    /\ busy' = FALSE
    /\ flash' = FillPage(Erased)
    /\ pos' = pos + 1
    /\ UNCHANGED <<store, op, loaderVars, target, crashes>>

EraseSkips ==
    /\ EraseLoop
    /\ pos \notin pages
    /\ pos' = pos + 1
    /\ UNCHANGED <<store, flash, op, busy, loaderVars, target, crashes>>

EraseDone ==
    /\ op = "ERASE" /\ ~busy /\ ~EraseLoop
    /\ op' = "WRITE" /\ pos' = 1
    /\ UNCHANGED <<store, flash, busy, loaderVars, target, crashes>>

\* FlashProgram starts, over what is there.
WriteBegins ==
    /\ Reads("WRITE", "data")
    /\ LET r == store[pos]
       IN  /\ SaneChunk(r)
           /\ flash[r.addr] # r.u.data[r.addr]
           /\ flash' = [flash EXCEPT ![r.addr] = IF @ = Erased THEN Torn ELSE Garbled]
    /\ busy' = TRUE
    /\ UNCHANGED <<store, op, pos, loaderVars, target, crashes>>

WriteEnds ==
    /\ op = "WRITE" /\ busy
    /\ LET r == store[pos]
       IN  flash' = [flash EXCEPT ![r.addr] = IF @ = Torn THEN r.u.data[r.addr] ELSE Garbled]
    /\ busy' = FALSE
    /\ pos' = pos + 1
    /\ UNCHANGED <<store, op, loaderVars, target, crashes>>

WriteSkips ==
    /\ Reads("WRITE", "data")
    /\ LET r == store[pos] IN SaneChunk(r) => flash[r.addr] = r.u.data[r.addr]
    /\ pos' = pos + 1
    /\ UNCHANGED <<store, flash, op, busy, loaderVars, target, crashes>>

WriteDone ==
    /\ ReadDone("WRITE")
    /\ RunApp
    /\ UNCHANGED <<store, flash, busy, loaderVars, crashes>>

\* Mutant of PassOver: the last pass waits for a chunk.
BugWaitsForChunk ==
    /\ op = "COMPARE"
    /\ pos <= Len(store)
    /\ store[pos].kind # "data"
    /\ pos' = pos + 1
    /\ UNCHANGED <<store, flash, op, busy, loaderVars, target, crashes>>

\* Headers and execute records mean nothing after the search.
PassOver ==
    /\ op \in {"COMPARE", "WRITE"} /\ ~busy
    /\ pos <= Len(store)
    /\ store[pos].kind # "data"
    /\ pos' = pos + 1
    /\ UNCHANGED <<store, flash, op, busy, loaderVars, target, crashes>>

Main ==
    \/ SearchInfo \/ SearchChunk \/ SearchExecute \/ SearchGivesUp \/ SearchFinds
    \/ CompareChunk \/ CompareEqual \/ CompareDiffers
    \/ EraseBegins \/ EraseEnds \/ EraseSkips \/ EraseDone
    \/ WriteBegins \/ WriteEnds \/ WriteSkips \/ WriteDone
    \/ PassOver

Next ==
    \/ \E r \in Record : StoreRecord(r)
    \/ Recycle
    \/ Reset
    \/ PowerLoss
    \/ Main

Spec == Init /\ [][Next]_vars

\* Nothing else runs on the processor while the loader does.
FairSpec == Spec /\ WF_vars(Main)

-----------------------------------------------------------------------------
(* Properties                                                              *)

\* The update u is in the store whole, behind its header, with its execute.
Complete(u) ==
    \E i \in DOMAIN store :
        /\ store[i] = [kind |-> "hdr", u |-> u, addr |-> 0]
        /\ \A r \in RecordsOf(u) \ {store[i]} : \E j \in i + 1 .. Len(store) : store[j] = r

Offered == {u \in Updates : SaneInfo(u) /\ Complete(u)}

\* The program, once the loader has made up its mind.
Image ==
    IF target = NoUpdate THEN flash
    ELSE [c \in Chunk |-> IF c \in target.start .. target.end - 1
                          THEN target.data[c] ELSE flash[c]]

Promise == INSTANCE SoftwareUpdate WITH image <- Image, offered <- Offered

\* Whatever the order of the records, and with power losses anywhere, the
\* application is only ever run on the program it had or on the newest
\* update that is complete and asked for, installed whole: an install cut
\* short is taken up again before anything runs (Main).
InstallStep == [Promise!Next]_(Promise!vars)
Installs == Promise!Init /\ [][InstallStep]_vars

\* No chunk is programmed over anything but erased flash, also when the
\* loader comes back after a power loss in the middle of an erase or a write
\* (the erase loop against the two passes around it).
NeverOverprograms == \A c \in Chunk : flash[c] # Garbled

\* A page is erased only when something of the update is missing from it: a
\* page that is done is not erased again by a later pass (MapIsSet in Main).
EraseIsNeeded ==
    \A p \in {PageOf(c) : c \in Chunk} :
        (op = "ERASE" /\ \E c \in ChunksOf(p) : flash[c] # Torn /\ flash'[c] = Torn)
        => \E c \in ChunksOf(p) : c \in suInfo.start .. suInfo.end - 1
                                  /\ flash[c] # suInfo.data[c]
ErasesOnlyWhatDiffers == [][EraseIsNeeded]_vars

NewestHeader(u) == \A i \in DOMAIN store :
    (store[i].kind = "hdr" /\ SaneInfo(store[i].u)) => store[i].u.seq <= u.seq

\* A loader that starts with a complete newest update installs it and runs it,
\* however often power is lost on the way.
EventuallyInstalled ==
    \A u \in {v \in Updates : SaneInfo(v)} :
        (op = "SEARCH" /\ u \in Offered /\ NewestHeader(u))
        ~> (op = "run" /\ \A c \in u.start .. u.end - 1 : flash[c] = u.data[c])
=============================================================================
