------------------------ MODULE MCBootLoader_proofs -----------------------
(***************************************************************************)
(* The theorems of BootLoader_proofs about the specification that TLC      *)
(* runs, which keeps one of two geometries: what the run shows for its     *)
(* updates holds for any updates in the first geometry, and for the update *)
(* of two pages in the second, with the runs' bounds or others.            *)
(***************************************************************************)
EXTENDS MCBootLoader, BootLoader_proofs

\* The proofs of BootLoader, about the second geometry.
WideP == INSTANCE BootLoader_proofs WITH
    Updates <- {Large}, Original <- [c \in 0 .. 7 |-> "original"],
    PageChunks <- 2, StoreStart <- 8, MapEnd <- 8, FlashTop <- 16,
    MaxRecords <- 6, MaxCopies <- 1

LEMMA WideAssumed == WideP!LoaderAssumption
BY WideAssumption DEF Wide!LoaderAssumption, WideP!LoaderAssumption

-----------------------------------------------------------------------------
(* Wide and WideP are the same specification                               *)

LEMMA SameInit == Wide!Init => WideP!Init
BY DEF Wide!Init, WideP!Init, Wide!NoUpdate, WideP!NoUpdate, Wide!NoExec, WideP!NoExec

LEMMA SameCount == \A S : Wide!Cardinality(S) = WideP!Cardinality(S)
BY DEF Wide!Cardinality, WideP!Cardinality

LEMMA SameRecord == Wide!Record = WideP!Record
BY DEF Wide!Record, WideP!Record, Wide!RecordsOf, WideP!RecordsOf

LEMMA SameRun ==
    /\ (\E r \in Wide!Record : Wide!StoreRecord(r)) => \E r \in WideP!Record : WideP!StoreRecord(r)
    /\ Wide!Recycle => WideP!Recycle
    /\ Wide!Reset => WideP!Reset
    /\ Wide!PowerLoss => WideP!PowerLoss
BY SameCount, SameRecord DEF Wide!StoreRecord, WideP!StoreRecord,
    Wide!Recycle, WideP!Recycle, Wide!Reset, WideP!Reset, Wide!PowerLoss, WideP!PowerLoss, 
    Wide!StartLoader, WideP!StartLoader, Wide!loaderVars, WideP!loaderVars,
    Wide!NoUpdate, WideP!NoUpdate, Wide!NoExec, WideP!NoExec

LEMMA SameSearch ==
    /\ Wide!SearchInfo => WideP!SearchInfo
    /\ Wide!SearchChunk => WideP!SearchChunk
    /\ Wide!SearchExecute => WideP!SearchExecute
    /\ Wide!SearchGivesUp => WideP!SearchGivesUp
    /\ Wide!SearchFinds => WideP!SearchFinds
BY DEF Wide!SearchInfo, WideP!SearchInfo, Wide!SearchChunk, WideP!SearchChunk, Wide!SearchExecute, WideP!SearchExecute,
       Wide!SearchGivesUp, WideP!SearchGivesUp, Wide!SearchFinds, WideP!SearchFinds,
       Wide!Reads, WideP!Reads, Wide!ReadDone, WideP!ReadDone, Wide!SaneInfo, WideP!SaneInfo, Wide!RangeSet, WideP!RangeSet,
       Wide!SaneChunk, WideP!SaneChunk, Wide!RunApp, WideP!RunApp, Wide!loaderVars, WideP!loaderVars, Wide!NoUpdate, WideP!NoUpdate

LEMMA SameWork ==
    /\ Wide!CompareChunk => WideP!CompareChunk
    /\ Wide!CompareEqual => WideP!CompareEqual
    /\ Wide!CompareDiffers => WideP!CompareDiffers
    /\ Wide!EraseBegins => WideP!EraseBegins
    /\ Wide!EraseEnds => WideP!EraseEnds
    /\ Wide!EraseSkips => WideP!EraseSkips
    /\ Wide!EraseDone => WideP!EraseDone
    /\ Wide!WriteBegins => WideP!WriteBegins
    /\ Wide!WriteEnds => WideP!WriteEnds
    /\ Wide!WriteSkips => WideP!WriteSkips
    /\ Wide!WriteDone => WideP!WriteDone
    /\ Wide!PassOver => WideP!PassOver
BY DEF Wide!CompareChunk, WideP!CompareChunk, Wide!CompareEqual, WideP!CompareEqual, Wide!CompareDiffers, WideP!CompareDiffers,
 Wide!EraseBegins, WideP!EraseBegins, Wide!EraseEnds, WideP!EraseEnds, Wide!EraseSkips, WideP!EraseSkips, Wide!EraseDone, WideP!EraseDone,
 Wide!WriteBegins, WideP!WriteBegins, Wide!WriteEnds, WideP!WriteEnds, Wide!WriteSkips, WideP!WriteSkips, Wide!WriteDone, WideP!WriteDone,
 Wide!PassOver, WideP!PassOver, Wide!EraseLoop, WideP!EraseLoop, Wide!FillPage, WideP!FillPage, Wide!Chunk, WideP!Chunk, Wide!PageOf, WideP!PageOf,
       Wide!Reads, WideP!Reads, Wide!ReadDone, WideP!ReadDone, 
       Wide!SaneChunk, WideP!SaneChunk, Wide!RunApp, WideP!RunApp, Wide!loaderVars, WideP!loaderVars, Wide!NoUpdate, WideP!NoUpdate

LEMMA SameNext == [Wide!Next]_(Wide!vars) => [WideP!Next]_(WideP!vars)
BY SameRun, SameSearch, SameWork DEF Wide!Next, WideP!Next, Wide!Main, WideP!Main, Wide!vars, WideP!vars, Wide!loaderVars, WideP!loaderVars

LEMMA SameProps == 
  /\ WideP!TypeOK = Wide!TypeOK
  /\ WideP!NeverOverprograms = Wide!NeverOverprograms
  /\ WideP!EraseIsNeeded = Wide!EraseIsNeeded
BY DEF WideP!TypeOK, Wide!TypeOK, WideP!NeverOverprograms, Wide!NeverOverprograms, WideP!EraseIsNeeded, Wide!EraseIsNeeded,
  WideP!Record, Wide!Record, WideP!RecordsOf, Wide!RecordsOf, WideP!Contents, Wide!Contents, WideP!Chunk, Wide!Chunk, WideP!PageOf, Wide!PageOf,
  WideP!ChunksOf, Wide!ChunksOf, WideP!NoUpdate, Wide!NoUpdate, WideP!NoExec, Wide!NoExec

LEMMA SamePromise ==
  /\ WideP!Promise!Init => Wide!Promise!Init
  /\ WideP!InstallStep => Wide!InstallStep
BY DEF WideP!Promise!Init, Wide!Promise!Init, WideP!InstallStep, Wide!InstallStep, WideP!Promise!Next, Wide!Promise!Next, WideP!Promise!vars, Wide!Promise!vars, Wide!Promise!Install, Wide!Promise!Offer, WideP!Promise!Install, WideP!Promise!Offer, WideP!Promise!Overlay, Wide!Promise!Overlay,
   WideP!Image, Wide!Image, WideP!Offered, Wide!Offered, WideP!Complete, Wide!Complete, WideP!RecordsOf, Wide!RecordsOf, WideP!SaneInfo, Wide!SaneInfo, WideP!NoUpdate, Wide!NoUpdate,
   WideP!Chunk, Wide!Chunk

-----------------------------------------------------------------------------
(* The update of the second geometry                                       *)

LEMMA LargeData == DOMAIN Large.data = 2 .. 5
BY DEF Large

LEMMA PagesOfTwo == \A c \in 0 .. 7 : WideP!PageOf(c) = IF c < 2 THEN 0 ELSE IF c < 4 THEN 1 ELSE IF c < 6 THEN 2 ELSE 3
BY DEF WideP!PageOf

\* It meets what InstallsUpdates asks of an update.
LEMMA LargeIsWellFormed == WideP!WellFormed
<1>1. /\ Large.seq = 1 /\ Large.ver = 1 /\ Large.start = 2 /\ Large.end = 6
  BY DEF Large
<1>2. WideP!RangeOf(Large) = 2 .. 5
  BY <1>1 DEF WideP!RangeOf
<1>3. \A c, d \in 0 .. 7 : WideP!PageOf(c) = WideP!PageOf(d) /\ c \in 2 .. 5 => d \in 2 .. 5
  BY PagesOfTwo
<1>4. WideP!Chunk = 0 .. 7
  BY DEF WideP!Chunk
<1> QED BY <1>1, <1>2, <1>3, <1>4, LargeData DEF WideP!WellFormed

-----------------------------------------------------------------------------
(* One invariant for both geometries                                       *)

Sound     == IInv /\ TypeInv /\ PagesSound /\ NeedSound
WideSound == WideP!IInv /\ WideP!TypeInv /\ WideP!PagesSound /\ WideP!NeedSound

\* The invariant in the geometry at hand.
InGeometry == wide \in BOOLEAN /\ IF wide THEN WideSound ELSE Sound

LEMMA InitInGeometry == MCInit => InGeometry
<1>1. WideP!Init => WideSound
  BY WideAssumed, WideP!InitSound, WideP!TypeInit, WideP!NeedInit DEF WideSound
<1>2. Init => Sound
  BY InitSound, TypeInit, NeedInit DEF Sound
<1> QED BY <1>1, <1>2, SameInit DEF MCInit, InGeometry

LEMMA MCStep ==
    [MCNext]_allVars => /\ wide' = wide
                        /\ wide => [WideP!Next]_(WideP!vars)
                        /\ (wide \in BOOLEAN /\ ~wide) => [Next]_vars
<1>1. Wide!Next => [WideP!Next]_(WideP!vars)
  BY SameNext
<1>2. UNCHANGED vars => UNCHANGED WideP!vars
  BY DEF vars, WideP!vars, loaderVars, WideP!loaderVars
<1> QED BY <1>1, <1>2 DEF MCNext, allVars

LEMMA StaysInGeometry == InGeometry /\ [MCNext]_allVars => InGeometry'
<1> SUFFICES ASSUME InGeometry, [MCNext]_allVars PROVE InGeometry'
  OBVIOUS
<1>1. WideSound /\ [WideP!Next]_(WideP!vars) => WideSound'
  BY WideAssumed, WideP!StepSound, WideP!TypeStep, WideP!PagesStep, WideP!NeedStep DEF WideSound
<1>2. Sound /\ [Next]_vars => Sound'
  BY StepSound, TypeStep, PagesStep, NeedStep DEF Sound
<1> QED BY <1>1, <1>2, MCStep DEF InGeometry

\* The type invariant, in both geometries (Main in loader/main.c).
THEOREM TypeInGeometry == MCSpec => []LoaderTypeOK
<1>1. InGeometry => LoaderTypeOK
  BY SameProps DEF InGeometry, WideSound, Sound, TypeInv, WideP!TypeInv, LoaderTypeOK
<1> QED BY <1>1, InitInGeometry, StaysInGeometry, PTL DEF MCSpec

\* No chunk is programmed over anything but erased flash, in both geometries and
\* with power losses anywhere (the erase loop and the passes around it in Main).
THEOREM CleanInGeometry == MCSpec => []CleanProgramming
<1>1. InGeometry => CleanProgramming
  BY SameProps DEF InGeometry, WideSound, Sound, IInv, WideP!IInv, CleanProgramming
<1> QED BY <1>1, InitInGeometry, StaysInGeometry, PTL DEF MCSpec

\* A page is erased only when something of the update is missing from it, in
\* pages of one chunk and of two (OP_COMPARE and the erase loop in Main).
THEOREM ErasesInGeometry == MCSpec => ErasesWhatDiffers
<1>1. ASSUME InGeometry, [MCNext]_allVars
      PROVE  [IF wide THEN Wide!EraseIsNeeded ELSE EraseIsNeeded]_allVars
  <2>1. CASE UNCHANGED allVars
    BY <2>1
  <2>2. CASE MCNext /\ wide
    <3>1. WideP!IInv /\ WideP!NeedSound /\ [WideP!Next]_(WideP!vars)
      BY <1>1, <2>2, MCStep DEF InGeometry, WideSound
    <3> QED BY <2>2, <3>1, WideAssumed, WideP!EraseNeeds, SameProps
  <2>3. CASE MCNext /\ ~wide
    <3>1. IInv /\ NeedSound /\ [Next]_vars
      BY <1>1, <2>3, MCStep DEF InGeometry, Sound
    <3> QED BY <2>3, <3>1, EraseNeeds
  <2> QED BY <1>1, <2>1, <2>2, <2>3
<1>2. InGeometry /\ [MCNext]_allVars => [IF wide THEN Wide!EraseIsNeeded ELSE EraseIsNeeded]_allVars
  BY <1>1
<1> QED BY <1>2, InitInGeometry, StaysInGeometry, PTL DEF MCSpec, ErasesWhatDiffers

-----------------------------------------------------------------------------
(* The promise of SoftwareUpdate                                           *)

\* InstallsUpdates' invariant in the geometry at hand.
Installing == wide \in BOOLEAN /\ IF wide THEN WideP!InstallInv ELSE InstallInv

\* The loader of the run installs an update whole or not at all, and never an
\* older one: well-formed updates in the first geometry, the large one in the
\* second (Main and the three StoreCallbackSoftwareUpdate functions).
THEOREM InstallsInGeometry == ASSUME WellFormed PROVE MCSpec => InstallsWhole
<1>1. MCInit => Installing
  BY InstallInit, WideP!InstallInit, WideAssumed, SameInit DEF MCInit, Installing
<1>2. Installing /\ [MCNext]_allVars => Installing'
  <2>1. WideP!InstallInv /\ [WideP!Next]_(WideP!vars) => WideP!InstallInv'
    BY WideAssumed, LargeIsWellFormed, WideP!InstallStepSound
  <2>2. InstallInv /\ [Next]_vars => InstallInv'
    BY InstallStepSound
  <2> QED BY <2>1, <2>2, MCStep DEF Installing
<1>3. MCInit => IF wide THEN Wide!Promise!Init ELSE Promise!Init
  BY FirstImage, WideP!FirstImage, WideAssumed, SameInit, SamePromise DEF MCInit
<1>4. Installing /\ [MCNext]_allVars => [IF wide THEN Wide!InstallStep ELSE InstallStep]_allVars
  <2>1. WideP!InstallInv /\ [WideP!Next]_(WideP!vars) => Wide!InstallStep
    BY WideAssumed, LargeIsWellFormed, WideP!EveryStepInstalls, SamePromise
  <2>2. InstallInv /\ [Next]_vars => InstallStep
    BY EveryStepInstalls
  <2> QED BY <2>1, <2>2, MCStep DEF Installing
<1> QED BY <1>1, <1>2, <1>3, <1>4, PTL DEF MCSpec, InstallsWhole
=============================================================================
