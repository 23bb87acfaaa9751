---------------------------- MODULE MCBootLoader ---------------------------
(* BootLoader for TLC.  The boot record is page 0, the record store and    *)
(* the maps' end come right after the code space, as 0x40000 does.         *)
EXTENDS BootLoader, TLC

MCOriginal == [c \in 0 .. StoreStart - 1 |-> "original"]

\* Two updates of one page of one chunk, and a newer header with a bad start
\* address.  Versions differ: Main compares versions alone in the end.
First   == [seq |-> 1, ver |-> 1, start |-> 1, end |-> 2, data |-> (1 :> "a")]
Second  == [seq |-> 2, ver |-> 2, start |-> 1, end |-> 2, data |-> (1 :> "b")]
Insane  == [seq |-> 3, ver |-> 3, start |-> 0, end |-> 2, data |-> <<>>]
OnePage == {First, Second, Insane}

\* An update up to the end of the code space.
ToTheEnd == {[seq |-> 1, ver |-> 1, start |-> 1, end |-> 3, data |-> (1 :> "a" @@ 2 :> "b")]}

\* A second geometry: pages of two chunks, and an update of two pages.  One of
\* its chunks is there already and one looks erased.
Large == [seq |-> 1, ver |-> 1, start |-> 2, end |-> 6,
          data |-> [c \in 2 .. 5 |-> CASE c = 2 -> "a" [] c = 3 -> "b"
                                       [] c = 4 -> "original" [] c = 5 -> "erased"]]
Wide == INSTANCE BootLoader WITH
    Updates <- {Large}, Original <- [c \in 0 .. 7 |-> "original"],
    PageChunks <- 2, StoreStart <- 8, MapEnd <- 8, FlashTop <- 16,
    MaxRecords <- 6, MaxCopies <- 1
ASSUME WideAssumption == Wide!LoaderAssumption

\* One run for both: a behaviour keeps the geometry it starts with.
VARIABLE wide
allVars == <<vars, wide>>

MCInit == wide \in BOOLEAN /\ IF wide THEN Wide!Init ELSE Init
MCNext == UNCHANGED wide /\ ((wide /\ Wide!Next) \/ (~wide /\ Next))
MCSpec == /\ MCInit /\ [][MCNext]_allVars
          /\ WF_allVars(UNCHANGED wide /\ ((wide /\ Wide!Main) \/ (~wide /\ Main)))

\* The properties of BootLoader, in the geometry at hand.
\* TypeOK: the type invariant.
LoaderTypeOK == IF wide THEN Wide!TypeOK ELSE TypeOK
\* NeverOverprograms: no chunk is programmed over anything but erased flash.
CleanProgramming == IF wide THEN Wide!NeverOverprograms ELSE NeverOverprograms
\* Installs: an update is installed whole or not at all, and never an older one.
InstallsWhole ==
    /\ IF wide THEN Wide!Promise!Init ELSE Promise!Init
    /\ [][IF wide THEN Wide!InstallStep ELSE InstallStep]_allVars
\* ErasesOnlyWhatDiffers: a page that is done is not erased again.
ErasesWhatDiffers == [][IF wide THEN Wide!EraseIsNeeded ELSE EraseIsNeeded]_allVars
\* EventuallyInstalled: a complete newest update is installed and run (records
\* of one geometry's updates are never in the other's store).
InstalledInTheEnd == EventuallyInstalled /\ Wide!EventuallyInstalled
=============================================================================
