----------------------------- MODULE ConfigStore ----------------------------
(***************************************************************************)
(* Saving and recovering the configuration: config.c and the CONFIG states *)
(* of StoreSuperLoop (store.c:1190-1366).                                  *)
(*                                                                         *)
(* The config page is a row of slots, each erased, torn (its CRC fails) or *)
(* holding a configuration; a configuration is its sequence number, the    *)
(* version of its contents, and whether its frequency is set.  The device  *)
(* id is the board's at every start and no part of the version.  The       *)
(* circular store is what StoreRing shows it to be: a record is there      *)
(* whole or not at all, and making room for one never loses the newest.    *)
(***************************************************************************)
EXTENDS Integers, FiniteSets

CONSTANTS Slots,       \* slots in the config page (32 in the code)
          SeqMod,      \* confSequence wraps here (2^16: it is a u16)
          MaxRequests, \* bound: changes and save requests
          MaxCrashes,  \* bound: power losses
          ListAnytime  \* may "store list" come while a save is under way?

ASSUME ConfigAssumption ==
    /\ Slots \in Nat \ {0}
    /\ SeqMod \in Nat /\ SeqMod > 2
    /\ MaxRequests \in Nat /\ MaxCrashes \in Nat
    /\ ListAnytime \in BOOLEAN

VARIABLES
    config,          \* Config, in RAM
    page, ring,      \* the config page; the config records in the ring
    request,         \* the flash operation in hand: its op, slot and target
    flashComplete,
    staging,         \* staging.config
    state,           \* StoreSuperLoop's
    opConfig,        \* opFlag & OF_CONFIG
    timerDue,        \* TempusTimeout(&configSaveTimer)
    configSaving,
    latest,          \* history: the newest version there has been
    asked,           \* history: the version when a save was last requested
    saved,           \* history: the version last saved, or started with
    requests, crashes

flashVars == <<page, ring>>
timerVars == <<opConfig, timerDue, configSaving>>
ghostVars == <<latest, asked, saved, requests, crashes>>
vars == <<config, flashVars, request, flashComplete, staging, state, timerVars, ghostVars>>

Conf == [seq : 0 .. SeqMod - 1, ver : Nat, tuned : BOOLEAN]
Erased == [seq |-> -1, ver |-> 0, tuned |-> FALSE]
Torn   == [seq |-> -1, ver |-> 1, tuned |-> FALSE]
Factory == [seq |-> 1, ver |-> 0, tuned |-> FALSE]  \* ConfigDefault on zeroed RAM

NoRequest == [op |-> "none", slot |-> 1, clean |-> TRUE]
Ops == {"none", "ringErase", "ringWrite", "pageErase", "slotWrite"}

TypeOK ==
    /\ config \in Conf /\ staging \in Conf
    /\ page \in [1 .. Slots -> Conf \cup {Erased, Torn}]
    /\ ring \subseteq Conf
    /\ request \in [op : Ops, slot : 1 .. Slots, clean : BOOLEAN]
    /\ flashComplete \in BOOLEAN
    /\ state \in {"INIT0", "IDLE", "WRITING", "CONFIG2", "CONFIG3"}
    /\ opConfig \in BOOLEAN /\ timerDue \in BOOLEAN /\ configSaving \in BOOLEAN
    /\ latest \in Nat /\ asked \in Nat /\ saved \in Nat
    /\ requests \in 0 .. MaxRequests /\ crashes \in 0 .. MaxCrashes

-----------------------------------------------------------------------------
\* A configuration replaces another only with a higher sequence number.
Newest(S, start) ==
    LET newer == {c \in S : c.seq > start.seq}
    IN  IF newer = {} THEN start
        ELSE CHOOSE c \in newer : \A d \in newer : c.seq >= d.seq

\* Mutant of PageConfig: the last slot in use is taken without a look at its CRC.
BugNoCrc(p) ==
    LET used == {s \in DOMAIN p : p[s] # Erased}
    IN  IF used = {} THEN Factory ELSE p[CHOOSE s \in used : \A t \in used : s >= t]

\* ConfigInitialize: the factory settings, or the newest slot with a good CRC.
PageConfig(p) == Newest({p[s] : s \in DOMAIN p} \ {Erased, Torn}, Factory)

\* StoreCallbackConfiguration, for every config record readFlash meets.
Recovered(p, r) == Newest(r, PageConfig(p))

\* What a restart would find now.
Durable == Recovered(page, ring)

-----------------------------------------------------------------------------
Init ==
    /\ config = Factory /\ staging = Factory
    /\ page = [s \in 1 .. Slots |-> Erased] /\ ring = {}
    /\ request = NoRequest /\ flashComplete = FALSE
    /\ state = "INIT0"
    /\ opConfig = FALSE /\ timerDue = FALSE /\ configSaving = FALSE
    /\ latest = 0 /\ asked = 0 /\ saved = 0
    /\ requests = 0 /\ crashes = 0

\* Main up to the super loop: ConfigInitialize, then INIT0 of StoreSuperLoop,
\* where a configuration found only in the ring is scheduled to be written
\* back at once, then TraceSetup, which sets a frequency that is missing and
\* schedules a save of its own.
Boot ==
    /\ state = "INIT0"
    /\ LET fromRing == Durable # PageConfig(page)
       IN  \/ /\ Durable.tuned
              /\ config' = Durable
              /\ opConfig' = fromRing /\ timerDue' = fromRing
              /\ configSaving' = fromRing
              /\ asked' = Durable.ver
              /\ UNCHANGED latest
           \/ /\ ~Durable.tuned
              /\ latest' = latest + 1
              /\ config' = [Durable EXCEPT !.ver = latest + 1, !.tuned = TRUE]
              /\ opConfig' = TRUE /\ timerDue' = FALSE
              /\ configSaving' = TRUE
              /\ asked' = latest + 1
    /\ saved' = Durable.ver
    /\ state' = "IDLE"
    /\ UNCHANGED <<flashVars, request, flashComplete, staging, requests, crashes>>

\* Mutant of StoreConfiguration: a request during a save only re-arms the timer.
BugNoFlag(force, v) ==
    /\ timerDue' = force
    /\ opConfig' = (opConfig \/ ~configSaving)
    /\ configSaving' = TRUE
    /\ asked' = v

\* StoreConfiguration(force), for the version v of the configuration.
StoreConfiguration(force, v) ==
    /\ timerDue' = force
    /\ opConfig' = TRUE
    /\ configSaving' = TRUE
    /\ asked' = v

Request == state # "INIT0" /\ requests < MaxRequests /\ requests' = requests + 1

\* A command sets a field, perhaps the frequency, and calls ConfigSave(false).
SetField ==
    /\ Request
    /\ latest' = latest + 1
    /\ \E t \in {config.tuned, TRUE} :
          config' = [config EXCEPT !.ver = latest + 1, !.tuned = t]
    /\ StoreConfiguration(FALSE, latest + 1)
    /\ UNCHANGED <<flashVars, request, flashComplete, staging, state, saved, crashes>>

\* "configuration default": new contents and a new sequence number, no save.
ConfigDefault ==
    /\ Request
    /\ latest' = latest + 1
    /\ config' = [seq |-> (config.seq + 1) % SeqMod, ver |-> latest + 1, tuned |-> FALSE]
    /\ UNCHANGED <<flashVars, request, flashComplete, staging, state, timerVars,
                   asked, saved, crashes>>

\* ConfigSave(true): "configuration save", or kickTheBucket before a reboot.
ForceSave ==
    /\ Request
    /\ StoreConfiguration(TRUE, config.ver)
    /\ UNCHANGED <<config, flashVars, request, flashComplete, staging, state,
                   latest, saved, crashes>>

TimerExpires ==
    /\ opConfig /\ ~timerDue
    /\ timerDue' = TRUE
    /\ UNCHANGED <<config, flashVars, request, flashComplete, staging, state,
                   opConfig, configSaving, ghostVars>>

-----------------------------------------------------------------------------
(* StoreSuperLoop.                                                         *)

Schedule(op, s) ==
    /\ request' = [op |-> op, slot |-> s, clean |-> page[s] = Erased]
    /\ flashComplete' = FALSE

FreeSlots == {s \in 1 .. Slots : page[s] = Erased}

\* Mutant of SaveStart: a full page is erased without the copy in the ring.
BugErasesFirst ==
    /\ state = "IDLE" /\ opConfig /\ timerDue
    /\ opConfig' = FALSE
    /\ config' = [config EXCEPT !.seq = (@ + 1) % SeqMod]
    /\ staging' = config'
    /\ \/ /\ FreeSlots # {}
          /\ Schedule("slotWrite", CHOOSE s \in FreeSlots : \A t \in FreeSlots : s <= t)
          /\ state' = "CONFIG3"
       \/ /\ FreeSlots = {}
          /\ Schedule("pageErase", 1)
          /\ state' = "CONFIG2"
    /\ UNCHANGED <<flashVars, timerDue, configSaving, ghostVars>>

\* IDLE and CONFIG0: number and copy the configuration, then write it to the
\* first free slot, or to the ring when there is none.
SaveStart ==
    /\ state = "IDLE" /\ opConfig /\ timerDue
    /\ opConfig' = FALSE
    /\ config' = [config EXCEPT !.seq = (@ + 1) % SeqMod]
    /\ staging' = config'
    /\ \/ /\ FreeSlots # {}
          /\ Schedule("slotWrite", CHOOSE s \in FreeSlots : \A t \in FreeSlots : s <= t)
          /\ state' = "CONFIG3"
       \/ /\ FreeSlots = {}
          /\ \E op \in {"ringErase", "ringWrite"} : Schedule(op, 1)
          /\ state' = "WRITING"
    /\ UNCHANGED <<flashVars, timerDue, configSaving, ghostVars>>

\* WRITING: wrGo erased a ring page and now writes the record into it.
RingWrite ==
    /\ state = "WRITING" /\ flashComplete
    /\ request.op = "ringErase"
    /\ Schedule("ringWrite", 1)
    /\ UNCHANGED <<config, flashVars, staging, state, timerVars, ghostVars>>

\* WRITING, then CONFIG1: the copy is in the ring, erase the config page.
PageErase ==
    /\ state = "WRITING" /\ flashComplete
    /\ request.op = "ringWrite"
    /\ Schedule("pageErase", 1)
    /\ state' = "CONFIG2"
    /\ UNCHANGED <<config, flashVars, staging, timerVars, ghostVars>>

\* CONFIG2: the page is erased, write its first slot.
SlotWrite ==
    /\ state = "CONFIG2" /\ flashComplete
    /\ Schedule("slotWrite", 1)
    /\ state' = "CONFIG3"
    /\ UNCHANGED <<config, flashVars, staging, timerVars, ghostVars>>

\* Mutants of SaveDone: it does not wait for the flash, or clears the flag of a
\* request that came in during the save.
BugDoesNotWait ==
    /\ state = "CONFIG3"
    /\ configSaving' = FALSE
    /\ state' = "IDLE"
    /\ saved' = staging.ver
    /\ UNCHANGED <<config, flashVars, request, flashComplete, staging,
                   opConfig, timerDue, latest, asked, requests, crashes>>
BugClearsFlagLate ==
    /\ state = "CONFIG3" /\ flashComplete
    /\ configSaving' = FALSE /\ opConfig' = FALSE
    /\ state' = "IDLE"
    /\ saved' = staging.ver
    /\ UNCHANGED <<config, flashVars, request, flashComplete, staging,
                   timerDue, latest, asked, requests, crashes>>

\* CONFIG3: done.
SaveDone ==
    /\ state = "CONFIG3" /\ flashComplete
    /\ configSaving' = FALSE
    /\ state' = "IDLE"
    /\ saved' = staging.ver
    /\ UNCHANGED <<config, flashVars, request, flashComplete, staging,
                   opConfig, timerDue, latest, asked, requests, crashes>>

SuperLoop == Boot \/ SaveStart \/ RingWrite \/ PageErase \/ SlotWrite \/ SaveDone

-----------------------------------------------------------------------------
(* The flash operation in hand (FlashService), by what it does to a slot   *)
(* or to the ring.                                                         *)
Outstanding == request.op # "none" /\ ~flashComplete

\* A slot programmed over something else fails its CRC.
SlotAfter == IF request.clean THEN staging ELSE Torn

\* The sets of config records that recycling a ring page may leave.
RingLeft == {kept \in SUBSET ring : \A c \in ring \ kept : \E d \in kept : d.seq > c.seq}

Apply ==
    CASE request.op = "slotWrite" ->
            page' = [page EXCEPT ![request.slot] = SlotAfter] /\ UNCHANGED ring
      [] request.op = "pageErase" ->
            page' = [s \in 1 .. Slots |-> Erased] /\ UNCHANGED ring
      [] request.op = "ringErase" ->
            ring' \in RingLeft /\ UNCHANGED page
      [] request.op = "ringWrite" ->
            ring' = ring \cup {staging} /\ UNCHANGED page

\* Some of it lands: part of a slot, or all of it before anybody is told.
FlashLands ==
    /\ Outstanding
    /\ \/ /\ request.op = "slotWrite" /\ page[request.slot] = Erased
          /\ page' = [page EXCEPT ![request.slot] = Torn]
          /\ UNCHANGED ring
       \/ Apply
    /\ UNCHANGED <<config, request, flashComplete, staging, state, timerVars, ghostVars>>

FlashReports ==
    /\ Outstanding
    /\ Apply
    /\ flashComplete' = TRUE
    /\ UNCHANGED <<config, request, staging, state, timerVars, ghostVars>>

SlotBegun == Outstanding /\ request.op = "slotWrite" /\ page[request.slot] # Erased

\* "store list": readFlash leaves the last config record of the ring in
\* staging.config, which the soft device may be writing to a slot: one it has
\* begun then mixes two configurations.  "Callers must ensure that both are
\* not attempted at the same time" (store.c:218).  What the command does to a
\* record on its way to the ring (WRITING) is StoreRing's.
StoreList ==
    /\ state \notin {"INIT0", "WRITING"}
    /\ ListAnytime \/ state = "IDLE"
    /\ \E c \in ring : (\A d \in ring : c.seq >= d.seq) /\ staging' = c
    /\ request' = [request EXCEPT !.clean = @ /\ ~SlotBegun]
    /\ UNCHANGED <<config, flashVars, flashComplete, state, timerVars, ghostVars>>

\* A start from nothing: everything but the flash begins again from zero.
LoseRam ==
    /\ config' = Factory /\ staging' = Factory
    /\ request' = NoRequest /\ flashComplete' = FALSE
    /\ state' = "INIT0"
    /\ opConfig' = FALSE /\ timerDue' = FALSE /\ configSaving' = FALSE
    /\ UNCHANGED <<flashVars, latest, asked, saved, requests>>

PowerLoss ==
    /\ crashes < MaxCrashes /\ crashes' = crashes + 1
    /\ LoseRam

Next ==
    \/ SuperLoop
    \/ SetField \/ ConfigDefault \/ ForceSave
    \/ TimerExpires \/ StoreList
    \/ FlashLands \/ FlashReports
    \/ PowerLoss

Spec == Init /\ [][Next]_vars

\* The super loop and the clock run for ever; every flash operation is
\* answered (FlashOp, EventuallyComplete).
FairSpec ==
    Spec /\ WF_vars(SuperLoop) /\ WF_vars(TimerExpires) /\ WF_vars(FlashReports)

-----------------------------------------------------------------------------
Saving == state \in {"WRITING", "CONFIG2", "CONFIG3"}

Promise == INSTANCE DurableConfig WITH
    ram     <- IF state = "INIT0" THEN Durable.ver ELSE config.ver,
    staged  <- IF Saving THEN staging.ver ELSE -1,
    durable <- Durable.ver

\* Through every erase, torn write, slot and ring copy, what a restart would
\* find changes in one step only, from the old configuration to the saved one.
KeepsPromise == Promise!Spec

\* "Locate the most recent configuration from flash storage" (config.c:154):
\* a restart never finds anything older than the last completed save.
FindsLastSave == Durable.ver >= saved

\* A requested save is never forgotten: it is durable, still flagged, or the
\* copy being saved is at least as new.
RequestNotForgotten ==
    state # "INIT0" =>
        \/ Durable.ver >= asked
        \/ opConfig
        \/ Saving /\ staging.ver >= asked

\* A requested save becomes durable unless power is lost first.
EventuallyDurable ==
    \A v \in 1 .. MaxRequests + MaxCrashes + 1 :
        asked = v ~> (Durable.ver >= v \/ state = "INIT0")

\* "Return true if a previously requested configuration write is complete"
\* (config.c:128, ConfigIsDone).
DoneMeansDurable ==
    (state # "INIT0" /\ ~configSaving) => Durable.ver >= asked
=============================================================================
