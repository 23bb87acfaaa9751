---------------------------- MODULE Reboot_proofs --------------------------
(***************************************************************************)
(* For any size of the config page, any changes, saves, reboots and power  *)
(* losses, as long as the configuration's sequence number does not wrap    *)
(* and no "store list" comes during a save (ListAnytime): a restart finds  *)
(* the last save, no request is forgotten, a reboot waits for the save,    *)
(* and the flash keeps the promise of DurableConfig.                       *)
(***************************************************************************)
EXTENDS Reboot, WellFoundedInduction, TLAPS

\* The sequence number may be raised once more without wrapping.
NoWrap == config.seq + 1 < SeqMod

\* The good slots of a config page, and all that a restart looks at.
GoodSlots(p) == {p[s] : s \in DOMAIN p} \ {Erased, Torn}
Records(p, r) == GoodSlots(p) \cup r \cup {Factory}

\* d is the only one of R with the highest sequence number.
Leads(d, R) == d \in R /\ \A r \in R : r = d \/ r.seq < d.seq

\* No two records that could be the newest are different ones.
Ordered == Leads(Durable, Records(page, ring))

\* The running configuration is at least as new as the durable one.
RunsNewest ==
    /\ saved <= Durable.ver /\ Durable.ver <= latest
    /\ state # "INIT0" => /\ Durable.seq <= config.seq
                          /\ Durable.ver <= config.ver
                          /\ config.ver <= latest
                          /\ asked <= config.ver

\* The copy being saved is the durable one or goes before all records.
SavesNewer ==
    Saving => /\ staging = Durable \/ Durable.seq < staging.seq
              /\ Durable.ver <= staging.ver
              /\ staging.ver <= config.ver
              /\ staging.seq <= config.seq

\* The operation in hand is the one of the state, and there is a copy in the
\* ring before the page is erased.
FlashSound ==
    /\ Outstanding => Saving
    /\ state = "WRITING" =>
          /\ request.op \in {"ringErase", "ringWrite"}
          /\ request.op = "ringWrite" /\ flashComplete => staging \in ring
    /\ state = "CONFIG2" =>
          /\ request.op = "pageErase"
          /\ staging \in ring
          /\ flashComplete => \A s \in 1 .. Slots : page[s] = Erased
    /\ state = "CONFIG3" =>
          /\ request.op = "slotWrite"
          /\ request.clean
          /\ page[request.slot] \in {Erased, Torn, staging}
          /\ flashComplete => staging = Durable

\* The inductive invariant of the saving of the configuration.
SaveInv ==
    TypeOK /\ Ordered /\ RunsNewest /\ SavesNewer /\ FlashSound /\ RequestNotForgotten

\* Until a save is asked for during another one, configSaving is up for as long
\* as one is to come or under way.
FlagHonest ==
    state # "INIT0" /\ ~overlapped =>
        /\ Saving \/ opConfig => configSaving
        /\ Saving => ~opConfig

DeviceInv == SaveInv /\ DeviceTypeOK /\ FlagHonest

-----------------------------------------------------------------------------
(* The newest of some configurations                                       *)

\* A set of natural numbers has a lowest one; one below a bound a highest one.
LEMMA LowestOf ==
    ASSUME NEW S \in SUBSET Nat, S # {}
    PROVE  \E x \in S : \A y \in S : x <= y
<1>1. PICK n \in S : \A m \in S : ~ (<<m, n>> \in OpToRel(<, Nat))
  BY NatLessThanWellFounded, WFMin
<1>2. \A m \in S : n <= m
  <2> TAKE m \in S
  <2>1. ~(m < n)
    BY <1>1 DEF OpToRel
  <2> QED BY <2>1
<1> QED BY <1>2

LEMMA HighestOf ==
    ASSUME NEW S, S # {}, S \subseteq 0 .. SeqMod - 1
    PROVE  \E x \in S : \A y \in S : x >= y
<1> DEFINE T == {n \in Nat : SeqMod - n \in S}
<1>1. SeqMod \in Nat
  BY ConfigAssumption
<1>2. PICK s \in S : TRUE
  OBVIOUS
<1>3. T # {}
  <2>1. SeqMod - s \in Nat /\ SeqMod - (SeqMod - s) = s
    BY <1>1
  <2> QED BY <2>1, <1>2
<1>4. PICK n \in T : \A m \in T : n <= m
  <2> HIDE DEF T
  <2>1. T \in SUBSET Nat
    BY DEF T
  <2> QED BY <1>3, <2>1, LowestOf
<1>5. ASSUME NEW y \in S PROVE SeqMod - n >= y
  <2>1. y \in Int /\ SeqMod - y \in Nat /\ SeqMod - (SeqMod - y) = y
    BY <1>1
  <2>2. SeqMod - y \in T
    BY <2>1
  <2>3. n <= SeqMod - y
    BY <1>4, <2>2
  <2> QED BY <2>1, <2>3, <1>1
<1> QED BY <1>5

\* Newest answers with one of the configurations it was given.
LEMMA NewestIsOne ==
    ASSUME NEW S \in SUBSET Conf, NEW start \in Conf
    PROVE  Newest(S, start) \in S \cup {start}
<1> DEFINE newer == {c \in S : c.seq > start.seq}
<1>1. CASE newer = {}
  BY <1>1 DEF Newest
<1>2. CASE newer # {}
  <2> DEFINE Q == {c.seq : c \in newer}
  <2>1. Q # {} /\ Q \subseteq 0 .. SeqMod - 1
    BY <1>2 DEF Conf
  <2>2. \E x \in Q : \A y \in Q : x >= y
    <3> HIDE DEF Q
    <3> QED BY <2>1, HighestOf
  <2>3. \E c \in newer : \A d \in newer : c.seq >= d.seq
    BY <2>2
  <2>4. Newest(S, start) \in newer
    BY <1>2, <2>3 DEF Newest
  <2> QED BY <2>4
<1> QED BY <1>1, <1>2

\* Newest finds the one that is ahead of all others.
LEMMA NewestLeads ==
    ASSUME NEW S \in SUBSET Conf, NEW start \in Conf, NEW d, Leads(d, S \cup {start})
    PROVE  Newest(S, start) = d
<1> DEFINE newer == {c \in S : c.seq > start.seq}
<1>0. /\ d \in Conf /\ d.seq \in Int /\ start.seq \in Int
      /\ \A c \in S : c.seq \in Int
  BY DEF Leads, Conf
<1>1. CASE d = start
  <2>1. newer = {}
    BY <1>0, <1>1 DEF Leads
  <2> QED BY <1>1, <2>1 DEF Newest
<1>2. CASE d # start
  <2>1. d \in newer
    BY <1>0, <1>2 DEF Leads
  <2>2. \A c \in newer : d.seq >= c.seq
    BY <1>0 DEF Leads
  <2>3. ASSUME NEW c \in newer, \A e \in newer : c.seq >= e.seq PROVE c = d
    BY <1>0, <2>1, <2>3 DEF Leads
  <2>4. (CHOOSE c \in newer : \A e \in newer : c.seq >= e.seq) = d
    BY <2>1, <2>2, <2>3
  <2> QED BY <2>1, <2>4 DEF Newest
<1> QED BY <1>1, <1>2

Page == [1 .. Slots -> Conf \cup {Erased, Torn}]

LEMMA RecordsAreConf ==
    ASSUME NEW p \in Page, NEW r \in SUBSET Conf
    PROVE  /\ Factory \in Conf
           /\ GoodSlots(p) \in SUBSET Conf
           /\ Records(p, r) \in SUBSET Conf
<1>1. Factory \in Conf
  BY ConfigAssumption DEF Factory, Conf
<1>2. GoodSlots(p) \in SUBSET Conf
  BY DEF GoodSlots, Page
<1> QED BY <1>1, <1>2 DEF Records

\* A restart finds the record that is ahead of all others.
LEMMA RecoversLeader ==
    ASSUME NEW p \in Page, NEW r \in SUBSET Conf, NEW d, Leads(d, Records(p, r))
    PROVE  Recovered(p, r) = d
<1> DEFINE c == PageConfig(p)
<1>1. /\ Factory \in Conf /\ GoodSlots(p) \in SUBSET Conf
  BY RecordsAreConf
<1>2. c = Newest(GoodSlots(p), Factory)
  BY DEF PageConfig, GoodSlots
<1>3. c \in GoodSlots(p) \cup {Factory}
  BY <1>1, <1>2, NewestIsOne
<1>4. c \in Conf
  BY <1>1, <1>3
<1>5. d \in r \cup {c}
  <2>1. CASE d \in r
    BY <2>1
  <2>2. CASE d \in GoodSlots(p) \cup {Factory}
    <3>1. Leads(d, GoodSlots(p) \cup {Factory})
      BY <2>2 DEF Leads, Records
    <3> QED BY <1>1, <1>2, <3>1, NewestLeads
  <2> QED BY <2>1, <2>2 DEF Leads, Records
<1>6. Leads(d, r \cup {c})
  BY <1>3, <1>5 DEF Leads, Records
<1>7. Newest(r, c) = d
  BY <1>4, <1>6, NewestLeads
<1> QED BY <1>7 DEF Recovered

-----------------------------------------------------------------------------
(* Steps that leave the flash alone                                        *)

LEMMA DurableIs ==
    ASSUME TypeOK, Ordered
    PROVE  Durable \in Conf /\ Durable.seq \in Nat /\ Durable.ver \in Nat
<1>1. page \in Page /\ ring \in SUBSET Conf
  BY DEF TypeOK, Page
<1>2. Records(page, ring) \in SUBSET Conf
  BY <1>1, RecordsAreConf
<1>3. Durable \in Conf
  BY <1>2 DEF Ordered, Leads
<1> QED BY <1>3, ConfigAssumption DEF Conf

LEMMA SameFlash ==
    ASSUME Ordered, UNCHANGED flashVars
    PROVE  Durable' = Durable /\ Ordered'
BY DEF flashVars, Durable, Ordered

LEMMA ConfWith ==
    ASSUME NEW c \in Conf, NEW v \in Nat, NEW t \in BOOLEAN
    PROVE  [c EXCEPT !.ver = v, !.tuned = t] \in Conf
BY DEF Conf

LEMMA SmallMod ==
    ASSUME NEW a \in Nat, NEW m \in Nat, a < m
    PROVE  a % m = a
BY Z3

LEMMA NextSeq ==
    ASSUME TypeOK, NoWrap
    PROVE  (config.seq + 1) % SeqMod = config.seq + 1 /\ config.seq + 1 \in 0 .. SeqMod - 1
<1>1. config.seq \in Nat /\ SeqMod \in Nat
  BY ConfigAssumption DEF TypeOK, Conf
<1>2. config.seq + 1 \in Nat /\ config.seq + 1 < SeqMod
  BY <1>1 DEF NoWrap
<1> QED BY <1>1, <1>2, SmallMod

\* A new version, or a later save of the same one.
LEMMA RequestSteps ==
    ASSUME SaveInv, NoWrap,
           \/ SetField \/ ConfigDefault \/ ForceSave
           \/ TimerExpires
    PROVE  SaveInv'
<1>1. TypeOK /\ Ordered /\ UNCHANGED flashVars
  BY DEF SaveInv, SetField, ConfigDefault, ForceSave, TimerExpires
<1>2. Durable' = Durable /\ Ordered'
  BY <1>1, SameFlash
<1>3. Durable.seq \in Nat /\ Durable.ver \in Nat
  BY <1>1, DurableIs
<1>4. TypeOK'
  <2>1. CASE SetField
    <3>1. config' \in Conf
      <4>1. config \in Conf /\ latest \in Nat
        BY <1>1 DEF TypeOK
      <4>2. PICK t \in {config.tuned, TRUE} :
                config' = [config EXCEPT !.ver = latest + 1, !.tuned = t]
        BY <2>1 DEF SetField
      <4>3. t \in BOOLEAN
        BY <4>1 DEF Conf
      <4>4. latest + 1 \in Nat
        BY <4>1
      <4> QED BY <4>1, <4>2, <4>3, <4>4, ConfWith
    <3>2. requests' \in 0 .. MaxRequests /\ latest' \in Nat /\ asked' \in Nat
      BY <1>1, <2>1, ConfigAssumption DEF TypeOK, SetField, Request, StoreConfiguration
    <3> QED BY <1>1, <2>1, <3>1, <3>2 DEF TypeOK, SetField, StoreConfiguration, flashVars
  <2>2. CASE ConfigDefault
    <3>1. config' \in Conf
      BY <1>1, <2>2, NextSeq DEF SaveInv, TypeOK, ConfigDefault, Conf
    <3> QED BY <1>1, <2>2, <3>1, ConfigAssumption
        DEF TypeOK, ConfigDefault, Request, flashVars, timerVars
  <2>3. CASE ForceSave
    <3>1. config.ver \in Nat
      BY <1>1 DEF TypeOK, Conf
    <3> QED BY <1>1, <2>3, <3>1, ConfigAssumption
        DEF TypeOK, ForceSave, Request, StoreConfiguration, flashVars
  <2>4. CASE TimerExpires
    BY <1>1, <2>4 DEF TypeOK, TimerExpires, flashVars, ghostVars
  <2> QED BY <2>1, <2>2, <2>3, <2>4
<1>5. /\ config' = config \/ (config'.ver = latest + 1 /\ latest' = latest + 1)
      /\ config'.seq \in {config.seq, config.seq + 1}
      /\ latest' \in {latest, latest + 1}
      /\ asked' \in {asked, config'.ver}
  <2>1. CASE SetField
    BY <1>1, <2>1 DEF TypeOK, SetField, StoreConfiguration, Conf
  <2>2. CASE ConfigDefault
    BY <1>1, <2>2, NextSeq DEF ConfigDefault
  <2>3. CASE ForceSave
    BY <2>3 DEF ForceSave, StoreConfiguration
  <2>4. CASE TimerExpires
    BY <2>4 DEF TimerExpires, ghostVars
  <2> QED BY <2>1, <2>2, <2>3, <2>4
<1>6. /\ state' = state /\ staging' = staging /\ request' = request
      /\ flashComplete' = flashComplete /\ saved' = saved
      /\ page' = page /\ ring' = ring
  BY <1>1 DEF SetField, ConfigDefault, ForceSave, TimerExpires, ghostVars, flashVars
<1>7. /\ config.ver \in Nat /\ config.seq \in Nat /\ latest \in Nat /\ asked \in Nat
      /\ saved \in Nat /\ staging.ver \in Nat /\ staging.seq \in Nat
  BY <1>1, ConfigAssumption DEF TypeOK, Conf
<1>8. RunsNewest'
  BY <1>2, <1>3, <1>5, <1>6, <1>7 DEF SaveInv, RunsNewest
<1>9. SavesNewer'
  BY <1>2, <1>3, <1>5, <1>6, <1>7 DEF SaveInv, RunsNewest, SavesNewer, Saving
<1>10. FlashSound'
  BY <1>2, <1>6 DEF SaveInv, FlashSound, Saving, Outstanding
<1>11. RequestNotForgotten'
  <2>1. opConfig' \/ (opConfig' = opConfig /\ asked' = asked)
    BY DEF SetField, ConfigDefault, ForceSave, TimerExpires, StoreConfiguration,
           timerVars, ghostVars
  <2> QED BY <1>2, <1>6, <2>1 DEF SaveInv, RequestNotForgotten, Saving
<1> QED BY <1>2, <1>4, <1>8, <1>9, <1>10, <1>11 DEF SaveInv

-----------------------------------------------------------------------------
(* The super loop                                                          *)

LEMMA StartStep ==
    ASSUME SaveInv, Boot
    PROVE  SaveInv'
<1>1. TypeOK /\ Ordered /\ UNCHANGED flashVars /\ state = "INIT0"
  BY DEF SaveInv, Boot
<1>2. Durable' = Durable /\ Ordered'
  BY <1>1, SameFlash
<1>3. Durable \in Conf /\ Durable.seq \in Nat /\ Durable.ver \in Nat
  BY <1>1, DurableIs
<1>4. latest \in Nat /\ saved \in Nat /\ latest + 1 \in Nat
      /\ Durable.ver <= latest /\ saved <= Durable.ver
  BY <1>1 DEF SaveInv, TypeOK, RunsNewest
<1>5. /\ config' \in Conf /\ latest' \in Nat /\ asked' \in Nat
      /\ config'.seq = Durable.seq /\ Durable.ver <= config'.ver
      /\ config'.ver <= latest' /\ asked' = config'.ver /\ latest <= latest'
  <2>1. CASE config' = Durable /\ asked' = Durable.ver /\ latest' = latest
    BY <1>3, <1>4, <2>1
  <2>2. CASE /\ config' = [Durable EXCEPT !.ver = latest + 1, !.tuned = TRUE]
             /\ latest' = latest + 1 /\ asked' = latest + 1
    <3>1. config' \in Conf
      BY <1>3, <1>4, <2>2, ConfWith
    <3>2. config'.seq = Durable.seq /\ config'.ver = latest + 1
      BY <1>3, <2>2 DEF Conf
    <3> QED BY <1>3, <1>4, <2>2, <3>1, <3>2
  <2> QED BY <2>1, <2>2 DEF Boot
<1>6. opConfig' \in BOOLEAN /\ timerDue' \in BOOLEAN /\ configSaving' \in BOOLEAN
  BY DEF Boot
<1>7. asked' = Durable.ver \/ opConfig'
  BY DEF Boot
<1>8. /\ state' = "IDLE" /\ staging' = staging /\ request' = request
      /\ flashComplete' = flashComplete /\ saved' = Durable.ver
      /\ page' = page /\ ring' = ring /\ requests' = requests /\ crashes' = crashes
  BY <1>1 DEF Boot, flashVars
<1>9. TypeOK'
  BY <1>1, <1>3, <1>5, <1>6, <1>8 DEF TypeOK
<1>10. RunsNewest'
  BY <1>2, <1>3, <1>4, <1>5, <1>8 DEF RunsNewest
<1>11. SavesNewer'
  BY <1>8 DEF SavesNewer, Saving
<1>12. FlashSound'
  BY <1>1, <1>8 DEF SaveInv, FlashSound, Saving, Outstanding
<1>13. RequestNotForgotten'
  BY <1>2, <1>3, <1>7, <1>8 DEF RequestNotForgotten
<1> QED BY <1>2, <1>9, <1>10, <1>11, <1>12, <1>13 DEF SaveInv

LEMMA ResetStep ==
    ASSUME SaveInv, LoseRam, crashes' \in 0 .. MaxCrashes
    PROVE  SaveInv'
<1>1. TypeOK /\ Ordered /\ UNCHANGED flashVars
  BY DEF SaveInv, LoseRam
<1>2. Durable' = Durable /\ Ordered'
  BY <1>1, SameFlash
<1>3. page \in Page /\ ring \in SUBSET Conf
  BY <1>1 DEF TypeOK, Page
<1>4. Factory \in Conf
  BY <1>3, RecordsAreConf
<1>5. NoRequest \in [op : Ops, slot : 1 .. Slots, clean : BOOLEAN]
  BY ConfigAssumption DEF NoRequest, Ops
<1>6. TypeOK'
  BY <1>1, <1>4, <1>5 DEF TypeOK, LoseRam, flashVars
<1>7. RunsNewest'
  BY <1>2 DEF SaveInv, RunsNewest, LoseRam
<1>8. SavesNewer' /\ RequestNotForgotten'
  BY DEF SavesNewer, RequestNotForgotten, Saving, LoseRam
<1>9. FlashSound'
  BY DEF FlashSound, Outstanding, Saving, NoRequest, LoseRam
<1> QED BY <1>2, <1>6, <1>7, <1>8, <1>9 DEF SaveInv

LEMMA SaveStartStep ==
    ASSUME SaveInv, NoWrap, SaveStart
    PROVE  SaveInv'
<1>1. TypeOK /\ Ordered /\ UNCHANGED flashVars /\ state = "IDLE"
  BY DEF SaveInv, SaveStart
<1>2. Durable' = Durable /\ Ordered'
  BY <1>1, SameFlash
<1>3. Durable \in Conf /\ Durable.seq \in Nat /\ Durable.ver \in Nat
  BY <1>1, DurableIs
<1>4. config \in Conf /\ config.seq \in Nat /\ config.ver \in Nat
  BY <1>1, ConfigAssumption DEF TypeOK, Conf
<1>5. config' \in Conf /\ config'.seq = config.seq + 1 /\ config'.ver = config.ver
  <2>1. config' = [config EXCEPT !.seq = config.seq + 1]
    BY <1>1, NextSeq DEF SaveStart
  <2>2. config.seq + 1 \in 0 .. SeqMod - 1
    BY <1>1, NextSeq
  <2> QED BY <1>4, <2>1, <2>2 DEF Conf
<1>6. /\ flashComplete' = FALSE /\ opConfig' = FALSE /\ staging' = config'
      /\ page' = page /\ ring' = ring /\ timerDue' = timerDue
      /\ configSaving' = configSaving /\ latest' = latest /\ asked' = asked
      /\ saved' = saved /\ requests' = requests /\ crashes' = crashes
  BY DEF SaveStart, Schedule, flashVars, ghostVars
<1>7. \/ /\ state' = "CONFIG3" /\ request'.op = "slotWrite" /\ request'.clean
         /\ page[request'.slot] = Erased
         /\ request' \in [op : Ops, slot : 1 .. Slots, clean : BOOLEAN]
      \/ /\ state' = "WRITING" /\ request'.op \in {"ringErase", "ringWrite"}
         /\ request' \in [op : Ops, slot : 1 .. Slots, clean : BOOLEAN]
  <2>1. CASE FreeSlots # {} /\ state' = "CONFIG3"
             /\ Schedule("slotWrite", CHOOSE s \in FreeSlots : \A t \in FreeSlots : s <= t)
    <3> DEFINE first == CHOOSE s \in FreeSlots : \A t \in FreeSlots : s <= t
    <3>1. FreeSlots \in SUBSET Nat
      BY ConfigAssumption DEF FreeSlots
    <3>2. first \in FreeSlots
      BY <2>1, <3>1, LowestOf
    <3>3. first \in 1 .. Slots /\ page[first] = Erased
      BY <3>2 DEF FreeSlots
    <3>4. request' = [op |-> "slotWrite", slot |-> first, clean |-> page[first] = Erased]
      BY <2>1 DEF Schedule
    <3> HIDE DEF first
    <3> QED BY <2>1, <3>3, <3>4 DEF Ops
  <2>2. ASSUME NEW op \in {"ringErase", "ringWrite"}, Schedule(op, 1), state' = "WRITING"
        PROVE  state' = "WRITING" /\ request'.op \in {"ringErase", "ringWrite"}
               /\ request' \in [op : Ops, slot : 1 .. Slots, clean : BOOLEAN]
    BY <2>2, ConfigAssumption DEF Schedule, Ops
  <2> QED BY <2>1, <2>2 DEF SaveStart
<1>8. TypeOK'
  BY <1>1, <1>5, <1>6, <1>7 DEF TypeOK
<1>9. RunsNewest'
  BY <1>1, <1>2, <1>3, <1>4, <1>5, <1>6 DEF SaveInv, RunsNewest
<1>10. SavesNewer'
  BY <1>1, <1>2, <1>3, <1>4, <1>5, <1>6 DEF SaveInv, RunsNewest, SavesNewer
<1>11. FlashSound'
  BY <1>6, <1>7 DEF FlashSound, Saving, Outstanding
<1>12. RequestNotForgotten'
  BY <1>1, <1>5, <1>6, <1>7 DEF SaveInv, RunsNewest, RequestNotForgotten, Saving
<1> QED BY <1>2, <1>8, <1>9, <1>10, <1>11, <1>12 DEF SaveInv

LEMMA NextOperation ==
    ASSUME SaveInv, RingWrite \/ PageErase \/ SlotWrite
    PROVE  SaveInv'
<1>1. TypeOK /\ Ordered /\ UNCHANGED flashVars /\ Saving /\ Saving'
  BY DEF SaveInv, RingWrite, PageErase, SlotWrite, Saving
<1>2. Durable' = Durable /\ Ordered'
  BY <1>1, SameFlash
<1>3. /\ flashComplete = TRUE /\ flashComplete' = FALSE
      /\ config' = config /\ staging' = staging
      /\ page' = page /\ ring' = ring
      /\ opConfig' = opConfig /\ timerDue' = timerDue /\ configSaving' = configSaving
      /\ latest' = latest /\ asked' = asked /\ saved' = saved
      /\ requests' = requests /\ crashes' = crashes
  BY DEF SaveInv, TypeOK, RingWrite, PageErase, SlotWrite, Schedule, flashVars, timerVars,
         ghostVars
<1>4. 1 \in 1 .. Slots
  BY ConfigAssumption
<1>5. /\ request' \in [op : Ops, slot : 1 .. Slots, clean : BOOLEAN]
      /\ state' \in {"WRITING", "CONFIG2", "CONFIG3"}
      /\ FlashSound'
  <2>1. CASE RingWrite
    <3>1. request' = [op |-> "ringWrite", slot |-> 1, clean |-> page[1] = Erased]
          /\ state' = "WRITING"
      BY <2>1 DEF RingWrite, Schedule
    <3> QED BY <1>3, <1>4, <3>1 DEF Ops, FlashSound, Outstanding, Saving
  <2>2. CASE PageErase
    <3>1. request' = [op |-> "pageErase", slot |-> 1, clean |-> page[1] = Erased]
          /\ state' = "CONFIG2"
      BY <2>2 DEF PageErase, Schedule
    <3>2. staging \in ring
      BY <1>3, <2>2 DEF PageErase, SaveInv, FlashSound
    <3> QED BY <1>3, <1>4, <3>1, <3>2 DEF Ops, FlashSound, Outstanding, Saving
  <2>3. CASE SlotWrite
    <3>1. request' = [op |-> "slotWrite", slot |-> 1, clean |-> page[1] = Erased]
          /\ state' = "CONFIG3"
      BY <2>3 DEF SlotWrite, Schedule
    <3>2. page[1] = Erased
      BY <1>3, <1>4, <2>3 DEF SlotWrite, SaveInv, FlashSound
    <3> QED BY <1>3, <1>4, <3>1, <3>2 DEF Ops, FlashSound, Outstanding, Saving
  <2> QED BY <2>1, <2>2, <2>3
<1>6. TypeOK'
  BY <1>1, <1>3, <1>5 DEF TypeOK
<1>7. RunsNewest' /\ SavesNewer' /\ RequestNotForgotten'
  BY <1>1, <1>2, <1>3, <1>5
     DEF SaveInv, RunsNewest, SavesNewer, RequestNotForgotten, Saving
<1> QED BY <1>2, <1>5, <1>6, <1>7 DEF SaveInv

LEMMA SaveDoneStep ==
    ASSUME SaveInv, SaveDone
    PROVE  SaveInv'
<1>1. TypeOK /\ Ordered /\ UNCHANGED flashVars
  BY DEF SaveInv, SaveDone
<1>2. Durable' = Durable /\ Ordered'
  BY <1>1, SameFlash
<1>3. Durable.ver \in Nat
  BY <1>1, DurableIs
<1>4. staging = Durable /\ state = "CONFIG3" /\ flashComplete
  BY DEF SaveInv, FlashSound, SaveDone
<1>5. state' = "IDLE" /\ saved' = Durable.ver
  BY <1>4 DEF SaveDone
<1>6. TypeOK'
  BY <1>1, <1>3, <1>5 DEF TypeOK, SaveDone, flashVars
<1>7. RunsNewest'
  BY <1>2, <1>3, <1>4, <1>5 DEF SaveInv, RunsNewest, SaveDone
<1>8. SavesNewer'
  BY <1>5 DEF SavesNewer, Saving
<1>9. FlashSound'
  BY <1>4, <1>5 DEF SaveInv, FlashSound, Saving, Outstanding, SaveDone
<1>10. RequestNotForgotten'
  BY <1>2, <1>4 DEF SaveInv, RequestNotForgotten, Saving, SaveDone
<1> QED BY <1>2, <1>6, <1>7, <1>8, <1>9, <1>10 DEF SaveInv

-----------------------------------------------------------------------------
(* The flash                                                               *)

\* What a step of the flash may do to the records of a restart: nothing that
\* counts, or bring the copy being saved.
Kept == Records(page', ring') \subseteq Records(page, ring) /\ Durable \in Records(page', ring')
Landed == Records(page', ring') \subseteq Records(page, ring) \cup {staging}
          /\ staging \in Records(page', ring')

LEMMA KeptOrdered ==
    ASSUME SaveInv, page' \in Page, ring' \in SUBSET Conf, Kept
    PROVE  Durable' = Durable /\ Ordered'
<1>1. Leads(Durable, Records(page', ring'))
  BY DEF SaveInv, Ordered, Leads, Kept
<1>2. Recovered(page', ring') = Durable
  BY <1>1, RecoversLeader
<1> QED BY <1>1, <1>2 DEF Durable, Ordered

LEMMA LandedOrdered ==
    ASSUME SaveInv, Saving, page' \in Page, ring' \in SUBSET Conf, Landed
    PROVE  Durable' = staging /\ Ordered'
<1>0. /\ Durable.seq \in Nat /\ staging.seq \in Nat
      /\ \A r \in Records(page, ring) : r.seq \in Nat
  <2>1. page \in Page /\ ring \in SUBSET Conf
    BY DEF SaveInv, TypeOK, Page
  <2>2. Records(page, ring) \in SUBSET Conf /\ staging \in Conf
    BY <2>1, RecordsAreConf DEF SaveInv, TypeOK
  <2>3. \A c \in Conf : c.seq \in Nat
    BY ConfigAssumption DEF Conf
  <2> QED BY <2>2, <2>3, DurableIs DEF SaveInv
<1>1. ASSUME NEW r \in Records(page', ring') PROVE r = staging \/ r.seq < staging.seq
  <2>1. CASE r = staging
    BY <2>1
  <2>2. CASE r \in Records(page, ring)
    <3>1. r = Durable \/ r.seq < Durable.seq
      BY <2>2 DEF SaveInv, Ordered, Leads
    <3>2. staging = Durable \/ Durable.seq < staging.seq
      BY DEF SaveInv, SavesNewer
    <3> QED BY <1>0, <2>2, <3>1, <3>2
  <2> QED BY <2>1, <2>2 DEF Landed
<1>2. Leads(staging, Records(page', ring'))
  BY <1>1 DEF Leads, Landed
<1>3. Recovered(page', ring') = staging
  BY <1>2, RecoversLeader
<1> QED BY <1>2, <1>3 DEF Durable, Ordered

\* What the five things the flash may do have in common.
Moved ==
    /\ page' \in Page /\ ring' \in SUBSET Conf
    /\ Kept \/ Landed
    /\ FlashSound'

LEMMA TornSlot ==
    ASSUME SaveInv, Outstanding, request.op = "slotWrite", page[request.slot] = Erased,
           page' = [page EXCEPT ![request.slot] = Torn],
           UNCHANGED <<ring, request, staging, state, flashComplete>>
    PROVE  Moved
<1>1. page \in Page /\ ring \in SUBSET Conf /\ request.slot \in 1 .. Slots
  BY DEF SaveInv, TypeOK, Page
<1>2. page' \in Page
  BY <1>1 DEF Page
<1>3. GoodSlots(page') = GoodSlots(page)
  <2>1. DOMAIN page = 1 .. Slots /\ DOMAIN page' = 1 .. Slots
    BY <1>1, <1>2 DEF Page
  <2>2. page'[request.slot] = Torn
        /\ \A s \in 1 .. Slots : s # request.slot => page'[s] = page[s]
    BY <1>1, <2>1
  <2> QED BY <1>1, <2>1, <2>2 DEF GoodSlots
<1>4. Kept
  BY <1>3 DEF Kept, Records, SaveInv, Ordered, Leads
<1>5. state = "CONFIG3" /\ ~flashComplete
  BY DEF SaveInv, FlashSound, Outstanding, Saving
<1>6. page'[request.slot] = Torn
  BY <1>1 DEF Page
<1>7. FlashSound'
  BY <1>5, <1>6 DEF SaveInv, FlashSound, Outstanding, Saving
<1> QED BY <1>1, <1>2, <1>4, <1>7 DEF Moved

LEMMA SlotWritten ==
    ASSUME SaveInv, Outstanding, request.op = "slotWrite", Apply,
           UNCHANGED <<request, staging, state>>
    PROVE  Moved
<1>1. page \in Page /\ ring \in SUBSET Conf /\ request.slot \in 1 .. Slots
      /\ staging \in Conf
  BY DEF SaveInv, TypeOK, Page
<1>2. /\ state = "CONFIG3" /\ request.clean
      /\ page[request.slot] \in {Erased, Torn, staging}
  BY DEF SaveInv, FlashSound, Outstanding, Saving
<1>3. page' = [page EXCEPT ![request.slot] = staging] /\ ring' = ring
  BY <1>2 DEF Apply, SlotAfter
<1>4. page' \in Page
  BY <1>1, <1>3 DEF Page
<1>5. staging # Erased /\ staging # Torn
  BY <1>1, ConfigAssumption DEF Conf, Erased, Torn
<1>6. DOMAIN page = 1 .. Slots /\ DOMAIN page' = 1 .. Slots
  BY <1>1, <1>4 DEF Page
<1>7. page'[request.slot] = staging
      /\ \A s \in 1 .. Slots : s # request.slot => page'[s] = page[s]
  BY <1>1, <1>3, <1>6
<1>8. GoodSlots(page') \subseteq GoodSlots(page) \cup {staging}
      /\ staging \in GoodSlots(page')
  BY <1>1, <1>5, <1>6, <1>7 DEF GoodSlots
<1>9. Landed
  BY <1>3, <1>8 DEF Landed, Records
<1>10. Durable' = staging
  BY <1>1, <1>2, <1>3, <1>4, <1>9, LandedOrdered DEF Saving
<1>11. FlashSound'
  BY <1>2, <1>7, <1>10 DEF SaveInv, FlashSound, Outstanding, Saving
<1> QED BY <1>1, <1>3, <1>4, <1>9, <1>11 DEF Moved

LEMMA PageErased ==
    ASSUME SaveInv, Outstanding, request.op = "pageErase", Apply,
           UNCHANGED <<request, staging, state>>
    PROVE  Moved
<1>1. ring \in SUBSET Conf /\ page' = [s \in 1 .. Slots |-> Erased] /\ ring' = ring
  BY DEF SaveInv, TypeOK, Apply
<1>2. page' \in Page /\ GoodSlots(page') = {}
  BY <1>1 DEF Page, GoodSlots
<1>3. state = "CONFIG2" /\ staging \in ring
  BY DEF SaveInv, FlashSound, Outstanding, Saving
<1>4. Landed
  BY <1>1, <1>2, <1>3 DEF Landed, Records
<1>5. FlashSound'
  BY <1>1, <1>3 DEF SaveInv, FlashSound, Outstanding, Saving
<1> QED BY <1>1, <1>2, <1>4, <1>5 DEF Moved

LEMMA RingErased ==
    ASSUME SaveInv, Outstanding, request.op = "ringErase", Apply,
           UNCHANGED <<request, staging, state>>
    PROVE  Moved
<1>1. page \in Page /\ ring \in SUBSET Conf
  BY DEF SaveInv, TypeOK, Page
<1>2. ring' \in RingLeft /\ page' = page
  BY DEF Apply
<1>3. ring' \subseteq ring /\ \A c \in ring \ ring' : \E d \in ring' : d.seq > c.seq
  BY <1>2 DEF RingLeft
<1>4. Durable \in Records(page, ring')
  <2>1. SUFFICES ASSUME Durable \in ring, Durable \notin ring' PROVE FALSE
    BY DEF SaveInv, Ordered, Leads, Records
  <2>2. PICK d \in ring' : d.seq > Durable.seq
    BY <1>3, <2>1
  <2>3. d = Durable \/ d.seq < Durable.seq
    BY <1>3 DEF SaveInv, Ordered, Leads, Records
  <2>4. d.seq \in Int /\ Durable.seq \in Int
    BY <1>1, <1>3, <2>1, ConfigAssumption DEF Conf
  <2> QED BY <2>2, <2>3, <2>4
<1>5. Kept
  BY <1>2, <1>3, <1>4 DEF Kept, Records
<1>6. state = "WRITING"
  BY DEF SaveInv, FlashSound, Outstanding, Saving
<1>7. FlashSound'
  BY <1>6 DEF SaveInv, FlashSound, Outstanding, Saving
<1> QED BY <1>1, <1>2, <1>3, <1>5, <1>7 DEF Moved

LEMMA RingWritten ==
    ASSUME SaveInv, Outstanding, request.op = "ringWrite", Apply,
           UNCHANGED <<request, staging, state>>
    PROVE  Moved
<1>1. page \in Page /\ ring \in SUBSET Conf /\ staging \in Conf
  BY DEF SaveInv, TypeOK, Page
<1>2. ring' = ring \cup {staging} /\ page' = page
  BY DEF Apply
<1>3. Landed
  BY <1>2 DEF Landed, Records
<1>4. state = "WRITING"
  BY DEF SaveInv, FlashSound, Outstanding, Saving
<1>5. FlashSound'
  BY <1>2, <1>4 DEF SaveInv, FlashSound, Outstanding, Saving
<1> QED BY <1>1, <1>2, <1>3, <1>5 DEF Moved

LEMMA FlashStep ==
    ASSUME SaveInv, FlashLands \/ FlashReports
    PROVE  SaveInv' /\ Durable' \in {Durable, staging}
<1>1. /\ Outstanding /\ flashComplete' \in BOOLEAN
      /\ UNCHANGED <<config, request, staging, state, timerVars, ghostVars>>
  BY DEF SaveInv, TypeOK, FlashLands, FlashReports
<1>2. Moved
  <2>1. Apply \/ (/\ request.op = "slotWrite" /\ page[request.slot] = Erased
                  /\ page' = [page EXCEPT ![request.slot] = Torn]
                  /\ UNCHANGED <<ring, flashComplete>>)
    BY DEF FlashLands, FlashReports
  <2>2. request.op \in {"slotWrite", "pageErase", "ringErase", "ringWrite"}
    BY <1>1 DEF SaveInv, FlashSound, Saving
  <2> QED BY <1>1, <2>1, <2>2, TornSlot, SlotWritten, PageErased, RingErased, RingWritten
<1>3. Saving /\ Saving'
  BY <1>1 DEF SaveInv, FlashSound, Saving
<1>4. Durable' \in {Durable, staging} /\ Ordered'
  BY <1>2, <1>3, KeptOrdered, LandedOrdered DEF Moved
<1>5. TypeOK'
  BY <1>1, <1>2 DEF SaveInv, TypeOK, Moved, Page, timerVars, ghostVars
<1>6. /\ config' = config /\ staging' = staging /\ state' = state /\ opConfig' = opConfig
      /\ latest' = latest /\ asked' = asked /\ saved' = saved
  BY <1>1 DEF timerVars, ghostVars
<1>7. /\ Durable.ver \in Nat /\ Durable.seq \in Nat /\ saved \in Nat /\ asked \in Nat
      /\ latest \in Nat
      /\ staging.ver \in Nat /\ staging.seq \in Nat /\ config.ver \in Nat /\ config.seq \in Nat
  <2>1. \A c \in Conf : c.seq \in Nat /\ c.ver \in Nat
    BY ConfigAssumption DEF Conf
  <2> QED BY <2>1, DurableIs DEF SaveInv, TypeOK
<1>8. /\ Durable.ver <= staging.ver /\ staging.ver <= config.ver /\ staging.seq <= config.seq
      /\ config.ver <= latest /\ asked <= config.ver /\ saved <= Durable.ver
      /\ state # "INIT0"
  BY <1>3 DEF SaveInv, SavesNewer, RunsNewest, Saving
<1>9. RunsNewest'
  BY <1>4, <1>6, <1>7, <1>8 DEF SaveInv, RunsNewest
<1>10. SavesNewer'
  BY <1>3, <1>4, <1>6, <1>7, <1>8 DEF SaveInv, SavesNewer
<1>11. RequestNotForgotten'
  BY <1>3, <1>4, <1>6, <1>7, <1>8 DEF SaveInv, RequestNotForgotten
<1> QED BY <1>2, <1>4, <1>5, <1>9, <1>10, <1>11 DEF SaveInv, Moved

-----------------------------------------------------------------------------
(* The device                                                              *)

LEMMA InitSound == DeviceInit => DeviceInv
<1> SUFFICES ASSUME DeviceInit PROVE DeviceInv
  OBVIOUS
<1> USE DEF DeviceInit, Init
<1>1. page \in Page /\ ring \in SUBSET Conf /\ GoodSlots(page) = {}
  BY DEF Page, GoodSlots
<1>2. Factory \in Conf
  BY <1>1, RecordsAreConf
<1>3. Leads(Factory, Records(page, ring))
  BY <1>1 DEF Leads, Records
<1>4. Durable = Factory
  BY <1>1, <1>3, RecoversLeader DEF Durable
<1>5. Ordered
  BY <1>3, <1>4 DEF Ordered
<1>6. NoRequest \in [op : Ops, slot : 1 .. Slots, clean : BOOLEAN]
  BY ConfigAssumption DEF NoRequest, Ops
<1>7. TypeOK
  <2>1. /\ page \in [1 .. Slots -> Conf \cup {Erased, Torn}] /\ ring \subseteq Conf
    BY <1>1 DEF Page
  <2>2. /\ latest \in Nat /\ asked \in Nat /\ saved \in Nat
        /\ requests \in 0 .. MaxRequests /\ crashes \in 0 .. MaxCrashes
    BY ConfigAssumption
  <2> QED BY <1>2, <1>6, <2>1, <2>2 DEF TypeOK
<1>8. RunsNewest
  BY <1>4 DEF RunsNewest, Factory
<1>9. SavesNewer /\ FlashSound /\ RequestNotForgotten /\ FlagHonest
  BY DEF SavesNewer, FlashSound, RequestNotForgotten, FlagHonest, Saving, Outstanding, NoRequest
<1>10. DeviceTypeOK
  <2>1. ktbCounter \in 0 .. Tries
    BY RebootAssumption
  <2> QED BY <1>7, <2>1 DEF DeviceTypeOK
<1> QED BY <1>5, <1>7, <1>8, <1>9, <1>10 DEF DeviceInv, SaveInv

\* A try of kickTheBucket and the REBOOT command touch only the flags and counts.
LEMMA RebootSteps ==
    ASSUME SaveInv, RebootCommand \/ KickAgain
    PROVE  SaveInv' /\ Durable' = Durable
<1>1. /\ TypeOK /\ Ordered /\ UNCHANGED flashVars /\ state # "INIT0"
      /\ UNCHANGED <<config, request, flashComplete, staging, state, latest, saved, crashes>>
  BY DEF SaveInv, RebootCommand, KickAgain, BucketDue, Request
<1>2. Durable' = Durable /\ Ordered'
  BY <1>1, SameFlash
<1>3. \/ asked' = asked /\ opConfig' = opConfig
      \/ asked' = config.ver /\ opConfig' = TRUE
  BY DEF RebootCommand, KickAgain, StoreConfiguration, timerVars
<1>10. config.ver \in Nat
  BY <1>1 DEF TypeOK, Conf
<1>4. requests' \in 0 .. MaxRequests
  <2>1. requests \in 0 .. MaxRequests /\ MaxRequests \in Nat
    BY <1>1, ConfigAssumption DEF TypeOK
  <2>2. requests' = requests \/ (requests < MaxRequests /\ requests' = requests + 1)
    BY DEF RebootCommand, KickAgain, Request
  <2> QED BY <2>1, <2>2
<1>5. timerDue' \in BOOLEAN /\ configSaving' \in BOOLEAN
  BY <1>1 DEF RebootCommand, KickAgain, StoreConfiguration, timerVars, TypeOK
<1>6. TypeOK'
  BY <1>10, <1>1, <1>3, <1>4, <1>5 DEF TypeOK, flashVars
<1>7. RunsNewest' /\ SavesNewer'
  BY <1>10, <1>1, <1>2, <1>3 DEF SaveInv, RunsNewest, SavesNewer, Saving
<1>8. FlashSound'
  BY <1>1, <1>2 DEF SaveInv, FlashSound, Outstanding, Saving, flashVars
<1>9. RequestNotForgotten'
  BY <1>1, <1>2, <1>3 DEF SaveInv, RequestNotForgotten, Saving
<1> QED BY <1>2, <1>6, <1>7, <1>8, <1>9 DEF SaveInv

\* "store list" with nothing under way touches only the staging area, which the
\* next save fills again.
LEMMA ListStep ==
    ASSUME ListAnytime = FALSE, SaveInv, StoreList
    PROVE  SaveInv' /\ Durable' = Durable /\ ~Saving
<1>1. /\ TypeOK /\ Ordered /\ UNCHANGED flashVars /\ state = "IDLE"
      /\ UNCHANGED <<config, flashComplete, state, timerVars, ghostVars>>
  BY DEF SaveInv, StoreList
<1>2. ~Saving /\ ~Outstanding
  BY <1>1 DEF SaveInv, FlashSound, Saving
<1>3. request' = request
  <2>1. request' = [request EXCEPT !.clean = @ /\ ~SlotBegun] /\ ~SlotBegun
    BY <1>2 DEF StoreList, SlotBegun
  <2>2. request.clean \in BOOLEAN
    BY <1>1 DEF TypeOK
  <2>3. (request.clean /\ ~SlotBegun) = request.clean
    BY <2>1, <2>2
  <2> QED BY <1>1, <2>1, <2>3 DEF TypeOK
<1>4. staging' \in Conf
  BY <1>1 DEF StoreList, TypeOK
<1>5. Durable' = Durable /\ Ordered'
  BY <1>1, SameFlash
<1>6. TypeOK'
  BY <1>1, <1>3, <1>4 DEF TypeOK, flashVars, timerVars, ghostVars
<1>7. RunsNewest' /\ SavesNewer' /\ RequestNotForgotten'
  BY <1>1, <1>5 DEF SaveInv, RunsNewest, SavesNewer, RequestNotForgotten, Saving,
                    timerVars, ghostVars
<1>8. FlashSound'
  BY <1>1, <1>2, <1>3 DEF FlashSound, Outstanding, Saving
<1> QED BY <1>2, <1>5, <1>6, <1>7, <1>8 DEF SaveInv

LEMMA SaveInvStep ==
    ASSUME ListAnytime = FALSE, SaveInv, NoWrap, [DeviceNext]_deviceVars
    PROVE  SaveInv'
<1>1. CASE SetField \/ ConfigDefault \/ ForceSave \/ TimerExpires
  BY <1>1, RequestSteps
<1>2. CASE SuperLoop
  BY <1>2, StartStep, SaveStartStep, NextOperation, SaveDoneStep DEF SuperLoop
<1>3. CASE FlashLands \/ FlashReports
  BY <1>3, FlashStep
<1>4. CASE RebootCommand \/ KickAgain
  BY <1>4, RebootSteps
<1>5. CASE KickResets \/ PowerLoss
  <2>1. LoseRam /\ crashes' \in 0 .. MaxCrashes
    BY <1>5, ConfigAssumption DEF KickResets, PowerLoss, SaveInv, TypeOK
  <2> QED BY <2>1, ResetStep
<1>6. CASE UNCHANGED deviceVars
  <2>1. UNCHANGED vars
    BY <1>6 DEF deviceVars
  <2>2. Durable' = Durable /\ Ordered'
    BY <2>1, SameFlash DEF SaveInv, vars
  <2>3. TypeOK'
    BY <2>1 DEF SaveInv, TypeOK, vars, flashVars, timerVars, ghostVars
  <2>4. RunsNewest' /\ SavesNewer' /\ RequestNotForgotten'
    BY <2>1, <2>2 DEF SaveInv, RunsNewest, SavesNewer, RequestNotForgotten, Saving,
                      vars, timerVars, ghostVars
  <2>5. FlashSound'
    BY <2>1, <2>2 DEF SaveInv, FlashSound, Outstanding, Saving, vars, flashVars
  <2> QED BY <2>2, <2>3, <2>4, <2>5 DEF SaveInv
<1>7. CASE StoreList
  BY <1>7, ListStep
<1> QED BY <1>1, <1>2, <1>3, <1>4, <1>5, <1>6, <1>7 DEF DeviceNext, KickTheBucket

LEMMA DeviceInvStep ==
    ASSUME ListAnytime = FALSE, DeviceInv, NoWrap, [DeviceNext]_deviceVars
    PROVE  DeviceInv'
<1>1. SaveInv'
  BY SaveInvStep DEF DeviceInv
<1>2. DeviceTypeOK'
  <2>1. TypeOK'
    BY <1>1 DEF SaveInv
  <2>2. rebootTimer' \in BOOLEAN /\ overlapped' \in BOOLEAN
    BY DEF DeviceInv, DeviceTypeOK, DeviceNext, Overlap, rebootVars, RebootCommand,
           KickTheBucket, KickResets, KickAgain, ClearReboot, deviceVars
  <2>3. ktbCounter' \in 0 .. Tries
    <3>1. CASE KickAgain
      BY <3>1, RebootAssumption
         DEF KickAgain, MayReset, DeviceInv, DeviceTypeOK, RebootAssumption
    <3>2. CASE KickResets \/ (PowerLoss /\ ClearReboot)
      BY <3>2, RebootAssumption DEF KickResets, ClearReboot, RebootAssumption
    <3>3. CASE UNCHANGED ktbCounter
      BY <3>3 DEF DeviceInv, DeviceTypeOK
    <3> QED BY <3>1, <3>2, <3>3
        DEF DeviceNext, KickTheBucket, RebootCommand, rebootVars, deviceVars
  <2> QED BY <2>1, <2>2, <2>3 DEF DeviceTypeOK
<1>3. FlagHonest'
  <2>1. CASE (SetField \/ ForceSave) /\ Overlap
    BY <2>1 DEF DeviceInv, FlagHonest, Overlap, SetField, ForceSave, StoreConfiguration,
                Request, Saving
  <2>2. CASE SuperLoop /\ UNCHANGED overlapped
    <3>1. CASE Boot
      BY <3>1 DEF FlagHonest, Boot, Saving
    <3>2. CASE SaveStart /\ UNCHANGED overlapped
      BY <3>2 DEF DeviceInv, FlagHonest, SaveStart, Saving
    <3>3. CASE (RingWrite \/ PageErase \/ SlotWrite) /\ UNCHANGED overlapped
      BY <3>3 DEF DeviceInv, FlagHonest, RingWrite, PageErase, SlotWrite, Saving, timerVars
    <3>4. CASE SaveDone /\ UNCHANGED overlapped
      BY <3>4 DEF DeviceInv, FlagHonest, SaveDone, Saving
    <3> QED BY <2>2, <3>1, <3>2, <3>3, <3>4 DEF SuperLoop
  <2>3. CASE /\ \/ ConfigDefault \/ TimerExpires \/ StoreList
                \/ FlashLands \/ FlashReports \/ RebootCommand
             /\ UNCHANGED overlapped
    BY <2>3 DEF DeviceInv, FlagHonest, ConfigDefault, TimerExpires, StoreList,
                FlashLands, FlashReports, RebootCommand, Saving, timerVars
  <2>4. CASE KickAgain
    BY <2>4 DEF DeviceInv, FlagHonest, KickAgain, Overlap, StoreConfiguration, Saving
  <2>5. CASE LoseRam
    BY <2>5 DEF FlagHonest, LoseRam
  <2>6. CASE UNCHANGED deviceVars
    BY <2>6 DEF DeviceInv, FlagHonest, Saving, deviceVars, vars, timerVars
  <2> QED BY <2>1, <2>2, <2>3, <2>4, <2>5, <2>6
      DEF DeviceNext, KickTheBucket, KickResets, PowerLoss, RebootCommand
<1> QED BY <1>1, <1>2, <1>3 DEF DeviceInv

-----------------------------------------------------------------------------
(* The promise                                                             *)

LEMMA InitPromise == DeviceInit => Promise!Init
<1> SUFFICES ASSUME DeviceInit PROVE Promise!Init
  OBVIOUS
<1>1. page \in Page /\ ring \in SUBSET Conf /\ GoodSlots(page) = {} /\ ring = {}
  BY DEF DeviceInit, Init, Page, GoodSlots
<1>2. Leads(Factory, Records(page, ring))
  BY <1>1 DEF Leads, Records
<1>3. Durable = Factory
  BY <1>1, <1>2, RecoversLeader DEF Durable
<1> QED BY <1>3 DEF DeviceInit, Init, Promise!Init, Promise!None, Saving, Factory

\* Steps that leave the flash alone change the version in RAM or the copy.
LEMMA QuietPromise ==
    ASSUME DeviceInv, NoWrap, Durable' = Durable,
           \/ SetField \/ ConfigDefault \/ ForceSave \/ TimerExpires
           \/ RebootCommand \/ KickAgain \/ SuperLoop
    PROVE  [Promise!Next]_(Promise!vars)
<1> USE DEF Promise!vars, Promise!Next, Promise!None
<1>1. /\ config \in Conf /\ latest \in Nat
      /\ Durable.ver \in Nat /\ staging.ver \in Nat /\ config.ver \in Nat
  <2>1. \A c \in Conf : c.ver \in Nat
    BY DEF Conf
  <2> QED BY <2>1, DurableIs DEF DeviceInv, SaveInv, TypeOK
<1>2. CASE SetField \/ ConfigDefault
  <2>1. /\ state # "INIT0" /\ state' = state /\ staging' = staging
        /\ latest' = latest + 1
    BY <1>2 DEF SetField, ConfigDefault, Request
  <2>2. config'.ver = latest + 1
    <3>1. CASE SetField
      <4>1. PICK t \in {config.tuned, TRUE} :
                config' = [config EXCEPT !.ver = latest + 1, !.tuned = t]
        BY <3>1 DEF SetField
      <4> QED BY <1>1, <4>1 DEF Conf
    <3>2. CASE ConfigDefault
      BY <3>2 DEF ConfigDefault
    <3> QED BY <1>2, <3>1, <3>2
  <2> QED BY <2>1, <2>2 DEF Promise!Change, Saving
<1>3. CASE ForceSave \/ TimerExpires \/ RebootCommand \/ KickAgain
  BY <1>3 DEF ForceSave, TimerExpires, RebootCommand, KickAgain, Saving, ghostVars
<1>4. CASE Boot
  <2>1. state = "INIT0" /\ state' = "IDLE"
    BY <1>4 DEF Boot
  <2>2. CASE config' = Durable /\ latest' = latest
    BY <2>1, <2>2 DEF Saving
  <2>3. CASE latest' = latest + 1
             /\ config' = [Durable EXCEPT !.ver = latest + 1, !.tuned = TRUE]
    <3>1. config'.ver = latest + 1
      BY <2>3, DurableIs DEF DeviceInv, SaveInv, Conf
    <3> QED BY <2>1, <2>3, <3>1 DEF Promise!Change, Saving
  <2> QED BY <1>4, <2>2, <2>3 DEF Boot
<1>5. CASE SaveStart
  <2>1. state = "IDLE" /\ state' \in {"WRITING", "CONFIG3"} /\ latest' = latest
        /\ staging' = config'
    BY <1>5 DEF SaveStart, ghostVars
  <2>2. config'.ver = config.ver
    BY <1>1, <1>5 DEF SaveStart, Conf
  <2> QED BY <2>1, <2>2 DEF Promise!Snapshot, Saving
<1>6. CASE RingWrite \/ PageErase \/ SlotWrite
  BY <1>6 DEF RingWrite, PageErase, SlotWrite, Saving, ghostVars
<1>7. CASE SaveDone
  <2>1. staging = Durable
    BY <1>7 DEF DeviceInv, SaveInv, FlashSound, SaveDone
  <2> QED BY <1>1, <1>7, <2>1 DEF SaveDone, Promise!Acknowledge, Saving
<1> QED BY <1>2, <1>3, <1>4, <1>5, <1>6, <1>7 DEF SuperLoop

LEMMA PromiseStep ==
    ASSUME ListAnytime = FALSE, DeviceInv, NoWrap, [DeviceNext]_deviceVars
    PROVE  [Promise!Next]_(Promise!vars)
<1>0. Ordered
  BY DEF DeviceInv, SaveInv
<1>1. CASE \/ SetField \/ ConfigDefault \/ ForceSave \/ TimerExpires
           \/ RebootCommand \/ KickAgain \/ SuperLoop
  <2>1. UNCHANGED flashVars
    BY <1>1 DEF SetField, ConfigDefault, ForceSave, TimerExpires, RebootCommand, KickAgain,
                SuperLoop, Boot, SaveStart, RingWrite, PageErase, SlotWrite, SaveDone
  <2> QED BY <1>0, <1>1, <2>1, SameFlash, QuietPromise
<1>2. CASE FlashLands \/ FlashReports
  <2>1. Durable' \in {Durable, staging}
    BY <1>2, FlashStep DEF DeviceInv
  <2>2. Saving /\ state # "INIT0"
    BY <1>2 DEF FlashLands, FlashReports, DeviceInv, SaveInv, FlashSound, Saving
  <2>3. /\ config' = config /\ staging' = staging /\ state' = state /\ latest' = latest
    BY <1>2 DEF FlashLands, FlashReports, ghostVars
  <2>4. staging.ver \in Nat
    BY DEF DeviceInv, SaveInv, TypeOK, Conf
  <2> QED BY <2>1, <2>2, <2>3, <2>4
      DEF Promise!vars, Promise!Next, Promise!Commit, Promise!None, Saving
<1>3. CASE LoseRam
  <2>1. Durable' = Durable
    BY <1>0, <1>3, SameFlash DEF LoseRam
  <2> QED BY <1>3, <2>1 DEF LoseRam, Promise!Next, Promise!Restart, Promise!None, Saving
<1>4. CASE UNCHANGED deviceVars
  <2>1. Durable' = Durable
    BY <1>0, <1>4, SameFlash DEF deviceVars, vars
  <2> QED BY <1>4, <2>1 DEF deviceVars, vars, ghostVars, Promise!vars, Saving
<1>5. CASE StoreList
  <2>1. Durable' = Durable /\ ~Saving
    BY <1>5, ListStep DEF DeviceInv
  <2>2. /\ config' = config /\ state' = state /\ latest' = latest
    BY <1>5 DEF StoreList, ghostVars
  <2> QED BY <2>1, <2>2 DEF Promise!vars, Saving
<1> QED BY <1>1, <1>2, <1>3, <1>4, <1>5 DEF DeviceNext, KickTheBucket, KickResets, PowerLoss

-----------------------------------------------------------------------------
(* The theorems                                                            *)

LEMMA DeviceInvariant ==
    ASSUME ListAnytime = FALSE PROVE DeviceSpec /\ []NoWrap => []DeviceInv
<1>1. DeviceInv /\ NoWrap /\ [DeviceNext]_deviceVars => DeviceInv'
  BY DeviceInvStep
<1> QED BY InitSound, <1>1, PTL DEF DeviceSpec

\* Until its sequence number wraps, every variable of the configuration's
\* saving and of the reboot keeps its type.
THEOREM TypeCorrect ==
    ASSUME ListAnytime = FALSE PROVE DeviceSpec /\ []NoWrap => []DeviceTypeOK
<1>1. DeviceInv => DeviceTypeOK
  BY DEF DeviceInv
<1> QED BY DeviceInvariant, <1>1, PTL

\* ConfigInitialize and the scan of the ring find, at any time power may be
\* lost, nothing older than the last save that was reported done.
THEOREM RestartFindsLastSave ==
    ASSUME ListAnytime = FALSE PROVE DeviceSpec /\ []NoWrap => []FindsLastSave
<1>1. DeviceInv => FindsLastSave
  <2> SUFFICES ASSUME DeviceInv PROVE FindsLastSave
    OBVIOUS
  <2>1. Durable.ver \in Nat /\ saved \in Nat
    BY DurableIs DEF DeviceInv, SaveInv, TypeOK
  <2> QED BY <2>1 DEF DeviceInv, SaveInv, RunsNewest, FindsLastSave
<1> QED BY DeviceInvariant, <1>1, PTL

\* A save that StoreConfiguration was asked for is durable, flagged or the one
\* under way, whatever else is asked in between.
THEOREM NothingForgotten ==
    ASSUME ListAnytime = FALSE PROVE DeviceSpec /\ []NoWrap => []RequestNotForgotten
<1>1. DeviceInv => RequestNotForgotten
  BY DEF DeviceInv, SaveInv
<1> QED BY DeviceInvariant, <1>1, PTL

\* The config page, the ring and StoreSuperLoop's CONFIG states implement the
\* promise: what a restart finds changes in one step, from the old
\* configuration to the saved one.
THEOREM Refines ==
    ASSUME ListAnytime = FALSE PROVE DeviceSpec /\ []NoWrap => KeepsPromise
<1>1. DeviceInv /\ NoWrap /\ [DeviceNext]_deviceVars => [Promise!Next]_(Promise!vars)
  BY PromiseStep
<1>2. DeviceSpec => DeviceInit /\ [][DeviceNext]_deviceVars
  BY DEF DeviceSpec
<1>3. Promise!Init /\ [][Promise!Next]_(Promise!vars) => KeepsPromise
  BY DEF KeepsPromise, Promise!Spec
<1> QED BY InitPromise, DeviceInvariant, <1>1, <1>2, <1>3, PTL

\* Unless saves were asked for during another one, kickTheBucket resets the
\* device only when nothing is being written and all that was asked is durable.
THEOREM ResetIsSafe ==
    ASSUME ListAnytime = FALSE PROVE DeviceSpec /\ []NoWrap => ResetKeeps
<1>1. ASSUME DeviceInv, KickResets, ktbCounter < Tries, ~overlapped
      PROVE  ~Outstanding /\ Durable.ver >= asked
  <2>1. ~configSaving /\ state # "INIT0"
    <3>1. ~(ktbCounter >= Tries)
      BY <1>1, RebootAssumption DEF DeviceInv, DeviceTypeOK, RebootAssumption
    <3> QED BY <1>1, <3>1 DEF KickResets, MayReset, ConfigIsDone, BucketDue
  <2>2. ~Saving /\ ~opConfig
    BY <1>1, <2>1 DEF DeviceInv, FlagHonest
  <2> QED BY <1>1, <2>1, <2>2 DEF DeviceInv, SaveInv, FlashSound, RequestNotForgotten
<1>2. DeviceInv /\ [DeviceNext]_deviceVars =>
        [(KickResets /\ ktbCounter < Tries /\ ~overlapped) =>
            ~Outstanding /\ Durable.ver >= asked]_deviceVars
  BY <1>1
<1> QED BY DeviceInvariant, <1>2, PTL DEF DeviceSpec, ResetKeeps

-----------------------------------------------------------------------------
(* What follows from the promise alone                                     *)

\* A save under way copies a configuration between the durable and the
\* running one.
PromiseInv == Promise!TypeOK /\ Promise!NeverBehind

LEMMA PromiseInvInit == Promise!Init => PromiseInv
BY DEF Promise!Init, PromiseInv, Promise!TypeOK, Promise!NeverBehind, Promise!None

LEMMA PromiseInvStep == PromiseInv /\ [Promise!Next]_(Promise!vars) => PromiseInv'
<1> SUFFICES ASSUME PromiseInv, [Promise!Next]_(Promise!vars) PROVE PromiseInv'
  OBVIOUS
<1> USE DEF PromiseInv, Promise!TypeOK, Promise!NeverBehind, Promise!None
<1>1. CASE Promise!Change
  BY <1>1 DEF Promise!Change
<1>2. CASE Promise!Snapshot
  BY <1>2 DEF Promise!Snapshot
<1>3. CASE Promise!Commit
  BY <1>3 DEF Promise!Commit
<1>4. CASE Promise!Acknowledge
  BY <1>4 DEF Promise!Acknowledge
<1>5. CASE Promise!Restart
  BY <1>5 DEF Promise!Restart
<1>6. CASE UNCHANGED Promise!vars
  BY <1>6 DEF Promise!vars
<1> QED BY <1>1, <1>2, <1>3, <1>4, <1>5, <1>6 DEF Promise!Next

\* Config is never older than what a restart would find, nor the copy being
\* saved older than what it replaces.
THEOREM RunningIsNewest ==
    ASSUME ListAnytime = FALSE PROVE DeviceSpec /\ []NoWrap => []Promise!NeverBehind
<1>1. PromiseInv => Promise!NeverBehind
  BY DEF PromiseInv
<1> QED BY Refines, PromiseInvInit, PromiseInvStep, <1>1, PTL DEF KeepsPromise, Promise!Spec

\* A restart never finds an older configuration than an earlier restart would
\* have: "locate the most recent configuration" (config.c:154).
THEOREM DurableIsMonotone ==
    ASSUME ListAnytime = FALSE PROVE DeviceSpec /\ []NoWrap => Promise!NeverGoesBack
<1>1. PromiseInv /\ [Promise!Next]_(Promise!vars) => [Durable.ver' >= Durable.ver]_(Promise!vars)
  BY DEF PromiseInv, Promise!TypeOK, Promise!NeverBehind, Promise!None, Promise!vars,
         Promise!Next, Promise!Change, Promise!Snapshot, Promise!Commit,
         Promise!Acknowledge, Promise!Restart
<1> QED BY Refines, PromiseInvInit, PromiseInvStep, <1>1, PTL
        DEF KeepsPromise, Promise!Spec, Promise!NeverGoesBack
=============================================================================
