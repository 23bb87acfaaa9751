-------------------------- MODULE PacketRing_proofs -------------------------
(***************************************************************************)
(* The packet buffer for every number of slots, packets and retunes, and   *)
(* within the super loop.                                                  *)
(*                                                                         *)
(* CountCorrect needs no more than the types.  The rest holds until the    *)
(* radio is retuned: until then the DMA always writes the slot packetWr,   *)
(* which the count keeps clear of the waiting packets (Undisturbed).       *)
(***************************************************************************)
EXTENDS MainLoop, TLAPS

LEMMA InitTypeOK == Init => TypeOK
BY PacketAssumption DEF PacketAssumption, Init, TypeOK, Slot, Packet, Nothing, Damaged

LEMMA NextTypeOK == TypeOK /\ [Next]_vars => TypeOK'
<1> SUFFICES ASSUME TypeOK, [Next]_vars PROVE TypeOK'
  OBVIOUS
<1> USE PacketAssumption DEF PacketAssumption, TypeOK, Slot, Packet, Nothing, Damaged, Wrapped,
        ringVars, slotVars, radioVars, readVars
<1>1. CASE PacketBegins
  BY <1>1 DEF PacketBegins
<1>2. CASE PacketEnds
  BY <1>2 DEF PacketEnds
<1>3. CASE RadioInterrupt
  BY <1>3 DEF RadioInterrupt
<1>4. CASE TakePacket
  BY <1>4 DEF TakePacket
<1>5. CASE PrintPacket
  <2>1. CASE ReadStamp
    BY <2>1 DEF ReadStamp
  <2>2. CASE ReadData
    BY <2>2 DEF ReadData
  <2>3. CASE EndPrint
    BY <2>3 DEF EndPrint
  <2> QED BY <1>5, <2>1, <2>2, <2>3 DEF PrintPacket
<1>6. CASE Retune
  <2>1. CASE RetuneOff
    BY <2>1 DEF RetuneOff
  <2>2. CASE RetuneOn
    BY <2>2 DEF RetuneOn
  <2> QED BY <1>6, <2>1, <2>2 DEF Retune
<1>7. CASE UNCHANGED vars
  BY <1>7 DEF vars
<1> QED BY <1>1, <1>2, <1>3, <1>4, <1>5, <1>6, <1>7 DEF Next, Radio

\* Every variable keeps its type; in particular packetCnt never exceeds the
\* slots that may be filled and no pointer leaves packets[].
THEOREM TypeCorrect == Spec => []TypeOK
<1> QED BY InitTypeOK, NextTypeOK, PTL DEF Spec

-----------------------------------------------------------------------------
LEMMA InitCount == Init => CountMatches
BY DEF Init, CountMatches, Ahead

LEMMA NextCount == TypeOK /\ CountMatches /\ [Next]_vars => CountMatches'
<1> SUFFICES ASSUME TypeOK, CountMatches, [Next]_vars PROVE CountMatches'
  OBVIOUS
<1>1. ASSUME UNCHANGED ringVars PROVE CountMatches'
  BY <1>1 DEF CountMatches, Ahead, ringVars
<1>2. CASE RadioInterrupt
  BY <1>2, PacketAssumption
  DEF RadioInterrupt, PacketAssumption, TypeOK, Slot, CountMatches, Ahead, Wrapped
<1>3. CASE TakePacket
  BY <1>3, PacketAssumption
  DEF TakePacket, PacketAssumption, TypeOK, Slot, CountMatches, Ahead, Wrapped
<1>4. CASE Radio
  BY <1>1, <1>4 DEF Radio, PacketBegins, PacketEnds
<1>5. CASE PrintPacket
  BY <1>1, <1>5 DEF PrintPacket, ReadStamp, ReadData, EndPrint
<1>6. CASE Retune
  BY <1>1, <1>6 DEF Retune, RetuneOff, RetuneOn
<1>7. CASE UNCHANGED vars
  BY <1>1, <1>7 DEF vars
<1> QED BY <1>2, <1>3, <1>4, <1>5, <1>6, <1>7 DEF Next

\* packetCnt, which the interrupt raises and the super loop lowers, always is
\* the distance between their pointers, however often the radio is retuned.
THEOREM CountCorrect == Spec => []CountMatches
<1>1. TypeOK /\ CountMatches /\ [Next]_vars => (TypeOK /\ CountMatches)'
  BY NextTypeOK, NextCount
<1> QED BY InitTypeOK, InitCount, <1>1, PTL DEF Spec

-----------------------------------------------------------------------------
(* Until a retune: the DMA writes the slot packetWr, and what it has       *)
(* finished writing, if its CRC is good, is the packet received last.      *)
Synced ==
    /\ radio # "off"
    /\ dmaPtr = packetWr /\ dmaSlot = packetWr
    /\ radio \in {"receiving", "done"} => air >= 1
    /\ (radio = "done" /\ crcStatus # 0) => data[packetWr] = air

\* The slot being printed is the one just behind packetRd.
HeldBehind == reader = "holds" => Wrapped(held) = packetRd

Undisturbed ==
    /\ retunes = 0
    /\ TypeOK /\ CountMatches /\ Synced /\ QueuedIntact /\ HeldBehind /\ HeldIntact

Inv == TypeOK /\ CountMatches /\ (retunes = 0 => Undisturbed)

LEMMA InitInv == Init => Inv
<1> SUFFICES ASSUME Init PROVE Inv
  OBVIOUS
<1>1. TypeOK /\ CountMatches
  BY InitTypeOK, InitCount
<1>2. retunes = 0 /\ Synced /\ HeldBehind /\ HeldIntact
  BY PacketAssumption DEF PacketAssumption, Init, Synced, HeldBehind, HeldIntact
<1>3. QueuedIntact
  BY PacketAssumption DEF PacketAssumption, Init, QueuedIntact, Queued, Ahead, Slot
<1> QED BY <1>1, <1>2, <1>3 DEF Inv, Undisturbed

\* The DMA's slot is clear of the waiting packets and of the held one.
LEMMA WriteClear ==
    ASSUME Undisturbed
    PROVE /\ ~Queued(packetWr)
          /\ (reader = "holds" /\ packetCnt < PACKETS - 1) => packetWr # held
<1> USE PacketAssumption DEF PacketAssumption, Undisturbed, TypeOK, Slot, CountMatches, Ahead
<1>1. ~Queued(packetWr)
  BY DEF Queued
<1>2. (reader = "holds" /\ packetCnt < PACKETS - 1) => packetWr # held
  BY DEF HeldBehind, Wrapped
<1> QED BY <1>1, <1>2

\* While the radio is not retuned, every step keeps it so.
LEMMA NextUndisturbed ==
    ASSUME Undisturbed, [Next]_vars, retunes' = 0 PROVE Undisturbed'
<1>1. TypeOK' /\ CountMatches'
  BY NextTypeOK, NextCount DEF Undisturbed
<1>2. /\ retunes = 0
      /\ TypeOK /\ CountMatches /\ Synced /\ QueuedIntact /\ HeldBehind /\ HeldIntact
  BY DEF Undisturbed
<1>3. /\ ~Queued(packetWr)
      /\ (reader = "holds" /\ packetCnt < PACKETS - 1) => packetWr # held
  BY WriteClear
<1> USE PacketAssumption DEF PacketAssumption
<1>4. Synced' /\ QueuedIntact' /\ HeldBehind' /\ HeldIntact'
  <2>1. CASE PacketBegins
    <3>1. \A s \in Slot : s # packetWr => data'[s] = data[s]
      BY <2>1, <1>2 DEF PacketBegins, Synced, TypeOK
    <3>2. Synced'
      BY <2>1, <1>2 DEF PacketBegins, Synced, ringVars, TypeOK
    <3>3. QueuedIntact'
      BY <2>1, <1>2, <1>3, <3>1 DEF PacketBegins, QueuedIntact, Queued, Ahead, ringVars
    <3>4. HeldBehind' /\ HeldIntact'
      BY <2>1, <1>2, <1>3, <3>1
      DEF PacketBegins, HeldBehind, HeldIntact, Wrapped, ringVars, readVars, TypeOK
    <3> QED BY <3>2, <3>3, <3>4
  <2>2. CASE PacketEnds
    <3>1. \A s \in Slot : s # packetWr => data'[s] = data[s]
      BY <2>2, <1>2 DEF PacketEnds, Synced, TypeOK
    <3>2. Synced'
      BY <2>2, <1>2 DEF PacketEnds, Synced, ringVars, TypeOK
    <3>3. QueuedIntact'
      BY <2>2, <1>2, <1>3, <3>1 DEF PacketEnds, QueuedIntact, Queued, Ahead, ringVars
    <3>4. HeldBehind' /\ HeldIntact'
      BY <2>2, <1>2, <1>3, <3>1
      DEF PacketEnds, HeldBehind, HeldIntact, Wrapped, ringVars, readVars, TypeOK
    <3> QED BY <3>2, <3>3, <3>4
  <2>3. CASE RadioInterrupt
    <3>1. /\ \A s \in Slot : s # packetWr => stamp'[s] = stamp[s]
          /\ stamp'[packetWr] = air
          /\ data' = data
      BY <2>3, <1>2 DEF RadioInterrupt, TypeOK
    <3>2. crcStatus # 0 => data[packetWr] = air /\ air \in Packet
      BY <2>3, <1>2 DEF RadioInterrupt, Synced, TypeOK, Packet
    <3>3. Synced'
      BY <2>3, <1>2 DEF RadioInterrupt, Synced, TypeOK
    <3>4. ASSUME NEW s \in Slot, Queued(s)' PROVE Queued(s) \/ (s = packetWr /\ crcStatus # 0)
      BY <2>3, <1>2, <3>4
      DEF RadioInterrupt, Queued, Ahead, CountMatches, TypeOK, Slot
    <3>5. QueuedIntact'
      <4> SUFFICES ASSUME NEW s \in Slot, Queued(s)'
                   PROVE data'[s] \in Packet /\ stamp'[s] = data'[s]
        BY DEF QueuedIntact
      <4>1. CASE s = packetWr
        BY <1>3, <3>1, <3>2, <3>4, <4>1
      <4>2. CASE s # packetWr
        BY <1>2, <3>1, <3>4, <4>2 DEF QueuedIntact
      <4> QED BY <4>1, <4>2
    <3>6. HeldBehind' /\ (packetCnt' < PACKETS - 1 => packetCnt < PACKETS - 1)
      BY <2>3, <1>2 DEF RadioInterrupt, HeldBehind, Wrapped, readVars, TypeOK, Slot
    <3>7. HeldIntact'
      BY <2>3, <1>2, <1>3, <3>1, <3>6
      DEF RadioInterrupt, HeldIntact, readVars, TypeOK
    <3> QED BY <3>3, <3>5, <3>6, <3>7
  <2>4. CASE TakePacket
    <3>1. Synced'
      BY <2>4, <1>2 DEF TakePacket, Synced, radioVars, slotVars
    <3>2. ASSUME NEW s \in Slot, Queued(s)' PROVE Queued(s)
      BY <2>4, <1>2, <3>2 DEF TakePacket, Queued, Ahead, Wrapped, TypeOK, Slot
    <3>3. QueuedIntact'
      BY <2>4, <1>2, <3>2 DEF TakePacket, QueuedIntact, slotVars
    <3>4. Queued(packetRd) /\ packetRd \in Slot
      BY <2>4, <1>2 DEF TakePacket, Queued, Ahead, TypeOK, Slot
    <3>5. data[packetRd] \in Packet /\ stamp[packetRd] = data[packetRd]
      BY <1>2, <3>4 DEF QueuedIntact
    <3>6. Last(taken') = data[packetRd]
      BY <2>4, <1>2 DEF TakePacket, Last, TypeOK
    <3>7. HeldBehind' /\ HeldIntact'
      BY <2>4, <3>5, <3>6 DEF TakePacket, HeldBehind, HeldIntact, Wrapped, slotVars
    <3> QED BY <3>1, <3>3, <3>7
  <2>5. CASE PrintPacket
    <3>1. UNCHANGED <<ringVars, slotVars, radioVars, retunes, held, taken>>
      BY <2>5 DEF PrintPacket, ReadStamp, ReadData, EndPrint
    <3>2. reader' = "holds" => reader = "holds"
      BY <2>5 DEF PrintPacket, ReadStamp, ReadData, EndPrint
    <3> QED BY <1>2, <3>1, <3>2
        DEF Synced, QueuedIntact, Queued, Ahead, HeldBehind, HeldIntact, Wrapped, Last,
            ringVars, slotVars, radioVars
  <2>6. CASE Retune
    BY <2>6, <1>2 DEF Retune, RetuneOff, RetuneOn, Synced
  <2>7. CASE UNCHANGED vars
    BY <2>7, <1>2
    DEF vars, ringVars, slotVars, radioVars, readVars, Synced, QueuedIntact, Queued, Ahead,
        HeldBehind, HeldIntact, Wrapped, Last
  <2> QED BY <2>1, <2>2, <2>3, <2>4, <2>5, <2>6, <2>7 DEF Next, Radio
<1> QED BY <1>1, <1>4 DEF Undisturbed

\* Nothing takes a retune back.
LEMMA RetunesGrow == ASSUME TypeOK, [Next]_vars PROVE retunes' >= retunes
BY DEF TypeOK, Next, vars, Radio, PacketBegins, PacketEnds, RadioInterrupt, TakePacket,
       PrintPacket, ReadStamp, ReadData, EndPrint, Retune, RetuneOff, RetuneOn

LEMMA NextInv == Inv /\ [Next]_vars => Inv'
<1> SUFFICES ASSUME Inv, [Next]_vars PROVE Inv'
  OBVIOUS
<1>1. TypeOK' /\ CountMatches'
  BY NextTypeOK, NextCount DEF Inv
<1>2. ASSUME retunes' = 0 PROVE Undisturbed'
  <2>1. retunes = 0
    BY <1>2, RetunesGrow DEF Inv, TypeOK
  <2> QED BY <1>2, <2>1, NextUndisturbed DEF Inv
<1> QED BY <1>1, <1>2 DEF Inv

LEMMA AlwaysInv == Spec => []Inv
BY InitInv, NextInv, PTL DEF Spec

\* As long as the frequency is not changed, the radio never writes a slot
\* whose packet waits to be printed: "the radio has somewhere to write a new
\* packet when the buffer is full" (tracer.c:163).
THEOREM DmaIsClear == Spec => []DmaClear
<1>1. Inv => DmaClear
  BY WriteClear DEF Inv, Undisturbed, Synced, DmaClear, DmaAlwaysClear, DmaTarget
<1> QED BY AlwaysInv, <1>1, PTL

\* As long as the frequency is not changed, every waiting packet is whole,
\* good, and under its own time stamp (radioInterrupt).
THEOREM PacketsIntact == Spec => []QueuedIntact
<1>1. Inv => QueuedIntact
  BY DEF Inv, Undisturbed, QueuedIntact
<1> QED BY AlwaysInv, <1>1, PTL

\* ... and the packet TraceSuperLoop is printing stays what it took until the
\* buffer fills up behind it.
THEOREM PrintedIntact == Spec => []HeldIntact
<1>1. Inv => HeldIntact
  BY DEF Inv, Undisturbed, HeldIntact
<1> QED BY AlwaysInv, <1>1, PTL

-----------------------------------------------------------------------------
LEMMA WaitingType ==
    ASSUME Undisturbed
    PROVE /\ Waiting \in Seq(Packet) /\ Len(Waiting) = packetCnt
          /\ \A i \in 1 .. packetCnt : SlotAt(i) \in Slot /\ Queued(SlotAt(i))
<1> USE PacketAssumption DEF PacketAssumption
<1>1. packetCnt \in Nat /\ packetCnt <= PACKETS - 1 /\ packetRd \in Slot
  BY DEF Undisturbed, TypeOK
<1>2. ASSUME NEW i \in 1 .. packetCnt
      PROVE SlotAt(i) \in Slot /\ Queued(SlotAt(i))
  BY <1>1, <1>2 DEF SlotAt, Slot, Queued, Ahead
<1>3. ASSUME NEW i \in 1 .. packetCnt PROVE data[SlotAt(i)] \in Packet
  BY <1>2 DEF Undisturbed, QueuedIntact
<1> QED BY <1>1, <1>2, <1>3 DEF Waiting

LEMMA InitQueue == Init => Queue!Init
BY DEF Init, Queue!Init, Waiting, Heard

\* A good packet joins the end of the queue; one that finds it full, or has a
\* bad CRC, leaves it as it is.
LEMMA InterruptDecides ==
    ASSUME Undisturbed, RadioInterrupt
    PROVE Queue!Accept \/ Queue!Drop \/ UNCHANGED Queue!vars
<1> USE PacketAssumption DEF PacketAssumption
<1>1. /\ radio = "done" /\ radio' = "listening" /\ data' = data
      /\ packetRd' = packetRd /\ taken' = taken /\ crcStatus' = crcStatus
      /\ crcStatus # 0 => air \in Packet /\ data[packetWr] = air
  BY DEF Undisturbed, TypeOK, Synced, RadioInterrupt, Packet, readVars
<1>2. packetCnt \in Nat /\ packetRd \in Slot /\ packetWr = SlotAt(packetCnt + 1)
  BY DEF Undisturbed, TypeOK, CountMatches, Ahead, SlotAt, Slot
<1>3. Heard' = Nothing
  BY <1>1 DEF Heard
<1>4. CASE crcStatus # 0 /\ packetCnt < PACKETS - 1
  <2>1. packetCnt' = packetCnt + 1
    BY <1>4 DEF RadioInterrupt
  <2>2. Waiting' = [i \in 1 .. packetCnt + 1 |-> data[SlotAt(i)]]
    BY <1>1, <2>1 DEF Waiting, SlotAt
  <2>3. air \in Packet /\ data[packetWr] = air
    BY <1>1, <1>4
  <2>4. Waiting' = Append(Waiting, air)
    BY <1>1, <1>2, <2>1, <2>2, <2>3, WaitingType DEF Waiting
  <2>5. Len(Waiting) < PACKETS - 1
    BY <1>4, WaitingType
  <2>6. Heard = air /\ air # Nothing
    BY <1>1, <1>4, <2>3 DEF Heard, Packet, Nothing
  <2> QED BY <1>1, <1>3, <2>4, <2>5, <2>6 DEF Queue!Accept
<1>5. CASE ~(crcStatus # 0 /\ packetCnt < PACKETS - 1)
  <2>1. packetCnt' = packetCnt
    BY <1>5 DEF RadioInterrupt
  <2>2. Waiting' = Waiting
    BY <1>1, <2>1 DEF Waiting, SlotAt
  <2>3. CASE crcStatus = 0
    <3>1. Heard = Nothing
      BY <2>3 DEF Heard
    <3> QED BY <1>1, <1>3, <2>2, <3>1 DEF Queue!vars
  <2>4. CASE crcStatus # 0
    <3>1. Len(Waiting) = PACKETS - 1
      BY <1>5, <2>4, WaitingType DEF Undisturbed, TypeOK
    <3>2. Heard # Nothing
      BY <1>1, <2>4 DEF Heard, Packet, Nothing
    <3> QED BY <1>1, <1>3, <2>2, <3>1, <3>2 DEF Queue!Drop
  <2> QED BY <2>3, <2>4
<1> QED BY <1>4, <1>5

\* The super loop takes the packet at its head.
LEMMA TakeTakes == ASSUME Undisturbed, TakePacket PROVE Queue!Take
<1> USE PacketAssumption DEF PacketAssumption
<1>1. /\ packetCnt > 0 /\ packetCnt \in Nat /\ packetCnt <= PACKETS - 1
      /\ packetCnt' = packetCnt - 1
      /\ packetRd \in Slot /\ packetRd' = Wrapped(packetRd)
      /\ data' = data /\ taken' = Append(taken, data[packetRd])
      /\ Heard' = Heard
  BY DEF Undisturbed, TypeOK, TakePacket, slotVars, radioVars, Heard
<1>2. SlotAt(1) = packetRd
  BY <1>1 DEF SlotAt, Slot
<1>3. ASSUME NEW i \in 1 .. packetCnt - 1 PROVE SlotAt(i)' = SlotAt(i + 1)
  BY <1>1, <1>3 DEF SlotAt, Wrapped, Slot
<1>4. Waiting # <<>> /\ Head(Waiting) = data[packetRd]
  BY <1>1, <1>2, WaitingType DEF Waiting
<1>5. Waiting' = [i \in 1 .. packetCnt - 1 |-> data[SlotAt(i + 1)]]
  BY <1>1, <1>3 DEF Waiting
<1>6. Tail(Waiting) = [i \in 1 .. packetCnt - 1 |-> data[SlotAt(i + 1)]]
  BY <1>1, WaitingType DEF Waiting
<1> QED BY <1>1, <1>4, <1>5, <1>6 DEF Queue!Take

\* The radio hears a packet; the slot the DMA writes is not a waiting packet's.
LEMMA RadioHears ==
    ASSUME Undisturbed, Radio
    PROVE (\E p \in Packet : Queue!Hear(p)) \/ UNCHANGED Queue!vars
<1> USE PacketAssumption DEF PacketAssumption
<1>1. ringVars' = ringVars /\ taken' = taken
      /\ \A s \in Slot : s # packetWr => data'[s] = data[s]
  BY DEF Undisturbed, TypeOK, Synced, Radio, PacketBegins, PacketEnds, readVars
<1>2. ASSUME NEW i \in 1 .. packetCnt PROVE data'[SlotAt(i)] = data[SlotAt(i)]
  BY <1>1, WaitingType, WriteClear
<1>3. UNCHANGED <<Waiting, taken>>
  BY <1>1, <1>2 DEF Waiting, SlotAt, ringVars
<1>4. Heard = Nothing
  BY DEF Heard, Radio, PacketBegins, PacketEnds
<1>5. Heard' = Nothing \/ Heard' \in Packet
  <2>1. CASE PacketBegins
    BY <2>1 DEF PacketBegins, Heard
  <2>2. CASE PacketEnds
    <3>1. air \in Packet /\ air' = air
      BY <2>2 DEF PacketEnds, Undisturbed, TypeOK, Synced, Packet
    <3> QED BY <3>1 DEF Heard
  <2> QED BY <2>1, <2>2 DEF Radio
<1> QED BY <1>3, <1>4, <1>5 DEF Queue!Hear, Queue!vars

LEMMA NextQueue ==
    Inv /\ [Next]_vars => [retunes' = 0 => Queue!Next]_(Queue!vars)
<1> SUFFICES ASSUME Inv, [Next]_vars, retunes' = 0
             PROVE Queue!Next \/ UNCHANGED Queue!vars
  OBVIOUS
<1> Undisturbed
  BY RetunesGrow DEF Inv, TypeOK
<1>1. ASSUME UNCHANGED <<ringVars, data, taken>>, Heard' = Heard PROVE UNCHANGED Queue!vars
  BY <1>1 DEF Waiting, SlotAt, ringVars, Queue!vars
<1>2. CASE RadioInterrupt
  BY <1>2, InterruptDecides DEF Queue!Next
<1>3. CASE TakePacket
  BY <1>3, TakeTakes DEF Queue!Next
<1>4. CASE Radio
  BY <1>4, RadioHears DEF Queue!Next
<1>5. CASE PrintPacket
  <2>1. UNCHANGED <<ringVars, data, taken, radio, crcStatus, air>>
    BY <1>5 DEF PrintPacket, ReadStamp, ReadData, EndPrint, slotVars, radioVars
  <2>2. Heard' = Heard
    BY <2>1 DEF Heard
  <2> QED BY <1>1, <2>1, <2>2
<1>6. CASE Retune
  <2>1. UNCHANGED <<ringVars, data, taken>>
    BY <1>6 DEF Retune, RetuneOff, RetuneOn, slotVars, readVars
  <2>2. Heard' = Heard
    BY <1>6 DEF Retune, RetuneOff, RetuneOn, Heard
  <2> QED BY <1>1, <2>1, <2>2
<1>7. CASE UNCHANGED vars
  BY <1>1, <1>7 DEF vars, slotVars, readVars, radioVars, Heard
<1> QED BY <1>2, <1>3, <1>4, <1>5, <1>6, <1>7 DEF Next

\* As long as the frequency is not changed the packet buffer is a bounded
\* first-in first-out queue (radioInterrupt, TraceSuperLoop): a good packet is
\* dropped only when the buffer is full, none is lost once accepted, and none is
\* taken twice, out of order or half written.
THEOREM RingIsQueue == Spec => IsQueue
BY AlwaysInv, InitQueue, NextQueue, PTL DEF Spec, IsQueue

-----------------------------------------------------------------------------
\* The super loop (main.c:386) with its sleeping and its interrupts does
\* nothing to the packet buffer that is not a step of PacketRing: what is
\* proved of the buffer holds of it in the loop.
THEOREM LoopKeepsRing == MainSpec => Spec
<1>1. MainInit => Init
  BY DEF MainInit
<1>2. [MainNext]_mainVars => [Next]_vars
  BY DEF MainNext, Interrupt, RtcInterrupt, SuperLoop, WakeUp, Command, OtherParts,
         TraceSuperLoop, NextRound, mainVars, Next, PrintPacket
<1> QED BY <1>1, <1>2, PTL DEF MainSpec, Spec

\* In the loop, too, every variable keeps its type.
THEOREM MainTypeCorrect == MainSpec => []MainTypeOK
<1> DEFINE LoopTypeOK == /\ stage \in {"wait", "parts", "trace"}
                         /\ work \in BOOLEAN /\ event \in BOOLEAN
<1>1. MainInit => LoopTypeOK
  BY DEF MainInit
<1>2. LoopTypeOK /\ [MainNext]_mainVars => LoopTypeOK'
  <2> SUFFICES ASSUME LoopTypeOK, [MainNext]_mainVars PROVE LoopTypeOK'
    OBVIOUS
  <2>1. ASSUME UNCHANGED loopVars PROVE LoopTypeOK'
    BY <2>1 DEF loopVars
  <2>2. ASSUME Interrupt PROVE LoopTypeOK'
    BY <2>2 DEF Interrupt
  <2>3. ASSUME NextRound PROVE LoopTypeOK'
    BY <2>3 DEF NextRound
  <2>4. CASE WakeUp
    BY <2>4 DEF WakeUp
  <2>5. CASE OtherParts
    BY <2>5 DEF OtherParts
  <2>6. CASE TraceSuperLoop
    BY <2>1, <2>3, <2>6 DEF TraceSuperLoop
  <2> QED BY <2>1, <2>2, <2>4, <2>5, <2>6
      DEF MainNext, RtcInterrupt, SuperLoop, Command, mainVars
<1>3. MainSpec => []LoopTypeOK
  BY <1>1, <1>2, PTL DEF MainSpec
<1>4. TypeOK /\ LoopTypeOK => MainTypeOK
  BY DEF MainTypeOK
<1> HIDE DEF LoopTypeOK
<1> QED BY <1>3, <1>4, LoopKeepsRing, TypeCorrect, PTL
=============================================================================
