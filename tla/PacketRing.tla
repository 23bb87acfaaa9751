------------------------------ MODULE PacketRing ----------------------------
(***************************************************************************)
(* The tracer's packet buffer (tracer.c): the radio writes packets into a  *)
(* slot by DMA, radioInterrupt stamps the slot and moves on to the next,   *)
(* TraceSuperLoop takes packets and prints them, and the FREQUENCY command *)
(* restarts the radio.                                                     *)
(*                                                                         *)
(* The interrupt is one step of the processor: nothing of the super loop   *)
(* runs inside it.  The radio and its DMA run beside both.  The radio      *)
(* stops after each packet until the interrupt starts it again.            *)
(***************************************************************************)
EXTENDS Integers, Sequences

CONSTANTS PACKETS,    \* slots of packets[]
          MaxPackets, \* bound: packets on the air
          Retunes     \* bound: FREQUENCY commands

ASSUME PacketAssumption ==
    /\ PACKETS \in Nat /\ PACKETS >= 2
    /\ MaxPackets \in Nat /\ Retunes \in Nat

Slot == 0 .. PACKETS - 1
Packet == 1 .. MaxPackets
Nothing == 0
Damaged == -1   \* data that is no good packet: zeroes, half written, a bad CRC

Last(s) == s[Len(s)]

VARIABLES
    packetWr, packetRd, packetCnt,
    data,     \* packets[].data by slot
    stamp,    \* packets[].time and .rssi by slot: the packet they belong to
    dmaPtr,   \* the radio's PACKETPTR register
    dmaSlot,  \* the slot the DMA writes, latched from PACKETPTR by TASKS_START
    radio,    \* "off", "listening", "receiving", "done" (EVENTS_END is set)
    crcStatus, \* CRCSTATUS
    air,      \* the number of packets that came in so far
    reader,   \* TraceSuperLoop: "idle", or "holds" a slot it is printing
    held,     \* that slot
    gotStamp, gotData, \* what it read of the slot, Nothing before it reads
    taken,    \* history: the packets taken, in order
    retunes

ringVars == <<packetWr, packetRd, packetCnt>>
slotVars == <<data, stamp>>
radioVars == <<dmaPtr, dmaSlot, radio, crcStatus, air>>
readVars == <<reader, held, gotStamp, gotData, taken>>
vars == <<ringVars, slotVars, radioVars, readVars, retunes>>

TypeOK ==
    /\ packetWr \in Slot /\ packetRd \in Slot /\ packetCnt \in 0 .. PACKETS - 1
    /\ data \in [Slot -> Packet \cup {Nothing, Damaged}]
    /\ stamp \in [Slot -> Packet \cup {Nothing}]
    /\ dmaPtr \in Slot /\ dmaSlot \in Slot
    /\ radio \in {"off", "listening", "receiving", "done"}
    /\ crcStatus \in {0, 1}
    /\ air \in 0 .. MaxPackets
    /\ reader \in {"idle", "holds"}
    /\ held \in Slot
    /\ gotStamp \in Packet \cup {Nothing}
    /\ gotData \in Packet \cup {Nothing, Damaged}
    /\ taken \in Seq(Packet \cup {Nothing, Damaged})
    /\ retunes \in 0 .. Retunes

\* After TraceSetup: radioStart has pointed the DMA at the first slot.
Init ==
    /\ packetWr = 0 /\ packetRd = 0 /\ packetCnt = 0
    /\ data = [s \in Slot |-> Damaged] /\ stamp = [s \in Slot |-> Nothing]
    /\ dmaPtr = 0 /\ dmaSlot = 0 /\ radio = "listening"
    /\ crcStatus = 0 /\ air = 0
    /\ reader = "idle" /\ held = 0 /\ gotStamp = Nothing /\ gotData = Nothing
    /\ taken = <<>> /\ retunes = 0

\* Mutant: the wrap is one slot late.
BugLateWrap(i) == IF i + 1 > PACKETS THEN 0 ELSE i + 1
Wrapped(i) == IF i + 1 >= PACKETS THEN 0 ELSE i + 1

-----------------------------------------------------------------------------
\* The radio hears an address and the DMA begins to overwrite its slot.
PacketBegins ==
    /\ radio = "listening" /\ air < MaxPackets
    /\ air' = air + 1
    /\ data' = [data EXCEPT ![dmaSlot] = Damaged]
    /\ radio' = "receiving"
    /\ UNCHANGED <<ringVars, stamp, dmaPtr, dmaSlot, crcStatus, readVars, retunes>>

\* The last byte is in, with a good or a bad CRC; END raises the interrupt.
PacketEnds ==
    /\ radio = "receiving"
    /\ \E crc \in {0, 1} :
          /\ crcStatus' = crc
          /\ data' = [data EXCEPT ![dmaSlot] = IF crc = 0 THEN Damaged ELSE air]
    /\ radio' = "done"
    /\ UNCHANGED <<ringVars, stamp, dmaPtr, dmaSlot, air, readVars, retunes>>

\* Mutants of RadioInterrupt: it fills every slot, or leaves one too many free,
\* never looks for room, takes packets with a bad CRC, or leaves the DMA where
\* it is.
BugInterrupt(accept, next) ==
    /\ radio = "done"
    /\ stamp' = [stamp EXCEPT ![packetWr] = air]
    /\ IF accept
       THEN /\ packetWr' = Wrapped(packetWr)
            /\ dmaPtr' = next
            /\ packetCnt' = packetCnt + 1
       ELSE UNCHANGED <<packetWr, dmaPtr, packetCnt>>
    /\ dmaSlot' = dmaPtr'
    /\ radio' = "listening"
    /\ UNCHANGED <<packetRd, data, crcStatus, air, readVars, retunes>>
BugFillsLastSlot == BugInterrupt(crcStatus # 0 /\ packetCnt < PACKETS, Wrapped(packetWr))
BugLeavesTwoFree == BugInterrupt(crcStatus # 0 /\ packetCnt < PACKETS - 2, Wrapped(packetWr))
BugNoRoomCheck == BugInterrupt(crcStatus # 0, Wrapped(packetWr))
BugNoCrcCheck == BugInterrupt(packetCnt < PACKETS - 1, Wrapped(packetWr))
BugDmaStays == BugInterrupt(crcStatus # 0 /\ packetCnt < PACKETS - 1, dmaPtr)

\* radioInterrupt: stamp the slot; if the packet is good and there is room,
\* move to the next slot; start the receiver again.
RadioInterrupt ==
    /\ radio = "done"
    /\ stamp' = [stamp EXCEPT ![packetWr] = air]
    /\ IF crcStatus # 0 /\ packetCnt < PACKETS - 1
       THEN /\ packetWr' = Wrapped(packetWr)
            /\ dmaPtr' = Wrapped(packetWr)
            /\ packetCnt' = packetCnt + 1
       ELSE UNCHANGED <<packetWr, dmaPtr, packetCnt>>
    /\ dmaSlot' = dmaPtr'
    /\ radio' = "listening"
    /\ UNCHANGED <<packetRd, data, crcStatus, air, readVars, retunes>>

-----------------------------------------------------------------------------
\* TraceSuperLoop takes the next packet: the count drops before the slot is
\* read.  That packetRd follows a statement later (tracer.c:408) makes no
\* difference: the interrupt reads packetCnt and packetWr, never packetRd.
TakePacket ==
    /\ reader = "idle"
    /\ packetCnt > 0
    /\ packetCnt' = packetCnt - 1
    /\ held' = packetRd
    /\ packetRd' = Wrapped(packetRd)
    /\ reader' = "holds"
    /\ taken' = Append(taken, data[packetRd])
    /\ UNCHANGED <<packetWr, slotVars, radioVars, gotStamp, gotData, retunes>>

\* ... reads the time and RSSI of the slot, prints them,
ReadStamp ==
    /\ reader = "holds" /\ gotStamp = Nothing
    /\ gotStamp' = stamp[held]
    /\ UNCHANGED <<ringVars, slotVars, radioVars, reader, held, gotData, taken, retunes>>

\* ... and then reads the address and payload.
ReadData ==
    /\ reader = "holds" /\ gotStamp # Nothing /\ gotData = Nothing
    /\ gotData' = data[held]
    /\ UNCHANGED <<ringVars, slotVars, radioVars, reader, held, gotStamp, taken, retunes>>

EndPrint ==
    /\ reader = "holds" /\ gotData # Nothing
    /\ reader' = "idle" /\ gotStamp' = Nothing /\ gotData' = Nothing
    /\ UNCHANGED <<ringVars, slotVars, radioVars, held, taken, retunes>>

\* FREQUENCY, in the command loop: radioStart power-cycles the radio and
\* points the DMA at the first slot.  TraceSuperLoop is not running then, and
\* an interrupt that is pending is taken before the command goes on.
RetuneOff ==
    /\ reader = "idle" /\ radio \in {"listening", "receiving"} /\ retunes < Retunes
    /\ retunes' = retunes + 1
    /\ radio' = "off" /\ crcStatus' = 0
    /\ UNCHANGED <<ringVars, slotVars, dmaPtr, dmaSlot, air, readVars>>

RetuneOn ==
    /\ radio = "off"
    /\ dmaPtr' = 0 /\ dmaSlot' = 0
    /\ radio' = "listening"
    /\ UNCHANGED <<ringVars, slotVars, crcStatus, air, readVars, retunes>>

Radio == PacketBegins \/ PacketEnds
PrintPacket == ReadStamp \/ ReadData \/ EndPrint
Retune == RetuneOff \/ RetuneOn

Next == Radio \/ RadioInterrupt \/ TakePacket \/ PrintPacket \/ Retune

Spec == Init /\ [][Next]_vars

-----------------------------------------------------------------------------
\* Slots ahead of packetRd, and those of the packets waiting to be taken.
Ahead(s) == IF s >= packetRd THEN s - packetRd ELSE s - packetRd + PACKETS
Queued(s) == Ahead(s) < packetCnt

\* The slot the DMA is writing, or will write when a packet comes in.
DmaTarget == IF radio = "off" THEN dmaPtr ELSE dmaSlot

\* packetCnt, kept by two parties, is the distance between their pointers,
\* whether the radio is retuned or not.
CountMatches == packetCnt = Ahead(packetWr)

\* "We fill all but the last slot in the packet buffer, so the radio has
\* somewhere to write a new packet when the buffer is full" (tracer.c:163):
\* the slot the DMA writes is never one that waits to be taken.
DmaAlwaysClear == ~Queued(DmaTarget)

\* FREQUENCY breaks that (PacketRingRetune); until it is used, it holds.
DmaClear == retunes = 0 => DmaAlwaysClear

\* Until then every waiting packet is whole, good, and carries its own time
\* stamp, whatever the interrupt and the super loop do to the count between
\* each other's steps.
QueuedIntact ==
    retunes = 0 =>
        \A s \in Slot : Queued(s) => data[s] \in Packet /\ stamp[s] = data[s]

\* Until then the packet being printed stays whole so long as the buffer does
\* not fill up behind it.
HeldIntact ==
    (retunes = 0 /\ reader = "holds" /\ packetCnt < PACKETS - 1) =>
        data[held] = Last(taken) /\ stamp[held] = Last(taken)

\* What TraceSuperLoop prints is the packet it took: "Grab the next packet"
\* (tracer.c:403), out of a slot the radio does not write (tracer.c:163).
PrintsWhatItTook ==
    /\ gotStamp # Nothing => gotStamp = Last(taken)
    /\ gotData # Nothing => gotData = Last(taken)

\* The slot of the i-th waiting packet, and the packets waiting, in order.
SlotAt(i) == IF packetRd + i > PACKETS THEN packetRd + i - 1 - PACKETS ELSE packetRd + i - 1
Waiting == [i \in 1 .. packetCnt |-> data[SlotAt(i)]]

\* The packet that is in the slot whole and good, until the interrupt has seen it.
Heard == IF radio = "done" /\ crcStatus # 0 THEN air ELSE Nothing

\* Until the radio is retuned the buffer is the bounded queue it is meant to
\* be: every good packet is queued unless PACKETS - 1 already wait, no other is,
\* and the super loop takes them in order, each once.
Queue == INSTANCE PacketQueue
             WITH Capacity <- PACKETS - 1, heard <- Heard, queue <- Waiting
IsQueue == Queue!Init /\ [][retunes' = 0 => Queue!Next]_(Queue!vars)
=============================================================================
