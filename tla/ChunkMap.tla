------------------------------ MODULE ChunkMap -----------------------------
(***************************************************************************)
(* The boot loader's bit map of chunks, loader/map.c: one bit for every    *)
(* ChunkSize addresses of MapStart .. MapEnd-1, packed in bytes.  A byte   *)
(* is the set of its bits that are 1.                                      *)
(***************************************************************************)
EXTENDS Integers

CONSTANTS MapStart, MapEnd, ChunkSize,  \* Map_t's start, end and chunkSize
          BitsPerByte                   \* BITS_PER_BYTE

MapAssumption ==
    /\ ChunkSize \in Nat \ {0} /\ BitsPerByte \in Nat \ {0}
    /\ MapStart \in Nat /\ MapEnd \in Nat /\ MapStart < MapEnd
    /\ MapStart % ChunkSize = 0 /\ MapEnd % ChunkSize = 0

VARIABLES bits,    \* the bytes of the map
          wanted   \* history: the slots set and not cleared since

vars == <<bits, wanted>>

\* MAP_DEFINE
Slots == (MapEnd - MapStart) \div ChunkSize
EntryCount == (Slots + BitsPerByte - 1) \div BitsPerByte
Entries == 0 .. EntryCount - 1
Bit == 0 .. BitsPerByte - 1

Addresses == MapStart .. MapEnd - 1
SlotOf(a) == (a - MapStart) \div ChunkSize
ByteOf(s) == s \div BitsPerByte
BitOf(s)  == s % BitsPerByte

TypeOK == /\ bits \in [Entries -> SUBSET Bit]
          /\ wanted \subseteq 0 .. Slots - 1

Init == bits = [i \in Entries |-> {}] /\ wanted = {}

MapClearAll ==
    /\ bits' = [i \in Entries |-> {}]
    /\ wanted' = {}

MapClear(a) ==
    /\ bits' = [bits EXCEPT ![ByteOf(SlotOf(a))] = @ \ {BitOf(SlotOf(a))}]
    /\ wanted' = wanted \ {SlotOf(a)}

MapSet(a) ==
    /\ bits' = [bits EXCEPT ![ByteOf(SlotOf(a))] = @ \cup {BitOf(SlotOf(a))}]
    /\ wanted' = wanted \cup {SlotOf(a)}

\* The slot after the last one of a range that ends before e.
EndSlot(e) == (e - MapStart + ChunkSize - 1) \div ChunkSize

\* Mutant of RangeBits: the byte of the range's end is set like those before it.
BugWholeLastByte(i, from, to) ==
    CASE ByteOf(from) = ByteOf(to) /\ i = ByteOf(from) -> BitOf(from) .. BitOf(to) - 1
      [] ByteOf(from) # ByteOf(to) /\ i = ByteOf(from) -> BitOf(from) .. BitsPerByte - 1
      [] i > ByteOf(from) /\ i <= ByteOf(to) -> Bit
      [] OTHER -> {}

\* The bits that MapSetRange sets in byte i for the slots from .. to - 1: in
\* place when both ends are in one byte, else the first byte's upper bits, whole
\* bytes, and the last byte's lower bits.
RangeBits(i, from, to) ==
    CASE ByteOf(from) = ByteOf(to) /\ i = ByteOf(from) -> BitOf(from) .. BitOf(to) - 1
      [] ByteOf(from) # ByteOf(to) /\ i = ByteOf(from) -> BitOf(from) .. BitsPerByte - 1
      [] i > ByteOf(from) /\ i < ByteOf(to) -> Bit
      [] i > ByteOf(from) /\ i = ByteOf(to) -> 0 .. BitOf(to) - 1
      [] OTHER -> {}

\* What MapSetRange takes for a valid range: one that ends before the map does.
ValidRange(s, e) == s < e /\ e < MapEnd

MapSetRange(s, e) ==
    IF ValidRange(s, e)
    THEN /\ bits' = [i \in Entries |-> bits[i] \cup RangeBits(i, SlotOf(s), EndSlot(e))]
         /\ wanted' = wanted \cup SlotOf(s) .. EndSlot(e) - 1
    ELSE UNCHANGED vars

\* MapIsClearAll: from the byte that holds the map's end on, only the bits
\* below the end count.
IsClear(b) ==
    \A i \in Entries : b[i] \cap (IF i >= ByteOf(Slots) THEN 0 .. BitOf(Slots) - 1 ELSE Bit) = {}

\* MapIsSet
IsSet(b, a) == BitOf(SlotOf(a)) \in b[ByteOf(SlotOf(a))]

Next ==
    \/ MapClearAll
    \/ \E a \in Addresses : MapClear(a)
    \/ \E a \in Addresses : MapSet(a)
    \/ \E s \in Addresses, e \in Addresses \cup {MapEnd} : MapSetRange(s, e)

Spec == Init /\ [][Next]_vars

-----------------------------------------------------------------------------
(* Properties                                                              *)

\* The map holds exactly the slots that were set and not cleared since,
\* wherever the ends of a range fall in their bytes (MapSetRange).
TracksSlots ==
    {s \in 0 .. (EntryCount * BitsPerByte) - 1 : BitOf(s) \in bits[ByteOf(s)]} = wanted

\* What Main asks of a map is answered from those slots: "all clear" in the
\* face of a last byte that is partly used, and one page's bit.
AnswersRight ==
    /\ IsClear(bits) <=> wanted = {}
    /\ \A a \in Addresses : IsSet(bits, a) <=> SlotOf(a) \in wanted
=============================================================================
