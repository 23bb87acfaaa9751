------------------------------- MODULE BitPack ------------------------------
(***************************************************************************)
(* How a record is packed into words, store.c: wrNew and wr put fields one *)
(* after the other into buffer, rd takes them out when the record is read  *)
(* back.  The first word of a record has FirstBits of room under its type, *)
(* every other one WordBits under a 0; a field may be longer than a word.  *)
(*                                                                         *)
(* The type and the upper bits stay out of the model: a word, or the data  *)
(* of a field, is the set of the numbers of the bits that are 1 in it.     *)
(***************************************************************************)
EXTENDS Integers, Sequences

CONSTANTS FirstBits,  \* RT_SHIFT (26)
          WordBits,   \* 31
          Widths,     \* field widths in use: some longer than a word (32)
          BufWords,   \* ARRAY_SIZE(buffer)
          MaxFields   \* bound: fields in a record

PackAssumption ==
    /\ {FirstBits, WordBits, BufWords} \subseteq Nat \ {0}
    /\ FirstBits <= WordBits
    /\ Widths \subseteq Nat \ {0}
    /\ MaxFields \in Nat

VARIABLES buffer, bufferIndex, bufferPointer,
          bufferLimit,  \* words of the record read back; 0: it was too short
          written,      \* history: the fields put in, [bits, data]
          got,          \* the fields taken out
          whole         \* history: no word of the record was lost

vars == <<buffer, bufferIndex, bufferPointer, bufferLimit, written, got, whole>>

Packing == bufferLimit = -1

Index == 0 .. BufWords - 1
Buffers == [Index -> SUBSET (0 .. WordBits - 1)]

TypeOK ==
    /\ buffer \in Buffers /\ buffer[0] \subseteq 0 .. FirstBits - 1
    /\ bufferIndex \in Index /\ bufferPointer \in 0 .. WordBits
    /\ bufferLimit \in -1 .. BufWords
    /\ Len(written) <= MaxFields /\ Len(got) <= Len(written)
    /\ whole \in BOOLEAN

\* wrNew
Init ==
    /\ buffer = [i \in Index |-> {}]
    /\ bufferIndex = 0 /\ bufferPointer = FirstBits
    /\ bufferLimit = -1
    /\ written = <<>> /\ got = <<>>
    /\ whole = TRUE

\* Shifts of a word by n bits, and its lowest n bits.
Left(w, n)  == {b + n : b \in w}
Right(w, n) == {b - n : b \in {c \in w : c >= n}}
Low(w, n)   == {b \in w : b < n}

\* The word w with its lowest ptr bits those of data.
LowBits(w, ptr, data) == {b \in w : b >= ptr} \cup Low(data, ptr)

\* Mutant of Spills: a field that just fits begins another word.
BugSpills(bits, ptr) == bits >= ptr

\* What is left of a field does not fit in what is left of the word.
Spills(bits, ptr) == bits > ptr

\* The variables of the loop in wr: bits of data are still to go in.
WrLoop == [buf : Buffers, idx : Index, ptr : 0 .. WordBits, bits : Nat, data : SUBSET Nat]

\* Once round the loop: the rest of the word is filled and the next one begun.
FillWord(x) ==
    LET next == IF x.idx < BufWords - 1 THEN x.idx + 1 ELSE x.idx
    IN  [buf  |-> [[x.buf EXCEPT ![x.idx] = LowBits(@, x.ptr, x.data)] EXCEPT ![next] = {}],
         idx  |-> next, ptr |-> WordBits,
         bits |-> x.bits - x.ptr, data |-> Right(x.data, x.ptr)]

\* After the loop: the bits that are left go in at the pointer.
LastBits(x) ==
    [x EXCEPT !.buf[x.idx] = LowBits(@, x.ptr, Left(x.data, x.ptr - x.bits)),
              !.ptr = @ - x.bits]

wr[x \in WrLoop] == IF Spills(x.bits, x.ptr) THEN wr[FillWord(x)] ELSE LastBits(x)

\* The buffer is large enough for the largest record (store.c:505).
Fits(bits) == bits <= bufferPointer + (BufWords - 1 - bufferIndex) * WordBits

\* A caller packs a field.
Wr ==
    /\ Packing /\ Len(written) < MaxFields
    /\ \E bits \in Widths : \E data \in SUBSET (0 .. bits - 1) :
          LET r == wr[[buf |-> buffer, idx |-> bufferIndex, ptr |-> bufferPointer,
                       bits |-> bits, data |-> data]]
          IN  /\ Fits(bits)
              /\ buffer' = r.buf
              /\ bufferIndex' = r.idx /\ bufferPointer' = r.ptr
              /\ written' = Append(written, [bits |-> bits, data |-> data])
    /\ UNCHANGED <<bufferLimit, got, whole>>

\* importRecord: the words of the record that importWord collected, all of
\* them, or fewer when the rest was lost with a recycled page or a power loss.
ImportRecord ==
    /\ Packing /\ written # <<>>
    /\ \E words \in 1 .. bufferIndex + 1 :
          /\ bufferLimit' = words
          /\ whole' = (words = bufferIndex + 1)
    /\ bufferIndex' = 0 /\ bufferPointer' = FirstBits
    /\ UNCHANGED <<buffer, written, got>>

\* The variables of the loop in rd: ins bits of data are in, bits are to come.
RdLoop == [buf : Buffers, idx : Index, ptr : 0 .. WordBits, limit : 0 .. BufWords,
           bits : Nat, ins : Nat, data : SUBSET Nat]

\* Once round the loop: the rest of the word is taken.  Past the last word the
\* record is too short, which a limit of 0 tells.
TakeWord(x) ==
    LET short == x.idx + 1 >= x.limit
    IN  [x EXCEPT !.idx = IF short THEN 0 ELSE @ + 1,
                  !.limit = IF short THEN 0 ELSE @,
                  !.ptr = WordBits,
                  !.bits = @ - x.ptr, !.ins = @ + x.ptr,
                  !.data = @ \cup Left(Low(x.buf[x.idx], x.ptr), x.ins)]

\* After the loop: the bits that are left are taken from the pointer on.
TakeBits(x) ==
    [x EXCEPT !.ptr = @ - x.bits,
              !.data = @ \cup Left(Low(Right(x.buf[x.idx], x.ptr - x.bits), x.bits), x.ins)]

rd[x \in RdLoop] == IF x.bits > x.ptr THEN rd[TakeWord(x)] ELSE TakeBits(x)

Rd ==
    /\ ~Packing /\ Len(got) < Len(written)
    /\ LET bits == written[Len(got) + 1].bits
           r == rd[[buf |-> buffer, idx |-> bufferIndex, ptr |-> bufferPointer,
                    limit |-> bufferLimit, bits |-> bits, ins |-> 0, data |-> {}]]
       IN  /\ bufferIndex' = r.idx /\ bufferPointer' = r.ptr /\ bufferLimit' = r.limit
           /\ got' = Append(got, [bits |-> bits, data |-> r.data])
    /\ UNCHANGED <<buffer, written, whole>>

Next == Wr \/ ImportRecord \/ Rd

Spec == Init /\ [][Next]_vars

-----------------------------------------------------------------------------
\* Wherever fields cross the ends of words (store.c:546, store.c:817), a
\* record read back whole gives the fields that went in, and one that lost
\* a word is found too short and ignored.
ReadsWhatWasWritten ==
    (~Packing /\ Len(got) = Len(written)) =>
        IF whole THEN bufferLimit # 0 /\ got = written ELSE bufferLimit = 0
=============================================================================
