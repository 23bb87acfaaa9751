-------------------------- MODULE StoreRing_proofs -------------------------
(***************************************************************************)
(* The record store for any number of pages, records and power losses: its *)
(* writer programs erased flash only and stands where a restart would, and *)
(* what a restart reads back are the newest records written.               *)
(***************************************************************************)
EXTENDS StoreRing, WellFoundedInduction, SequenceTheorems, TLAPS

Addr == Flash!Addr
PageOf(a) == Flash!PageOf(a)

-----------------------------------------------------------------------------
(* What the flash holds                                                    *)

RecordWord == [kind : Kinds, id : Nat, idx : Nat]
CleanWord == {Erased} \cup {SeqWord(q) : q \in Nat} \cup RecordWord

\* Pages are filled from the front.
Packed(f) ==
    \A a, b \in Addr : PageOf(a) = PageOf(b) /\ a < b /\ f[a] = Erased => f[b] = Erased

\* The sequence records that a scan of f finds.
SeqHere(f, s) ==
    /\ f[s].kind = "seq"
    /\ \A b \in Addr : PageOf(b) = PageOf(s) /\ b < s => f[b].kind \notin {"seq", "erased"}
Heads(f) == {s \in Addr : SeqHere(f, s)}

\* s is the sequence record of the newest page.
Leads(f, s) == s \in Heads(f) /\ \A t \in Heads(f) \ {s} : f[t].id < f[s].id

Recoverable(f) == Heads(f) = {} \/ \E s \in Addr : Leads(f, s)

\* The pointer c and the sequence number q are those of a restart with flash f.
Stands(f, c, q) ==
    \/ Heads(f) = {} /\ c = 0 /\ q = 0
    \/ \E s \in Addr :
          /\ Leads(f, s) /\ f[s].id = q
          /\ c \in Nat /\ c - 1 \in Addr /\ PageOf(c - 1) = PageOf(s)
          /\ \A b \in Addr : PageOf(b) = PageOf(s) => (f[b] # Erased <=> b < c)

FlashSound == flash \in [Addr -> CleanWord] /\ Packed(flash) /\ Recoverable(flash)

-----------------------------------------------------------------------------
(* The states of the writer                                                *)

RecordIn(buf) == \E k \in Kinds, id \in 0 .. MaxRecords : buf = NewRecord(k, id)
RecordAndSeqIn(buf, q) ==
    \E k \in Kinds, id \in 0 .. MaxRecords : buf = Append(NewRecord(k, id), SeqWord(q))

\* The first k words of buf are in the flash f, from c on; the others are free.
Landed(f, c, buf, k) ==
    \A i \in 1 .. Len(buf) : f[c + i - 1] = IF i <= k THEN buf[i] ELSE Erased

\* A record in the page in use.
WritesOn(f, c, buf, q) ==
    /\ RecordIn(buf)
    /\ PageOf(c) = PageOf(c + Len(buf) - 1)
    /\ \E s \in Addr : Leads(f, s) /\ f[s].id = q /\ s < c /\ PageOf(s) = PageOf(c)

\* A record that begins or enters a page, the page's sequence record behind it.
WritesNewPage(f, c, buf, q) ==
    LET e == c + Len(buf) - 1
    IN  /\ RecordAndSeqIn(buf, q)
        /\ \A t \in Heads(f) \ {e} : f[t].id < q /\ PageOf(t) # PageOf(e)
        /\ \A b \in Addr : PageOf(b) = PageOf(e) /\ b < e => b >= c

\* The write of buf at c, with sequence number q, of which k words landed.
Halfway(f, c, buf, q, k) ==
    LET e == c + Len(buf) - 1
    IN  /\ c \in Nat /\ e \in Addr
        /\ \A b \in Addr : PageOf(b) = PageOf(c) /\ b < c => f[b] # Erased
        /\ \A b \in Addr : PageOf(b) = PageOf(e) /\ b > e => f[b] = Erased
        /\ Landed(f, c, buf, k)
        /\ WritesOn(f, c, buf, q) \/ WritesNewPage(f, c, buf, q)

\* In g words of buf, as it is written at c, have come in place of erased ones of f.
Programs(f, g, c, buf) ==
    \A a \in Addr : g[a] # f[a] => /\ f[a] = Erased /\ a - c \in 0 .. Len(buf) - 1
                                  /\ g[a] = buf[a - c + 1]

NoWrite == request = Flash!NoRequest /\ buffer = <<>> /\ goState = "IDLE"

Erasing ==
    /\ Stands(flash, currentWrite, sequence)
    /\ RecordIn(buffer) /\ Len(buffer) > Remain
    /\ \/ request = Flash!EraseRequest(NextPage) /\ ~flashComplete
       \/ request = Flash!NoRequest /\ flashComplete /\ flash[NextPage] = Erased

Writing ==
    \E k \in 0 .. Len(buffer) :
        /\ Halfway(flash, currentWrite, buffer, sequence, k)
        /\ \/ request = Flash!WriteRequest(currentWrite, buffer) /\ ~flashComplete
           \/ request = Flash!NoRequest /\ flashComplete /\ k = Len(buffer)

WriterSound ==
    /\ state = "INIT0" => NoWrite /\ opFlag = {}
    /\ state = "IDLE" => NoWrite /\ Stands(flash, currentWrite, sequence)
    /\ state = "WRITING" => \/ goState = "ERASE1" /\ Erasing
                            \/ goState = "WRITE1" /\ Writing
    /\ needSeq = FALSE

RingInv == TypeOK /\ FlashSound /\ WriterSound

-----------------------------------------------------------------------------
(* Pages and addresses                                                     *)

PageStart(p) == p * PageWords

LEMMA MulMono ==
    ASSUME NEW p \in Nat, NEW q \in Nat, NEW w \in Nat \ {0}, p < q
    PROVE  p * w + w <= q * w
BY Z3

LEMMA DivMod ==
    ASSUME NEW a \in Nat, NEW w \in Nat \ {0}
    PROVE  /\ a \div w \in Nat /\ a % w \in 0 .. w - 1
           /\ (a \div w) * w \in Nat
           /\ a = (a \div w) * w + (a % w)
BY Z3

LEMMA DivIs ==
    ASSUME NEW a \in Nat, NEW w \in Nat \ {0}, NEW p \in Nat, p * w <= a, a < p * w + w
    PROVE  a \div w = p
<1>1. /\ a \div w \in Nat /\ (a \div w) * w \in Nat /\ p * w \in Nat
      /\ (a \div w) * w <= a /\ a < (a \div w) * w + w
  BY DivMod
<1>2. p < a \div w => p * w + w <= (a \div w) * w
  BY <1>1, MulMono
<1>3. a \div w < p => (a \div w) * w + w <= p * w
  BY <1>1, MulMono
<1> QED BY <1>1, <1>2, <1>3

LEMMA Geometry ==
    /\ PageCount \in Nat /\ PageCount >= 2 /\ PageWords \in Nat \ {0}
    /\ StoreEnd \in Nat /\ Addr = 0 .. StoreEnd - 1
    /\ StoreEnd = PageStart(PageCount) /\ PageStart(0) = 0
<1>1. PageCount \in Nat /\ PageCount >= 2 /\ PageWords \in Nat \ {0}
  BY RingAssumption DEF RingAssumption
<1>2. PageCount * PageWords \in Nat /\ 0 * PageWords = 0
  BY <1>1
<1> QED BY <1>1, <1>2 DEF Addr, Flash!Addr, StoreEnd, PageStart

\* The page of an address, and where it begins.
LEMMA PageSpan ==
    ASSUME NEW a \in Nat
    PROVE  /\ PageOf(a) \in Nat /\ PageStart(PageOf(a)) \in Nat
           /\ PageStart(PageOf(a)) <= a /\ a < PageStart(PageOf(a)) + PageWords
           /\ a % PageWords = a - PageStart(PageOf(a))
<1>1. PageWords \in Nat \ {0}
  BY Geometry
<1>2. /\ a \div PageWords \in Nat /\ a % PageWords \in 0 .. PageWords - 1
      /\ (a \div PageWords) * PageWords \in Nat
      /\ a = (a \div PageWords) * PageWords + (a % PageWords)
  BY <1>1, DivMod
<1>3. PageOf(a) = a \div PageWords /\ PageStart(PageOf(a)) = (a \div PageWords) * PageWords
  BY DEF PageOf, Flash!PageOf, PageStart
<1> HIDE DEF PageOf, PageStart
<1> QED BY <1>1, <1>2, <1>3

LEMMA PageStartIs ==
    ASSUME NEW p \in Nat
    PROVE  PageStart(p) \in Nat /\ PageStart(p + 1) = PageStart(p) + PageWords
BY Geometry DEF PageStart

LEMMA PageAt ==
    ASSUME NEW p \in Nat, NEW a \in Nat,
           PageStart(p) <= a, a < PageStart(p) + PageWords
    PROVE  PageOf(a) = p
BY Geometry, DivIs DEF PageOf, Flash!PageOf, PageStart

LEMMA PageMono ==
    ASSUME NEW a \in Nat, NEW b \in Nat, a <= b
    PROVE  PageOf(a) <= PageOf(b)
<1>1. /\ PageOf(a) \in Nat /\ PageOf(b) \in Nat /\ PageWords \in Nat \ {0}
      /\ PageStart(PageOf(a)) \in Nat /\ PageStart(PageOf(b)) \in Nat
      /\ PageStart(PageOf(a)) <= a /\ b < PageStart(PageOf(b)) + PageWords
  BY PageSpan, Geometry
<1>2. PageOf(b) < PageOf(a) => PageStart(PageOf(b)) + PageWords <= PageStart(PageOf(a))
  BY <1>1, MulMono DEF PageStart
<1> QED BY <1>1, <1>2

\* The pages of the region.
LEMMA PageInside ==
    /\ \A p \in 0 .. PageCount - 1 : PageStart(p) \in Nat /\ PageStart(p) + PageWords <= StoreEnd
    /\ \A a \in Addr : a \in Nat /\ PageOf(a) \in 0 .. PageCount - 1
<1>1. ASSUME NEW p \in 0 .. PageCount - 1
      PROVE  PageStart(p) \in Nat /\ PageStart(p) + PageWords <= StoreEnd
  BY Geometry, MulMono DEF PageStart
<1>2. ASSUME NEW a \in Addr PROVE a \in Nat /\ PageOf(a) \in 0 .. PageCount - 1
  <2>1. a \in Nat /\ a < StoreEnd /\ PageOf(a) \in Nat /\ PageStart(PageOf(a)) <= a
        /\ PageStart(PageOf(a)) \in Nat
    BY Geometry, PageSpan
  <2>2. PageCount <= PageOf(a) => PageStart(PageCount) <= PageStart(PageOf(a))
    <3>1. PageCount < PageOf(a) => PageStart(PageCount) + PageWords <= PageStart(PageOf(a))
      BY <2>1, Geometry, MulMono DEF PageStart
    <3>2. PageStart(PageCount) \in Nat /\ PageCount \in Nat /\ PageWords \in Nat
      BY Geometry
    <3>3. CASE PageCount = PageOf(a)
      BY <3>2, <3>3
    <3>4. CASE PageCount < PageOf(a)
      BY <2>1, <3>1, <3>2, <3>4
    <3> QED BY <2>1, <3>2, <3>3, <3>4
  <2> QED BY <2>1, <2>2, Geometry
<1> QED BY <1>1, <1>2

\* Where wrGo goes on when the page of the pointer is full.
LEMMA PageTurn ==
    ASSUME currentWrite \in Nat, currentWrite - 1 \in Addr
    PROVE  LET p == PageOf(currentWrite - 1)
               e == PageStart(p) + PageWords
           IN  /\ p \in 0 .. PageCount - 1 /\ PageStart(p) \in Nat /\ e \in Nat
               /\ PageStart(p) < currentWrite /\ currentWrite <= e /\ e <= StoreEnd
               /\ Remain = e - currentWrite
               /\ Remain # 0 => currentWrite \in Addr /\ PageOf(currentWrite) = p
               /\ NextPage = IF e = StoreEnd THEN 0 ELSE e
               /\ NextPage \in Addr /\ PageOf(NextPage) # p
               /\ NextPage = PageStart(PageOf(NextPage))
<1> DEFINE p == PageOf(currentWrite - 1)
           e == PageStart(p) + PageWords
<1>1. /\ p \in 0 .. PageCount - 1 /\ PageStart(p) \in Nat /\ e \in Nat
      /\ PageStart(p) < currentWrite /\ currentWrite <= e /\ e <= StoreEnd
      /\ currentWrite - 1 \in Nat /\ p \in Nat /\ PageWords \in Nat \ {0} /\ StoreEnd \in Nat
  <2>1. currentWrite - 1 \in Nat /\ p \in 0 .. PageCount - 1
    BY PageInside
  <2>2. PageStart(p) \in Nat /\ PageStart(p) + PageWords <= StoreEnd
    BY <2>1, PageInside
  <2>3. PageStart(p) <= currentWrite - 1 /\ currentWrite - 1 < PageStart(p) + PageWords
    BY <2>1, PageSpan
  <2>4. PageWords \in Nat \ {0} /\ StoreEnd \in Nat /\ PageCount \in Nat
    BY Geometry
  <2> HIDE DEF p
  <2> QED BY <2>1, <2>2, <2>3, <2>4
<1>2. /\ currentWrite = e => currentWrite % PageWords = 0
      /\ currentWrite # e => /\ PageOf(currentWrite) = p
                             /\ currentWrite % PageWords = currentWrite - PageStart(p)
  <2>1. CASE currentWrite = e
    <3>1. e = PageStart(p + 1) /\ p + 1 \in Nat /\ PageStart(p + 1) \in Nat
      BY <1>1, PageStartIs
    <3>2. PageOf(PageStart(p + 1)) = p + 1
      BY <1>1, <3>1, PageAt
    <3> QED BY <1>1, <2>1, <3>1, <3>2, PageSpan
  <2>2. CASE currentWrite # e
    <3>1. PageOf(currentWrite) = p
      BY <1>1, <2>2, PageAt
    <3> QED BY <2>2, <3>1, PageSpan
  <2> QED BY <2>1, <2>2
<1>3. Remain = e - currentWrite /\ currentWrite + Remain = e
  BY <1>1, <1>2 DEF Remain
<1>4. NextPage = IF e = StoreEnd THEN 0 ELSE e
  BY <1>1, <1>3 DEF NextPage
<1>5. NextPage \in Addr /\ PageOf(NextPage) # p /\ NextPage = PageStart(PageOf(NextPage))
  <2>1. CASE e = StoreEnd
    <3>1. PageOf(0) = 0
      BY PageAt, Geometry
    <3>2. p # 0
      <4>1. PageStart(0 + 1) = PageStart(0) + PageWords
        BY PageStartIs
      <4>2. PageStart(1) + PageWords <= PageStart(PageCount)
        BY Geometry, MulMono DEF PageStart
      <4> QED BY <1>1, <2>1, <4>1, <4>2, Geometry
    <3> QED BY <1>1, <1>4, <2>1, <3>1, <3>2, Geometry
  <2>2. CASE e # StoreEnd
    <3>1. e = PageStart(p + 1) /\ p + 1 \in Nat
      BY <1>1, PageStartIs
    <3>2. PageOf(e) = p + 1
      BY <1>1, <3>1, PageAt
    <3> QED BY <1>1, <1>4, <2>2, <3>1, <3>2, Geometry
  <2> QED BY <2>1, <2>2
<1>6. Remain # 0 => currentWrite \in Addr /\ PageOf(currentWrite) = p
  <2>1. Addr = 0 .. StoreEnd - 1
    BY Geometry
  <2> HIDE DEF p, e
  <2>2. Remain # 0 => currentWrite # e /\ currentWrite < StoreEnd
    BY <1>1, <1>3
  <2> QED BY <1>1, <1>2, <2>1, <2>2
<1> QED BY <1>1, <1>3, <1>4, <1>5, <1>6

-----------------------------------------------------------------------------
(* Words                                                                   *)

LEMMA Words ==
    /\ Erased \in CleanWord /\ Erased.kind = "erased" /\ CleanWord \subseteq Word
    /\ \A w \in CleanWord : /\ w.id \in Nat /\ w # Garbled
                            /\ (w = Erased <=> w.kind = "erased")
    /\ \A w \in RecordWord : /\ w \in CleanWord /\ w # Erased
                             /\ w.kind \notin {"seq", "erased"}
    /\ \A q \in Nat : /\ SeqWord(q) \in CleanWord /\ SeqWord(q) # Erased
                      /\ SeqWord(q).kind = "seq" /\ SeqWord(q).id = q
<1>1. Kinds \cap {"seq", "erased", "garbled"} = {}
  BY RingAssumption DEF RingAssumption
<1>2. /\ Erased \in Word /\ Erased.id \in Nat /\ Erased.kind = "erased" /\ Erased # Garbled
      /\ Erased \in CleanWord
  BY DEF Erased, Garbled, Word, CleanWord
<1>3. ASSUME NEW q \in Nat
      PROVE  /\ SeqWord(q) \in Word /\ SeqWord(q).id = q /\ SeqWord(q).kind = "seq"
             /\ SeqWord(q) # Erased /\ SeqWord(q) # Garbled /\ SeqWord(q) \in CleanWord
  BY DEF Erased, Garbled, Word, SeqWord, CleanWord
<1>4. ASSUME NEW w \in RecordWord
      PROVE  /\ w \in Word /\ w.id \in Nat /\ w.kind \in Kinds
             /\ w.kind \notin {"seq", "erased", "garbled"} /\ w \in CleanWord
  BY <1>1 DEF RecordWord, Word, CleanWord
<1>5. \A w \in RecordWord : w # Erased /\ w # Garbled
  BY <1>4 DEF Erased, Garbled
<1>6. ASSUME NEW w \in CleanWord
      PROVE  w \in Word /\ w.id \in Nat /\ w # Garbled /\ (w = Erased <=> w.kind = "erased")
  <2>1. CASE w = Erased
    BY <1>2, <2>1
  <2>2. CASE \E q \in Nat : w = SeqWord(q)
    BY <1>3, <2>2
  <2>3. CASE w \in RecordWord
    BY <1>4, <1>5, <2>3
  <2> QED BY <2>1, <2>2, <2>3 DEF CleanWord
<1> QED BY <1>2, <1>3, <1>4, <1>5, <1>6

LEMMA Lengths ==
    /\ BufWords \in Nat /\ MaxRecords \in Nat
    /\ \A k \in Kinds : /\ RecWords[k] \in Nat /\ RecWords[k] >= 1
                        /\ RecWords[k] < BufWords /\ RecWords[k] < PageWords
BY RingAssumption DEF RingAssumption

\* A packed record, and a packed record with a sequence record.
LEMMA RecordIs ==
    ASSUME NEW buf, RecordIn(buf)
    PROVE  /\ buf \in Seq(RecordWord) /\ Len(buf) \in Nat /\ buf # <<>>
           /\ Len(buf) >= 1 /\ Len(buf) < BufWords /\ Len(buf) < PageWords
           /\ \A i \in 1 .. Len(buf) : buf[i] \in RecordWord
           /\ buf[1].id \in 0 .. MaxRecords
<1>1. PICK k \in Kinds, id \in 0 .. MaxRecords : buf = NewRecord(k, id)
  BY DEF RecordIn
<1>2. RecWords[k] \in Nat /\ RecWords[k] >= 1 /\ MaxRecords \in Nat
      /\ RecWords[k] < BufWords /\ RecWords[k] < PageWords
  BY Lengths
<1>3. /\ buf = [i \in 1 .. RecWords[k] |-> [kind |-> k, id |-> id, idx |-> i - 1]]
      /\ \A i \in 1 .. RecWords[k] : [kind |-> k, id |-> id, idx |-> i - 1] \in RecordWord
  BY <1>1, <1>2 DEF NewRecord, RecordWord
<1>4. buf \in Seq(RecordWord) /\ Len(buf) = RecWords[k]
  BY <1>2, <1>3
<1>5. buf[1] = [kind |-> k, id |-> id, idx |-> 0]
  BY <1>2, <1>3
<1> QED BY <1>2, <1>3, <1>4, <1>5

LEMMA RecordAndSeqIs ==
    ASSUME NEW buf, NEW q \in Nat, RecordAndSeqIn(buf, q)
    PROVE  /\ buf \in Seq(CleanWord) /\ Len(buf) \in Nat /\ buf # <<>>
           /\ Len(buf) >= 2 /\ Len(buf) <= BufWords /\ Len(buf) <= PageWords
           /\ \A i \in 1 .. Len(buf) - 1 : buf[i] \in RecordWord
           /\ buf[Len(buf)] = SeqWord(q)
           /\ buf[1].id \in 0 .. MaxRecords
<1>1. PICK r : RecordIn(r) /\ buf = Append(r, SeqWord(q))
  BY DEF RecordIn, RecordAndSeqIn
<1>2. /\ r \in Seq(RecordWord) /\ Len(r) \in Nat
      /\ Len(r) >= 1 /\ Len(r) < BufWords /\ Len(r) < PageWords
      /\ \A i \in 1 .. Len(r) : r[i] \in RecordWord
      /\ r[1].id \in 0 .. MaxRecords
  BY <1>1, RecordIs
<1>3. r \in Seq(CleanWord) /\ SeqWord(q) \in CleanWord /\ BufWords \in Nat /\ PageWords \in Nat
  BY <1>2, Words, Lengths, Geometry
<1>4. buf \in Seq(CleanWord) /\ Len(buf) = Len(r) + 1 /\ buf[Len(buf)] = SeqWord(q)
      /\ \A i \in 1 .. Len(r) : buf[i] = r[i]
  BY <1>1, <1>3, <1>2
<1> QED BY <1>2, <1>3, <1>4

-----------------------------------------------------------------------------
(* Sequence records, and what programming and erasing do to them           *)

\* Erased words that become anything but a sequence record change no head.
LEMMA HeadsKept ==
    ASSUME NEW f \in [Addr -> CleanWord], NEW g \in [Addr -> CleanWord], Packed(f),
           \A a \in Addr : g[a] # f[a] => f[a] = Erased /\ g[a].kind # "seq"
    PROVE  /\ Heads(g) = Heads(f)
           /\ \A s \in Heads(f) : g[s] = f[s]
<1>1. ASSUME NEW s \in Heads(f) PROVE s \in Heads(g) /\ g[s] = f[s]
  <2>1. s \in Addr /\ SeqHere(f, s)
    BY DEF Heads
  <2>2. f[s] # Erased /\ g[s] = f[s]
    BY <2>1, Words DEF SeqHere
  <2>3. ASSUME NEW b \in Addr, PageOf(b) = PageOf(s), b < s
        PROVE  g[b].kind \notin {"seq", "erased"}
    BY <2>1, <2>3, Words DEF SeqHere
  <2> QED BY <2>1, <2>2, <2>3 DEF Heads, SeqHere
<1>2. ASSUME NEW s \in Heads(g) PROVE s \in Heads(f)
  <2>1. s \in Addr /\ SeqHere(g, s)
    BY DEF Heads
  <2>2. f[s] # Erased /\ g[s] = f[s]
    BY <2>1, Words DEF SeqHere
  <2>3. ASSUME NEW b \in Addr, PageOf(b) = PageOf(s), b < s
        PROVE  f[b].kind \notin {"seq", "erased"}
    <3>1. f[b] # Erased
      BY <2>1, <2>2, <2>3 DEF Packed
    <3> QED BY <2>1, <2>3, <3>1 DEF SeqHere
  <2> QED BY <2>1, <2>2, <2>3 DEF Heads, SeqHere
<1> QED BY <1>1, <1>2

\* A sequence record e behind records only is a head more.
LEMMA HeadsGrown ==
    ASSUME NEW f \in [Addr -> CleanWord], NEW g \in [Addr -> CleanWord], Packed(f),
           NEW e \in Addr, g[e].kind = "seq",
           \A b \in Addr : PageOf(b) = PageOf(e) /\ b < e => g[b] \in RecordWord,
           \A a \in Addr : g[a] # f[a] => f[a] = Erased /\ (a # e => g[a].kind # "seq")
    PROVE  /\ Heads(g) = Heads(f) \cup {e}
           /\ \A s \in Heads(f) : g[s] = f[s]
<1>1. ASSUME NEW s \in Heads(f) PROVE s \in Heads(g) /\ g[s] = f[s]
  <2>1. s \in Addr /\ SeqHere(f, s)
    BY DEF Heads
  <2>2. f[s] # Erased /\ g[s] = f[s]
    BY <2>1, Words DEF SeqHere
  <2>3. ASSUME NEW b \in Addr, PageOf(b) = PageOf(s), b < s
        PROVE  g[b].kind \notin {"seq", "erased"}
    BY <2>1, <2>3, Words DEF SeqHere
  <2> QED BY <2>1, <2>2, <2>3 DEF Heads, SeqHere
<1>2. ASSUME NEW s \in Heads(g), s # e PROVE s \in Heads(f)
  <2>1. s \in Addr /\ SeqHere(g, s)
    BY DEF Heads
  <2>2. f[s] # Erased /\ g[s] = f[s]
    BY <1>2, <2>1, Words DEF SeqHere
  <2>3. ASSUME NEW b \in Addr, PageOf(b) = PageOf(s), b < s
        PROVE  f[b].kind \notin {"seq", "erased"}
    <3>1. f[b] # Erased
      BY <2>1, <2>2, <2>3 DEF Packed
    <3> QED BY <2>1, <2>3, <3>1 DEF SeqHere
  <2> QED BY <2>1, <2>2, <2>3 DEF Heads, SeqHere
<1>3. e \in Heads(g)
  BY Words DEF Heads, SeqHere
<1> QED BY <1>1, <1>2, <1>3

\* An erased page loses its head; nothing else changes.
LEMMA EraseLands ==
    ASSUME NEW f \in [Addr -> CleanWord], Packed(f), NEW t \in Addr, NEW r, r.at = t
    PROVE  LET g == Flash!ErasedPage(f, r)
           IN  /\ g \in [Addr -> CleanWord] /\ Packed(g) /\ g[t] = Erased
               /\ \A a \in Addr : g[a] = IF PageOf(a) = PageOf(t) THEN Erased ELSE f[a]
               /\ Heads(g) = {s \in Heads(f) : PageOf(s) # PageOf(t)}
<1> DEFINE g == Flash!ErasedPage(f, r)
<1>1. g = [a \in Addr |-> IF PageOf(a) = PageOf(t) THEN Erased ELSE f[a]]
  BY DEF Flash!ErasedPage, PageOf
<1>2. /\ g \in [Addr -> CleanWord]
      /\ \A a \in Addr : g[a] = IF PageOf(a) = PageOf(t) THEN Erased ELSE f[a]
  BY <1>1, Words
<1> HIDE DEF g
<1>3. Packed(g)
  BY <1>2 DEF Packed
<1>4. ASSUME NEW s \in Addr PROVE s \in Heads(g) <=> s \in Heads(f) /\ PageOf(s) # PageOf(t)
  <2>1. CASE PageOf(s) = PageOf(t)
    <3>1. g[s].kind # "seq"
      BY <1>2, <2>1, Words
    <3> QED BY <2>1, <3>1 DEF Heads, SeqHere
  <2>2. CASE PageOf(s) # PageOf(t)
    <3>1. g[s] = f[s] /\ \A b \in Addr : PageOf(b) = PageOf(s) => g[b] = f[b]
      BY <1>2, <2>2
    <3> QED BY <2>2, <3>1 DEF Heads, SeqHere
  <2> QED BY <2>1, <2>2
<1>5. Heads(g) = {s \in Heads(f) : PageOf(s) # PageOf(t)}
  BY <1>4 DEF Heads
<1>6. g[t] = Erased
  BY <1>2
<1> QED BY <1>2, <1>3, <1>5, <1>6 DEF g

-----------------------------------------------------------------------------
(* What a restart finds                                                    *)

LEMMA LeastOf ==
    ASSUME NEW S \in SUBSET Nat, S # {}
    PROVE  \E x \in S : \A y \in S : x <= y
<1>1. PICK n \in S : \A m \in S : ~ (<<m, n>> \in OpToRel(<, Nat))
  BY NatLessThanWellFounded, WFMin
<1>2. \A m \in S : n <= m
  <2> TAKE m \in S
  <2>1. ~(m < n)
    BY <1>1 DEF OpToRel
  <2> QED BY <2>1
<1> QED BY <1>2

\* The word i of page p.
LEMMA WordIs ==
    ASSUME NEW f, NEW p \in 0 .. PageCount - 1, NEW i \in 0 .. PageWords - 1
    PROVE  /\ PageStart(p) \in Nat /\ PageStart(p) + i \in Addr
           /\ PageOf(PageStart(p) + i) = p
           /\ WordAt(f, p, i) = f[PageStart(p) + i]
<1>1. PageStart(p) \in Nat /\ PageStart(p) + PageWords <= StoreEnd
  BY PageInside
<1>2. PageWords \in Nat /\ PageCount \in Nat /\ StoreEnd \in Nat /\ Addr = 0 .. StoreEnd - 1
  BY Geometry
<1>3. PageStart(p) + i \in Addr /\ PageStart(p) + i \in Nat /\ p \in Nat
  BY <1>1, <1>2
<1>4. PageOf(PageStart(p) + i) = p
  BY <1>1, <1>2, <1>3, PageAt
<1>5. WordAt(f, p, i) = f[PageStart(p) + i]
  BY DEF WordAt, PageStart
<1> QED BY <1>1, <1>3, <1>4, <1>5

\* Every address is a word of its page.
LEMMA AddrIs ==
    ASSUME NEW a \in Addr
    PROVE  /\ PageOf(a) \in 0 .. PageCount - 1
           /\ a - PageStart(PageOf(a)) \in 0 .. PageWords - 1
           /\ PageStart(PageOf(a)) \in Nat /\ a \in Nat
           /\ PageStart(PageOf(a)) + (a - PageStart(PageOf(a))) = a
<1>1. a \in Nat /\ PageOf(a) \in 0 .. PageCount - 1
  BY PageInside
<1>2. /\ PageStart(PageOf(a)) \in Nat
      /\ PageStart(PageOf(a)) <= a /\ a < PageStart(PageOf(a)) + PageWords
  BY <1>1, PageSpan
<1>3. PageWords \in Nat
  BY Geometry
<1> QED BY <1>1, <1>2, <1>3

\* The scan of a page finds the page's head.
LEMMA SeqAtIs ==
    ASSUME NEW f, NEW p \in 0 .. PageCount - 1, NEW i \in 0 .. PageWords - 1
    PROVE  i \in SeqAt(f, p) <=> PageStart(p) + i \in Heads(f)
<1> DEFINE s == PageStart(p) + i
<1>1. s \in Addr /\ PageOf(s) = p /\ PageStart(p) \in Nat /\ WordAt(f, p, i) = f[s]
  BY WordIs
<1>2. i \in SeqAt(f, p) <=>
        f[s].kind = "seq" /\ \A j \in 0 .. i - 1 : WordAt(f, p, j).kind \notin {"seq", "erased"}
  BY <1>1 DEF SeqAt
<1>3. s \in Heads(f) <=> 
        /\ f[s].kind = "seq"
        /\ \A b \in Addr : PageOf(b) = PageOf(s) /\ b < s => f[b].kind \notin {"seq", "erased"}
  BY <1>1 DEF Heads, SeqHere
<1>4. (\A j \in 0 .. i - 1 : WordAt(f, p, j).kind \notin {"seq", "erased"}) <=>
      (\A b \in Addr : PageOf(b) = PageOf(s) /\ b < s => f[b].kind \notin {"seq", "erased"})
  <2>1. PageWords \in Nat
    BY Geometry
  <2>2. ASSUME NEW j \in 0 .. i - 1
        PROVE  /\ PageStart(p) + j \in Addr /\ PageOf(PageStart(p) + j) = PageOf(s)
               /\ PageStart(p) + j < s /\ WordAt(f, p, j) = f[PageStart(p) + j]
    <3>1. j \in 0 .. PageWords - 1
      BY <2>1
    <3>2. /\ PageStart(p) + j \in Addr /\ PageOf(PageStart(p) + j) = p
          /\ WordAt(f, p, j) = f[PageStart(p) + j]
      BY <3>1, WordIs
    <3> QED BY <1>1, <3>2
  <2>3. ASSUME NEW b \in Addr, PageOf(b) = PageOf(s), b < s
        PROVE  b - PageStart(p) \in 0 .. i - 1 /\ WordAt(f, p, b - PageStart(p)) = f[b]
    <3>1. /\ b - PageStart(p) \in 0 .. PageWords - 1 /\ b \in Nat
          /\ PageStart(p) + (b - PageStart(p)) = b
      BY <1>1, <2>3, AddrIs
    <3>2. WordAt(f, p, b - PageStart(p)) = f[PageStart(p) + (b - PageStart(p))]
      BY <3>1, WordIs
    <3>3. b - PageStart(p) \in 0 .. i - 1
      BY <1>1, <2>3, <3>1
    <3> QED BY <3>1, <3>2, <3>3
  <2> HIDE DEF s
  <2> QED BY <2>2, <2>3
<1> HIDE DEF s
<1>5. i \in SeqAt(f, p) <=> s \in Heads(f)
  BY <1>2, <1>3, <1>4
<1> QED BY <1>5 DEF s

LEMMA UsedIs ==
    ASSUME NEW f
    PROVE  UsedPages(f) = {[page |-> PageOf(s), seq |-> f[s].id] : s \in Heads(f)}
<1>1. ASSUME NEW u \in UsedPages(f)
      PROVE  \E s \in Heads(f) : u = [page |-> PageOf(s), seq |-> f[s].id]
  <2>1. PICK p \in 0 .. PageCount - 1 :
            u \in {[page |-> p, seq |-> WordAt(f, p, i).id] : i \in SeqAt(f, p)}
    BY DEF UsedPages
  <2>2. PICK i \in SeqAt(f, p) : u = [page |-> p, seq |-> WordAt(f, p, i).id]
    BY <2>1
  <2>3. i \in 0 .. PageWords - 1
    BY DEF SeqAt
  <2> QED BY <2>2, <2>3, SeqAtIs, WordIs
<1>2. ASSUME NEW s \in Heads(f)
      PROVE  [page |-> PageOf(s), seq |-> f[s].id] \in UsedPages(f)
  <2> DEFINE p == PageOf(s)
             i == s - PageStart(p)
  <2>1. s \in Addr
    BY DEF Heads
  <2>2. p \in 0 .. PageCount - 1 /\ i \in 0 .. PageWords - 1 /\ PageStart(p) + i = s
    BY <2>1, AddrIs
  <2> HIDE DEF i
  <2>3. i \in SeqAt(f, p) /\ WordAt(f, p, i) = f[s]
    BY <2>2, SeqAtIs, WordIs
  <2> QED BY <2>2, <2>3 DEF UsedPages
<1> QED BY <1>1, <1>2

LEMMA NewestIs ==
    ASSUME NEW f \in [Addr -> CleanWord], NEW s \in Addr, Leads(f, s)
    PROVE  UsedPages(f) # {} /\ Newest(UsedPages(f)) = [page |-> PageOf(s), seq |-> f[s].id]
<1> DEFINE n == [page |-> PageOf(s), seq |-> f[s].id]
           U == UsedPages(f)
<1>1. \A t \in Heads(f) : f[t].id \in Nat
  BY Words DEF Heads
<1>2. s \in Heads(f) /\ \A t \in Heads(f) \ {s} : f[t].id < f[s].id
  BY DEF Leads
<1>3. U = {[page |-> PageOf(t), seq |-> f[t].id] : t \in Heads(f)}
  BY UsedIs
<1>4. n \in U /\ \A v \in U : n.seq >= v.seq
  BY <1>1, <1>2, <1>3
<1>5. ASSUME NEW u \in U, \A v \in U : u.seq >= v.seq PROVE u = n
  <2>1. PICK t \in Heads(f) : u = [page |-> PageOf(t), seq |-> f[t].id]
    BY <1>3
  <2>2. f[t].id >= f[s].id
    BY <1>4, <1>5, <2>1
  <2>3. t = s
    BY <1>1, <1>2, <2>2
  <2> QED BY <2>1, <2>3
<1> HIDE DEF U, n
<1>6. Newest(U) = n
  BY <1>4, <1>5 DEF Newest
<1> QED BY <1>4, <1>6 DEF U, n

\* A start-up takes up the pointer and the sequence number of Stands.
LEMMA RestartFinds ==
    ASSUME NEW f \in [Addr -> CleanWord], NEW c, NEW q, Stands(f, c, q)
    PROVE  ReadWritePtr(f) = c /\ ReadSequence(f) = q
<1>1. CASE Heads(f) = {} /\ c = 0 /\ q = 0
  <2>1. UsedPages(f) = {}
    BY <1>1, UsedIs
  <2> QED BY <1>1, <2>1 DEF ReadWritePtr, ReadSequence
<1>2. CASE \E s \in Addr :
             /\ Leads(f, s) /\ f[s].id = q
             /\ c \in Nat /\ c - 1 \in Addr /\ PageOf(c - 1) = PageOf(s)
             /\ \A b \in Addr : PageOf(b) = PageOf(s) => (f[b] # Erased <=> b < c)
  <2>1. PICK s \in Addr :
             /\ Leads(f, s) /\ f[s].id = q
             /\ c \in Nat /\ c - 1 \in Addr /\ PageOf(c - 1) = PageOf(s)
             /\ \A b \in Addr : PageOf(b) = PageOf(s) => (f[b] # Erased <=> b < c)
    BY <1>2
  <2> DEFINE p == PageOf(s)
             I == {i \in 0 .. PageWords - 1 : WordAt(f, p, i).kind # "erased"}
             m == (c - 1) - PageStart(p)
  <2>2. UsedPages(f) # {} /\ Newest(UsedPages(f)).page = p /\ Newest(UsedPages(f)).seq = q
    BY <2>1, NewestIs
  <2>3. p \in 0 .. PageCount - 1 /\ m \in 0 .. PageWords - 1 /\ PageStart(p) \in Nat
        /\ PageStart(p) + m = c - 1
    BY <2>1, AddrIs
  <2>4. PageWords \in Nat
    BY Geometry
  <2>5. ASSUME NEW i \in 0 .. PageWords - 1 PROVE i \in I <=> i <= m
    <3>1. /\ PageStart(p) + i \in Addr /\ PageOf(PageStart(p) + i) = p
          /\ WordAt(f, p, i) = f[PageStart(p) + i]
      BY <2>3, WordIs
    <3>2. f[PageStart(p) + i] # Erased <=> PageStart(p) + i < c
      BY <2>1, <3>1
    <3>3. f[PageStart(p) + i] # Erased <=> WordAt(f, p, i).kind # "erased"
      BY <3>1, Words
    <3>4. PageStart(p) + i < c <=> i <= m
      BY <2>1, <2>3
    <3> QED BY <3>2, <3>3, <3>4
  <2> HIDE DEF m, p
  <2>6. m \in I /\ \A i \in I : m >= i /\ i \in Int
    BY <2>3, <2>4, <2>5
  <2>7. Max(I) = m
    <3> HIDE DEF I
    <3>1. ASSUME NEW x \in I, \A y \in I : x >= y PROVE x = m
      BY <2>3, <2>6, <3>1
    <3> QED BY <2>6, <3>1 DEF Max
  <2>8. (p * PageWords) + 1 + m = c
    BY <2>1, <2>3 DEF PageStart
  <2> QED BY <2>2, <2>7, <2>8 DEF ReadWritePtr, ReadSequence
<1> QED BY <1>1, <1>2 DEF Stands

LEMMA StandsType ==
    ASSUME NEW f \in [Addr -> CleanWord], NEW c, NEW q, Stands(f, c, q)
    PROVE  c \in 0 .. StoreEnd /\ q \in Nat
<1>1. StoreEnd \in Nat /\ Addr = 0 .. StoreEnd - 1
  BY Geometry
<1>2. CASE Heads(f) = {} /\ c = 0 /\ q = 0
  BY <1>1, <1>2
<1>3. CASE \E s \in Addr : Leads(f, s) /\ f[s].id = q /\ c \in Nat /\ c - 1 \in Addr
  BY <1>1, <1>3, Words
<1> QED BY <1>2, <1>3 DEF Stands

\* A packed flash with a newest page has a place to go on.
LEMMA Restarts ==
    ASSUME NEW f \in [Addr -> CleanWord], Packed(f), Recoverable(f)
    PROVE  \E c, q : Stands(f, c, q)
<1>1. CASE Heads(f) = {}
  BY <1>1 DEF Stands
<1>2. CASE \E s \in Addr : Leads(f, s)
  <2>1. PICK s \in Addr : Leads(f, s)
    BY <1>2
  <2> DEFINE p == PageOf(s)
             e == PageStart(p) + PageWords
             S == {n \in Nat : n > s /\ (n < e => f[n] = Erased)}
  <2>2. /\ p \in 0 .. PageCount - 1 /\ p \in Nat /\ PageStart(p) \in Nat
        /\ s \in Nat /\ PageWords \in Nat \ {0}
        /\ PageStart(p) <= s /\ s < e /\ e \in Nat /\ e <= StoreEnd
        /\ StoreEnd \in Nat /\ Addr = 0 .. StoreEnd - 1
    <3>1. PageWords \in Nat \ {0} /\ StoreEnd \in Nat /\ Addr = 0 .. StoreEnd - 1
          /\ PageCount \in Nat
      BY Geometry
    <3>2. p \in 0 .. PageCount - 1 /\ s \in Nat
      BY PageInside
    <3>3. PageStart(p) \in Nat /\ PageStart(p) + PageWords <= StoreEnd
      BY <3>2, PageInside
    <3>4. PageStart(p) <= s /\ s < PageStart(p) + PageWords
      BY <3>2, PageSpan
    <3> HIDE DEF p
    <3> QED BY <3>1, <3>2, <3>3, <3>4
  <2> HIDE DEF e
  <2>3. e \in S
    BY <2>2
  <2>4. PICK c \in S : \A n \in S : c <= n
    <3> HIDE DEF S
    <3>1. S \in SUBSET Nat
      BY DEF S
    <3> QED BY <2>3, <3>1, LeastOf
  <2>5. c \in Nat /\ c > s /\ c <= e /\ (c < e => f[c] = Erased)
    BY <2>3, <2>4
  <2>6. \A n \in Nat : s < n /\ n < c => f[n] # Erased
    BY <2>2, <2>4, <2>5
  <2> HIDE DEF S
  <2>7. c - 1 \in Addr /\ PageOf(c - 1) = p
    <3>1. c - 1 \in Nat /\ PageStart(p) <= c - 1 /\ c - 1 < PageStart(p) + PageWords
      BY <2>2, <2>5 DEF e
    <3>2. c - 1 \in Addr
      BY <2>2, <2>5, <3>1
    <3> HIDE DEF p
    <3> QED BY <2>2, <3>1, <3>2, PageAt
  <2>8. f[s] # Erased
    BY <2>1, Words DEF Leads, Heads, SeqHere
  <2>9. ASSUME NEW b \in Addr, PageOf(b) = p PROVE f[b] # Erased <=> b < c
    <3>1. b \in Nat /\ b < e /\ PageStart(p) <= b
      <4>1. b \in Nat
        BY <2>2
      <4>2. PageStart(PageOf(b)) <= b /\ b < PageStart(PageOf(b)) + PageWords
        BY <4>1, PageSpan
      <4> QED BY <2>9, <4>1, <4>2 DEF e
    <3>2. CASE b < s
      BY <2>2, <2>5, <2>8, <2>9, <3>1, <3>2 DEF Packed
    <3>3. CASE b = s
      BY <2>5, <2>8, <3>3
    <3>4. CASE s < b /\ b < c
      BY <2>6, <3>1, <3>4
    <3>5. CASE c = b
      BY <2>5, <3>1, <3>5
    <3>6. CASE c < b
      <4>1. c < e /\ c \in Addr
        BY <2>2, <2>5, <3>1, <3>6
      <4>2. PageOf(c) = p
        BY <2>2, <2>5, <4>1, PageAt DEF e
      <4> QED BY <2>5, <2>9, <3>6, <4>1, <4>2 DEF Packed
    <3> QED BY <2>2, <2>5, <3>1, <3>2, <3>3, <3>4, <3>5, <3>6
  <2> HIDE DEF p
  <2>10. Stands(f, c, f[s].id)
    BY <2>1, <2>5, <2>7, <2>9 DEF Stands, p
  <2> QED BY <2>10
<1> QED BY <1>1, <1>2 DEF Recoverable

LEMMA StandsRecoverable ==
    ASSUME NEW f, NEW c, NEW q, Stands(f, c, q)
    PROVE  Recoverable(f)
BY DEF Stands, Recoverable

\* Erasing another page than the one in use moves nothing.
LEMMA EraseStands ==
    ASSUME NEW f \in [Addr -> CleanWord], Packed(f), NEW c, NEW q, Stands(f, c, q),
           NEW t \in Addr, Heads(f) = {} \/ PageOf(t) # PageOf(c - 1), NEW r, r.at = t
    PROVE  LET g == Flash!ErasedPage(f, r)
           IN  /\ g \in [Addr -> CleanWord] /\ Packed(g) /\ Recoverable(g)
               /\ g[t] = Erased /\ Stands(g, c, q)
<1> DEFINE g == Flash!ErasedPage(f, r)
<1>1. /\ g \in [Addr -> CleanWord] /\ Packed(g) /\ g[t] = Erased
      /\ \A a \in Addr : g[a] = IF PageOf(a) = PageOf(t) THEN Erased ELSE f[a]
      /\ Heads(g) = {s \in Heads(f) : PageOf(s) # PageOf(t)}
  BY EraseLands
<1> HIDE DEF g
<1>2. Stands(g, c, q)
  <2>1. CASE Heads(f) = {} /\ c = 0 /\ q = 0
    BY <1>1, <2>1 DEF Stands
  <2>2. ASSUME NEW s \in Addr,
             Leads(f, s), f[s].id = q,
             c \in Nat, c - 1 \in Addr, PageOf(c - 1) = PageOf(s),
             \A b \in Addr : PageOf(b) = PageOf(s) => (f[b] # Erased <=> b < c)
        PROVE Stands(g, c, q)
    <3>1. PageOf(s) # PageOf(t)
      BY <2>2 DEF Leads
    <3>2. \A b \in Addr : PageOf(b) = PageOf(s) => g[b] = f[b]
      BY <1>1, <3>1
    <3>3. \A u \in Heads(g) : u \in Addr /\ g[u] = f[u] /\ u \in Heads(f)
      BY <1>1 DEF Heads
    <3>4. Leads(g, s)
      BY <1>1, <2>2, <3>1, <3>2, <3>3 DEF Leads
    <3> QED BY <2>2, <3>2, <3>4 DEF Stands
  <2> QED BY <2>1, <2>2 DEF Stands
<1> QED BY <1>1, <1>2, StandsRecoverable DEF g

-----------------------------------------------------------------------------
(* A write, from its first word to its last                                *)

\* The words of a packed buffer.
LEMMA BufferIs ==
    ASSUME NEW f, NEW c, NEW buf, NEW q \in Nat,
           WritesOn(f, c, buf, q) \/ WritesNewPage(f, c, buf, q)
    PROVE  /\ buf \in Seq(CleanWord) /\ Len(buf) \in Nat /\ buf # <<>>
           /\ Len(buf) >= 1 /\ Len(buf) <= BufWords
           /\ \A i \in 1 .. Len(buf) : buf[i] \in CleanWord /\ buf[i] # Erased
           /\ \A i \in 1 .. Len(buf) - 1 : buf[i] \in RecordWord
           /\ WritesOn(f, c, buf, q) => buf[Len(buf)] \in RecordWord
           /\ WritesNewPage(f, c, buf, q) => buf[Len(buf)] = SeqWord(q)
           /\ buf[1].id \in 0 .. MaxRecords
<1>1. CASE RecordIn(buf)
  <2>1. /\ buf \in Seq(RecordWord) /\ Len(buf) \in Nat /\ buf # <<>>
        /\ Len(buf) >= 1 /\ Len(buf) < BufWords
        /\ \A i \in 1 .. Len(buf) : buf[i] \in RecordWord
        /\ buf[1].id \in 0 .. MaxRecords
    BY <1>1, RecordIs
  <2>2. buf \in Seq(CleanWord) /\ BufWords \in Nat
    BY <2>1, Words, Lengths
  <2>3. \A i \in 1 .. Len(buf) : buf[i] \in CleanWord /\ buf[i] # Erased
    BY <2>1, Words
  <2>4. ~RecordAndSeqIn(buf, q)
    <3> SUFFICES ASSUME RecordAndSeqIn(buf, q) PROVE FALSE
      OBVIOUS
    <3>1. buf[Len(buf)] = SeqWord(q)
      BY RecordAndSeqIs
    <3>2. buf[Len(buf)] \in RecordWord
      BY <2>1
    <3> QED BY <3>1, <3>2, Words
  <2> QED BY <2>1, <2>2, <2>3, <2>4 DEF WritesNewPage
<1>2. CASE RecordAndSeqIn(buf, q)
  <2>1. /\ buf \in Seq(CleanWord) /\ Len(buf) \in Nat /\ buf # <<>>
        /\ Len(buf) >= 2 /\ Len(buf) <= BufWords
        /\ \A i \in 1 .. Len(buf) - 1 : buf[i] \in RecordWord
        /\ buf[Len(buf)] = SeqWord(q)
        /\ buf[1].id \in 0 .. MaxRecords
    BY <1>2, RecordAndSeqIs
  <2>2. ASSUME NEW i \in 1 .. Len(buf) PROVE buf[i] \in CleanWord /\ buf[i] # Erased
    <3>1. CASE i = Len(buf)
      BY <2>1, <3>1, Words
    <3>2. CASE i # Len(buf)
      <4>1. i \in 1 .. Len(buf) - 1
        BY <2>1, <3>2
      <4> QED BY <2>1, <4>1, Words
    <3> QED BY <3>1, <3>2
  <2>3. ~RecordIn(buf)
    <3> SUFFICES ASSUME RecordIn(buf) PROVE FALSE
      OBVIOUS
    <3>1. \A i \in 1 .. Len(buf) : buf[i] \in RecordWord
      BY RecordIs
    <3>2. Len(buf) \in 1 .. Len(buf)
      BY <2>1
    <3>3. buf[Len(buf)] \in RecordWord
      BY <3>1, <3>2
    <3> QED BY <2>1, <3>3, Words
  <2> QED BY <2>1, <2>2, <2>3 DEF WritesOn
<1> QED BY <1>1, <1>2 DEF WritesOn, WritesNewPage

\* Words of the burst that land, for the first time or again, take the write
\* on; the flash stays packed and keeps a newest page throughout.
LEMMA WriteLands ==
    ASSUME NEW f \in [Addr -> CleanWord], Packed(f), Recoverable(f),
           NEW c, NEW buf, NEW q \in Nat, NEW j \in 0 .. Len(buf), Halfway(f, c, buf, q, j),
           NEW k \in 0 .. Len(buf), NEW r, r.at = c, r.words = buf
    PROVE  LET g == Flash!Written(f, r, k)
           IN  /\ g \in [Addr -> CleanWord] /\ Packed(g) /\ Recoverable(g)
               /\ Programs(f, g, c, buf)
               /\ \E m \in 0 .. Len(buf) : m >= k /\ m >= j /\ Halfway(g, c, buf, q, m)
<1> DEFINE g == Flash!Written(f, r, k)
           n == Len(buf)
           e == c + n - 1
<1>1. /\ c \in Nat /\ e \in Addr /\ Landed(f, c, buf, j)
      /\ \A b \in Addr : PageOf(b) = PageOf(c) /\ b < c => f[b] # Erased
      /\ \A b \in Addr : PageOf(b) = PageOf(e) /\ b > e => f[b] = Erased
      /\ WritesOn(f, c, buf, q) \/ WritesNewPage(f, c, buf, q)
  BY DEF Halfway
<1>2. /\ n \in Nat /\ n >= 1
      /\ \A i \in 1 .. n : buf[i] \in CleanWord /\ buf[i] # Erased
      /\ \A i \in 1 .. n - 1 : buf[i] \in RecordWord
      /\ WritesOn(f, c, buf, q) => buf[n] \in RecordWord
      /\ WritesNewPage(f, c, buf, q) => buf[n] = SeqWord(q)
  BY <1>1, BufferIs
<1>3. PICK m \in 0 .. n : m >= k /\ m >= j /\ (m = k \/ m = j)
  <2>1. CASE k >= j
    BY <2>1, <1>2
  <2>2. CASE ~(k >= j)
    BY <2>2, <1>2
  <2> QED BY <2>1, <2>2
<1>4. StoreEnd \in Nat /\ Addr = 0 .. StoreEnd - 1 /\ e \in Nat
  BY <1>1, Geometry
<1>5. \A a \in Addr : a - c \in 0 .. n - 1 =>
          /\ a - c + 1 \in 1 .. n /\ c + (a - c + 1) - 1 = a
          /\ f[a] = IF a - c + 1 <= j THEN buf[a - c + 1] ELSE Erased
  <2> SUFFICES ASSUME NEW a \in Addr, a - c \in 0 .. n - 1
               PROVE  /\ a - c + 1 \in 1 .. n /\ c + (a - c + 1) - 1 = a
                      /\ f[a] = IF a - c + 1 <= j THEN buf[a - c + 1] ELSE Erased
    OBVIOUS
  <2>1. a - c + 1 \in 1 .. n /\ c + (a - c + 1) - 1 = a
    BY <1>1, <1>2, <1>4
  <2>2. f[c + (a - c + 1) - 1] = IF a - c + 1 <= j THEN buf[a - c + 1] ELSE Erased
    BY <1>1, <2>1 DEF Landed
  <2> QED BY <2>1, <2>2
<1>6. ASSUME NEW a \in Addr
      PROVE  g[a] = IF a - c \in 0 .. m - 1 THEN buf[a - c + 1] ELSE f[a]
  <2>1. g[a] = IF a - c \in 0 .. k - 1 THEN Flash!Program(f[a], buf[a - c + 1]) ELSE f[a]
    BY DEF Flash!Written
  <2> HIDE DEF g
  <2>2. CASE a - c \in 0 .. k - 1
    <3>1. a - c \in 0 .. n - 1 /\ a - c \in 0 .. m - 1
      BY <1>2, <1>3, <2>2
    <3>2. f[a] = Erased \/ f[a] = buf[a - c + 1]
      BY <1>5, <3>1
    <3>3. Flash!Program(f[a], buf[a - c + 1]) = buf[a - c + 1]
      BY <3>2 DEF Flash!Program
    <3> QED BY <2>1, <2>2, <3>1, <3>3
  <2>3. CASE a - c \notin 0 .. k - 1 /\ a - c \in 0 .. m - 1
    <3>1. a - c \in 0 .. n - 1 /\ a - c + 1 <= j
      BY <1>1, <1>2, <1>3, <1>4, <2>3
    <3> QED BY <1>5, <2>1, <2>3, <3>1
  <2>4. CASE a - c \notin 0 .. m - 1
    <3>1. a - c \notin 0 .. k - 1
      BY <1>3, <2>4
    <3> QED BY <2>1, <2>4, <3>1
  <2> QED BY <2>2, <2>3, <2>4
<1>7. g \in [Addr -> CleanWord]
  <2>1. g = [a \in Addr |-> g[a]]
    BY DEF Flash!Written
  <2>2. \A a \in Addr : g[a] \in CleanWord
    <3> HIDE DEF g
    <3> SUFFICES ASSUME NEW a \in Addr PROVE g[a] \in CleanWord
      OBVIOUS
    <3>1. CASE a - c \in 0 .. m - 1
      <4>1. a - c \in 0 .. n - 1
        BY <1>2, <1>3, <3>1
      <4>2. a - c + 1 \in 1 .. n
        BY <1>5, <4>1
      <4> QED BY <1>2, <1>6, <3>1, <4>2
    <3>2. CASE a - c \notin 0 .. m - 1
      BY <1>6, <3>2
    <3> QED BY <3>1, <3>2
  <2> HIDE DEF g
  <2> QED BY <2>1, <2>2
<1> HIDE DEF g
<1>8. ASSUME NEW a \in Addr, g[a] # f[a]
      PROVE  /\ f[a] = Erased /\ a - c \in 0 .. m - 1 /\ a - c + 1 \in 1 .. n
             /\ g[a] = buf[a - c + 1] /\ a - c + 1 <= m
  <2>1. a - c \in 0 .. m - 1 /\ g[a] = buf[a - c + 1]
    BY <1>6, <1>8
  <2>2. a - c \in 0 .. n - 1
    BY <1>2, <1>3, <2>1
  <2>3. a - c + 1 \in 1 .. n /\ f[a] = IF a - c + 1 <= j THEN buf[a - c + 1] ELSE Erased
    BY <1>5, <2>2
  <2>4. f[a] = Erased
    BY <1>8, <2>1, <2>3
  <2>5. a - c + 1 <= m
    BY <2>1, <1>1, <1>4
  <2> QED BY <2>1, <2>3, <2>4, <2>5
<1>9. ASSUME NEW a \in Addr, g[a] = Erased PROVE f[a] = Erased /\ a - c \notin 0 .. m - 1
  <2>1. a - c \notin 0 .. m - 1
    <3> SUFFICES ASSUME a - c \in 0 .. m - 1 PROVE FALSE
      OBVIOUS
    <3>1. a - c \in 0 .. n - 1
      BY <1>2, <1>3
    <3>2. a - c + 1 \in 1 .. n
      BY <1>5, <3>1
    <3> QED BY <1>2, <1>6, <1>9, <3>2
  <2> QED BY <1>6, <1>9, <2>1
<1>10. Packed(g)
  <2> SUFFICES ASSUME NEW a \in Addr, NEW b \in Addr,
                      PageOf(a) = PageOf(b), a < b, g[a] = Erased
               PROVE  g[b] = Erased
    BY DEF Packed
  <2>1. f[a] = Erased /\ a - c \notin 0 .. m - 1
    BY <1>9
  <2>2. f[b] = Erased
    BY <2>1 DEF Packed
  <2>3. CASE b - c \in 0 .. m - 1
    <3>1. a < c /\ c <= b /\ a \in Nat /\ b \in Nat
      BY <1>1, <1>3, <1>4, <2>1, <2>3
    <3>2. PageOf(a) <= PageOf(c) /\ PageOf(c) <= PageOf(b)
      BY <1>1, <3>1, PageMono
    <3>3. PageOf(a) = PageOf(c)
      <4>1. PageOf(a) \in Nat /\ PageOf(c) \in Nat
        BY <1>1, <3>1, PageSpan
      <4> QED BY <3>2, <4>1
    <3> QED BY <1>1, <2>1, <3>1, <3>3
  <2>4. CASE b - c \notin 0 .. m - 1
    BY <1>6, <2>2, <2>4
  <2> QED BY <2>3, <2>4
<1>11. Landed(g, c, buf, m)
  <2> SUFFICES ASSUME NEW i \in 1 .. n
               PROVE  g[c + i - 1] = IF i <= m THEN buf[i] ELSE Erased
    BY DEF Landed
  <2>1. /\ c + i - 1 \in Addr /\ (c + i - 1) - c = i - 1 /\ (c + i - 1) - c + 1 = i
        /\ (i - 1 \in 0 .. m - 1 <=> i <= m) /\ i - 1 \in 0 .. n - 1
    BY <1>1, <1>2, <1>3, <1>4
  <2>2. g[c + i - 1] = IF i - 1 \in 0 .. m - 1 THEN buf[i] ELSE f[c + i - 1]
    BY <1>6, <2>1
  <2>3. f[c + i - 1] = IF i <= j THEN buf[i] ELSE Erased
    BY <1>1 DEF Landed
  <2>4. i > m => ~(i <= j)
    BY <1>2, <1>3
  <2> QED BY <1>2, <1>3, <2>1, <2>2, <2>3, <2>4
<1>12. \A b \in Addr : PageOf(b) = PageOf(c) /\ b < c => g[b] # Erased
  BY <1>1, <1>9
<1>13. \A b \in Addr : PageOf(b) = PageOf(e) /\ b > e => g[b] = Erased
  <2> SUFFICES ASSUME NEW b \in Addr, PageOf(b) = PageOf(e), b > e PROVE g[b] = Erased
    OBVIOUS
  <2>1. b - c \notin 0 .. m - 1
    BY <1>1, <1>2, <1>3, <1>4
  <2> QED BY <1>1, <1>6, <2>1
<1>14. Programs(f, g, c, buf)
  <2> SUFFICES ASSUME NEW a \in Addr, g[a] # f[a]
               PROVE  f[a] = Erased /\ a - c \in 0 .. n - 1 /\ g[a] = buf[a - c + 1]
    BY DEF Programs
  <2>1. f[a] = Erased /\ a - c \in 0 .. m - 1 /\ g[a] = buf[a - c + 1]
    BY <1>8
  <2>2. a - c \in 0 .. n - 1
    BY <1>2, <1>3, <2>1
  <2> QED BY <2>1, <2>2
<1>15. CASE WritesOn(f, c, buf, q)
  <2>1. \A a \in Addr : g[a] # f[a] => f[a] = Erased /\ g[a].kind # "seq"
    <3> SUFFICES ASSUME NEW a \in Addr, g[a] # f[a] PROVE f[a] = Erased /\ g[a].kind # "seq"
      OBVIOUS
    <3>1. f[a] = Erased /\ a - c + 1 \in 1 .. n /\ g[a] = buf[a - c + 1]
      BY <1>8
    <3>2. \A i \in 1 .. n : buf[i] \in RecordWord
      BY <1>2, <1>15
    <3> QED BY <3>1, <3>2, Words
  <2>2. Heads(g) = Heads(f) /\ \A s \in Heads(f) : g[s] = f[s]
    BY <1>7, <2>1, HeadsKept
  <2>3. \A s \in Addr : Leads(f, s) => Leads(g, s) /\ g[s] = f[s]
    BY <2>2 DEF Leads
  <2>4. WritesOn(g, c, buf, q)
    BY <1>15, <2>3 DEF WritesOn
  <2>5. Recoverable(g)
    BY <1>15, <2>3 DEF WritesOn, Recoverable
  <2>6. Halfway(g, c, buf, q, m)
    BY <1>1, <1>11, <1>12, <1>13, <2>4 DEF Halfway
  <2> QED BY <1>3, <1>7, <1>10, <1>14, <2>5, <2>6 DEF g
<1>16. CASE WritesNewPage(f, c, buf, q)
  <2>1. /\ RecordAndSeqIn(buf, q)
        /\ \A t \in Heads(f) \ {e} : f[t].id < q /\ PageOf(t) # PageOf(e)
        /\ \A b \in Addr : PageOf(b) = PageOf(e) /\ b < e => b >= c
    BY <1>16 DEF WritesNewPage
  <2>2. ASSUME NEW i \in 1 .. n, i # n PROVE buf[i] \in RecordWord
    BY <1>2, <2>2
  <2>3. Recoverable(g) /\ Heads(g) \subseteq Heads(f) \cup {e} /\ \A t \in Heads(f) : g[t] = f[t]
    <3>1. CASE j = n
      <4>1. g = f
        <5>1. \A a \in Addr : g[a] = f[a]
          <6> SUFFICES ASSUME NEW a \in Addr, g[a] # f[a] PROVE FALSE
            OBVIOUS
          <6>1. f[a] = Erased /\ a - c + 1 \in 1 .. n
            BY <1>8
          <6>2. c + (a - c + 1) - 1 = a
            BY <1>1, <1>4
          <6>3. f[c + (a - c + 1) - 1] = buf[a - c + 1]
            BY <1>1, <1>2, <3>1, <6>1 DEF Landed
          <6> QED BY <1>2, <6>1, <6>2, <6>3
        <5> QED BY <1>7, <5>1
      <4> QED BY <4>1
    <3>2. CASE m # n
      <4>1. \A a \in Addr : g[a] # f[a] => f[a] = Erased /\ g[a].kind # "seq"
        <5> SUFFICES ASSUME NEW a \in Addr, g[a] # f[a] PROVE f[a] = Erased /\ g[a].kind # "seq"
          OBVIOUS
        <5>1. f[a] = Erased /\ a - c + 1 \in 1 .. n /\ g[a] = buf[a - c + 1] /\ a - c + 1 <= m
          BY <1>8
        <5>2. a - c + 1 # n
          BY <1>2, <1>3, <3>2, <5>1
        <5> QED BY <2>2, <5>1, <5>2, Words
      <4>2. Heads(g) = Heads(f) /\ \A s \in Heads(f) : g[s] = f[s]
        BY <1>7, <4>1, HeadsKept
      <4>3. Recoverable(g)
        BY <4>2 DEF Recoverable, Leads
      <4> QED BY <4>2, <4>3
    <3>3. CASE m = n /\ j # n
      <4>1. n \in 1 .. n /\ c + n - 1 = e /\ ~(n <= j)
        BY <1>2, <3>3
      <4>2. g[e] = SeqWord(q) /\ f[e] = Erased
        BY <1>1, <1>2, <1>11, <1>16, <3>3, <4>1 DEF Landed
      <4>3. g[e].kind = "seq" /\ g[e].id = q
        BY <4>2, Words
      <4>4. ASSUME NEW b \in Addr, PageOf(b) = PageOf(e), b < e PROVE g[b] \in RecordWord
        <5>1. b >= c
          BY <2>1, <4>4
        <5>2. b - c \in 0 .. m - 1 /\ b - c + 1 \in 1 .. n - 1
          BY <1>1, <1>2, <1>4, <3>3, <4>4, <5>1
        <5> QED BY <1>2, <1>6, <5>2
      <4>5. \A a \in Addr : g[a] # f[a] => f[a] = Erased /\ (a # e => g[a].kind # "seq")
        <5> SUFFICES ASSUME NEW a \in Addr, g[a] # f[a]
                     PROVE  f[a] = Erased /\ (a # e => g[a].kind # "seq")
          OBVIOUS
        <5>1. f[a] = Erased /\ a - c + 1 \in 1 .. n /\ g[a] = buf[a - c + 1]
          BY <1>8
        <5>2. a # e => a - c + 1 # n
          BY <1>1, <1>2, <1>4
        <5> QED BY <2>2, <5>1, <5>2, Words
      <4>6. Heads(g) = Heads(f) \cup {e} /\ \A s \in Heads(f) : g[s] = f[s]
        BY <1>1, <1>7, <4>3, <4>4, <4>5, HeadsGrown
      <4>7. Leads(g, e)
        BY <2>1, <4>3, <4>6 DEF Leads
      <4> QED BY <1>1, <4>6, <4>7 DEF Recoverable
    <3> QED BY <3>1, <3>2, <3>3
  <2>4. WritesNewPage(g, c, buf, q)
    BY <2>1, <2>3 DEF WritesNewPage
  <2>5. Halfway(g, c, buf, q, m)
    BY <1>1, <1>11, <1>12, <1>13, <2>4 DEF Halfway
  <2> QED BY <1>3, <1>7, <1>10, <1>14, <2>3, <2>5 DEF g
<1> QED BY <1>1, <1>15, <1>16

\* A whole record in the flash is where the next one goes on.
LEMMA WriteDone ==
    ASSUME NEW f \in [Addr -> CleanWord], NEW c, NEW buf, NEW q \in Nat,
           Halfway(f, c, buf, q, Len(buf))
    PROVE  Stands(f, c + Len(buf), q) /\ f[c] # Erased
<1> DEFINE n == Len(buf)
           e == c + n - 1
<1>1. /\ c \in Nat /\ e \in Addr /\ Landed(f, c, buf, n)
      /\ \A b \in Addr : PageOf(b) = PageOf(c) /\ b < c => f[b] # Erased
      /\ \A b \in Addr : PageOf(b) = PageOf(e) /\ b > e => f[b] = Erased
      /\ WritesOn(f, c, buf, q) \/ WritesNewPage(f, c, buf, q)
  BY DEF Halfway
<1>2. /\ n \in Nat /\ n >= 1
      /\ \A i \in 1 .. n : buf[i] # Erased
      /\ \A i \in 1 .. n - 1 : buf[i] \in RecordWord
      /\ WritesNewPage(f, c, buf, q) => buf[n] = SeqWord(q)
  BY <1>1, BufferIs
<1>3. StoreEnd \in Nat /\ Addr = 0 .. StoreEnd - 1 /\ e \in Nat
  BY <1>1, Geometry
<1>4. ASSUME NEW b \in Addr, c <= b, b <= e
      PROVE  /\ b - c + 1 \in 1 .. n /\ f[b] = buf[b - c + 1] /\ f[b] # Erased
             /\ b # e => f[b] \in RecordWord
  <2>0. b \in Int /\ c \in Int /\ n \in Int
    BY <1>1, <1>2, <1>3
  <2>1. b - c + 1 \in 1 .. n /\ c + (b - c + 1) - 1 = b /\ b - c + 1 <= n
        /\ (b # e => b - c + 1 \in 1 .. n - 1)
    BY <1>4, <2>0
  <2>2. f[c + (b - c + 1) - 1] = buf[b - c + 1]
    BY <1>1, <2>1 DEF Landed
  <2> QED BY <1>2, <2>1, <2>2
<1>5. c <= e /\ c \in Addr
  BY <1>1, <1>2, <1>3
<1>6. f[c] # Erased
  BY <1>4, <1>5
<1>7. (c + n) \in Nat /\ (c + n) - 1 = e /\ \A b \in Addr : (b < c + n <=> b <= e)
  BY <1>1, <1>2, <1>3
<1>8. CASE WritesOn(f, c, buf, q)
  <2>1. PageOf(c) = PageOf(e)
    BY <1>8 DEF WritesOn
  <2>2. PICK s \in Addr : Leads(f, s) /\ f[s].id = q /\ PageOf(s) = PageOf(c)
    BY <1>8 DEF WritesOn
  <2>3. ASSUME NEW b \in Addr, PageOf(b) = PageOf(s) PROVE f[b] # Erased <=> b < c + n
    <3>1. CASE b < c
      BY <1>1, <1>3, <1>5, <1>7, <2>2, <2>3, <3>1
    <3>2. CASE c <= b /\ b <= e
      BY <1>4, <1>7, <3>2
    <3>3. CASE b > e
      BY <1>1, <1>3, <1>7, <2>1, <2>2, <2>3, <3>3
    <3> QED BY <1>1, <1>3, <3>1, <3>2, <3>3
  <2> HIDE DEF n, e
  <2>4. Stands(f, c + n, q)
    BY <1>1, <1>7, <2>1, <2>2, <2>3 DEF Stands
  <2> QED BY <1>6, <2>4 DEF n
<1>9. CASE WritesNewPage(f, c, buf, q)
  <2>1. /\ \A t \in Heads(f) \ {e} : f[t].id < q
        /\ \A b \in Addr : PageOf(b) = PageOf(e) /\ b < e => b >= c
    BY <1>9 DEF WritesNewPage
  <2>2. f[e] = SeqWord(q)
    <3>1. f[e] = buf[e - c + 1]
      BY <1>1, <1>3, <1>4, <1>5
    <3>2. e - c + 1 = n
      BY <1>1, <1>2
    <3> QED BY <1>2, <1>9, <3>1, <3>2
  <2>3. f[e].kind = "seq" /\ f[e].id = q
    BY <2>2, Words
  <2>4. \A b \in Addr : PageOf(b) = PageOf(e) /\ b < e => f[b] \in RecordWord
    BY <1>3, <1>4, <2>1
  <2>5. e \in Heads(f)
    BY <1>1, <2>3, <2>4, Words DEF Heads, SeqHere
  <2>6. Leads(f, e)
    BY <2>1, <2>3, <2>5 DEF Leads
  <2>7. ASSUME NEW b \in Addr, PageOf(b) = PageOf(e) PROVE f[b] # Erased <=> b < c + n
    <3>1. CASE b < e
      BY <1>3, <1>4, <1>7, <2>1, <2>7, <3>1
    <3>2. CASE b = e
      BY <1>4, <1>5, <1>7, <3>2
    <3>3. CASE b > e
      BY <1>1, <1>3, <1>7, <2>7, <3>3
    <3> QED BY <1>3, <3>1, <3>2, <3>3
  <2> HIDE DEF n, e
  <2>8. Stands(f, c + n, q)
    BY <1>1, <1>7, <2>3, <2>6, <2>7 DEF Stands
  <2> QED BY <1>6, <2>8 DEF n
<1> QED BY <1>1, <1>8, <1>9

\* A record that fits behind the pointer.
LEMMA BeginsHere ==
    ASSUME NEW f \in [Addr -> CleanWord], NEW q, Stands(f, currentWrite, q),
           NEW buf, RecordIn(buf), ~(Len(buf) > Remain)
    PROVE  f[currentWrite] = Erased /\ Halfway(f, currentWrite, buf, q, 0)
<1> DEFINE c == currentWrite
           n == Len(buf)
           e == c + n - 1
<1>1. n \in Nat /\ n >= 1
  BY RecordIs
<1>2. Remain # 0
  <2>1. Remain = 0 => FALSE
    BY <1>1
  <2> QED BY <2>1
<1>3. PICK s \in Addr :
          /\ Leads(f, s) /\ f[s].id = q
          /\ c \in Nat /\ c - 1 \in Addr /\ PageOf(c - 1) = PageOf(s)
          /\ \A b \in Addr : PageOf(b) = PageOf(s) => (f[b] # Erased <=> b < c)
  <2>1. c # 0
    <3>1. 0 % PageWords = 0
      <4>1. PageOf(0) = 0 /\ PageStart(0) = 0
        BY Geometry, PageAt
      <4>2. 0 % PageWords = 0 - PageStart(PageOf(0))
        BY PageSpan
      <4> QED BY <4>1, <4>2
    <3> QED BY <1>2, <3>1 DEF Remain
  <2> QED BY <2>1 DEF Stands
<1> DEFINE p == PageOf(c - 1)
           z == PageStart(p) + PageWords
<1>4. /\ p \in 0 .. PageCount - 1 /\ PageStart(p) \in Nat /\ z \in Nat
      /\ PageStart(p) < c /\ c <= z /\ z <= StoreEnd
      /\ Remain = z - c /\ c \in Addr /\ PageOf(c) = p
  BY <1>2, <1>3, PageTurn
<1>5. StoreEnd \in Nat /\ Addr = 0 .. StoreEnd - 1 /\ c \in Nat /\ p \in Nat
  BY <1>3, <1>4, Geometry
<1> HIDE DEF p, c
<1>6. e \in Nat /\ c <= e /\ e < z /\ e \in Addr
  BY <1>1, <1>4, <1>5 DEF c
<1>7. PageOf(e) = p
  BY <1>4, <1>5, <1>6, PageAt
<1>8. PageOf(s) = p
  BY <1>3 DEF c, p
<1>9. \A b \in Addr : PageOf(b) = p => (f[b] # Erased <=> b < c)
  BY <1>3, <1>8 DEF c
<1>10. Landed(f, c, buf, 0)
  <2> SUFFICES ASSUME NEW i \in 1 .. n PROVE f[c + i - 1] = Erased
    BY <1>1 DEF Landed
  <2>1. c + i - 1 \in Addr /\ c + i - 1 >= c /\ c + i - 1 < z /\ c + i - 1 \in Nat
        /\ PageStart(p) <= c + i - 1
    BY <1>1, <1>4, <1>5, <1>6
  <2>2. PageOf(c + i - 1) = p
    BY <1>5, <2>1, PageAt
  <2>3. ~(c + i - 1 < c)
    BY <1>5
  <2> QED BY <1>9, <2>1, <2>2, <2>3
<1>11. f[c] = Erased
  BY <1>4, <1>5, <1>9
<1>12. s < c
  <2>1. f[s] # Erased
    BY <1>3, Words DEF Leads, Heads, SeqHere
  <2> QED BY <1>8, <1>9, <2>1
<1>13. WritesOn(f, c, buf, q)
  BY <1>3, <1>4, <1>7, <1>8, <1>12 DEF WritesOn
<1>14. \A b \in Addr : PageOf(b) = PageOf(e) /\ b > e => f[b] = Erased
  BY <1>5, <1>6, <1>7, <1>9
<1>15. Halfway(f, c, buf, q, 0)
  BY <1>4, <1>5, <1>6, <1>9, <1>10, <1>13, <1>14 DEF Halfway
<1> QED BY <1>11, <1>15 DEF c

\* A record that does not, once the next page is free.
LEMMA BeginsNewPage ==
    ASSUME NEW f \in [Addr -> CleanWord], Packed(f),
           NEW q \in Nat, Stands(f, currentWrite, q),
           NEW rec, RecordIn(rec), Len(rec) > Remain, f[NextPage] = Erased,
           NEW c, c = IF currentWrite > NextPage THEN NextPage ELSE currentWrite
    PROVE  /\ f[c] = Erased /\ Halfway(f, c, Append(rec, SeqWord(q + 1)), q + 1, 0)
           /\ PageOf(c + Len(rec)) = PageOf(NextPage) /\ PageOf((c + Len(rec)) - 1) = PageOf(NextPage)
           /\ currentWrite = 0 => c = 0
<1> DEFINE buf == Append(rec, SeqWord(q + 1))
           n == Len(rec)
           e == c + n
           t == NextPage
<1>1. /\ n \in Nat /\ n >= 1 /\ n < PageWords /\ rec \in Seq(RecordWord)
      /\ PageWords \in Nat \ {0} /\ StoreEnd \in Nat /\ Addr = 0 .. StoreEnd - 1
      /\ StoreEnd = PageStart(PageCount) /\ PageStart(0) = 0 /\ PageCount \in Nat /\ PageCount >= 2
  BY RecordIs, Geometry
<1>2. RecordAndSeqIn(buf, q + 1) /\ Len(buf) = n + 1
  <2>1. RecordAndSeqIn(buf, q + 1)
    BY DEF RecordIn, RecordAndSeqIn
  <2>2. Len(buf) = n + 1
    BY <1>1
  <2> QED BY <2>1, <2>2
\* The record ends in the next page, and begins in it or right before it.
<1>3. /\ t \in Addr /\ t \in Nat /\ t = PageStart(PageOf(t)) /\ c \in Nat
      /\ c <= t /\ t < e /\ e < t + PageWords
      /\ \A b \in Addr : PageOf(b) = PageOf(c) /\ b < c => f[b] # Erased
      /\ \A b \in Addr : c <= b /\ b < t => f[b] = Erased
      /\ \A h \in Heads(f) : f[h].id < q + 1
  <2>1. CASE Heads(f) = {} /\ currentWrite = 0
    <3>1. PageOf(0) = 0 /\ 0 \in Addr
      <4>1. PageOf(0) = 0
        BY <1>1, PageAt
      <4>2. PageStart(0) + PageWords <= StoreEnd
        BY <1>1, PageInside
      <4> QED BY <1>1, <4>1, <4>2
    <3>2. 0 % PageWords = 0 - PageStart(PageOf(0))
      BY PageSpan
    <3>3. Remain = 0
      BY <1>1, <2>1, <3>1, <3>2 DEF Remain
    <3>4. t = 0
      BY <2>1, <3>3 DEF NextPage
    <3>5. c = 0
      BY <2>1, <3>4
    <3>6. \A b \in Addr : ~(b < 0)
      BY <1>1
    <3> HIDE DEF t
    <3> QED BY <1>1, <2>1, <3>1, <3>4, <3>5, <3>6
  <2>2. ASSUME NEW s \in Addr,
               Leads(f, s), f[s].id = q,
               currentWrite \in Nat, currentWrite - 1 \in Addr,
               PageOf(currentWrite - 1) = PageOf(s),
               \A b \in Addr : PageOf(b) = PageOf(s) => (f[b] # Erased <=> b < currentWrite)
        PROVE <1>3!:
    <3> DEFINE w == currentWrite
               p == PageOf(w - 1)
               z == PageStart(p) + PageWords
    <3>1. /\ p \in 0 .. PageCount - 1 /\ PageStart(p) \in Nat /\ z \in Nat
          /\ PageStart(p) < w /\ w <= z /\ z <= StoreEnd
          /\ Remain = z - w
          /\ t = IF z = StoreEnd THEN 0 ELSE z
          /\ t \in Addr /\ t = PageStart(PageOf(t))
      BY <2>2, PageTurn
    <3>2. \A h \in Heads(f) : f[h].id < q + 1
      <4>1. \A h \in Heads(f) : f[h].id \in Nat
        BY Words DEF Heads
      <4> QED BY <2>2, <4>1 DEF Leads
    <3>3. w \in Nat /\ p \in Nat /\ \A b \in Addr : PageOf(b) = p => (f[b] # Erased <=> b < w)
      BY <2>2, <3>1
    <3>4. n > z - w
      BY <3>1
    <3>5. c = IF w > t THEN t ELSE w
      OBVIOUS
    <3> HIDE DEF p, t, w, z, n
    <3>6. CASE z = StoreEnd
      <4>1. t = 0 /\ c = 0
        BY <3>1, <3>3, <3>5, <3>6
      <4>2. \A b \in Addr : ~(b < 0)
        BY <1>1
      <4> QED BY <1>1, <3>1, <3>2, <4>1, <4>2
    <3>7. CASE z # StoreEnd
      <4>1. t = z /\ c = w
        BY <3>1, <3>3, <3>5, <3>7
      <4>2. ASSUME NEW b \in Addr, PageOf(b) = PageOf(c), b < c PROVE f[b] # Erased
        <5>1. CASE w = z
          <6>1. PageOf(c) = PageOf(t)
            BY <4>1, <5>1
          <6>2. b \in Nat /\ PageStart(PageOf(b)) <= b
            BY <1>1, PageSpan
          <6> QED BY <3>1, <3>3, <4>1, <4>2, <5>1, <6>1, <6>2
        <5>2. CASE w # z
          <6>1. PageOf(c) = p
            BY <3>1, <3>3, <4>1, <5>2, PageAt DEF z
          <6> QED BY <3>3, <4>1, <4>2, <6>1
        <5> QED BY <5>1, <5>2
      <4>3. ASSUME NEW b \in Addr, c <= b, b < t PROVE f[b] = Erased
        <5>0. b \in Nat /\ w \in Nat /\ PageStart(p) \in Nat /\ PageStart(p) < w
          BY <1>1, <3>1, <3>3
        <5>1. PageStart(p) <= b /\ b < PageStart(p) + PageWords
          BY <4>1, <4>3, <5>0 DEF z
        <5>2. PageOf(b) = p
          BY <3>3, <5>0, <5>1, PageAt
        <5>3. ~(b < w)
          BY <4>1, <4>3, <5>0
        <5> QED BY <3>3, <5>2, <5>3
      <4>4. c <= t /\ t < c + n /\ c + n < t + PageWords
        <5>1. n \in Nat /\ n < PageWords /\ PageWords \in Nat /\ w \in Nat /\ z \in Nat
              /\ w <= z /\ n > z - w
          BY <1>1, <3>1, <3>3, <3>4
        <5> QED BY <4>1, <5>1
      <4> QED BY <1>1, <3>1, <3>2, <3>3, <4>1, <4>2, <4>3, <4>4
    <3> QED BY <3>6, <3>7
  <2> QED BY <2>1, <2>2 DEF Stands
<1> HIDE DEF t, n
<1> DEFINE p == PageOf(t)
<1>4. p \in 0 .. PageCount - 1 /\ p \in Nat /\ PageStart(p) + PageWords <= StoreEnd
  <2>1. p \in 0 .. PageCount - 1
    BY <1>3, PageInside
  <2> QED BY <1>1, <2>1, PageInside
<1>5. e \in Nat /\ e \in Addr /\ c \in Addr
  <2>1. n \in Nat /\ StoreEnd \in Nat /\ PageWords \in Nat /\ c \in Nat /\ t \in Nat
        /\ e < t + PageWords /\ c <= t /\ t + PageWords <= StoreEnd /\ t <= e
    BY <1>1, <1>3, <1>4
  <2>2. e \in Nat /\ e < StoreEnd /\ c < StoreEnd
    BY <2>1
  <2> QED BY <1>1, <1>3, <2>2
<1>6. PageOf(e) = p
  BY <1>3, <1>4, <1>5, PageAt
<1>7. \A b \in Addr : PageOf(b) = p => f[b] = Erased /\ t <= b
  <2> SUFFICES ASSUME NEW b \in Addr, PageOf(b) = p PROVE f[b] = Erased /\ t <= b
    OBVIOUS
  <2>1. b \in Nat /\ PageStart(PageOf(b)) <= b
    BY <1>1, PageSpan
  <2>2. t <= b
    BY <1>3, <2>1
  <2>3. f[t] = Erased
    BY DEF t
  <2>4. b = t \/ t < b
    BY <1>3, <2>1, <2>2
  <2>5. t < b => f[b] = Erased
    BY <1>3, <2>3 DEF Packed
  <2> QED BY <2>2, <2>3, <2>4, <2>5
<1>8. \A b \in Addr : c <= b /\ b <= e => f[b] = Erased
  <2> SUFFICES ASSUME NEW b \in Addr, c <= b, b <= e PROVE f[b] = Erased
    OBVIOUS
  <2>1. b \in Nat
    BY <1>1
  <2>2. CASE b < t
    BY <1>3, <2>2
  <2>3. CASE ~(b < t)
    <3>1. PageStart(p) <= b /\ b < PageStart(p) + PageWords
      BY <1>1, <1>3, <1>5, <2>1, <2>3
    <3>2. PageOf(b) = p
      BY <1>4, <2>1, <3>1, PageAt
    <3> QED BY <1>7, <3>2
  <2> QED BY <2>2, <2>3
<1>9. Landed(f, c, buf, 0)
  <2> HIDE DEF buf
  <2> SUFFICES ASSUME NEW i \in 1 .. Len(buf) PROVE f[c + i - 1] = Erased
    BY <1>1, <1>2 DEF Landed
  <2>1. i \in Nat /\ i >= 1 /\ i <= n + 1 /\ c \in Nat /\ n \in Nat
    BY <1>1, <1>2, <1>3
  <2>2. \A x, y \in Nat, h \in Nat :
            h >= 1 /\ h <= y + 1 => x + h - 1 \in Nat /\ x <= x + h - 1 /\ x + h - 1 <= x + y
    OBVIOUS
  <2>3. c + i - 1 \in Nat /\ c <= c + i - 1 /\ c + i - 1 <= e
    BY <2>1, <2>2
  <2>4. \A x \in Nat, y, z \in Nat : x <= y /\ y < z => x \in 0 .. z - 1
    OBVIOUS
  <2>5. e < StoreEnd
    BY <1>1, <1>5
  <2>6. c + i - 1 \in Addr
    BY <1>1, <1>5, <2>3, <2>4, <2>5
  <2> HIDE DEF e
  <2> QED BY <1>8, <2>3, <2>6
<1>10. c + Len(buf) - 1 = e
  <2>1. c \in Nat /\ n \in Nat /\ Len(buf) = n + 1
    BY <1>1, <1>2, <1>3
  <2> HIDE DEF buf
  <2> QED BY <2>1
<1> HIDE DEF buf, e, p
<1>11. \A b \in Addr : PageOf(b) = PageOf(e) => f[b] = Erased /\ b >= c
  <2>1. \A b \in Addr : b \in Nat
    BY <1>1
  <2> QED BY <1>3, <1>6, <1>7, <2>1
<1>12. WritesNewPage(f, c, buf, q + 1)
  <2>1. ASSUME NEW h \in Heads(f) PROVE f[h].id < q + 1 /\ PageOf(h) # PageOf(e)
    <3>1. h \in Addr /\ f[h] # Erased
      BY Words DEF Heads, SeqHere
    <3> QED BY <1>3, <1>11, <3>1
  <2> QED BY <1>2, <1>10, <1>11, <2>1 DEF WritesNewPage
<1>13. Halfway(f, c, buf, q + 1, 0)
  BY <1>3, <1>5, <1>9, <1>10, <1>11, <1>12 DEF Halfway
<1>14. f[c] = Erased
  <2>1. c <= c /\ c <= e
    BY <1>1, <1>3 DEF e
  <2> QED BY <1>5, <1>8, <2>1
<1>15. PageOf(e - 1) = p
  <2>1. e - 1 \in Nat /\ t <= e - 1 /\ e - 1 < t + PageWords
    BY <1>1, <1>3, <1>5
  <2> QED BY <1>3, <1>4, <2>1, PageAt DEF p
<1>16. currentWrite = 0 => c = 0
  BY <1>3 DEF t
<1> QED BY <1>6, <1>13, <1>14, <1>15, <1>16 DEF buf, e, p, n, t

-----------------------------------------------------------------------------
(* The invariant                                                           *)

\* The page to go on in is not the newest one.
LEMMA NextPageIs ==
    Stands(flash, currentWrite, sequence)
      => NextPage \in Addr /\ (Heads(flash) = {} \/ PageOf(NextPage) # PageOf(currentWrite - 1))
<1> SUFFICES ASSUME Stands(flash, currentWrite, sequence)
             PROVE  /\ NextPage \in Addr
                    /\ Heads(flash) = {} \/ PageOf(NextPage) # PageOf(currentWrite - 1)
  OBVIOUS
<1>1. CASE Heads(flash) = {} /\ currentWrite = 0
  <2>1. /\ PageWords \in Nat \ {0} /\ StoreEnd \in Nat /\ Addr = 0 .. StoreEnd - 1
        /\ PageStart(0) = 0 /\ PageCount \in Nat /\ PageCount >= 2
    BY Geometry
  <2>2. PageOf(0) = 0 /\ 0 % PageWords = 0 - PageStart(PageOf(0))
        /\ PageStart(0) + PageWords <= StoreEnd
    <3>1. PageOf(0) = 0
      BY <2>1, PageAt
    <3> QED BY <2>1, <3>1, PageSpan, PageInside
  <2>3. Remain = 0
    BY <1>1, <2>1, <2>2 DEF Remain
  <2>4. NextPage = 0
    BY <1>1, <2>3 DEF NextPage
  <2> QED BY <1>1, <2>1, <2>2, <2>4
<1>2. CASE currentWrite \in Nat /\ currentWrite - 1 \in Addr
  BY <1>2, PageTurn
<1> QED BY <1>1, <1>2 DEF Stands

\* What the writer's state says of the types.
WriterTypes ==
    /\ flash \in [Addr -> Word] /\ request \in Flash!Request
    /\ currentWrite \in 0 .. StoreEnd
    /\ buffer \in Seq(Word) /\ Len(buffer) <= BufWords
    /\ goState \in {"IDLE", "ERASE1", "WRITE1"} /\ needSeq = FALSE
    /\ buffer # <<>> => buffer[1].id \in 0 .. MaxRecords

LEMMA WriterTyped ==
    FlashSound /\ WriterSound /\ sequence \in Nat /\ state \in {"IDLE", "WRITING"}
      => WriterTypes
<1> SUFFICES ASSUME FlashSound, WriterSound, sequence \in Nat, state \in {"IDLE", "WRITING"}
             PROVE  WriterTypes
  OBVIOUS
<1> USE DEF WriterTypes
<1>1. flash \in [Addr -> CleanWord] /\ flash \in [Addr -> Word]
  BY Words DEF FlashSound
<1>2. BufWords \in Nat /\ StoreEnd \in Nat /\ Addr = 0 .. StoreEnd - 1 /\ 0 \in Addr
  <2>1. StoreEnd # 0
    BY Geometry, PageInside
  <2> QED BY <2>1, Geometry, Lengths
<1>3. needSeq = FALSE
  BY DEF WriterSound
<1>4. <<>> \in Seq(Word) /\ Len(<<>>) = 0
  OBVIOUS
<1>5. Flash!NoRequest \in Flash!Request
  BY <1>2, <1>4 DEF Flash!NoRequest, Flash!Request, Addr
<1>6. CASE state = "IDLE"
  <2>1. NoWrite /\ Stands(flash, currentWrite, sequence)
    BY <1>6 DEF WriterSound
  <2>2. currentWrite \in 0 .. StoreEnd
    BY <1>1, <2>1, StandsType
  <2> QED BY <1>1, <1>2, <1>3, <1>4, <1>5, <2>1, <2>2 DEF NoWrite
<1>7. CASE state = "WRITING" /\ goState = "ERASE1" /\ Erasing
  <2>1. Stands(flash, currentWrite, sequence) /\ RecordIn(buffer)
    BY <1>7 DEF Erasing
  <2>2. currentWrite \in 0 .. StoreEnd /\ NextPage \in Addr
    BY <1>1, <2>1, StandsType, NextPageIs
  <2>3. buffer \in Seq(RecordWord) /\ Len(buffer) < BufWords /\ buffer[1].id \in 0 .. MaxRecords
        /\ Len(buffer) \in Nat
    BY <2>1, RecordIs
  <2>4. buffer \in Seq(Word)
    BY <2>3, Words
  <2>5. Flash!EraseRequest(NextPage) \in Flash!Request
    BY <1>4, <2>2 DEF Flash!EraseRequest, Flash!Request, Addr
  <2>6. request \in Flash!Request
    BY <1>5, <1>7, <2>5 DEF Erasing
  <2> QED BY <1>1, <1>2, <1>3, <1>7, <2>2, <2>3, <2>4, <2>6
<1>8. CASE state = "WRITING" /\ goState = "WRITE1" /\ Writing
  <2>1. PICK k \in 0 .. Len(buffer) :
          /\ Halfway(flash, currentWrite, buffer, sequence, k)
          /\ \/ request = Flash!WriteRequest(currentWrite, buffer)
             \/ request = Flash!NoRequest
    BY <1>8 DEF Writing
  <2>2. /\ currentWrite \in Nat /\ currentWrite + Len(buffer) - 1 \in Addr
        /\ \/ WritesOn(flash, currentWrite, buffer, sequence)
           \/ WritesNewPage(flash, currentWrite, buffer, sequence)
    BY <2>1 DEF Halfway
  <2>3. /\ buffer \in Seq(CleanWord) /\ Len(buffer) \in Nat /\ Len(buffer) >= 1
        /\ Len(buffer) <= BufWords /\ buffer[1].id \in 0 .. MaxRecords
    BY <2>2, BufferIs
  <2>4. buffer \in Seq(Word)
    BY <2>3, Words
  <2>5. currentWrite \in Addr /\ currentWrite \in 0 .. StoreEnd
    BY <1>2, <2>2, <2>3
  <2>6. Flash!WriteRequest(currentWrite, buffer) \in Flash!Request
    BY <2>4, <2>5 DEF Flash!WriteRequest, Flash!Request, Addr
  <2>7. request \in Flash!Request
    BY <1>5, <2>1, <2>6
  <2> QED BY <1>1, <1>2, <1>3, <1>8, <2>3, <2>4, <2>5, <2>7
<1> QED BY <1>6, <1>7, <1>8 DEF WriterSound

LEMMA InitRing == Init => RingInv
<1> SUFFICES ASSUME Init PROVE RingInv
  OBVIOUS
<1>1. BufWords \in Nat /\ StoreEnd \in Nat /\ Addr = 0 .. StoreEnd - 1 /\ 0 \in Addr
      /\ MaxRecords \in Nat /\ MaxCrashes \in Nat
  <2>1. StoreEnd # 0
    BY Geometry, PageInside
  <2> QED BY <2>1, Geometry, Lengths, RingAssumption DEF RingAssumption
<1>2. /\ flash = [a \in Addr |-> Erased] /\ request = Flash!NoRequest /\ flashComplete = FALSE
      /\ currentWrite = 0 /\ sequence = 0
      /\ buffer = <<>> /\ goState = "IDLE" /\ needSeq = FALSE
      /\ state = "INIT0" /\ opFlag = {} /\ staging = 0
      /\ log = <<>> /\ nextId = 1 /\ crashes = 0
  BY DEF Init, Flash!FlashInit, Addr
<1>3. Flash!NoRequest \in Flash!Request
  BY <1>1 DEF Flash!NoRequest, Flash!Request, Addr
<1>4. flash \in [Addr -> CleanWord] /\ \A a \in Addr : flash[a] = Erased
  BY <1>2, Words
<1>5. Packed(flash)
  BY <1>4 DEF Packed
<1>6. Heads(flash) = {}
  BY <1>4, Words DEF Heads, SeqHere
<1>7. FlashSound
  BY <1>4, <1>5, <1>6 DEF FlashSound, Recoverable
<1>8. WriterSound
  BY <1>2 DEF WriterSound, NoWrite
<1>9. TypeOK
  <2>1. flash \in [Flash!Addr -> Word]
    BY <1>4, Words DEF Addr
  <2> QED BY <1>1, <1>2, <1>3, <2>1 DEF TypeOK, EraseStates
<1> QED BY <1>7, <1>8, <1>9 DEF RingInv

-----------------------------------------------------------------------------
(* wrGo                                                                    *)

\* wrGo places the record buf: it erases the next page, writes on where it
\* stands, or begins the next page.
PlacesErasing(buf) ==
    /\ goState' = "ERASE1" /\ flash' = flash /\ currentWrite' = currentWrite
    /\ sequence' = sequence /\ buffer' = buf
PlacesHere(buf) ==
    /\ goState' = "WRITE1" /\ flash' = flash /\ currentWrite' = currentWrite
    /\ sequence' = sequence /\ buffer' = buf
    /\ Halfway(flash, currentWrite, buf, sequence, 0)
PlacesNext(buf) ==
    /\ goState' = "WRITE1" /\ flash' = flash
    /\ Len(buf) > Remain /\ flash[NextPage] = Erased
    /\ currentWrite' = IF currentWrite > NextPage THEN NextPage ELSE currentWrite
    /\ sequence' = sequence + 1 /\ buffer' = Append(buf, SeqWord(sequence + 1))
    /\ Halfway(flash, currentWrite', Append(buf, SeqWord(sequence + 1)), sequence + 1, 0)

\* wrGo entered with a record to place: it erases the next page or it writes.
LEMMA WrGoStarts ==
    ASSUME FlashSound, needSeq = FALSE, sequence \in Nat,
           Stands(flash, currentWrite, sequence),
           NEW buf, RecordIn(buf), NEW st \in {"IDLE", "ERASE1"},
           st = "ERASE1" => flash[NextPage] = Erased,
           WrGo(buf, st)
    PROVE  /\ FlashSound' /\ WriterSound' /\ sequence' \in Nat
           /\ state' = "WRITING" /\ log' = log /\ flashComplete' = FALSE
           /\ PlacesErasing(buf) \/ PlacesHere(buf) \/ PlacesNext(buf)
<1> DEFINE c == WrPtr(buf, st)
<1>1. flash \in [Addr -> CleanWord] /\ Packed(flash) /\ Recoverable(flash)
  BY DEF FlashSound
<1>2. /\ Len(buf) \in Nat /\ buf # <<>> /\ Len(buf) < BufWords /\ Count(buf) = Len(buf)
      /\ WithSeq(buf) = Append(buf, SeqWord(sequence + 1)) /\ buf \in Seq(RecordWord)
  BY RecordIs DEF Count, WithSeq
<1>3. NewPage(buf, st) <=> Len(buf) > Remain
  BY <1>2 DEF NewPage, EraseStates
<1>4. CASE WrGoErase(buf, st)
  <2>1. /\ Len(buf) > Remain /\ st = "IDLE"
        /\ request' = Flash!EraseRequest(NextPage) /\ flashComplete' = FALSE
        /\ goState' = "ERASE1" /\ buffer' = buf /\ state' = "WRITING"
        /\ UNCHANGED <<flash, currentWrite, sequence, needSeq, log>>
    BY <1>3, <1>4 DEF WrGoErase, Flash!FlashErase, Later
  <2>2. FlashSound'
    BY <1>1, <2>1 DEF FlashSound
  <2>3. Remain' = Remain /\ NextPage' = NextPage
    BY <2>1 DEF Remain, NextPage
  <2>4. Erasing'
    BY <2>1, <2>3 DEF Erasing
  <2>5. WriterSound'
    BY <2>1, <2>4 DEF WriterSound
  <2>6. PlacesErasing(buf)
    BY <2>1 DEF PlacesErasing
  <2> QED BY <2>1, <2>2, <2>5, <2>6
<1>5. NewPage(buf, st) /\ flash[NextPage] = Erased
        => /\ flash[c] = Erased
           /\ Halfway(flash, c, Append(buf, SeqWord(sequence + 1)), sequence + 1, 0)
  <2> SUFFICES ASSUME NewPage(buf, st), flash[NextPage] = Erased
               PROVE  /\ flash[c] = Erased
                      /\ Halfway(flash, c, Append(buf, SeqWord(sequence + 1)), sequence + 1, 0)
    OBVIOUS
  <2>1. c = IF currentWrite > NextPage THEN NextPage ELSE currentWrite
    BY DEF WrPtr
  <2> HIDE DEF c
  <2> QED BY <1>1, <1>3, <2>1, BeginsNewPage
<1>6. ~NewPage(buf, st)
        => /\ c = currentWrite /\ flash[c] = Erased
           /\ Halfway(flash, currentWrite, buf, sequence, 0)
  BY <1>1, <1>3, BeginsHere DEF WrPtr
<1>7. CASE WrGoWrite(buf, st)
  <2>1. /\ NewPage(buf, st) => flash[NextPage] = Erased
        /\ currentWrite' = c
        /\ goState' = "WRITE1" /\ state' = "WRITING" /\ needSeq' = FALSE
        /\ flashComplete' = FALSE /\ UNCHANGED <<flash, log>>
    BY <1>7 DEF WrGoWrite, Flash!FlashWrite, EraseStates
  <2>2. FlashSound'
    BY <1>1, <2>1 DEF FlashSound
  <2>3. CASE NewPage(buf, st)
    <3> DEFINE out == Append(buf, SeqWord(sequence + 1))
    <3>1. out # buf /\ out # <<>> /\ Len(out) \in Nat
      <4>1. Len(out) = Len(buf) + 1
        BY <1>2
      <4> QED BY <1>2, <4>1
    <3>2. request' = Flash!WriteRequest(c, out) /\ buffer' = out /\ sequence' = sequence + 1
      <4>1. IF needSeq \/ NewPage(buf, st) THEN WithSeq(buf) = out ELSE FALSE
        BY <1>2, <2>3
      <4> HIDE DEF out, c
      <4>2. (IF needSeq \/ NewPage(buf, st) THEN WithSeq(buf) ELSE buf) = out
        BY <2>3, <4>1
      <4>3. Burst(out) = out
        BY <3>1 DEF Burst
      <4> QED BY <1>7, <3>1, <4>2, <4>3 DEF WrGoWrite, Flash!FlashWrite, c
    <3>3. Halfway(flash, c, out, sequence + 1, 0)
      BY <1>5, <2>1, <2>3
    <3> HIDE DEF out, c
    <3>4. 0 \in 0 .. Len(out)
      BY <3>1
    <3>5. Writing'
      BY <2>1, <3>2, <3>3, <3>4 DEF Writing
    <3>6. WriterSound'
      BY <2>1, <3>5 DEF WriterSound
    <3>7. c = IF currentWrite > NextPage THEN NextPage ELSE currentWrite
      BY <2>3 DEF c, WrPtr
    <3>8. PlacesNext(buf)
      BY <1>3, <2>1, <2>3, <3>2, <3>3, <3>7 DEF PlacesNext, out
    <3> QED BY <2>1, <2>2, <3>2, <3>6, <3>8
  <2>4. CASE ~NewPage(buf, st)
    <3>1. (IF needSeq \/ NewPage(buf, st) THEN WithSeq(buf) ELSE buf) = buf /\ Burst(buf) = buf
      BY <1>2, <2>4 DEF Burst
    <3>2. request' = Flash!WriteRequest(currentWrite, buf) /\ buffer' = buf /\ sequence' = sequence
          /\ currentWrite' = currentWrite
      BY <1>6, <1>7, <2>4, <3>1 DEF WrGoWrite, Flash!FlashWrite
    <3>3. Halfway(flash, currentWrite, buf, sequence, 0)
      BY <1>6, <2>4
    <3>4. 0 \in 0 .. Len(buf)
      BY <1>2
    <3>5. Writing'
      BY <2>1, <3>2, <3>3, <3>4 DEF Writing
    <3>6. WriterSound'
      BY <2>1, <3>5 DEF WriterSound
    <3>7. PlacesHere(buf)
      BY <2>1, <3>2, <3>3 DEF PlacesHere
    <3> QED BY <2>1, <2>2, <3>2, <3>6, <3>7
  <2> QED BY <2>3, <2>4
<1>8. ~WrGoDone(buf, st)
  <2> SUFFICES ASSUME WrGoDone(buf, st) PROVE FALSE
    OBVIOUS
  <2>1. (NewPage(buf, st) => flash[NextPage] = Erased) /\ flash[c] # Erased
    BY DEF WrGoDone
  <2> QED BY <1>5, <1>6, <2>1
<1> QED BY <1>4, <1>7, <1>8 DEF WrGo

\* wrGo entered when the record is in the flash: it is done.
LEMMA WrGoEnds ==
    ASSUME FlashSound, needSeq = FALSE, sequence \in Nat,
           Halfway(flash, currentWrite, buffer, sequence, Len(buffer)),
           request = Flash!NoRequest, WrGo(buffer, "WRITE1")
    PROVE  /\ FlashSound' /\ WriterSound' /\ sequence' = sequence
           /\ state' = "IDLE" /\ log' = Append(log, buffer[1].id)
           /\ flashComplete' = flashComplete
           /\ flash' = flash /\ buffer' = <<>> /\ goState' = "IDLE"
<1>1. flash \in [Addr -> CleanWord] /\ Packed(flash) /\ Recoverable(flash)
  BY DEF FlashSound
<1>2. Stands(flash, currentWrite + Len(buffer), sequence) /\ flash[currentWrite] # Erased
  BY <1>1, WriteDone
<1>3. buffer # <<>>
  BY BufferIs DEF Halfway
<1>4. ~NewPage(buffer, "WRITE1") /\ WrPtr(buffer, "WRITE1") = currentWrite
  BY DEF NewPage, WrPtr, EraseStates
<1>5. WrGoDone(buffer, "WRITE1")
  BY <1>2, <1>4 DEF WrGo, WrGoErase, WrGoWrite
<1>6. /\ currentWrite' = currentWrite + Len(buffer)
      /\ buffer' = <<>> /\ goState' = "IDLE" /\ state' = "IDLE"
      /\ log' = Append(log, buffer[1].id)
      /\ UNCHANGED <<flash, request, flashComplete, sequence>>
  BY <1>3, <1>4, <1>5 DEF WrGoDone, Count
<1>7. needSeq' = FALSE
  BY <1>4, <1>5 DEF WrGoDone
<1>8. FlashSound'
  BY <1>1, <1>6 DEF FlashSound
<1>9. WriterSound'
  BY <1>2, <1>6, <1>7 DEF WriterSound, NoWrite
<1> QED BY <1>6, <1>8, <1>9

-----------------------------------------------------------------------------
(* The steps                                                               *)

\* IDLE finds a kind of record whose flag is up.
LEMMA TakesAKind ==
    ASSUME opFlag \subseteq Kinds, opFlag # {}
    PROVE  Priority[SelectInSeq(Priority, LAMBDA p : p \in opFlag)] \in opFlag
<1> DEFINE I == {i \in 1 .. Len(Priority) : Priority[i] \in opFlag}
<1>1. Priority \in Seq(Kinds) /\ Kinds = {Priority[i] : i \in DOMAIN Priority}
  BY RingAssumption DEF RingAssumption
<1>2. SelectInSeq(Priority, LAMBDA p : p \in opFlag) = IF I # {} THEN Min(I) ELSE 0
  BY DEF SelectInSeq
<1>3. I # {} /\ I \in SUBSET Nat
  BY <1>1
<1> HIDE DEF I
<1>4. \E x \in I : \A y \in I : x <= y
  BY <1>3, LeastOf
<1>5. Min(I) \in I
  BY <1>4 DEF Min
<1> QED BY <1>1, <1>2, <1>3, <1>5 DEF I

\* The words handed to the flash stay what they are while no write is under way.
LEMMA NoWords ==
    \A words \in {<<>>, [i \in DOMAIN <<>> |-> Garbled]} :
        [Flash!NoRequest EXCEPT !.words = words] = Flash!NoRequest
<1>1. [i \in DOMAIN <<>> |-> Garbled] = <<>>
  OBVIOUS
<1> QED BY <1>1 DEF Flash!NoRequest

LEMMA SuperLoopRing ==
    ASSUME RingInv, SuperLoop
    PROVE  /\ FlashSound' /\ WriterSound' /\ sequence' \in Nat
           /\ state' \in {"IDLE", "WRITING"} /\ flashComplete' \in BOOLEAN
           /\ log' \in Seq(0 .. MaxRecords) /\ opFlag' \subseteq Kinds
           /\ staging' \in 0 .. MaxRecords /\ UNCHANGED <<nextId, crashes>>
<1>1. /\ FlashSound /\ WriterSound /\ sequence \in Nat /\ flashComplete \in BOOLEAN
      /\ opFlag \subseteq Kinds /\ staging \in 0 .. MaxRecords /\ log \in Seq(0 .. MaxRecords)
      /\ flash \in [Addr -> CleanWord] /\ Packed(flash) /\ Recoverable(flash)
      /\ needSeq = FALSE /\ MaxRecords \in Nat
  BY Lengths DEF RingInv, TypeOK, FlashSound, WriterSound
<1>2. CASE Startup
  <2>1. NoWrite
    BY <1>1, <1>2 DEF Startup, WriterSound
  <2>2. PICK c, q : Stands(flash, c, q)
    BY <1>1, Restarts
  <2>3. ReadWritePtr(flash) = c /\ ReadSequence(flash) = q /\ q \in Nat
    BY <1>1, <2>2, RestartFinds, StandsType
  <2>4. /\ currentWrite' = c /\ sequence' = q /\ state' = "IDLE" /\ needSeq' = FALSE
        /\ UNCHANGED <<flash, request, flashComplete, buffer, goState, opFlag, log, nextId, crashes>>
    BY <1>1, <1>2, <2>3 DEF Startup, ghostVars
  <2>5. FlashSound'
    BY <1>1, <2>4 DEF FlashSound
  <2>6. WriterSound'
    BY <2>1, <2>2, <2>4 DEF WriterSound, NoWrite
  <2>7. staging' \in 0 .. MaxRecords
    BY <1>1, <1>2 DEF Startup, ScannedOver
  <2> QED BY <1>1, <2>3, <2>4, <2>5, <2>6, <2>7
<1>3. CASE StartRecord
  <2> DEFINE k == Priority[SelectInSeq(Priority, LAMBDA p : p \in opFlag)]
  <2>1. /\ state = "IDLE" /\ opFlag # {} /\ opFlag' = opFlag \ {k}
        /\ WrGo(NewRecord(k, staging), goState)
        /\ UNCHANGED <<staging, nextId, crashes>>
    BY <1>3 DEF StartRecord
  <2>2. k \in Kinds
    BY <1>1, <2>1, TakesAKind
  <2> HIDE DEF k
  <2>3. NoWrite /\ Stands(flash, currentWrite, sequence)
    BY <1>1, <2>1 DEF WriterSound
  <2>4. RecordIn(NewRecord(k, staging)) /\ WrGo(NewRecord(k, staging), "IDLE")
    BY <1>1, <2>1, <2>2, <2>3 DEF RecordIn, NoWrite
  <2>5. /\ FlashSound' /\ WriterSound' /\ sequence' \in Nat
        /\ state' = "WRITING" /\ log' = log /\ flashComplete' = FALSE
    BY <1>1, <2>3, <2>4, WrGoStarts
  <2> QED BY <1>1, <2>1, <2>5
<1>4. CASE ContinueRecord
  <2>1. /\ state = "WRITING" /\ flashComplete /\ WrGo(buffer, goState)
        /\ UNCHANGED <<opFlag, staging, nextId, crashes>>
    BY <1>4 DEF ContinueRecord
  <2>2. CASE goState = "ERASE1" /\ Erasing
    <3>1. Stands(flash, currentWrite, sequence) /\ RecordIn(buffer) /\ flash[NextPage] = Erased
      BY <2>1, <2>2 DEF Erasing
    <3>2. WrGo(buffer, "ERASE1")
      BY <2>1, <2>2
    <3>3. /\ FlashSound' /\ WriterSound' /\ sequence' \in Nat
          /\ state' = "WRITING" /\ log' = log /\ flashComplete' = FALSE
      BY <1>1, <3>1, <3>2, WrGoStarts
    <3> QED BY <1>1, <2>1, <3>3
  <2>3. CASE goState = "WRITE1" /\ Writing
    <3>1. /\ Halfway(flash, currentWrite, buffer, sequence, Len(buffer))
          /\ request = Flash!NoRequest
      BY <2>1, <2>3 DEF Writing
    <3>2. WrGo(buffer, "WRITE1")
      BY <2>1, <2>3
    <3>3. /\ FlashSound' /\ WriterSound' /\ sequence' = sequence
          /\ state' = "IDLE" /\ log' = Append(log, buffer[1].id)
          /\ flashComplete' = flashComplete
      BY <1>1, <3>1, <3>2, WrGoEnds
    <3>4. buffer[1].id \in 0 .. MaxRecords
      BY <1>1, <3>1, BufferIs DEF Halfway
    <3>5. log' \in Seq(0 .. MaxRecords)
      BY <1>1, <3>3, <3>4
    <3> QED BY <1>1, <2>1, <3>3, <3>5
  <2> QED BY <1>1, <2>1, <2>2, <2>3 DEF WriterSound
<1> QED BY <1>2, <1>3, <1>4 DEF SuperLoop

\* The next page is erased, or words of the buffer land.
ErasesNext ==
    /\ goState = "ERASE1" /\ Stands(flash, currentWrite, sequence)
    /\ request.op = "erase" /\ request.at = NextPage
    /\ flash' = Flash!ErasedPage(flash, request)
WordsLand ==
    /\ goState = "WRITE1"
    /\ \E j \in 0 .. Len(buffer), k \in 0 .. Len(buffer) :
          /\ j <= k
          /\ Halfway(flash, currentWrite, buffer, sequence, j)
          /\ Halfway(flash', currentWrite, buffer, sequence, k)
          /\ Programs(flash, flash', currentWrite, buffer)

\* What reaches the flash, in part or whole.
LEMMA FlashRing ==
    ASSUME RingInv, FlashLands \/ FlashReports
    PROVE  /\ FlashSound' /\ WriterSound' /\ flashComplete' \in BOOLEAN
           /\ state = "WRITING" /\ UNCHANGED <<ramVars, ghostVars>>
           /\ ErasesNext \/ WordsLand
<1>1. /\ FlashSound /\ WriterSound /\ sequence \in Nat
      /\ state \in {"INIT0", "IDLE", "WRITING"} /\ flashComplete \in BOOLEAN
      /\ flash \in [Addr -> CleanWord] /\ Packed(flash) /\ Recoverable(flash)
      /\ needSeq = FALSE
  BY DEF RingInv, TypeOK, FlashSound, WriterSound
<1>2. UNCHANGED <<ramVars, ghostVars>>
  BY DEF FlashLands, FlashReports
<1>3. /\ currentWrite' = currentWrite /\ sequence' = sequence /\ buffer' = buffer
      /\ goState' = goState /\ needSeq' = needSeq /\ state' = state /\ opFlag' = opFlag
  BY <1>2 DEF ramVars
<1>4. request.op # "none"
  BY DEF FlashLands, FlashReports, Flash!FlashProgress, Flash!FlashFinish
<1>5. request # Flash!NoRequest
  BY <1>4 DEF Flash!NoRequest
<1>6. state = "WRITING"
  BY <1>1, <1>5 DEF WriterSound, NoWrite
<1>7. CASE goState = "ERASE1" /\ Erasing
  <2>1. /\ Stands(flash, currentWrite, sequence) /\ RecordIn(buffer) /\ Len(buffer) > Remain
        /\ request = Flash!EraseRequest(NextPage) /\ flashComplete = FALSE
    BY <1>1, <1>5, <1>7 DEF Erasing
  <2>2. request.op = "erase" /\ request.at = NextPage
    BY <2>1 DEF Flash!EraseRequest
  <2> DEFINE g == Flash!ErasedPage(flash, request)
  <2>3. /\ flash' = g
        /\ \/ request' = request /\ flashComplete' = flashComplete
           \/ request' = Flash!NoRequest /\ flashComplete' = TRUE
    BY <2>2 DEF FlashLands, FlashReports, Flash!FlashProgress, Flash!FlashFinish, Flash!Applied
  <2>4. NextPage \in Addr /\ (Heads(flash) = {} \/ PageOf(NextPage) # PageOf(currentWrite - 1))
    BY <2>1, NextPageIs
  <2>5. /\ g \in [Addr -> CleanWord] /\ Packed(g) /\ Recoverable(g)
        /\ g[NextPage] = Erased /\ Stands(g, currentWrite, sequence)
    BY <1>1, <2>1, <2>2, <2>4, EraseStands
  <2> HIDE DEF g
  <2>6. Remain' = Remain /\ NextPage' = NextPage
    BY <1>3 DEF Remain, NextPage
  <2>7. Erasing'
    BY <1>3, <2>1, <2>3, <2>5, <2>6 DEF Erasing
  <2>8. FlashSound'
    BY <2>3, <2>5 DEF FlashSound
  <2>9. WriterSound'
    BY <1>1, <1>3, <1>6, <1>7, <2>7 DEF WriterSound
  <2>10. ErasesNext
    BY <1>7, <2>1, <2>2, <2>3 DEF ErasesNext, g
  <2> QED BY <1>1, <1>2, <1>6, <2>1, <2>3, <2>8, <2>9, <2>10
<1>8. CASE goState = "WRITE1" /\ Writing
  <2>1. PICK j \in 0 .. Len(buffer) :
          /\ Halfway(flash, currentWrite, buffer, sequence, j)
          /\ request = Flash!WriteRequest(currentWrite, buffer) /\ flashComplete = FALSE
    BY <1>1, <1>5, <1>8 DEF Writing
  <2>2. request.op = "write" /\ request.at = currentWrite /\ request.words = buffer
    BY <2>1 DEF Flash!WriteRequest
  <2>3. Len(buffer) \in Nat /\ Len(buffer) >= 1
    BY <1>1, <2>1, BufferIs DEF Halfway
  <2>4. PICK k \in 0 .. Len(buffer) :
          /\ flash' = Flash!Written(flash, request, k)
          /\ \/ request' = request /\ flashComplete' = flashComplete
             \/ request' = Flash!NoRequest /\ flashComplete' = TRUE /\ k = Len(buffer)
    <3>1. CASE FlashLands
      <4>1. PICK k \in 1 .. Len(buffer) : flash' = Flash!Written(flash, request, k)
        BY <2>2, <3>1 DEF FlashLands, Flash!FlashProgress
      <4>2. k \in 0 .. Len(buffer)
        BY <2>3
      <4> QED BY <3>1, <4>1, <4>2 DEF FlashLands, Flash!FlashProgress
    <3>2. CASE FlashReports
      <4>1. flash' = Flash!Written(flash, request, Len(buffer))
        BY <2>2, <3>2 DEF FlashReports, Flash!FlashFinish, Flash!Applied
      <4>2. Len(buffer) \in 0 .. Len(buffer)
        BY <2>3
      <4> QED BY <3>2, <4>1, <4>2 DEF FlashReports, Flash!FlashFinish
    <3> QED BY <3>1, <3>2
  <2> DEFINE g == Flash!Written(flash, request, k)
  <2>5. /\ g \in [Addr -> CleanWord] /\ Packed(g) /\ Recoverable(g)
        /\ Programs(flash, g, currentWrite, buffer)
        /\ \E m \in 0 .. Len(buffer) : m >= k /\ m >= j /\ Halfway(g, currentWrite, buffer, sequence, m)
    BY <1>1, <2>1, <2>2, WriteLands
  <2> HIDE DEF g
  <2>6. PICK m \in 0 .. Len(buffer) : m >= k /\ m >= j /\ Halfway(g, currentWrite, buffer, sequence, m)
    BY <2>5
  <2>7. flash' = g /\ (k = Len(buffer) => m = Len(buffer))
    BY <2>3, <2>4, <2>6 DEF g
  <2>8. Halfway(flash', currentWrite', buffer', sequence', m) /\ m \in 0 .. Len(buffer')
    BY <1>3, <2>6, <2>7
  <2>9. \/ request' = Flash!WriteRequest(currentWrite', buffer') /\ flashComplete' = FALSE
        \/ request' = Flash!NoRequest /\ flashComplete' = TRUE /\ m = Len(buffer')
    <3>1. CASE request' = request /\ flashComplete' = flashComplete
      BY <1>3, <2>1, <3>1
    <3>2. CASE request' = Flash!NoRequest /\ flashComplete' = TRUE /\ k = Len(buffer)
      BY <1>3, <2>7, <3>2
    <3> QED BY <2>4, <3>1, <3>2
  <2>10. Writing'
    BY <2>8, <2>9 DEF Writing
  <2>11. FlashSound'
    BY <2>5, <2>7 DEF FlashSound
  <2>12. WriterSound'
    BY <1>1, <1>3, <1>6, <1>8, <2>10 DEF WriterSound
  <2>13. WordsLand
    <3>1. j <= m
      BY <2>3, <2>6
    <3> QED BY <1>8, <2>1, <2>5, <2>6, <2>7, <3>1 DEF WordsLand
  <2> QED BY <1>2, <1>6, <2>9, <2>11, <2>12, <2>13
<1> QED BY <1>1, <1>6, <1>7, <1>8 DEF WriterSound

LEMMA NextRing == ListAnytime = FALSE /\ RingInv /\ [Next]_vars => RingInv'
<1> SUFFICES ASSUME ListAnytime = FALSE, RingInv, [Next]_vars PROVE RingInv'
  OBVIOUS
<1>1. /\ TypeOK /\ FlashSound /\ WriterSound /\ sequence \in Nat
      /\ state \in {"INIT0", "IDLE", "WRITING"} /\ flashComplete \in BOOLEAN
      /\ opFlag \subseteq Kinds /\ staging \in 0 .. MaxRecords /\ log \in Seq(0 .. MaxRecords)
      /\ nextId \in 1 .. MaxRecords + 1 /\ crashes \in 0 .. MaxCrashes
      /\ flash \in [Addr -> CleanWord] /\ Packed(flash) /\ Recoverable(flash)
      /\ needSeq = FALSE /\ MaxRecords \in Nat /\ MaxCrashes \in Nat
  BY RingAssumption DEF RingAssumption, RingInv, TypeOK, FlashSound, WriterSound
<1>2. ASSUME FlashSound', WriterSound', sequence' \in Nat, state' \in {"IDLE", "WRITING"},
             flashComplete' \in BOOLEAN, log' \in Seq(0 .. MaxRecords), opFlag' \subseteq Kinds,
             staging' \in 0 .. MaxRecords, nextId' \in 1 .. MaxRecords + 1,
             crashes' \in 0 .. MaxCrashes
      PROVE  RingInv'
  <2>1. (FlashSound /\ WriterSound /\ sequence \in Nat /\ state \in {"IDLE", "WRITING"})'
          => WriterTypes'
    BY WriterTyped, PTL
  <2>2. WriterTypes'
    BY <1>2, <2>1
  <2>3. TypeOK'
    BY <1>2, <2>2 DEF TypeOK, WriterTypes, EraseStates, WriteStates, Addr
  <2> QED BY <1>2, <2>3 DEF RingInv
<1>3. CASE SuperLoop
  <2>1. /\ FlashSound' /\ WriterSound' /\ sequence' \in Nat
        /\ state' \in {"IDLE", "WRITING"} /\ flashComplete' \in BOOLEAN
        /\ log' \in Seq(0 .. MaxRecords) /\ opFlag' \subseteq Kinds
        /\ staging' \in 0 .. MaxRecords /\ UNCHANGED <<nextId, crashes>>
    BY <1>3, SuperLoopRing
  <2> QED BY <1>1, <1>2, <2>1
<1>4. CASE \E k \in Kinds : RequestRecord(k)
  <2>1. PICK k \in Kinds : RequestRecord(k)
    BY <1>4
  <2>2. /\ state # "INIT0" /\ nextId <= MaxRecords /\ staging' = nextId
        /\ opFlag' = opFlag \cup {k} /\ nextId' = nextId + 1
        /\ UNCHANGED <<flash, request, flashComplete, currentWrite, sequence, buffer,
                       goState, needSeq, state, log, crashes>>
    BY <2>1 DEF RequestRecord
  <2>3. FlashSound'
    BY <1>1, <2>2 DEF FlashSound
  <2>4. Remain' = Remain /\ NextPage' = NextPage
    BY <2>2 DEF Remain, NextPage
  <2>5. WriterSound'
    BY <1>1, <2>2, <2>4 DEF WriterSound, NoWrite, Erasing, Writing
  <2>6. /\ staging' \in 0 .. MaxRecords /\ nextId' \in 1 .. MaxRecords + 1
        /\ opFlag' \subseteq Kinds
    BY <1>1, <2>2
  <2> QED BY <1>1, <1>2, <2>2, <2>3, <2>5, <2>6
<1>5. CASE ListStore
  <2>1. /\ state = "IDLE"
        /\ UNCHANGED <<flash, flashComplete, currentWrite, sequence, goState, needSeq,
                       state, opFlag, log, nextId, crashes>>
        /\ buffer' = <<>> /\ staging' = ScannedOver
        /\ \E words \in {request.words, [i \in DOMAIN request.words |-> Garbled]} :
              request' = [request EXCEPT !.words = words]
    BY <1>5 DEF ListStore, ghostVars
  <2>2. NoWrite /\ Stands(flash, currentWrite, sequence)
    BY <1>1, <2>1 DEF WriterSound
  <2>3. request = Flash!NoRequest /\ request.words = <<>>
    BY <2>2 DEF NoWrite, Flash!NoRequest
  <2>4. request' = Flash!NoRequest
    BY <2>1, <2>3, NoWords
  <2>5. WriterSound'
    BY <1>1, <2>1, <2>2, <2>4 DEF WriterSound, NoWrite
  <2>6. FlashSound'
    BY <1>1, <2>1 DEF FlashSound
  <2>7. staging' \in 0 .. MaxRecords
    BY <1>1, <2>1 DEF ScannedOver
  <2> QED BY <1>1, <1>2, <2>1, <2>5, <2>6, <2>7
<1>6. CASE FlashLands \/ FlashReports
  <2>1. /\ FlashSound' /\ WriterSound' /\ flashComplete' \in BOOLEAN
        /\ state = "WRITING" /\ UNCHANGED <<ramVars, ghostVars>>
    BY <1>6, FlashRing
  <2> QED BY <1>1, <1>2, <2>1 DEF ramVars, ghostVars
<1>7. CASE PowerLoss
  <2>1. /\ crashes' \in 0 .. MaxCrashes
        /\ flash' = flash /\ request' = Flash!NoRequest /\ flashComplete' = FALSE
        /\ currentWrite' = 0 /\ sequence' = 0
        /\ buffer' = <<>> /\ goState' = "IDLE" /\ needSeq' = FALSE
        /\ state' = "INIT0" /\ opFlag' = {} /\ staging' = 0 /\ nextId' = nextId
    BY <1>1, <1>7 DEF PowerLoss, Flash!FlashPowerLoss
  <2>2. log' = log \/ (buffer # <<>> /\ log' = Append(log, buffer[1].id))
    BY <1>7 DEF PowerLoss
  <2>3. buffer # <<>> => buffer[1].id \in 0 .. MaxRecords
    <3>1. CASE state = "INIT0"
      BY <1>1, <3>1 DEF WriterSound, NoWrite
    <3>2. CASE state \in {"IDLE", "WRITING"}
      BY <1>1, <3>2, WriterTyped DEF WriterTypes
    <3> QED BY <1>1, <3>1, <3>2
  <2>4. log' \in Seq(0 .. MaxRecords)
    BY <1>1, <2>2, <2>3
  <2>5. FlashSound'
    BY <1>1, <2>1 DEF FlashSound
  <2>6. WriterSound'
    BY <2>1 DEF WriterSound, NoWrite
  <2>7. /\ (flash \in [Addr -> Word])' /\ 0 \in 0 .. StoreEnd /\ 0 <= BufWords
        /\ Flash!NoRequest \in Flash!Request
    <3>1. StoreEnd # 0
      BY Geometry, PageInside
    <3>2. 0 \in Addr /\ 0 \in 0 .. StoreEnd /\ 0 <= BufWords
      BY <3>1, Geometry, Lengths
    <3> QED BY <1>1, <2>1, <3>2, Words DEF Flash!NoRequest, Flash!Request, Addr
  <2>8. TypeOK'
    <3>1. (buffer \in Seq(Word))' /\ (Len(buffer) <= BufWords)'
      BY <2>1, <2>7
    <3>2. /\ (request \in Flash!Request)' /\ (flash \in [Flash!Addr -> Word])'
          /\ (currentWrite \in 0 .. StoreEnd)'
      BY <2>1, <2>7 DEF Addr
    <3>3. (staging \in 0 .. MaxRecords)' /\ (nextId \in 1 .. MaxRecords + 1)'
          /\ (sequence \in Nat)'
      <4>1. 0 \in 0 .. MaxRecords /\ 0 \in Nat
        BY <1>1
      <4> QED BY <1>1, <2>1, <4>1
    <3>5. /\ (opFlag \subseteq Kinds)' /\ (flashComplete \in BOOLEAN)'
          /\ (needSeq \in BOOLEAN)' /\ (state \in {"INIT0", "IDLE", "WRITING"})'
      BY <2>1
    <3>4. (goState \in EraseStates \cup WriteStates \cup {"ERASE3", "WRITE3"})'
      BY <2>1 DEF EraseStates
    <3> QED BY <2>1, <2>4, <3>1, <3>2, <3>3, <3>4, <3>5 DEF TypeOK
  <2> QED BY <2>5, <2>6, <2>8 DEF RingInv
<1>8. CASE UNCHANGED vars
  <2>1. UNCHANGED <<flash, request, flashComplete, currentWrite, sequence, buffer,
                    goState, needSeq, state, opFlag, staging, log, nextId, crashes>>
    BY <1>8 DEF vars, ramVars, ghostVars
  <2>2. FlashSound'
    BY <1>1, <2>1 DEF FlashSound
  <2>3. Remain' = Remain /\ NextPage' = NextPage
    BY <2>1 DEF Remain, NextPage
  <2>4. WriterSound'
    BY <1>1, <2>1, <2>3 DEF WriterSound, NoWrite, Erasing, Writing
  <2>5. TypeOK'
    BY <1>1, <2>1 DEF TypeOK
  <2> QED BY <2>2, <2>4, <2>5 DEF RingInv
<1> QED BY <1>3, <1>4, <1>5, <1>6, <1>7, <1>8 DEF Next

-----------------------------------------------------------------------------
(* The theorems                                                            *)

\* Unless a "store list" comes in the middle of a write (ListAnytime), every
\* variable keeps its type: the write pointer of store.c stays inside the
\* region and no record outgrows buffer[].
THEOREM TypeCorrect == ASSUME ListAnytime = FALSE PROVE Spec => []TypeOK
<1>1. RingInv => TypeOK
  BY DEF RingInv
<1> QED BY InitRing, NextRing, <1>1, PTL DEF Spec

\* ... wrGo programs erased flash only, whatever landed before a power loss,
\* and its second and third tries are never needed.
THEOREM ProgramsErasedFlash == ASSUME ListAnytime = FALSE PROVE Spec => []NeverGarbles
<1>1. RingInv => NeverGarbles
  <2> SUFFICES ASSUME RingInv PROVE NeverGarbles
    OBVIOUS
  <2>1. \A a \in Flash!Addr : flash[a] # Garbled
    BY Words DEF RingInv, FlashSound, Addr
  <2>2. goState \in {"IDLE", "ERASE1", "WRITE1"}
    BY DEF RingInv, TypeOK, WriterSound, NoWrite
  <2> QED BY <2>1, <2>2 DEF NeverGarbles
<1> QED BY InitRing, NextRing, <1>1, PTL DEF Spec

\* ... and the pointer and the sequence number that an idle store works with
\* are those a restart would read from the flash.
THEOREM StandsWhereARestartWould == ASSUME ListAnytime = FALSE PROVE Spec => []RestartAgrees
<1>1. RingInv => RestartAgrees
  <2> SUFFICES ASSUME RingInv, state = "IDLE"
               PROVE  ReadWritePtr(flash) = currentWrite /\ ReadSequence(flash) = sequence
    BY DEF RestartAgrees
  <2>1. flash \in [Addr -> CleanWord] /\ Stands(flash, currentWrite, sequence)
    BY DEF RingInv, FlashSound, WriterSound
  <2> QED BY <2>1, RestartFinds
<1> QED BY InitRing, NextRing, <1>1, PTL DEF Spec

-----------------------------------------------------------------------------
(* Reading a tape of words                                                 *)

Scanned == [buf : Seq(CleanWord), out : Seq(Nat)]
Blank == [buf |-> <<>>, out |-> <<>>]

\* importWord, without the flag that skips the erased rest of a page.
Take(st, w) ==
    IF IsHead(w)
    THEN [buf |-> IF w = Erased THEN <<>> ELSE <<w>>, out |-> st.out \o Delivered(st.buf)]
    ELSE IF st.buf = <<>> \/ Len(st.buf) = BufWords THEN st
         ELSE [st EXCEPT !.buf = Append(@, w)]

\* The states of a scan of the words T[a], ..., T[n - 1].
IsScan(S, T, a, n) == S = [i \in a .. n |-> IF i = a THEN Blank ELSE Take(S[i - 1], T[i - 1])]
Scan(T, a, n) == (CHOOSE S : IsScan(S, T, a, n))[n]

\* The ids passed up once the record in the buffer is, too.
Reads(T, a, n) == Scan(T, a, n).out \o Delivered(Scan(T, a, n).buf)

LEMMA Induct ==
    ASSUME NEW a \in Nat, NEW P, a \in P,
           \A n \in Nat : n >= a /\ n \in P => n + 1 \in P
    PROVE  \A n \in Nat : n >= a => n \in P
<1> DEFINE S == {n \in Nat : n >= a /\ n \notin P}
<1> SUFFICES ASSUME S # {} PROVE FALSE
  OBVIOUS
<1>1. PICK x \in S : \A y \in S : x <= y
  <2>1. S \in SUBSET Nat
    OBVIOUS
  <2> HIDE DEF S
  <2> QED BY <2>1, LeastOf
<1>2. x \in Nat /\ x > a /\ x - 1 \in Nat /\ x - 1 >= a /\ x - 1 \notin S
  BY <1>1
<1>3. x - 1 \in P
  BY <1>2
<1>4. (x - 1) + 1 \in P
  BY <1>2, <1>3
<1> QED BY <1>1, <1>2, <1>4

LEMMA ScanExists ==
    ASSUME NEW T, NEW a \in Nat
    PROVE  \A n \in Nat : n >= a => \E S : IsScan(S, T, a, n)
<1> DEFINE P == {n \in Nat : \E S : IsScan(S, T, a, n)}
<1>1. a \in P
  <2> DEFINE S == [i \in a .. a |-> Blank]
  <2>1. IsScan(S, T, a, a)
    BY DEF IsScan
  <2> QED BY <2>1
<1>2. ASSUME NEW n \in Nat, n >= a, n \in P PROVE n + 1 \in P
  <2>1. PICK S : IsScan(S, T, a, n)
    BY <1>2
  <2> DEFINE U == [i \in a .. n + 1 |-> IF i = n + 1 THEN Take(S[n], T[n]) ELSE S[i]]
  <2>2. \A i \in a .. n : S[i] = IF i = a THEN Blank ELSE Take(S[i - 1], T[i - 1])
    BY <2>1 DEF IsScan
  <2>3. ASSUME NEW i \in a .. n + 1
        PROVE  U[i] = IF i = a THEN Blank ELSE Take(U[i - 1], T[i - 1])
    <3>1. CASE i = n + 1
      <4>1. U[i] = Take(S[n], T[n]) /\ i - 1 = n /\ U[n] = S[n] /\ i # a
        BY <1>2, <3>1
      <4> HIDE DEF U
      <4> QED BY <4>1
    <3>2. CASE i # n + 1
      <4>1. i \in a .. n /\ U[i] = S[i] /\ (i # a => U[i - 1] = S[i - 1])
        BY <1>2, <3>2
      <4> HIDE DEF U
      <4> QED BY <2>2, <4>1
    <3> QED BY <3>1, <3>2
  <2>4. U = [i \in a .. n + 1 |-> U[i]]
    OBVIOUS
  <2> HIDE DEF U
  <2>5. IsScan(U, T, a, n + 1)
    BY <2>3, <2>4 DEF IsScan
  <2> QED BY <2>5
<1> HIDE DEF P
<1>3. \A n \in Nat : n >= a => n \in P
  BY <1>1, <1>2, Induct
<1> QED BY <1>3 DEF P

\* U holds from a to n the words that T holds d words further.
SameWords(U, T, a, n, d) == \A i \in a .. n - 1 : U[i] = T[i + d]

\* Two scans that read the same words are in the same states.
LEMMA ScansAgree ==
    ASSUME NEW U, NEW T, NEW a \in Nat, NEW n \in Nat, a <= n, NEW d \in Nat,
           NEW S, IsScan(S, U, a, n), NEW k \in Nat, n + d <= k,
           NEW R, IsScan(R, T, a + d, k), SameWords(U, T, a, n, d)
    PROVE  S[n] = R[n + d]
<1> DEFINE P == {i \in Nat : i <= n => S[i] = R[i + d]}
<1>1. \A i \in a .. n : S[i] = IF i = a THEN Blank ELSE Take(S[i - 1], U[i - 1])
  BY DEF IsScan
<1>2. \A i \in a + d .. k : R[i] = IF i = a + d THEN Blank ELSE Take(R[i - 1], T[i - 1])
  BY DEF IsScan
<1>3. a \in P
  <2>1. a \in a .. n /\ a + d \in a + d .. k
    OBVIOUS
  <2>2. S[a] = Blank /\ R[a + d] = Blank
    BY <1>1, <1>2, <2>1
  <2> QED BY <2>2
<1>4. ASSUME NEW i \in Nat, i >= a, i \in P PROVE i + 1 \in P
  <2> SUFFICES ASSUME i + 1 <= n PROVE S[i + 1] = R[(i + 1) + d]
    OBVIOUS
  <2>1. S[i] = R[i + d]
    BY <1>4
  <2>2. /\ i + 1 \in a .. n /\ i + 1 # a /\ (i + 1) - 1 = i /\ i \in a .. n - 1
        /\ (i + 1) + d \in a + d .. k /\ (i + 1) + d # a + d /\ ((i + 1) + d) - 1 = i + d
    BY <1>4
  <2>3. S[i + 1] = Take(S[i], U[i])
    BY <1>1, <2>2
  <2>4. R[(i + 1) + d] = Take(R[i + d], T[i + d])
    BY <1>2, <2>2
  <2>5. U[i] = T[i + d]
    BY <2>2 DEF SameWords
  <2> QED BY <2>1, <2>3, <2>4, <2>5
<1> HIDE DEF P
<1>5. \A i \in Nat : i >= a => i \in P
  BY <1>3, <1>4, Induct
<1> QED BY <1>5 DEF P

LEMMA ScanIs ==
    ASSUME NEW T, NEW a \in Nat, NEW n \in Nat, n >= a
    PROVE  /\ Scan(T, a, a) = Blank
           /\ Scan(T, a, n + 1) = Take(Scan(T, a, n), T[n])
<1>1. ASSUME NEW k \in Nat, k >= a
      PROVE  \E S : IsScan(S, T, a, k) /\ Scan(T, a, k) = S[k]
  BY <1>1, ScanExists DEF Scan
<1>2. PICK S : IsScan(S, T, a, n + 1) /\ Scan(T, a, n + 1) = S[n + 1]
  BY <1>1
<1>3. PICK R : IsScan(R, T, a, n) /\ Scan(T, a, n) = R[n]
  BY <1>1
<1>4. S[n] = R[n]
  <2>1. SameWords(T, T, a, n, 0)
    BY DEF SameWords
  <2>2. /\ a + 0 = a /\ n + 0 = n /\ 0 \in Nat /\ n + 1 \in Nat
        /\ a <= n /\ n + 0 <= n + 1 /\ IsScan(S, T, a + 0, n + 1)
    BY <1>2
  <2>3. R[n] = S[n + 0]
    BY <1>3, <2>1, <2>2, ScansAgree
  <2> QED BY <2>2, <2>3
<1>5. S[n + 1] = Take(S[n], T[n])
  BY <1>2 DEF IsScan
<1>6. Scan(T, a, a) = Blank
  <2>1. PICK Q : IsScan(Q, T, a, a) /\ Scan(T, a, a) = Q[a]
    BY <1>1
  <2> QED BY <2>1 DEF IsScan
<1> QED BY <1>2, <1>3, <1>4, <1>5, <1>6

\* A scan of the same words, d words further, reads the same.
LEMMA ReadsShifted ==
    ASSUME NEW U, NEW T, NEW a \in Nat, NEW n \in Nat, a <= n, NEW d \in Nat,
           SameWords(U, T, a, n, d)
    PROVE  Reads(U, a, n) = Reads(T, a + d, n + d)
<1>1. /\ a + d \in Nat /\ n + d \in Nat /\ n + d >= a + d /\ n + d <= n + d
  OBVIOUS
<1>2. PICK S : IsScan(S, U, a, n) /\ Scan(U, a, n) = S[n]
  BY ScanExists DEF Scan
<1>3. PICK R : IsScan(R, T, a + d, n + d) /\ Scan(T, a + d, n + d) = R[n + d]
  BY <1>1, ScanExists DEF Scan
<1>4. S[n] = R[n + d]
  BY <1>1, <1>2, <1>3, ScansAgree
<1> QED BY <1>2, <1>3, <1>4 DEF Reads

LEMMA ReadsSame ==
    ASSUME NEW U, NEW T, NEW a \in Nat, NEW n \in Nat, a <= n,
           \A i \in a .. n - 1 : U[i] = T[i]
    PROVE  Reads(U, a, n) = Reads(T, a, n)
<1>1. SameWords(U, T, a, n, 0) /\ 0 \in Nat /\ a + 0 = a /\ n + 0 = n
  BY DEF SameWords
<1>2. Reads(U, a, n) = Reads(T, a + 0, n + 0)
  BY <1>1, ReadsShifted
<1> QED BY <1>1, <1>2

-----------------------------------------------------------------------------
(* What words do to a scan                                                 *)

\* The words of a tape, up to n.
CleanTape(T, n) == \A i \in 0 .. n - 1 : T[i] \in CleanWord

LEMMA DeliveredIs ==
    /\ Delivered(<<>>) = <<>>
    /\ \A buf \in Seq(CleanWord) : Delivered(buf) \in Seq(Nat)
    /\ \A w : w.kind \notin Kinds => Delivered(<<w>>) = <<>>
<1>1. Delivered(<<>>) = <<>>
  BY DEF Delivered
<1>2. ASSUME NEW buf \in Seq(CleanWord) PROVE Delivered(buf) \in Seq(Nat)
  <2>1. buf # <<>> => buf[1] \in CleanWord
    OBVIOUS
  <2>2. buf # <<>> => buf[1].id \in Nat
    BY <2>1, Words
  <2>3. <<>> \in Seq(Nat) /\ <<0>> \in Seq(Nat) /\ \A x \in Nat : <<x>> \in Seq(Nat)
    OBVIOUS
  <2>4. Delivered(buf) \in {<<>>, <<buf[1].id>>, <<0>>} /\ (buf = <<>> => Delivered(buf) = <<>>)
    BY DEF Delivered
  <2> QED BY <2>2, <2>3, <2>4
<1>3. ASSUME NEW w, w.kind \notin Kinds PROVE Delivered(<<w>>) = <<>>
  <2>1. <<w>>[1] = w
    OBVIOUS
  <2> QED BY <1>3, <2>1 DEF Delivered
<1> QED BY <1>1, <1>2, <1>3

LEMMA TakeTyped ==
    ASSUME NEW st \in Scanned, NEW w \in CleanWord
    PROVE  Take(st, w) \in Scanned
<1>1. st.buf \in Seq(CleanWord) /\ st.out \in Seq(Nat)
  BY DEF Scanned
<1>2. st.out \o Delivered(st.buf) \in Seq(Nat)
  BY <1>1, DeliveredIs, ConcatProperties
<1>3. <<>> \in Seq(CleanWord) /\ <<w>> \in Seq(CleanWord) /\ Append(st.buf, w) \in Seq(CleanWord)
  BY <1>1
<1>4. [st EXCEPT !.buf = Append(@, w)] \in Scanned
  BY <1>1, <1>3 DEF Scanned
<1>5. [buf |-> IF w = Erased THEN <<>> ELSE <<w>>, out |-> st.out \o Delivered(st.buf)] \in Scanned
  BY <1>2, <1>3 DEF Scanned
<1> QED BY <1>4, <1>5 DEF Take

LEMMA ScanTyped ==
    ASSUME NEW T, NEW a \in Nat, NEW n \in Nat, a <= n, CleanTape(T, n)
    PROVE  Scan(T, a, n) \in Scanned /\ Reads(T, a, n) \in Seq(Nat)
<1> DEFINE P == {i \in Nat : i <= n => Scan(T, a, i) \in Scanned}
<1>1. a \in P
  <2>1. Scan(T, a, a) = Blank
    BY ScanIs
  <2>2. Blank \in Scanned
    BY DEF Blank, Scanned
  <2> QED BY <2>1, <2>2
<1>2. ASSUME NEW i \in Nat, i >= a, i \in P PROVE i + 1 \in P
  <2> SUFFICES ASSUME i + 1 <= n PROVE Scan(T, a, i + 1) \in Scanned
    OBVIOUS
  <2>1. Scan(T, a, i) \in Scanned /\ i \in 0 .. n - 1
    BY <1>2
  <2>2. T[i] \in CleanWord
    BY <2>1 DEF CleanTape
  <2>3. Scan(T, a, i + 1) = Take(Scan(T, a, i), T[i])
    BY <1>2, ScanIs
  <2> QED BY <2>1, <2>2, <2>3, TakeTyped
<1> HIDE DEF P
<1>3. \A i \in Nat : i >= a => i \in P
  BY <1>1, <1>2, Induct
<1>4. Scan(T, a, n) \in Scanned
  BY <1>3 DEF P
<1>5. Scan(T, a, n).out \in Seq(Nat) /\ Scan(T, a, n).buf \in Seq(CleanWord)
  BY <1>4 DEF Scanned
<1>6. Reads(T, a, n) \in Seq(Nat)
  BY <1>5, DeliveredIs, ConcatProperties DEF Reads
<1> QED BY <1>4, <1>6

LEMMA ReadsNothing ==
    ASSUME NEW T, NEW a \in Nat
    PROVE  Reads(T, a, a) = <<>>
<1>1. Scan(T, a, a) = Blank
  BY ScanIs
<1>2. Reads(T, a, a) = Blank.out \o Delivered(Blank.buf)
  BY <1>1 DEF Reads
<1>3. <<>> \o <<>> = <<>>
  OBVIOUS
<1> QED BY <1>2, <1>3, DeliveredIs DEF Blank

\* The first word of anything passes the record before it up.
LEMMA HeadRead ==
    ASSUME NEW T, NEW a \in Nat, NEW n \in Nat, a <= n, IsHead(T[n])
    PROVE  Scan(T, a, n + 1) = [buf |-> IF T[n] = Erased THEN <<>> ELSE <<T[n]>>,
                                out |-> Reads(T, a, n)]
BY ScanIs DEF Take, Reads

LEMMA ReadsOf ==
    ASSUME NEW T, NEW a, NEW n, NEW st, Scan(T, a, n) = st
    PROVE  Reads(T, a, n) = st.out \o Delivered(st.buf)
BY DEF Reads

\* Erased words and sequence records add nothing.
LEMMA SilentRead ==
    ASSUME NEW T, NEW a \in Nat, NEW n \in Nat, a <= n, CleanTape(T, n),
           T[n] = Erased \/ \E q \in Nat : T[n] = SeqWord(q)
    PROVE  Reads(T, a, n + 1) = Reads(T, a, n)
<1>1. IsHead(T[n]) /\ T[n].kind \notin Kinds
  <2>1. Kinds \cap {"seq", "erased", "garbled"} = {}
    BY RingAssumption DEF RingAssumption
  <2>2. /\ Erased.idx = 0 /\ Erased.kind = "erased"
        /\ \A q : SeqWord(q).idx = 0 /\ SeqWord(q).kind = "seq"
    BY DEF Erased, SeqWord
  <2> QED BY <2>1, <2>2 DEF IsHead
<1> DEFINE buf == IF T[n] = Erased THEN <<>> ELSE <<T[n]>>
           st  == [buf |-> buf, out |-> Reads(T, a, n)]
<1>2. Scan(T, a, n + 1) = st /\ st.buf = buf /\ st.out = Reads(T, a, n)
  BY <1>1, HeadRead
<1>3. Delivered(buf) = <<>>
  BY <1>1, DeliveredIs
<1> HIDE DEF buf, st
<1>4. Reads(T, a, n + 1) = Reads(T, a, n) \o <<>>
  <2>1. Reads(T, a, n + 1) = st.out \o Delivered(st.buf)
    BY <1>2, ReadsOf
  <2> QED BY <1>2, <1>3, <2>1
<1>5. Reads(T, a, n) \in Seq(Nat)
  BY ScanTyped
<1> QED BY <1>4, <1>5, ConcatEmptySeq

LEMMA ErasedRead ==
    ASSUME NEW T, NEW a \in Nat, NEW n \in Nat, a <= n, NEW m \in Nat, n <= m, CleanTape(T, m),
           \A i \in n .. m - 1 : T[i] = Erased
    PROVE  Reads(T, a, m) = Reads(T, a, n)
<1> DEFINE P == {i \in Nat : i <= m => Reads(T, a, i) = Reads(T, a, n)}
<1>1. n \in P
  OBVIOUS
<1>2. ASSUME NEW i \in Nat, i >= n, i \in P PROVE i + 1 \in P
  <2> SUFFICES ASSUME i + 1 <= m PROVE Reads(T, a, i + 1) = Reads(T, a, n)
    OBVIOUS
  <2>1. Reads(T, a, i) = Reads(T, a, n) /\ T[i] = Erased /\ CleanTape(T, i) /\ a <= i
    BY <1>2 DEF CleanTape
  <2> QED BY <2>1, SilentRead
<1> HIDE DEF P
<1>3. \A i \in Nat : i >= n => i \in P
  BY <1>1, <1>2, Induct
<1> QED BY <1>3 DEF P

-----------------------------------------------------------------------------
(* A record on the tape                                                    *)

\* The first j words of the record of kind k with the data x.
Part(k, x, j) == [i \in 1 .. j |-> [kind |-> k, id |-> x, idx |-> i - 1]]

LEMMA PartIs ==
    ASSUME NEW k \in Kinds, NEW x \in Nat, NEW j \in 1 .. RecWords[k]
    PROVE  /\ Part(k, x, j) \in Seq(CleanWord) /\ Len(Part(k, x, j)) = j /\ Part(k, x, j) # <<>>
           /\ Delivered(Part(k, x, j)) = IF j = RecWords[k] THEN <<x>> ELSE <<>>
           /\ j < RecWords[k] =>
                Append(Part(k, x, j), [kind |-> k, id |-> x, idx |-> j]) = Part(k, x, j + 1)
<1> DEFINE r == Part(k, x, j)
           n == RecWords[k]
<1>1. n \in Nat /\ n >= 1
  BY Lengths
<1>2. j \in Nat /\ j >= 1 /\ j <= n
  BY <1>1
<1>3. \A i \in 1 .. j : [kind |-> k, id |-> x, idx |-> i - 1] \in CleanWord
  BY DEF CleanWord, RecordWord
<1>4. r \in Seq(CleanWord) /\ Len(r) = j /\ \A i \in 1 .. j : r[i] = [kind |-> k, id |-> x, idx |-> i - 1]
  BY <1>2, <1>3 DEF Part
<1>5. r # <<>> /\ r[1] = [kind |-> k, id |-> x, idx |-> 0]
  <2>1. 1 \in 1 .. j
    BY <1>2
  <2> HIDE DEF r
  <2> QED BY <1>2, <1>4, <2>1
<1>6. Delivered(r) = IF j = n THEN <<x>> ELSE <<>>
  <2> HIDE DEF r, n
  <2>1. r[1].kind = k /\ r[1].id = x
    BY <1>5
  <2>2. Delivered(r) = IF Len(r) < n THEN <<>>
                       ELSE IF \A i \in 1 .. n : r[i] = [r[1] EXCEPT !.idx = i - 1]
                            THEN <<x>> ELSE <<0>>
    BY <1>5, <2>1 DEF Delivered, n
  <2>3. j = n => \A i \in 1 .. n : r[i] = [r[1] EXCEPT !.idx = i - 1]
    BY <1>4, <1>5
  <2> QED BY <1>1, <1>2, <1>4, <2>2, <2>3
<1>7. ASSUME j < n PROVE Append(r, [kind |-> k, id |-> x, idx |-> j]) = Part(k, x, j + 1)
  <2> DEFINE s == Append(r, [kind |-> k, id |-> x, idx |-> j])
             t == Part(k, x, j + 1)
  <2>1. \A i \in 1 .. j + 1 : [kind |-> k, id |-> x, idx |-> i - 1] \in CleanWord
    BY DEF CleanWord, RecordWord
  <2>2. t \in Seq(CleanWord) /\ Len(t) = j + 1
        /\ \A i \in 1 .. j + 1 : t[i] = [kind |-> k, id |-> x, idx |-> i - 1]
    BY <1>2, <2>1 DEF Part
  <2>3. [kind |-> k, id |-> x, idx |-> j] \in CleanWord
    BY <1>2 DEF CleanWord, RecordWord
  <2> HIDE DEF r, t
  <2>4. s \in Seq(CleanWord) /\ Len(s) = j + 1
        /\ \A i \in 1 .. j + 1 : s[i] = IF i = j + 1 THEN [kind |-> k, id |-> x, idx |-> j] ELSE r[i]
    BY <1>2, <1>4, <2>3
  <2> HIDE DEF s
  <2>5. \A i \in 1 .. j + 1 : s[i] = t[i]
    BY <1>2, <1>4, <2>2, <2>4
  <2>6. s = t
    BY <2>2, <2>4, <2>5, SeqEqual
  <2> QED BY <2>6 DEF s, t
<1> QED BY <1>4, <1>5, <1>6, <1>7

\* One id more.
Plus(s, x) == Append(s, x)

\* The first j words of the record stand from n on.
RecordAt(T, n, k, x, j) ==
    /\ k \in Kinds /\ x \in Nat /\ j \in 0 .. RecWords[k]
    /\ \A i \in 1 .. j : T[n + i - 1] = [kind |-> k, id |-> x, idx |-> i - 1]

\* They collect, and are passed up when they are all.
LEMMA RecordRead ==
    ASSUME NEW T, NEW a \in Nat, NEW n \in Nat, a <= n, CleanTape(T, n),
           NEW k, NEW x, NEW j, RecordAt(T, n, k, x, j)
    PROVE  /\ j = RecWords[k] => Reads(T, a, n + j) = Plus(Reads(T, a, n), x)
           /\ j # RecWords[k] => Reads(T, a, n + j) = Reads(T, a, n)
<1> DEFINE P == {i \in Nat : i <= j => Scan(T, a, n + i) = [buf |-> Part(k, x, i), out |-> Reads(T, a, n)]}
<1>0. /\ k \in Kinds /\ x \in Nat /\ j \in 0 .. RecWords[k] /\ j \in Nat
      /\ RecWords[k] \in Nat /\ RecWords[k] >= 1 /\ RecWords[k] < BufWords /\ BufWords \in Nat
  BY Lengths DEF RecordAt
<1>1. 1 \in P
  <2> SUFFICES ASSUME 1 <= j
               PROVE  Scan(T, a, n + 1) = [buf |-> Part(k, x, 1), out |-> Reads(T, a, n)]
    OBVIOUS
  <2>1. 1 \in 1 .. j /\ n + 1 - 1 = n /\ 1 - 1 = 0
    BY <1>0
  <2>2. T[n] = [kind |-> k, id |-> x, idx |-> 0]
    BY <2>1 DEF RecordAt
  <2>3. T[n].idx = 0 /\ T[n].kind = k
    BY <2>2
  <2>4. T[n] # Erased
    <3>1. T[n] \in RecordWord
      BY <1>0, <2>2 DEF RecordWord
    <3> QED BY <3>1, Words
  <2>5. Part(k, x, 1) = <<T[n]>>
    <3>1. Part(k, x, 1) = [i \in 1 .. 1 |-> T[n]]
      BY <2>2 DEF Part
    <3> QED BY <3>1
  <2> QED BY <2>3, <2>4, <2>5, HeadRead DEF IsHead
<1>2. ASSUME NEW i \in Nat, i >= 1, i \in P PROVE i + 1 \in P
  <2> SUFFICES ASSUME i + 1 <= j
               PROVE  Scan(T, a, n + (i + 1)) = [buf |-> Part(k, x, i + 1), out |-> Reads(T, a, n)]
    OBVIOUS
  <2>1. Scan(T, a, n + i) = [buf |-> Part(k, x, i), out |-> Reads(T, a, n)]
    BY <1>0, <1>2
  <2>2. /\ i + 1 \in 1 .. j /\ n + (i + 1) - 1 = n + i /\ (i + 1) - 1 = i /\ n + i \in Nat
        /\ n + i >= a /\ (n + i) + 1 = n + (i + 1) /\ i \in 1 .. RecWords[k] /\ i < RecWords[k]
    BY <1>0, <1>2
  <2>3. T[n + i] = [kind |-> k, id |-> x, idx |-> i]
    <3>1. T[n + (i + 1) - 1] = [kind |-> k, id |-> x, idx |-> (i + 1) - 1]
      BY <2>2 DEF RecordAt
    <3> QED BY <2>2, <3>1
  <2>4. ~IsHead(T[n + i])
    BY <1>2, <2>3 DEF IsHead
  <2>5. /\ Part(k, x, i) # <<>> /\ Len(Part(k, x, i)) # BufWords
        /\ Append(Part(k, x, i), [kind |-> k, id |-> x, idx |-> i]) = Part(k, x, i + 1)
    BY <1>0, <2>2, PartIs
  <2>6. Scan(T, a, n + (i + 1)) = Take(Scan(T, a, n + i), T[n + i])
    BY <2>2, ScanIs
  <2>7. Take([buf |-> Part(k, x, i), out |-> Reads(T, a, n)], T[n + i])
          = [buf |-> Append(Part(k, x, i), T[n + i]), out |-> Reads(T, a, n)]
    BY <2>4, <2>5 DEF Take
  <2> QED BY <2>1, <2>3, <2>5, <2>6, <2>7
<1> HIDE DEF P
<1>3. \A i \in Nat : i >= 1 => i \in P
  <2>1. 1 \in Nat
    OBVIOUS
  <2> QED BY <1>1, <1>2, <2>1, Induct
<1>4. Reads(T, a, n) \in Seq(Nat)
  BY ScanTyped
<1>5. CASE j = 0
  BY <1>0, <1>5
<1>6. CASE j # 0
  <2> DEFINE st == [buf |-> Part(k, x, j), out |-> Reads(T, a, n)]
  <2>1. Scan(T, a, n + j) = st /\ st.buf = Part(k, x, j) /\ st.out = Reads(T, a, n)
    BY <1>0, <1>3, <1>6 DEF P
  <2> HIDE DEF st
  <2>2. Reads(T, a, n + j) = Reads(T, a, n) \o Delivered(Part(k, x, j))
    <3>1. Reads(T, a, n + j) = st.out \o Delivered(st.buf)
      BY <2>1, ReadsOf
    <3> QED BY <2>1, <3>1
  <2>3. Delivered(Part(k, x, j)) = IF j = RecWords[k] THEN <<x>> ELSE <<>>
    <3>1. j \in 1 .. RecWords[k]
      BY <1>0, <1>6
    <3> QED BY <1>0, <3>1, PartIs
  <2>4. Reads(T, a, n) \o <<x>> = Plus(Reads(T, a, n), x) /\ Reads(T, a, n) \o <<>> = Reads(T, a, n)
    BY <1>4, AppendIsConcat, ConcatEmptySeq DEF Plus
  <2> QED BY <2>2, <2>3, <2>4
<1> QED BY <1>5, <1>6

-----------------------------------------------------------------------------
(* Reading from a later word on                                            *)

\* The ids in out, and the first word of buf, are of records that begin
\* between the words a and d of the tape.
From(T, a, d, out) ==
    \A x \in ToSet(out) : x = 0 \/ \E i \in a .. d - 1 : T[i].id = x /\ T[i].kind \in Kinds
BufferFrom(T, a, d, buf) == buf # <<>> => \E i \in a .. d - 1 : T[i] = buf[1]

LEMMA FromConcat ==
    ASSUME NEW T, NEW a, NEW d, NEW s \in Seq(Nat), NEW t \in Seq(Nat),
           From(T, a, d, s), From(T, a, d, t)
    PROVE  From(T, a, d, s \o t)
<1>1. ASSUME NEW x \in ToSet(s \o t) PROVE x \in ToSet(s) \/ x \in ToSet(t)
  <2>1. /\ s \o t \in Seq(Nat) /\ Len(s \o t) = Len(s) + Len(t)
        /\ \A i \in 1 .. Len(s) + Len(t) : (s \o t)[i] = IF i <= Len(s) THEN s[i] ELSE t[i - Len(s)]
    BY ConcatProperties
  <2>2. DOMAIN (s \o t) = 1 .. Len(s) + Len(t) /\ DOMAIN s = 1 .. Len(s) /\ DOMAIN t = 1 .. Len(t)
        /\ Len(s) \in Nat /\ Len(t) \in Nat
    BY <2>1, LenProperties
  <2>3. PICK i \in 1 .. Len(s) + Len(t) : x = (s \o t)[i]
    BY <2>2 DEF ToSet
  <2>4. CASE i <= Len(s)
    <3>1. x = s[i] /\ i \in DOMAIN s
      BY <2>1, <2>2, <2>3, <2>4
    <3> QED BY <3>1 DEF ToSet
  <2>5. CASE ~(i <= Len(s))
    <3>1. x = t[i - Len(s)] /\ i - Len(s) \in DOMAIN t
      BY <2>1, <2>2, <2>3, <2>5
    <3> QED BY <3>1 DEF ToSet
  <2> QED BY <2>4, <2>5
<1> QED BY <1>1 DEF From

LEMMA DeliveredFrom ==
    ASSUME NEW T, NEW a, NEW d, NEW buf \in Seq(CleanWord), BufferFrom(T, a, d, buf)
    PROVE  From(T, a, d, Delivered(buf))
<1>1. CASE buf = <<>> \/ buf[1].kind \notin Kinds
  <2>1. Delivered(buf) = <<>>
    BY <1>1 DEF Delivered
  <2> QED BY <2>1 DEF From, ToSet
<1>2. CASE buf # <<>> /\ buf[1].kind \in Kinds
  <2>1. PICK i \in a .. d - 1 : T[i] = buf[1]
    BY <1>2 DEF BufferFrom
  <2>2. Delivered(buf) \in {<<>>, <<buf[1].id>>, <<0>>}
    BY DEF Delivered
  <2>3. \A x : ToSet(<<x>>) = {x}
    BY DEF ToSet
  <2>4. ToSet(<<>>) = {}
    BY DEF ToSet
  <2>5. \A x \in ToSet(Delivered(buf)) : x = 0 \/ x = buf[1].id
    BY <2>2, <2>3, <2>4
  <2> QED BY <1>2, <2>1, <2>5 DEF From
<1> QED BY <1>1, <1>2

\* What importWord makes of a word that is no head.
LEMMA TailTaken ==
    ASSUME NEW st \in Scanned, NEW w \in CleanWord, ~IsHead(w)
    PROVE  /\ Take(st, w).out = st.out
           /\ st.buf = <<>> => Take(st, w) = st
           /\ st.buf # <<>> => Take(st, w).buf # <<>> /\ Take(st, w).buf[1] = st.buf[1]
           /\ \A su \in Scanned : su.buf = st.buf => Take(su, w).buf = Take(st, w).buf
<1> DEFINE New(s) == IF s.buf = <<>> \/ Len(s.buf) = BufWords THEN s.buf ELSE Append(s.buf, w)
<1>1. \A s \in Scanned : Take(s, w).out = s.out /\ Take(s, w).buf = New(s)
  BY DEF Take, Scanned
<1>2. ASSUME st.buf # <<>> PROVE New(st) # <<>> /\ New(st)[1] = st.buf[1]
  <2>1. st.buf \in Seq(CleanWord) /\ Len(st.buf) \in Nat /\ Len(st.buf) >= 1
    BY <1>2 DEF Scanned
  <2>2. Append(st.buf, w) # <<>> /\ Append(st.buf, w)[1] = st.buf[1]
    BY <2>1, AppendProperties
  <2> QED BY <1>2, <2>2
<1>3. st.buf = <<>> => Take(st, w) = st
  BY DEF Take
<1> QED BY <1>1, <1>2, <1>3

LEMMA HeadTaken ==
    ASSUME NEW st, NEW w, IsHead(w)
    PROVE  /\ Take(st, w).out = st.out \o Delivered(st.buf)
           /\ Take(st, w).buf = IF w = Erased THEN <<>> ELSE <<w>>
BY DEF Take

LEMMA FromMono ==
    ASSUME NEW T, NEW a \in Nat, NEW d \in Nat, NEW e \in Nat, d <= e, NEW out, NEW buf
    PROVE  /\ From(T, a, d, out) => From(T, a, e, out)
           /\ BufferFrom(T, a, d, buf) => BufferFrom(T, a, e, buf)
<1>1. \A i \in a .. d - 1 : i \in a .. e - 1
  OBVIOUS
<1> QED BY <1>1 DEF From, BufferFrom

\* Whatever a scan has read began in the words it has seen.
LEMMA ScanFrom ==
    ASSUME NEW T, NEW a \in Nat, NEW n \in Nat, a <= n, CleanTape(T, n)
    PROVE  From(T, a, n, Scan(T, a, n).out) /\ BufferFrom(T, a, n, Scan(T, a, n).buf)
<1> DEFINE P == {i \in Nat : i <= n => /\ From(T, a, i, Scan(T, a, i).out)
                                       /\ BufferFrom(T, a, i, Scan(T, a, i).buf)}
<1>1. a \in P
  <2>1. Scan(T, a, a).out = <<>> /\ Scan(T, a, a).buf = <<>>
    BY ScanIs DEF Blank
  <2>2. ToSet(<<>>) = {}
    BY DEF ToSet
  <2> QED BY <2>1, <2>2 DEF From, BufferFrom
<1>2. ASSUME NEW i \in Nat, i >= a, i \in P PROVE i + 1 \in P
  <2> DEFINE st == Scan(T, a, i)
             w  == T[i]
  <2> SUFFICES ASSUME i + 1 <= n
               PROVE  /\ From(T, a, i + 1, Scan(T, a, i + 1).out)
                      /\ BufferFrom(T, a, i + 1, Scan(T, a, i + 1).buf)
    OBVIOUS
  <2>1. CleanTape(T, i) /\ w \in CleanWord /\ a <= i
    BY <1>2 DEF CleanTape
  <2>2. st \in Scanned /\ Scan(T, a, i + 1) = Take(st, w)
    BY <1>2, <2>1, ScanTyped, ScanIs
  <2>3. From(T, a, i, st.out) /\ BufferFrom(T, a, i, st.buf)
    BY <1>2
  <2> HIDE DEF st, w, P
  <2>4. st.out \in Seq(Nat) /\ st.buf \in Seq(CleanWord)
    BY <2>2 DEF Scanned
  <2>5. i + 1 \in Nat /\ i <= i + 1
    OBVIOUS
  <2>6. CASE IsHead(w)
    <3>1. From(T, a, i, Delivered(st.buf)) /\ Delivered(st.buf) \in Seq(Nat)
      BY <2>3, <2>4, DeliveredFrom, DeliveredIs
    <3>2. From(T, a, i, st.out \o Delivered(st.buf))
      BY <2>3, <2>4, <3>1, FromConcat
    <3>3. From(T, a, i + 1, st.out \o Delivered(st.buf))
      BY <2>5, <3>2, FromMono
    <3>4. BufferFrom(T, a, i + 1, Take(st, w).buf)
      <4>1. i \in a .. (i + 1) - 1 /\ T[i] = w
        BY <1>2 DEF w
      <4>2. <<w>>[1] = w
        OBVIOUS
      <4> QED BY <2>6, <4>1, <4>2, HeadTaken DEF BufferFrom
    <3> QED BY <2>2, <2>6, <3>3, <3>4, HeadTaken
  <2>7. CASE ~IsHead(w)
    <3>1. From(T, a, i + 1, Take(st, w).out)
      BY <2>1, <2>2, <2>3, <2>5, <2>7, TailTaken, FromMono
    <3>2. BufferFrom(T, a, i, Take(st, w).buf)
      BY <2>1, <2>2, <2>3, <2>7, TailTaken DEF BufferFrom
    <3> QED BY <2>2, <2>5, <3>1, <3>2, FromMono
  <2> QED BY <2>6, <2>7
<1> HIDE DEF P
<1>3. \A i \in Nat : i >= a => i \in P
  BY <1>1, <1>2, Induct
<1> QED BY <1>3 DEF P

LEMMA Associates == \A r, s, t \in Seq(Nat) : (r \o s) \o t = r \o (s \o t)
BY ConcatAssociative

\* A scan that begins later reads the same but for records that began earlier.
Behind(T, a, d, st, su) ==
    \/ /\ su.buf = <<>> /\ su.out = <<>>
       /\ From(T, a, d, st.out) /\ BufferFrom(T, a, d, st.buf)
    \/ /\ su.buf = st.buf
       /\ \E D \in Seq(Nat) : st.out = D \o su.out /\ From(T, a, d, D)

LEMMA StaysBehind ==
    ASSUME NEW T, NEW a \in Nat, NEW d \in Nat, NEW st \in Scanned, NEW su \in Scanned,
           NEW w \in CleanWord, Behind(T, a, d, st, su)
    PROVE  Behind(T, a, d, Take(st, w), Take(su, w))
<1>1. /\ st.out \in Seq(Nat) /\ st.buf \in Seq(CleanWord)
      /\ su.out \in Seq(Nat) /\ su.buf \in Seq(CleanWord)
  BY DEF Scanned
<1>2. /\ Delivered(st.buf) \in Seq(Nat) /\ Delivered(<<>>) = <<>>
      /\ \A s \in Seq(Nat) : s \o <<>> = s /\ <<>> \o s = s
  BY <1>1, DeliveredIs, ConcatEmptySeq
<1>3. ASSUME su.buf = <<>>, su.out = <<>>, From(T, a, d, st.out), BufferFrom(T, a, d, st.buf)
      PROVE  Behind(T, a, d, Take(st, w), Take(su, w))
  <2>1. CASE IsHead(w)
    <3>1. From(T, a, d, st.out \o Delivered(st.buf))
      BY <1>1, <1>2, <1>3, DeliveredFrom, FromConcat
    <3>2. /\ Take(su, w).out = <<>> /\ Take(su, w).buf = Take(st, w).buf
          /\ Take(st, w).out = st.out \o Delivered(st.buf)
      <4>1. <<>> \o <<>> = <<>>
        OBVIOUS
      <4>2. Take(su, w).out = su.out \o Delivered(su.buf)
        BY <2>1, HeadTaken
      <4>3. Take(su, w).out = <<>>
        BY <1>2, <1>3, <4>1, <4>2
      <4> QED BY <2>1, <4>3, HeadTaken
    <3>3. st.out \o Delivered(st.buf) \in Seq(Nat)
      BY <1>1, <1>2, ConcatProperties
    <3>4. Take(st, w).out = (st.out \o Delivered(st.buf)) \o Take(su, w).out
      BY <1>2, <3>2, <3>3
    <3> QED BY <3>1, <3>2, <3>3, <3>4 DEF Behind
  <2>2. CASE ~IsHead(w)
    <3>1. Take(su, w) = su /\ Take(st, w).out = st.out
      BY <1>3, <2>2, TailTaken
    <3>2. BufferFrom(T, a, d, Take(st, w).buf)
      BY <1>3, <2>2, TailTaken DEF BufferFrom
    <3> QED BY <1>3, <3>1, <3>2 DEF Behind
  <2> QED BY <2>1, <2>2
<1>4. ASSUME su.buf = st.buf, NEW D \in Seq(Nat), st.out = D \o su.out, From(T, a, d, D)
      PROVE  Behind(T, a, d, Take(st, w), Take(su, w))
  <2>1. CASE IsHead(w)
    <3>1. /\ Take(su, w).buf = Take(st, w).buf
          /\ Take(su, w).out = su.out \o Delivered(st.buf)
          /\ Take(st, w).out = st.out \o Delivered(st.buf)
      BY <1>4, <2>1, HeadTaken
    <3>2. (D \o su.out) \o Delivered(st.buf) = D \o (su.out \o Delivered(st.buf))
      BY <1>1, <1>2, <1>4, Associates
    <3> QED BY <1>4, <3>1, <3>2 DEF Behind
  <2>2. CASE ~IsHead(w)
    <3>1. /\ Take(su, w).out = su.out /\ Take(st, w).out = st.out
          /\ Take(su, w).buf = Take(st, w).buf
      BY <1>4, <2>2, TailTaken
    <3> QED BY <1>4, <3>1 DEF Behind
  <2> QED BY <2>1, <2>2
<1> QED BY <1>3, <1>4 DEF Behind

LEMMA ReadsLater ==
    ASSUME NEW T, NEW a \in Nat, NEW d \in Nat, NEW n \in Nat, a <= d, d <= n, CleanTape(T, n)
    PROVE  \E D \in Seq(Nat) : Reads(T, a, n) = D \o Reads(T, d, n) /\ From(T, a, d, D)
<1> DEFINE P == {i \in Nat : i <= n => Behind(T, a, d, Scan(T, a, i), Scan(T, d, i))}
<1>1. d \in P
  <2>1. CleanTape(T, d)
    BY DEF CleanTape
  <2>2. From(T, a, d, Scan(T, a, d).out) /\ BufferFrom(T, a, d, Scan(T, a, d).buf)
    BY <2>1, ScanFrom
  <2>3. Scan(T, d, d).out = <<>> /\ Scan(T, d, d).buf = <<>>
    BY ScanIs DEF Blank
  <2> QED BY <2>2, <2>3 DEF Behind
<1>2. ASSUME NEW i \in Nat, i >= d, i \in P PROVE i + 1 \in P
  <2> SUFFICES ASSUME i + 1 <= n PROVE Behind(T, a, d, Scan(T, a, i + 1), Scan(T, d, i + 1))
    OBVIOUS
  <2>1. CleanTape(T, i) /\ T[i] \in CleanWord /\ a <= i /\ d <= i
    BY <1>2 DEF CleanTape
  <2>2. /\ Scan(T, a, i) \in Scanned /\ Scan(T, d, i) \in Scanned
        /\ Scan(T, a, i + 1) = Take(Scan(T, a, i), T[i])
        /\ Scan(T, d, i + 1) = Take(Scan(T, d, i), T[i])
    BY <2>1, ScanTyped, ScanIs
  <2>3. Behind(T, a, d, Scan(T, a, i), Scan(T, d, i))
    BY <1>2
  <2> HIDE DEF P
  <2> QED BY <2>1, <2>2, <2>3, StaysBehind
<1> HIDE DEF P
<1>3. \A i \in Nat : i >= d => i \in P
  BY <1>1, <1>2, Induct
<1> DEFINE st == Scan(T, a, n)
           su == Scan(T, d, n)
<1>4. Behind(T, a, d, st, su)
  BY <1>3 DEF P
<1>5. st \in Scanned /\ su \in Scanned
  BY ScanTyped
<1>6. Reads(T, a, n) = st.out \o Delivered(st.buf) /\ Reads(T, d, n) = su.out \o Delivered(su.buf)
  BY DEF Reads
<1> HIDE DEF st, su
<1>7. /\ st.out \in Seq(Nat) /\ st.buf \in Seq(CleanWord)
      /\ su.out \in Seq(Nat) /\ su.buf \in Seq(CleanWord)
  BY <1>5 DEF Scanned
<1>8. /\ Delivered(st.buf) \in Seq(Nat) /\ Delivered(<<>>) = <<>>
      /\ \A s \in Seq(Nat) : s \o <<>> = s
  BY <1>7, DeliveredIs, ConcatEmptySeq
<1>9. ASSUME su.buf = <<>>, su.out = <<>>, From(T, a, d, st.out), BufferFrom(T, a, d, st.buf)
      PROVE  \E D \in Seq(Nat) : Reads(T, a, n) = D \o Reads(T, d, n) /\ From(T, a, d, D)
  <2> DEFINE D == st.out \o Delivered(st.buf)
  <2>1. D \in Seq(Nat) /\ From(T, a, d, D)
    BY <1>7, <1>8, <1>9, DeliveredFrom, FromConcat, ConcatProperties
  <2>2. Reads(T, d, n) = <<>>
    <3>1. <<>> \o <<>> = <<>>
      OBVIOUS
    <3> QED BY <1>6, <1>8, <1>9, <3>1
  <2> HIDE DEF D
  <2>3. Reads(T, a, n) = D \o <<>>
    BY <1>6, <1>8, <2>1 DEF D
  <2> QED BY <2>1, <2>2, <2>3
<1>10. ASSUME su.buf = st.buf, NEW D \in Seq(Nat), st.out = D \o su.out, From(T, a, d, D)
       PROVE  \E E \in Seq(Nat) : Reads(T, a, n) = E \o Reads(T, d, n) /\ From(T, a, d, E)
  <2>1. (D \o su.out) \o Delivered(st.buf) = D \o (su.out \o Delivered(st.buf))
    BY <1>7, <1>8, <1>10, Associates
  <2>2. Reads(T, a, n) = D \o Reads(T, d, n)
    BY <1>6, <1>10, <2>1
  <2> QED BY <1>10, <2>2
<1> QED BY <1>4, <1>9, <1>10 DEF Behind

-----------------------------------------------------------------------------
(* readFlash reads the pages in use as one tape                            *)

Pages == 0 .. PageCount - 1

\* The j-th page from o on, round the region.
Fwd(o, j) == IF o + j < PageCount THEN o + j ELSE o + j - PageCount

\* The n-th word from the start of page o, and the distance of address a.
At(o, n) == IF PageStart(o) + n < StoreEnd THEN PageStart(o) + n ELSE PageStart(o) + n - StoreEnd
Dist(o, a) == IF a >= PageStart(o) THEN a - PageStart(o) ELSE a - PageStart(o) + StoreEnd

\* The region as it is read from page o.
Tape(f, o) == [n \in 0 .. StoreEnd - 1 |-> f[At(o, n)]]

IsImport(S, f, o, words) ==
    S = [n \in 0 .. words |->
            IF n = 0 THEN [buf |-> <<>>, out |-> <<>>, stop |-> FALSE]
            ELSE LET st == S[n - 1]
                 IN  IF st.stop /\ (n - 1) % PageWords # 0 THEN st
                     ELSE ImportWord([st EXCEPT !.stop = FALSE],
                                     f[((o * PageWords) + n - 1) % StoreEnd])]
Imported(f, o, words) == (CHOOSE S : IsImport(S, f, o, words))[words]

LEMMA ReadbackImports ==
    ASSUME NEW f, UsedPages(f) # {}
    PROVE  LET u == UsedPages(f)
               o == Oldest(u).page
               words == (((Newest(u).page - o) % PageCount) + 1) * PageWords
           IN  Readback(f) = ImportWord(Imported(f, o, words), Erased).out
BY DEF Readback, Imported, IsImport

\* The start of the j-th page from o on.
LEMMA FwdIs ==
    ASSUME NEW o \in Pages, NEW j \in 0 .. PageCount - 1
    PROVE  /\ Fwd(o, j) \in Pages
           /\ PageStart(o) \in Nat /\ PageStart(j) \in Nat /\ PageStart(Fwd(o, j)) \in Nat
           /\ PageStart(o) + PageWords <= StoreEnd /\ PageStart(j) + PageWords <= StoreEnd
           /\ PageStart(Fwd(o, j)) + PageWords <= StoreEnd
           /\ PageStart(Fwd(o, j)) = IF o + j < PageCount THEN PageStart(o) + PageStart(j)
                                     ELSE PageStart(o) + PageStart(j) - StoreEnd
<1>1. PageCount \in Nat /\ PageCount >= 2 /\ PageWords \in Nat \ {0} /\ o \in Nat /\ j \in Nat
      /\ StoreEnd \in Nat
  BY Geometry DEF Pages
<1>2. Fwd(o, j) \in 0 .. PageCount - 1 /\ o \in 0 .. PageCount - 1
  BY <1>1 DEF Fwd, Pages
<1>3. /\ PageStart(o) \in Nat /\ PageStart(j) \in Nat /\ PageStart(Fwd(o, j)) \in Nat
      /\ PageStart(o) + PageWords <= StoreEnd /\ PageStart(j) + PageWords <= StoreEnd
      /\ PageStart(Fwd(o, j)) + PageWords <= StoreEnd
  BY <1>2, PageInside
<1>4. CASE o + j < PageCount
  <2>1. \A p, q, w \in Nat : (p + q) * w = p * w + q * w
    BY Z3
  <2> QED BY <1>1, <1>2, <1>3, <1>4, <2>1 DEF Fwd, PageStart, Pages
<1>5. CASE ~(o + j < PageCount)
  <2>1. \A p, q, r, w \in Nat : p + q - r \in Nat => (p + q - r) * w = p * w + q * w - r * w
    BY Z3
  <2>2. o + j - PageCount \in Nat
    BY <1>1, <1>5
  <2>3. (o + j - PageCount) * PageWords = o * PageWords + j * PageWords - PageCount * PageWords
    BY <1>1, <2>1, <2>2
  <2>4. StoreEnd = PageCount * PageWords
    BY Geometry DEF PageStart
  <2> QED BY <1>1, <1>2, <1>3, <1>5, <2>3, <2>4 DEF Fwd, PageStart, Pages
<1> QED BY <1>2, <1>3, <1>4, <1>5 DEF Pages

LEMMA FwdInjective ==
    ASSUME NEW o \in Pages, NEW i \in 0 .. PageCount - 1, NEW j \in 0 .. PageCount - 1,
           Fwd(o, i) = Fwd(o, j)
    PROVE  i = j
<1>1. PageCount \in Nat
  BY Geometry
<1> QED BY <1>1 DEF Fwd, Pages

\* The word i of the j-th page from o on.
LEMMA AtPage ==
    ASSUME NEW o \in Pages, NEW j \in 0 .. PageCount - 1, NEW i \in 0 .. PageWords - 1
    PROVE  /\ PageStart(j) + i \in 0 .. StoreEnd - 1
           /\ At(o, PageStart(j) + i) = PageStart(Fwd(o, j)) + i
           /\ At(o, PageStart(j) + i) \in Addr
           /\ PageOf(At(o, PageStart(j) + i)) = Fwd(o, j)
<1>1. /\ Fwd(o, j) \in Pages
      /\ PageStart(o) \in Nat /\ PageStart(j) \in Nat /\ PageStart(Fwd(o, j)) \in Nat
      /\ PageStart(o) + PageWords <= StoreEnd /\ PageStart(j) + PageWords <= StoreEnd
      /\ PageStart(Fwd(o, j)) + PageWords <= StoreEnd
      /\ PageStart(Fwd(o, j)) = IF o + j < PageCount THEN PageStart(o) + PageStart(j)
                                ELSE PageStart(o) + PageStart(j) - StoreEnd
  BY FwdIs
<1>2. /\ PageCount \in Nat /\ PageWords \in Nat \ {0} /\ StoreEnd \in Nat /\ Addr = 0 .. StoreEnd - 1
      /\ Fwd(o, j) \in Nat /\ Fwd(o, j) \in 0 .. PageCount - 1
  BY <1>1, Geometry DEF Pages
<1> DEFINE s == PageStart(o)
           t == PageStart(j)
           g == PageStart(Fwd(o, j))
<1>3. PageStart(j) + i \in 0 .. StoreEnd - 1
  BY <1>1, <1>2
<1>4. At(o, PageStart(j) + i) = PageStart(Fwd(o, j)) + i
  <2>1. CASE o + j < PageCount
    <3>1. s + (t + i) = g + i /\ g + i < StoreEnd
      <4> HIDE DEF s, t, g
      <4> QED BY <1>1, <1>2, <2>1 DEF s, t, g
    <3> QED BY <3>1 DEF At
  <2>2. CASE ~(o + j < PageCount)
    <3>1. s + (t + i) - StoreEnd = g + i /\ ~(s + (t + i) < StoreEnd)
      <4>1. g = s + t - StoreEnd /\ s \in Nat /\ t \in Nat /\ g \in Nat
        BY <1>1, <2>2
      <4> HIDE DEF s, t, g
      <4>2. i \in Nat /\ StoreEnd \in Nat
        BY <1>2
      <4> QED BY <4>1, <4>2
    <3> QED BY <3>1 DEF At
  <2> QED BY <2>1, <2>2
<1>5. PageStart(Fwd(o, j)) + i \in Addr /\ PageOf(PageStart(Fwd(o, j)) + i) = Fwd(o, j)
  BY <1>2, WordIs
<1> QED BY <1>3, <1>4, <1>5

\* Every distance is a word of a page.
LEMMA SpotIs ==
    ASSUME NEW n \in 0 .. StoreEnd - 1
    PROVE  /\ n \in Nat /\ PageOf(n) \in 0 .. PageCount - 1 /\ PageStart(PageOf(n)) \in Nat
           /\ n % PageWords \in 0 .. PageWords - 1
           /\ n % PageWords = n - PageStart(PageOf(n))
           /\ PageStart(PageOf(n)) + (n % PageWords) = n
<1>1. n \in Addr /\ n \in Nat
  BY Geometry
<1>2. /\ PageOf(n) \in 0 .. PageCount - 1 /\ n - PageStart(PageOf(n)) \in 0 .. PageWords - 1
      /\ PageStart(PageOf(n)) \in Nat /\ PageStart(PageOf(n)) + (n - PageStart(PageOf(n))) = n
  BY <1>1, AddrIs
<1>3. n % PageWords = n - PageStart(PageOf(n))
  BY <1>1, PageSpan
<1> QED BY <1>1, <1>2, <1>3

LEMMA AtIs ==
    ASSUME NEW o \in Pages, NEW n \in 0 .. StoreEnd - 1
    PROVE  /\ At(o, n) \in Addr /\ PageOf(At(o, n)) = Fwd(o, PageOf(n))
           /\ At(o, n) = ((o * PageWords) + n) % StoreEnd
           /\ Dist(o, At(o, n)) = n
<1>1. /\ n \in Nat /\ PageOf(n) \in 0 .. PageCount - 1
      /\ n % PageWords \in 0 .. PageWords - 1
      /\ PageStart(PageOf(n)) + (n % PageWords) = n
  BY SpotIs
<1>2. At(o, n) \in Addr /\ PageOf(At(o, n)) = Fwd(o, PageOf(n))
  <2> HIDE DEF PageOf, PageStart
  <2>1. /\ At(o, PageStart(PageOf(n)) + (n % PageWords)) \in Addr
        /\ PageOf(At(o, PageStart(PageOf(n)) + (n % PageWords))) = Fwd(o, PageOf(n))
    BY <1>1, AtPage
  <2> QED BY <1>1, <2>1
<1>3. PageStart(o) \in Nat /\ PageStart(o) < StoreEnd /\ StoreEnd \in Nat
      /\ PageStart(o) = o * PageWords
  <2>1. PageStart(o) \in Nat /\ PageStart(o) + PageWords <= StoreEnd
    BY PageInside DEF Pages
  <2>2. PageWords \in Nat \ {0} /\ StoreEnd \in Nat
    BY Geometry
  <2> QED BY <2>1, <2>2 DEF PageStart
<1>4. At(o, n) = ((o * PageWords) + n) % StoreEnd
  <2>1. \A s, m, w \in Nat : s < w /\ m < w
          => (s + m) % w = IF s + m < w THEN s + m ELSE s + m - w
    BY Z3
  <2>2. (PageStart(o) + n) % StoreEnd
          = IF PageStart(o) + n < StoreEnd THEN PageStart(o) + n ELSE PageStart(o) + n - StoreEnd
    BY <1>1, <1>3, <2>1
  <2> QED BY <1>3, <2>2 DEF At
<1>5. Dist(o, At(o, n)) = n
  BY <1>1, <1>3 DEF Dist, At
<1> QED BY <1>2, <1>4, <1>5

\* The distance of an address in the j-th page from o on.
LEMMA DistIs ==
    ASSUME NEW o \in Pages, NEW a \in Addr
    PROVE  /\ Dist(o, a) \in 0 .. StoreEnd - 1 /\ At(o, Dist(o, a)) = a
           /\ \A j \in 0 .. PageCount - 1 : PageOf(a) = Fwd(o, j)
                => PageOf(Dist(o, a)) = j /\ Dist(o, a) - PageStart(j) = a - PageStart(PageOf(a))
<1>1. PageStart(o) \in Nat /\ PageStart(o) < StoreEnd /\ StoreEnd \in Nat /\ a \in Nat /\ a < StoreEnd
  <2>1. PageStart(o) \in Nat /\ PageStart(o) + PageWords <= StoreEnd
    BY PageInside DEF Pages
  <2>2. PageWords \in Nat \ {0} /\ StoreEnd \in Nat /\ Addr = 0 .. StoreEnd - 1
    BY Geometry
  <2> QED BY <2>1, <2>2
<1>2. Dist(o, a) \in 0 .. StoreEnd - 1 /\ At(o, Dist(o, a)) = a
  BY <1>1 DEF Dist, At
<1>3. ASSUME NEW j \in 0 .. PageCount - 1, PageOf(a) = Fwd(o, j)
      PROVE  PageOf(Dist(o, a)) = j /\ Dist(o, a) - PageStart(j) = a - PageStart(PageOf(a))
  <2> DEFINE n == Dist(o, a)
  <2>1. PageOf(n) \in 0 .. PageCount - 1 /\ Fwd(o, PageOf(n)) = Fwd(o, j)
    <3>1. PageOf(At(o, n)) = Fwd(o, PageOf(n))
      BY <1>2, AtIs
    <3> QED BY <1>2, <1>3, <3>1, SpotIs
  <2>2. PageOf(n) = j
    BY <2>1, FwdInjective
  <2>3. /\ n % PageWords \in 0 .. PageWords - 1 /\ n % PageWords = n - PageStart(j)
        /\ PageStart(j) + (n % PageWords) = n /\ PageStart(j) \in Nat /\ n \in Nat
    BY <1>2, <2>2, SpotIs
  <2>4. At(o, PageStart(j) + (n % PageWords)) = PageStart(Fwd(o, j)) + (n % PageWords)
    BY <2>3, AtPage
  <2>5. a = PageStart(PageOf(a)) + (n - PageStart(j))
    BY <1>2, <1>3, <2>3, <2>4
  <2>6. PageStart(PageOf(a)) \in Nat
    BY <1>1, PageSpan
  <2> HIDE DEF n
  <2> QED BY <1>1, <2>2, <2>3, <2>5, <2>6 DEF n
<1> QED BY <1>2, <1>3

LEMMA TapeIs ==
    ASSUME NEW f \in [Addr -> CleanWord], NEW o \in Pages
    PROVE  /\ \A n \in 0 .. StoreEnd - 1 : Tape(f, o)[n] = f[At(o, n)] /\ Tape(f, o)[n] \in CleanWord
           /\ \A n \in Nat : n <= StoreEnd => CleanTape(Tape(f, o), n)
<1>1. \A n \in 0 .. StoreEnd - 1 : Tape(f, o)[n] = f[At(o, n)] /\ Tape(f, o)[n] \in CleanWord
  BY AtIs DEF Tape
<1>2. ASSUME NEW n \in Nat, n <= StoreEnd PROVE CleanTape(Tape(f, o), n)
  <2>1. StoreEnd \in Nat
    BY Geometry
  <2>2. \A i \in 0 .. n - 1 : i \in 0 .. StoreEnd - 1
    BY <1>2, <2>1
  <2> QED BY <1>1, <2>2 DEF CleanTape
<1> QED BY <1>1, <1>2

\* After an erased word only erased words follow in the page.
LEMMA TapePacked ==
    ASSUME NEW f \in [Addr -> CleanWord], Packed(f), NEW o \in Pages,
           NEW n \in 0 .. StoreEnd - 1, n % PageWords # 0, Tape(f, o)[n - 1] = Erased
    PROVE  Tape(f, o)[n] = Erased
<1> DEFINE p == PageOf(n)
           i == n % PageWords
<1>1. /\ n \in Nat /\ p \in 0 .. PageCount - 1 /\ PageStart(p) \in Nat
      /\ i \in 0 .. PageWords - 1 /\ PageStart(p) + i = n
  BY SpotIs
<1>2. PageWords \in Nat \ {0} /\ StoreEnd \in Nat
  BY Geometry
<1> HIDE DEF p, i
<1>3. i # 0 /\ i - 1 \in 0 .. PageWords - 1 /\ n - 1 = PageStart(p) + (i - 1) /\ n - 1 \in 0 .. StoreEnd - 1
  <2>1. i # 0
    BY DEF i
  <2> QED BY <1>1, <1>2, <2>1
<1>4. /\ At(o, n) = PageStart(Fwd(o, p)) + i /\ PageOf(At(o, n)) = Fwd(o, p) /\ At(o, n) \in Addr
      /\ At(o, n - 1) = PageStart(Fwd(o, p)) + (i - 1) /\ PageOf(At(o, n - 1)) = Fwd(o, p)
      /\ At(o, n - 1) \in Addr
  BY <1>1, <1>3, AtPage
<1>5. At(o, n - 1) < At(o, n)
  <2>1. PageStart(Fwd(o, p)) \in Nat
    BY <1>1, FwdIs
  <2> QED BY <1>1, <1>3, <1>4, <2>1
<1>6. f[At(o, n - 1)] = Erased
  BY <1>3, TapeIs
<1>7. f[At(o, n)] = Erased
  BY <1>4, <1>5, <1>6 DEF Packed
<1> QED BY <1>7, TapeIs

\* The reader's state after n words of the tape.
Upto(T, n) == [buf |-> Scan(T, 0, n).buf, out |-> Scan(T, 0, n).out,
               stop |-> n # 0 /\ T[n - 1] = Erased]

\* One word of readFlash, from the state st.
Imports(st, f, o, n) ==
    IF st.stop /\ (n - 1) % PageWords # 0 THEN st
    ELSE ImportWord([st EXCEPT !.stop = FALSE], f[((o * PageWords) + n - 1) % StoreEnd])

\* Clearing the flag changes nothing else; neither does filling the buffer.
LEMMA Going ==
    ASSUME NEW x, NEW y, NEW z, NEW w
    PROVE  /\ [[buf |-> x, out |-> y, stop |-> z] EXCEPT !.stop = FALSE]
                = [buf |-> x, out |-> y, stop |-> FALSE]
           /\ [[buf |-> x, out |-> y, stop |-> FALSE] EXCEPT !.buf = Append(@, w)]
                = [buf |-> Append(x, w), out |-> y, stop |-> FALSE]
<1> DEFINE no == FALSE
<1>1. [[buf |-> x, out |-> y, stop |-> z] EXCEPT !.stop = no] = [buf |-> x, out |-> y, stop |-> no]
  <2> HIDE DEF no
  <2> QED OBVIOUS
<1>2. [[buf |-> x, out |-> y, stop |-> no] EXCEPT !.buf = Append(@, w)]
        = [buf |-> Append(x, w), out |-> y, stop |-> no]
  <2> HIDE DEF no
  <2> QED OBVIOUS
<1> QED BY <1>1, <1>2

LEMMA ImportTakes ==
    ASSUME NEW st \in Scanned, NEW b \in BOOLEAN, NEW w
    PROVE  ImportWord([[buf |-> st.buf, out |-> st.out, stop |-> b] EXCEPT !.stop = FALSE], w)
             = [buf |-> Take(st, w).buf, out |-> Take(st, w).out, stop |-> w = Erased]
<1> DEFINE s == [buf |-> st.buf, out |-> st.out, stop |-> FALSE]
<1>1. [[buf |-> st.buf, out |-> st.out, stop |-> b] EXCEPT !.stop = FALSE] = s
  <2> DEFINE x == st.buf
             y == st.out
  <2> SUFFICES [[buf |-> x, out |-> y, stop |-> b] EXCEPT !.stop = FALSE] = [buf |-> x, out |-> y, stop |-> FALSE]
    OBVIOUS
  <2> HIDE DEF x, y
  <2> QED BY Going
<1>2. s.buf = st.buf /\ s.out = st.out
  OBVIOUS
<1>3. ImportWord(s, w) = [buf |-> Take(st, w).buf, out |-> Take(st, w).out, stop |-> w = Erased]
  <2>1. CASE IsHead(w)
    <3>1. ImportWord(s, w) = [buf |-> IF w = Erased THEN <<>> ELSE <<w>>,
                              out |-> st.out \o Delivered(st.buf), stop |-> w = Erased]
      BY <1>2, <2>1 DEF ImportWord
    <3> HIDE DEF s
    <3> QED BY <2>1, <3>1, HeadTaken
  <2>2. CASE ~IsHead(w)
    <3>1. w # Erased
      BY <2>2 DEF IsHead, Erased
    <3>2. CASE st.buf = <<>> \/ Len(st.buf) = BufWords
      <4>1. Take(st, w) = st /\ ImportWord(s, w) = s
        BY <1>2, <2>2, <3>2 DEF Take, ImportWord
      <4> QED BY <3>1, <4>1
    <3>3. CASE ~(st.buf = <<>> \/ Len(st.buf) = BufWords)
      <4>1. /\ Take(st, w) = [st EXCEPT !.buf = Append(@, w)]
            /\ ImportWord(s, w) = [s EXCEPT !.buf = Append(@, w)]
        BY <1>2, <2>2, <3>3 DEF Take, ImportWord
      <4>2. [s EXCEPT !.buf = Append(@, w)]
              = [buf |-> Append(st.buf, w), out |-> st.out, stop |-> FALSE]
        BY Going
      <4>3. /\ [st EXCEPT !.buf = Append(@, w)].buf = Append(st.buf, w)
            /\ [st EXCEPT !.buf = Append(@, w)].out = st.out
        BY DEF Scanned
      <4> QED BY <3>1, <4>1, <4>2, <4>3
    <3> QED BY <3>2, <3>3
  <2> QED BY <2>1, <2>2
<1> QED BY <1>1, <1>3

LEMMA ImportStep ==
    ASSUME NEW f \in [Addr -> CleanWord], Packed(f), NEW o \in Pages, NEW n \in 1 .. StoreEnd
    PROVE  Upto(Tape(f, o), n) = Imports(Upto(Tape(f, o), n - 1), f, o, n)
<1> DEFINE T == Tape(f, o)
           st == Scan(T, 0, n - 1)
           w == T[n - 1]
           b == n - 1 # 0 /\ T[(n - 1) - 1] = Erased
<1>0. StoreEnd \in Nat
  BY Geometry
<1>1. n - 1 \in Nat /\ n - 1 >= 0 /\ (n - 1) + 1 = n /\ n # 0 /\ n - 1 \in 0 .. StoreEnd - 1
      /\ n - 1 <= StoreEnd
  BY <1>0
<1>2. w = f[((o * PageWords) + (n - 1)) % StoreEnd] /\ w \in CleanWord
  BY <1>1, TapeIs, AtIs
<1>3. (o * PageWords) + (n - 1) = (o * PageWords) + n - 1
  BY Geometry DEF Pages
<1>4. CleanTape(T, n - 1)
  BY <1>1, TapeIs
<1>5. b /\ (n - 1) % PageWords # 0 => w = Erased
  BY <1>1, TapePacked
<1>6. b => st.buf = <<>>
  <2> SUFFICES ASSUME b PROVE st.buf = <<>>
    OBVIOUS
  <2>1. (n - 1) - 1 \in Nat /\ 0 <= (n - 1) - 1 /\ ((n - 1) - 1) + 1 = n - 1
    BY <1>1
  <2>2. Scan(T, 0, n - 1) = Take(Scan(T, 0, (n - 1) - 1), T[(n - 1) - 1])
    BY <2>1, ScanIs
  <2>3. T[(n - 1) - 1] = Erased /\ IsHead(Erased)
    BY DEF IsHead, Erased
  <2> HIDE DEF T
  <2> QED BY <2>2, <2>3, HeadTaken
<1> HIDE DEF T
<1>7. st \in Scanned /\ Scan(T, 0, n) = Take(st, w)
  BY <1>1, <1>4, ScanTyped, ScanIs
<1> HIDE DEF st, w, b
<1>8. Upto(T, n - 1) = [buf |-> st.buf, out |-> st.out, stop |-> b] /\ b \in BOOLEAN
  BY DEF Upto, st, b
<1>9. Upto(T, n) = [buf |-> Take(st, w).buf, out |-> Take(st, w).out, stop |-> w = Erased]
  BY <1>1, <1>7 DEF Upto, w
<1> DEFINE u == [buf |-> st.buf, out |-> st.out, stop |-> b]
<1>10. CASE b /\ (n - 1) % PageWords # 0
  <2>1. w = Erased /\ st.buf = <<>> /\ IsHead(w)
    BY <1>5, <1>6, <1>10 DEF IsHead, Erased
  <2>2. Take(st, w).buf = <<>> /\ Take(st, w).out = st.out \o <<>>
    BY <2>1, HeadTaken, DeliveredIs
  <2>3. st.out \o <<>> = st.out
    BY <1>7, ConcatEmptySeq DEF Scanned
  <2>4. Imports(u, f, o, n) = u
    BY <1>10 DEF Imports
  <2> QED BY <1>8, <1>9, <1>10, <2>1, <2>2, <2>3, <2>4 DEF T
<1>11. CASE ~(b /\ (n - 1) % PageWords # 0)
  <2>1. Imports(u, f, o, n) = ImportWord([u EXCEPT !.stop = FALSE], w)
    BY <1>2, <1>3, <1>11 DEF Imports
  <2>2. ImportWord([u EXCEPT !.stop = FALSE], w)
          = [buf |-> Take(st, w).buf, out |-> Take(st, w).out, stop |-> w = Erased]
    BY <1>7, <1>8, ImportTakes
  <2> QED BY <1>8, <1>9, <2>1, <2>2 DEF T
<1> QED BY <1>10, <1>11

LEMMA ImportedIs ==
    ASSUME NEW f \in [Addr -> CleanWord], Packed(f), NEW o \in Pages,
           NEW words \in Nat, words <= StoreEnd
    PROVE  Imported(f, o, words) = Upto(Tape(f, o), words)
<1> DEFINE T == Tape(f, o)
           S == [n \in 0 .. words |-> Upto(T, n)]
           Start == [buf |-> <<>>, out |-> <<>>, stop |-> FALSE]
<1>0. StoreEnd \in Nat
  BY Geometry
<1>1. Upto(T, 0) = Start
  <2>1. Scan(T, 0, 0).buf = <<>> /\ Scan(T, 0, 0).out = <<>>
    BY ScanIs DEF Blank
  <2>2. (0 # 0 /\ T[0 - 1] = Erased) = FALSE
    OBVIOUS
  <2> QED BY <2>1, <2>2 DEF Upto
<1>2. \A n \in 1 .. words : Upto(T, n) = Imports(Upto(T, n - 1), f, o, n)
  BY <1>0, ImportStep
<1> HIDE DEF T
<1>3. IsImport(S, f, o, words)
  <2>1. ASSUME NEW n \in 0 .. words
        PROVE  Upto(T, n) = IF n = 0 THEN Start ELSE Imports(S[n - 1], f, o, n)
    <3>1. n # 0 => n \in 1 .. words /\ S[n - 1] = Upto(T, n - 1)
      OBVIOUS
    <3> HIDE DEF S, Start
    <3> QED BY <1>1, <1>2, <3>1
  <2>2. S = [n \in 0 .. words |-> IF n = 0 THEN Start ELSE Imports(S[n - 1], f, o, n)]
    <3>1. S = [n \in 0 .. words |-> Upto(T, n)]
      OBVIOUS
    <3> HIDE DEF S, Start
    <3> QED BY <2>1, <3>1
  <2> HIDE DEF S
  <2> QED BY <2>2 DEF IsImport, Imports
<1>4. ASSUME NEW R, IsImport(R, f, o, words) PROVE R[words] = Upto(T, words)
  <2> DEFINE P == {n \in Nat : n <= words => R[n] = Upto(T, n)}
  <2>1. \A n \in 0 .. words : R[n] = IF n = 0 THEN Start ELSE Imports(R[n - 1], f, o, n)
    BY <1>4 DEF IsImport, Imports
  <2> HIDE DEF Start
  <2>2. 0 \in P
    BY <1>1, <2>1
  <2>3. ASSUME NEW n \in Nat, n >= 0, n \in P PROVE n + 1 \in P
    <3> SUFFICES ASSUME n + 1 <= words PROVE R[n + 1] = Upto(T, n + 1)
      OBVIOUS
    <3>1. R[n] = Upto(T, n) /\ n + 1 \in 1 .. words /\ n + 1 \in 0 .. words
          /\ (n + 1) - 1 = n /\ n + 1 # 0
      BY <2>3
    <3>2. R[n + 1] = Imports(R[n], f, o, n + 1)
      BY <2>1, <3>1
    <3> QED BY <1>2, <3>1, <3>2
  <2> HIDE DEF P
  <2>4. \A n \in Nat : n >= 0 => n \in P
    BY <2>2, <2>3, Induct
  <2> QED BY <2>4 DEF P
<1> HIDE DEF S, T
<1>5. IsImport(CHOOSE R : IsImport(R, f, o, words), f, o, words)
  BY <1>3
<1>6. Imported(f, o, words) = Upto(T, words)
  BY <1>4, <1>5 DEF Imported
<1> QED BY <1>6 DEF T

-----------------------------------------------------------------------------
(* The pages in use are one run of pages, in the order of their numbers    *)

\* The m pages from o on are in use, with the sequence numbers from b on.
Run(f, o, b, m) ==
    /\ m = 0 => o = 0 /\ b = 1
    /\ \A t \in Heads(f) : \E j \in 0 .. m - 1 : PageOf(t) = Fwd(o, j) /\ f[t].id = b + j
    /\ \A j \in 0 .. m - 1 : \E t \in Heads(f) : PageOf(t) = Fwd(o, j)

LEMMA PagesUpTo ==
    ASSUME NEW m \in 0 .. PageCount
    PROVE  PageStart(m) \in Nat /\ PageStart(m) <= StoreEnd
<1>1. PageCount \in Nat /\ PageWords \in Nat \ {0} /\ StoreEnd \in Nat /\ StoreEnd = PageStart(PageCount)
  BY Geometry
<1>2. CASE m = PageCount
  BY <1>1, <1>2
<1>3. CASE m # PageCount
  <2>1. m \in 0 .. PageCount - 1
    BY <1>1, <1>3
  <2>2. PageStart(m) \in Nat /\ PageStart(m) + PageWords <= StoreEnd
    BY <2>1, PageInside
  <2> QED BY <1>1, <2>2
<1> QED BY <1>2, <1>3

\* The head of the j-th page of the run has the j-th number.
LEMMA RunHead ==
    ASSUME NEW f \in [Addr -> CleanWord], NEW o \in Pages, NEW b \in Nat, NEW m \in 0 .. PageCount,
           Run(f, o, b, m)
    PROVE  /\ \A t \in Heads(f), j \in 0 .. PageCount - 1 :
                PageOf(t) = Fwd(o, j) => j < m /\ f[t].id = b + j
           /\ \A t \in Heads(f), j \in 0 .. PageCount - 1 :
                f[t].id = b + j => j < m /\ PageOf(t) = Fwd(o, j)
           /\ Heads(f) = {} <=> m = 0
<1>0. PageCount \in Nat /\ m \in Nat
  BY Geometry
<1>1. ASSUME NEW t \in Heads(f)
      PROVE  \E i \in 0 .. m - 1 : i \in 0 .. PageCount - 1 /\ PageOf(t) = Fwd(o, i) /\ f[t].id = b + i
  <2>1. PICK i \in 0 .. m - 1 : PageOf(t) = Fwd(o, i) /\ f[t].id = b + i
    BY DEF Run
  <2>2. i \in 0 .. PageCount - 1
    BY <1>0
  <2> QED BY <2>1, <2>2
<1>2. ASSUME NEW t \in Heads(f), NEW j \in 0 .. PageCount - 1, PageOf(t) = Fwd(o, j)
      PROVE  j < m /\ f[t].id = b + j
  <2>1. PICK i \in 0 .. m - 1 : i \in 0 .. PageCount - 1 /\ PageOf(t) = Fwd(o, i) /\ f[t].id = b + i
    BY <1>1
  <2>2. i = j
    BY <1>2, <2>1, FwdInjective
  <2> QED BY <1>0, <2>1, <2>2
<1>3. ASSUME NEW t \in Heads(f), NEW j \in 0 .. PageCount - 1, f[t].id = b + j
      PROVE  j < m /\ PageOf(t) = Fwd(o, j)
  <2>1. PICK i \in 0 .. m - 1 : i \in 0 .. PageCount - 1 /\ PageOf(t) = Fwd(o, i) /\ f[t].id = b + i
    BY <1>1
  <2>2. i = j
    BY <1>3, <2>1
  <2> QED BY <1>0, <2>1, <2>2
<1>4. Heads(f) = {} <=> m = 0
  <2>1. CASE m = 0
    BY <2>1 DEF Run
  <2>2. CASE m # 0
    <3>1. 0 \in 0 .. m - 1
      BY <1>0, <2>2
    <3> QED BY <2>2, <3>1 DEF Run
  <2> QED BY <2>1, <2>2
<1> QED BY <1>2, <1>3, <1>4

\* The head of the last page of the run leads.
LEMMA RunLeads ==
    ASSUME NEW f \in [Addr -> CleanWord], NEW o \in Pages, NEW b \in Nat, NEW m \in 0 .. PageCount,
           Run(f, o, b, m), m # 0
    PROVE  \A s : Leads(f, s) <=> s \in Heads(f) /\ PageOf(s) = Fwd(o, m - 1) /\ f[s].id = b + (m - 1)
<1>0. m - 1 \in 0 .. PageCount - 1 /\ m \in Nat /\ PageCount \in Nat
  BY Geometry
<1>1. PICK n \in Heads(f) : PageOf(n) = Fwd(o, m - 1)
  BY <1>0 DEF Run
<1>2. f[n].id = b + (m - 1)
  BY <1>0, <1>1, RunHead
<1>3. ASSUME NEW t \in Heads(f) PROVE f[t].id \in Nat /\ f[t].id <= b + (m - 1)
  BY <1>0 DEF Run
<1>4. ASSUME NEW s, Leads(f, s) PROVE s \in Heads(f) /\ PageOf(s) = Fwd(o, m - 1) /\ f[s].id = b + (m - 1)
  <2>1. s \in Heads(f) /\ \A t \in Heads(f) \ {s} : f[t].id < f[s].id
    BY <1>4 DEF Leads
  <2>2. f[s].id <= b + (m - 1) /\ f[s].id \in Nat
    BY <1>3, <2>1
  <2>3. s = n
    BY <1>0, <1>2, <2>1, <2>2
  <2> QED BY <1>1, <1>2, <2>3
<1>5. ASSUME NEW s \in Heads(f), f[s].id = b + (m - 1) PROVE Leads(f, s)
  <2>1. ASSUME NEW t \in Heads(f), f[t].id = f[s].id PROVE t = s
    <3>1. PageOf(t) = Fwd(o, m - 1) /\ PageOf(s) = Fwd(o, m - 1)
      BY <1>0, <1>5, <2>1, RunHead
    <3>2. t \in Addr /\ s \in Addr /\ SeqHere(f, t) /\ SeqHere(f, s)
      BY DEF Heads
    <3>3. t \in Nat /\ s \in Nat
      BY <3>2, PageInside
    <3>4. ~(t < s) /\ ~(s < t)
      BY <3>1, <3>2 DEF SeqHere
    <3> QED BY <3>3, <3>4
  <2>2. ASSUME NEW t \in Heads(f) \ {s} PROVE f[t].id < f[s].id
    <3>1. f[t].id # f[s].id
      BY <2>1
    <3>2. f[t].id <= b + (m - 1) /\ f[t].id \in Nat
      BY <1>3
    <3> QED BY <1>0, <1>5, <3>1, <3>2
  <2> QED BY <2>2 DEF Leads
<1> QED BY <1>4, <1>5

\* What a restart reads back is what the tape of the run reads.
LEMMA ReadbackIs ==
    ASSUME NEW f \in [Addr -> CleanWord], Packed(f), NEW o \in Pages, NEW b \in Nat,
           NEW m \in 0 .. PageCount, Run(f, o, b, m)
    PROVE  /\ Readback(f) = Reads(Tape(f, o), 0, PageStart(m))
           /\ m # 0 => UsedPages(f) # {} /\ Oldest(UsedPages(f)).page = o
<1>0. PageCount \in Nat /\ PageCount >= 2 /\ m \in Nat /\ o \in Nat /\ o < PageCount /\ PageStart(0) = 0
  BY Geometry DEF Pages
<1>1. CASE m = 0
  <2>1. UsedPages(f) = {}
    BY <1>1, RunHead, UsedIs
  <2>2. Readback(f) = <<>>
    BY <2>1 DEF Readback
  <2>3. Reads(Tape(f, o), 0, 0) = <<>>
    BY ReadsNothing
  <2> QED BY <1>0, <1>1, <2>2, <2>3
<1>2. CASE m # 0
  <2> DEFINE U == UsedPages(f)
  <2>1. U = {[page |-> PageOf(s), seq |-> f[s].id] : s \in Heads(f)}
    BY UsedIs
  <2>2. 0 \in 0 .. m - 1 /\ 0 \in 0 .. PageCount - 1 /\ m - 1 \in 0 .. m - 1 /\ m - 1 \in 0 .. PageCount - 1
    BY <1>0, <1>2
  <2>3. PICK t \in Heads(f) : PageOf(t) = Fwd(o, 0)
    BY <2>2 DEF Run
  <2>4. f[t].id = b + 0
    BY <2>2, <2>3, RunHead
  <2>5. PICK s \in Heads(f) : PageOf(s) = Fwd(o, m - 1)
    BY <2>2 DEF Run
  <2>6. f[s].id = b + (m - 1)
    BY <2>2, <2>5, RunHead
  <2>7. ASSUME NEW u \in U
        PROVE  \E j \in 0 .. m - 1 : u.page = Fwd(o, j) /\ u.seq = b + j
    BY <2>1 DEF Run
  <2>8. Fwd(o, 0) = o
    BY <1>0 DEF Fwd
  <2>9. U # {} /\ Oldest(U).page = o
    <3> DEFINE x == [page |-> PageOf(t), seq |-> f[t].id]
    <3>1. x \in U /\ x.page = o /\ x.seq = b
      BY <2>1, <2>3, <2>4, <2>8
    <3> HIDE DEF x, U
    <3>2. \A v \in U : x.seq <= v.seq
      BY <2>7, <3>1
    <3>3. Oldest(U) \in U /\ \A v \in U : Oldest(U).seq <= v.seq
      BY <3>1, <3>2 DEF Oldest
    <3>4. PICK j \in 0 .. m - 1 : Oldest(U).page = Fwd(o, j) /\ Oldest(U).seq = b + j
      BY <2>7, <3>3
    <3>5. Oldest(U).seq <= b
      BY <3>1, <3>3
    <3>6. j = 0
      BY <3>4, <3>5
    <3> QED BY <2>8, <3>1, <3>4, <3>6
  <2>10. Newest(U).page = Fwd(o, m - 1)
    <3> DEFINE x == [page |-> PageOf(s), seq |-> f[s].id]
    <3>1. x \in U /\ x.page = Fwd(o, m - 1) /\ x.seq = b + (m - 1)
      BY <2>1, <2>5, <2>6
    <3> HIDE DEF x, U
    <3>2. \A v \in U : x.seq >= v.seq
      BY <1>0, <2>7, <3>1
    <3>3. Newest(U) \in U /\ \A v \in U : Newest(U).seq >= v.seq
      BY <3>1, <3>2 DEF Newest
    <3>4. PICK j \in 0 .. m - 1 : Newest(U).page = Fwd(o, j) /\ Newest(U).seq = b + j
      BY <2>7, <3>3
    <3>5. Newest(U).seq >= b + (m - 1)
      BY <3>1, <3>3
    <3>6. j = m - 1
      BY <1>0, <3>4, <3>5
    <3> QED BY <3>4, <3>6
  <2>11. ((Fwd(o, m - 1) - o) % PageCount) + 1 = m
    <3>1. \A x, n \in Nat : x < n => x % n = x /\ (x - n) % n = x
      BY Z3
    <3>2. m - 1 \in Nat /\ m - 1 < PageCount
      BY <1>0, <2>2
    <3>3. Fwd(o, m - 1) - o = m - 1 \/ Fwd(o, m - 1) - o = (m - 1) - PageCount
      BY <1>0 DEF Fwd
    <3>4. (Fwd(o, m - 1) - o) % PageCount = m - 1
      BY <1>0, <3>1, <3>2, <3>3
    <3> QED BY <1>0, <3>4
  <2> HIDE DEF U
  <2>12. (((Newest(U).page - Oldest(U).page) % PageCount) + 1) * PageWords = PageStart(m)
    BY <2>9, <2>10, <2>11 DEF PageStart
  <2>13. Readback(f) = ImportWord(Imported(f, o, PageStart(m)), Erased).out
    BY <2>9, <2>12, ReadbackImports DEF U
  <2> DEFINE st == Upto(Tape(f, o), PageStart(m))
  <2>14. Imported(f, o, PageStart(m)) = st
    BY PagesUpTo, ImportedIs
  <2>15. ImportWord(st, Erased).out = st.out \o Delivered(st.buf)
    BY DEF ImportWord, IsHead, Erased
  <2>16. st.out \o Delivered(st.buf) = Reads(Tape(f, o), 0, PageStart(m))
    BY DEF Upto, Reads
  <2> QED BY <2>9, <2>13, <2>14, <2>15, <2>16 DEF U
<1> QED BY <1>1, <1>2

-----------------------------------------------------------------------------
(* A write on the tape                                                     *)

\* The words of tape T from n to w: the first k of buf, the others erased.
Lies(T, w, n, buf, k) == \A i \in n .. w - 1 : T[i] = IF i - n < k THEN buf[i - n + 1] ELSE Erased

\* A record that has not landed whole does not lie whole before w.
Layout(T, w, n, buf, k) ==
    /\ n \in Nat /\ n <= w
    /\ Lies(T, w, n, buf, k)
    /\ IF k = Len(buf) THEN n + Len(buf) <= w
       ELSE k < RecWords[buf[1].kind] \/ w - n < RecWords[buf[1].kind]

\* A packed record, alone or with a sequence record.
Packs(buf, q) == RecordIn(buf) \/ RecordAndSeqIn(buf, q)

LEMMA BufferRecord ==
    ASSUME NEW buf, NEW q \in Nat, Packs(buf, q)
    PROVE  LET h == buf[1].kind
               x == buf[1].id
           IN  /\ h \in Kinds /\ x \in Nat /\ Len(buf) \in Nat /\ RecWords[h] \in Nat /\ RecWords[h] >= 1
               /\ \A i \in 1 .. RecWords[h] : buf[i] = [kind |-> h, id |-> x, idx |-> i - 1]
               /\ RecordIn(buf) => Len(buf) = RecWords[h]
               /\ RecordAndSeqIn(buf, q) => Len(buf) = RecWords[h] + 1 /\ buf[Len(buf)] = SeqWord(q)
<1>1. PICK rec : RecordIn(rec) /\ (buf = rec \/ buf = Append(rec, SeqWord(q)))
  BY DEF RecordIn, RecordAndSeqIn, Packs
<1>2. PICK k \in Kinds, x \in 0 .. MaxRecords : rec = NewRecord(k, x)
  BY <1>1 DEF RecordIn
<1>3. RecWords[k] \in Nat /\ RecWords[k] >= 1 /\ x \in Nat
  BY Lengths
<1>4. \A i \in 1 .. RecWords[k] : [kind |-> k, id |-> x, idx |-> i - 1] \in CleanWord
  BY <1>3 DEF RecordWord, CleanWord
<1>5. /\ rec \in Seq(CleanWord) /\ Len(rec) = RecWords[k]
      /\ \A i \in 1 .. RecWords[k] : rec[i] = [kind |-> k, id |-> x, idx |-> i - 1]
  BY <1>2, <1>3, <1>4 DEF NewRecord
<1>6. SeqWord(q) \in CleanWord
  BY Words
<1>7. \A i \in 1 .. RecWords[k] : buf[i] = [kind |-> k, id |-> x, idx |-> i - 1]
  BY <1>1, <1>3, <1>5, <1>6
<1>8. buf[1] = [kind |-> k, id |-> x, idx |-> 0]
  <2>1. 1 \in 1 .. RecWords[k] /\ 1 - 1 = 0
    BY <1>3
  <2> QED BY <1>7, <2>1
<1>9. buf[1].kind = k /\ buf[1].id = x
  BY <1>8
<1>10. RecordIn(buf) => Len(buf) = RecWords[k]
  <2> SUFFICES ASSUME RecordIn(buf) PROVE Len(buf) = RecWords[k]
    OBVIOUS
  <2>1. PICK l \in Kinds, y \in 0 .. MaxRecords : buf = NewRecord(l, y)
    BY DEF RecordIn
  <2>2. RecWords[l] \in Nat /\ RecWords[l] >= 1
    BY Lengths
  <2>3. Len(buf) = RecWords[l] /\ buf[1] = [kind |-> l, id |-> y, idx |-> 0]
    BY <2>1, <2>2 DEF NewRecord
  <2>4. l = k
    BY <1>9, <2>3
  <2> QED BY <2>3, <2>4
<1>11. RecordAndSeqIn(buf, q) => Len(buf) = RecWords[k] + 1 /\ buf[Len(buf)] = SeqWord(q)
  <2> SUFFICES ASSUME RecordAndSeqIn(buf, q) PROVE Len(buf) = RecWords[k] + 1 /\ buf[Len(buf)] = SeqWord(q)
    OBVIOUS
  <2>1. PICK l \in Kinds, y \in 0 .. MaxRecords : buf = Append(NewRecord(l, y), SeqWord(q))
    BY DEF RecordAndSeqIn
  <2>2. RecWords[l] \in Nat /\ RecWords[l] >= 1 /\ y \in Nat
    BY Lengths
  <2>3. \A i \in 1 .. RecWords[l] : [kind |-> l, id |-> y, idx |-> i - 1] \in CleanWord
    BY <2>2 DEF RecordWord, CleanWord
  <2>4. /\ NewRecord(l, y) \in Seq(CleanWord) /\ Len(NewRecord(l, y)) = RecWords[l]
        /\ NewRecord(l, y)[1] = [kind |-> l, id |-> y, idx |-> 0]
    BY <2>2, <2>3 DEF NewRecord
  <2>5. Len(buf) = RecWords[l] + 1 /\ buf[1] = [kind |-> l, id |-> y, idx |-> 0]
        /\ buf[Len(buf)] = SeqWord(q)
    BY <1>6, <2>1, <2>2, <2>4
  <2>6. l = k
    BY <1>9, <2>5
  <2> QED BY <2>5, <2>6
<1>12. Len(buf) \in Nat
  BY <1>1, <1>3, <1>5, <1>6
<1> QED BY <1>3, <1>7, <1>9, <1>10, <1>11, <1>12

\* The ids s, and that of the record in buf once its last word is the k-th.
Added(s, buf, k) == IF k = Len(buf) THEN Plus(s, buf[1].id) ELSE s

LEMMA LayoutReads ==
    ASSUME NEW T, NEW a \in Nat, NEW w \in Nat, NEW n \in Nat, a <= n, CleanTape(T, w),
           NEW buf, NEW q \in Nat, Packs(buf, q),
           NEW k \in 0 .. Len(buf), Layout(T, w, n, buf, k)
    PROVE  Reads(T, a, w) = Added(Reads(T, a, n), buf, k)
<1> DEFINE h == buf[1].kind
           x == buf[1].id
           r == RecWords[h]
           z == Len(buf)
<1>1. /\ h \in Kinds /\ x \in Nat /\ z \in Nat /\ r \in Nat /\ r >= 1
      /\ \A i \in 1 .. r : buf[i] = [kind |-> h, id |-> x, idx |-> i - 1]
      /\ z = r \/ (z = r + 1 /\ buf[z] = SeqWord(q))
  BY BufferRecord DEF Packs
<1>2. /\ n <= w /\ \A i \in n .. w - 1 : T[i] = IF i - n < k THEN buf[i - n + 1] ELSE Erased
      /\ IF k = z THEN n + z <= w ELSE k < r \/ w - n < r
  BY DEF Layout, Lies
<1> HIDE DEF h, x, r, z
<1>3. k \in Nat /\ k <= z
  BY <1>1 DEF z
<1>4. \A m \in Nat : m <= w => CleanTape(T, m)
  BY DEF CleanTape
<1>5. ASSUME NEW j \in 0 .. r, j <= k, n + j <= w
      PROVE  Reads(T, a, n + j) = IF j = r THEN Plus(Reads(T, a, n), x) ELSE Reads(T, a, n)
  <2>1. ASSUME NEW i \in 1 .. j PROVE T[n + i - 1] = [kind |-> h, id |-> x, idx |-> i - 1]
    <3>1. /\ n + i - 1 \in n .. w - 1 /\ (n + i - 1) - n < k /\ (n + i - 1) - n + 1 = i
          /\ i \in 1 .. r
      BY <1>1, <1>3, <1>5
    <3>2. T[n + i - 1] = buf[(n + i - 1) - n + 1]
      BY <1>2, <3>1
    <3> QED BY <1>1, <3>1, <3>2
  <2>2. CleanTape(T, n)
    BY <1>2, <1>4
  <2>3. RecordAt(T, n, h, x, j) /\ j \in Nat
    BY <1>1, <2>1 DEF r, RecordAt
  <2>4. /\ j = RecWords[h] => Reads(T, a, n + j) = Plus(Reads(T, a, n), x)
        /\ j # RecWords[h] => Reads(T, a, n + j) = Reads(T, a, n)
    BY <2>2, <2>3, RecordRead
  <2> QED BY <2>4 DEF r
<1>6. ASSUME NEW j \in Nat, n + j <= w, k <= j
      PROVE  Reads(T, a, w) = Reads(T, a, n + j)
  <2>1. \A i \in n + j .. w - 1 : i \in n .. w - 1 /\ ~(i - n < k)
    BY <1>3, <1>6
  <2>2. \A i \in n + j .. w - 1 : T[i] = Erased
    BY <1>2, <2>1
  <2>3. n + j \in Nat /\ a <= n + j
    OBVIOUS
  <2> QED BY <1>6, <2>2, <2>3, ErasedRead
<1>7. CASE k = z
  <2>1. r \in 0 .. r /\ r <= k /\ n + r <= w /\ n + z <= w
    BY <1>1, <1>2, <1>7
  <2>2. Reads(T, a, n + r) = Plus(Reads(T, a, n), x)
    BY <1>5, <2>1
  <2>3. Reads(T, a, n + z) = Reads(T, a, n + r)
    <3>1. CASE z = r
      BY <3>1
    <3>2. CASE z = r + 1 /\ buf[z] = SeqWord(q)
      <4>1. n + r \in n .. w - 1 /\ (n + r) - n < k /\ (n + r) - n + 1 = z
            /\ n + r \in Nat /\ a <= n + r /\ (n + r) + 1 = n + z /\ n + r <= w
        BY <1>1, <1>7, <2>1, <3>2
      <4>2. T[n + r] = SeqWord(q)
        BY <1>2, <3>2, <4>1
      <4>3. CleanTape(T, n + r)
        BY <1>4, <4>1
      <4>4. Reads(T, a, (n + r) + 1) = Reads(T, a, n + r)
        BY <4>1, <4>2, <4>3, SilentRead
      <4> QED BY <4>1, <4>4
    <3> QED BY <1>1, <3>1, <3>2
  <2>4. Reads(T, a, w) = Reads(T, a, n + z)
    BY <1>1, <1>6, <1>7, <2>1
  <2> QED BY <1>7, <2>2, <2>3, <2>4 DEF x, z, Added
<1>8. CASE k # z
  <2>1. CASE n + k <= w
    <3>1. k \in 0 .. r /\ k # r
      BY <1>1, <1>2, <1>3, <1>8, <2>1
    <3>2. Reads(T, a, n + k) = Reads(T, a, n)
      BY <1>3, <1>5, <2>1, <3>1
    <3>3. Reads(T, a, w) = Reads(T, a, n + k)
      BY <1>3, <1>6, <2>1
    <3> QED BY <1>8, <3>2, <3>3 DEF z, Added
  <2>2. CASE ~(n + k <= w)
    <3>1. w - n \in 0 .. r /\ w - n # r /\ w - n <= k /\ n + (w - n) = w
      BY <1>1, <1>2, <1>3, <1>8, <2>2
    <3>2. Reads(T, a, w) = Reads(T, a, n)
      <4>1. Reads(T, a, n + (w - n)) = Reads(T, a, n)
        BY <1>5, <3>1
      <4> QED BY <3>1, <4>1
    <3> QED BY <1>8, <3>2 DEF z, Added
  <2> QED BY <2>1, <2>2
<1> QED BY <1>7, <1>8

-----------------------------------------------------------------------------
(* Where a write stands on the tape                                        *)

\* From an address in page p, the j-th of the run, or in the page before it,
\* the tape goes on address by address to the end of the page.
LEMMA Along ==
    ASSUME NEW o \in Pages, NEW j \in 0 .. PageCount - 1, NEW p, p = Fwd(o, j),
           NEW c \in Nat, c < PageStart(p) + PageWords,
           c < PageStart(p) => j # 0 /\ c >= PageStart(p) - PageWords
    PROVE  /\ Dist(o, c) \in Nat /\ PageStart(p) \in Nat /\ PageStart(j) \in Nat
           /\ PageStart(j) + PageWords <= StoreEnd
           /\ Dist(o, c) = PageStart(j) + c - PageStart(p)
           /\ j # 0 => PageStart(j - 1) <= Dist(o, c) /\ PageStart(j) = PageStart(j - 1) + PageWords
           /\ \A i \in Dist(o, c) .. PageStart(j) + PageWords - 1 :
                /\ At(o, i) = c + (i - Dist(o, c)) /\ i \in 0 .. StoreEnd - 1
                /\ At(o, i) \in Addr
                /\ i >= PageStart(j) => PageOf(At(o, i)) = p
<1>1. /\ p \in Pages /\ PageStart(p) \in Nat /\ PageStart(j) \in Nat
      /\ PageStart(p) + PageWords <= StoreEnd /\ PageStart(j) + PageWords <= StoreEnd
  BY FwdIs
<1>2. /\ PageCount \in Nat /\ PageWords \in Nat \ {0} /\ StoreEnd \in Nat /\ Addr = 0 .. StoreEnd - 1
      /\ p \in Nat /\ p < PageCount /\ j \in Nat /\ o \in Nat /\ o < PageCount
  BY <1>1, Geometry DEF Pages
<1>3. c \in Addr
  BY <1>1, <1>2
<1>4. ASSUME NEW i \in PageStart(j) .. PageStart(j) + PageWords - 1
      PROVE  /\ At(o, i) = PageStart(p) + (i - PageStart(j)) /\ i \in 0 .. StoreEnd - 1
             /\ At(o, i) \in Addr /\ PageOf(At(o, i)) = p
  <2>1. i - PageStart(j) \in 0 .. PageWords - 1 /\ PageStart(j) + (i - PageStart(j)) = i
    BY <1>1, <1>2
  <2> DEFINE x == i - PageStart(j)
  <2> HIDE DEF x
  <2>2. /\ PageStart(j) + x \in 0 .. StoreEnd - 1
        /\ At(o, PageStart(j) + x) = PageStart(Fwd(o, j)) + x
        /\ At(o, PageStart(j) + x) \in Addr
        /\ PageOf(At(o, PageStart(j) + x)) = Fwd(o, j)
    BY <2>1, AtPage DEF x
  <2> QED BY <2>1, <2>2 DEF x
<1>5. j # 0 => PageStart(j - 1) \in Nat /\ PageStart(j) = PageStart(j - 1) + PageWords
  <2> SUFFICES ASSUME j # 0 PROVE PageStart(j - 1) \in Nat /\ PageStart(j) = PageStart(j - 1) + PageWords
    OBVIOUS
  <2>1. j - 1 \in Nat /\ (j - 1) + 1 = j
    BY <1>2
  <2>2. PageStart(j - 1) \in Nat /\ PageStart((j - 1) + 1) = PageStart(j - 1) + PageWords
    BY <2>1, PageStartIs
  <2> QED BY <2>1, <2>2
<1> DEFINE n == Dist(o, c)
           s == PageStart(p)
           t == PageStart(j)
           u == PageStart(j - 1)
<1>6. CASE c >= s
  <2>1. PageOf(c) = p
    BY <1>1, <1>2, <1>6, PageAt
  <2>2. n - t = c - s /\ n \in 0 .. StoreEnd - 1
    BY <1>3, <2>1, DistIs
  <2> HIDE DEF n, s, t, u
  <2>3. n \in Nat /\ n = t + c - s /\ n >= t
    BY <1>1, <1>2, <1>6, <2>2 DEF s, t
  <2>4. j # 0 => u <= n /\ t = u + PageWords
    BY <1>1, <1>2, <1>5, <2>3 DEF t, u
  <2>5. ASSUME NEW i \in n .. t + PageWords - 1
        PROVE  /\ At(o, i) = c + (i - n) /\ i \in 0 .. StoreEnd - 1
               /\ At(o, i) \in Addr /\ PageOf(At(o, i)) = p
    <3>1. i \in t .. t + PageWords - 1
      BY <1>1, <1>2, <2>3 DEF t
    <3>2. /\ At(o, i) = s + (i - t) /\ i \in 0 .. StoreEnd - 1
          /\ At(o, i) \in Addr /\ PageOf(At(o, i)) = p
      BY <1>4, <3>1 DEF s, t
    <3>3. s \in Nat /\ t \in Nat
      BY <1>1 DEF s, t
    <3> QED BY <2>3, <3>2, <3>3
  <2> QED BY <1>1, <2>3, <2>4, <2>5 DEF n, s, t, u
<1>7. CASE ~(c >= s)
  <2>1. j # 0 /\ c >= s - PageWords /\ c < s
    BY <1>1, <1>2, <1>7
  <2>2. p # 0
    BY <1>2, <2>1, Geometry
  <2>3. p - 1 \in Nat /\ PageStart(p - 1) \in Nat /\ s = PageStart(p - 1) + PageWords
    <3>1. p - 1 \in Nat /\ (p - 1) + 1 = p
      BY <1>2, <2>2
    <3> QED BY <3>1, PageStartIs
  <2>4. j - 1 \in 0 .. PageCount - 1 /\ Fwd(o, j - 1) = p - 1
    BY <1>2, <2>1, <2>2 DEF Fwd
  <2>5. PageOf(c) = p - 1
    <3> DEFINE v == PageStart(p - 1)
    <3>1. v \in Nat /\ p - 1 \in Nat /\ s = v + PageWords /\ s - PageWords <= c /\ c < s
      BY <2>1, <2>3
    <3>2. v = PageStart(p - 1) /\ PageWords \in Nat
      BY <1>2
    <3> HIDE DEF v, s
    <3>3. v <= c /\ c < v + PageWords
      BY <3>1, <3>2
    <3> QED BY <3>1, <3>2, <3>3, PageAt
  <2>6. n - u = c - PageStart(p - 1) /\ n \in 0 .. StoreEnd - 1
    BY <1>3, <2>4, <2>5, DistIs
  <2>7. u \in Nat /\ t = u + PageWords
    BY <1>5, <2>1
  <2>8. ASSUME NEW i \in u .. u + PageWords - 1
        PROVE  /\ At(o, i) = PageStart(p - 1) + (i - u) /\ i \in 0 .. StoreEnd - 1
               /\ At(o, i) \in Addr
    <3> DEFINE x == i - u
    <3>1. x \in 0 .. PageWords - 1 /\ u + x = i
      BY <1>2, <2>7
    <3> HIDE DEF x
    <3>2. /\ u + x \in 0 .. StoreEnd - 1
          /\ At(o, u + x) = PageStart(Fwd(o, j - 1)) + x /\ At(o, u + x) \in Addr
      BY <2>4, <3>1, AtPage
    <3> QED BY <2>4, <3>1, <3>2 DEF x
  <2> DEFINE v == PageStart(p - 1)
  <2>9. s = v + PageWords /\ v \in Nat /\ n - u = c - v /\ n \in 0 .. StoreEnd - 1
        /\ \A i \in u .. u + PageWords - 1 :
             At(o, i) = v + (i - u) /\ i \in 0 .. StoreEnd - 1 /\ At(o, i) \in Addr
    BY <2>3, <2>6, <2>8
  <2> HIDE DEF n, s, t, u, v
  <2>10. n \in Nat /\ n = t + c - s /\ u <= n /\ n <= t /\ s \in Nat /\ t \in Nat
    BY <1>1, <1>2, <2>1, <2>7, <2>9 DEF s, t
  <2>11. ASSUME NEW i \in n .. t + PageWords - 1
         PROVE  /\ At(o, i) = c + (i - n) /\ i \in 0 .. StoreEnd - 1
                /\ At(o, i) \in Addr /\ (i >= t => PageOf(At(o, i)) = p)
    <3>1. CASE i >= t
      <4>1. i \in t .. t + PageWords - 1
        BY <1>2, <2>10, <3>1
      <4>2. /\ At(o, i) = s + (i - t) /\ i \in 0 .. StoreEnd - 1
            /\ At(o, i) \in Addr /\ PageOf(At(o, i)) = p
        BY <1>4, <4>1 DEF s, t
      <4> QED BY <2>10, <4>1, <4>2
    <3>2. CASE ~(i >= t)
      <4>1. i \in u .. u + PageWords - 1
        BY <1>2, <2>7, <2>10, <3>2
      <4>2. /\ At(o, i) = v + (i - u) /\ i \in 0 .. StoreEnd - 1 /\ At(o, i) \in Addr
        BY <2>9, <4>1
      <4> QED BY <2>7, <2>9, <2>10, <3>2, <4>1, <4>2
    <3> QED BY <3>1, <3>2
  <2> QED BY <1>1, <2>1, <2>7, <2>10, <2>11 DEF n, s, t, u
<1> QED BY <1>6, <1>7

\* The record buf that ends at e brings the m-th page of the run into use.
Enters(o, b, m, c, q, e) ==
    /\ m \in 0 .. PageCount - 1 /\ q = b + m
    /\ PageOf(e) = Fwd(o, m) /\ PageOf(e - 1) = PageOf(e)
    /\ m = 0 => c = PageStart(o)

\* The words that the write of buf at c programs are read from c on.
Ahead(o, c, buf) == \A a \in Addr : a - c \in 0 .. Len(buf) - 1 => Dist(o, c) <= Dist(o, a)

\* The last two pages of a run, where the newest record ends.
LastTwo(m) == PageStart(IF m >= 2 THEN m - 2 ELSE 0)

LEMMA LastTwoIs ==
    ASSUME NEW m \in 0 .. PageCount
    PROVE  /\ LastTwo(m) \in Nat /\ LastTwo(m) <= PageStart(m) /\ PageStart(m) \in Nat
           /\ m # 0 => /\ PageStart(m - 1) \in Nat /\ PageStart(m) = PageStart(m - 1) + PageWords
                       /\ LastTwo(m) <= PageStart(m - 1)
<1>1. /\ PageCount \in Nat /\ PageWords \in Nat \ {0} /\ m \in Nat /\ PageStart(0) = 0
  BY Geometry
<1>2. PageStart(m) \in Nat
  BY PagesUpTo
<1>3. ASSUME m # 0 PROVE PageStart(m - 1) \in Nat /\ PageStart(m) = PageStart(m - 1) + PageWords
  <2>1. m - 1 \in Nat /\ (m - 1) + 1 = m
    BY <1>1, <1>3
  <2> QED BY <2>1, PageStartIs
<1>4. ASSUME m >= 2 PROVE PageStart(m - 2) \in Nat /\ PageStart(m - 1) = PageStart(m - 2) + PageWords
  <2>1. m - 2 \in Nat /\ (m - 2) + 1 = m - 1
    BY <1>1, <1>4
  <2> QED BY <2>1, PageStartIs
<1>5. CASE m >= 2
  <2>1. LastTwo(m) = PageStart(m - 2) /\ m # 0
    BY <1>1, <1>5 DEF LastTwo
  <2> QED BY <1>1, <1>2, <1>3, <1>4, <1>5, <2>1
<1>6. CASE ~(m >= 2)
  <2>1. LastTwo(m) = 0
    BY <1>1, <1>6 DEF LastTwo
  <2> QED BY <1>1, <1>2, <1>3, <2>1
<1> QED BY <1>5, <1>6

LEMMA OnLayout ==
    ASSUME NEW f \in [Addr -> CleanWord], NEW o \in Pages, NEW b \in Nat, NEW m \in 0 .. PageCount,
           Run(f, o, b, m), NEW c, NEW buf, NEW q \in Nat, NEW k \in 0 .. Len(buf),
           Halfway(f, c, buf, q, k), WritesOn(f, c, buf, q)
    PROVE  /\ Dist(o, c) \in Nat /\ LastTwo(m) <= Dist(o, c)
           /\ Layout(Tape(f, o), PageStart(m), Dist(o, c), buf, k) /\ Ahead(o, c, buf)
<1> DEFINE z == Len(buf)
           e == c + z - 1
           n == Dist(o, c)
           p == PageOf(c)
           s == PageStart(p)
           t == PageStart(m - 1)
           T == Tape(f, o)
<1>1. /\ c \in Nat /\ e \in Addr /\ Landed(f, c, buf, k)
      /\ \A a \in Addr : PageOf(a) = PageOf(e) /\ a > e => f[a] = Erased
      /\ PageOf(e) = p /\ RecordIn(buf)
  BY DEF Halfway, WritesOn
<1>2. z \in Nat /\ z >= 1 /\ z = RecWords[buf[1].kind]
  BY <1>1, BufferRecord DEF Packs
<1>3. PICK h \in Addr : Leads(f, h) /\ PageOf(h) = p
  BY DEF WritesOn
<1>4. m # 0 /\ p = Fwd(o, m - 1)
  <2>1. m # 0
    BY <1>3, RunHead DEF Leads
  <2> QED BY <1>3, <2>1, RunLeads
<1>5. /\ StoreEnd \in Nat /\ Addr = 0 .. StoreEnd - 1 /\ PageWords \in Nat \ {0} /\ PageCount \in Nat
      /\ e \in Nat /\ m - 1 \in 0 .. PageCount - 1
  BY <1>1, <1>4, Geometry
<1>6. s \in Nat /\ s <= c /\ c < s + PageWords /\ s <= e /\ e < s + PageWords
  <2>1. PageStart(PageOf(c)) \in Nat /\ PageStart(PageOf(c)) <= c /\ c < PageStart(PageOf(c)) + PageWords
    BY <1>1, PageSpan
  <2>2. PageStart(PageOf(e)) <= e /\ e < PageStart(PageOf(e)) + PageWords
    BY <1>5, PageSpan
  <2> QED BY <1>1, <2>1, <2>2
<1>7. PageStart(m) = t + PageWords /\ t \in Nat /\ LastTwo(m) <= t /\ LastTwo(m) \in Nat
  BY <1>4, LastTwoIs
<1>8. PICK j \in 0 .. PageCount - 1 : j = m - 1
  BY <1>5
<1> HIDE DEF p, T
<1>9. /\ n \in Nat /\ n = t + c - s
      /\ \A i \in n .. t + PageWords - 1 :
           /\ At(o, i) = c + (i - n) /\ i \in 0 .. StoreEnd - 1
           /\ At(o, i) \in Addr /\ (i >= t => PageOf(At(o, i)) = p)
  <2>1. c < PageStart(p) => j # 0 /\ c >= PageStart(p) - PageWords
    BY <1>1, <1>6
  <2>2. p = Fwd(o, j) /\ c \in Nat /\ c < PageStart(p) + PageWords
    BY <1>1, <1>4, <1>6, <1>8
  <2>3. /\ Dist(o, c) \in Nat /\ Dist(o, c) = PageStart(j) + c - PageStart(p)
        /\ \A i \in Dist(o, c) .. PageStart(j) + PageWords - 1 :
             /\ At(o, i) = c + (i - Dist(o, c)) /\ i \in 0 .. StoreEnd - 1
             /\ At(o, i) \in Addr
             /\ i >= PageStart(j) => PageOf(At(o, i)) = p
    <3> HIDE DEF s, t, n, e
    <3> QED BY <2>1, <2>2, Along
  <2> QED BY <1>8, <2>3
<1> HIDE DEF e, n, s, t, z
<1>10. /\ c \in Nat /\ z \in Nat /\ z >= 1 /\ PageWords \in Nat /\ e \in Nat /\ s \in Nat /\ t \in Nat
       /\ n \in Nat /\ n = t + c - s /\ e = c + z - 1 /\ e < s + PageWords /\ s <= c
       /\ k \in Nat /\ k <= z
  <2>1. e = c + z - 1 /\ k \in 0 .. z
    BY DEF e, z
  <2>2. c \in Nat /\ z \in Nat /\ z >= 1
    BY <1>1, <1>2
  <2>3. PageWords \in Nat /\ e \in Nat
    BY <1>5
  <2>4. s \in Nat /\ e < s + PageWords /\ s <= c
    BY <1>6
  <2>5. t \in Nat
    BY <1>7
  <2>6. n \in Nat /\ n = t + c - s
    BY <1>9
  <2> QED BY <2>1, <2>2, <2>3, <2>4, <2>5, <2>6
<1>11. n >= t /\ n + z <= t + PageWords
  BY <1>10
<1> DEFINE w == t + PageWords
<1> HIDE DEF w
<1>12. Lies(T, w, n, buf, k)
  <2> SUFFICES ASSUME NEW i \in n .. w - 1
               PROVE  T[i] = IF i - n < k THEN buf[i - n + 1] ELSE Erased
    BY DEF Lies
  <2>1. /\ At(o, i) = c + (i - n) /\ i \in 0 .. StoreEnd - 1 /\ i >= t
        /\ At(o, i) \in Addr /\ PageOf(At(o, i)) = p
    BY <1>9, <1>10, <1>11 DEF w
  <2>2. T[i] = f[c + (i - n)]
    BY <2>1, TapeIs DEF T
  <2>3. i \in Nat /\ i - n \in Nat
    BY <1>10 DEF w
  <2>4. CASE i - n < z
    <3>1. i - n + 1 \in 1 .. z /\ c + (i - n + 1) - 1 = c + (i - n) /\ (i - n + 1 <= k <=> i - n < k)
      BY <1>10, <2>3, <2>4
    <3>2. f[c + (i - n + 1) - 1] = IF i - n + 1 <= k THEN buf[i - n + 1] ELSE Erased
      BY <1>1, <3>1 DEF Landed, z
    <3> QED BY <2>2, <3>1, <3>2
  <2>5. CASE ~(i - n < z)
    <3>1. c + (i - n) > e /\ ~(i - n < k)
      BY <1>10, <2>3, <2>5
    <3>2. f[At(o, i)] = Erased
      BY <1>1, <2>1, <3>1
    <3> QED BY <2>1, <2>2, <3>1, <3>2
  <2> QED BY <2>4, <2>5
<1>13. Layout(T, PageStart(m), n, buf, k)
  <2>1. PageStart(m) = t + PageWords
    BY <1>7
  <2>2. n <= t + PageWords /\ (k # z => k < z)
    BY <1>10, <1>11
  <2>3. n <= PageStart(m) /\ (k = z => n + z <= PageStart(m)) /\ (k # z => k < RecWords[buf[1].kind])
    BY <1>2, <1>11, <2>1, <2>2
  <2>4. Lies(T, PageStart(m), n, buf, k)
    BY <1>12, <2>1 DEF w
  <2> QED BY <1>10, <2>3, <2>4 DEF Layout, z
<1>14. LastTwo(m) <= n
  BY <1>7, <1>10, <1>11
<1>15. Ahead(o, c, buf)
  <2> SUFFICES ASSUME NEW a \in Addr, a - c \in 0 .. z - 1 PROVE n <= Dist(o, a)
    BY DEF Ahead, n, z
  <2> DEFINE i == n + (a - c)
  <2>1. a \in Nat
    BY <1>5
  <2>2. i \in n .. t + PageWords - 1 /\ c + (i - n) = a /\ n <= i
    BY <2>1, <1>10, <1>11
  <2> HIDE DEF i
  <2>3. At(o, i) = a /\ i \in 0 .. StoreEnd - 1
    BY <1>9, <2>2
  <2>4. Dist(o, a) = i
    BY <2>3, AtIs
  <2> QED BY <2>2, <2>4
<1> QED BY <1>10, <1>13, <1>14, <1>15 DEF n, T

\* The last word of a write of buf at c.
LastOf(c, buf) == c + Len(buf) - 1

LEMMA NewLayout ==
    ASSUME NEW f \in [Addr -> CleanWord], NEW o \in Pages, NEW b \in Nat, NEW m \in 0 .. PageCount,
           NEW c \in Nat, NEW buf, NEW q \in Nat, NEW k \in 0 .. Len(buf), NEW e \in Addr, e = LastOf(c, buf),
           Halfway(f, c, buf, q, k), WritesNewPage(f, c, buf, q),
           NEW j \in Nat, f[e] = Erased => j = m, f[e] # Erased => m = j + 1, Enters(o, b, j, c, q, e)
    PROVE  /\ Dist(o, c) \in Nat /\ LastTwo(m) <= Dist(o, c)
           /\ Layout(Tape(f, o), PageStart(m), Dist(o, c), buf, k) /\ Ahead(o, c, buf)
<1> DEFINE z == Len(buf)
           n == Dist(o, c)
           p == PageOf(e)
           s == PageStart(p)
           t == PageStart(j)
           T == Tape(f, o)
           h == RecWords[buf[1].kind]
<1>1. /\ c \in Nat /\ e \in Addr /\ Landed(f, c, buf, k)
      /\ \A a \in Addr : PageOf(a) = p /\ a > e => f[a] = Erased
      /\ RecordAndSeqIn(buf, q)
      /\ \A a \in Addr : PageOf(a) = p /\ a < e => a >= c
  BY DEF Halfway, WritesNewPage, LastOf
<1>2. /\ z \in Nat /\ z >= 2 /\ z <= PageWords /\ buf[z] = SeqWord(q)
      /\ h \in Nat /\ z = h + 1
  <2>1. z \in Nat /\ z >= 2 /\ z <= PageWords /\ buf[z] = SeqWord(q)
    BY <1>1, RecordAndSeqIs
  <2>2. h \in Nat /\ z = h + 1
    BY <1>1, BufferRecord DEF Packs
  <2> QED BY <2>1, <2>2
<1>3. /\ StoreEnd \in Nat /\ Addr = 0 .. StoreEnd - 1 /\ PageWords \in Nat \ {0} /\ PageCount \in Nat
      /\ PageStart(0) = 0
  BY Geometry
<1>4. /\ j \in 0 .. PageCount - 1 /\ p = Fwd(o, j) /\ PageOf(e - 1) = p
      /\ (j = 0 => c = PageStart(o))
  BY DEF Enters
<1>5. /\ e \in Nat /\ e - 1 \in Nat /\ e = c + z - 1
  <2>1. e \in Nat
    BY <1>1, <1>3
  <2>2. e = c + z - 1
    BY DEF LastOf
  <2>3. c \in Nat /\ z \in Nat /\ z >= 2
    BY <1>1, <1>2
  <2> HIDE DEF z
  <2>4. e - 1 \in Nat
    BY <2>1, <2>2, <2>3
  <2> QED BY <2>1, <2>2, <2>4
<1>6. /\ s \in Nat /\ s <= e - 1 /\ e < s + PageWords /\ s \in Addr /\ PageOf(s) = p
  <2>1. PageStart(PageOf(e)) <= e /\ e < PageStart(PageOf(e)) + PageWords /\ s \in Nat
        /\ PageOf(e) \in Nat
    BY <1>5, PageSpan
  <2>2. PageStart(PageOf(e - 1)) <= e - 1
    BY <1>5, PageSpan
  <2>3. s <= e - 1
    BY <1>4, <2>2
  <2>4. s \in Addr
    BY <1>1, <1>3, <1>5, <2>1, <2>3
  <2>5. PageOf(s) = p
    BY <1>3, <2>1, PageAt
  <2> QED BY <2>1, <2>3, <2>4, <2>5
<1>7. c <= s
  BY <1>1, <1>5, <1>6
<1> HIDE DEF z, n, p, s, t, T, h
<1>8. /\ n \in Nat /\ t \in Nat /\ n = t + c - s
      /\ (j # 0 => PageStart(j - 1) <= n /\ t = PageStart(j - 1) + PageWords)
      /\ \A i \in n .. t + PageWords - 1 :
           /\ At(o, i) = c + (i - n) /\ i \in 0 .. StoreEnd - 1
           /\ At(o, i) \in Addr /\ (i >= t => PageOf(At(o, i)) = p)
  <2>1. c \in Nat /\ c < PageStart(p) + PageWords
    BY <1>1, <1>3, <1>6, <1>7 DEF s
  <2>2. c < PageStart(p) => j # 0 /\ c >= PageStart(p) - PageWords
    <3> SUFFICES ASSUME c < s PROVE j # 0 /\ c >= s - PageWords
      BY DEF s
    <3>1. c >= s - PageWords
      BY <1>1, <1>2, <1>3, <1>5, <1>6
    <3>2. j # 0
      <4> SUFFICES ASSUME j = 0 PROVE FALSE
        OBVIOUS
      <4>1. Fwd(o, 0) = o
        BY <1>3 DEF Fwd, Pages
      <4>2. s = c
        BY <1>4, <4>1 DEF s
      <4> QED BY <1>1, <4>2
    <3> QED BY <3>1, <3>2
  <2>3. /\ Dist(o, c) \in Nat /\ PageStart(j) \in Nat
        /\ Dist(o, c) = PageStart(j) + c - PageStart(p)
        /\ j # 0 => PageStart(j - 1) <= Dist(o, c) /\ PageStart(j) = PageStart(j - 1) + PageWords
        /\ \A i \in Dist(o, c) .. PageStart(j) + PageWords - 1 :
             /\ At(o, i) = c + (i - Dist(o, c)) /\ i \in 0 .. StoreEnd - 1
             /\ At(o, i) \in Addr
             /\ i >= PageStart(j) => PageOf(At(o, i)) = p
    BY <1>4, <2>1, <2>2, Along
  <2> QED BY <2>3 DEF n, s, t
<1>9. /\ c \in Nat /\ z \in Nat /\ z >= 2 /\ PageWords \in Nat /\ e \in Nat /\ s \in Nat /\ t \in Nat
      /\ n \in Nat /\ n = t + c - s /\ e = c + z - 1 /\ e < s + PageWords /\ s <= e - 1 /\ c <= s
      /\ k \in Nat /\ k <= z /\ n <= t
  <2>1. k \in Nat /\ k <= z
    BY <1>2 DEF z
  <2>2. t \in Nat /\ n \in Nat /\ n = t + c - s
    BY <1>8
  <2> QED BY <1>1, <1>2, <1>3, <1>5, <1>6, <1>7, <2>1, <2>2
<1>10. ASSUME NEW i \in n .. t + PageWords - 1
       PROVE  /\ i - n < z => T[i] = IF i - n < k THEN buf[i - n + 1] ELSE Erased
              /\ ~(i - n < z) => T[i] = Erased
  <2>1. /\ At(o, i) = c + (i - n) /\ i \in 0 .. StoreEnd - 1
        /\ At(o, i) \in Addr /\ (i >= t => PageOf(At(o, i)) = p)
    BY <1>8
  <2>2. T[i] = f[c + (i - n)] /\ T[i] = f[At(o, i)]
    BY <2>1, TapeIs DEF T
  <2>3. i \in Nat /\ i - n \in Nat
    BY <1>9
  <2>4. ASSUME i - n < z PROVE T[i] = IF i - n < k THEN buf[i - n + 1] ELSE Erased
    <3>1. i - n + 1 \in 1 .. z /\ c + (i - n + 1) - 1 = c + (i - n) /\ (i - n + 1 <= k <=> i - n < k)
      BY <1>9, <2>3, <2>4
    <3>2. f[c + (i - n + 1) - 1] = IF i - n + 1 <= k THEN buf[i - n + 1] ELSE Erased
      BY <1>1, <3>1 DEF Landed, z
    <3> QED BY <2>2, <3>1, <3>2
  <2>5. ASSUME ~(i - n < z) PROVE T[i] = Erased
    <3>1. c + (i - n) > e /\ i >= t
      BY <1>9, <2>3, <2>5
    <3>2. f[At(o, i)] = Erased
      BY <1>1, <2>1, <3>1
    <3> QED BY <2>2, <3>2
  <2> QED BY <2>4, <2>5
<1>11. f[e] = IF k = z THEN SeqWord(q) ELSE Erased
  <2>1. z \in 1 .. z /\ c + z - 1 = e /\ (z <= k <=> k = z)
    BY <1>9
  <2>2. f[c + z - 1] = IF z <= k THEN buf[z] ELSE Erased
    BY <1>1, <2>1 DEF Landed, z
  <2> QED BY <1>2, <2>1, <2>2
<1>12. SeqWord(q) # Erased
  BY Words
<1>13. Ahead(o, c, buf)
  <2> SUFFICES ASSUME NEW a \in Addr, a - c \in 0 .. z - 1 PROVE n <= Dist(o, a)
    BY DEF Ahead, n, z
  <2> DEFINE i == n + (a - c)
  <2>1. a \in Nat
    BY <1>3
  <2>2. i \in n .. t + PageWords - 1 /\ c + (i - n) = a /\ n <= i
    BY <2>1, <1>9
  <2> HIDE DEF i
  <2>3. At(o, i) = a /\ i \in 0 .. StoreEnd - 1
    BY <1>8, <2>2
  <2>4. Dist(o, a) = i
    BY <2>3, AtIs
  <2> QED BY <2>2, <2>4
<1>14. CASE k = z
  <2>1. j = m - 1 /\ m \in Nat /\ m # 0
    BY <1>3, <1>4, <1>11, <1>12, <1>14
  <2>2. PageStart(m) = t + PageWords
    BY <2>1, LastTwoIs DEF t
  <2>3. LastTwo(m) <= n
    <3>1. CASE m >= 2
      <4>1. m - 2 = j - 1 /\ j # 0
        BY <2>1, <3>1
      <4> QED BY <1>8, <3>1, <4>1 DEF LastTwo
    <3>2. CASE ~(m >= 2)
      BY <1>3, <1>9, <3>2 DEF LastTwo
    <3> QED BY <3>1, <3>2
  <2>4. Lies(T, PageStart(m), n, buf, k)
    <3> DEFINE w == t + PageWords
    <3> HIDE DEF w
    <3>1. Lies(T, w, n, buf, k)
      <4> SUFFICES ASSUME NEW i \in n .. w - 1
                   PROVE  T[i] = IF i - n < k THEN buf[i - n + 1] ELSE Erased
        BY DEF Lies
      <4>1. i \in n .. t + PageWords - 1
        BY <1>9 DEF w
      <4>2. CASE i - n < z
        BY <1>10, <4>1, <4>2
      <4>3. CASE ~(i - n < z)
        BY <1>10, <1>14, <4>1, <4>3
      <4> QED BY <4>2, <4>3
    <3> QED BY <2>2, <3>1 DEF w
  <2>5. n <= PageStart(m) /\ n + z <= PageStart(m)
    BY <1>9, <2>2
  <2> QED BY <1>9, <1>13, <1>14, <2>3, <2>4, <2>5 DEF Layout, n, T, z
<1>15. CASE k # z
  <2>1. j = m
    BY <1>11, <1>15
  <2>2. PageStart(m) = t
    BY <2>1 DEF t
  <2>3. LastTwo(m) <= n
    <3>1. CASE m # 0
      <4>1. PageStart(m - 1) <= n
        BY <1>8, <2>1, <3>1
      <4>2. PageStart(m - 1) \in Nat /\ LastTwo(m) <= PageStart(m - 1) /\ LastTwo(m) \in Nat
        BY <3>1, LastTwoIs
      <4> QED BY <1>9, <4>1, <4>2
    <3>2. CASE m = 0
      BY <1>3, <1>9, <3>2 DEF LastTwo
    <3> QED BY <3>1, <3>2
  <2>4. Lies(T, PageStart(m), n, buf, k)
    <3>1. Lies(T, t, n, buf, k)
      <4> SUFFICES ASSUME NEW i \in n .. t - 1
                   PROVE  T[i] = IF i - n < k THEN buf[i - n + 1] ELSE Erased
        BY DEF Lies
      <4>1. i \in n .. t + PageWords - 1 /\ i - n < z
        BY <1>9
      <4> QED BY <1>10, <4>1
    <3> QED BY <2>2, <3>1
  <2>5. n <= PageStart(m) /\ PageStart(m) - n < h
    BY <1>2, <1>9, <2>2
  <2> QED BY <1>9, <1>13, <1>15, <2>3, <2>4, <2>5 DEF Layout, n, T, z, h
<1> QED BY <1>14, <1>15

-----------------------------------------------------------------------------
(* What is left to read of the records written                             *)

\* l ends with r; with three pages something is left of it.
Keeps(r, l) == (\E d \in Seq(Nat) : l = d \o r) /\ (PageCount >= 3 /\ l # <<>> => r # <<>>)

LEMMA KeepsMore ==
    ASSUME NEW r \in Seq(Nat), NEW l \in Seq(Nat), NEW x \in Nat, Keeps(r, l)
    PROVE  Keeps(Plus(r, x), Plus(l, x)) /\ Plus(l, x) \in Seq(Nat) /\ Plus(r, x) # <<>>
<1>1. PICK d \in Seq(Nat) : l = d \o r
  BY DEF Keeps
<1>2. \A s \in Seq(Nat) : Append(s, x) = s \o <<x>> /\ Append(s, x) # <<>> /\ Append(s, x) \in Seq(Nat)
  <2> SUFFICES ASSUME NEW s \in Seq(Nat)
               PROVE  Append(s, x) = s \o <<x>> /\ Append(s, x) # <<>> /\ Append(s, x) \in Seq(Nat)
    OBVIOUS
  <2>1. Append(s, x) = s \o <<x>>
    BY AppendIsConcat
  <2>2. Append(s, x) # <<>>
    <3> DEFINE u == Append(s, x)
    <3>1. Len(u) = Len(s) + 1 /\ Len(s) \in Nat /\ Len(<<>>) = 0
      OBVIOUS
    <3> HIDE DEF u
    <3>2. u # <<>>
      BY <3>1
    <3> QED BY <3>2 DEF u
  <2>3. Append(s, x) \in Seq(Nat)
    BY AppendProperties
  <2> QED BY <2>1, <2>2, <2>3
<1>3. <<x>> \in Seq(Nat)
  OBVIOUS
<1>4. (d \o r) \o <<x>> = d \o (r \o <<x>>)
  BY <1>3, Associates
<1>5. Plus(l, x) = d \o Plus(r, x)
  BY <1>1, <1>2, <1>4 DEF Plus
<1>6. Plus(r, x) # <<>> /\ Plus(l, x) \in Seq(Nat)
  BY <1>2 DEF Plus
<1> QED BY <1>5, <1>6 DEF Keeps

LEMMA KeepsLess ==
    ASSUME NEW D \in Seq(Nat), NEW r \in Seq(Nat), NEW l \in Seq(Nat), Keeps(D \o r, l),
           PageCount >= 3 => r # <<>>
    PROVE  Keeps(r, l)
<1>1. PICK d \in Seq(Nat) : l = d \o (D \o r)
  BY DEF Keeps
<1>2. d \o D \in Seq(Nat) /\ l = (d \o D) \o r
  BY <1>1, Associates, ConcatProperties
<1> QED BY <1>2 DEF Keeps

LEMMA KeepsNothing == Keeps(<<>>, <<>>)
<1>1. <<>> \in Seq(Nat) /\ <<>> = <<>> \o <<>>
  BY ConcatEmptySeq
<1> QED BY <1>1 DEF Keeps

LEMMA KeepsIs ==
    ASSUME NEW r \in Seq(Nat), NEW l \in Seq(Nat), Keeps(r, l)
    PROVE  /\ IsSuffix(r, l) /\ ToSet(r) \subseteq ToSet(l)
           /\ PageCount >= 3 /\ l # <<>> => Last(l) \in ToSet(r)
<1>1. PICK d \in Seq(Nat) : l = d \o r
  BY DEF Keeps
<1> DEFINE n == Len(r)
           m == Len(d)
<1>2. n \in Nat /\ m \in Nat /\ DOMAIN r = 1 .. n
  BY LenProperties
<1>3. Len(l) = m + n /\ \A i \in 1 .. m + n : l[i] = IF i <= m THEN d[i] ELSE r[i - m]
  BY <1>1, ConcatProperties
<1>4. DOMAIN l = 1 .. m + n
  BY <1>3, LenProperties
<1> HIDE DEF n, m
<1>5. ASSUME NEW i \in 1 .. n PROVE r[i] = l[m + i] /\ m + i \in 1 .. m + n
  <2>1. m + i \in 1 .. m + n /\ ~(m + i <= m) /\ (m + i) - m = i
    BY <1>2
  <2> QED BY <1>3, <2>1
<1>6. ToSet(r) \subseteq ToSet(l)
  BY <1>2, <1>4, <1>5 DEF ToSet
<1>7. PageCount >= 3 /\ l # <<>> => Last(l) \in ToSet(r)
  <2> SUFFICES ASSUME PageCount >= 3, l # <<>> PROVE Last(l) \in ToSet(r)
    OBVIOUS
  <2>1. r # <<>>
    BY DEF Keeps
  <2>2. n # 0
    BY <2>1, EmptySeq DEF n
  <2>3. n \in 1 .. n /\ l[m + n] = r[n]
    BY <1>2, <1>5, <2>2
  <2> QED BY <1>2, <1>3, <2>3 DEF Last, ToSet
<1>8. IsSuffix(r, l)
  <2> DEFINE rr == Reverse(r)
             ll == Reverse(l)
  <2>1. /\ Reverse(r) = [i \in 1 .. n |-> r[(n - i) + 1]]
        /\ Reverse(l) = [i \in 1 .. m + n |-> l[((m + n) - i) + 1]]
    BY <1>3 DEF Reverse, n
  <2>2. /\ \A i \in 1 .. n : r[(n - i) + 1] \in Nat
        /\ \A i \in 1 .. m + n : l[((m + n) - i) + 1] \in Nat
    <3>1. \A i \in 1 .. n : (n - i) + 1 \in 1 .. n
      BY <1>2
    <3>2. \A i \in 1 .. m + n : ((m + n) - i) + 1 \in 1 .. m + n
      BY <1>2
    <3>3. \A i \in 1 .. n : r[i] \in Nat
      BY <1>2, LenProperties
    <3>4. \A i \in 1 .. m + n : l[i] \in Nat
      BY <1>3, LenProperties
    <3> QED BY <3>1, <3>2, <3>3, <3>4
  <2>3. Len(rr) = n /\ Len(ll) = m + n /\ rr \in Seq(Nat) /\ ll \in Seq(Nat)
    BY <1>2, <2>1, <2>2
  <2>4. \A i \in 1 .. n : rr[i] = ll[i]
    <3> SUFFICES ASSUME NEW i \in 1 .. n PROVE rr[i] = ll[i]
      OBVIOUS
    <3>1. i \in 1 .. m + n /\ (n - i) + 1 \in 1 .. n /\ m + ((n - i) + 1) = ((m + n) - i) + 1
      BY <1>2
    <3>2. r[(n - i) + 1] = l[m + ((n - i) + 1)]
      BY <1>5, <3>1
    <3> QED BY <2>1, <3>1, <3>2
  <2> HIDE DEF rr, ll
  <2>5. n <= m + n
    BY <1>2
  <2>6. SubSeq(rr, 1, n) = [i \in 1 .. n |-> rr[i]] /\ SubSeq(ll, 1, n) = [i \in 1 .. n |-> ll[i]]
    BY <1>2, <2>3, <2>5
  <2>7. SubSeq(rr, 1, n) = SubSeq(ll, 1, n)
    BY <2>4, <2>6
  <2> QED BY <2>3, <2>5, <2>7 DEF IsSuffix, IsPrefix, rr, ll
<1> QED BY <1>6, <1>7, <1>8

-----------------------------------------------------------------------------
(* The records a restart reads back, between two steps of the store        *)

\* With three pages the last two of the run have a record to read.
Firm(f, o, m) == PageCount >= 3 /\ m # 0 => Reads(Tape(f, o), LastTwo(m), PageStart(m)) # <<>>

\* No write is under way: a restart reads what is kept of the records l.
Kept(f, o, b, m, l) ==
    Run(f, o, b, m) /\ Firm(f, o, m) /\ Keeps(Reads(Tape(f, o), 0, PageStart(m)), l)

\* The page that the sequence record of the write brings, or brought, into use.
Turns(f, o, b, m, c, buf, q) ==
    RecordAndSeqIn(buf, q) =>
        \E j \in Nat : /\ f[LastOf(c, buf)] = Erased => j = m
                       /\ f[LastOf(c, buf)] # Erased => m = j + 1
                       /\ Enters(o, b, j, c, q, LastOf(c, buf))

\* The write of buf at c is under way: what is before it is kept of l.
Held(f, o, b, m, c, buf, q, l) ==
    /\ Run(f, o, b, m) /\ Firm(f, o, m) /\ Turns(f, o, b, m, c, buf, q)
    /\ Keeps(Reads(Tape(f, o), 0, Dist(o, c)), l)

LEMMA HalfwayLayout ==
    ASSUME NEW f \in [Addr -> CleanWord], NEW o \in Pages, NEW b \in Nat, NEW m \in 0 .. PageCount,
           Run(f, o, b, m), NEW c, NEW buf, NEW q \in Nat, NEW k \in 0 .. Len(buf),
           Halfway(f, c, buf, q, k), Turns(f, o, b, m, c, buf, q)
    PROVE  /\ Dist(o, c) \in Nat /\ LastTwo(m) \in Nat /\ PageStart(m) \in Nat /\ PageStart(m) <= StoreEnd
           /\ LastTwo(m) <= Dist(o, c) /\ Dist(o, c) <= PageStart(m)
           /\ Layout(Tape(f, o), PageStart(m), Dist(o, c), buf, k) /\ Ahead(o, c, buf)
           /\ Packs(buf, q)
<1>1. /\ c \in Nat /\ LastOf(c, buf) \in Addr
      /\ WritesOn(f, c, buf, q) \/ WritesNewPage(f, c, buf, q)
  BY DEF Halfway, LastOf
<1>2. /\ Dist(o, c) \in Nat /\ LastTwo(m) <= Dist(o, c)
      /\ Layout(Tape(f, o), PageStart(m), Dist(o, c), buf, k) /\ Ahead(o, c, buf)
      /\ Packs(buf, q)
  <2>1. CASE WritesOn(f, c, buf, q)
    <3>1. RecordIn(buf)
      BY <2>1 DEF WritesOn
    <3> QED BY <2>1, <3>1, OnLayout DEF Packs
  <2>2. CASE WritesNewPage(f, c, buf, q)
    <3>1. RecordAndSeqIn(buf, q)
      BY <2>2 DEF WritesNewPage
    <3>2. PICK j \in Nat : /\ f[LastOf(c, buf)] = Erased => j = m
                           /\ f[LastOf(c, buf)] # Erased => m = j + 1
                           /\ Enters(o, b, j, c, q, LastOf(c, buf))
      BY <3>1 DEF Turns
    <3> QED BY <1>1, <2>2, <3>1, <3>2, NewLayout DEF Packs
  <2> QED BY <1>1, <2>1, <2>2
<1>3. Dist(o, c) <= PageStart(m)
  BY <1>2 DEF Layout
<1>4. LastTwo(m) \in Nat
  BY LastTwoIs
<1>5. PageStart(m) \in Nat /\ PageStart(m) <= StoreEnd
  BY PagesUpTo
<1> QED BY <1>2, <1>3, <1>4, <1>5

\* Reading on over the write adds its record, once all of it has landed.
LEMMA HalfwayReads ==
    ASSUME NEW f \in [Addr -> CleanWord], NEW o \in Pages, NEW b \in Nat, NEW m \in 0 .. PageCount,
           Run(f, o, b, m), NEW c, NEW buf, NEW q \in Nat, NEW k \in 0 .. Len(buf),
           Halfway(f, c, buf, q, k), Turns(f, o, b, m, c, buf, q),
           NEW a \in Nat, a <= Dist(o, c)
    PROVE  LET T == Tape(f, o)
           IN  /\ Reads(T, a, PageStart(m)) = Added(Reads(T, a, Dist(o, c)), buf, k)
               /\ Reads(T, a, Dist(o, c)) \in Seq(Nat) /\ Reads(T, a, PageStart(m)) \in Seq(Nat)
               /\ buf[1].id \in Nat
<1> DEFINE T == Tape(f, o)
           n == Dist(o, c)
           w == PageStart(m)
<1>1. /\ n \in Nat /\ w \in Nat /\ w <= StoreEnd /\ n <= w
      /\ Layout(T, w, n, buf, k) /\ Packs(buf, q)
  BY HalfwayLayout
<1>2. CleanTape(T, w) /\ CleanTape(T, n) /\ StoreEnd \in Nat
  <2>1. n <= StoreEnd /\ StoreEnd \in Nat
    BY <1>1, Geometry
  <2> QED BY <1>1, <2>1, TapeIs
<1> HIDE DEF T, n, w
<1>3. a <= n /\ a <= w
  <2>1. a <= n
    BY DEF n
  <2> QED BY <1>1, <2>1
<1>4. Reads(T, a, w) = Added(Reads(T, a, n), buf, k)
  <2>1. /\ n \in Nat /\ w \in Nat /\ a <= n /\ CleanTape(T, w)
        /\ Packs(buf, q)
        /\ Layout(T, w, n, buf, k)
    BY <1>1, <1>2, <1>3
  <2> QED BY <2>1, LayoutReads
<1>5. Reads(T, a, n) \in Seq(Nat) /\ Reads(T, a, w) \in Seq(Nat)
  BY <1>1, <1>2, <1>3, ScanTyped
<1>6. buf[1].id \in Nat
  BY <1>1, BufferRecord
<1> QED BY <1>4, <1>5, <1>6 DEF T, n, w

\* A write that begins takes nothing from what is kept.
LEMMA HeldStarts ==
    ASSUME NEW f \in [Addr -> CleanWord], NEW o \in Pages, NEW b \in Nat, NEW m \in 0 .. PageCount,
           NEW l, Kept(f, o, b, m, l), NEW c, NEW buf, NEW q \in Nat,
           Halfway(f, c, buf, q, 0), Turns(f, o, b, m, c, buf, q)
    PROVE  Held(f, o, b, m, c, buf, q, l)
<1>1. Run(f, o, b, m) /\ Firm(f, o, m) /\ Keeps(Reads(Tape(f, o), 0, PageStart(m)), l)
  BY DEF Kept
<1>2. Len(buf) \in Nat /\ Len(buf) >= 1
  BY BufferIs DEF Halfway
<1>3. 0 \in 0 .. Len(buf) /\ 0 # Len(buf)
  BY <1>2
<1>4. Dist(o, c) \in Nat
  BY <1>1, <1>3, HalfwayLayout
<1>5. 0 \in Nat /\ 0 <= Dist(o, c)
  BY <1>4
<1>6. Reads(Tape(f, o), 0, PageStart(m)) = Added(Reads(Tape(f, o), 0, Dist(o, c)), buf, 0)
  BY <1>1, <1>3, <1>5, HalfwayReads
<1>7. Reads(Tape(f, o), 0, PageStart(m)) = Reads(Tape(f, o), 0, Dist(o, c))
  BY <1>3, <1>6 DEF Added
<1> QED BY <1>1, <1>7 DEF Held

\* What a restart reads while the write is under way.
LEMMA HeldReads ==
    ASSUME NEW f \in [Addr -> CleanWord], Packed(f),
           NEW o \in Pages, NEW b \in Nat, NEW m \in 0 .. PageCount,
           NEW l, NEW c, NEW buf, NEW q \in Nat, NEW k \in 0 .. Len(buf),
           Halfway(f, c, buf, q, k), Held(f, o, b, m, c, buf, q, l)
    PROVE  \E r \in Seq(Nat) : /\ Keeps(r, l) /\ buf[1].id \in Nat
                               /\ Readback(f) = Added(r, buf, k)
<1>1. /\ Run(f, o, b, m) /\ Turns(f, o, b, m, c, buf, q)
      /\ Keeps(Reads(Tape(f, o), 0, Dist(o, c)), l)
  BY DEF Held
<1>2. Dist(o, c) \in Nat
  BY <1>1, HalfwayLayout
<1>3. 0 \in Nat /\ 0 <= Dist(o, c)
  BY <1>2
<1>4. /\ Reads(Tape(f, o), 0, PageStart(m))
             = Added(Reads(Tape(f, o), 0, Dist(o, c)), buf, k)
      /\ Reads(Tape(f, o), 0, Dist(o, c)) \in Seq(Nat) /\ buf[1].id \in Nat
  BY <1>1, <1>3, HalfwayReads
<1>5. Readback(f) = Reads(Tape(f, o), 0, PageStart(m))
  BY <1>1, ReadbackIs
<1> QED BY <1>1, <1>4, <1>5

\* The record counts as written once all of it has landed.
LEMMA HeldDone ==
    ASSUME NEW f \in [Addr -> CleanWord], NEW o \in Pages, NEW b \in Nat, NEW m \in 0 .. PageCount,
           NEW l \in Seq(Nat), NEW c, NEW buf, NEW q \in Nat, NEW k \in 0 .. Len(buf),
           Halfway(f, c, buf, q, k), Held(f, o, b, m, c, buf, q, l)
    PROVE  Kept(f, o, b, m, Added(l, buf, k))
<1>1. /\ Run(f, o, b, m) /\ Firm(f, o, m) /\ Turns(f, o, b, m, c, buf, q)
      /\ Keeps(Reads(Tape(f, o), 0, Dist(o, c)), l)
  BY DEF Held
<1>2. Dist(o, c) \in Nat
  BY <1>1, HalfwayLayout
<1>3. 0 \in Nat /\ 0 <= Dist(o, c)
  BY <1>2
<1>4. /\ Reads(Tape(f, o), 0, PageStart(m))
             = Added(Reads(Tape(f, o), 0, Dist(o, c)), buf, k)
      /\ Reads(Tape(f, o), 0, Dist(o, c)) \in Seq(Nat) /\ buf[1].id \in Nat
  BY <1>1, <1>3, HalfwayReads
<1>5. Keeps(Added(Reads(Tape(f, o), 0, Dist(o, c)), buf, k), Added(l, buf, k))
  BY <1>1, <1>4, KeepsMore DEF Added
<1> QED BY <1>1, <1>4, <1>5 DEF Kept

LEMMA PlusIs ==
    ASSUME NEW s \in Seq(Nat), NEW x \in Nat
    PROVE  Plus(s, x) # <<>>
<1> DEFINE u == Append(s, x)
<1>1. Len(u) = Len(s) + 1 /\ Len(s) \in Nat /\ Len(<<>>) = 0
  OBVIOUS
<1> HIDE DEF u
<1>2. u # <<>>
  BY <1>1
<1> QED BY <1>2 DEF u, Plus

\* A step of the write changes nothing that is read before it.
LEMMA ReadsBefore ==
    ASSUME NEW f \in [Addr -> CleanWord], NEW g \in [Addr -> CleanWord], NEW o \in Pages,
           NEW c, NEW buf, Ahead(o, c, buf), Programs(f, g, c, buf),
           Dist(o, c) \in Nat, Dist(o, c) <= StoreEnd, NEW a \in Nat, a <= Dist(o, c)
    PROVE  Reads(Tape(g, o), a, Dist(o, c)) = Reads(Tape(f, o), a, Dist(o, c))
<1> DEFINE n == Dist(o, c)
<1>1. n \in Nat /\ n <= StoreEnd /\ StoreEnd \in Nat /\ a <= n
  BY Geometry
<1> HIDE DEF n
<1>2. ASSUME NEW i \in a .. n - 1 PROVE Tape(g, o)[i] = Tape(f, o)[i]
  <2>1. i \in 0 .. StoreEnd - 1 /\ i \in Nat /\ ~(n <= i)
    BY <1>1
  <2>2. At(o, i) \in Addr /\ Dist(o, At(o, i)) = i
    BY <2>1, AtIs
  <2>3. Tape(g, o)[i] = g[At(o, i)] /\ Tape(f, o)[i] = f[At(o, i)]
    BY <2>1, TapeIs
  <2>4. At(o, i) - c \notin 0 .. Len(buf) - 1
    BY <2>1, <2>2 DEF Ahead, n
  <2>5. g[At(o, i)] = f[At(o, i)]
    BY <2>2, <2>4 DEF Programs
  <2> QED BY <2>3, <2>5
<1>3. Reads(Tape(g, o), a, n) = Reads(Tape(f, o), a, n)
  BY <1>1, <1>2, ReadsSame
<1> QED BY <1>3 DEF n

LEMMA OneOfTwo ==
    ASSUME NEW buf, NEW q \in Nat, RecordAndSeqIn(buf, q)
    PROVE  ~RecordIn(buf)
<1> SUFFICES ASSUME RecordIn(buf) PROVE FALSE
  OBVIOUS
<1>1. Len(buf) = RecWords[buf[1].kind] /\ Len(buf) = RecWords[buf[1].kind] + 1 /\ RecWords[buf[1].kind] \in Nat
  BY BufferRecord DEF Packs
<1> QED BY <1>1

\* The step that lands the sequence record lengthens the run by its page.
SeqLands(buf, q, j, k) == RecordAndSeqIn(buf, q) /\ j # Len(buf) /\ k = Len(buf)

LEMMA HeldLandsMore ==
    ASSUME NEW f \in [Addr -> CleanWord], Packed(f), NEW g \in [Addr -> CleanWord],
           NEW o \in Pages, NEW b \in Nat, NEW m \in 0 .. PageCount, NEW l,
           NEW c, NEW buf, NEW q \in Nat, NEW j \in 0 .. Len(buf), NEW k \in 0 .. Len(buf),
           Halfway(f, c, buf, q, j), Halfway(g, c, buf, q, k), j <= k, Programs(f, g, c, buf),
           Held(f, o, b, m, c, buf, q, l), ~SeqLands(buf, q, j, k)
    PROVE  Held(g, o, b, m, c, buf, q, l)
<1> DEFINE z == Len(buf)
           e == LastOf(c, buf)
           n == Dist(o, c)
           w == PageStart(m)
           a == LastTwo(m)
<1>1. /\ Run(f, o, b, m) /\ Firm(f, o, m) /\ Turns(f, o, b, m, c, buf, q)
      /\ Keeps(Reads(Tape(f, o), 0, n), l)
  BY DEF Held
<1>2. /\ n \in Nat /\ a \in Nat /\ w \in Nat /\ w <= StoreEnd /\ a <= n /\ n <= w /\ Ahead(o, c, buf)
  BY <1>1, HalfwayLayout
<1>3. n <= StoreEnd /\ 0 \in Nat /\ 0 <= n
  BY <1>2, Geometry
<1>4. /\ z \in Nat /\ z >= 1
      /\ \A i \in 1 .. z : buf[i] \in CleanWord /\ buf[i] # Erased
      /\ \A i \in 1 .. z - 1 : buf[i] \in RecordWord
      /\ RecordIn(buf) => buf[z] \in RecordWord
      /\ RecordAndSeqIn(buf, q) => buf[z] = SeqWord(q)
  <2>1. WritesOn(f, c, buf, q) \/ WritesNewPage(f, c, buf, q)
    BY DEF Halfway
  <2>2. /\ z \in Nat /\ z >= 1
        /\ \A i \in 1 .. z : buf[i] \in CleanWord /\ buf[i] # Erased
        /\ \A i \in 1 .. z - 1 : buf[i] \in RecordWord
        /\ WritesOn(f, c, buf, q) => buf[z] \in RecordWord
        /\ WritesNewPage(f, c, buf, q) => buf[z] = SeqWord(q)
    BY <2>1, BufferIs
  <2>3. RecordIn(buf) => ~RecordAndSeqIn(buf, q)
    BY OneOfTwo
  <2> QED BY <2>1, <2>2, <2>3 DEF WritesOn, WritesNewPage
<1>5. /\ c \in Nat /\ e \in Addr /\ Landed(f, c, buf, j) /\ Landed(g, c, buf, k) /\ e = c + z - 1
      /\ (RecordIn(buf) \/ RecordAndSeqIn(buf, q))
      /\ Addr \subseteq Nat
  <2>1. Addr \subseteq Nat
    BY Geometry
  <2> QED BY <2>1 DEF Halfway, LastOf, WritesOn, WritesNewPage
<1>6. ASSUME NEW x \in Addr, g[x] # f[x] PROVE f[x] = Erased /\ g[x] \in RecordWord
  <2>1. f[x] = Erased /\ x - c \in 0 .. z - 1 /\ g[x] = buf[x - c + 1]
    BY <1>6 DEF Programs
  <2>2. PICK i \in 1 .. z : i = x - c + 1 /\ c + i - 1 = x
    BY <1>4, <1>5, <2>1
  <2>3. /\ f[x] = IF i <= j THEN buf[i] ELSE Erased
        /\ g[x] = IF i <= k THEN buf[i] ELSE Erased
    BY <1>5, <2>2 DEF Landed
  <2>4. ~(i <= j) /\ i <= k
    BY <1>4, <1>6, <2>1, <2>3
  <2>5. CASE i # z
    <3>1. i \in 1 .. z - 1
      BY <1>4, <2>5
    <3> QED BY <1>4, <2>1, <2>2, <3>1
  <2>6. CASE i = z
    <3>1. k = z /\ j # z
      BY <1>4, <2>4, <2>6
    <3>2. RecordIn(buf)
      BY <1>5, <3>1 DEF SeqLands
    <3> QED BY <1>4, <2>1, <2>2, <2>6, <3>2
  <2> QED BY <2>5, <2>6
<1>7. Heads(g) = Heads(f) /\ \A s \in Heads(f) : g[s] = f[s]
  <2>1. \A x \in Addr : g[x] # f[x] => f[x] = Erased /\ g[x].kind # "seq"
    BY <1>6, Words
  <2> QED BY <2>1, HeadsKept
<1>8. Run(g, o, b, m)
  BY <1>1, <1>7 DEF Run
<1>9. Turns(g, o, b, m, c, buf, q)
  <2> SUFFICES ASSUME RecordAndSeqIn(buf, q)
               PROVE  \E i \in Nat : /\ g[e] = Erased => i = m
                                     /\ g[e] # Erased => m = i + 1
                                     /\ Enters(o, b, i, c, q, e)
    BY DEF Turns
  <2>1. PICK i \in Nat : /\ f[e] = Erased => i = m
                         /\ f[e] # Erased => m = i + 1
                         /\ Enters(o, b, i, c, q, e)
    BY <1>1 DEF Turns
  <2>2. g[e] = f[e]
    <3> SUFFICES ASSUME g[e] # f[e] PROVE FALSE
      OBVIOUS
    <3>1. f[e] = Erased /\ g[e] \in RecordWord
      BY <1>5, <1>6
    <3>2. g[e] = buf[e - c + 1] /\ e - c + 1 = z
      BY <1>4, <1>5 DEF Programs
    <3>3. g[e] = SeqWord(q)
      BY <1>4, <3>2
    <3> QED BY <3>1, <3>3, Words
  <2> QED BY <2>1, <2>2
<1> HIDE DEF n, w, a, z, e
<1>10. Firm(g, o, m)
  <2> SUFFICES ASSUME PageCount >= 3, m # 0 PROVE Reads(Tape(g, o), a, w) # <<>>
    BY DEF Firm, a, w
  <2>1. Reads(Tape(f, o), a, w) # <<>>
    BY <1>1 DEF Firm, a, w
  <2>2. /\ Reads(Tape(f, o), a, w) = Added(Reads(Tape(f, o), a, n), buf, j)
        /\ Reads(Tape(f, o), a, n) \in Seq(Nat) /\ buf[1].id \in Nat
    <3>1. a \in Nat /\ a <= Dist(o, c)
      BY <1>2 DEF n
    <3> QED BY <1>1, <3>1, HalfwayReads DEF n, w
  <2>3. Reads(Tape(g, o), a, w) = Added(Reads(Tape(g, o), a, n), buf, k)
    <3>1. a \in Nat /\ a <= Dist(o, c)
      BY <1>2 DEF n
    <3> QED BY <1>8, <1>9, <3>1, HalfwayReads DEF n, w
  <2>4. Reads(Tape(g, o), a, n) = Reads(Tape(f, o), a, n)
    BY <1>2, <1>3, ReadsBefore DEF n
  <2>5. CASE k = Len(buf)
    BY <2>2, <2>3, <2>4, <2>5, PlusIs DEF Added
  <2>6. CASE k # Len(buf)
    <3>1. j # Len(buf)
      BY <1>4, <2>6 DEF z
    <3> QED BY <2>1, <2>2, <2>3, <2>4, <2>6, <3>1 DEF Added
  <2> QED BY <2>5, <2>6
<1>11. Reads(Tape(g, o), 0, n) = Reads(Tape(f, o), 0, n)
  BY <1>2, <1>3, ReadsBefore DEF n
<1>12. Keeps(Reads(Tape(g, o), 0, Dist(o, c)), l)
  BY <1>1, <1>11 DEF n
<1> QED BY <1>8, <1>9, <1>10, <1>12 DEF Held

LEMMA HeldLandsPage ==
    ASSUME NEW f \in [Addr -> CleanWord], Packed(f), NEW g \in [Addr -> CleanWord],
           NEW o \in Pages, NEW b \in Nat, NEW m \in 0 .. PageCount, NEW l,
           NEW c, NEW buf, NEW q \in Nat, NEW j \in 0 .. Len(buf), NEW k \in 0 .. Len(buf),
           Halfway(f, c, buf, q, j), Halfway(g, c, buf, q, k), Programs(f, g, c, buf),
           Held(f, o, b, m, c, buf, q, l), SeqLands(buf, q, j, k)
    PROVE  \E n \in 0 .. PageCount : n = m + 1 /\ Held(g, o, b, n, c, buf, q, l)
<1> DEFINE z == Len(buf)
           e == LastOf(c, buf)
<1>1. /\ Run(f, o, b, m) /\ Turns(f, o, b, m, c, buf, q)
      /\ Keeps(Reads(Tape(f, o), 0, Dist(o, c)), l)
  BY DEF Held
<1>2. RecordAndSeqIn(buf, q) /\ j # z /\ k = z
  BY DEF SeqLands
<1>3. /\ WritesNewPage(f, c, buf, q) /\ c \in Nat /\ e \in Addr /\ e = c + z - 1
      /\ Landed(f, c, buf, j) /\ Landed(g, c, buf, k) /\ Addr \subseteq Nat
  <2>1. ~RecordIn(buf)
    BY <1>2, OneOfTwo
  <2>2. Addr \subseteq Nat
    BY Geometry
  <2> QED BY <2>1, <2>2 DEF Halfway, LastOf, WritesOn
<1>4. /\ z \in Nat /\ z >= 1 /\ \A i \in 1 .. z - 1 : buf[i] \in RecordWord
      /\ buf[z] = SeqWord(q)
  <2>1. WritesOn(f, c, buf, q) \/ WritesNewPage(f, c, buf, q)
    BY <1>3
  <2> QED BY <1>3, <2>1, BufferIs
<1>5. f[e] = Erased /\ g[e] = SeqWord(q)
  <2>1. z \in 1 .. z /\ c + z - 1 = e /\ ~(z <= j) /\ z <= k
    BY <1>2, <1>3, <1>4
  <2>2. /\ f[c + z - 1] = IF z <= j THEN buf[z] ELSE Erased
        /\ g[c + z - 1] = IF z <= k THEN buf[z] ELSE Erased
    BY <1>3, <2>1 DEF Landed
  <2> QED BY <1>4, <2>1, <2>2
<1>6. m \in 0 .. PageCount - 1 /\ Enters(o, b, m, c, q, e) /\ q = b + m /\ PageOf(e) = Fwd(o, m)
  <2>1. PICK i \in Nat : /\ f[e] = Erased => i = m
                         /\ Enters(o, b, i, c, q, e)
    BY <1>1, <1>2 DEF Turns
  <2> QED BY <1>5, <2>1 DEF Enters
<1>7. ASSUME NEW x \in Addr, PageOf(x) = PageOf(e), x < e PROVE g[x] \in RecordWord
  <2>1. x >= c
    BY <1>3, <1>7 DEF WritesNewPage, LastOf
  <2>2. PICK i \in 1 .. z - 1 : i = x - c + 1 /\ c + i - 1 = x
    BY <1>3, <1>4, <1>7, <2>1
  <2>3. i \in 1 .. z /\ i <= k
    BY <1>2, <1>4
  <2>4. g[c + i - 1] = IF i <= k THEN buf[i] ELSE Erased
    BY <1>3, <2>3 DEF Landed
  <2> QED BY <1>4, <2>2, <2>3, <2>4
<1>8. ASSUME NEW x \in Addr, g[x] # f[x] PROVE f[x] = Erased /\ (x # e => g[x].kind # "seq")
  <2>1. f[x] = Erased /\ x - c \in 0 .. z - 1 /\ g[x] = buf[x - c + 1]
    BY <1>8 DEF Programs
  <2>2. ASSUME x # e PROVE g[x].kind # "seq"
    <3>1. x - c + 1 \in 1 .. z - 1
      BY <1>3, <1>4, <2>1, <2>2
    <3> QED BY <1>4, <2>1, <3>1, Words
  <2> QED BY <2>1, <2>2
<1>9. Heads(g) = Heads(f) \cup {e} /\ \A s \in Heads(f) : g[s] = f[s]
  <2>1. g[e].kind = "seq"
    BY <1>5, Words
  <2> QED BY <1>3, <1>7, <1>8, <2>1, HeadsGrown
<1>10. PICK n \in 0 .. PageCount : n = m + 1 /\ n - 1 = m /\ n # 0
  BY <1>6, Geometry
<1>11. Run(g, o, b, n)
  <2>1. ASSUME NEW t \in Heads(g)
        PROVE  \E i \in 0 .. n - 1 : PageOf(t) = Fwd(o, i) /\ g[t].id = b + i
    <3>1. CASE t = e
      <4>1. m \in 0 .. n - 1
        BY <1>10
      <4>2. g[t].id = b + m
        BY <1>5, <1>6, <3>1, Words
      <4> QED BY <1>6, <3>1, <4>1, <4>2
    <3>2. CASE t # e
      <4>1. t \in Heads(f) /\ g[t] = f[t]
        BY <1>9, <3>2
      <4>2. PICK i \in 0 .. m - 1 : PageOf(t) = Fwd(o, i) /\ f[t].id = b + i
        BY <1>1, <4>1 DEF Run
      <4>3. i \in 0 .. n - 1
        BY <1>10, <4>2
      <4> QED BY <4>1, <4>2, <4>3
    <3> QED BY <3>1, <3>2
  <2>2. ASSUME NEW i \in 0 .. n - 1 PROVE \E t \in Heads(g) : PageOf(t) = Fwd(o, i)
    <3>1. CASE i = m
      BY <1>6, <1>9, <3>1
    <3>2. CASE i # m
      <4>1. i \in 0 .. m - 1
        BY <1>10, <3>2
      <4> QED BY <1>1, <1>9, <4>1 DEF Run
    <3> QED BY <3>1, <3>2
  <2> QED BY <1>10, <2>1, <2>2 DEF Run
<1>12. Turns(g, o, b, n, c, buf, q)
  <2>1. g[e] # Erased
    BY <1>5, Words
  <2>2. m \in Nat /\ n = m + 1 /\ Enters(o, b, m, c, q, LastOf(c, buf))
    BY <1>6, <1>10
  <2> QED BY <2>1, <2>2 DEF Turns
<1>13. /\ Dist(o, c) \in Nat /\ LastTwo(n) \in Nat /\ PageStart(n) <= StoreEnd /\ PageStart(n) \in Nat
       /\ LastTwo(n) <= Dist(o, c) /\ Dist(o, c) <= PageStart(n) /\ Ahead(o, c, buf)
  BY <1>11, <1>12, HalfwayLayout
<1>14. Firm(g, o, n)
  <2>1. /\ Reads(Tape(g, o), LastTwo(n), PageStart(n))
             = Added(Reads(Tape(g, o), LastTwo(n), Dist(o, c)), buf, k)
        /\ Reads(Tape(g, o), LastTwo(n), Dist(o, c)) \in Seq(Nat) /\ buf[1].id \in Nat
    BY <1>11, <1>12, <1>13, HalfwayReads
  <2>2. Reads(Tape(g, o), LastTwo(n), PageStart(n)) # <<>>
    BY <1>2, <2>1, PlusIs DEF Added
  <2> QED BY <2>2 DEF Firm
<1>15. Keeps(Reads(Tape(g, o), 0, Dist(o, c)), l)
  <2>1. 0 \in Nat /\ 0 <= Dist(o, c) /\ Dist(o, c) <= StoreEnd
    BY <1>13, Geometry
  <2>2. Reads(Tape(g, o), 0, Dist(o, c)) = Reads(Tape(f, o), 0, Dist(o, c))
    BY <1>13, <2>1, ReadsBefore
  <2> QED BY <1>1, <2>2
<1> QED BY <1>10, <1>11, <1>12, <1>14, <1>15 DEF Held

-----------------------------------------------------------------------------
(* What an erase takes                                                     *)

LEMMA TailLeft ==
    ASSUME NEW s \in Seq(Nat), NEW t \in Seq(Nat), t # <<>>
    PROVE  s \o t # <<>>
<1> DEFINE u == s \o t
<1>1. Len(u) = Len(s) + Len(t) /\ Len(s) \in Nat /\ Len(t) \in Nat /\ Len(<<>>) = 0
  OBVIOUS
<1>2. Len(t) # 0
  BY EmptySeq
<1> HIDE DEF u
<1>3. u # <<>>
  BY <1>1, <1>2
<1> QED BY <1>3 DEF u

LEMMA BelowPage ==
    ASSUME NEW m \in 0 .. PageCount, NEW i \in 0 .. PageStart(m) - 1
    PROVE  i \in 0 .. StoreEnd - 1 /\ PageOf(i) \in 0 .. PageCount - 1 /\ PageOf(i) < m
<1>1. PageStart(m) \in Nat /\ PageStart(m) <= StoreEnd /\ StoreEnd \in Nat /\ PageWords \in Nat \ {0} /\ PageCount \in Nat
  BY PagesUpTo, Geometry
<1>2. i \in 0 .. StoreEnd - 1
  BY <1>1
<1>3. PageOf(i) \in 0 .. PageCount - 1 /\ PageStart(PageOf(i)) \in Nat /\ PageStart(PageOf(i)) <= i
  <2>1. /\ PageOf(i) \in 0 .. PageCount - 1 /\ PageStart(PageOf(i)) \in Nat
        /\ i % PageWords \in 0 .. PageWords - 1
        /\ PageStart(PageOf(i)) + (i % PageWords) = i
    BY <1>2, SpotIs
  <2> QED BY <1>1, <1>2, <2>1
<1>4. ASSUME PageOf(i) >= m PROVE FALSE
  <2>1. CASE PageOf(i) = m
    BY <1>1, <1>3, <2>1
  <2>2. CASE PageOf(i) > m
    <3>1. m * PageWords + PageWords <= PageOf(i) * PageWords
      BY <1>1, <1>3, <2>2, MulMono
    <3>2. PageStart(m) + PageWords <= PageStart(PageOf(i))
      BY <3>1 DEF PageStart
    <3> QED BY <1>1, <1>3, <3>2
  <2> QED BY <1>1, <1>3, <1>4, <2>1, <2>2
<1> QED BY <1>1, <1>2, <1>3, <1>4

\* g is f with the page p erased.
PageErased(f, g, p) ==
    /\ \A a \in Addr : g[a] = IF PageOf(a) = p THEN Erased ELSE f[a]
    /\ Heads(g) = {s \in Heads(f) : PageOf(s) # p}

\* The page behind the run holds nothing that is read.
LEMMA ErasesFree ==
    ASSUME NEW f \in [Addr -> CleanWord], NEW g \in [Addr -> CleanWord], Packed(f), Packed(g),
           NEW o \in Pages, NEW b \in Nat, NEW m \in 0 .. PageCount, NEW l,
           Kept(f, o, b, m, l), m # PageCount, PageErased(f, g, Fwd(o, m))
    PROVE  Kept(g, o, b, m, l) /\ Readback(g) = Readback(f)
<1> DEFINE p == Fwd(o, m)
           w == PageStart(m)
<1>1. Run(f, o, b, m) /\ Firm(f, o, m) /\ Keeps(Reads(Tape(f, o), 0, w), l)
  BY DEF Kept
<1>2. /\ \A a \in Addr : g[a] = IF PageOf(a) = p THEN Erased ELSE f[a]
      /\ Heads(g) = {s \in Heads(f) : PageOf(s) # p}
  BY DEF PageErased
<1>3. /\ PageCount \in Nat /\ m \in Nat /\ m < PageCount /\ m \in 0 .. PageCount - 1
      /\ w \in Nat /\ w <= StoreEnd /\ StoreEnd \in Nat
  BY Geometry, PagesUpTo
<1>4. ASSUME NEW j \in 0 .. PageCount - 1, j < m PROVE Fwd(o, j) # p
  <2> SUFFICES ASSUME Fwd(o, j) = Fwd(o, m) PROVE FALSE
    OBVIOUS
  <2>1. j = m
    BY <1>3, FwdInjective
  <2> QED BY <1>3, <1>4, <2>1
<1>5. Heads(g) = Heads(f) /\ \A s \in Heads(f) : g[s] = f[s]
  <2>1. ASSUME NEW s \in Heads(f) PROVE PageOf(s) # p /\ s \in Addr
    <3>1. PICK j \in 0 .. m - 1 : PageOf(s) = Fwd(o, j)
      BY <1>1 DEF Run
    <3>2. j \in 0 .. PageCount - 1 /\ j < m
      BY <1>3
    <3>3. Fwd(o, j) # p
      BY <1>4, <3>2
    <3> HIDE DEF p
    <3> QED BY <3>1, <3>3 DEF Heads
  <2> HIDE DEF p
  <2> QED BY <1>2, <2>1
<1>6. Run(g, o, b, m)
  BY <1>1, <1>5 DEF Run
<1>7. ASSUME NEW i \in 0 .. w - 1 PROVE Tape(g, o)[i] = Tape(f, o)[i]
  <2>1. i \in 0 .. StoreEnd - 1 /\ PageOf(i) \in 0 .. PageCount - 1 /\ PageOf(i) < m
    BY BelowPage
  <2>2. At(o, i) \in Addr /\ PageOf(At(o, i)) = Fwd(o, PageOf(i))
    BY <2>1, AtIs
  <2>3. Fwd(o, PageOf(i)) # p
    BY <1>4, <2>1
  <2>4. Tape(g, o)[i] = g[At(o, i)] /\ Tape(f, o)[i] = f[At(o, i)]
    BY <2>1, TapeIs
  <2> HIDE DEF p
  <2> QED BY <1>2, <2>2, <2>3, <2>4
<1> HIDE DEF p, w
<1>8. ASSUME NEW a \in Nat, a <= w PROVE Reads(Tape(g, o), a, w) = Reads(Tape(f, o), a, w)
  <2>1. \A i \in a .. w - 1 : Tape(g, o)[i] = Tape(f, o)[i]
    BY <1>3, <1>7
  <2> QED BY <1>3, <1>8, <2>1, ReadsSame
<1>9. Firm(g, o, m)
  <2>1. LastTwo(m) \in Nat /\ LastTwo(m) <= w
    BY LastTwoIs DEF w
  <2> QED BY <1>1, <1>8, <2>1 DEF Firm, w
<1>10. Reads(Tape(g, o), 0, w) = Reads(Tape(f, o), 0, w)
  BY <1>3, <1>8
<1>11. Kept(g, o, b, m, l)
  BY <1>1, <1>6, <1>9, <1>10 DEF Kept, w
<1>12. Readback(g) = Reads(Tape(g, o), 0, w) /\ Readback(f) = Reads(Tape(f, o), 0, w)
  BY <1>1, <1>6, ReadbackIs DEF w
<1> QED BY <1>10, <1>11, <1>12

\* The region from the second page on is the region less the oldest page.
LEMMA NextOldest ==
    ASSUME NEW o \in Pages
    PROVE  /\ Fwd(o, 1) \in Pages /\ Fwd(o, 0) = o
           /\ \A j \in 0 .. PageCount - 2 : Fwd(Fwd(o, 1), j) = Fwd(o, j + 1)
           /\ \A i \in 0 .. StoreEnd - PageWords - 1 : At(Fwd(o, 1), i) = At(o, i + PageWords)
<1>1. PageCount \in Nat /\ PageCount >= 2 /\ o \in Nat /\ o < PageCount
  BY Geometry DEF Pages
<1>2. Fwd(o, 1) = IF o + 1 < PageCount THEN o + 1 ELSE o + 1 - PageCount
  BY DEF Fwd
<1>3. Fwd(o, 1) \in Pages /\ Fwd(o, 0) = o
  BY <1>1 DEF Fwd, Pages
<1>4. ASSUME NEW j \in 0 .. PageCount - 2 PROVE Fwd(Fwd(o, 1), j) = Fwd(o, j + 1)
  BY <1>1, <1>2 DEF Fwd
<1>5. ASSUME NEW i \in 0 .. StoreEnd - PageWords - 1 PROVE At(Fwd(o, 1), i) = At(o, i + PageWords)
  <2>1. /\ PageWords \in Nat \ {0} /\ StoreEnd \in Nat /\ PageStart(0) = 0
    BY Geometry
  <2>2. 1 \in 0 .. PageCount - 1
    BY <1>1
  <2>3. PageStart(1) = PageWords
    BY <2>1 DEF PageStart
  <2>4. /\ PageStart(o) \in Nat /\ PageStart(o) + PageWords <= StoreEnd
        /\ PageStart(Fwd(o, 1)) = IF o + 1 < PageCount THEN PageStart(o) + PageStart(1)
                                  ELSE PageStart(o) + PageStart(1) - StoreEnd
        /\ PageStart(Fwd(o, 1)) \in Nat /\ PageStart(Fwd(o, 1)) + PageWords <= StoreEnd
    BY <2>2, FwdIs
  <2> DEFINE s == PageStart(o)
             u == PageStart(Fwd(o, 1))
  <2> HIDE DEF s, u
  <2>5. /\ s \in Nat /\ s + PageWords <= StoreEnd /\ u \in Nat /\ u + PageWords <= StoreEnd
        /\ u = s + PageWords \/ u = s + PageWords - StoreEnd
    BY <2>3, <2>4 DEF s, u
  <2>6. (IF u + i < StoreEnd THEN u + i ELSE u + i - StoreEnd)
          = (IF s + (i + PageWords) < StoreEnd THEN s + (i + PageWords) ELSE s + (i + PageWords) - StoreEnd)
    BY <2>1, <2>5
  <2> QED BY <2>6 DEF At, s, u
<1> QED BY <1>3, <1>4, <1>5

\* The oldest page is erased when every page is in use.
LEMMA ErasesOldest ==
    ASSUME NEW f \in [Addr -> CleanWord], NEW g \in [Addr -> CleanWord], Packed(f), Packed(g),
           NEW o \in Pages, NEW b \in Nat, NEW l \in Seq(Nat),
           Kept(f, o, b, PageCount, l), PageErased(f, g, o)
    PROVE  /\ \E p \in Pages, m \in 0 .. PageCount : Kept(g, p, b + 1, m, l)
           /\ Oldest(UsedPages(f)).page = o
           /\ \E D \in Seq(Nat) : Readback(f) = D \o Readback(g) /\ From(Tape(f, o), 0, PageWords, D)
           /\ Readback(g) \in Seq(Nat)
<1>1. /\ PageCount \in Nat /\ PageCount >= 2 /\ PageWords \in Nat \ {0} /\ StoreEnd \in Nat
      /\ StoreEnd = PageStart(PageCount) /\ PageStart(0) = 0
  BY Geometry
<1>2. PICK m \in 0 .. PageCount : m = PageCount
  BY <1>1
<1>3. PICK n \in 0 .. PageCount : n = m - 1 /\ n + 1 = m /\ n # 0 /\ m # 0
  BY <1>1, <1>2
<1> DEFINE p == Fwd(o, 1)
           T == Tape(f, o)
           v == PageStart(n)
<1>4. /\ p \in Pages /\ Fwd(o, 0) = o
      /\ \A j \in 0 .. PageCount - 2 : Fwd(p, j) = Fwd(o, j + 1)
      /\ \A i \in 0 .. StoreEnd - PageWords - 1 : At(p, i) = At(o, i + PageWords)
  BY NextOldest
<1>5. Run(f, o, b, m) /\ Firm(f, o, m) /\ Keeps(Reads(T, 0, PageStart(m)), l)
  BY <1>2 DEF Kept
<1>6. /\ \A a \in Addr : g[a] = IF PageOf(a) = o THEN Erased ELSE f[a]
      /\ Heads(g) = {s \in Heads(f) : PageOf(s) # o}
  BY DEF PageErased
<1>7. v \in Nat /\ v + PageWords = StoreEnd /\ PageStart(m) = StoreEnd
  <2>1. n \in Nat
    OBVIOUS
  <2>2. PageStart(n) \in Nat /\ PageStart(n + 1) = PageStart(n) + PageWords
    BY <2>1, PageStartIs
  <2> QED BY <1>1, <1>2, <1>3, <2>2
<1>8. Run(g, p, b + 1, n)
  <2>1. ASSUME NEW t \in Heads(g)
        PROVE  \E i \in 0 .. n - 1 : PageOf(t) = Fwd(p, i) /\ g[t].id = (b + 1) + i
    <3>1. t \in Heads(f) /\ PageOf(t) # o /\ t \in Addr /\ g[t] = f[t]
      BY <1>6 DEF Heads
    <3>2. PICK j \in 0 .. m - 1 : PageOf(t) = Fwd(o, j) /\ f[t].id = b + j
      BY <1>5, <3>1 DEF Run
    <3>3. j # 0
      BY <1>4, <3>1, <3>2
    <3>4. PICK i \in 0 .. n - 1 : i + 1 = j /\ i \in 0 .. PageCount - 2 /\ (b + 1) + i = b + j
      <4>1. j - 1 \in 0 .. n - 1 /\ (j - 1) + 1 = j /\ j - 1 \in 0 .. PageCount - 2 /\ (b + 1) + (j - 1) = b + j
        BY <1>1, <1>2, <1>3, <3>3
      <4> QED BY <4>1
    <3>5. Fwd(p, i) = Fwd(o, j)
      BY <1>4, <3>4
    <3> QED BY <3>1, <3>2, <3>4, <3>5
  <2>2. ASSUME NEW i \in 0 .. n - 1 PROVE \E t \in Heads(g) : PageOf(t) = Fwd(p, i)
    <3>1. /\ i \in 0 .. PageCount - 2 /\ i + 1 \in 0 .. m - 1 /\ i + 1 \in 0 .. PageCount - 1
          /\ 0 \in 0 .. PageCount - 1 /\ i + 1 # 0
      BY <1>1, <1>2, <1>3
    <3>2. PICK t \in Heads(f) : PageOf(t) = Fwd(o, i + 1)
      BY <1>5, <3>1 DEF Run
    <3>3. Fwd(o, i + 1) # Fwd(o, 0)
      BY <3>1, FwdInjective
    <3>4. t \in Heads(g)
      BY <1>4, <1>6, <3>2, <3>3
    <3> QED BY <1>4, <3>1, <3>2, <3>4
  <2> QED BY <1>3, <2>1, <2>2 DEF Run
<1> HIDE DEF v, p
<1>9. SameWords(Tape(g, p), T, 0, v, PageWords)
  <2> SUFFICES ASSUME NEW i \in 0 .. v - 1 PROVE Tape(g, p)[i] = T[i + PageWords]
    BY DEF SameWords
  <2>1. /\ i \in 0 .. StoreEnd - PageWords - 1 /\ i \in 0 .. StoreEnd - 1
        /\ i + PageWords \in 0 .. StoreEnd - 1
    BY <1>1, <1>7
  <2>2. At(p, i) = At(o, i + PageWords) /\ At(p, i) \in Addr
    BY <1>4, <2>1, AtIs
  <2>3. Tape(g, p)[i] = g[At(p, i)] /\ T[i + PageWords] = f[At(o, i + PageWords)]
    BY <1>4, <2>1, TapeIs
  <2>4. PageOf(At(p, i)) # o
    <3>1. PageOf(At(p, i)) = Fwd(p, PageOf(i)) /\ PageOf(i) \in 0 .. PageCount - 1 /\ PageOf(i) < n
      <4>1. i \in 0 .. PageStart(n) - 1
        BY DEF v
      <4> QED BY <1>4, <2>1, <4>1, AtIs, BelowPage
    <3>2. PICK j \in 0 .. PageCount - 1 : j = PageOf(i) + 1 /\ j # 0 /\ PageOf(i) \in 0 .. PageCount - 2
      <4>1. PageOf(i) + 1 \in 0 .. PageCount - 1 /\ PageOf(i) + 1 # 0 /\ PageOf(i) \in 0 .. PageCount - 2
        BY <1>1, <1>2, <1>3, <3>1
      <4> QED BY <4>1
    <3>3. Fwd(p, PageOf(i)) = Fwd(o, j)
      BY <1>4, <3>2
    <3>4. 0 \in 0 .. PageCount - 1
      BY <1>1
    <3>5. Fwd(o, j) # Fwd(o, 0)
      BY <3>2, <3>4, FwdInjective
    <3> QED BY <1>4, <3>1, <3>3, <3>5
  <2> QED BY <1>6, <2>2, <2>3, <2>4
<1>10. ASSUME NEW a \in Nat, a <= v
       PROVE  Reads(Tape(g, p), a, v) = Reads(T, a + PageWords, StoreEnd)
  <2>1. SameWords(Tape(g, p), T, a, v, PageWords)
    <3>1. a .. v - 1 \subseteq 0 .. v - 1
      BY <1>7
    <3> QED BY <1>9, <3>1 DEF SameWords
  <2>2. PageWords \in Nat
    BY <1>1
  <2>3. Reads(Tape(g, p), a, v) = Reads(T, a + PageWords, v + PageWords)
    BY <1>7, <1>10, <2>1, <2>2, ReadsShifted
  <2> QED BY <1>7, <2>3
<1>11. Reads(Tape(g, p), 0, v) = Reads(T, PageWords, StoreEnd)
  <2>1. 0 \in Nat /\ 0 <= v /\ 0 + PageWords = PageWords
    BY <1>1, <1>7
  <2>2. Reads(Tape(g, p), 0, v) = Reads(T, 0 + PageWords, StoreEnd)
    BY <1>10, <2>1
  <2> QED BY <2>1, <2>2
<1>12. CleanTape(T, StoreEnd)
  BY <1>1, TapeIs
<1>13. PageWords \in Nat /\ 0 \in Nat /\ 0 <= PageWords /\ PageWords <= StoreEnd
  BY <1>1, <1>7
<1> HIDE DEF T
<1>14. PICK D \in Seq(Nat) : /\ Reads(T, 0, StoreEnd) = D \o Reads(T, PageWords, StoreEnd)
                             /\ From(T, 0, PageWords, D)
  BY <1>1, <1>12, <1>13, ReadsLater
<1>15. Reads(T, PageWords, StoreEnd) \in Seq(Nat)
  BY <1>1, <1>12, <1>13, ScanTyped
<1>16. ASSUME PageCount >= 3
       PROVE  /\ Reads(T, LastTwo(m), StoreEnd) # <<>>
              /\ LastTwo(m) = LastTwo(n) + PageWords /\ LastTwo(n) \in Nat /\ LastTwo(n) <= v
              /\ Reads(T, PageWords, StoreEnd) # <<>>
  <2>1. Reads(T, LastTwo(m), StoreEnd) # <<>>
    BY <1>3, <1>5, <1>7, <1>16 DEF Firm, T
  <2>2. m >= 2 /\ n >= 2 /\ m - 2 \in Nat /\ n - 2 \in Nat /\ m - 2 = (n - 2) + 1
    BY <1>1, <1>2, <1>3, <1>16
  <2>3. LastTwo(m) = PageStart(m - 2) /\ LastTwo(n) = PageStart(n - 2)
    BY <2>2 DEF LastTwo
  <2>4. PageStart(m - 2) = PageStart(n - 2) + PageWords
    BY <2>2, PageStartIs
  <2>5. LastTwo(n) \in Nat /\ LastTwo(n) <= v
    BY LastTwoIs DEF v
  <2>6. LastTwo(m) \in Nat /\ PageWords <= LastTwo(m) /\ LastTwo(m) <= StoreEnd
    BY <1>7, <1>13, <2>3, <2>4, <2>5
  <2>7. PICK E \in Seq(Nat) : /\ Reads(T, PageWords, StoreEnd) = E \o Reads(T, LastTwo(m), StoreEnd)
                              /\ From(T, PageWords, LastTwo(m), E)
    BY <1>1, <1>12, <1>13, <2>6, ReadsLater
  <2>8. Reads(T, LastTwo(m), StoreEnd) \in Seq(Nat)
    BY <1>1, <1>12, <2>6, ScanTyped
  <2> QED BY <2>1, <2>3, <2>4, <2>5, <2>7, <2>8, TailLeft
<1>17. Firm(g, p, n)
  <2> SUFFICES ASSUME PageCount >= 3 PROVE Reads(Tape(g, p), LastTwo(n), v) # <<>>
    BY DEF Firm, v
  <2>1. Reads(Tape(g, p), LastTwo(n), v) = Reads(T, LastTwo(n) + PageWords, StoreEnd)
    BY <1>10, <1>16
  <2> QED BY <1>16, <2>1
<1>18. Keeps(Reads(Tape(g, p), 0, v), l)
  <2>1. Keeps(D \o Reads(T, PageWords, StoreEnd), l)
    BY <1>5, <1>7, <1>14
  <2>2. PageCount >= 3 => Reads(T, PageWords, StoreEnd) # <<>>
    BY <1>16
  <2>3. Keeps(Reads(T, PageWords, StoreEnd), l)
    BY <1>15, <2>1, <2>2, KeepsLess
  <2> QED BY <1>11, <2>3
<1>19. Kept(g, p, b + 1, n, l)
  BY <1>8, <1>17, <1>18 DEF Kept, v
<1>20. Readback(g) = Reads(Tape(g, p), 0, v)
  <2>1. b + 1 \in Nat
    OBVIOUS
  <2> QED BY <1>4, <1>8, <2>1, ReadbackIs DEF v
<1>21. Readback(f) = Reads(T, 0, StoreEnd) /\ Oldest(UsedPages(f)).page = o
  <2>1. Readback(f) = Reads(Tape(f, o), 0, PageStart(m)) /\ Oldest(UsedPages(f)).page = o
    BY <1>3, <1>5, ReadbackIs
  <2> QED BY <1>7, <2>1 DEF T
<1> QED BY <1>4, <1>11, <1>14, <1>15, <1>19, <1>20, <1>21 DEF T

-----------------------------------------------------------------------------
(* The page after the run                                                  *)

LEMMA NextPageBehind ==
    ASSUME flash \in [Addr -> CleanWord], NEW o \in Pages, NEW b \in Nat, NEW m \in 0 .. PageCount,
           Run(flash, o, b, m), NEW q, Stands(flash, currentWrite, q)
    PROVE  /\ NextPage \in Addr /\ PageOf(NextPage) = Fwd(o, m) /\ NextPage = PageStart(PageOf(NextPage))
           /\ q + 1 = b + m /\ (m = 0 => currentWrite = 0 /\ PageStart(o) = 0)
<1>1. /\ PageWords \in Nat \ {0} /\ StoreEnd \in Nat /\ Addr = 0 .. StoreEnd - 1
      /\ PageStart(0) = 0 /\ PageCount \in Nat /\ PageCount >= 2 /\ StoreEnd = PageStart(PageCount)
  BY Geometry
<1>2. Heads(flash) = {} <=> m = 0
  BY RunHead
<1>3. CASE Heads(flash) = {} /\ currentWrite = 0 /\ q = 0
  <2>1. m = 0 /\ o = 0 /\ b = 1
    BY <1>2, <1>3 DEF Run
  <2>2. /\ PageOf(0) = 0 /\ 0 % PageWords = 0 - PageStart(PageOf(0))
        /\ PageStart(0) + PageWords <= StoreEnd
    <3>1. PageOf(0) = 0
      BY <1>1, PageAt
    <3> QED BY <1>1, <3>1, PageSpan, PageInside
  <2>3. Remain = 0
    BY <1>1, <1>3, <2>2 DEF Remain
  <2>4. NextPage = 0
    BY <1>1, <1>3, <2>2, <2>3 DEF NextPage
  <2>5. Fwd(o, m) = 0
    BY <1>1, <2>1 DEF Fwd
  <2> QED BY <1>1, <1>3, <2>1, <2>2, <2>4, <2>5
<1>4. ASSUME NEW s \in Addr, Leads(flash, s), flash[s].id = q,
             currentWrite \in Nat, currentWrite - 1 \in Addr, PageOf(currentWrite - 1) = PageOf(s)
      PROVE  /\ NextPage \in Addr /\ PageOf(NextPage) = Fwd(o, m) /\ NextPage = PageStart(PageOf(NextPage))
             /\ q + 1 = b + m /\ m # 0
  <2>1. m # 0
    BY <1>2, <1>4 DEF Leads
  <2>2. PageOf(s) = Fwd(o, m - 1) /\ q = b + (m - 1)
    BY <1>4, <2>1, RunLeads
  <2> DEFINE p == PageOf(currentWrite - 1)
             e == PageStart(p) + PageWords
  <2>3. /\ p \in 0 .. PageCount - 1 /\ PageStart(p) \in Nat /\ e \in Nat /\ e <= StoreEnd
        /\ NextPage = IF e = StoreEnd THEN 0 ELSE e
        /\ NextPage \in Addr /\ NextPage = PageStart(PageOf(NextPage))
    BY <1>4, PageTurn
  <2>4. p = Fwd(o, m - 1)
    BY <1>4, <2>2
  <2> HIDE DEF p
  <2>5. e = PageStart(p + 1) /\ p + 1 \in Nat /\ p + 1 <= PageCount
    <3>1. p \in Nat /\ p + 1 <= PageCount
      BY <1>1, <2>3
    <3> QED BY <3>1, PageStartIs
  <2> HIDE DEF e
  <2>6. e = StoreEnd <=> p + 1 = PageCount
    <3> SUFFICES ASSUME p + 1 < PageCount PROVE e # StoreEnd
      BY <1>1, <2>3, <2>5
    <3>1. (p + 1) * PageWords + PageWords <= PageCount * PageWords
      BY <1>1, <2>5, MulMono
    <3>2. e + PageWords <= StoreEnd
      BY <1>1, <2>5, <3>1 DEF PageStart
    <3> QED BY <1>1, <2>3, <3>2
  <2>7. PageOf(NextPage) = IF p + 1 = PageCount THEN 0 ELSE p + 1
    <3>1. CASE p + 1 = PageCount
      <4>1. NextPage = 0 /\ PageOf(0) = 0
        BY <1>1, <2>3, <2>6, <3>1, PageAt
      <4> QED BY <3>1, <4>1
    <3>2. CASE p + 1 # PageCount
      <4>1. NextPage = PageStart(p + 1)
        BY <2>3, <2>5, <2>6, <3>2
      <4>2. PageOf(PageStart(p + 1)) = p + 1
        <5>1. PageStart(p + 1) \in Nat /\ PageStart(p + 1) < PageStart(p + 1) + PageWords
          BY <1>1, <2>3, <2>5
        <5> QED BY <2>5, <5>1, PageAt
      <4> QED BY <3>2, <4>1, <4>2
    <3> QED BY <3>1, <3>2
  <2>8. Fwd(o, m) = IF p + 1 = PageCount THEN 0 ELSE p + 1
    <3>1. o \in Nat /\ o < PageCount /\ m \in Nat /\ m >= 1 /\ m <= PageCount
      BY <1>1, <2>1 DEF Pages
    <3> QED BY <1>1, <2>4, <3>1 DEF Fwd
  <2>9. q + 1 = b + m
    BY <1>1, <2>2
  <2> QED BY <2>1, <2>3, <2>7, <2>8, <2>9
<1> QED BY <1>3, <1>4 DEF Stands

\* A run that fills the region has no free page behind it.
LEMMA FreePageBehind ==
    ASSUME flash \in [Addr -> CleanWord], Packed(flash),
           NEW o \in Pages, NEW b \in Nat, NEW m \in 0 .. PageCount,
           Run(flash, o, b, m), NEW q, Stands(flash, currentWrite, q), flash[NextPage] = Erased
    PROVE  m \in 0 .. PageCount - 1
<1> SUFFICES ASSUME m = PageCount PROVE FALSE
  BY Geometry
<1>1. NextPage \in Addr /\ PageOf(NextPage) = Fwd(o, m) /\ NextPage = PageStart(PageOf(NextPage))
  BY NextPageBehind
<1>2. PageCount \in Nat /\ PageCount >= 2 /\ o \in Nat /\ o < PageCount /\ Addr \subseteq Nat
  BY Geometry DEF Pages
<1>3. Fwd(o, m) = o /\ Fwd(o, 0) = o /\ 0 \in 0 .. m - 1
  BY <1>2 DEF Fwd
<1>4. PICK t \in Heads(flash) : PageOf(t) = Fwd(o, 0)
  BY <1>3 DEF Run
<1>5. t \in Addr /\ PageOf(t) = PageOf(NextPage) /\ flash[t] # Erased
  BY <1>1, <1>3, <1>4, Words DEF Heads, SeqHere
<1>6. PageStart(PageOf(t)) <= t /\ t \in Nat
  BY <1>2, <1>5, PageSpan
<1>7. NextPage < t
  <2>1. NextPage # t /\ NextPage <= t /\ NextPage \in Nat
    BY <1>1, <1>2, <1>5, <1>6
  <2> QED BY <1>6, <2>1
<1> QED BY <1>1, <1>5, <1>7 DEF Packed

\* The record that is to begin the next page enters it.
LEMMA EntersNext ==
    ASSUME flash \in [Addr -> CleanWord], Packed(flash),
           NEW o \in Pages, NEW b \in Nat, NEW m \in 0 .. PageCount,
           Run(flash, o, b, m), NEW q \in Nat, Stands(flash, currentWrite, q),
           NEW rec, RecordIn(rec), Len(rec) > Remain, flash[NextPage] = Erased,
           NEW c, c = IF currentWrite > NextPage THEN NextPage ELSE currentWrite
    PROVE  Turns(flash, o, b, m, c, Append(rec, SeqWord(q + 1)), q + 1)
<1> DEFINE buf == Append(rec, SeqWord(q + 1))
           e == LastOf(c, buf)
<1>1. /\ Halfway(flash, c, buf, q + 1, 0)
      /\ PageOf(c + Len(rec)) = PageOf(NextPage) /\ PageOf((c + Len(rec)) - 1) = PageOf(NextPage)
      /\ currentWrite = 0 => c = 0
  BY BeginsNewPage
<1>2. rec \in Seq(RecordWord) /\ Len(rec) \in Nat /\ Len(rec) >= 1
  BY RecordIs
<1>3. Len(buf) = Len(rec) + 1
  BY <1>2
<1> HIDE DEF buf
<1>4. c \in Nat /\ Landed(flash, c, buf, 0) /\ e = c + Len(rec)
  BY <1>1, <1>2, <1>3 DEF Halfway, LastOf
<1>5. flash[e] = Erased
  <2>1. Len(buf) \in 1 .. Len(buf) /\ ~(Len(buf) <= 0)
    BY <1>2, <1>3
  <2>2. flash[c + Len(buf) - 1] = IF Len(buf) <= 0 THEN buf[Len(buf)] ELSE Erased
    BY <1>4, <2>1 DEF Landed
  <2> QED BY <2>1, <2>2 DEF LastOf
<1>6. /\ PageOf(NextPage) = Fwd(o, m) /\ q + 1 = b + m
      /\ m = 0 => currentWrite = 0 /\ PageStart(o) = 0
  BY NextPageBehind
<1>7. m \in 0 .. PageCount - 1
  BY FreePageBehind
<1>8. PageOf(e) = Fwd(o, m) /\ PageOf(e - 1) = PageOf(e)
  BY <1>1, <1>4, <1>6
<1> HIDE DEF e
<1>9. Enters(o, b, m, c, q + 1, e)
  BY <1>1, <1>6, <1>7, <1>8 DEF Enters
<1> QED BY <1>5, <1>7, <1>9 DEF Turns, buf, e

LEMMA ConcatSet ==
    ASSUME NEW s \in Seq(Nat), NEW t \in Seq(Nat)
    PROVE  ToSet(s \o t) = ToSet(s) \cup ToSet(t)
<1> DEFINE u == s \o t
           m == Len(s)
           n == Len(t)
<1>1. m \in Nat /\ n \in Nat /\ DOMAIN s = 1 .. m /\ DOMAIN t = 1 .. n
  BY LenProperties
<1>2. Len(u) = m + n /\ u \in Seq(Nat) /\ \A i \in 1 .. m + n : u[i] = IF i <= m THEN s[i] ELSE t[i - m]
  BY ConcatProperties
<1>3. DOMAIN u = 1 .. m + n
  BY <1>2, LenProperties
<1> HIDE DEF u, m, n
<1>4. ASSUME NEW x \in ToSet(u) PROVE x \in ToSet(s) \cup ToSet(t)
  <2>1. PICK i \in 1 .. m + n : x = u[i]
    BY <1>3 DEF ToSet
  <2>2. CASE i <= m
    <3>1. i \in 1 .. m /\ x = s[i]
      BY <1>1, <1>2, <2>1, <2>2
    <3> QED BY <1>1, <3>1 DEF ToSet
  <2>3. CASE ~(i <= m)
    <3>1. i - m \in 1 .. n /\ x = t[i - m]
      BY <1>1, <1>2, <2>1, <2>3
    <3> QED BY <1>1, <3>1 DEF ToSet
  <2> QED BY <2>2, <2>3
<1>5. ASSUME NEW x \in ToSet(s) PROVE x \in ToSet(u)
  <2>1. PICK i \in 1 .. m : x = s[i]
    BY <1>1 DEF ToSet
  <2>2. i \in 1 .. m + n /\ u[i] = s[i]
    <3>1. i \in 1 .. m + n /\ i <= m
      BY <1>1
    <3> QED BY <1>2, <3>1
  <2> QED BY <1>3, <2>1, <2>2 DEF ToSet
<1>6. ASSUME NEW x \in ToSet(t) PROVE x \in ToSet(u)
  <2>1. PICK i \in 1 .. n : x = t[i]
    BY <1>1 DEF ToSet
  <2>2. m + i \in 1 .. m + n /\ ~(m + i <= m) /\ (m + i) - m = i
    BY <1>1
  <2>3. u[m + i] = t[i]
    BY <1>2, <2>2
  <2> QED BY <1>3, <2>1, <2>2, <2>3 DEF ToSet
<1> QED BY <1>4, <1>5, <1>6 DEF u

LEMMA PlusSet ==
    ASSUME NEW s \in Seq(Nat), NEW x \in Nat
    PROVE  ToSet(s) \subseteq ToSet(Plus(s, x)) /\ ToSet(Plus(s, x)) = ToSet(s) \cup {x}
<1>1. Append(s, x) = s \o <<x>> /\ <<x>> \in Seq(Nat)
  BY AppendIsConcat
<1>2. ToSet(<<x>>) = {x}
  <2>1. DOMAIN <<x>> = {1} /\ <<x>>[1] = x
    OBVIOUS
  <2> QED BY <2>1 DEF ToSet
<1>3. ToSet(Append(s, x)) = ToSet(s) \cup {x}
  BY <1>1, <1>2, ConcatSet
<1> QED BY <1>3 DEF Plus

\* The records read before a step of the write are read after it.
LEMMA HeldLosesNothing ==
    ASSUME NEW f \in [Addr -> CleanWord], Packed(f), NEW g \in [Addr -> CleanWord], Packed(g),
           NEW o \in Pages, NEW b \in Nat, NEW m \in 0 .. PageCount, NEW n \in 0 .. PageCount,
           NEW l, NEW c, NEW buf, NEW q \in Nat, NEW j \in 0 .. Len(buf), NEW k \in 0 .. Len(buf),
           Halfway(f, c, buf, q, j), Halfway(g, c, buf, q, k), j <= k, Programs(f, g, c, buf),
           Held(f, o, b, m, c, buf, q, l), Held(g, o, b, n, c, buf, q, l)
    PROVE  ToSet(Readback(f)) \subseteq ToSet(Readback(g))
<1> DEFINE r == Reads(Tape(f, o), 0, Dist(o, c))
<1>1. /\ Run(f, o, b, m) /\ Turns(f, o, b, m, c, buf, q)
      /\ Run(g, o, b, n) /\ Turns(g, o, b, n, c, buf, q)
  BY DEF Held
<1>2. /\ Dist(o, c) \in Nat /\ Dist(o, c) <= PageStart(m) /\ PageStart(m) <= StoreEnd
      /\ PageStart(m) \in Nat /\ Ahead(o, c, buf)
  BY <1>1, HalfwayLayout
<1>3. 0 \in Nat /\ 0 <= Dist(o, c) /\ Dist(o, c) <= StoreEnd
  BY <1>2, Geometry
<1>4. /\ Reads(Tape(f, o), 0, PageStart(m)) = Added(r, buf, j) /\ r \in Seq(Nat) /\ buf[1].id \in Nat
  BY <1>1, <1>3, HalfwayReads
<1>5. Reads(Tape(g, o), 0, PageStart(n)) = Added(Reads(Tape(g, o), 0, Dist(o, c)), buf, k)
  BY <1>1, <1>3, HalfwayReads
<1>6. Reads(Tape(g, o), 0, Dist(o, c)) = r
  BY <1>2, <1>3, ReadsBefore
<1>7. Readback(f) = Added(r, buf, j) /\ Readback(g) = Added(r, buf, k)
  <2>1. Readback(f) = Reads(Tape(f, o), 0, PageStart(m))
    BY <1>1, ReadbackIs
  <2>2. Readback(g) = Reads(Tape(g, o), 0, PageStart(n))
    BY <1>1, ReadbackIs
  <2> QED BY <1>4, <1>5, <1>6, <2>1, <2>2
<1> HIDE DEF r
<1>8. j = Len(buf) => k = Len(buf)
  <2>1. Len(buf) \in Nat
    BY BufferIs DEF Halfway
  <2> QED BY <2>1
<1>9. ToSet(r) \subseteq ToSet(Plus(r, buf[1].id))
  BY <1>4, PlusSet
<1> QED BY <1>7, <1>8, <1>9 DEF Added

\* An erase of the page behind the run.
LEMMA KeptErased ==
    ASSUME NEW f \in [Addr -> CleanWord], Packed(f),
           NEW o \in Pages, NEW b \in Nat, NEW m \in 0 .. PageCount, NEW l \in Seq(Nat),
           Kept(f, o, b, m, l), NEW r, r.at \in Addr, PageOf(r.at) = Fwd(o, m),
           NEW g, g = Flash!ErasedPage(f, r)
    PROVE  /\ \E p \in Pages, a \in Nat, n \in 0 .. PageCount : Kept(g, p, a, n, l)
           /\ \A x \in Lost(f, g) :
                \/ x = 0
                \/ \E a \in Addr : /\ f[a].id = x /\ f[a].kind \in Kinds
                                   /\ PageOf(a) = Oldest(UsedPages(f)).page
<1>1. /\ g \in [Addr -> CleanWord] /\ Packed(g)
      /\ \A a \in Addr : g[a] = IF PageOf(a) = PageOf(r.at) THEN Erased ELSE f[a]
      /\ Heads(g) = {s \in Heads(f) : PageOf(s) # PageOf(r.at)}
  BY EraseLands
<1>2. PageErased(f, g, Fwd(o, m))
  BY <1>1 DEF PageErased
<1>3. CASE m # PageCount
  <2>1. Kept(g, o, b, m, l) /\ Readback(g) = Readback(f)
    BY <1>1, <1>2, <1>3, ErasesFree
  <2> QED BY <2>1 DEF Lost
<1>4. CASE m = PageCount
  <2>1. Fwd(o, m) = o
    BY <1>4, Geometry DEF Fwd, Pages
  <2>2. Kept(f, o, b, PageCount, l) /\ PageErased(f, g, o)
    BY <1>2, <1>4, <2>1
  <2>3. /\ \E p \in Pages, n \in 0 .. PageCount : Kept(g, p, b + 1, n, l)
        /\ Oldest(UsedPages(f)).page = o
        /\ \E D \in Seq(Nat) : Readback(f) = D \o Readback(g) /\ From(Tape(f, o), 0, PageWords, D)
        /\ Readback(g) \in Seq(Nat)
    BY <1>1, <2>2, ErasesOldest
  <2>4. b + 1 \in Nat
    OBVIOUS
  <2>5. PICK D \in Seq(Nat) : Readback(f) = D \o Readback(g) /\ From(Tape(f, o), 0, PageWords, D)
    BY <2>3
  <2>6. ASSUME NEW x \in Lost(f, g)
        PROVE  \/ x = 0
               \/ \E a \in Addr : f[a].id = x /\ f[a].kind \in Kinds /\ PageOf(a) = o
    <3>1. x \in ToSet(D)
      BY <2>3, <2>5, ConcatSet DEF Lost
    <3> SUFFICES ASSUME x # 0
                 PROVE  \E a \in Addr : f[a].id = x /\ f[a].kind \in Kinds /\ PageOf(a) = o
      OBVIOUS
    <3>2. PICK i \in 0 .. PageWords - 1 : Tape(f, o)[i].id = x /\ Tape(f, o)[i].kind \in Kinds
      BY <2>5, <3>1 DEF From
    <3>3. /\ PageStart(0) + i = i /\ 0 \in 0 .. PageCount - 1 /\ Fwd(o, 0) = o
      BY Geometry DEF Fwd, Pages
    <3>4. /\ PageStart(0) + i \in 0 .. StoreEnd - 1 /\ At(o, PageStart(0) + i) \in Addr
          /\ PageOf(At(o, PageStart(0) + i)) = Fwd(o, 0)
      BY <3>3, AtPage
    <3>5. i \in 0 .. StoreEnd - 1 /\ At(o, i) \in Addr /\ PageOf(At(o, i)) = o
      BY <3>3, <3>4
    <3>6. Tape(f, o)[i] = f[At(o, i)]
      BY <3>5, TapeIs
    <3> QED BY <3>2, <3>5, <3>6
  <2> QED BY <2>3, <2>4, <2>6
<1> QED BY <1>3, <1>4

-----------------------------------------------------------------------------
(* What the flash keeps of the records written                             *)

\* A restart reads what is kept of the records written; of a write under way
\* the part that landed lies behind them.
ReadSound ==
    \E o \in Pages, b \in Nat, m \in 0 .. PageCount :
        IF state = "WRITING" /\ goState = "WRITE1"
        THEN Held(flash, o, b, m, currentWrite, buffer, sequence, log)
        ELSE Kept(flash, o, b, m, log)

\* The record waiting and the record being written are two, and not written yet.
FreshSound ==
    /\ ToSet(log) \subseteq 1 .. nextId - 1
    /\ \A j, k \in opFlag : j = k
    /\ buffer # <<>> => buffer[1].id \in 1 .. nextId - 1 /\ buffer[1].id \notin ToSet(log)
    /\ opFlag # {} => /\ staging \in 1 .. nextId - 1 /\ staging \notin ToSet(log)
                      /\ buffer # <<>> => buffer[1].id # staging

ReadsInv == RingInv /\ ReadSound /\ FreshSound

\* What RingInv says of the variables that are read here.
LEMMA RingFacts ==
    ASSUME RingInv
    PROVE  /\ flash \in [Addr -> CleanWord] /\ Packed(flash) /\ FlashSound /\ WriterSound
           /\ sequence \in Nat /\ log \in Seq(Nat) /\ nextId \in Nat /\ nextId >= 1
           /\ needSeq = FALSE /\ state \in {"INIT0", "IDLE", "WRITING"}
           /\ opFlag \subseteq Kinds /\ staging \in 0 .. MaxRecords
           /\ state # "WRITING" => buffer = <<>> /\ goState = "IDLE"
           /\ state = "INIT0" => opFlag = {}
           /\ state = "IDLE" => Stands(flash, currentWrite, sequence)
           /\ state = "WRITING" => \/ goState = "ERASE1" /\ Erasing
                                   \/ goState = "WRITE1" /\ Writing
<1>1. /\ TypeOK /\ FlashSound /\ WriterSound /\ flash \in [Addr -> CleanWord] /\ Packed(flash)
      /\ MaxRecords \in Nat
  BY RingAssumption DEF RingInv, FlashSound, RingAssumption
<1>2. log \in Seq(Nat)
  <2>1. log \in Seq(0 .. MaxRecords)
    BY <1>1 DEF TypeOK
  <2> QED BY <1>1, <2>1
<1>3. /\ sequence \in Nat /\ nextId \in Nat /\ nextId >= 1 /\ opFlag \subseteq Kinds
      /\ staging \in 0 .. MaxRecords /\ state \in {"INIT0", "IDLE", "WRITING"}
  BY <1>1 DEF TypeOK
<1>4. /\ needSeq = FALSE
      /\ state # "WRITING" => buffer = <<>> /\ goState = "IDLE"
      /\ state = "INIT0" => opFlag = {}
      /\ state = "IDLE" => Stands(flash, currentWrite, sequence)
      /\ state = "WRITING" => \/ goState = "ERASE1" /\ Erasing
                              \/ goState = "WRITE1" /\ Writing
  BY <1>1, <1>3 DEF WriterSound, NoWrite
<1> QED BY <1>1, <1>2, <1>3, <1>4

LEMMA InitReads == Init => ReadsInv
<1> SUFFICES ASSUME Init PROVE ReadsInv
  OBVIOUS
<1>1. RingInv
  BY InitRing
<1>2. /\ flash = [a \in Addr |-> Erased] /\ buffer = <<>> /\ state = "INIT0"
      /\ opFlag = {} /\ log = <<>> /\ nextId = 1
  BY DEF Init, Flash!FlashInit, Addr
<1>3. FreshSound
  <2>1. ToSet(<<>>) = {}
    BY DEF ToSet
  <2> QED BY <1>2, <2>1 DEF FreshSound
<1>4. Kept(flash, 0, 1, 0, log)
  <2>1. Heads(flash) = {}
    <3>1. \A a \in Addr : flash[a] = Erased
      BY <1>2
    <3> QED BY <3>1, Words DEF Heads, SeqHere
  <2>2. Run(flash, 0, 1, 0)
    BY <2>1 DEF Run
  <2>3. Firm(flash, 0, 0)
    BY DEF Firm
  <2>4. PageStart(0) = 0 /\ Reads(Tape(flash, 0), 0, 0) = <<>>
    BY Geometry, ReadsNothing
  <2>5. Keeps(Reads(Tape(flash, 0), 0, PageStart(0)), log)
    BY <1>2, <2>4, KeepsNothing
  <2> QED BY <2>2, <2>3, <2>5 DEF Kept
<1>5. 0 \in Pages /\ 1 \in Nat /\ 0 \in 0 .. PageCount
  BY Geometry DEF Pages
<1>6. ReadSound
  BY <1>2, <1>4, <1>5 DEF ReadSound
<1> QED BY <1>1, <1>3, <1>6 DEF ReadsInv

\* A record that wrGo places takes nothing from what is kept.
LEMMA PlacesReads ==
    ASSUME flash \in [Addr -> CleanWord], Packed(flash), sequence \in Nat,
           NEW o \in Pages, NEW b \in Nat, NEW m \in 0 .. PageCount, Kept(flash, o, b, m, log),
           Stands(flash, currentWrite, sequence), NEW buf, RecordIn(buf),
           PlacesErasing(buf) \/ PlacesHere(buf) \/ PlacesNext(buf), log' = log
    PROVE  ReadSound' /\ buffer' # <<>> /\ buffer'[1].id = buf[1].id
<1>1. /\ buf \in Seq(RecordWord) /\ Len(buf) \in Nat /\ Len(buf) >= 1 /\ buf # <<>>
  BY RecordIs
<1>2. Run(flash, o, b, m)
  BY DEF Kept
<1>3. CASE PlacesErasing(buf)
  <2>1. goState' = "ERASE1" /\ flash' = flash /\ buffer' = buf
    BY <1>3 DEF PlacesErasing
  <2>2. ReadSound'
    BY <2>1 DEF ReadSound
  <2> QED BY <1>1, <2>1, <2>2
<1>4. CASE PlacesHere(buf)
  <2>1. /\ goState' = "WRITE1" /\ flash' = flash /\ currentWrite' = currentWrite
        /\ sequence' = sequence /\ buffer' = buf
        /\ Halfway(flash, currentWrite, buf, sequence, 0)
    BY <1>4 DEF PlacesHere
  <2>2. Turns(flash, o, b, m, currentWrite, buf, sequence)
    BY OneOfTwo DEF Turns
  <2>3. Held(flash, o, b, m, currentWrite, buf, sequence, log)
    BY <2>1, <2>2, HeldStarts
  <2>4. ReadSound'
    BY <2>1, <2>3 DEF ReadSound
  <2> QED BY <1>1, <2>1, <2>4
<1>5. CASE PlacesNext(buf)
  <2> DEFINE c == IF currentWrite > NextPage THEN NextPage ELSE currentWrite
             out == Append(buf, SeqWord(sequence + 1))
             q == sequence + 1
  <2>1. /\ goState' = "WRITE1" /\ flash' = flash
        /\ Len(buf) > Remain /\ flash[NextPage] = Erased
        /\ currentWrite' = c /\ sequence' = q /\ buffer' = out
        /\ Halfway(flash, c, out, q, 0)
    BY <1>5 DEF PlacesNext
  <2>2. out # <<>> /\ out[1] = buf[1]
    <3>1. Len(out) = Len(buf) + 1 /\ Len(<<>>) = 0 /\ out[1] = buf[1]
      BY <1>1
    <3> HIDE DEF out
    <3>2. out # <<>>
      BY <1>1, <3>1
    <3> QED BY <3>1, <3>2
  <2> HIDE DEF c
  <2>3. Turns(flash, o, b, m, c, out, q)
    BY <1>2, <2>1, EntersNext DEF c
  <2> HIDE DEF out
  <2>4. q \in Nat
    OBVIOUS
  <2> HIDE DEF q
  <2>5. Held(flash, o, b, m, c, out, q, log)
    BY <2>1, <2>3, <2>4, HeldStarts
  <2>6. ReadSound'
    BY <2>1, <2>5 DEF ReadSound
  <2> QED BY <2>1, <2>2, <2>6
<1> QED BY <1>3, <1>4, <1>5

\* Between two writes the records of the flash are kept.
LEMMA KeptIdle ==
    ASSUME ReadSound, ~(state = "WRITING" /\ goState = "WRITE1")
    PROVE  \E o \in Pages, b \in Nat, m \in 0 .. PageCount : Kept(flash, o, b, m, log)
BY DEF ReadSound

LEMMA HeldWriting ==
    ASSUME ReadSound, state = "WRITING", goState = "WRITE1"
    PROVE  \E o \in Pages, b \in Nat, m \in 0 .. PageCount :
              Held(flash, o, b, m, currentWrite, buffer, sequence, log)
BY DEF ReadSound

LEMMA KeptStays ==
    ASSUME ReadSound, ~(state = "WRITING" /\ goState = "WRITE1"),
           flash' = flash, log' = log, ~(state' = "WRITING" /\ goState' = "WRITE1")
    PROVE  ReadSound'
<1>1. PICK o \in Pages, b \in Nat, m \in 0 .. PageCount : Kept(flash, o, b, m, log)
  BY KeptIdle
<1> QED BY <1>1 DEF ReadSound

\* A record that is written joins the log.
LEMMA Joins ==
    ASSUME NEW l \in Seq(Nat), NEW x \in Nat, NEW n \in Nat, ToSet(l) \subseteq 1 .. n, x \in 1 .. n
    PROVE  ToSet(Append(l, x)) \subseteq 1 .. n /\ ToSet(Append(l, x)) = ToSet(l) \cup {x}
BY PlusSet DEF Plus

LEMMA StartReads ==
    ASSUME ReadsInv, StartRecord
    PROVE  ReadSound' /\ FreshSound'
<1> DEFINE k == Priority[SelectInSeq(Priority, LAMBDA p : p \in opFlag)]
<1>1. /\ flash \in [Addr -> CleanWord] /\ Packed(flash) /\ FlashSound /\ needSeq = FALSE
      /\ sequence \in Nat /\ log \in Seq(Nat) /\ opFlag \subseteq Kinds /\ staging \in 0 .. MaxRecords
      /\ state = "IDLE" => /\ buffer = <<>> /\ goState = "IDLE"
                           /\ Stands(flash, currentWrite, sequence)
      /\ ReadSound /\ FreshSound
  BY RingFacts DEF ReadsInv
<1>2. /\ state = "IDLE" /\ opFlag # {} /\ opFlag' = opFlag \ {k}
      /\ WrGo(NewRecord(k, staging), goState)
      /\ UNCHANGED <<staging, nextId, crashes>>
  BY DEF StartRecord
<1>3. k \in opFlag
  BY <1>1, <1>2, TakesAKind
<1> HIDE DEF k
<1>4. opFlag' = {}
  BY <1>1, <1>2, <1>3 DEF FreshSound
<1> DEFINE buf == NewRecord(k, staging)
<1>5. RecordIn(buf) /\ buf[1].id = staging
  <2>1. k \in Kinds
    BY <1>1, <1>3
  <2>2. RecordIn(buf)
    BY <1>1, <2>1 DEF RecordIn
  <2>3. 1 \in 1 .. RecWords[k]
    BY <2>1, Lengths
  <2>4. buf[1] = [kind |-> k, id |-> staging, idx |-> 1 - 1]
    BY <2>3 DEF NewRecord
  <2>5. buf[1].id = staging
    BY <2>4
  <2> QED BY <2>2, <2>5
<1> HIDE DEF buf
<1>6. /\ state' = "WRITING" /\ log' = log
      /\ PlacesErasing(buf) \/ PlacesHere(buf) \/ PlacesNext(buf)
  <2>1. WrGo(buf, "IDLE") /\ Stands(flash, currentWrite, sequence)
    BY <1>1, <1>2 DEF buf
  <2> QED BY <1>1, <1>5, <2>1, WrGoStarts
<1>7. PICK o \in Pages, b \in Nat, m \in 0 .. PageCount : Kept(flash, o, b, m, log)
  BY <1>1, <1>2, KeptIdle
<1>8. ReadSound' /\ buffer' # <<>> /\ buffer'[1].id = staging
  <2>1. ReadSound' /\ buffer' # <<>> /\ buffer'[1].id = buf[1].id
    BY <1>1, <1>2, <1>5, <1>6, <1>7, PlacesReads
  <2> QED BY <1>5, <2>1
<1>9. FreshSound'
  BY <1>1, <1>2, <1>4, <1>6, <1>8 DEF FreshSound
<1> QED BY <1>8, <1>9

LEMMA ContinueReads ==
    ASSUME ReadsInv, ContinueRecord
    PROVE  ReadSound' /\ FreshSound'
<1>1. /\ flash \in [Addr -> CleanWord] /\ Packed(flash) /\ FlashSound /\ needSeq = FALSE
      /\ sequence \in Nat /\ log \in Seq(Nat) /\ nextId \in Nat /\ nextId >= 1
      /\ state = "WRITING" => \/ goState = "ERASE1" /\ Erasing
                              \/ goState = "WRITE1" /\ Writing
      /\ ReadSound /\ FreshSound
  BY RingFacts DEF ReadsInv
<1>2. /\ state = "WRITING" /\ flashComplete /\ WrGo(buffer, goState)
      /\ UNCHANGED <<opFlag, staging, nextId, crashes>>
  BY DEF ContinueRecord
<1>3. CASE goState = "ERASE1" /\ Erasing
  <2>1. Stands(flash, currentWrite, sequence) /\ RecordIn(buffer) /\ flash[NextPage] = Erased
    BY <1>2, <1>3 DEF Erasing
  <2>2. WrGo(buffer, "ERASE1")
    BY <1>2, <1>3
  <2>3. /\ state' = "WRITING" /\ log' = log
        /\ PlacesErasing(buffer) \/ PlacesHere(buffer) \/ PlacesNext(buffer)
    BY <1>1, <2>1, <2>2, WrGoStarts
  <2>4. PICK o \in Pages, b \in Nat, m \in 0 .. PageCount : Kept(flash, o, b, m, log)
    BY <1>1, <1>3, KeptIdle
  <2>5. ReadSound' /\ buffer' # <<>> /\ buffer'[1].id = buffer[1].id
    BY <1>1, <2>1, <2>3, <2>4, PlacesReads
  <2>6. buffer # <<>>
    BY <2>1, RecordIs
  <2>7. FreshSound'
    BY <1>1, <1>2, <2>3, <2>5, <2>6 DEF FreshSound
  <2> QED BY <2>5, <2>7
<1>4. CASE goState = "WRITE1" /\ Writing
  <2>1. Halfway(flash, currentWrite, buffer, sequence, Len(buffer)) /\ request = Flash!NoRequest
    BY <1>2, <1>4 DEF Writing
  <2>2. WrGo(buffer, "WRITE1")
    BY <1>2, <1>4
  <2>3. /\ state' = "IDLE" /\ log' = Append(log, buffer[1].id)
        /\ flash' = flash /\ buffer' = <<>> /\ goState' = "IDLE"
    BY <1>1, <2>1, <2>2, WrGoEnds
  <2>4. PICK o \in Pages, b \in Nat, m \in 0 .. PageCount :
           Held(flash, o, b, m, currentWrite, buffer, sequence, log)
    BY <1>1, <1>2, <1>4, HeldWriting
  <2>5. buffer # <<>> /\ Len(buffer) \in 0 .. Len(buffer)
    <3>1. buffer # <<>> /\ Len(buffer) \in Nat
      BY <1>1, <2>1, BufferIs DEF Halfway
    <3> QED BY <3>1
  <2>6. Kept(flash, o, b, m, Added(log, buffer, Len(buffer)))
    BY <1>1, <2>1, <2>4, <2>5, HeldDone
  <2>7. Kept(flash, o, b, m, log')
    BY <2>3, <2>6 DEF Added, Plus
  <2>8. ReadSound'
    BY <2>3, <2>7 DEF ReadSound
  <2>9. buffer[1].id \in 1 .. nextId - 1 /\ ToSet(log) \subseteq 1 .. nextId - 1
        /\ nextId - 1 \in Nat /\ buffer[1].id \in Nat
    BY <1>1, <2>5 DEF FreshSound
  <2>10. ToSet(log') \subseteq 1 .. nextId - 1 /\ ToSet(log') = ToSet(log) \cup {buffer[1].id}
    BY <1>1, <2>3, <2>9, Joins
  <2>11. FreshSound'
    BY <1>1, <1>2, <2>3, <2>5, <2>10 DEF FreshSound
  <2> QED BY <2>8, <2>11
<1> QED BY <1>1, <1>2, <1>3, <1>4

\* What lands in the flash; only an erase loses a record, of the oldest page.
LEMMA LandsReads ==
    ASSUME ReadsInv, FlashLands \/ FlashReports
    PROVE  /\ ReadSound' /\ FreshSound'
           /\ \A id \in Lost(flash, flash') :
                 /\ request.op = "erase"
                 /\ \E a \in Addr : /\ flash[a].id = id /\ flash[a].kind \in Kinds
                                    /\ PageOf(a) = Oldest(UsedPages(flash)).page
<1>1. /\ flash \in [Addr -> CleanWord] /\ Packed(flash)
      /\ sequence \in Nat /\ log \in Seq(Nat) /\ nextId \in Nat /\ nextId >= 1
      /\ ReadSound /\ FreshSound /\ RingInv
  BY RingFacts DEF ReadsInv
<1>2. /\ FlashSound' /\ state = "WRITING" /\ UNCHANGED <<ramVars, ghostVars>>
      /\ ErasesNext \/ WordsLand
  BY <1>1, FlashRing
<1>3. flash' \in [Addr -> CleanWord] /\ Packed(flash')
  BY <1>2 DEF FlashSound
<1>4. /\ currentWrite' = currentWrite /\ sequence' = sequence /\ buffer' = buffer
      /\ goState' = goState /\ state' = state /\ opFlag' = opFlag /\ staging' = staging
      /\ log' = log /\ nextId' = nextId
  BY <1>2 DEF ramVars, ghostVars
<1>5. FreshSound'
  BY <1>1, <1>4 DEF FreshSound
<1>6. CASE ErasesNext
  <2>1. /\ goState = "ERASE1" /\ Stands(flash, currentWrite, sequence)
        /\ request.op = "erase" /\ request.at = NextPage
        /\ flash' = Flash!ErasedPage(flash, request)
    BY <1>6 DEF ErasesNext
  <2>2. PICK o \in Pages, b \in Nat, m \in 0 .. PageCount : Kept(flash, o, b, m, log)
    BY <1>1, <2>1, KeptIdle
  <2>3. Run(flash, o, b, m)
    BY <2>2 DEF Kept
  <2>4. request.at \in Addr /\ PageOf(request.at) = Fwd(o, m)
    BY <1>1, <2>1, <2>3, NextPageBehind
  <2>5. /\ \E p \in Pages, a \in Nat, n \in 0 .. PageCount : Kept(flash', p, a, n, log)
        /\ \A x \in Lost(flash, flash') :
             \/ x = 0
             \/ \E a \in Addr : /\ flash[a].id = x /\ flash[a].kind \in Kinds
                                /\ PageOf(a) = Oldest(UsedPages(flash)).page
    BY <1>1, <2>1, <2>2, <2>4, KeptErased
  <2>6. ReadSound'
    BY <1>4, <2>1, <2>5 DEF ReadSound
  <2>7. 0 \notin Lost(flash, flash')
    <3>1. Readback(flash) = Reads(Tape(flash, o), 0, PageStart(m))
      BY <1>1, <2>3, ReadbackIs
    <3>2. PageStart(m) \in Nat /\ PageStart(m) <= StoreEnd
      BY PagesUpTo
    <3>3. CleanTape(Tape(flash, o), PageStart(m)) /\ 0 \in Nat /\ 0 <= PageStart(m)
      BY <1>1, <3>2, TapeIs
    <3>4. Readback(flash) \in Seq(Nat)
      BY <3>1, <3>2, <3>3, ScanTyped
    <3>5. Keeps(Readback(flash), log)
      BY <2>2, <3>1 DEF Kept
    <3>6. ToSet(Readback(flash)) \subseteq ToSet(log)
      BY <1>1, <3>4, <3>5, KeepsIs
    <3>7. 0 \notin 1 .. nextId - 1
      BY <1>1
    <3> QED BY <1>1, <3>6, <3>7 DEF Lost, FreshSound
  <2> QED BY <1>5, <2>1, <2>5, <2>6, <2>7
<1>7. CASE WordsLand
  <2>1. PICK j \in 0 .. Len(buffer), k \in 0 .. Len(buffer) :
          /\ goState = "WRITE1" /\ j <= k
          /\ Halfway(flash, currentWrite, buffer, sequence, j)
          /\ Halfway(flash', currentWrite, buffer, sequence, k)
          /\ Programs(flash, flash', currentWrite, buffer)
    BY <1>7 DEF WordsLand
  <2>2. PICK o \in Pages, b \in Nat, m \in 0 .. PageCount :
           Held(flash, o, b, m, currentWrite, buffer, sequence, log)
    BY <1>1, <1>2, <2>1, HeldWriting
  <2>3. PICK n \in 0 .. PageCount : Held(flash', o, b, n, currentWrite, buffer, sequence, log)
    <3>1. CASE SeqLands(buffer, sequence, j, k)
      <4>1. \E n \in 0 .. PageCount : n = m + 1 /\ Held(flash', o, b, n, currentWrite, buffer, sequence, log)
        BY <1>1, <1>3, <2>1, <2>2, <3>1, HeldLandsPage
      <4> QED BY <4>1
    <3>2. CASE ~SeqLands(buffer, sequence, j, k)
      <4>1. Held(flash', o, b, m, currentWrite, buffer, sequence, log)
        BY <1>1, <1>3, <2>1, <2>2, <3>2, HeldLandsMore
      <4> QED BY <4>1
    <3> QED BY <3>1, <3>2
  <2>4. ReadSound'
    BY <1>2, <1>4, <2>1, <2>3 DEF ReadSound
  <2>5. ToSet(Readback(flash)) \subseteq ToSet(Readback(flash'))
    BY <1>1, <1>3, <2>1, <2>2, <2>3, HeldLosesNothing
  <2> QED BY <1>5, <2>4, <2>5 DEF Lost
<1> QED BY <1>2, <1>6, <1>7

\* What a restart reads of a write under way, from what is kept of the log.
LEMMA WritingReads ==
    ASSUME ReadsInv, state = "WRITING", goState = "WRITE1"
    PROVE  \E o \in Pages, b \in Nat, m \in 0 .. PageCount, k \in 0 .. Len(buffer), r \in Seq(Nat) :
              /\ Halfway(flash, currentWrite, buffer, sequence, k)
              /\ Keeps(r, log) /\ Readback(flash) = Added(r, buffer, k)
              /\ Kept(flash, o, b, m, Added(log, buffer, k))
              /\ buffer # <<>> /\ buffer[1].id \in Nat
<1>1. /\ flash \in [Addr -> CleanWord] /\ Packed(flash)
      /\ sequence \in Nat /\ log \in Seq(Nat) /\ ReadSound /\ Writing
  BY RingFacts DEF ReadsInv
<1>2. PICK k \in 0 .. Len(buffer) : Halfway(flash, currentWrite, buffer, sequence, k)
  BY <1>1 DEF Writing
<1>3. PICK o \in Pages, b \in Nat, m \in 0 .. PageCount :
         Held(flash, o, b, m, currentWrite, buffer, sequence, log)
  BY <1>1, HeldWriting
<1>4. PICK r \in Seq(Nat) : /\ Keeps(r, log) /\ buffer[1].id \in Nat
                            /\ Readback(flash) = Added(r, buffer, k)
  BY <1>1, <1>2, <1>3, HeldReads
<1>5. Kept(flash, o, b, m, Added(log, buffer, k))
  BY <1>1, <1>2, <1>3, HeldDone
<1>6. buffer # <<>>
  BY <1>1, <1>2, BufferIs DEF Halfway
<1> QED BY <1>2, <1>4, <1>5, <1>6

\* ... and of the flash between two writes.
LEMMA IdleReads ==
    ASSUME ReadsInv, ~(state = "WRITING" /\ goState = "WRITE1")
    PROVE  /\ Readback(flash) \in Seq(Nat) /\ Keeps(Readback(flash), log) /\ log \in Seq(Nat)
<1>1. flash \in [Addr -> CleanWord] /\ Packed(flash) /\ log \in Seq(Nat) /\ ReadSound
  BY RingFacts DEF ReadsInv
<1>2. PICK o \in Pages, b \in Nat, m \in 0 .. PageCount : Kept(flash, o, b, m, log)
  BY <1>1, KeptIdle
<1>3. Run(flash, o, b, m) /\ Keeps(Reads(Tape(flash, o), 0, PageStart(m)), log)
  BY <1>2 DEF Kept
<1>4. Readback(flash) = Reads(Tape(flash, o), 0, PageStart(m))
  BY <1>1, <1>3, ReadbackIs
<1>5. PageStart(m) \in Nat /\ PageStart(m) <= StoreEnd
  BY PagesUpTo
<1>6. CleanTape(Tape(flash, o), PageStart(m)) /\ 0 \in Nat /\ 0 <= PageStart(m)
  BY <1>1, <1>5, TapeIs
<1> QED BY <1>1, <1>3, <1>4, <1>5, <1>6, ScanTyped

LEMMA PowerReads ==
    ASSUME ReadsInv, PowerLoss
    PROVE  ReadSound' /\ FreshSound'
<1>1. /\ sequence \in Nat /\ log \in Seq(Nat) /\ nextId \in Nat /\ nextId >= 1
      /\ state # "WRITING" => buffer = <<>>
      /\ state \in {"INIT0", "IDLE", "WRITING"}
      /\ ReadSound /\ FreshSound /\ ToSet(log) \subseteq 1 .. nextId - 1
  BY RingFacts DEF ReadsInv, FreshSound
<1>2. /\ flash' = flash /\ buffer' = <<>> /\ state' = "INIT0" /\ opFlag' = {} /\ nextId' = nextId
      /\ log' = IF /\ buffer # <<>> /\ LandedWhole
                   /\ buffer[1].id \in ToSet(Readback(flash)) \ ToSet(log)
                THEN Append(log, buffer[1].id) ELSE log
  BY DEF PowerLoss, Flash!FlashPowerLoss
<1>3. CASE ~(state = "WRITING" /\ goState = "WRITE1")
  <2>1. ToSet(Readback(flash)) \subseteq ToSet(log)
    <3>1. Readback(flash) \in Seq(Nat) /\ Keeps(Readback(flash), log) /\ log \in Seq(Nat)
      BY <1>3, IdleReads
    <3> QED BY <3>1, KeepsIs
  <2>2. log' = log
    BY <1>2, <2>1
  <2>3. ReadSound'
    BY <1>1, <1>2, <1>3, <2>2, KeptStays
  <2>4. FreshSound'
    BY <1>1, <1>2, <2>2 DEF FreshSound
  <2> QED BY <2>3, <2>4
<1>4. CASE state = "WRITING" /\ goState = "WRITE1"
  <2>1. PICK o \in Pages, b \in Nat, m \in 0 .. PageCount, k \in 0 .. Len(buffer), r \in Seq(Nat) :
           /\ Halfway(flash, currentWrite, buffer, sequence, k)
           /\ Keeps(r, log) /\ Readback(flash) = Added(r, buffer, k)
           /\ Kept(flash, o, b, m, Added(log, buffer, k))
           /\ buffer # <<>> /\ buffer[1].id \in Nat
    BY <1>4, WritingReads
  <2>2. log' = Added(log, buffer, k)
    <3>1. CASE k # Len(buffer)
      <4>1. ToSet(Readback(flash)) \subseteq ToSet(log)
        BY <1>1, <2>1, <3>1, KeepsIs DEF Added
      <4> QED BY <1>2, <3>1, <4>1 DEF Added
    <3>2. CASE k = Len(buffer)
      <4>1. buffer[1].id \in ToSet(Readback(flash))
        BY <2>1, <3>2, PlusSet DEF Added
      <4>2. buffer[1].id \notin ToSet(log)
        BY <1>1, <2>1 DEF FreshSound
      <4>3. LandedWhole
        <5> SUFFICES ASSUME NEW i \in DOMAIN buffer
                     PROVE  \E a \in Flash!Addr : flash[a] = buffer[i]
          BY DEF LandedWhole
        <5>1. /\ Landed(flash, currentWrite, buffer, k) /\ currentWrite \in Nat
              /\ currentWrite + Len(buffer) - 1 \in Addr
          BY <2>1 DEF Halfway
        <5>2. buffer \in Seq(CleanWord) /\ Len(buffer) \in Nat
          BY <1>1, <2>1, BufferIs DEF Halfway
        <5>3. i \in 1 .. Len(buffer) /\ i <= k
          BY <3>2, <5>2
        <5>4. flash[currentWrite + i - 1] = buffer[i]
          BY <5>1, <5>3 DEF Landed
        <5>5. currentWrite + i - 1 \in Addr
          BY <5>1, <5>2, <5>3, Geometry
        <5> QED BY <5>4, <5>5 DEF Addr
      <4>4. log' = Append(log, buffer[1].id)
        BY <1>2, <2>1, <4>1, <4>2, <4>3
      <4> QED BY <3>2, <4>4 DEF Added, Plus
    <3> QED BY <3>1, <3>2
  <2>3. ReadSound'
    BY <1>2, <2>1, <2>2 DEF ReadSound
  <2>4. ToSet(log') \subseteq 1 .. nextId - 1
    <3>1. buffer[1].id \in 1 .. nextId - 1 /\ nextId - 1 \in Nat
      BY <1>1, <2>1 DEF FreshSound
    <3>2. ToSet(Append(log, buffer[1].id)) \subseteq 1 .. nextId - 1
      BY <1>1, <2>1, <3>1, Joins
    <3> QED BY <1>1, <1>2, <3>2
  <2>5. FreshSound'
    BY <1>2, <2>4 DEF FreshSound
  <2> QED BY <2>3, <2>5
<1> QED BY <1>3, <1>4

LEMMA NextReads == ListAnytime = FALSE /\ ReadsInv /\ [Next]_vars => ReadsInv'
<1> SUFFICES ASSUME ListAnytime = FALSE, ReadsInv, [Next]_vars PROVE ReadsInv'
  OBVIOUS
<1>1. RingInv'
  BY NextRing DEF ReadsInv
<1>2. /\ state \in {"INIT0", "IDLE", "WRITING"} /\ nextId \in Nat /\ nextId >= 1
      /\ state # "WRITING" => buffer = <<>> /\ goState = "IDLE"
      /\ state = "INIT0" => opFlag = {}
      /\ ReadSound /\ FreshSound
  BY RingFacts DEF ReadsInv
<1>3. CASE Startup
  <2>1. /\ state = "INIT0" /\ state' = "IDLE"
        /\ UNCHANGED <<flash, buffer, opFlag, log, nextId>>
    BY <1>3 DEF Startup, ghostVars
  <2>2. ReadSound'
    BY <1>2, <2>1, KeptStays
  <2>3. FreshSound'
    BY <1>2, <2>1 DEF FreshSound
  <2> QED BY <1>1, <2>2, <2>3 DEF ReadsInv
<1>4. CASE StartRecord
  BY <1>1, <1>4, StartReads DEF ReadsInv
<1>5. CASE ContinueRecord
  BY <1>1, <1>5, ContinueReads DEF ReadsInv
<1>6. CASE \E k \in Kinds : RequestRecord(k)
  <2>1. PICK k \in Kinds : RequestRecord(k)
    BY <1>6
  <2>2. /\ opFlag = {} /\ staging' = nextId /\ opFlag' = {k} /\ nextId' = nextId + 1
        /\ UNCHANGED <<flash, currentWrite, sequence, buffer, goState, state, log>>
    BY <2>1 DEF RequestRecord
  <2>3. ReadSound'
    BY <1>2, <2>2 DEF ReadSound
  <2>4. /\ 1 .. nextId - 1 \subseteq 1 .. nextId' - 1 /\ nextId \notin 1 .. nextId - 1
        /\ nextId \in 1 .. nextId' - 1
    BY <1>2, <2>2
  <2>5. FreshSound'
    BY <1>2, <2>2, <2>4 DEF FreshSound
  <2> QED BY <1>1, <2>3, <2>5 DEF ReadsInv
<1>7. CASE ListStore
  <2>1. /\ state = "IDLE" /\ opFlag = {} /\ buffer' = <<>>
        /\ UNCHANGED <<flash, goState, state, opFlag, log, nextId>>
    BY <1>7 DEF ListStore, ghostVars
  <2>2. ReadSound'
    BY <1>2, <2>1, KeptStays
  <2>3. FreshSound'
    BY <1>2, <2>1 DEF FreshSound
  <2> QED BY <1>1, <2>2, <2>3 DEF ReadsInv
<1>8. CASE FlashLands \/ FlashReports
  BY <1>1, <1>8, LandsReads DEF ReadsInv
<1>9. CASE PowerLoss
  BY <1>1, <1>9, PowerReads DEF ReadsInv
<1>10. CASE UNCHANGED vars
  <2>1. UNCHANGED <<flash, currentWrite, sequence, buffer, goState, state, opFlag, staging, log, nextId>>
    BY <1>10 DEF vars, ramVars, ghostVars
  <2>2. ReadSound'
    BY <1>2, <2>1 DEF ReadSound
  <2>3. FreshSound'
    BY <1>2, <2>1 DEF FreshSound
  <2> QED BY <1>1, <2>2, <2>3 DEF ReadsInv
<1> QED BY <1>3, <1>4, <1>5, <1>6, <1>7, <1>8, <1>9, <1>10 DEF Next, SuperLoop

\* A power loss at any point leaves the newest records of the store readable,
\* in order and whole: what a restart reads is the end of what was written,
\* with at most the record being written behind it.
THEOREM NewestAreRecovered == ASSUME ListAnytime = FALSE PROVE Spec => []RecoversNewest
<1>1. ReadsInv => RecoversNewest
  <2> SUFFICES ASSUME ReadsInv PROVE RecoversNewest
    OBVIOUS
  <2>1. CASE ~(state = "WRITING" /\ goState = "WRITE1")
    <3>1. Readback(flash) \in Seq(Nat) /\ Keeps(Readback(flash), log) /\ log \in Seq(Nat)
      BY <2>1, IdleReads
    <3>2. IsSuffix(Readback(flash), log)
      BY <3>1, KeepsIs
    <3> QED BY <3>2 DEF RecoversNewest
  <2>2. CASE state = "WRITING" /\ goState = "WRITE1"
    <3>1. PICK k \in 0 .. Len(buffer), r \in Seq(Nat) :
             /\ Keeps(r, log) /\ Readback(flash) = Added(r, buffer, k)
             /\ buffer # <<>> /\ buffer[1].id \in Nat
      BY <2>2, WritingReads
    <3>2. log \in Seq(Nat)
      BY RingFacts DEF ReadsInv
    <3>3. CASE k # Len(buffer)
      <4>1. IsSuffix(r, log)
        BY <3>1, <3>2, KeepsIs
      <4> QED BY <3>1, <3>3, <4>1 DEF RecoversNewest, Added
    <3>4. CASE k = Len(buffer)
      <4> DEFINE x == buffer[1].id
      <4>1. x \in Nat
        BY <3>1
      <4>2. Readback(flash) = Plus(r, x)
        BY <3>1, <3>4 DEF Added
      <4> HIDE DEF x
      <4>3. Keeps(Plus(r, x), Plus(log, x)) /\ Plus(log, x) \in Seq(Nat) /\ Plus(r, x) \in Seq(Nat)
        <5>1. Keeps(Plus(r, x), Plus(log, x)) /\ Plus(log, x) \in Seq(Nat)
          BY <3>1, <3>2, <4>1, KeepsMore
        <5>2. Plus(r, x) \in Seq(Nat)
          BY <4>1, AppendProperties DEF Plus
        <5> QED BY <5>1, <5>2
      <4>4. IsSuffix(Plus(r, x), Plus(log, x))
        BY <4>3, KeepsIs
      <4> QED BY <3>1, <4>2, <4>4 DEF RecoversNewest, Plus, x
    <3> QED BY <3>3, <3>4
  <2> QED BY <2>1, <2>2
<1> QED BY InitReads, NextReads, <1>1, PTL DEF Spec

\* With three pages or more (defs.h gives the store 62), the last record that
\* was reported written is read back by every restart until the next one is:
\* no page change, wrap-around or torn write loses it.
THEOREM LastOneSurvives ==
    ASSUME ListAnytime = FALSE, PageCount >= 3 PROVE Spec => []LastRecordSurvives
<1>1. PageCount >= 3 /\ ReadsInv => LastRecordSurvives
  <2> SUFFICES ASSUME PageCount >= 3, ReadsInv, log # <<>>
               PROVE  Last(log) \in ToSet(Readback(flash))
    BY DEF LastRecordSurvives
  <2>1. CASE ~(state = "WRITING" /\ goState = "WRITE1")
    <3>1. Readback(flash) \in Seq(Nat) /\ Keeps(Readback(flash), log) /\ log \in Seq(Nat)
      BY <2>1, IdleReads
    <3> QED BY <3>1, KeepsIs
  <2>2. CASE state = "WRITING" /\ goState = "WRITE1"
    <3>1. PICK k \in 0 .. Len(buffer), r \in Seq(Nat) :
             /\ Keeps(r, log) /\ Readback(flash) = Added(r, buffer, k) /\ buffer[1].id \in Nat
      BY <2>2, WritingReads
    <3>2. log \in Seq(Nat)
      BY RingFacts DEF ReadsInv
    <3>3. Last(log) \in ToSet(r)
      BY <3>1, <3>2, KeepsIs
    <3>4. ToSet(r) \subseteq ToSet(Plus(r, buffer[1].id))
      BY <3>1, PlusSet
    <3> QED BY <3>1, <3>3, <3>4 DEF Added
  <2> QED BY <2>1, <2>2
<1> QED BY InitReads, NextReads, <1>1, PTL DEF Spec

\* A record is lost only by the erase of the oldest page, and only if a word
\* of it is there; no other step, and no power loss, takes one.
THEOREM OnlyTheOldestIsLost == ASSUME ListAnytime = FALSE PROVE Spec => LosesOnlyOldest
<1> DEFINE A == \A id \in Lost(flash, flash') :
                   /\ request.op = "erase"
                   /\ \E a \in Flash!Addr : /\ flash[a].id = id
                                             /\ flash[a].kind \in Kinds
                                             /\ Flash!PageOf(a) = Oldest(UsedPages(flash)).page
<1>1. ReadsInv /\ [Next]_vars => [A]_flash
  <2> SUFFICES ASSUME ReadsInv, [Next]_vars, flash' # flash PROVE A
    OBVIOUS
  <2>1. FlashLands \/ FlashReports
    <3>1. ~PowerLoss /\ ~ListStore /\ ~Startup /\ ~(UNCHANGED vars)
      BY DEF PowerLoss, Flash!FlashPowerLoss, ListStore, Startup, vars
    <3>2. ~(\E k \in Kinds : RequestRecord(k))
      BY DEF RequestRecord
    <3>3. ~StartRecord /\ ~ContinueRecord
      <4>1. \A buf, st : WrGo(buf, st) => flash' = flash
        BY DEF WrGo, WrGoErase, WrGoWrite, WrGoDone, Flash!FlashErase, Flash!FlashWrite
      <4> QED BY <4>1 DEF StartRecord, ContinueRecord
    <3> QED BY <3>1, <3>2, <3>3 DEF Next, SuperLoop
  <2> QED BY <2>1, LandsReads DEF Addr, PageOf
<1> HIDE DEF A
<1>2. Spec => [][A]_flash
  BY InitReads, NextReads, <1>1, PTL DEF Spec
<1> QED BY <1>2 DEF LosesOnlyOldest, A
=============================================================================
