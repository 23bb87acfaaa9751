---------------------------- MODULE Tempus_proofs --------------------------
(***************************************************************************)
(* The callout list for any callouts, delays and length of time: it stays  *)
(* sorted and free of circles, and TempusMagnaCirculi with its callbacks   *)
(* implements the callout service.                                         *)
(***************************************************************************)
EXTENDS Tempus, SequenceTheorems, WellFoundedInduction, TLAPS

-----------------------------------------------------------------------------
(* Sequences and numbers                                                   *)

\* A set of natural numbers has a smallest element.
LEMMA HasSmallest ==
    ASSUME NEW T \in SUBSET Nat, T # {}
    PROVE  \E x \in T : \A y \in T : x <= y
<1>1. \E x \in T : \A y \in T : ~(<<y, x>> \in OpToRel(<, Nat))
  BY NatLessThanWellFounded, WFMin
<1>2. PICK x \in T : \A y \in T : ~(<<y, x>> \in OpToRel(<, Nat))
  BY <1>1
<1>3. ASSUME NEW y \in T PROVE x <= y
  <2>1. ~(<<y, x>> \in OpToRel(<, Nat))
    BY <1>2
  <2>2. ~(y < x)
    BY <2>1 DEF OpToRel
  <2> QED BY <2>2
<1> QED BY <1>3

\* Two sequences joined.
LEMMA Joined ==
    ASSUME NEW S, NEW a \in Seq(S), NEW b \in Seq(S)
    PROVE  /\ a \o b \in Seq(S)
           /\ Len(a \o b) = Len(a) + Len(b)
           /\ \A i \in 1 .. Len(a) : (a \o b)[i] = a[i]
           /\ \A i \in 1 .. Len(b) : (a \o b)[Len(a) + i] = b[i]
BY ConcatProperties

\* What taking an element out of a sequence leaves.
LEMMA Removed ==
    ASSUME NEW S, NEW l \in Seq(S), NEW p \in 1 .. Len(l)
    PROVE  /\ RemoveAt(l, p) \in Seq(S)
           /\ Len(RemoveAt(l, p)) = Len(l) - 1
           /\ \A i \in 1 .. p - 1 : RemoveAt(l, p)[i] = l[i]
           /\ \A i \in p .. Len(l) - 1 : RemoveAt(l, p)[i] = l[i + 1]
<1> DEFINE a == SubSeq(l, 1, p - 1)
           b == SubSeq(l, p + 1, Len(l))
<1>n. Len(l) \in Nat /\ p \in Int /\ p >= 1 /\ p <= Len(l)
  OBVIOUS
<1>1. /\ a \in Seq(S) /\ Len(a) = p - 1
      /\ \A i \in 1 .. p - 1 : a[i] = l[i]
  BY SubSeqProperties
<1>2. /\ b \in Seq(S) /\ Len(b) = Len(l) - p
      /\ \A i \in 1 .. Len(l) - p : b[i] = l[p + i]
  BY SubSeqProperties
<1>3. RemoveAt(l, p) = a \o b
  BY DEF RemoveAt
<1> HIDE DEF a, b
<1>4. a \in Seq(S) /\ b \in Seq(S)
  BY <1>1, <1>2
<1>5. /\ a \o b \in Seq(S)
      /\ Len(a \o b) = Len(a) + Len(b)
      /\ \A i \in 1 .. Len(a) : (a \o b)[i] = a[i]
      /\ \A i \in 1 .. Len(b) : (a \o b)[Len(a) + i] = b[i]
  BY <1>4, Joined
<1>6. \A i \in 1 .. p - 1 : (a \o b)[i] = l[i]
  BY <1>5, <1>1
<1>7. ASSUME NEW i \in p .. Len(l) - 1 PROVE (a \o b)[i] = l[i + 1]
  <2>1. PICK k \in 1 .. Len(l) - p : i = (p - 1) + k
    <3>1. i - (p - 1) \in 1 .. Len(l) - p /\ i = (p - 1) + (i - (p - 1))
      BY <1>n
    <3> QED BY <3>1
  <2>2. (a \o b)[Len(a) + k] = b[k]
    BY <1>2, <1>5
  <2>3. b[k] = l[p + k]
    BY <1>2
  <2>4. Len(a) + k = i /\ p + k = i + 1
    BY <2>1, <1>1, <1>n
  <2> QED BY <2>2, <2>3, <2>4
<1> QED BY <1>1, <1>2, <1>3, <1>5, <1>6, <1>7, <1>n

\* What putting an element into a sequence makes.
LEMMA Inserted ==
    ASSUME NEW S, NEW l \in Seq(S), NEW p \in 1 .. Len(l) + 1, NEW e \in S
    PROVE  /\ InsertAt(l, p, e) \in Seq(S)
           /\ Len(InsertAt(l, p, e)) = Len(l) + 1
           /\ \A i \in 1 .. p - 1 : InsertAt(l, p, e)[i] = l[i]
           /\ InsertAt(l, p, e)[p] = e
           /\ \A i \in p .. Len(l) : InsertAt(l, p, e)[i + 1] = l[i]
<1> DEFINE a == SubSeq(l, 1, p - 1)
           b == SubSeq(l, p, Len(l))
           c == a \o <<e>>
<1>n. Len(l) \in Nat /\ p \in Int /\ p >= 1 /\ p <= Len(l) + 1
  OBVIOUS
<1>1. /\ a \in Seq(S) /\ Len(a) = p - 1
      /\ \A i \in 1 .. p - 1 : a[i] = l[i]
  BY SubSeqProperties
<1>2. /\ b \in Seq(S) /\ Len(b) = Len(l) - p + 1
      /\ \A i \in 1 .. Len(l) - p + 1 : b[i] = l[p + i - 1]
  BY SubSeqProperties
<1>3. InsertAt(l, p, e) = c \o b
  BY DEF InsertAt
<1> HIDE DEF a, b
<1>4. a \in Seq(S) /\ b \in Seq(S) /\ <<e>> \in Seq(S) /\ Len(<<e>>) = 1 /\ <<e>>[1] = e
  BY <1>1, <1>2
<1>5. /\ c \in Seq(S)
      /\ Len(c) = Len(a) + 1
      /\ \A i \in 1 .. Len(a) : c[i] = a[i]
      /\ c[Len(a) + 1] = e
  BY <1>4, Joined
<1> HIDE DEF c
<1>a. Len(c) = p
  BY <1>1, <1>5, <1>n
<1>s. b \in Seq(S) /\ c \in Seq(S)
  BY <1>4, <1>5
<1>6. /\ c \o b \in Seq(S)
      /\ Len(c \o b) = Len(c) + Len(b)
      /\ \A i \in 1 .. Len(c) : (c \o b)[i] = c[i]
      /\ \A i \in 1 .. Len(b) : (c \o b)[Len(c) + i] = b[i]
  BY <1>s, Joined
<1>7. \A i \in 1 .. p - 1 : (c \o b)[i] = l[i]
  BY <1>1, <1>5, <1>6, <1>n
<1>8. (c \o b)[p] = e
  BY <1>1, <1>5, <1>6, <1>n
<1>9. ASSUME NEW i \in p .. Len(l) PROVE (c \o b)[i + 1] = l[i]
  <2>1. PICK k \in 1 .. Len(l) - p + 1 : i + 1 = p + k
    <3>1. i + 1 - p \in 1 .. Len(l) - p + 1 /\ i + 1 = p + (i + 1 - p)
      BY <1>n
    <3> QED BY <3>1
  <2>2. (c \o b)[Len(c) + k] = b[k]
    BY <1>2, <1>6
  <2>3. b[k] = l[p + k - 1]
    BY <1>2
  <2>4. Len(c) + k = i + 1 /\ p + k - 1 = i
    BY <2>1, <1>a, <1>n
  <2> QED BY <2>2, <2>3, <2>4
<1> QED BY <1>1, <1>2, <1>3, <1>5, <1>6, <1>7, <1>8, <1>9, <1>n

-----------------------------------------------------------------------------
(* The list                                                                *)

\* tod never runs ahead of the clock, and tp is the callout being called.
ScanSound ==
    /\ tod <= tod0
    /\ pc = "callback" <=> tp \in Callout

\* The inductive invariant.
IInv == TypeOK /\ ListSound /\ ScanSound

\* l is in the order of the times, with no callout twice.
Sorted(l) ==
    \A i, j \in 1 .. Len(l) : i < j => l[i] # l[j] /\ time[l[i]] <= time[l[j]]

LEMMA TimesNat == TempusAssumption => Times \subseteq Nat
BY DEF TempusAssumption, Times

\* Unlinking a callout leaves a list without it and all the others in order.
LEMMA UnlinkedIs ==
    ASSUME TempusAssumption, TypeOK, ListSound, NEW c \in Callout
    PROVE  LET l == Unlinked(c) IN
           /\ l \in Seq(Callout)
           /\ Sorted(l)
           /\ \A i \in 1 .. Len(l) : l[i] # c /\ InList(l[i])
           /\ \A d \in Callout : InList(d) /\ d # c => \E i \in 1 .. Len(l) : l[i] = d
<1>t. list \in Seq(Callout) /\ DOMAIN list = 1 .. Len(list) /\ Len(list) \in Nat
  BY DEF TypeOK
<1>s. \A i, j \in 1 .. Len(list) :
         i < j => list[i] # list[j] /\ time[list[i]] <= time[list[j]]
  BY <1>t DEF ListSound
<1>1. CASE time[c] = 0 \/ ~InList(c)
  <2>1. Unlinked(c) = list
    BY <1>1 DEF Unlinked
  <2>2. \A i \in 1 .. Len(list) : list[i] # c /\ InList(list[i])
    BY <1>1, <1>t DEF ListSound, InList
  <2> QED BY <2>1, <2>2, <1>t, <1>s DEF InList, Sorted
<1>2. CASE time[c] # 0 /\ InList(c)
  <2> DEFINE p == PositionOf(c)
             l == RemoveAt(list, p)
  <2>1. p \in 1 .. Len(list) /\ list[p] = c
    BY <1>2, <1>t DEF InList, PositionOf
  <2>2. Unlinked(c) = l
    BY <1>2 DEF Unlinked
  <2> HIDE DEF p
  <2>3. /\ l \in Seq(Callout)
        /\ Len(l) = Len(list) - 1
        /\ \A i \in 1 .. p - 1 : l[i] = list[i]
        /\ \A i \in p .. Len(list) - 1 : l[i] = list[i + 1]
    BY <1>t, <2>1, Removed
  <2> HIDE DEF l
  <2>4. \A i \in 1 .. Len(l) :
            \E k \in 1 .. Len(list) : /\ k # p
                                      /\ l[i] = list[k]
                                      /\ k = IF i < p THEN i ELSE i + 1
    BY <1>t, <2>1, <2>3
  <2>5. Sorted(l)
    <3> SUFFICES ASSUME NEW i \in 1 .. Len(l), NEW j \in 1 .. Len(l), i < j
                 PROVE  l[i] # l[j] /\ time[l[i]] <= time[l[j]]
      BY DEF Sorted
    <3>1. PICK k \in 1 .. Len(list) : l[i] = list[k] /\ k = IF i < p THEN i ELSE i + 1
      BY <2>4
    <3>2. PICK m \in 1 .. Len(list) : l[j] = list[m] /\ m = IF j < p THEN j ELSE j + 1
      BY <2>4
    <3>3. k < m
      BY <3>1, <3>2, <2>1, <1>t, <2>3
    <3> QED BY <3>1, <3>2, <3>3, <1>s
  <2>6. \A i \in 1 .. Len(l) : l[i] # c /\ InList(l[i])
    <3> SUFFICES ASSUME NEW i \in 1 .. Len(l) PROVE l[i] # c /\ InList(l[i])
      OBVIOUS
    <3>1. PICK k \in 1 .. Len(list) : k # p /\ l[i] = list[k]
      BY <2>4
    <3>2. list[k] # list[p]
      BY <3>1, <2>1, <1>s, <1>t
    <3> QED BY <3>1, <3>2, <2>1, <1>t DEF InList
  <2>7. ASSUME NEW d \in Callout, InList(d), d # c
        PROVE  \E i \in 1 .. Len(l) : l[i] = d
    <3>1. PICK k \in 1 .. Len(list) : list[k] = d
      BY <2>7, <1>t DEF InList
    <3>2. k # p
      BY <3>1, <2>1, <2>7
    <3>3. CASE k < p
      <4>1. k \in 1 .. p - 1 /\ k \in 1 .. Len(l)
        BY <3>3, <2>1, <2>3, <1>t
      <4> QED BY <4>1, <3>1, <2>3
    <3>4. CASE k > p
      <4>1. k - 1 \in p .. Len(list) - 1 /\ k - 1 \in 1 .. Len(l) /\ (k - 1) + 1 = k
        BY <3>4, <2>1, <2>3, <1>t
      <4>2. l[k - 1] = list[(k - 1) + 1]
        BY <4>1, <2>3
      <4> QED BY <4>1, <4>2, <3>1
    <3> QED BY <3>2, <3>3, <3>4, <2>1, <1>t
  <2> QED BY <2>2, <2>3, <2>5, <2>6, <2>7
<1> QED BY <1>1, <1>2

\* Place finds the end of the callouts that are not later.
LEMMA PlaceIs ==
    ASSUME TempusAssumption, TypeOK, NEW l \in Seq(Callout), Sorted(l), NEW t \in Nat
    PROVE  /\ Place(l, t) \in 1 .. Len(l) + 1
           /\ \A i \in 1 .. Len(l) : i < Place(l, t) => time[l[i]] <= t
           /\ \A i \in 1 .. Len(l) : i >= Place(l, t) => t < time[l[i]]
<1> DEFINE later == {i \in DOMAIN l : t < time[l[i]]}
<1>t. /\ DOMAIN l = 1 .. Len(l) /\ Len(l) \in Nat
      /\ \A i \in 1 .. Len(l) : l[i] \in Callout /\ time[l[i]] \in Nat
  BY TimesNat DEF TypeOK
<1>1. CASE later = {}
  <2>1. Place(l, t) = Len(l) + 1
    BY <1>1 DEF Place
  <2>2. \A i \in 1 .. Len(l) : time[l[i]] <= t
    BY <1>1, <1>t
  <2> QED BY <2>1, <2>2, <1>t
<1>2. CASE later # {}
  <2>1. later \in SUBSET Nat
    BY <1>t
  <2>2. \E i \in later : \A j \in later : i <= j
    BY <2>1, <1>2, HasSmallest
  <2>3. Place(l, t) = CHOOSE i \in later : \A j \in later : i <= j
    BY <1>2 DEF Place
  <2>4. Place(l, t) \in later /\ \A j \in later : Place(l, t) <= j
    BY <2>2, <2>3
  <2> DEFINE p == Place(l, t)
  <2>5. p \in 1 .. Len(l) /\ t < time[l[p]] /\ \A j \in later : p <= j
    BY <2>4, <1>t
  <2> HIDE DEF p
  <2>6. ASSUME NEW i \in 1 .. Len(l), i < p PROVE time[l[i]] <= t
    <3>1. i \notin later
      BY <2>5, <2>6
    <3> QED BY <3>1, <1>t
  <2>7. ASSUME NEW i \in 1 .. Len(l), i >= p PROVE t < time[l[i]]
    <3>1. CASE i = p
      BY <3>1, <2>5
    <3>2. CASE p < i
      <4>1. time[l[p]] <= time[l[i]]
        BY <3>2, <2>5 DEF Sorted
      <4> QED BY <4>1, <2>5, <1>t
    <3> QED BY <3>1, <3>2, <2>7, <2>5
  <2>8. p \in 1 .. Len(l) + 1
    BY <2>5, <1>t
  <2> QED BY <2>6, <2>7, <2>8 DEF p
<1> QED BY <1>1, <1>2

\* Changing or deleting one callout leaves the list sound, and changes when
\* that one callout runs and nothing else; those behind it are later.
LEMMA CalloutSound ==
    ASSUME TempusAssumption, TypeOK, ListSound,
           NEW c \in Callout, NEW t \in Times \cup {0}, TempusCallout(c, t)
    PROVE  /\ list' \in Seq(Callout)
           /\ time' = [time EXCEPT ![c] = t]
           /\ ListSound'
           /\ \A d \in Callout : d # c => (InList(d)' <=> InList(d))
           /\ InList(c)' <=> t # 0
           /\ \A i, j \in 1 .. Len(list') :
                 i < j /\ list'[i] = c => t < time'[list'[j]]
<1> DEFINE l == Unlinked(c)
<1>1. /\ l \in Seq(Callout)
      /\ Sorted(l)
      /\ \A i \in 1 .. Len(l) : l[i] # c /\ InList(l[i])
      /\ \A d \in Callout : InList(d) /\ d # c => \E i \in 1 .. Len(l) : l[i] = d
  BY UnlinkedIs
<1>2. /\ time' = [time EXCEPT ![c] = t]
      /\ list' = IF t = 0 THEN l ELSE InsertAt(l, Place(l, t), c)
  BY DEF TempusCallout
<1> HIDE DEF l
<1>t. /\ Len(l) \in Nat /\ DOMAIN l = 1 .. Len(l)
      /\ t \in Nat
      /\ time \in [Callout -> Nat]
      /\ \A i \in 1 .. Len(l) : l[i] \in Callout
  BY <1>1, TimesNat DEF TypeOK
<1>3. \A d \in Callout : time'[d] = IF d = c THEN t ELSE time[d]
  BY <1>2, <1>t
<1>4. \A i \in 1 .. Len(l) : time'[l[i]] = time[l[i]] /\ time[l[i]] # 0
  BY <1>1, <1>3, <1>t DEF InList, ListSound
<1>5. \A d \in Callout : d # c => (InList(d) <=> \E i \in 1 .. Len(l) : l[i] = d)
  BY <1>1
<1>6. CASE t = 0
  <2>1. list' = l
    BY <1>2, <1>6
  <2>2. ListSound'
    BY <2>1, <1>1, <1>4, <1>t DEF ListSound, Sorted
  <2>3. \A d \in Callout : InList(d)' <=> \E i \in 1 .. Len(l) : l[i] = d
    BY <2>1, <1>t DEF InList
  <2>4. \A i \in 1 .. Len(list') : list'[i] # c
    BY <2>1, <1>1
  <2> QED BY <2>1, <2>2, <2>3, <2>4, <1>1, <1>2, <1>5, <1>6
<1>7. CASE t # 0
  <2> DEFINE p == Place(l, t)
             m == InsertAt(l, p, c)
  <2>1. /\ p \in 1 .. Len(l) + 1
        /\ \A i \in 1 .. Len(l) : i < p => time[l[i]] <= t
        /\ \A i \in 1 .. Len(l) : i >= p => t < time[l[i]]
    BY <1>1, <1>t, PlaceIs
  <2>2. list' = m
    BY <1>2, <1>7
  <2> HIDE DEF p
  <2>3. /\ m \in Seq(Callout)
        /\ Len(m) = Len(l) + 1
        /\ \A i \in 1 .. p - 1 : m[i] = l[i]
        /\ m[p] = c
        /\ \A i \in p .. Len(l) : m[i + 1] = l[i]
    BY <1>1, <2>1, Inserted
  <2> HIDE DEF m
  <2>4. \A i \in 1 .. Len(m) :
            \/ i < p /\ i \in 1 .. Len(l) /\ m[i] = l[i]
            \/ i = p /\ m[i] = c
            \/ i > p /\ i - 1 \in p .. Len(l) /\ i - 1 \in 1 .. Len(l) /\ m[i] = l[i - 1]
    <3> SUFFICES ASSUME NEW i \in 1 .. Len(m), i > p
                 PROVE  i - 1 \in p .. Len(l) /\ i - 1 \in 1 .. Len(l) /\ m[i] = l[i - 1]
      BY <2>1, <2>3, <1>t
    <3>1. i - 1 \in p .. Len(l) /\ i - 1 \in 1 .. Len(l) /\ (i - 1) + 1 = i
      BY <2>1, <2>3, <1>t
    <3>2. m[(i - 1) + 1] = l[i - 1]
      BY <3>1, <2>3
    <3> QED BY <3>1, <3>2
  <2>5. ListSound'
    <3>1. DOMAIN m = 1 .. Len(m)
      BY <2>3
    <3>2. ASSUME NEW i \in 1 .. Len(m), NEW j \in 1 .. Len(m), i < j
          PROVE  m[i] # m[j] /\ time'[m[i]] <= time'[m[j]]
      <4>1. CASE j < p
        <5>1. i \in 1 .. Len(l) /\ j \in 1 .. Len(l) /\ m[i] = l[i] /\ m[j] = l[j]
          BY <4>1, <3>2, <2>4, <2>1
        <5> QED BY <5>1, <3>2, <1>1, <1>4 DEF Sorted
      <4>2. CASE j = p
        <5>1. i \in 1 .. Len(l) /\ i < p /\ m[i] = l[i] /\ m[j] = c
          BY <4>2, <3>2, <2>4, <2>1
        <5>2. time'[m[i]] <= t /\ time'[m[j]] = t
          BY <5>1, <2>1, <1>3, <1>4
        <5> QED BY <5>1, <5>2, <1>1
      <4>3. CASE i = p
        <5>1. j - 1 \in 1 .. Len(l) /\ j - 1 >= p /\ m[j] = l[j - 1] /\ m[i] = c
          BY <4>3, <3>2, <2>4, <2>1
        <5>2. t < time'[m[j]] /\ time'[m[i]] = t
          BY <5>1, <2>1, <1>3, <1>4
        <5>3. time'[m[j]] \in Nat
          BY <5>1, <1>4, <1>t
        <5> QED BY <5>1, <5>2, <5>3, <1>1, <1>t
      <4>4. CASE i < p /\ p < j
        <5>1. i \in 1 .. Len(l) /\ j - 1 \in 1 .. Len(l) /\ m[i] = l[i] /\ m[j] = l[j - 1]
          BY <4>4, <3>2, <2>4, <2>1
        <5>2. i < j - 1
          BY <4>4, <2>1
        <5> QED BY <5>1, <5>2, <1>1, <1>4 DEF Sorted
      <4>5. CASE p < i
        <5>1. i - 1 \in 1 .. Len(l) /\ j - 1 \in 1 .. Len(l) /\ m[i] = l[i - 1] /\ m[j] = l[j - 1]
          BY <4>5, <3>2, <2>4, <2>1
        <5>2. i - 1 < j - 1
          BY <3>2
        <5> QED BY <5>1, <5>2, <1>1, <1>4 DEF Sorted
      <4> QED BY <4>1, <4>2, <4>3, <4>4, <4>5, <2>1, <3>2
    <3>3. ASSUME NEW i \in 1 .. Len(m) PROVE time'[m[i]] # 0
      BY <2>4, <1>3, <1>4, <1>7
    <3> QED BY <2>2, <3>1, <3>2, <3>3 DEF ListSound
  <2>6. InList(c)'
    <3>1. p \in DOMAIN m /\ m[p] = c
      BY <2>1, <2>3, <1>t
    <3> QED BY <2>2, <3>1 DEF InList
  <2>7. ASSUME NEW d \in Callout, d # c PROVE InList(d)' <=> InList(d)
    <3>1. ASSUME NEW i \in 1 .. Len(m), m[i] = d PROVE \E k \in 1 .. Len(l) : l[k] = d
      BY <3>1, <2>4, <2>7
    <3>2. ASSUME NEW k \in 1 .. Len(l), l[k] = d PROVE \E i \in 1 .. Len(m) : m[i] = d
      <4>1. CASE k < p
        BY <4>1, <3>2, <2>1, <2>3, <1>t
      <4>2. CASE k >= p
        <5>1. k + 1 \in 1 .. Len(m) /\ m[k + 1] = d
          BY <4>2, <3>2, <2>1, <2>3, <1>t
        <5> QED BY <5>1
      <4> QED BY <4>1, <4>2, <2>1
    <3>3. DOMAIN m = 1 .. Len(m)
      BY <2>3
    <3> QED BY <3>1, <3>2, <3>3, <2>2, <1>5, <2>7 DEF InList
  <2>8. ASSUME NEW i \in 1 .. Len(m), NEW j \in 1 .. Len(m), i < j, m[i] = c
        PROVE  t < time'[m[j]]
    <3>1. i = p
      BY <2>4, <2>8, <1>1
    <3>2. j - 1 \in 1 .. Len(l) /\ j - 1 >= p /\ m[j] = l[j - 1]
      BY <3>1, <2>8, <2>4, <2>1
    <3> QED BY <3>2, <2>1, <1>4
  <2> QED BY <1>2, <1>7, <2>2, <2>3, <2>5, <2>6, <2>7, <2>8
<1> QED BY <1>6, <1>7

-----------------------------------------------------------------------------
(* Steps                                                                   *)

\* The top entry leaves: the rest is in order, and it is the earliest.
LEMMA HeadLeaves ==
    ASSUME TempusAssumption, TypeOK, ListSound, list # <<>>, list' = Tail(list),
           time' = time
    PROVE  /\ Head(list) \in Callout /\ InList(Head(list))
           /\ list' \in Seq(Callout)
           /\ ListSound'
           /\ \A d \in Callout : InList(d)' <=> (InList(d) /\ d # Head(list))
           /\ \A d \in Callout : InList(d) => time[Head(list)] <= time[d]
<1> DEFINE h == Head(list)
<1>t. list \in Seq(Callout) /\ Len(list) \in Nat /\ Len(list) >= 1
      /\ DOMAIN list = 1 .. Len(list)
      /\ \A d \in Callout : time[d] \in Nat
  BY TimesNat DEF TypeOK
<1>1. h \in Callout /\ h = list[1]
  BY <1>t
<1>2. /\ Tail(list) \in Seq(Callout)
      /\ Len(Tail(list)) = Len(list) - 1
      /\ \A i \in 1 .. Len(list) - 1 : Tail(list)[i] = list[i + 1]
  BY <1>t, HeadTailProperties
<1>3. DOMAIN list' = 1 .. Len(list) - 1 /\ \A i \in 1 .. Len(list) - 1 : list'[i] = list[i + 1]
  BY <1>2
<1>4. ListSound'
  <2> SUFFICES /\ \A i, j \in 1 .. Len(list) - 1 :
                     i < j => list'[i] # list'[j] /\ time[list'[i]] <= time[list'[j]]
               /\ \A i \in 1 .. Len(list) - 1 : time[list'[i]] # 0
    BY <1>3 DEF ListSound
  <2>1. ASSUME NEW i \in 1 .. Len(list) - 1, NEW j \in 1 .. Len(list) - 1, i < j
        PROVE  list'[i] # list'[j] /\ time[list'[i]] <= time[list'[j]]
    <3>1. i + 1 \in 1 .. Len(list) /\ j + 1 \in 1 .. Len(list) /\ i + 1 < j + 1
      BY <2>1, <1>t
    <3> QED BY <3>1, <1>3, <1>t DEF ListSound
  <2>2. ASSUME NEW i \in 1 .. Len(list) - 1 PROVE time[list'[i]] # 0
    <3>1. i + 1 \in 1 .. Len(list)
      BY <1>t
    <3> QED BY <3>1, <1>3, <1>t DEF ListSound
  <2> QED BY <2>1, <2>2
<1>5. ASSUME NEW d \in Callout PROVE InList(d)' <=> (InList(d) /\ d # h)
  <2>1. ASSUME NEW i \in 1 .. Len(list) - 1, list'[i] = d PROVE InList(d) /\ d # h
    <3>1. i + 1 \in 1 .. Len(list) /\ 1 \in 1 .. Len(list) /\ 1 < i + 1
      BY <1>t
    <3>2. list[i + 1] = d
      BY <2>1, <1>3
    <3> QED BY <3>1, <3>2, <1>1, <1>t DEF InList, ListSound
  <2>2. ASSUME NEW i \in 1 .. Len(list), list[i] = d, d # h
        PROVE  \E k \in 1 .. Len(list) - 1 : list'[k] = d
    <3>1. i - 1 \in 1 .. Len(list) - 1 /\ (i - 1) + 1 = i
      BY <2>2, <1>1, <1>t
    <3>2. list'[i - 1] = list[(i - 1) + 1]
      BY <3>1, <1>3
    <3> QED BY <3>1, <3>2, <2>2
  <2> QED BY <2>1, <2>2, <1>3, <1>t DEF InList
<1>6. ASSUME NEW d \in Callout, InList(d) PROVE time[h] <= time[d]
  <2>1. PICK i \in 1 .. Len(list) : list[i] = d
    BY <1>6, <1>t DEF InList
  <2>2. CASE i = 1
    BY <2>1, <2>2, <1>1, <1>t
  <2>3. CASE 1 < i
    BY <2>1, <2>3, <1>1, <1>t DEF ListSound
  <2> QED BY <2>2, <2>3
<1>7. InList(h)
  BY <1>1, <1>t DEF InList
<1> QED BY <1>1, <1>2, <1>4, <1>5, <1>6, <1>7

\* What callers and callbacks ask for are callouts and times.
LEMMA CalloutArgs ==
    ASSUME TempusAssumption, TypeOK, AppCallout \/ CallbackCallout
    PROVE  \E c \in Callout, t \in Times \cup {0} : TempusCallout(c, t)
BY DEF TypeOK, Times, AppCallout, CallbackCallout

LEMMA InitSound == TempusAssumption /\ Init => IInv
BY DEF TempusAssumption, Init, IInv, TypeOK, ListSound, ScanSound

LEMMA NextSound ==
    ASSUME TempusAssumption, IInv, [Next]_vars
    PROVE  IInv'
<1> USE DEF IInv
<1>1. CASE Tick
  BY <1>1 DEF Tick, TypeOK, ListSound, ScanSound, TempusAssumption
<1>2. CASE AppCallout \/ CallbackCallout
  <2>1. PICK c \in Callout, t \in Times \cup {0} : TempusCallout(c, t)
    BY <1>2, CalloutArgs
  <2>2. list' \in Seq(Callout) /\ time' = [time EXCEPT ![c] = t] /\ ListSound'
    BY <2>1, CalloutSound
  <2>3. UNCHANGED <<tod0, pc, tod, tp>>
    BY <2>1 DEF TempusCallout
  <2>4. TypeOK'
    BY <2>2, <2>3 DEF TypeOK
  <2>5. ScanSound'
    BY <2>3 DEF ScanSound
  <2> QED BY <2>2, <2>4, <2>5
<1>3. CASE ScanFire
  <2>1. list' = Tail(list) /\ time' = time /\ list # <<>>
    BY <1>3 DEF ScanFire
  <2>2. Head(list) \in Callout /\ list' \in Seq(Callout) /\ ListSound'
    BY <2>1, HeadLeaves
  <2>3. TypeOK'
    BY <1>3, <2>2 DEF ScanFire, TypeOK
  <2>4. ScanSound'
    BY <1>3, <2>2 DEF ScanFire, ScanSound
  <2> QED BY <2>2, <2>3, <2>4
<1>4. CASE ScanBegin
  BY <1>4 DEF ScanBegin, TypeOK, ListSound, ScanSound
<1>5. CASE Return
  BY <1>5 DEF Return, TypeOK, ListSound, ScanSound, TempusAssumption
<1>6. CASE ScanEnd
  BY <1>6 DEF ScanEnd, TypeOK, ListSound, ScanSound
<1>7. CASE UNCHANGED vars
  BY <1>7 DEF vars, TypeOK, ListSound, ScanSound
<1> QED BY <1>1, <1>2, <1>3, <1>4, <1>5, <1>6, <1>7 DEF Next, TempusMagnaCirculi

\* Whatever callbacks and callers do, the list keeps its types, stays sorted,
\* holds no callout twice and none that the next TempusCallout would miss.
THEOREM ListCorrect == TempusAssumption => (Spec => [](TypeOK /\ ListSound))
<1> SUFFICES ASSUME TempusAssumption PROVE Spec => [](TypeOK /\ ListSound)
  OBVIOUS
<1>1. Init => IInv
  BY InitSound
<1>2. IInv /\ [Next]_vars => IInv'
  BY NextSound
<1>3. IInv => TypeOK /\ ListSound
  BY DEF IInv
<1> QED BY <1>1, <1>2, <1>3, PTL DEF Spec

-----------------------------------------------------------------------------
(* The service                                                             *)

LEMMA InitRefines == TempusAssumption /\ Init => Service!Init
BY DEF TempusAssumption, Init, Service!Init, InList

LEMMA NextRefines ==
    ASSUME TempusAssumption, IInv, [Next]_vars
    PROVE  [Service!Next]_(Service!vars)
<1> DEFINE due == [c \in Callout |-> IF InList(c) THEN time[c] ELSE 0]
<1>t. /\ TypeOK /\ ListSound /\ ScanSound
      /\ \A d \in Callout : time[d] \in Nat
      /\ tod0 \in Nat /\ tod \in Nat
      /\ Nobody \notin Callout
  BY TimesNat DEF IInv, TypeOK, TempusAssumption
<1>u. ASSUME UNCHANGED <<time, list>> PROVE due' = due
  BY <1>u DEF InList
<1>1. CASE Tick
  BY <1>1, <1>u, <1>t DEF Tick, Service!Next, Service!Tick
<1>2. CASE AppCallout \/ CallbackCallout
  <2>1. PICK c \in Callout, t \in Times \cup {0} : TempusCallout(c, t)
    BY <1>2, <1>t, CalloutArgs
  <2>2. /\ time' = [time EXCEPT ![c] = t]
        /\ \A d \in Callout : d # c => (InList(d)' <=> InList(d))
        /\ InList(c)' <=> t # 0
    BY <2>1, <1>t, CalloutSound
  <2>3. \A d \in Callout : time'[d] = IF d = c THEN t ELSE time[d]
    BY <2>2, <1>t DEF TypeOK
  <2>4. due' = [due EXCEPT ![c] = t]
    <3>1. ASSUME NEW d \in Callout
          PROVE  (IF InList(d)' THEN time'[d] ELSE 0)
                    = IF d = c THEN t ELSE IF InList(d) THEN time[d] ELSE 0
      BY <2>2, <2>3
    <3>2. due' = [d \in Callout |-> IF InList(d)' THEN time'[d] ELSE 0]
      OBVIOUS
    <3>3. [due EXCEPT ![c] = t]
             = [d \in Callout |-> IF d = c THEN t ELSE IF InList(d) THEN time[d] ELSE 0]
      OBVIOUS
    <3> QED BY <3>1, <3>2, <3>3
  <2>5. UNCHANGED <<tod0, tp>>
    BY <2>1 DEF TempusCallout
  <2> HIDE DEF due
  <2>6. Service!Schedule(c, t)
    BY <2>4, <2>5 DEF Service!Schedule, due
  <2> QED BY <2>6 DEF Service!Next
<1>3. CASE ScanFire
  <2> DEFINE h == Head(list)
  <2>1. list' = Tail(list) /\ time' = time /\ list # <<>>
    BY <1>3 DEF ScanFire
  <2>2. /\ h \in Callout /\ InList(h)
        /\ \A d \in Callout : InList(d)' <=> (InList(d) /\ d # h)
        /\ \A d \in Callout : InList(d) => time[h] <= time[d]
    BY <2>1, <1>t, HeadLeaves
  <2>3. time[h] # 0
    BY <2>2, <1>t DEF InList, ListSound
  <2>4. time[h] <= tod0
    BY <1>3, <1>t, <2>2 DEF ScanFire, ScanSound
  <2>5. tp = Nobody
    BY <1>3, <1>t DEF ScanFire, ScanSound, TypeOK
  <2>6. tp' = h /\ tod0' = tod0
    BY <1>3 DEF ScanFire
  <2> HIDE DEF h
  <2>7. due' = [due EXCEPT ![h] = 0]
    <3>1. ASSUME NEW d \in Callout
          PROVE  (IF InList(d)' THEN time'[d] ELSE 0)
                    = IF d = h THEN 0 ELSE IF InList(d) THEN time[d] ELSE 0
      BY <2>1, <2>2
    <3>2. due' = [d \in Callout |-> IF InList(d)' THEN time'[d] ELSE 0]
      OBVIOUS
    <3>3. [due EXCEPT ![h] = 0]
             = [d \in Callout |-> IF d = h THEN 0 ELSE IF InList(d) THEN time[d] ELSE 0]
      OBVIOUS
    <3> QED BY <3>1, <3>2, <3>3
  <2>8. /\ due[h] # 0 /\ due[h] <= tod0
        /\ \A d \in Callout : due[d] # 0 => due[h] <= due[d]
    BY <2>2, <2>3, <2>4
  <2>9. PICK c \in Callout : c = h
    BY <2>2
  <2> HIDE DEF due
  <2>10. Service!Fire(c)
    BY <2>5, <2>6, <2>7, <2>8, <2>9 DEF Service!Fire, due
  <2> QED BY <2>10 DEF Service!Next
<1>4. CASE Return
  <2>1. tp # Nobody
    BY <1>4, <1>t DEF Return, ScanSound
  <2> QED BY <1>4, <1>u, <2>1 DEF Return, Service!Next, Service!Return
<1>5. CASE ScanBegin \/ ScanEnd \/ UNCHANGED vars
  BY <1>5, <1>u DEF ScanBegin, ScanEnd, vars, Service!vars
<1> QED BY <1>1, <1>2, <1>3, <1>4, <1>5 DEF Next, TempusMagnaCirculi

\* The list and the scan implement the callout service: a callout runs once
\* for each time it was scheduled, not early, and after the ones due earlier.
THEOREM ImplementsCallouts == TempusAssumption => (Spec => Service!Spec)
<1> SUFFICES ASSUME TempusAssumption PROVE Spec => Service!Spec
  OBVIOUS
<1>1. Init => IInv /\ Service!Init
  BY InitSound, InitRefines
<1>2. IInv /\ [Next]_vars => IInv'
  BY NextSound
<1>3. IInv /\ [Next]_vars => [Service!Next]_(Service!vars)
  BY NextRefines
<1> QED BY <1>1, <1>2, <1>3, PTL DEF Spec, Service!Spec

\* Callouts of one second run in the order in which they were scheduled: a
\* step never puts a callout in front of one that already waited for then.
THEOREM ServedInOrder == TempusAssumption => (Spec => FirstComeFirstServed)
<1> SUFFICES ASSUME TempusAssumption PROVE Spec => FirstComeFirstServed
  OBVIOUS
<1> DEFINE Kept == \A i, j \in DOMAIN list' :
               (/\ i < j
                /\ time'[list'[i]] = time'[list'[j]]
                /\ InList(list'[j]) /\ time[list'[j]] = time'[list'[j]])
               => /\ InList(list'[i])
                  /\ time[list'[i]] = time'[list'[i]]
<1>1. ASSUME IInv, [Next]_vars PROVE Kept
  <2>t. /\ TypeOK /\ ListSound /\ ScanSound
        /\ list \in Seq(Callout) /\ DOMAIN list = 1 .. Len(list) /\ Len(list) \in Nat
        /\ \A d \in Callout : time[d] \in Nat
    BY <1>1, TimesNat DEF IInv, TypeOK
  <2>1. CASE UNCHANGED <<list, time>>
    BY <2>1 DEF InList
  <2>2. CASE AppCallout \/ CallbackCallout
    <3>1. PICK c \in Callout, t \in Times \cup {0} : TempusCallout(c, t)
      BY <2>2, <2>t, CalloutArgs
    <3>2. /\ list' \in Seq(Callout)
          /\ time' = [time EXCEPT ![c] = t]
          /\ \A d \in Callout : d # c => (InList(d)' <=> InList(d))
          /\ \A i, j \in 1 .. Len(list') :
                i < j /\ list'[i] = c => t < time'[list'[j]]
      BY <3>1, <2>t, CalloutSound
    <3>3. \A d \in Callout : time'[d] = IF d = c THEN t ELSE time[d]
      BY <3>2, <2>t DEF TypeOK
    <3>4. \A d \in Callout : (\E k \in DOMAIN list' : list'[k] = d) /\ d # c => InList(d)
      BY <3>2 DEF InList
    <3>5. t \in Nat
      BY TimesNat
    <3>6. ASSUME NEW i \in DOMAIN list', NEW j \in DOMAIN list', i < j,
                 time'[list'[i]] = time'[list'[j]]
          PROVE  InList(list'[i]) /\ time[list'[i]] = time'[list'[i]]
      <4>1. list'[i] \in Callout /\ i \in 1 .. Len(list') /\ j \in 1 .. Len(list')
        BY <3>2
      <4>2. list'[i] # c
        BY <4>1, <3>2, <3>3, <3>5, <3>6
      <4> QED BY <4>1, <4>2, <3>3, <3>4
    <3> QED BY <3>6
  <2>3. CASE ScanFire
    <3>1. list' = Tail(list) /\ time' = time /\ list # <<>>
      BY <2>3 DEF ScanFire
    <3>2. /\ list' \in Seq(Callout)
          /\ \A d \in Callout : InList(d)' <=> (InList(d) /\ d # Head(list))
      BY <3>1, <2>t, HeadLeaves
    <3>3. \A d \in Callout : (\E k \in DOMAIN list' : list'[k] = d) => InList(d)
      BY <3>2 DEF InList
    <3>4. \A i \in DOMAIN list' : list'[i] \in Callout
      BY <3>2
    <3> QED BY <3>1, <3>3, <3>4
  <2> QED
    BY <1>1, <2>1, <2>2, <2>3
    DEF Next, TempusMagnaCirculi, Tick, ScanBegin, Return, ScanEnd, vars
<1>2. IInv /\ [Next]_vars => [Kept]_vars
  BY <1>1
<1>3. Init => IInv
  BY InitSound
<1>4. IInv /\ [Next]_vars => IInv'
  BY NextSound
<1> QED BY <1>2, <1>3, <1>4, PTL DEF Spec, FirstComeFirstServed

\* So the callout list keeps all that the facility promises.
THEOREM Refines == TempusAssumption => (Spec => IsCalloutService)
BY ImplementsCallouts, ServedInOrder DEF IsCalloutService
=============================================================================
