------------------------- MODULE BaseOptimizeProofs -------------------------
(***************************************************************************)
(* DpsBaseOptimize keeps every record, for every set of records, hash,     *)
(* bound, ratio and combination of faults of the calls beside it: moved    *)
(* together, no buffer is written over before it has been moved itself,    *)
(* and in the index that is built anew every record is found.              *)
(***************************************************************************)
EXTENDS BaseOptimize, BaseProofs, FiniteSetTheorems

-----------------------------------------------------------------------------
(* Sums. *)

Sum(v) == LET sum[n \in Nat] == IF n = 0 THEN 0 ELSE sum[n - 1] + v[n] IN sum

\* The first n of them.
SumPart(v, n, h) == h \in [0..n -> Nat] /\ h[0] = 0 /\ \A i \in 1..n : h[i] = h[i - 1] + v[i]

LEMMA SumPartExists ==
    ASSUME NEW v \in [Nat -> Nat]
    PROVE  \A n \in Nat : \E h : SumPart(v, n, h)
<1> DEFINE Parts == {n \in Nat : \E h : SumPart(v, n, h)}
<1>1. 0 \in Parts
  <2>1. SumPart(v, 0, [i \in 0..0 |-> 0])
    BY DEF SumPart
  <2> QED
    BY <2>1
<1>2. ASSUME NEW n \in Nat, n \in Parts PROVE n + 1 \in Parts
  <2>1. PICK h : SumPart(v, n, h)
    BY <1>2
  <2>2. h \in [0..n -> Nat] /\ h[0] = 0 /\ \A i \in 1..n : h[i] = h[i - 1] + v[i]
    BY <2>1 DEF SumPart
  <2>3. n \in 0..n /\ h[n] \in Nat /\ v[n + 1] \in Nat
    BY <2>2
  <2> DEFINE k == [i \in 0..(n + 1) |-> IF i = n + 1 THEN h[n] + v[n + 1] ELSE h[i]]
  <2>4. k[n + 1] = h[n] + v[n + 1] /\ \A i \in 0..n : k[i] = h[i]
    OBVIOUS
  <2>5. k \in [0..(n + 1) -> Nat]
    <3>1. ASSUME NEW i \in 0..(n + 1), i # n + 1 PROVE h[i] \in Nat
      <4>1. i \in 0..n
        BY <3>1
      <4> QED
        BY <2>2, <4>1
    <3>2. h[n] + v[n + 1] \in Nat
      BY <2>3
    <3> QED
      BY <3>1, <3>2
  <2> HIDE DEF k
  <2>6. k[0] = 0
    BY <2>2, <2>4, SMTT(30)
  <2>7. ASSUME NEW i \in 1..(n + 1) PROVE k[i] = k[i - 1] + v[i]
    <3>1. CASE i = n + 1
      <4>1. i - 1 = n /\ k[n] = h[n]
        BY <2>4, <3>1
      <4> QED
        BY <2>4, <3>1, <4>1
    <3>2. CASE i # n + 1
      <4>1. i \in 1..n /\ i \in 0..n /\ i - 1 \in 0..n
        BY <3>2
      <4> QED
        BY <2>2, <2>4, <4>1
    <3> QED
      BY <3>1, <3>2
  <2>8. SumPart(v, n + 1, k)
    BY <2>5, <2>6, <2>7 DEF SumPart
  <2> QED
    BY <2>8
<1> HIDE DEF Parts
<1>3. \A n \in Nat : n \in Parts
  BY <1>1, <1>2, Induct
<1> QED
  BY <1>3 DEF Parts

\* A longer part continues a shorter one.
LEMMA SumPartAgrees ==
    ASSUME NEW v, NEW n \in Nat, NEW h, NEW k, SumPart(v, n, h), SumPart(v, n + 1, k)
    PROVE  h[n] = k[n]
<1> DEFINE Same == {i \in Nat : i <= n => h[i] = k[i]}
<1>1. 0 \in Same
  BY DEF SumPart
<1>2. ASSUME NEW i \in Nat, i \in Same PROVE i + 1 \in Same
  <2> SUFFICES ASSUME i + 1 <= n PROVE h[i + 1] = k[i + 1]
    OBVIOUS
  <2>1. h[i] = k[i]
    BY <1>2
  <2>2. i + 1 \in 1..n /\ i + 1 \in 1..(n + 1) /\ (i + 1) - 1 = i
    OBVIOUS
  <2>3. h[i + 1] = h[(i + 1) - 1] + v[i + 1] /\ k[i + 1] = k[(i + 1) - 1] + v[i + 1]
    BY <2>2 DEF SumPart
  <2> QED
    BY <2>1, <2>2, <2>3
<1>3. n \in Same
  <2> HIDE DEF Same
  <2> QED
    BY <1>1, <1>2, Induct
<1> QED
  BY <1>3

\* The recursion defines a function.
LEMMA SumIs ==
    ASSUME NEW v \in [Nat -> Nat]
    PROVE  Sum(v)[0] = 0 /\ \A n \in Nat : Sum(v)[n] \in Nat /\ Sum(v)[n + 1] = Sum(v)[n] + v[n + 1]
<1> DEFINE H == [n \in Nat |-> CHOOSE h : SumPart(v, n, h)]
           g == [n \in Nat |-> H[n][n]]
           f == Sum(v)
<1>1. ASSUME NEW n \in Nat PROVE SumPart(v, n, H[n])
  <2>1. \E h : SumPart(v, n, h)
    BY SumPartExists
  <2> QED
    BY <2>1, Zenon
<1> HIDE DEF H
<1>2. ASSUME NEW n \in Nat PROVE H[n][n] \in Nat
  <2>1. H[n] \in [0..n -> Nat]
    BY <1>1, Zenon DEF SumPart
  <2>2. n \in 0..n
    OBVIOUS
  <2> QED
    BY <2>1, <2>2, Zenon
<1>3. H[0][0] = 0
  BY <1>1 DEF SumPart
<1>4. ASSUME NEW n \in Nat PROVE H[n + 1][n + 1] = H[n][n] + v[n + 1]
  <2>1. SumPart(v, n, H[n]) /\ SumPart(v, n + 1, H[n + 1])
    BY <1>1
  <2>2. H[n][n] = H[n + 1][n]
    BY <2>1, SumPartAgrees
  <2>3. n + 1 \in 1..(n + 1) /\ (n + 1) - 1 = n
    OBVIOUS
  <2>4. H[n + 1][n + 1] = H[n + 1][n] + v[n + 1]
    BY <2>1, <2>3 DEF SumPart
  <2> QED
    BY <2>2, <2>4
<1>5. g = [n \in Nat |-> IF n = 0 THEN 0 ELSE g[n - 1] + v[n]]
  <2>1. \A n \in Nat : n # 0 => n - 1 \in Nat /\ (n - 1) + 1 = n
    OBVIOUS
  <2>2. \A n \in Nat : n # 0 => H[n][n] = H[n - 1][n - 1] + v[n]
    BY <1>4, <2>1
  <2> QED
    BY <1>3, <2>1, <2>2
<1> HIDE DEF g
<1>6. f = [n \in Nat |-> IF n = 0 THEN 0 ELSE f[n - 1] + v[n]]
  BY <1>5, Zenon DEF Sum
<1> HIDE DEF f
<1>7. f[0] = 0 /\ \A n \in Nat : f[n + 1] = f[n] + v[n + 1]
  <2>1. \A n \in Nat : f[n] = IF n = 0 THEN 0 ELSE f[n - 1] + v[n]
    BY <1>6
  <2>2. \A n \in Nat : n + 1 \in Nat /\ n + 1 # 0 /\ (n + 1) - 1 = n
    OBVIOUS
  <2> QED
    BY <2>1, <2>2
<1>8. \A n \in Nat : f[n] \in Nat
  <2> DEFINE Good == {n \in Nat : f[n] \in Nat}
  <2>1. 0 \in Good /\ \A n \in Nat : n \in Good => n + 1 \in Good
    BY <1>7
  <2> HIDE DEF Good
  <2>2. \A n \in Nat : n \in Good
    BY <2>1, Induct
  <2> QED
    BY <2>2 DEF Good
<1> QED
  BY <1>7, <1>8 DEF f

\* A sum is not less than two of its members.
LEMMA SumOfTwo ==
    ASSUME NEW v \in [Nat -> Nat], NEW n \in Nat, NEW p \in 1..n, NEW q \in 1..n, p < q
    PROVE  Sum(v)[n] >= v[p] + v[q]
<1> DEFINE f == Sum(v)
           One == {m \in Nat : m >= p => f[m] >= v[p]}
           Two == {m \in Nat : m >= q => f[m] >= v[p] + v[q]}
<1>1. f[0] = 0 /\ \A m \in Nat : f[m] \in Nat /\ f[m + 1] = f[m] + v[m + 1] /\ v[m + 1] \in Nat
  <2>1. \A m \in Nat : v[m + 1] \in Nat
    OBVIOUS
  <2> QED
    BY <2>1, SumIs, Zenon
<1>2. v[p] \in Nat /\ v[q] \in Nat /\ p \in Nat /\ q \in Nat /\ p >= 1 /\ q >= 1
  OBVIOUS
<1> HIDE DEF f
<1>3. 0 \in One /\ 0 \in Two
  BY <1>2
<1>4. ASSUME NEW m \in Nat, m \in One PROVE m + 1 \in One
  <2>1. CASE m >= p
    BY <1>1, <1>2, <1>4, <2>1
  <2>2. CASE m + 1 = p
    <3>1. f[m + 1] = f[m] + v[p] /\ f[m] \in Nat
      BY <1>1, <2>2, Zenon
    <3> QED
      BY <1>2, <2>2, <3>1
  <2> QED
    BY <1>2, <2>1, <2>2
<1>5. \A m \in Nat : m \in One
  <2> HIDE DEF One
  <2> QED
    BY <1>3, <1>4, Induct
<1>6. ASSUME NEW m \in Nat, m \in Two PROVE m + 1 \in Two
  <2>1. CASE m >= q
    BY <1>1, <1>2, <1>6, <2>1
  <2>2. CASE m + 1 = q
    <3>1. f[m + 1] = f[m] + v[q] /\ f[m] \in Nat
      BY <1>1, <2>2, Zenon
    <3>2. f[m] >= v[p]
      BY <1>2, <1>5, <2>2
    <3> QED
      BY <1>2, <2>2, <3>1, <3>2
  <2> QED
    BY <1>2, <2>1, <2>2
<1>7. n \in Two
  <2> HIDE DEF Two
  <2> QED
    BY <1>3, <1>6, Induct
<1> QED
  BY <1>2, <1>7 DEF f

-----------------------------------------------------------------------------
(* The slots a round keeps. *)

\* The slots in s have data of their own in d.
OwnedBy(d, s) == \A k \in 1..Len(s) : s[k].rec_id \in RecIds /\ Owns(d, s[k])

\* Those of the records that held has are in s, with the same buffers.
HeldIn(d, s, held) ==
    \A r \in RecIds : held[r] # <<>> =>
        \E k \in 1..Len(s) : s[k].rec_id = r /\ s[k].size > 0 /\ Contents(s[k], d) = held[r]

LEMMA SlotsAre ==
    ASSUME idx \in Seq(Items), NEW p \in Slots
    PROVE  p \in 1..Len(idx) /\ p \in Nat /\ idx[p] \in Items /\ idx[p].rec_id \in RecIds /\ idx[p].size > 0
<1>1. p \in 1..Len(idx) /\ Live(idx[p])
  BY DEF Slots
<1>2. idx[p] \in Items
  BY <1>1
<1> QED
  BY <1>1, <1>2 DEF Live, Items

\* Of two slots none is as long as all slots together.
LEMMA NotAll ==
    ASSUME idx \in Seq(Items), NEW p \in Slots, NEW q \in Slots, p # q
    PROVE  idx[p].size < ActualSize
<1> DEFINE v == [n \in Nat |-> IF n \in Slots THEN idx[n].size ELSE 0]
<1>1. ActualSize = Sum(v)[Len(idx)]
  BY Zenon DEF ActualSize, Sum
<1>2. /\ p \in 1..Len(idx) /\ q \in 1..Len(idx) /\ p \in Nat /\ q \in Nat
      /\ idx[p].size \in Nat /\ idx[q].size \in Nat /\ idx[q].size > 0
  BY SlotsAre DEF Items
<1>3. v \in [Nat -> Nat]
  <2>1. \A n \in Slots : idx[n].size \in Nat
    BY SlotsAre DEF Items
  <2> QED
    BY <2>1
<1>4. v[p] = idx[p].size /\ v[q] = idx[q].size
  BY <1>2
<1>5. Len(idx) \in Nat
  OBVIOUS
<1> HIDE DEF v
<1>6. CASE p < q
  <2>1. Sum(v)[Len(idx)] >= v[p] + v[q]
    BY <1>2, <1>3, <1>5, <1>6, SumOfTwo
  <2>2. Sum(v)[Len(idx)] \in Nat
    BY <1>3, <1>5, SumIs
  <2> QED
    BY <1>1, <1>2, <1>4, <2>1, <2>2
<1>7. CASE q < p
  <2>1. Sum(v)[Len(idx)] >= v[q] + v[p]
    BY <1>2, <1>3, <1>5, <1>7, SumOfTwo
  <2>2. Sum(v)[Len(idx)] \in Nat
    BY <1>3, <1>5, SumIs
  <2> QED
    BY <1>1, <1>2, <1>4, <2>1, <2>2
<1> QED
  BY <1>2, <1>6, <1>7

\* What the sort makes of them.
Picked(o) == [j \in DOMAIN o |-> idx[o[j]]]

LEMMA SortedIs ==
    ASSUME idx \in Seq(Items), NEW o \in Sorted, NEW s, s = Picked(o)
    PROVE  /\ s \in Seq(Items)
           /\ \A p \in Kept : \E k \in 1..Len(s) : s[k] = idx[p]
           /\ \A k \in 1..Len(s) : \E p \in Slots : s[k] = idx[p]
           /\ \A j, k \in 1..Len(s) : j < k => s[j].offset <= s[k].offset
<1> DEFINE n == Cardinality(Kept)
<1>1. n \in Nat
  <2>1. IsFiniteSet(1..Len(idx))
    BY FS_Interval
  <2>2. Kept \subseteq 1..Len(idx)
    BY SlotsAre DEF Kept
  <2>3. IsFiniteSet(Kept)
    BY <2>1, <2>2, FS_Subset
  <2> QED
    BY <2>3, FS_CardinalityType
<1>2. /\ o \in [1..n -> Kept]
      /\ \A p \in Kept : \E j \in 1..n : o[j] = p
      /\ \A i, j \in 1..n : i < j => idx[o[i]].offset <= idx[o[j]].offset
  BY DEF Sorted
<1> HIDE DEF n
<1>3. s = [j \in 1..n |-> idx[o[j]]]
  BY <1>2 DEF Picked
<1>4. \A j \in 1..n : o[j] \in Kept /\ o[j] \in Slots /\ idx[o[j]] \in Items
  <2>1. \A j \in 1..n : o[j] \in Kept
    BY <1>2
  <2>2. Kept \subseteq Slots
    BY DEF Kept
  <2> QED
    BY <2>1, <2>2, SlotsAre
<1>5. s \in Seq(Items) /\ Len(s) = n
  BY <1>1, <1>3, <1>4
<1>6. \A j \in 1..n : s[j] = idx[o[j]]
  BY <1>3
<1> HIDE DEF Sorted
<1>7. \A p \in Kept : \E k \in 1..Len(s) : s[k] = idx[p]
  BY <1>2, <1>5, <1>6
<1>8. \A k \in 1..Len(s) : \E p \in Slots : s[k] = idx[p]
  BY <1>4, <1>5, <1>6
<1>9. \A j, k \in 1..Len(s) : j < k => s[j].offset <= s[k].offset
  BY <1>2, <1>5, <1>6
<1> QED
  BY <1>5, <1>7, <1>8, <1>9

\* A record that a search finds has a slot.
LEMMA HeldSlot ==
    ASSUME idx \in Seq(Items), dat \in Seq(Cells), NEW r \in RecIds, Held[r] # <<>>
    PROVE  \E p \in Slots : idx[p].rec_id = r /\ Contents(idx[p], dat) = Held[r]
<1> DEFINE p == SlotAt(r)[Len(idx) + 1]
<1>1. Found(r) /\ Held[r] = Lookup(r)
  BY DEF Held
<1>2. p \in 1..Len(idx) /\ idx[p].rec_id = r /\ Readable(idx[p])
  BY <1>1 DEF Found
<1>3. Lookup(r) = Contents(idx[p], dat)
  BY Zenon DEF Lookup, Content, Contents
<1> HIDE DEF p
<1>4. idx[p] \in Items /\ r # NoRec
  BY <1>2, BaseAssumption
<1>5. idx[p].offset \in Nat /\ idx[p].size \in Nat
  BY <1>4 DEF Items
<1>6. idx[p].size # 0
  <2> SUFFICES ASSUME idx[p].size = 0 PROVE Contents(idx[p], dat) = <<>>
    BY <1>1, <1>3
  <2> QED
    BY DEF Contents
<1>7. p \in Slots
  BY <1>2, <1>4, <1>5, <1>6 DEF Slots, Live, Readable
<1> QED
  BY <1>1, <1>2, <1>3, <1>7

\* Where two records are found, a round keeps each.
LEMMA RoundHolds ==
    ASSUME idx \in Seq(Items), dat \in Seq(Cells), NEW o \in Sorted, NEW s, s = Picked(o),
           \E q, r \in RecIds : q # r /\ Held[q] # <<>> /\ Held[r] # <<>>
    PROVE  HeldIn(dat, s, Held)
<1> SUFFICES ASSUME NEW r \in RecIds, Held[r] # <<>>
             PROVE  \E k \in 1..Len(s) : s[k].rec_id = r /\ s[k].size > 0 /\ Contents(s[k], dat) = Held[r]
  BY DEF HeldIn
<1>1. PICK q \in RecIds : q # r /\ Held[q] # <<>>
  OBVIOUS
<1>2. PICK p \in Slots : idx[p].rec_id = r /\ Contents(idx[p], dat) = Held[r]
  BY HeldSlot
<1>3. PICK p2 \in Slots : idx[p2].rec_id = q
  BY <1>1, HeldSlot
<1>4. p \in Kept /\ idx[p].size > 0
  BY <1>1, <1>2, <1>3, NotAll, SlotsAre DEF Kept
<1>5. PICK k \in 1..Len(s) : s[k] = idx[p]
  <2>1. \A x \in Kept : \E k \in 1..Len(s) : s[k] = idx[x]
    BY SortedIs
  <2> QED
    BY <1>4, <2>1
<1> QED
  BY <1>2, <1>4, <1>5
-----------------------------------------------------------------------------
(* A buffer is moved down. *)

\* e is d with size cells moved from off down to "to".
Shifted(d, off, size, to, e) ==
    /\ e \in Seq(Cells)
    /\ Len(e) >= Len(d)
    /\ \A m \in 1..size : e[to + m] = d[off + m]
    /\ \A q \in 1..Len(d) : q <= to \/ q > to + size => e[q] = d[q]

LEMMA ShiftIs ==
    ASSUME NEW d \in Seq(Cells), NEW off \in Nat, NEW size \in Nat, NEW to \in Nat,
           to <= off, off + size <= Len(d)
    PROVE  Shifted(d, off, size, to, IF off > to THEN Overlay(d, to, SubSeq(d, off + 1, off + size)) ELSE d)
<1>1. CASE off > to
  <2> DEFINE b == SubSeq(d, off + 1, off + size)
             e == Overlay(d, to, b)
  <2>1. Len(d) \in Nat /\ to <= Len(d)
    OBVIOUS
  <2>2. b \in Seq(Cells) /\ Len(b) = size /\ \A m \in 1..size : b[m] = d[off + m]
    <3>1. off + 1 \in Nat /\ off + size \in Nat /\ off + 1 >= 1
      OBVIOUS
    <3>2. ASSUME NEW m \in 1..size PROVE b[m] = d[off + m]
      <4>1. m \in 1..(off + size + 1 - (off + 1)) /\ off + 1 + m - 1 = off + m
        OBVIOUS
      <4> QED
        BY <2>1, <3>1, <4>1
    <3>3. b \in Seq(Cells) /\ Len(b) = size
      <4>1. \A k \in (off + 1)..(off + size) : k \in 1..Len(d)
        BY <2>1
      <4>2. \A k \in (off + 1)..(off + size) : d[k] \in Cells
        BY <4>1
      <4>3. b = [k \in 1..size |-> d[off + k]]
        OBVIOUS
      <4>4. \A k \in 1..size : d[off + k] \in Cells
        BY <2>1
      <4> QED
        BY <4>3, <4>4
    <3> QED
      BY <3>2, <3>3
  <2> HIDE DEF b
  <2>3. Overlaid(d, to, b, e)
    BY <2>1, <2>2, OverlayIs
  <2> HIDE DEF e
  <2>4. /\ e \in Seq(Cells) /\ Len(e) \in Nat /\ Len(e) >= Len(d) /\ Len(e) >= to + size
        /\ \A k \in 1..Len(e) : e[k] = IF k > to /\ k <= to + size THEN b[k - to] ELSE d[k]
    BY <2>2, <2>3 DEF Overlaid
  <2>5. ASSUME NEW m \in 1..size PROVE e[to + m] = d[off + m]
    <3>1. to + m \in 1..Len(e) /\ to + m > to /\ to + m <= to + size /\ (to + m) - to = m
      BY <2>4
    <3> QED
      BY <2>2, <2>4, <3>1
  <2>6. ASSUME NEW q \in 1..Len(d), q <= to \/ q > to + size PROVE e[q] = d[q]
    <3>1. q \in 1..Len(e) /\ ~(q > to /\ q <= to + size)
      BY <2>1, <2>4, <2>6
    <3> QED
      BY <2>4, <3>1
  <2>7. Shifted(d, off, size, to, e)
    BY <2>4, <2>5, <2>6 DEF Shifted
  <2> QED
    BY <1>1, <2>7 DEF e, b
<1>2. CASE off = to
  <2>1. Shifted(d, off, size, to, d)
    BY <1>2 DEF Shifted
  <2> QED
    BY <1>2, <2>1
<1> QED
  BY <1>1, <1>2

\* Buffer i may be moved down to "to" and cut to size: what is before it
\* ends there, and what comes after it begins behind it.
Movable(d, s, i, to, size) ==
    /\ OwnedBy(d, s)
    /\ to <= s[i].offset /\ size <= s[i].size
    /\ \A j \in 1..Len(s) : j < i => s[j].offset + s[j].size <= to
    /\ \A k \in 1..Len(s) : i < k => s[i].offset + size <= s[k].offset

MovedTo(s, i, to, size) == [s EXCEPT ![i] = [s[i] EXCEPT !.offset = to, !.size = size]]

\* The slots t and data e are s and d with buffer i moved: every slot has data
\* of its own, and the same data as before if none is cut.
AfterMove(d, s, i, to, size, e, t) ==
    /\ t \in Seq(Items) /\ Len(t) = Len(s)
    /\ \A k \in 1..Len(s) : t[k].rec_id = s[k].rec_id
    /\ \A k \in 1..Len(s) : k # i => t[k] = s[k]
    /\ t[i].offset = to /\ t[i].size = size
    /\ OwnedBy(e, t)
    /\ \A held : size = s[i].size /\ HeldIn(d, s, held) => HeldIn(e, t, held)

LEMMA SlotsMoved ==
    ASSUME NEW d \in Seq(Cells), NEW e, NEW s \in Seq(Items), NEW t, NEW i \in 1..Len(s),
           NEW to \in Nat, NEW size \in Nat, Movable(d, s, i, to, size),
           Shifted(d, s[i].offset, size, to, e),
           t = MovedTo(s, i, to, size)
    PROVE  AfterMove(d, s, i, to, size, e, t)
<1>a. /\ OwnedBy(d, s)
      /\ to <= s[i].offset /\ size <= s[i].size
      /\ \A j \in 1..Len(s) : j < i => s[j].offset + s[j].size <= to
      /\ \A k \in 1..Len(s) : i < k => s[i].offset + size <= s[k].offset
  BY DEF Movable
<1>1. \A k \in 1..Len(s) : s[k] \in Items /\ s[k].offset \in Nat /\ s[k].size \in Nat
  <2>1. \A k \in 1..Len(s) : s[k] \in Items
    OBVIOUS
  <2> QED
    BY <2>1 DEF Items
<1> DEFINE x == [s[i] EXCEPT !.offset = to, !.size = size]
<1>2. x \in Items /\ x.rec_id = s[i].rec_id /\ x.offset = to /\ x.size = size
  BY <1>1 DEF Items
<1> HIDE DEF x
<1>3. /\ t \in Seq(Items) /\ Len(t) = Len(s) /\ t[i] = x
      /\ \A k \in 1..Len(s) : k # i => t[k] = s[k]
  <2>1. t = [s EXCEPT ![i] = x]
    BY DEF x, MovedTo
  <2>2. /\ [s EXCEPT ![i] = x] \in Seq(Items) /\ Len([s EXCEPT ![i] = x]) = Len(s)
        /\ \A k \in 1..Len(s) : [s EXCEPT ![i] = x][k] = IF k = i THEN x ELSE s[k]
    BY <1>2, ExceptSeq
  <2> QED
    BY <2>1, <2>2
<1>4. \A k \in 1..Len(s) : t[k].rec_id = s[k].rec_id
  BY <1>2, <1>3
<1>5. /\ e \in Seq(Cells) /\ Len(e) >= Len(d) /\ Len(e) \in Nat /\ Len(d) \in Nat
      /\ \A m \in 1..size : e[to + m] = d[s[i].offset + m]
      /\ \A q \in 1..Len(d) : q <= to \/ q > to + size => e[q] = d[q]
  BY DEF Shifted
<1>6. \A k \in 1..Len(s) : s[k].offset + s[k].size <= Len(d)
  BY <1>a DEF OwnedBy, Owns
<1>7. ASSUME NEW k \in 1..Len(s), k # i, NEW m \in 1..s[k].size
      PROVE  e[s[k].offset + m] = d[s[k].offset + m]
  <2>1. s[k].offset + m \in 1..Len(d)
    BY <1>1, <1>5, <1>6, SMTT(30)
  <2>2. s[k].offset + m <= to \/ s[k].offset + m > to + size
    <3>1. CASE k < i
      BY <1>a, <1>1, <3>1, SMTT(30)
    <3>2. CASE i < k
      <4>1. s[i].offset + size <= s[k].offset
        BY <1>a, <3>2
      <4> QED
        BY <1>a, <1>1, <4>1
    <3> QED
      BY <1>7, <3>1, <3>2
  <2> QED
    BY <1>5, <2>1, <2>2
<1>8. OwnedBy(e, t)
  <2> SUFFICES ASSUME NEW k \in 1..Len(s) PROVE t[k].rec_id \in RecIds /\ Owns(e, t[k])
    BY <1>3 DEF OwnedBy
  <2>1. s[k].rec_id \in RecIds /\ Owns(d, s[k])
    BY <1>a DEF OwnedBy
  <2>2. \A m \in 1..s[k].size : d[s[k].offset + m][1] = s[k].rec_id
    <3> SUFFICES ASSUME NEW m \in 1..s[k].size PROVE d[s[k].offset + m][1] = s[k].rec_id
      OBVIOUS
    <3>1. s[k].offset + m \in Extent(s[k])
      BY <1>1 DEF Extent
    <3> QED
      BY <2>1, <3>1 DEF Owns
  <2>3. \A m \in 1..t[k].size : e[t[k].offset + m][1] = t[k].rec_id
    <3>1. CASE k = i
      <4> SUFFICES ASSUME NEW m \in 1..size PROVE e[to + m][1] = s[i].rec_id
        BY <1>2, <1>3, <3>1
      <4>1. m \in 1..s[i].size
        BY <1>a, <1>1
      <4> QED
        BY <1>5, <2>2, <3>1, <4>1
    <3>2. CASE k # i
      BY <1>3, <1>7, <2>2, <3>2
    <3> QED
      BY <3>1, <3>2
  <2>4. t[k].offset \in Nat /\ t[k].size \in Nat /\ t[k].offset + t[k].size <= Len(e)
    <3>1. CASE k = i
      BY <1>a, <1>1, <1>2, <1>3, <1>5, <1>6, <3>1, SMTT(30)
    <3>2. CASE k # i
      BY <1>1, <1>3, <1>5, <1>6, <3>2
    <3> QED
      BY <3>1, <3>2
  <2>5. \A q \in Extent(t[k]) : e[q][1] = t[k].rec_id
    <3> SUFFICES ASSUME NEW q \in Extent(t[k]) PROVE e[q][1] = t[k].rec_id
      OBVIOUS
    <3> DEFINE off == t[k].offset
               n == t[k].size
    <3>1. q - off \in 1..n /\ off + (q - off) = q
      <4>1. off \in Nat /\ n \in Nat /\ q \in (off + 1)..(off + n)
        BY <2>4 DEF Extent
      <4> HIDE DEF off, n
      <4> QED
        BY <4>1
    <3> QED
      BY <2>3, <3>1
  <2> QED
    BY <1>4, <2>1, <2>4, <2>5 DEF Owns
<1>9. ASSUME NEW held, size = s[i].size, HeldIn(d, s, held) PROVE HeldIn(e, t, held)
  <2> SUFFICES ASSUME NEW r \in RecIds, held[r] # <<>>
               PROVE  \E k \in 1..Len(t) : t[k].rec_id = r /\ t[k].size > 0 /\ Contents(t[k], e) = held[r]
    BY DEF HeldIn
  <2>1. PICK k \in 1..Len(s) : s[k].rec_id = r /\ s[k].size > 0 /\ Contents(s[k], d) = held[r]
    BY <1>9 DEF HeldIn
  <2>2. t[k].size = s[k].size
    BY <1>2, <1>3, <1>9
  <2>3. \A m \in 1..s[k].size : e[t[k].offset + m] = d[s[k].offset + m]
    BY <1>2, <1>3, <1>5, <1>7, <1>9
  <2>4. Contents(t[k], e) = Contents(s[k], d)
    BY <2>2, <2>3 DEF Contents
  <2> QED
    BY <1>3, <1>4, <2>1, <2>2, <2>4
<1> QED
  BY <1>2, <1>3, <1>4, <1>8, <1>9 DEF AfterMove

-----------------------------------------------------------------------------
(* The end of a chain. *)

EndAt(s, S, p) == p \notin DOMAIN s \/ s[p].rec_id \in S \/ s[p].next \notin DOMAIN s
StepTo(s, S) == [p \in Nat |-> IF EndAt(s, S, p) THEN p ELSE s[p].next]

LEMMA EndIs ==
    ASSUME NEW S, NEW h
    PROVE  EndOfChain(S, h) = Orbit(StepTo(idx, S), h)[Len(idx)]
BY Zenon DEF EndOfChain, Orbit, StepTo, EndAt

LEMMA StepToIs ==
    ASSUME NEW s \in Seq(Items), NEW S
    PROVE  /\ StepTo(s, S) \in [Nat -> Nat]
           /\ \A p \in Nat : EndAt(s, S, p) => StepTo(s, S)[p] = p
           /\ \A p \in Nat : ~EndAt(s, S, p) => /\ StepTo(s, S)[p] = s[p].next
                                                /\ p \in 1..Len(s) /\ s[p].next \in 1..Len(s)
                                                /\ s[p].rec_id \notin S
<1>1. \A p \in Nat : ~EndAt(s, S, p) => p \in 1..Len(s) /\ s[p].next \in 1..Len(s) /\ s[p].rec_id \notin S
  BY DEF EndAt
<1>2. \A p \in Nat : ~EndAt(s, S, p) => s[p].next \in Nat
  BY <1>1
<1> QED
  BY <1>1, <1>2, Zenon DEF StepTo

\* It is a slot of the file, if the first is.
LEMMA EndInFile ==
    ASSUME NEW S, idx \in Seq(Items), NEW h \in 1..Len(idx)
    PROVE  EndOfChain(S, h) \in 1..Len(idx)
<1> DEFINE D == 1..Len(idx)
           G == StepTo(idx, S)
<1>1. G \in [Nat -> Nat] /\ h \in Nat /\ Len(idx) \in Nat /\ D \subseteq Nat
  BY StepToIs
<1>2. \A p \in D : G[p] \in D
  <2> SUFFICES ASSUME NEW p \in D PROVE G[p] \in D
    OBVIOUS
  <2>1. p \in Nat
    BY <1>1
  <2>2. CASE EndAt(idx, S, p)
    BY <2>1, <2>2, StepToIs
  <2>3. CASE ~EndAt(idx, S, p)
    BY <2>1, <2>3, StepToIs
  <2> QED
    BY <2>2, <2>3
<1>3. Orbit(G, h)[0] = h
  BY <1>1, OrbitIs DEF Runs
<1> HIDE DEF G
<1>4. Orbit(G, h)[0] \in D /\ Len(idx) >= 0
  BY <1>1, <1>3
<1>5. Orbit(G, h)[Len(idx)] \in D
  <2> HIDE DEF D
  <2> QED
    BY <1>1, <1>2, <1>4, OrbitStays
<1> QED
  BY <1>5, EndIs DEF G

\* Where the chain of r ends a search of r comes by, and it ends at r's slot or at the last one.
LEMMA EndOfSearch ==
    ASSUME idx \in Seq(Items), Forward(idx), Unlinked(idx), NEW r \in RecIds, Hash[r] \in 1..Len(idx),
           NEW p, p = EndOfChain({r}, Hash[r])
    PROVE  /\ p \in 1..Len(idx) /\ Visits(idx, r, p)
           /\ idx[p].rec_id = r \/ idx[p].next \notin 1..Len(idx)
<1> DEFINE G == StepTo(idx, {r})
           g == Orbit(G, Hash[r])
           f == Search(idx, r)
           Come == {n \in Nat : \E m \in Nat : f[m] = g[n]}
           Past == {n \in Nat : EndAt(idx, {r}, g[n]) \/ g[n] > n}
<1>1. G \in [Nat -> Nat] /\ Hash[r] \in Nat /\ Hash[r] >= 1 /\ Len(idx) \in Nat
  BY StepToIs
<1>2. g \in [Nat -> Nat] /\ g[0] = Hash[r] /\ \A n \in Nat : g[n + 1] = G[g[n]]
  BY <1>1, OrbitIs DEF Runs
<1>3. f \in [Nat -> Nat] /\ f[0] = Hash[r] /\ \A n \in Nat : f[n + 1] = Follow(idx, r)[f[n]]
  BY SearchIs DEF Runs
<1>4. p = g[Len(idx)] /\ p \in 1..Len(idx)
  BY EndIs, EndInFile
<1>5. \A q \in Nat : EndAt(idx, {r}, q) => G[q] = q
  BY StepToIs
<1>6. \A q \in Nat : ~EndAt(idx, {r}, q) =>
          G[q] = idx[q].next /\ q \in 1..Len(idx) /\ idx[q].next \in 1..Len(idx) /\ idx[q].rec_id # r
  <2> SUFFICES ASSUME NEW q \in Nat, ~EndAt(idx, {r}, q)
               PROVE  G[q] = idx[q].next /\ q \in 1..Len(idx) /\ idx[q].next \in 1..Len(idx) /\ idx[q].rec_id # r
    OBVIOUS
  <2>1. /\ StepTo(idx, {r})[q] = idx[q].next
        /\ q \in 1..Len(idx) /\ idx[q].next \in 1..Len(idx) /\ idx[q].rec_id \notin {r}
    BY StepToIs, Zenon
  <2> QED
    BY <2>1
<1> HIDE DEF G, g, f
<1>7. \A n \in Nat : g[n] \in Nat /\ g[n + 1] = G[g[n]] /\ n + 1 \in Nat
  <2> SUFFICES ASSUME NEW n \in Nat PROVE g[n] \in Nat /\ g[n + 1] = G[g[n]] /\ n + 1 \in Nat
    OBVIOUS
  <2>1. g[n] \in Nat
    BY <1>2, Zenon
  <2>2. g[n + 1] = G[g[n]]
    BY <1>2, Zenon
  <2> QED
    BY <2>1, <2>2
<1>8. g[0] = Hash[r] /\ f[0] = Hash[r] /\ 0 \in Nat
  BY <1>2, <1>3
<1>9. \A n \in Nat : n \in Come
  <2>1. 0 \in Come
    BY <1>8
  <2>2. ASSUME NEW n \in Nat, n \in Come PROVE n + 1 \in Come
    <3>1. PICK m \in Nat : f[m] = g[n]
      BY <2>2
    <3>2. m + 1 \in Nat
      OBVIOUS
    <3>3. g[n + 1] = G[g[n]] /\ g[n] \in Nat /\ n + 1 \in Nat
      BY <1>7, Zenon
    <3>4. CASE EndAt(idx, {r}, g[n])
      <4>1. f[m] = g[n + 1]
        BY <1>5, <3>1, <3>3, <3>4
      <4> QED
        BY <3>3, <4>1
    <3>5. CASE ~EndAt(idx, {r}, g[n])
      <4>1. g[n + 1] = idx[g[n]].next /\ g[n] \in 1..Len(idx) /\ idx[g[n]].next \in 1..Len(idx)
            /\ idx[g[n]].rec_id # r
        BY <1>6, <3>3, <3>5
      <4>2. idx[g[n]].rec_id # NoRec
        BY <4>1 DEF Unlinked
      <4>3. Follow(idx, r)[g[n]] = idx[g[n]].next
        BY <4>1, <4>2, FollowIs DEF Follows
      <4>4. f[m + 1] = g[n + 1]
        BY <1>3, <3>1, <4>1, <4>3
      <4> QED
        BY <3>2, <3>3, <4>4
    <3> QED
      BY <3>4, <3>5
  <2> HIDE DEF Come
  <2> QED
    BY <2>1, <2>2, Induct
<1>10. \A n \in Nat : n \in Past
  <2>1. 0 \in Past
    BY <1>1, <1>8
  <2>2. ASSUME NEW n \in Nat, n \in Past PROVE n + 1 \in Past
    <3>1. g[n + 1] = G[g[n]] /\ g[n] \in Nat /\ n + 1 \in Nat
      BY <1>7, Zenon
    <3>2. CASE EndAt(idx, {r}, g[n])
      <4>1. g[n + 1] = g[n]
        BY <1>5, <3>1, <3>2
      <4> QED
        BY <3>1, <3>2, <4>1
    <3>3. CASE ~EndAt(idx, {r}, g[n])
      <4>1. g[n + 1] = idx[g[n]].next /\ g[n] \in 1..Len(idx) /\ idx[g[n]].next \in 1..Len(idx) /\ g[n] > n
        BY <1>6, <2>2, <3>1, <3>3
      <4>2. g[n + 1] > g[n]
        BY <4>1, SMTT(30) DEF Forward
      <4>3. g[n + 1] > n + 1
        BY <3>1, <4>1, <4>2
      <4> QED
        BY <3>1, <4>3
    <3> QED
      BY <3>2, <3>3
  <2> HIDE DEF Past
  <2> QED
    BY <2>1, <2>2, Induct
<1>11. Visits(idx, r, p)
  BY <1>1, <1>4, <1>9 DEF Visits, f
<1>12. EndAt(idx, {r}, p)
  <2>1. Len(idx) \in Past
    BY <1>1, <1>10
  <2> QED
    BY <1>1, <1>4, <2>1, SMTT(30)
<1> QED
  BY <1>4, <1>11, <1>12 DEF EndAt
-----------------------------------------------------------------------------
(* The inductive invariant: while DpsBaseOptimize has not died in the file, *)
(* the slots it holds own their data and stand for the records found       *)
(* before, and what is built of the index is a table of forward chains.    *)

Phases == {"none", "again", "move", "cut", "heads", "seek", "write"}
OptOK == opt \in [pc : Phases, si : Seq(Items), i : Nat, pos : Nat, error_cnt : Nat,
                  held : [RecIds -> Seq(Cells)] \cup {<<>>}, died : BOOLEAN]

\* Buffers up to i - 1 are behind each other, the others still where they were.
Behind(s, i) == IF i = 1 THEN 0 ELSE s[i - 1].offset + s[i - 1].size
Ahead(s, i) ==
    /\ i \in 1..(Len(s) + 1)
    /\ \A j, k \in 1..Len(s) : i <= j /\ j < k => s[j].offset <= s[k].offset
    /\ \A k \in 1..Len(s) : i <= k => s[k].size > 0 /\ Behind(s, i) <= s[k].offset
    /\ \A j \in 1..Len(s) : j < i => s[j].offset + s[j].size <= Behind(s, i)
MoveOK == opt.pc = "move" => Ahead(opt.si, opt.i)

\* The new index file: no chain leaves it, but for the slot about to be appended.
Ending(s, n) == \A p \in 1..Len(s) : s[p].next <= n
TableOK == opt.pc \in {"seek", "write"} =>
    /\ opt.i >= 1
    /\ Len(idx) >= HashPrime
    /\ Forward(idx) /\ Unlinked(idx) /\ Sound(idx, dat)
    /\ Ending(idx, IF opt.pc = "write" /\ opt.pos = Len(idx) + 1 THEN Len(idx) + 1 ELSE Len(idx))
WriteOK == opt.pc = "write" =>
    /\ opt.i <= Len(opt.si)
    /\ opt.pos \in 1..(Len(idx) + 1)
    /\ Visits(idx, opt.si[opt.i].rec_id, opt.pos)
    /\ opt.pos <= Len(idx) => idx[opt.pos].rec_id \in {NoRec, opt.si[opt.i].rec_id}

\* The slots already written are found, and no others are there.
Placed(s, it) ==
    \E p \in 1..Len(s) : /\ s[p].rec_id = it.rec_id /\ Visits(s, it.rec_id, p)
                         /\ s[p].offset = it.offset /\ s[p].size = it.size
Built(s, si, i) ==
    /\ \A k \in 1..Len(si) : k < i /\ si[k].size > 0 => Placed(s, si[k])
    /\ \A p \in 1..Len(s) : s[p].rec_id # NoRec => \E k \in 1..Len(si) : k < i /\ si[k].rec_id = s[p].rec_id

Single == Several /\ OneSlotEach
BusyOK ==
    /\ TypeOK
    /\ mode = "closed" /\ pc = "idle"
    /\ OwnedBy(dat, opt.si)
    /\ Single => HeldIn(dat, opt.si, opt.held)
    /\ MoveOK /\ TableOK /\ WriteOK
    /\ Single /\ opt.pc \in {"seek", "write"} => Built(idx, opt.si, opt.i)

Between == opt.pc \in {"none", "again"}
OInv ==
    /\ "died" \in DOMAIN opt /\ opt.died \in BOOLEAN
    /\ ~opt.died => OptOK /\ IF Between THEN IInv ELSE BusyOK

-----------------------------------------------------------------------------
(* The buffers are moved together. *)

LEMMA PlaceIs ==
    ASSUME NEW i
    PROVE  Place(i) = Behind(opt.si, i)
BY DEF Place, Behind

\* The size buffer i is cut to; it is not, where no record has two slots.
LEMMA FittingIs ==
    ASSUME opt.si \in Seq(Items), dat \in Seq(Cells), OwnedBy(dat, opt.si),
           NEW i \in 1..Len(opt.si), Ahead(opt.si, i), NEW size, size = Fitting(i)
    PROVE  /\ size \in Nat /\ size <= opt.si[i].size
           /\ \A k \in 1..Len(opt.si) : i < k => opt.si[i].offset + size <= opt.si[k].offset
           /\ OneSlotEach => size = opt.si[i].size
<1> DEFINE s == opt.si
           gap == IF i = Len(s) THEN s[i].size ELSE s[i + 1].offset - s[i].offset
<1>1. \A k \in 1..Len(s) : s[k] \in Items /\ s[k].offset \in Nat /\ s[k].size \in Nat
  <2>1. \A k \in 1..Len(s) : s[k] \in Items
    OBVIOUS
  <2> QED
    BY <2>1 DEF Items
<1>2. s[i].offset + s[i].size <= Len(dat) /\ Len(dat) \in Nat /\ Len(s) \in Nat
  BY DEF OwnedBy, Owns
<1>3. i # Len(s) => i + 1 \in 1..Len(s)
  BY <1>2
<1>4. gap \in Nat
  BY <1>1, <1>3 DEF Ahead
<1>5. size = LET cut == IF s[i].size > gap THEN gap ELSE s[i].size
             IN IF s[i].offset > Place(i) /\ s[i].offset + cut > Len(dat) THEN Len(dat) - s[i].offset ELSE cut
  BY Zenon DEF Fitting
<1> DEFINE cut == IF s[i].size > gap THEN gap ELSE s[i].size
<1>6. cut \in Nat /\ cut <= s[i].size /\ cut <= gap
  BY <1>1, <1>4
<1> HIDE DEF gap
<1>7. size = cut
  <2>1. ~(s[i].offset + cut > Len(dat))
    BY <1>1, <1>2, <1>6
  <2> HIDE DEF cut
  <2> QED
    BY <1>5, <2>1 DEF cut
<1> HIDE DEF cut
<1>8. ASSUME NEW k \in 1..Len(s), i < k PROVE s[i].offset + size <= s[k].offset
  <2>1. i # Len(s) /\ i + 1 \in 1..Len(s)
    BY <1>2, <1>8
  <2>2. gap = s[i + 1].offset - s[i].offset
    BY <2>1 DEF gap
  <2>3. s[i].offset + size <= s[i + 1].offset
    BY <1>1, <1>6, <1>7, <2>1, <2>2, SMTT(30)
  <2>4. s[i + 1].offset <= s[k].offset
    <3>1. CASE i + 1 = k
      BY <1>1, <3>1
    <3>2. CASE i + 1 < k
      BY <2>1, <3>2 DEF Ahead
    <3> QED
      BY <1>8, <3>1, <3>2
  <2> QED
    BY <1>1, <1>6, <1>7, <2>1, <2>3, <2>4, SMTT(30)
<1>9. ASSUME OneSlotEach PROVE size = s[i].size
  <2> SUFFICES ASSUME s[i].size > gap PROVE FALSE
    BY <1>7 DEF cut
  <2>1. i # Len(s) /\ i + 1 \in 1..Len(s)
    BY <1>1, <1>3 DEF gap
  <2> DEFINE x == s[i]
             y == s[i + 1]
             q == y.offset + 1
  <2>2. x.offset \in Nat /\ x.size \in Nat /\ y.offset \in Nat /\ y.size \in Nat
    BY <1>1, <2>1
  <2>3. y.offset < x.offset + x.size /\ x.offset <= y.offset /\ y.size > 0
    <3>1. gap = y.offset - x.offset
      BY <2>1 DEF gap
    <3>2. x.offset <= y.offset /\ y.size > 0
      BY <2>1 DEF Ahead
    <3> HIDE DEF x, y
    <3> QED
      BY <2>2, <3>1, <3>2 DEF x
  <2>4. Owns(dat, x) /\ Owns(dat, y)
    BY <2>1 DEF OwnedBy
  <2> HIDE DEF x, y
  <2>5. q \in Extent(x) /\ q \in Extent(y)
    BY <2>2, <2>3, SMTT(30) DEF Extent
  <2>6. dat[q][1] = x.rec_id /\ dat[q][1] = y.rec_id
    BY <2>4, <2>5 DEF Owns
  <2>7. i \in DOMAIN s /\ i + 1 \in DOMAIN s /\ i # i + 1
    BY <2>1
  <2> QED
    BY <1>9, <2>6, <2>7 DEF OneSlotEach, x, y
<1> QED
  BY <1>6, <1>7, <1>8, <1>9

\* The next buffer is ahead of what has been moved.
LEMMA Advances ==
    ASSUME NEW s \in Seq(Items), NEW t \in Seq(Items), NEW i \in 1..Len(s), NEW size \in Nat,
           NEW to, to = Behind(s, i), Ahead(s, i), Len(t) = Len(s),
           \A k \in 1..Len(s) : i < k => s[i].offset + size <= s[k].offset,
           \A k \in 1..Len(s) : k # i => t[k] = s[k],
           t[i].offset = to, t[i].size = size
    PROVE  to \in Nat /\ to <= s[i].offset /\ Ahead(t, i + 1)
<1>1. \A k \in 1..Len(s) : s[k] \in Items /\ s[k].offset \in Nat /\ s[k].size \in Nat
  <2>1. \A k \in 1..Len(s) : s[k] \in Items
    OBVIOUS
  <2> QED
    BY <2>1 DEF Items
<1>2. to \in Nat
  <2>1. CASE i = 1
    BY <2>1 DEF Behind
  <2>2. CASE i # 1
    <3>1. i - 1 \in 1..Len(s)
      BY <2>2
    <3> QED
      BY <1>1, <2>2, <3>1 DEF Behind
  <2> QED
    BY <2>1, <2>2
<1>3. to <= s[i].offset
  BY DEF Ahead
<1>4. Behind(t, i + 1) = to + size
  BY DEF Behind
<1>5. i + 1 \in 1..(Len(t) + 1)
  OBVIOUS
<1>6. ASSUME NEW j \in 1..Len(t), NEW k \in 1..Len(t), i + 1 <= j, j < k PROVE t[j].offset <= t[k].offset
  <2>1. t[j] = s[j] /\ t[k] = s[k] /\ i <= j
    BY <1>6
  <2> QED
    BY <1>6, <2>1 DEF Ahead
<1>7. ASSUME NEW k \in 1..Len(t), i + 1 <= k PROVE t[k].size > 0 /\ Behind(t, i + 1) <= t[k].offset
  <2>1. t[k] = s[k] /\ i < k /\ i <= k
    BY <1>7
  <2>2. s[i].offset + size <= s[k].offset /\ s[k].size > 0
    BY <2>1 DEF Ahead
  <2> QED
    BY <1>1, <1>2, <1>3, <1>4, <2>1, <2>2
<1>8. ASSUME NEW j \in 1..Len(t), j < i + 1 PROVE t[j].offset + t[j].size <= Behind(t, i + 1)
  <2>1. CASE j = i
    BY <1>2, <1>4, <2>1
  <2>2. CASE j # i
    <3>1. t[j] = s[j] /\ j < i
      BY <1>8, <2>2
    <3>2. s[j].offset + s[j].size <= to
      BY <3>1 DEF Ahead
    <3> QED
      BY <1>1, <1>2, <1>4, <3>1, <3>2
  <2> QED
    BY <2>1, <2>2
<1> QED
  BY <1>2, <1>3, <1>5, <1>6, <1>7, <1>8 DEF Ahead

\* What is not the round's stays.
LEMMA HandleKept ==
    ASSUME BusyOK, UNCHANGED handle, idx' \in Seq(Items), dat' \in Seq(Cells)
    PROVE  TypeOK' /\ mode' = "closed" /\ pc' = "idle"
<1>1. UNCHANGED <<mode, op, pc, via, Item, CurrentItemPos, mishash, ret>>
  BY DEF handle, cursor
<1> QED
  BY <1>1, Zenon DEF BusyOK, TypeOK

\* Slots of the same records leave the condition of the theorem as it is.
LEMMA SingleKept ==
    ASSUME OptOK, OptOK', opt'.held = opt.held, Len(opt'.si) = Len(opt.si),
           \A k \in 1..Len(opt.si) : opt'.si[k].rec_id = opt.si[k].rec_id
    PROVE  (Single' <=> Single) /\ (OneSlotEach' <=> OneSlotEach)
<1>1. Several' <=> Several
  BY DEF Several
<1>2. DOMAIN opt.si = 1..Len(opt.si) /\ DOMAIN opt'.si = 1..Len(opt.si)
  BY DEF OptOK
<1>3. OneSlotEach' <=> OneSlotEach
  BY <1>2 DEF OneSlotEach
<1> QED
  BY <1>1, <1>3 DEF Single

LEMMA MoveKeeps == OptOK /\ BusyOK /\ Move => OptOK' /\ BusyOK'
<1> SUFFICES ASSUME OptOK, BusyOK, Move PROVE OptOK' /\ BusyOK'
  OBVIOUS
<1> DEFINE s == opt.si
           i == opt.i
           to == Place(i)
           size == Fitting(i)
           x == [s[i] EXCEPT !.offset = to, !.size = size]
           t == [s EXCEPT ![i] = x]
<1>1. /\ s \in Seq(Items) /\ idx \in Seq(Items) /\ dat \in Seq(Cells) /\ OwnedBy(dat, s)
      /\ opt.pc = "move" /\ i \in 1..Len(s) /\ Ahead(s, i)
  BY DEF Move, OptOK, BusyOK, TypeOK, MoveOK, Ahead
<1>2. /\ size \in Nat /\ size <= s[i].size
      /\ \A k \in 1..Len(s) : i < k => s[i].offset + size <= s[k].offset
      /\ OneSlotEach => size = s[i].size
  <2> HIDE DEF size
  <2> QED
    BY <1>1, FittingIs DEF size
<1>3. to = Behind(s, i) /\ s[i].offset \in Nat /\ s[i].size \in Nat
  <2>1. s[i] \in Items
    BY <1>1
  <2> QED
    BY <2>1, PlaceIs DEF Items
<1>4. to \in Nat /\ to <= s[i].offset
  <2>1. i \in Nat /\ \A k \in 1..Len(s) : s[k] \in Items
    BY <1>1
  <2>2. CASE i = 1
    BY <1>1, <1>3, <2>2 DEF Behind, Ahead
  <2>3. CASE i # 1
    <3>1. i - 1 \in 1..Len(s)
      BY <1>1, <2>3
    <3>2. s[i - 1].offset \in Nat /\ s[i - 1].size \in Nat
      BY <2>1, <3>1 DEF Items
    <3>3. to = s[i - 1].offset + s[i - 1].size
      BY <1>3, <2>3 DEF Behind
    <3>4. to <= s[i].offset
      BY <1>1, <1>3 DEF Ahead
    <3> QED
      BY <3>2, <3>3, <3>4
  <2> QED
    BY <2>2, <2>3
<1>5. s[i].offset + size <= Len(dat)
  <2>1. s[i].offset + s[i].size <= Len(dat) /\ Len(dat) \in Nat
    BY <1>1 DEF OwnedBy, Owns
  <2> QED
    BY <1>2, <1>3, <2>1
<1>6. /\ dat' = IF s[i].offset > to THEN Overlay(dat, to, SubSeq(dat, s[i].offset + 1, s[i].offset + size)) ELSE dat
      /\ opt' = [opt EXCEPT !.si[i] = x, !.i = i + 1, !.error_cnt = IF size = s[i].size THEN @ ELSE 1]
      /\ idx' = idx /\ UNCHANGED handle
  <2> HIDE DEF to, size
  <2> QED
    BY Zenon DEF Move, to, size
<1> HIDE DEF to, size
<1>7. Shifted(dat, s[i].offset, size, to, dat')
  BY <1>1, <1>2, <1>3, <1>4, <1>5, <1>6, ShiftIs
<1>8. \A j \in 1..Len(s) : j < i => s[j].offset + s[j].size <= to
  BY <1>1, <1>3 DEF Ahead
<1>9. /\ t \in Seq(Items) /\ Len(t) = Len(s)
      /\ \A k \in 1..Len(s) : t[k].rec_id = s[k].rec_id
      /\ \A k \in 1..Len(s) : k # i => t[k] = s[k]
      /\ t[i].offset = to /\ t[i].size = size
      /\ OwnedBy(dat', t)
      /\ \A held : size = s[i].size /\ HeldIn(dat, s, held) => HeldIn(dat', t, held)
  <2> DEFINE u == t
  <2>1. u = MovedTo(s, i, to, size)
    BY DEF MovedTo
  <2> HIDE DEF u, s, i
  <2>2. AfterMove(dat, s, i, to, size, dat', u)
    <3>1. s \in Seq(Items) /\ dat \in Seq(Cells) /\ i \in 1..Len(s) /\ OwnedBy(dat, s)
      BY <1>1
    <3>2. to \in Nat /\ size \in Nat
      BY <1>2, <1>4
    <3>3. Movable(dat, s, i, to, size)
      BY <1>1, <1>2, <1>4, <1>8 DEF Movable
    <3> QED
      BY <1>7, <2>1, <3>1, <3>2, <3>3, SlotsMoved
  <2> QED
    BY <2>2 DEF u, s, i, AfterMove
<1>10. opt'.si = t /\ opt'.i = i + 1 /\ opt'.pc = "move" /\ opt'.held = opt.held /\ opt'.died = opt.died
       /\ opt'.pos = opt.pos /\ opt'.error_cnt \in Nat
  <2> HIDE DEF x
  <2> QED
    BY <1>1, <1>6 DEF OptOK
<1>11. OptOK'
  <2>1. opt' = [opt EXCEPT !.si = t, !.i = i + 1, !.error_cnt = opt'.error_cnt]
    <3> HIDE DEF x
    <3> QED
      BY <1>6, <1>10 DEF OptOK
  <2>2. i + 1 \in Nat
    BY <1>1
  <2> HIDE DEF t
  <2> QED
    BY <1>9, <1>10, <2>1, <2>2 DEF OptOK
<1> HIDE DEF t, x
<1>12. Ahead(t, i + 1)
  BY <1>1, <1>2, <1>3, <1>9, Advances, ZenonT(60)
<1>13. (Single' <=> Single) /\ (OneSlotEach' <=> OneSlotEach)
  BY <1>9, <1>10, <1>11, SingleKept
<1>14. Single' => HeldIn(dat', opt'.si, opt'.held)
  BY <1>2, <1>9, <1>10, <1>13 DEF BusyOK, Single
<1>15. TypeOK' /\ mode' = "closed" /\ pc' = "idle"
  <2>1. idx' \in Seq(Items) /\ dat' \in Seq(Cells)
    BY <1>1, <1>6, <1>7 DEF Shifted
  <2> QED
    BY <1>6, <2>1, HandleKept
<1>16. MoveOK' /\ TableOK' /\ WriteOK'
  BY <1>10, <1>12 DEF MoveOK, TableOK, WriteOK
<1> QED
  BY <1>9, <1>10, <1>11, <1>14, <1>15, <1>16 DEF BusyOK

\* Cells behind the last buffer are no slot's.
LEMMA CellsCut ==
    ASSUME NEW d \in Seq(Cells), NEW e \in Seq(Cells), NEW s \in Seq(Items), OwnedBy(d, s),
           \A k \in 1..Len(s) : s[k].offset + s[k].size <= Len(e),
           \A q \in 1..Len(e) : e[q] = d[q]
    PROVE  OwnedBy(e, s) /\ \A held : HeldIn(d, s, held) => HeldIn(e, s, held)
<1>1. \A k \in 1..Len(s) : s[k] \in Items /\ s[k].offset \in Nat /\ s[k].size \in Nat
  <2>1. \A k \in 1..Len(s) : s[k] \in Items
    OBVIOUS
  <2> QED
    BY <2>1 DEF Items
<1>2. Len(e) \in Nat
  OBVIOUS
<1>3. OwnedBy(e, s)
  <2> SUFFICES ASSUME NEW k \in 1..Len(s) PROVE s[k].rec_id \in RecIds /\ Owns(e, s[k])
    BY DEF OwnedBy
  <2>1. s[k].rec_id \in RecIds /\ Owns(d, s[k])
    BY DEF OwnedBy
  <2>2. ASSUME NEW q \in Extent(s[k]) PROVE e[q][1] = s[k].rec_id
    <3>1. q \in 1..Len(e)
      BY <1>1, <1>2 DEF Extent
    <3>2. d[q][1] = s[k].rec_id
      BY <2>1 DEF Owns
    <3> QED
      BY <3>1, <3>2
  <2> QED
    BY <2>1, <2>2 DEF Owns
<1>4. ASSUME NEW held, HeldIn(d, s, held) PROVE HeldIn(e, s, held)
  <2> SUFFICES ASSUME NEW r \in RecIds, held[r] # <<>>
               PROVE  \E k \in 1..Len(s) : s[k].rec_id = r /\ s[k].size > 0 /\ Contents(s[k], e) = held[r]
    BY DEF HeldIn
  <2>1. PICK k \in 1..Len(s) : s[k].rec_id = r /\ s[k].size > 0 /\ Contents(s[k], d) = held[r]
    BY <1>4 DEF HeldIn
  <2>2. ASSUME NEW m \in 1..s[k].size PROVE e[s[k].offset + m] = d[s[k].offset + m]
    <3>1. s[k].offset + m \in 1..Len(e)
      BY <1>1, <1>2
    <3> QED
      BY <3>1
  <2>3. Contents(s[k], e) = Contents(s[k], d)
    BY <2>2 DEF Contents
  <2> QED
    BY <2>1, <2>3
<1> QED
  BY <1>3, <1>4

LEMMA CutDataKeeps == OptOK /\ BusyOK /\ CutData => OptOK' /\ BusyOK'
<1> SUFFICES ASSUME OptOK, BusyOK, CutData PROVE OptOK' /\ BusyOK'
  OBVIOUS
<1> DEFINE s == opt.si
           n == Behind(s, opt.i)
<1>1. /\ s \in Seq(Items) /\ idx \in Seq(Items) /\ dat \in Seq(Cells) /\ OwnedBy(dat, s)
      /\ opt.pc = "move" /\ Ahead(s, opt.i) /\ opt.i = Len(s) + 1
      /\ idx' = idx /\ UNCHANGED handle
  BY DEF CutData, OptOK, BusyOK, TypeOK, MoveOK, Ahead
<1>2. /\ opt' = [opt EXCEPT !.pc = "cut"]
      /\ dat' = [k \in 1..n |-> IF k <= Len(dat) THEN dat[k] ELSE Hole]
  BY PlaceIs, Zenon DEF CutData
<1>3. OptOK' /\ opt'.si = s /\ opt'.pc = "cut" /\ opt'.held = opt.held
  BY <1>2 DEF OptOK, Phases
<1>4. n \in Nat /\ n <= Len(dat)
  <2>1. CASE s = <<>>
    BY <1>1, <2>1 DEF Behind
  <2>2. CASE s # <<>>
    <3>1. Len(s) \in 1..Len(s) /\ opt.i # 1 /\ opt.i - 1 = Len(s)
      BY <1>1, <2>2
    <3>2. n = s[Len(s)].offset + s[Len(s)].size
      BY <3>1 DEF Behind
    <3>3. s[Len(s)] \in Items /\ s[Len(s)].offset + s[Len(s)].size <= Len(dat)
      BY <1>1, <3>1 DEF OwnedBy, Owns
    <3> QED
      BY <3>2, <3>3 DEF Items
  <2> QED
    BY <2>1, <2>2
<1>5. \A k \in 1..Len(s) : s[k].offset + s[k].size <= n
  BY <1>1 DEF Ahead
<1> HIDE DEF n
<1>6. \A k \in 1..n : k <= Len(dat) /\ dat[k] \in Cells
  BY <1>1, <1>4
<1>7. dat' = [k \in 1..n |-> dat[k]]
  BY <1>2, <1>6
<1>8. dat' \in Seq(Cells) /\ Len(dat') = n /\ \A k \in 1..Len(dat') : dat'[k] = dat[k]
  BY <1>4, <1>6, <1>7
<1>9. OwnedBy(dat', s) /\ \A held : HeldIn(dat, s, held) => HeldIn(dat', s, held)
  BY <1>1, <1>5, <1>8, CellsCut
<1>10. Single' <=> Single
  BY <1>3, SingleKept
<1>11. TypeOK' /\ mode' = "closed" /\ pc' = "idle"
  BY <1>1, <1>8, HandleKept
<1>12. MoveOK' /\ TableOK' /\ WriteOK'
  BY <1>3 DEF MoveOK, TableOK, WriteOK
<1>13. Single' => HeldIn(dat', opt'.si, opt'.held)
  BY <1>3, <1>9, <1>10 DEF BusyOK
<1> QED
  BY <1>3, <1>9, <1>11, <1>12, <1>13 DEF BusyOK

LEMMA CutIndexKeeps == OptOK /\ BusyOK /\ CutIndex => OptOK' /\ BusyOK'
<1> SUFFICES ASSUME OptOK, BusyOK, CutIndex PROVE OptOK' /\ BusyOK'
  OBVIOUS
<1>1. idx' \in Seq(Items) /\ dat' = dat /\ UNCHANGED handle /\ dat \in Seq(Cells)
  BY DEF CutIndex, BusyOK, TypeOK
<1>2. OptOK' /\ opt'.si = opt.si /\ opt'.pc = "heads" /\ opt'.held = opt.held
  BY DEF CutIndex, OptOK, Phases
<1>3. Single' <=> Single
  BY <1>2, SingleKept
<1>4. TypeOK' /\ mode' = "closed" /\ pc' = "idle"
  BY <1>1, HandleKept
<1>5. MoveOK' /\ TableOK' /\ WriteOK'
  BY <1>2 DEF MoveOK, TableOK, WriteOK
<1>6. OwnedBy(dat', opt'.si) /\ (Single' => HeldIn(dat', opt'.si, opt'.held))
  BY <1>1, <1>2, <1>3 DEF BusyOK
<1> QED
  BY <1>2, <1>4, <1>5, <1>6 DEF BusyOK

\* A table of empty head slots.
LEMMA HTableIs ==
    /\ HTable \in Seq(Items) /\ Len(HTable) = HashPrime
    /\ \A p \in 1..Len(HTable) : HTable[p] = ZeroItem
    /\ ZeroItem \in Items /\ ZeroItem.rec_id = NoRec /\ ZeroItem.next = 0
<1>1. ZeroItem \in Items /\ ZeroItem.rec_id = NoRec /\ ZeroItem.next = 0
  BY DEF ZeroItem, Items
<1> QED
  BY <1>1, BaseAssumption DEF HTable

LEMMA WriteHeadsKeeps == OptOK /\ BusyOK /\ WriteHeads => OptOK' /\ BusyOK'
<1> SUFFICES ASSUME OptOK, BusyOK, WriteHeads PROVE OptOK' /\ BusyOK'
  OBVIOUS
<1>1. /\ idx' \in Seq(Items) /\ Len(idx') = HashPrime
      /\ \A p \in 1..Len(idx') : idx'[p].rec_id = NoRec /\ idx'[p].next = 0
      /\ dat' = dat /\ UNCHANGED handle /\ dat \in Seq(Cells)
  BY HTableIs DEF WriteHeads, BusyOK, TypeOK
<1>2. OptOK' /\ opt'.si = opt.si /\ opt'.pc = "seek" /\ opt'.i = 1 /\ opt'.held = opt.held
  BY DEF WriteHeads, OptOK, Phases
<1>3. Single' <=> Single
  BY <1>2, SingleKept
<1>4. TypeOK' /\ mode' = "closed" /\ pc' = "idle"
  BY <1>1, HandleKept
<1>5. HashPrime \in Nat
  BY BaseAssumption
<1>6. Forward(idx') /\ Unlinked(idx') /\ Sound(idx', dat') /\ Ending(idx', Len(idx'))
  BY <1>1, <1>5 DEF Forward, Unlinked, Sound, Ending
<1>7. MoveOK' /\ TableOK' /\ WriteOK'
  BY <1>1, <1>2, <1>5, <1>6 DEF MoveOK, TableOK, WriteOK
<1>8. OwnedBy(dat', opt'.si) /\ (Single' => HeldIn(dat', opt'.si, opt'.held))
  BY <1>1, <1>2, <1>3 DEF BusyOK
<1>9. Built(idx', opt'.si, opt'.i)
  BY <1>1, <1>2 DEF Built
<1> QED
  BY <1>2, <1>4, <1>7, <1>8, <1>9 DEF BusyOK
-----------------------------------------------------------------------------
(* The index is built anew. *)

\* What is placed stays so when the slots of its record do.
LEMMA StaysPlaced ==
    ASSUME NEW s \in Seq(Items), NEW t \in Seq(Items), NEW it, NEW r, r = it.rec_id,
           Placed(s, it), NEW d, SameSlots(s, d, t, d, r)
    PROVE  Placed(t, it)
<1>1. PICK p \in 1..Len(s) : /\ s[p].rec_id = r /\ Visits(s, r, p)
                             /\ s[p].offset = it.offset /\ s[p].size = it.size
  BY DEF Placed
<1>2. p \in 1..Len(t) /\ t[p].rec_id = r /\ Visits(t, r, p) /\ t[p].offset = it.offset /\ t[p].size = it.size
  BY <1>1 DEF SameSlots
<1> QED
  BY <1>2 DEF Placed

\* t is the table s, with the chain of r linked to the slot to be appended.
LinkedFor(s, d, r, t) ==
    /\ t \in Seq(Items) /\ Len(t) = Len(s)
    /\ Forward(t) /\ Unlinked(t) /\ Sound(t, d) /\ Ending(t, Len(t) + 1)
    /\ Visits(t, r, Len(t) + 1)
    /\ \A si, i : OwnedBy(d, si) /\ Built(s, si, i) => Built(t, si, i)

LEMMA TableLinked ==
    ASSUME NEW s \in Seq(Items), NEW d \in Seq(Cells), NEW r \in RecIds, NEW p \in 1..Len(s),
           Forward(s), Unlinked(s), Sound(s, d), Ending(s, Len(s)),
           Visits(s, r, p), s[p].rec_id \notin {NoRec, r}, s[p].next \notin 1..Len(s),
           NEW t, t = WriteItem(s, p, [s[p] EXCEPT !.next = Len(s) + 1])
    PROVE  LinkedFor(s, d, r, t)
<1> DEFINE x == [s[p] EXCEPT !.next = Len(s) + 1]
<1>1. s[p] \in Items /\ Len(s) + 1 \in Nat /\ Len(s) \in Nat /\ p \in Nat
  OBVIOUS
<1>2. x \in Items /\ x.next = Len(s) + 1 /\ x.rec_id = s[p].rec_id /\ x.offset = s[p].offset /\ x.size = s[p].size
  BY <1>1 DEF Items
<1>3. t = WriteItem(s, p, x)
  OBVIOUS
<1> HIDE DEF x
<1>4. t \in Seq(Items) /\ Len(t) = Len(s) /\ \A q \in 1..Len(s) : t[q] = IF q = p THEN x ELSE s[q]
  <2>1. Wrote(s, p, x, t)
    BY <1>1, <1>2, <1>3, WriteItemIs
  <2> QED
    BY <2>1 DEF Wrote
<1>5. Forward(t)
  <2>1. x.next \in (p + 1)..(Len(s) + 1)
    BY <1>1, <1>2
  <2> QED
    BY <1>1, <1>2, <1>3, <2>1, WriteItemForward
<1>6. Unlinked(t)
  BY <1>2, <1>4 DEF Unlinked
<1>7. Sound(t, d)
  <2> SUFFICES ASSUME NEW q \in 1..Len(t), t[q].rec_id # NoRec PROVE Owns(d, t[q])
    BY DEF Sound
  <2>1. s[q].rec_id # NoRec /\ q \in 1..Len(s)
    BY <1>2, <1>4
  <2>2. Owns(d, s[q])
    BY <2>1 DEF Sound
  <2>3. t[q].offset = s[q].offset /\ t[q].size = s[q].size /\ t[q].rec_id = s[q].rec_id
    BY <1>2, <1>4
  <2> QED
    BY <2>2, <2>3 DEF Owns, Extent
<1>8. Ending(t, Len(t) + 1)
  <2> SUFFICES ASSUME NEW q \in 1..Len(t) PROVE t[q].next <= Len(t) + 1
    BY DEF Ending
  <2>1. s[q] \in Items /\ s[q].next <= Len(s)
    BY <1>4 DEF Ending
  <2>2. s[q].next \in Nat
    BY <2>1 DEF Items
  <2> QED
    BY <1>1, <1>2, <1>4, <2>1, <2>2, SMTT(30)
<1>9. Visits(t, r, Len(t) + 1)
  BY <1>3, <1>4, LinkReaches, ZenonT(30) DEF x
<1>10. ASSUME NEW si, NEW i, OwnedBy(d, si), Built(s, si, i) PROVE Built(t, si, i)
  <2>1. ASSUME NEW k \in 1..Len(si), k < i, si[k].size > 0 PROVE Placed(t, si[k])
    <3>1. Placed(s, si[k]) /\ si[k].rec_id \in RecIds
      BY <1>10, <2>1 DEF Built, OwnedBy
    <3>2. Len(s) + 1 \notin 1..Len(s)
      BY <1>1
    <3> DEFINE q == si[k].rec_id
    <3>3. SameSlots(s, d, t, d, q)
      <4>1. q \in RecIds
        BY <3>1
      <4> DEFINE n == Len(s) + 1
      <4>2. n \in Nat /\ n \notin 1..Len(s) /\ t = WriteItem(s, p, [s[p] EXCEPT !.next = n])
        BY <1>1, <3>2
      <4> HIDE DEF q, n
      <4>3. s[p].next \notin 1..Len(s) /\ s \in Seq(Items) /\ p \in 1..Len(s)
        OBVIOUS
      <4>4. SameSlots(s, d, WriteItem(s, p, [s[p] EXCEPT !.next = n]), d, q)
        BY <4>1, <4>2, <4>3, LinkKeeps, Zenon
      <4> QED
        BY <4>2, <4>4, Zenon
    <3> QED
      BY <1>4, <3>1, <3>3, StaysPlaced
  <2>2. ASSUME NEW q \in 1..Len(t), t[q].rec_id # NoRec
        PROVE  \E k \in 1..Len(si) : k < i /\ si[k].rec_id = t[q].rec_id
    <3>1. q \in 1..Len(s) /\ t[q].rec_id = s[q].rec_id
      BY <1>2, <1>4
    <3> QED
      BY <1>10, <2>2, <3>1 DEF Built
  <2> QED
    BY <2>1, <2>2 DEF Built
<1> QED
  BY <1>4, <1>5, <1>6, <1>7, <1>8, <1>9, <1>10 DEF LinkedFor

\* t is the table s with x written at p, where the chain of its record ends, or behind all slots.
WrittenAt(s, d, p, x, t) ==
    /\ t \in Seq(Items) /\ Len(t) >= Len(s)
    /\ Forward(t) /\ Unlinked(t) /\ Sound(t, d) /\ Ending(t, Len(t))
    /\ p \in 1..Len(t) /\ t[p] = x /\ \A q \in 1..Len(t) : q # p => q \in 1..Len(s) /\ t[q] = s[q]

LEMMA TableWritten ==
    ASSUME NEW s \in Seq(Items), NEW d \in Seq(Cells), NEW x \in Items, NEW p \in 1..(Len(s) + 1),
           Forward(s), Unlinked(s), Sound(s, d),
           Ending(s, IF p = Len(s) + 1 THEN Len(s) + 1 ELSE Len(s)),
           x.rec_id \in RecIds, x.next = 0, Owns(d, x), NEW t, t = WriteItem(s, p, x)
    PROVE  WrittenAt(s, d, p, x, t)
<1>1. Len(s) \in Nat /\ p \in Nat
  OBVIOUS
<1>2. /\ t \in Seq(Items) /\ Len(t) = (IF p > Len(s) THEN p ELSE Len(s))
      /\ \A q \in 1..Len(t) : t[q] = IF q = p THEN x ELSE IF q <= Len(s) THEN s[q] ELSE ZeroItem
  <2>1. Wrote(s, p, x, t)
    BY <1>1, WriteItemIs
  <2> QED
    BY <2>1 DEF Wrote
<1>3. Len(t) >= Len(s) /\ p \in 1..Len(t) /\ (p = Len(s) + 1 => Len(t) = Len(s) + 1) /\ Len(t) \in Nat
  BY <1>1, <1>2
<1>4. t[p] = x /\ \A q \in 1..Len(t) : q # p => q \in 1..Len(s) /\ t[q] = s[q]
  <2>1. \A q \in 1..Len(t) : q # p => q \in 1..Len(s) /\ q <= Len(s)
    BY <1>1, <1>2
  <2> QED
    BY <1>2, <1>3, <2>1
<1>5. Forward(t)
  BY <1>1, WriteItemForward
<1>6. NoRec \notin RecIds
  BY BaseAssumption
<1>7. Unlinked(t)
  BY <1>4, <1>6 DEF Unlinked
<1>8. Sound(t, d)
  BY <1>4 DEF Sound
<1>9. Ending(t, Len(t))
  <2> SUFFICES ASSUME NEW q \in 1..Len(t) PROVE t[q].next <= Len(t)
    BY DEF Ending
  <2>1. CASE q = p
    BY <1>3, <1>4, <2>1
  <2>2. CASE q # p
    <3>1. q \in 1..Len(s) /\ t[q] = s[q]
      BY <1>4, <2>2
    <3>2. s[q].next \in Nat
      <4>1. s[q] \in Items
        BY <3>1
      <4> QED
        BY <4>1 DEF Items
    <3>3. CASE p = Len(s) + 1
      <4>1. s[q].next <= Len(s) + 1
        BY <3>1, <3>3 DEF Ending
      <4> QED
        BY <1>3, <3>1, <3>3, <4>1
    <3>4. CASE p # Len(s) + 1
      <4>1. s[q].next <= Len(s)
        BY <3>1, <3>4 DEF Ending
      <4> QED
        BY <1>1, <1>3, <3>1, <3>2, <4>1
    <3> QED
      BY <3>3, <3>4
  <2> QED
    BY <2>1, <2>2
<1> QED
  BY <1>2, <1>3, <1>4, <1>5, <1>7, <1>8, <1>9 DEF WrittenAt

\* Then its record is placed as well, if no slot written before is of that record.
LEMMA BuiltWritten ==
    ASSUME NEW s \in Seq(Items), NEW d, NEW si, NEW i \in 1..Len(si), OwnedBy(d, si),
           Unlinked(s), Built(s, si, i), NEW p \in Nat, p >= 1, NEW x \in Items,
           NEW t, t = WriteItem(s, p, x), WrittenAt(s, d, p, x, t),
           \A k \in 1..Len(si) : si[k].rec_id = si[i].rec_id => k = i,
           x.rec_id = si[i].rec_id, x.offset = si[i].offset, x.size = si[i].size, x.next = 0,
           p <= Len(s) => s[p].rec_id \in {NoRec, si[i].rec_id},
           Visits(s, si[i].rec_id, p)
    PROVE  Built(t, si, i + 1)
<1>a. /\ t \in Seq(Items) /\ p \in 1..Len(t) /\ t[p] = x
      /\ \A q \in 1..Len(t) : q # p => q \in 1..Len(s) /\ t[q] = s[q]
  BY DEF WrittenAt
<1>0. i \in Nat /\ Len(s) \in Nat /\ NoRec \notin RecIds
  BY BaseAssumption
<1>1. p <= Len(s) => s[p].rec_id = NoRec /\ s[p].next = 0
  <2> SUFFICES ASSUME p <= Len(s) PROVE s[p].rec_id = NoRec /\ s[p].next = 0
    OBVIOUS
  <2>1. p \in 1..Len(s)
    BY <1>0
  <2>2. ASSUME s[p].rec_id = si[i].rec_id PROVE s[p].rec_id = NoRec
    <3>1. CASE s[p].rec_id # NoRec
      <4>1. PICK k \in 1..Len(si) : k < i /\ si[k].rec_id = s[p].rec_id
        BY <2>1, <3>1 DEF Built
      <4>2. k = i
        BY <2>2, <4>1
      <4> QED
        BY <1>0, <4>1, <4>2
    <3> QED
      BY <3>1
  <2> QED
    BY <2>1, <2>2 DEF Unlinked
<1>2. si[i].rec_id \in RecIds /\ si[i].rec_id # NoRec
  BY <1>0 DEF OwnedBy
<1>3. ASSUME NEW k \in 1..Len(si), k < i + 1, si[k].size > 0 PROVE Placed(t, si[k])
  <2>1. CASE k = i
    <3>1. Visits(t, si[i].rec_id, p)
      BY <1>2, SlotReaches
    <3> QED
      BY <1>a, <2>1, <3>1 DEF Placed
  <2>2. CASE k # i
    <3>1. k < i
      BY <1>0, <1>3, <2>2
    <3>2. Placed(s, si[k]) /\ si[k].rec_id \in RecIds /\ si[k].rec_id # si[i].rec_id
      BY <1>3, <2>2, <3>1 DEF Built, OwnedBy
    <3>3. /\ x.rec_id \notin {NoRec, si[k].rec_id}
          /\ p <= Len(s) => s[p].rec_id # si[k].rec_id /\ s[p].next = x.next
          /\ p <= Len(s) /\ s[p].rec_id = NoRec => s[p].next = 0
          /\ p > Len(s) => x.next = 0
      BY <1>0, <1>1, <1>2, <3>2
    <3>4. SameSlots(s, d, WriteItem(s, p, x), d, si[k].rec_id)
      BY <3>2, <3>3, SlotKeeps
    <3> QED
      BY <1>a, <3>2, <3>4, StaysPlaced
  <2> QED
    BY <2>1, <2>2
<1>4. ASSUME NEW q \in 1..Len(t), t[q].rec_id # NoRec
      PROVE  \E k \in 1..Len(si) : k < i + 1 /\ si[k].rec_id = t[q].rec_id
  <2>1. CASE q = p
    <3>1. i < i + 1 /\ si[i].rec_id = t[q].rec_id
      BY <1>0, <1>a, <2>1
    <3> QED
      BY <3>1
  <2>2. CASE q # p
    <3>1. q \in 1..Len(s) /\ t[q] = s[q]
      BY <1>a, <2>2
    <3>2. PICK k \in 1..Len(si) : k < i /\ si[k].rec_id = t[q].rec_id
      BY <1>4, <3>1 DEF Built
    <3>3. k < i + 1
      BY <1>0, <3>2
    <3> QED
      BY <3>2, <3>3
  <2> QED
    BY <2>1, <2>2
<1> QED
  BY <1>3, <1>4 DEF Built

LEMMA SeekKeeps == OptOK /\ BusyOK /\ Seek => OptOK' /\ BusyOK'
<1> SUFFICES ASSUME OptOK, BusyOK, Seek PROVE OptOK' /\ BusyOK'
  OBVIOUS
<1> DEFINE si == opt.si
           i == opt.i
           it == si[i]
           r == it.rec_id
           p == EndOfChain({r}, Hash[r])
           free == idx[p].rec_id \in {r, NoRec}
<1>1. /\ si \in Seq(Items) /\ idx \in Seq(Items) /\ dat \in Seq(Cells) /\ OwnedBy(dat, si)
      /\ opt.pc = "seek" /\ i \in Nat /\ i >= 1 /\ i <= Len(si) /\ i \in 1..Len(si)
      /\ Len(idx) >= HashPrime /\ Forward(idx) /\ Unlinked(idx) /\ Sound(idx, dat) /\ Ending(idx, Len(idx))
      /\ dat' = dat /\ UNCHANGED handle
  <2>1. opt.pc = "seek" /\ i <= Len(si) /\ dat' = dat /\ UNCHANGED handle
    BY Zenon DEF Seek
  <2>2. si \in Seq(Items) /\ i \in Nat /\ idx \in Seq(Items) /\ dat \in Seq(Cells) /\ OwnedBy(dat, si) /\ TableOK
    BY DEF OptOK, BusyOK, TypeOK
  <2> QED
    BY <2>1, <2>2, SMTT(30) DEF TableOK
<1>2. r \in RecIds
  BY <1>1 DEF OwnedBy
<1>3. CASE it.size = 0
  <2>1. opt' = [opt EXCEPT !.i = @ + 1] /\ idx' = idx
    BY <1>3, Zenon DEF Seek
  <2>2. OptOK' /\ opt'.si = si /\ opt'.pc = "seek" /\ opt'.i = i + 1 /\ opt'.held = opt.held
    <3>1. i + 1 \in Nat
      BY <1>1
    <3> QED
      BY <1>1, <2>1, <3>1 DEF OptOK
  <2>3. Single' <=> Single
    BY <2>2, SingleKept
  <2>4. TypeOK' /\ mode' = "closed" /\ pc' = "idle"
    BY <1>1, <2>1, HandleKept
  <2>5. MoveOK' /\ TableOK' /\ WriteOK'
    <3>1. opt'.i >= 1
      BY <1>1, <2>2
    <3> QED
      BY <1>1, <2>1, <2>2, <3>1 DEF MoveOK, TableOK, WriteOK
  <2>6. ASSUME Built(idx, si, i) PROVE Built(idx', opt'.si, opt'.i)
    <3>1. \A k \in 1..Len(si) : (k < i => k < i + 1) /\ (k < i + 1 /\ si[k].size > 0 => k < i)
      <4> SUFFICES ASSUME NEW k \in 1..Len(si) PROVE (k < i => k < i + 1) /\ (k < i + 1 /\ si[k].size > 0 => k < i)
        OBVIOUS
      <4>1. k = i => ~(si[k].size > 0)
        BY <1>3
      <4> QED
        BY <1>1, <4>1
    <3> QED
      BY <2>1, <2>2, <2>6, <3>1 DEF Built
  <2>7. OwnedBy(dat', opt'.si) /\ (Single' => HeldIn(dat', opt'.si, opt'.held))
    BY <1>1, <2>2, <2>3 DEF BusyOK
  <2>8. Single' => Built(idx', opt'.si, opt'.i)
    BY <1>1, <2>3, <2>6 DEF BusyOK
  <2> QED
    BY <2>2, <2>4, <2>5, <2>7, <2>8 DEF BusyOK
<1>4. CASE it.size # 0
  <2> DEFINE n == IF free THEN p ELSE Len(idx) + 1
             t == WriteItem(idx, p, [idx[p] EXCEPT !.next = Len(idx) + 1])
  <2>1. opt' = [opt EXCEPT !.pc = "write", !.pos = n] /\ idx' = IF free THEN idx ELSE t
    <3> HIDE DEF p, t
    <3> QED
      BY <1>4, Zenon DEF Seek, p, t
  <2>2. /\ p \in 1..Len(idx) /\ Visits(idx, r, p)
        /\ idx[p].rec_id = r \/ idx[p].next \notin 1..Len(idx)
    <3>1. Hash[r] \in 1..Len(idx)
      <4>1. Hash[r] \in 1..HashPrime /\ HashPrime \in Nat /\ Len(idx) \in Nat
        BY <1>1, <1>2, BaseAssumption
      <4> QED
        BY <1>1, <4>1
    <3> DEFINE q == r
    <3>2. q \in RecIds /\ Hash[q] \in 1..Len(idx)
      BY <1>2, <3>1
    <3> HIDE DEF q
    <3>3. /\ EndOfChain({q}, Hash[q]) \in 1..Len(idx) /\ Visits(idx, q, EndOfChain({q}, Hash[q]))
          /\ \/ idx[EndOfChain({q}, Hash[q])].rec_id = q
             \/ idx[EndOfChain({q}, Hash[q])].next \notin 1..Len(idx)
      BY <1>1, <3>2, EndOfSearch
    <3> QED
      BY <3>3 DEF q
  <2> HIDE DEF p
  <2>3. n \in 1..(Len(idx) + 1) /\ n \in Nat
    BY <1>1, <2>2
  <2>4. OptOK' /\ opt'.si = si /\ opt'.pc = "write" /\ opt'.i = i /\ opt'.pos = n /\ opt'.held = opt.held
    <3> HIDE DEF n
    <3> QED
      BY <1>1, <2>1, <2>3 DEF OptOK, Phases
  <2>5. Single' <=> Single
    BY <2>4, SingleKept
  <2>6. OwnedBy(dat', opt'.si) /\ (Single' => HeldIn(dat', opt'.si, opt'.held))
    BY <1>1, <2>4, <2>5 DEF BusyOK
  <2>7. Single => Built(idx, si, i)
    BY <1>1 DEF BusyOK
  <2>8. CASE free
    <3>1. n = p /\ idx' = idx
      BY <2>1, <2>8
    <3>2. TypeOK' /\ mode' = "closed" /\ pc' = "idle"
      BY <1>1, <3>1, HandleKept
    <3>3. p # Len(idx) + 1
      BY <1>1, <2>2
    <3>4. MoveOK' /\ TableOK'
      BY <1>1, <2>4, <3>1, <3>3 DEF MoveOK, TableOK
    <3>5. WriteOK'
      BY <1>1, <2>2, <2>3, <2>4, <2>8, <3>1 DEF WriteOK
    <3>6. Single' => Built(idx', opt'.si, opt'.i)
      BY <2>4, <2>5, <2>7, <3>1
    <3> QED
      BY <2>4, <2>6, <3>2, <3>4, <3>5, <3>6 DEF BusyOK
  <2>9. CASE ~free
    <3>1. n = Len(idx) + 1 /\ idx' = t
      BY <2>1, <2>9
    <3>2. idx[p].rec_id \notin {NoRec, r} /\ idx[p].next \notin 1..Len(idx)
      BY <2>2, <2>9
    <3>3. /\ idx' \in Seq(Items) /\ Len(idx') = Len(idx)
          /\ Forward(idx') /\ Unlinked(idx') /\ Sound(idx', dat) /\ Ending(idx', Len(idx') + 1)
          /\ Visits(idx', r, Len(idx') + 1)
          /\ \A sj, j : OwnedBy(dat, sj) /\ Built(idx, sj, j) => Built(idx', sj, j)
      <4> DEFINE q == r
                 u == idx'
      <4>1. /\ q \in RecIds /\ Visits(idx, q, p) /\ idx[p].rec_id \notin {NoRec, q}
            /\ u = WriteItem(idx, p, [idx[p] EXCEPT !.next = Len(idx) + 1])
        BY <1>2, <2>2, <3>1, <3>2
      <4> HIDE DEF q, u
      <4>2. LinkedFor(idx, dat, q, u)
        <5>1. idx \in Seq(Items) /\ dat \in Seq(Cells) /\ p \in 1..Len(idx)
          BY <1>1, <2>2
        <5>2. Forward(idx) /\ Unlinked(idx) /\ Sound(idx, dat) /\ Ending(idx, Len(idx))
          BY <1>1
        <5> QED
          BY <3>2, <4>1, <5>1, <5>2, TableLinked, Zenon
      <4> QED
        BY <4>2 DEF q, u, LinkedFor
    <3> HIDE DEF t
    <3>4. TypeOK' /\ mode' = "closed" /\ pc' = "idle"
      BY <1>1, <3>3, HandleKept
    <3>5. MoveOK' /\ TableOK'
      BY <1>1, <2>4, <3>1, <3>3 DEF MoveOK, TableOK
    <3>6. WriteOK'
      <4>1. Len(idx) \in Nat /\ ~(n <= Len(idx)) /\ n \in 1..(Len(idx) + 1)
        BY <1>1, <3>1
      <4> QED
        BY <1>1, <2>4, <3>1, <3>3, <4>1 DEF WriteOK
    <3>7. Single' => Built(idx', opt'.si, opt'.i)
      <4> SUFFICES ASSUME Single' PROVE Built(idx', si, i)
        BY <2>4
      <4>1. Built(idx, si, i)
        BY <2>5, <2>7
      <4> QED
        BY <1>1, <3>3, <4>1
    <3> QED
      BY <2>4, <2>6, <3>4, <3>5, <3>6, <3>7 DEF BusyOK
  <2> QED
    BY <2>8, <2>9
<1> QED
  BY <1>3, <1>4

LEMMA WriteSlotKeeps == OptOK /\ BusyOK /\ WriteSlot => OptOK' /\ BusyOK'
<1> SUFFICES ASSUME OptOK, BusyOK, WriteSlot PROVE OptOK' /\ BusyOK'
  OBVIOUS
<1> DEFINE si == opt.si
           i == opt.i
           it == si[i]
           p == opt.pos
           x == [it EXCEPT !.next = 0]
<1>1. /\ si \in Seq(Items) /\ idx \in Seq(Items) /\ dat \in Seq(Cells) /\ OwnedBy(dat, si)
      /\ opt.pc = "write" /\ i \in Nat /\ i >= 1 /\ i <= Len(si) /\ i \in 1..Len(si)
      /\ dat' = dat /\ UNCHANGED handle
  BY DEF WriteSlot, OptOK, BusyOK, TypeOK, TableOK, WriteOK
<1>2. /\ Len(idx) >= HashPrime /\ Forward(idx) /\ Unlinked(idx) /\ Sound(idx, dat)
      /\ Ending(idx, IF p = Len(idx) + 1 THEN Len(idx) + 1 ELSE Len(idx))
  BY <1>1 DEF BusyOK, TableOK
<1>3. /\ p \in 1..(Len(idx) + 1) /\ Visits(idx, it.rec_id, p)
      /\ p <= Len(idx) => idx[p].rec_id \in {NoRec, it.rec_id}
  BY <1>1 DEF BusyOK, WriteOK
<1>4. it \in Items /\ it.rec_id \in RecIds /\ Owns(dat, it)
  BY <1>1 DEF OwnedBy
<1>5. /\ x \in Items /\ x.next = 0 /\ x.rec_id = it.rec_id
      /\ x.offset = it.offset /\ x.size = it.size
  BY <1>4 DEF Items
<1>6. /\ idx' = WriteItem(idx, p, x)
      /\ opt' = [opt EXCEPT !.pc = "seek", !.i = i + 1]
  BY Zenon DEF WriteSlot
<1>7. OptOK' /\ opt'.si = si /\ opt'.pc = "seek" /\ opt'.i = i + 1 /\ opt'.held = opt.held
  <2>1. i + 1 \in Nat
    BY <1>1
  <2> HIDE DEF x
  <2> QED
    BY <1>1, <1>6, <2>1 DEF OptOK, Phases
<1> HIDE DEF x
<1>8. Single' <=> Single
  BY <1>7, SingleKept
<1>9. Owns(dat, x)
  BY <1>4, <1>5 DEF Owns, Extent
<1>10. WrittenAt(idx, dat, p, x, idx')
  BY <1>1, <1>2, <1>3, <1>4, <1>5, <1>6, <1>9, TableWritten
<1>11. TypeOK' /\ mode' = "closed" /\ pc' = "idle"
  <2>1. idx' \in Seq(Items)
    BY <1>10 DEF WrittenAt
  <2> QED
    BY <1>1, <2>1, HandleKept
<1>12. MoveOK' /\ TableOK' /\ WriteOK'
  <2>1. i + 1 >= 1
    BY <1>1
  <2>2. /\ idx' \in Seq(Items) /\ Len(idx') >= Len(idx) /\ Len(idx) >= HashPrime
        /\ Len(idx') \in Nat /\ Len(idx) \in Nat /\ HashPrime \in Nat
    BY <1>1, <1>2, <1>10, BaseAssumption DEF WrittenAt
  <2>3. Len(idx') >= HashPrime
    BY <2>2
  <2> QED
    BY <1>1, <1>7, <1>10, <2>1, <2>3 DEF MoveOK, TableOK, WriteOK, WrittenAt
<1>13. OwnedBy(dat', opt'.si) /\ (Single' => HeldIn(dat', opt'.si, opt'.held))
  BY <1>1, <1>7, <1>8 DEF BusyOK
<1>14. Single' => Built(idx', opt'.si, opt'.i)
  <2> SUFFICES ASSUME Single PROVE Built(idx', si, i + 1)
    BY <1>7, <1>8
  <2>1. Built(idx, si, i)
    BY <1>1 DEF BusyOK
  <2>2. \A k \in 1..Len(si) : si[k].rec_id = it.rec_id => k = i
    BY <1>1 DEF Single, OneSlotEach
  <2>3. p \in Nat /\ p >= 1
    BY <1>1, <1>3
  <2> QED
    BY <1>1, <1>2, <1>3, <1>5, <1>6, <1>10, <2>1, <2>2, <2>3, BuiltWritten
<1> QED
  BY <1>7, <1>11, <1>12, <1>13, <1>14 DEF BusyOK
-----------------------------------------------------------------------------
(* A round ends, and a round begins. *)

LEMMA RestingIs ==
    /\ Resting.pc = "none" /\ Resting.si = <<>> /\ Resting.i = 0 /\ Resting.pos = 0
    /\ Resting.error_cnt = 0 /\ Resting.held = <<>> /\ Resting.died = FALSE
    /\ Resting \in [pc : Phases, si : Seq(Items), i : Nat, pos : Nat, error_cnt : Nat,
                     held : [RecIds -> Seq(Cells)] \cup {<<>>}, died : BOOLEAN]
    /\ \A c \in Phases, n \in Nat, b \in BOOLEAN :
          [Resting EXCEPT !.pc = c, !.error_cnt = n, !.died = b] \in
              [pc : Phases, si : Seq(Items), i : Nat, pos : Nat, error_cnt : Nat,
               held : [RecIds -> Seq(Cells)] \cup {<<>>}, died : BOOLEAN]
    /\ \A b \in BOOLEAN :
          /\ [Resting EXCEPT !.died = b].pc = "none"
          /\ [Resting EXCEPT !.died = b] \in
                 [pc : Phases, si : Seq(Items), i : Nat, pos : Nat, error_cnt : Nat,
                  held : [RecIds -> Seq(Cells)] \cup {<<>>}, died : BOOLEAN]
<1>1. <<>> \in Seq(Items) /\ 0 \in Nat /\ "none" \in Phases
  BY DEF Phases
<1> QED
  BY <1>1 DEF Resting

LEMMA FinishKeeps ==
    ASSUME OptOK, BusyOK, Finish
    PROVE  OptOK' /\ IInv' /\ opt'.pc \in {"none", "again"} /\ opt'.died = opt.died
<1>1. /\ TypeOK /\ pc = "idle" /\ opt.pc = "seek" /\ Sound(idx, dat)
      /\ UNCHANGED <<files, handle>>
  BY DEF Finish, BusyOK, TableOK
<1>2. TypeOK' /\ OwnData' /\ pc' = "idle"
  BY <1>1 DEF files, handle, cursor, TypeOK, OwnData, Sound, Owns, Extent
<1>3. IInv'
  BY <1>2 DEF IInv, CallOK, WalkOK, DataOK, IndexOK
<1>4. opt.died \in BOOLEAN /\ opt.error_cnt \in Nat
  BY DEF OptOK
<1>5. OptOK' /\ opt'.pc \in {"none", "again"} /\ opt'.died = opt.died
  <2> DEFINE c == IF opt.error_cnt > 0 THEN "again" ELSE "none"
  <2>1. c \in Phases /\ c \in {"none", "again"}
    BY DEF Phases
  <2>2. opt' = [Resting EXCEPT !.pc = c, !.error_cnt = opt.error_cnt, !.died = opt.died]
    BY DEF Finish, Resting
  <2> HIDE DEF c
  <2>3. OptOK'
    BY <1>4, <2>1, <2>2, RestingIs DEF OptOK
  <2>4. opt'.pc = c /\ opt'.died = opt.died
    BY <2>2 DEF Resting
  <2> QED
    BY <2>1, <2>3, <2>4
<1> QED
  BY <1>3, <1>5

\* When the last slot is written, every record found before is found again.
LEMMA FinishKeepsRecords ==
    ASSUME OptOK, BusyOK, Finish, Single, NEW r \in RecIds
    PROVE  KeptRecord(r)
<1>1. /\ idx \in Seq(Items) /\ dat \in Seq(Cells) /\ opt.si \in Seq(Items) /\ opt.i \in Nat
      /\ opt.pc = "seek" /\ opt.i > Len(opt.si)
      /\ Forward(idx) /\ Sound(idx, dat) /\ Built(idx, opt.si, opt.i) /\ HeldIn(dat, opt.si, opt.held)
      /\ idx' = idx /\ dat' = dat
  BY DEF Finish, BusyOK, TypeOK, TableOK, OptOK, files
<1> SUFFICES ASSUME opt.held[r] # <<>> PROVE Found(r)' /\ Lookup(r)' = opt.held[r]
  BY DEF KeptRecord
<1>2. PICK k \in 1..Len(opt.si) : /\ opt.si[k].rec_id = r /\ opt.si[k].size > 0
                                  /\ Contents(opt.si[k], dat) = opt.held[r]
  BY <1>1 DEF HeldIn
<1>3. Placed(idx, opt.si[k])
  BY <1>1, <1>2 DEF Built
<1>4. PICK p \in 1..Len(idx) : /\ idx[p].rec_id = r /\ Visits(idx, r, p)
                               /\ idx[p].offset = opt.si[k].offset /\ idx[p].size = opt.si[k].size
  BY <1>2, <1>3 DEF Placed
<1>5. FoundIn(idx, dat, r) /\ LookupIn(idx, dat, r) = Contents(idx[p], dat)
  BY <1>1, <1>4, FoundThere
<1>6. Contents(idx[p], dat) = opt.held[r]
  BY <1>2, <1>4 DEF Contents
<1> QED
  BY <1>1, <1>5, <1>6, FilesNext

\* The first chain is repaired; every slot has its data still.
LEMMA OpenedKeeps ==
    ASSUME TypeOK, OwnData, idx' = Opened, dat' = dat
    PROVE  idx' \in Seq(Items) /\ OwnData'
<1>0. idx \in Seq(Items)
  BY DEF TypeOK
<1>1. CASE idx' = idx
  BY <1>0, <1>1 DEF OwnData, Owns, Extent
<1>2. CASE idx' # idx
  <2> DEFINE p == EndOfChain({}, 1)
             x == [idx[p] EXCEPT !.next = 0]
  <2>1. idx # <<>> /\ idx' = WriteItem(idx, p, x)
    <3> HIDE DEF p
    <3> QED
      BY <1>2 DEF Opened, p
  <2>2. p \in 1..Len(idx)
    <3>1. 1 \in 1..Len(idx)
      BY <1>0, <2>1
    <3> QED
      BY <1>0, <3>1, EndInFile
  <2> HIDE DEF p
  <2>3. idx[p] \in Items /\ p \in Nat
    BY <1>0, <2>2
  <2>4. x \in Items /\ (x.rec_id # NoRec => Owns(dat, x))
    <3>1. idx[p].rec_id # NoRec => Owns(dat, idx[p])
      BY <2>2 DEF OwnData
    <3> QED
      BY <2>3, <3>1, Relinked
  <2> HIDE DEF x
  <2> QED
    BY <1>0, <2>1, <2>3, <2>4, WriteItemKeeps
<1> QED
  BY <1>1, <1>2

LEMMA HeldType ==
    ASSUME idx \in Seq(Items), dat \in Seq(Cells)
    PROVE  Held \in [RecIds -> Seq(Cells)]
<1> SUFFICES ASSUME NEW r \in RecIds, Found(r) PROVE Lookup(r) \in Seq(Cells)
  <2>1. <<>> \in Seq(Cells)
    OBVIOUS
  <2> QED
    BY <2>1, Zenon DEF Held
<1> DEFINE it == idx[SlotAt(r)[Len(idx) + 1]]
<1>1. it \in Items /\ it.offset + it.size <= Len(dat)
  BY DEF Found, Readable
<1>2. Lookup(r) = [k \in 1..it.size |-> dat[it.offset + k]]
  BY Zenon DEF Lookup, Content
<1> HIDE DEF it
<1>3. it.offset \in Nat /\ it.size \in Nat /\ Len(dat) \in Nat
  BY <1>1 DEF Items
<1>4. \A k \in 1..it.size : dat[it.offset + k] \in Cells
  <2>1. \A k \in 1..it.size : it.offset + k \in 1..Len(dat)
    BY <1>1, <1>3
  <2> QED
    BY <2>1
<1> DEFINE n == it.size
           b == [k \in 1..n |-> dat[it.offset + k]]
<1>5. n \in Nat /\ \A k \in 1..n : dat[it.offset + k] \in Cells
  BY <1>3, <1>4
<1>6. b \in Seq(Cells)
  <2> HIDE DEF n
  <2> QED
    BY <1>5
<1> QED
  BY <1>2, <1>6

LEMMA RoundKeeps ==
    ASSUME OptOK, IInv, NEW e \in Nat, Round(e)
    PROVE  OptOK' /\ IF Between' THEN IInv' ELSE BusyOK'
<1>1. /\ TypeOK /\ OwnData /\ pc = "idle" /\ mode = "closed" /\ idx \in Seq(Items) /\ dat \in Seq(Cells)
      /\ idx' = Opened /\ dat' = dat /\ UNCHANGED handle
  BY DEF Round, IInv, TypeOK
<1>2. idx' \in Seq(Items) /\ OwnData'
  BY <1>1, OpenedKeeps
<1>3. TypeOK' /\ mode' = "closed" /\ pc' = "idle"
  <2>1. UNCHANGED <<mode, op, pc, via, Item, CurrentItemPos, mishash, ret>>
    BY <1>1 DEF handle, cursor
  <2> QED
    BY <1>1, <1>2, <2>1, Zenon DEF TypeOK
<1>4. CASE Worthwhile
  <2>1. PICK o \in Sorted :
           opt' = [opt EXCEPT !.pc = "move", !.si = Picked(o), !.i = 1, !.error_cnt = e, !.held = Held]
    BY <1>4, Zenon DEF Round, Picked
  <2>a. PICK s : s = Picked(o)
    OBVIOUS
  <2>2. /\ s \in Seq(Items)
        /\ \A k \in 1..Len(s) : \E p \in Slots : s[k] = idx[p]
        /\ \A j, k \in 1..Len(s) : j < k => s[j].offset <= s[k].offset
    BY <1>1, <2>a, SortedIs
  <2>3. (\E q, r \in RecIds : q # r /\ Held[q] # <<>> /\ Held[r] # <<>>) => HeldIn(dat, s, Held)
    BY <1>1, <2>a, RoundHolds
  <2>4. Held \in [RecIds -> Seq(Cells)]
    BY <1>1, HeldType
  <2> DEFINE h == Held
  <2>5. OptOK' /\ opt'.pc = "move" /\ opt'.si = s /\ opt'.i = 1 /\ opt'.held = h
    <3>1. h \in [RecIds -> Seq(Cells)] /\ opt' = [opt EXCEPT !.pc = "move", !.si = s, !.i = 1, !.error_cnt = e, !.held = h]
      BY <2>1, <2>4, <2>a
    <3> HIDE DEF h
    <3> QED
      BY <2>2, <3>1 DEF OptOK, Phases
  <2>6. \A k \in 1..Len(s) : s[k] \in Items /\ s[k].offset \in Nat /\ s[k].rec_id \in RecIds /\ s[k].size > 0 /\ Owns(dat, s[k])
    <3> SUFFICES ASSUME NEW k \in 1..Len(s)
                 PROVE  s[k] \in Items /\ s[k].offset \in Nat /\ s[k].rec_id \in RecIds /\ s[k].size > 0 /\ Owns(dat, s[k])
      OBVIOUS
    <3>1. PICK p \in Slots : s[k] = idx[p]
      BY <2>2
    <3>2. p \in 1..Len(idx) /\ idx[p] \in Items /\ idx[p].rec_id \in RecIds /\ idx[p].size > 0
      BY <1>1, SlotsAre
    <3>3. Owns(dat, idx[p])
      BY <1>1, <3>2, BaseAssumption DEF OwnData
    <3> QED
      BY <3>1, <3>2, <3>3 DEF Items
  <2>7. OwnedBy(dat', opt'.si)
    BY <1>1, <2>5, <2>6 DEF OwnedBy
  <2>8. Single' => HeldIn(dat', opt'.si, opt'.held)
    <3> SUFFICES ASSUME Several' PROVE HeldIn(dat, s, h)
      BY <1>1, <2>5 DEF Single
    <3>1. \E q, r \in RecIds : q # r /\ h[q] # <<>> /\ h[r] # <<>>
      <4> HIDE DEF h
      <4> QED
        BY <2>5 DEF Several
    <3> QED
      BY <2>3, <3>1
  <2>9. Ahead(s, 1)
    BY <2>2, <2>6, SMTT(30) DEF Ahead, Behind
  <2>10. MoveOK' /\ TableOK' /\ WriteOK'
    BY <2>5, <2>9 DEF MoveOK, TableOK, WriteOK
  <2>11. BusyOK'
    BY <1>3, <2>5, <2>7, <2>8, <2>10 DEF BusyOK
  <2> QED
    BY <2>5, <2>11 DEF Between
<1>5. CASE ~Worthwhile
  <2>1. opt' = [Resting EXCEPT !.died = opt.died] /\ opt.died \in BOOLEAN
    BY <1>5 DEF Round, OptOK
  <2>2. OptOK' /\ opt'.pc = "none"
    BY <2>1, RestingIs DEF OptOK
  <2>3. IInv'
    BY <1>2, <1>3 DEF IInv, CallOK, WalkOK, DataOK, IndexOK
  <2> QED
    BY <2>2, <2>3 DEF Between
<1> QED
  BY <1>4, <1>5
-----------------------------------------------------------------------------
(* The theorem. *)

\* A file in which it died stays one.
LEMMA NoRevival ==
    ASSUME "died" \in DOMAIN opt, OptimizeNext
    PROVE  "died" \in DOMAIN opt' /\ opt'.died \in {opt.died, TRUE}
<1>1. CASE opt' = opt
  BY <1>1
<1>2. ASSUME NEW e, Round(e) PROVE "died" \in DOMAIN opt' /\ opt'.died \in {opt.died, TRUE}
  <2>1. CASE \E s, h : opt' = [opt EXCEPT !.pc = "move", !.si = s, !.i = 1, !.error_cnt = e, !.held = h]
    <3>1. PICK s, h : opt' = [opt EXCEPT !.pc = "move", !.si = s, !.i = 1, !.error_cnt = e, !.held = h]
      BY <2>1
    <3> QED
      BY <3>1
  <2>2. CASE opt' = [Resting EXCEPT !.died = opt.died]
    BY <2>2 DEF Resting
  <2>3. \/ \E s, h : opt' = [opt EXCEPT !.pc = "move", !.si = s, !.i = 1, !.error_cnt = e, !.held = h]
        \/ opt' = [Resting EXCEPT !.died = opt.died]
    BY <1>2, Zenon DEF Round
  <2> QED
    BY <2>1, <2>2, <2>3
<1>3. CASE Move
  <2> DEFINE x == [opt.si[opt.i] EXCEPT !.offset = Place(opt.i), !.size = Fitting(opt.i)]
             n == IF Fitting(opt.i) = opt.si[opt.i].size THEN opt.error_cnt ELSE 1
  <2>1. opt' = [opt EXCEPT !.si[opt.i] = x, !.i = @ + 1, !.error_cnt = n]
    BY <1>3, Zenon DEF Move
  <2> HIDE DEF x, n
  <2> QED
    BY <2>1
<1>4. CASE CutData \/ CutIndex \/ WriteHeads
  BY <1>4 DEF CutData, CutIndex, WriteHeads
<1>5. CASE Seek
  <2>1. \/ opt' = [opt EXCEPT !.i = @ + 1]
        \/ \E p : opt' = [opt EXCEPT !.pc = "write", !.pos = p]
    BY <1>5, Zenon DEF Seek
  <2> QED
    BY <2>1
<1>6. CASE WriteSlot
  BY <1>6 DEF WriteSlot
<1>7. CASE Finish \/ Die
  BY <1>7 DEF Finish, Die, Resting
<1> QED
  BY <1>1, <1>2, <1>3, <1>4, <1>5, <1>6, <1>7 DEF OptimizeNext, Begin, Again

\* Until it finishes a round it is in it.
LEMMA StaysBusy ==
    ASSUME OptOK, Move \/ CutData \/ CutIndex \/ WriteHeads \/ Seek \/ WriteSlot
    PROVE  opt'.pc \notin {"none", "again"}
<1>1. CASE Move
  <2> DEFINE x == [opt.si[opt.i] EXCEPT !.offset = Place(opt.i), !.size = Fitting(opt.i)]
             n == IF Fitting(opt.i) = opt.si[opt.i].size THEN opt.error_cnt ELSE 1
  <2>1. opt.pc = "move" /\ opt' = [opt EXCEPT !.si[opt.i] = x, !.i = @ + 1, !.error_cnt = n]
    BY <1>1, Zenon DEF Move
  <2> HIDE DEF x, n
  <2> QED
    BY <2>1 DEF OptOK
<1>2. CASE Seek
  <2>1. \/ opt.pc = "seek" /\ opt' = [opt EXCEPT !.i = @ + 1]
        \/ \E p : opt' = [opt EXCEPT !.pc = "write", !.pos = p]
    BY <1>2, Zenon DEF Seek
  <2> QED
    BY <2>1 DEF OptOK
<1>3. CASE CutData \/ CutIndex \/ WriteHeads \/ WriteSlot
  BY <1>3 DEF CutData, CutIndex, WriteHeads, WriteSlot, OptOK
<1> QED
  BY <1>1, <1>2, <1>3

LEMMA OptimizeInitOInv == OptimizeInit => OInv
<1> SUFFICES ASSUME OptimizeInit PROVE OInv
  OBVIOUS
<1>1. IInv /\ opt = Resting
  BY InitIInv DEF OptimizeInit
<1>2. "died" \in DOMAIN opt /\ opt.died \in BOOLEAN /\ opt.pc = "none"
  BY <1>1 DEF Resting
<1>3. OptOK
  BY <1>1, RestingIs DEF OptOK
<1> QED
  BY <1>1, <1>2, <1>3 DEF OInv, Between

\* Every step keeps the invariant: one step of the proof for each action.
LEMMA OptimizeNextOInv == OInv /\ [OptimizeNext]_optvars => OInv'
<1>1. ASSUME OInv, UNCHANGED optvars PROVE OInv'
  BY <1>1 DEF OInv, optvars, vars, OptOK, Between, IInv, TypeOK, OwnData, CallOK, WalkOK, DataOK, IndexOK,
             BusyOK, Single, Several, OneSlotEach, MoveOK, TableOK, WriteOK
<1>2. ASSUME OInv, OptimizeNext PROVE OInv'
  <2>1. "died" \in DOMAIN opt' /\ opt'.died \in BOOLEAN /\ opt'.died \in {opt.died, TRUE}
    BY <1>2, NoRevival DEF OInv
  <2> SUFFICES ASSUME ~opt'.died PROVE OptOK' /\ IF Between' THEN IInv' ELSE BusyOK'
    BY <2>1 DEF OInv
  <2>2. ~opt.died
    BY <2>1
  <2>3. OptOK /\ IF Between THEN IInv ELSE BusyOK
    BY <1>2, <2>2 DEF OInv
  <2>4. CASE opt.pc \in {"none", "again"} /\ Next /\ UNCHANGED opt
    <3>1. IInv
      BY <2>3, <2>4 DEF Between
    <3>2. IInv'
      BY <2>4, <3>1, NextIInv
    <3> QED
      BY <2>3, <2>4, <3>2 DEF OptOK, Between
  <2>5. CASE Begin \/ Again
    <3>1. IInv /\ Round(0)
      BY <2>3, <2>5 DEF Begin, Again, Between
    <3> QED
      BY <2>3, <3>1, RoundKeeps
  <2>6. CASE Move \/ CutData \/ CutIndex \/ WriteHeads \/ Seek \/ WriteSlot
    <3>1. BusyOK
      BY <2>3, <2>6 DEF Move, CutData, CutIndex, WriteHeads, Seek, WriteSlot, Between
    <3>2. OptOK' /\ BusyOK'
      BY <2>3, <2>6, <3>1, MoveKeeps, CutDataKeeps, CutIndexKeeps, WriteHeadsKeeps, SeekKeeps, WriteSlotKeeps
    <3>3. ~Between'
      BY <2>3, <2>6, StaysBusy DEF Between
    <3> QED
      BY <3>2, <3>3
  <2>7. CASE Finish
    <3>1. BusyOK
      BY <2>3, <2>7 DEF Finish, Between
    <3> QED
      BY <2>3, <2>7, <3>1, FinishKeeps DEF Between
  <2>8. CASE Die
    <3>1. opt'.died
      BY <2>8 DEF Die, Resting
    <3> QED
      BY <3>1
  <2> QED
    BY <1>2, <2>4, <2>5, <2>6, <2>7, <2>8 DEF OptimizeNext
<1> QED
  BY <1>1, <1>2

\* RecordsKept: a round of DpsBaseOptimize that comes to its end leaves every
\* record that a search found before with the buffer it had, when there are two
\* or more of them and no record has two slots.
THEOREM RecordsAreKept == OptimizeSpec => RecordsKept
<1>1. ASSUME OInv, [OptimizeNext]_optvars
      PROVE  [Optimized /\ Several /\ OneSlotEach => \A r \in RecIds : KeptRecord(r)]_optvars
  <2> SUFFICES ASSUME OptimizeNext, Optimized, Several, OneSlotEach, NEW r \in RecIds PROVE KeptRecord(r)
    <3>1. UNCHANGED optvars => ~Optimized
      BY DEF optvars, Optimized
    <3> QED
      BY <1>1, <3>1
  <2>1. opt.pc = "seek" /\ opt'.pc \in {"none", "again"} /\ ~opt'.died
    BY DEF Optimized
  <2>2. ~opt.died
    BY <1>1, <2>1, NoRevival DEF OInv
  <2>3. OptOK /\ BusyOK
    BY <1>1, <2>1, <2>2 DEF OInv, Between
  <2>4. Finish
    <3>1. ~Die
      BY <2>1 DEF Die, Resting
    <3>2. ~(Move \/ CutData \/ CutIndex \/ WriteHeads \/ Seek \/ WriteSlot)
      BY <2>1, <2>3, StaysBusy
    <3> QED
      BY <2>1, <3>1, <3>2 DEF OptimizeNext, Begin, Again
  <2> QED
    BY <2>3, <2>4, FinishKeepsRecords DEF Single
<1> QED
  BY <1>1, OptimizeInitOInv, OptimizeNextOInv, PTL DEF OptimizeSpec, RecordsKept
\* In a file where it never died every slot in use has data of its own (OwnData)
\* whenever no round is going on: before its rounds, between them and after
\* them, whatever calls and failures of calls come in between.
THEOREM NoForeignDataBeside == OptimizeSpec => [](Between /\ ~opt.died => OwnData)
<1>1. OInv => (Between /\ ~opt.died => OwnData)
  BY DEF OInv, IInv
<1> QED
  BY <1>1, OptimizeInitOInv, OptimizeNextOInv, PTL DEF OptimizeSpec
=============================================================================
