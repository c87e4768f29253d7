--------------------------- MODULE LogWordsProofs ---------------------------
(***************************************************************************)
(* What the algorithms of LogWords return, for every buffer and every      *)
(* record: words of the buffer, postings of its words and of the record,   *)
(* these in the order of the wrd files, and which of them, each how often. *)
(*                                                                         *)
(* Walk, RemoveOldCrds and Merge are recursive functions.  That there is   *)
(* such a function, and what it returns, is shown by induction on its      *)
(* argument, which is had from the sets of numbers that have a least       *)
(* element.                                                                *)
(***************************************************************************)
EXTENDS LogWords, FiniteSetTheorems, SequenceTheorems, WellFoundedInduction, TLAPS

-----------------------------------------------------------------------------
(* Natural numbers and sequences. *)

Before == {ss \in Nat \X Nat : ss[1] < ss[2]}

\* A set of numbers with a member has a least one.
LEMMA Least ==
    ASSUME NEW T, T \subseteq Nat, T # {}
    PROVE  \E x \in T : \A y \in T : x <= y
<1>1. IsWellFoundedOn(Before, Nat)
  BY NatLessThanWellFounded DEF Before, OpToRel
<1>2. PICK x \in T : \A y \in T : <<y, x>> \notin Before
  BY <1>1, WFMin
<1>3. ASSUME NEW y \in T PROVE x <= y
  <2>1. x \in Nat /\ y \in Nat /\ <<y, x>> \notin Before
    BY <1>2
  <2>2. ~(<<y, x>>[1] < <<y, x>>[2])
    BY <2>1, Zenon DEF Before
  <2> QED
    BY <2>1, <2>2
<1> QED
  BY <1>3

\* A set of numbers with 0 and the successor of every member has all numbers.
LEMMA Induct ==
    ASSUME NEW S, 0 \in S, \A n \in Nat : n \in S => n + 1 \in S
    PROVE  \A n \in Nat : n \in S
<1> DEFINE T == {n \in Nat : n \notin S}
<1> SUFFICES ASSUME T # {} PROVE FALSE
  OBVIOUS
<1>1. PICK x \in T : \A y \in T : x <= y
  <2>1. T \subseteq Nat
    OBVIOUS
  <2> HIDE DEF T
  <2> QED
    BY <2>1, Least
<1>2. x \in Nat /\ x # 0 /\ x \notin S
  OBVIOUS
<1>3. x - 1 \in Nat /\ x - 1 \in S
  BY <1>1, <1>2
<1> QED
  BY <1>2, <1>3

LEMMA FunctionIsSeq ==
    ASSUME NEW n \in Nat, NEW R, NEW f \in [1..n -> R]
    PROVE  f \in Seq(R) /\ Len(f) = n
<1>1. f \in Seq(R)
  BY SeqDef
<1> QED
  BY <1>1, LenProperties

-----------------------------------------------------------------------------
(* Ranks. *)

\* The indices that ahead has a set for are in an order of their own.
Ranks(ahead) ==
    LET S == DOMAIN ahead IN
    /\ IsFiniteSet(S)
    /\ ahead \in [S -> SUBSET S]
    /\ \A i \in S : i \notin ahead[i]
    /\ \A i, j \in S : i = j \/ i \in ahead[j] \/ j \in ahead[i]
    /\ \A i, j \in S : j \in ahead[i] => ahead[j] \subseteq ahead[i]

At(ahead, k) == CHOOSE i \in DOMAIN ahead : Cardinality(ahead[i]) = k - 1

\* More indices are ahead of the later one.
LEMMA MoreAhead ==
    ASSUME NEW ahead, Ranks(ahead), NEW i \in DOMAIN ahead, NEW j \in DOMAIN ahead, i \in ahead[j]
    PROVE  /\ Cardinality(ahead[i]) \in Nat /\ Cardinality(ahead[j]) \in Nat
           /\ Cardinality(ahead[i]) < Cardinality(ahead[j])
<1>1. IsFiniteSet(ahead[j]) /\ IsFiniteSet(ahead[i])
  BY FS_Subset DEF Ranks
<1>2. ahead[i] \in SUBSET ahead[j] /\ ahead[i] # ahead[j]
  BY DEF Ranks
<1>3. Cardinality(ahead[i]) <= Cardinality(ahead[j]) /\ Cardinality(ahead[i]) # Cardinality(ahead[j])
  BY <1>1, <1>2, FS_Subset
<1>4. Cardinality(ahead[i]) \in Nat /\ Cardinality(ahead[j]) \in Nat
  BY <1>1, FS_CardinalityType
<1> QED
  BY <1>3, <1>4

LEMMA Ranked ==
    ASSUME NEW ahead, Ranks(ahead)
    PROVE  LET n == Cardinality(DOMAIN ahead) IN
           /\ n \in Nat
           /\ \A k \in 1..n : At(ahead, k) \in DOMAIN ahead /\ Cardinality(ahead[At(ahead, k)]) = k - 1
           /\ \A k, l \in 1..n : k < l => At(ahead, k) \in ahead[At(ahead, l)]
<1> DEFINE S == DOMAIN ahead
           n == Cardinality(S)
           rank == [i \in S |-> Cardinality(ahead[i])]
<1>1. IsFiniteSet(S) /\ n \in Nat
  BY FS_CardinalityType DEF Ranks
<1>2. ASSUME NEW i \in S PROVE rank[i] \in 0..(n - 1)
  <2>1. ahead[i] \in SUBSET S /\ ahead[i] # S
    BY DEF Ranks
  <2>2. IsFiniteSet(ahead[i]) /\ Cardinality(ahead[i]) <= n /\ Cardinality(ahead[i]) # n
    BY <1>1, <2>1, FS_Subset
  <2>3. Cardinality(ahead[i]) \in Nat
    BY <2>2, FS_CardinalityType
  <2> QED
    BY <1>1, <2>2, <2>3
<1>3. ASSUME NEW i \in S, NEW j \in S, i # j PROVE rank[i] # rank[j]
  <2>1. i \in ahead[j] \/ j \in ahead[i]
    BY <1>3 DEF Ranks
  <2> QED
    BY <2>1, MoreAhead
<1>4. rank \in Injection(S, 0..(n - 1))
  <2>1. rank \in [S -> 0..(n - 1)]
    BY <1>2
  <2> HIDE DEF rank
  <2> QED
    BY <1>3, <2>1 DEF Injection, IsInjective
<1>5. IsFiniteSet(0..(n - 1)) /\ Cardinality(0..(n - 1)) = n
  BY <1>1, FS_Interval
<1>6. rank \in Surjection(S, 0..(n - 1))
  BY <1>4, <1>5, FS_Injection
<1>7. ASSUME NEW k \in 1..n
      PROVE  At(ahead, k) \in S /\ Cardinality(ahead[At(ahead, k)]) = k - 1
  <2>1. k - 1 \in 0..(n - 1)
    BY <1>1
  <2>2. PICK i \in S : rank[i] = k - 1
    BY <1>6, <2>1 DEF Surjection
  <2>3. \E j \in DOMAIN ahead : Cardinality(ahead[j]) = k - 1
    BY <2>2
  <2> QED
    BY <2>3 DEF At
<1>8. ASSUME NEW k \in 1..n, NEW l \in 1..n, k < l
      PROVE  At(ahead, k) \in ahead[At(ahead, l)]
  <2> DEFINE i == At(ahead, k)
             j == At(ahead, l)
  <2>1. i \in S /\ j \in S /\ Cardinality(ahead[i]) = k - 1 /\ Cardinality(ahead[j]) = l - 1
    BY <1>7
  <2>2. i # j
    BY <1>1, <1>8, <2>1
  <2>3. CASE j \in ahead[i]
    <3> HIDE DEF i, j
    <3>1. Cardinality(ahead[j]) < Cardinality(ahead[i])
      BY <2>1, <2>3, MoreAhead
    <3> QED
      BY <1>1, <1>8, <2>1, <3>1
  <2> QED
    BY <2>1, <2>2, <2>3 DEF Ranks
<1> QED
  BY <1>1, <1>7, <1>8

\* InOrder returns elements of its argument, each index once.
LEMMA Ordered ==
    ASSUME NEW R, NEW s \in Seq(R), NEW ahead, Ranks(ahead), DOMAIN ahead \subseteq DOMAIN s
    PROVE  LET n == Cardinality(DOMAIN ahead)
               t == InOrder(s, ahead)
           IN  /\ t \in Seq(R) /\ Len(t) = n
               /\ \A k \in 1..n : At(ahead, k) \in DOMAIN ahead /\ t[k] = s[At(ahead, k)]
               /\ \A k, l \in 1..n : k < l => At(ahead, k) \in ahead[At(ahead, l)]
<1> DEFINE n == Cardinality(DOMAIN ahead)
           t == InOrder(s, ahead)
<1>1. n \in Nat /\ t = [k \in 1..n |-> s[At(ahead, k)]]
  BY Ranked DEF InOrder, At
<1>2. \A k \in 1..n : At(ahead, k) \in DOMAIN s
  BY Ranked
<1>3. \A i \in DOMAIN s : s[i] \in R
  BY LenProperties, ElementOfSeq
<1>4. t \in [1..n -> R]
  <2> HIDE DEF t, n
  <2> QED
    BY <1>1, <1>2, <1>3
<1>5. t \in Seq(R) /\ Len(t) = n
  BY <1>1, <1>4, FunctionIsSeq
<1> QED
  BY <1>1, <1>5, Ranked

\* Every index has its place.
LEMMA AllRanked ==
    ASSUME NEW ahead, Ranks(ahead), NEW i \in DOMAIN ahead
    PROVE  \E k \in 1..Cardinality(DOMAIN ahead) : At(ahead, k) = i
<1> DEFINE n == Cardinality(DOMAIN ahead)
           c == Cardinality(ahead[i])
<1>1. n \in Nat /\ c \in Nat /\ c < n
  <2>1. IsFiniteSet(DOMAIN ahead) /\ ahead[i] \in SUBSET DOMAIN ahead /\ ahead[i] # DOMAIN ahead
    BY DEF Ranks
  <2>2. IsFiniteSet(ahead[i]) /\ c <= n /\ c # n
    BY <2>1, FS_Subset
  <2>3. n \in Nat /\ c \in Nat
    BY <2>1, <2>2, FS_CardinalityType
  <2> QED
    BY <2>2, <2>3
<1> DEFINE j == At(ahead, c + 1)
<1>2. c + 1 \in 1..n
  BY <1>1
<1>3. j \in DOMAIN ahead /\ Cardinality(ahead[j]) = c
  <2>1. j \in DOMAIN ahead /\ Cardinality(ahead[j]) = (c + 1) - 1
    BY <1>2, Ranked
  <2> HIDE DEF j
  <2> QED
    BY <1>1, <2>1
<1> HIDE DEF j
<1>4. i = j
  <2>1. i = j \/ i \in ahead[j] \/ j \in ahead[i]
    BY <1>3 DEF Ranks
  <2>2. i \notin ahead[j] /\ j \notin ahead[i]
    BY <1>1, <1>3, MoreAhead
  <2> QED
    BY <2>1, <2>2
<1> QED
  BY <1>2, <1>4 DEF j

-----------------------------------------------------------------------------
(* Selections. *)

\* The elements of t are those of s at the indices of S, one for each.
SelectedBy(h, t, s, S) ==
    /\ \A k \in DOMAIN t : h[k] \in S /\ t[k] = s[h[k]]
    /\ \A i \in S : \E k \in DOMAIN t : h[k] = i
    /\ \A k, l \in DOMAIN t : h[k] = h[l] => k = l

Selects(t, s, S) == \E h : SelectedBy(h, t, s, S)

\* A sequence is a selection of itself.
LEMMA SelectsAll ==
    ASSUME NEW s
    PROVE  Selects(s, s, DOMAIN s)
<1> DEFINE h == [k \in DOMAIN s |-> k]
<1>1. SelectedBy(h, s, s, DOMAIN s)
  BY DEF SelectedBy
<1> QED
  BY <1>1 DEF Selects

\* InOrder selects.
LEMMA OrderedSelects ==
    ASSUME NEW R, NEW s \in Seq(R), NEW ahead, Ranks(ahead), DOMAIN ahead \subseteq DOMAIN s
    PROVE  Selects(InOrder(s, ahead), s, DOMAIN ahead)
<1> DEFINE n == Cardinality(DOMAIN ahead)
           t == InOrder(s, ahead)
           h == [k \in 1..n |-> At(ahead, k)]
<1>1. /\ t \in Seq(R) /\ Len(t) = n
      /\ \A k \in 1..n : At(ahead, k) \in DOMAIN ahead /\ t[k] = s[At(ahead, k)]
      /\ \A k, l \in 1..n : k < l => At(ahead, k) \in ahead[At(ahead, l)]
  BY Ordered
<1>2. DOMAIN t = 1..n /\ n \in Nat
  <2> HIDE DEF t, n
  <2> QED
    BY <1>1, LenProperties
<1> HIDE DEF t, n
<1>3. \A i \in DOMAIN ahead : i \notin ahead[i]
  BY DEF Ranks
<1>4. \A k \in 1..n : h[k] = At(ahead, k)
  OBVIOUS
<1> HIDE DEF h
<1>5. ASSUME NEW k \in 1..n, NEW l \in 1..n, h[k] = h[l] PROVE k = l
  <2>1. ~(k < l) /\ ~(l < k)
    BY <1>1, <1>3, <1>4, <1>5
  <2> QED
    BY <1>2, <2>1
<1>6. \A i \in DOMAIN ahead : \E k \in 1..n : h[k] = i
  BY <1>4, AllRanked DEF n
<1>7. SelectedBy(h, t, s, DOMAIN ahead)
  <2>1. \A k \in 1..n : h[k] \in DOMAIN ahead /\ t[k] = s[h[k]]
    BY <1>1, <1>4
  <2> QED
    BY <1>2, <1>5, <1>6, <2>1 DEF SelectedBy
<1> QED
  BY <1>7 DEF Selects, t

\* A selection of those of a selection that are in V.
LEMMA SelectsTwice ==
    ASSUME NEW s, NEW S, NEW t, Selects(t, s, S), NEW V, NEW u, NEW T, Selects(u, t, T),
           T \subseteq DOMAIN t, \A k \in DOMAIN t : k \in T <=> t[k] \in V,
           NEW U, U \subseteq S, \A i \in S : i \in U <=> s[i] \in V
    PROVE  Selects(u, s, U)
<1>1. PICK h : SelectedBy(h, t, s, S)
  BY DEF Selects
<1>2. PICK g : SelectedBy(g, u, t, T)
  BY DEF Selects
<1> DEFINE f == [k \in DOMAIN u |-> h[g[k]]]
<1>3. \A k \in DOMAIN u : f[k] = h[g[k]]
  OBVIOUS
<1> HIDE DEF f
<1>4. \A k \in DOMAIN u : g[k] \in DOMAIN t /\ t[g[k]] \in V /\ u[k] = t[g[k]]
  BY <1>2 DEF SelectedBy
<1>5. \A k \in DOMAIN u : f[k] \in S /\ s[f[k]] \in V /\ u[k] = s[f[k]]
  BY <1>1, <1>3, <1>4 DEF SelectedBy
<1>6. ASSUME NEW i \in U PROVE \E k \in DOMAIN u : f[k] = i
  <2>0. i \in S /\ s[i] \in V
    OBVIOUS
  <2>1. PICK l \in DOMAIN t : h[l] = i
    BY <1>1, <2>0 DEF SelectedBy
  <2>2. t[l] \in V
    BY <1>1, <2>0, <2>1 DEF SelectedBy
  <2>3. PICK k \in DOMAIN u : g[k] = l
    BY <1>2, <2>2 DEF SelectedBy
  <2> QED
    BY <1>3, <2>1, <2>3
<1>7. \A k, l \in DOMAIN u : f[k] = f[l] => k = l
  BY <1>1, <1>2, <1>3, <1>4 DEF SelectedBy
<1>8. SelectedBy(f, u, s, U)
  BY <1>5, <1>6, <1>7 DEF SelectedBy
<1> QED
  BY <1>8 DEF Selects

\* One more element is selected.
LEMMA SelectsOneMore ==
    ASSUME NEW R, NEW t \in Seq(R), NEW s, NEW S, Selects(t, s, S),
           NEW i, i \notin S, s[i] \in R
    PROVE  Selects(Append(t, s[i]), s, S \cup {i})
<1> DEFINE u == Append(t, s[i])
           n == Len(t) + 1
<1>1. PICK h : SelectedBy(h, t, s, S)
  BY DEF Selects
<1>2. /\ Len(t) \in Nat /\ DOMAIN t = 1..Len(t) /\ DOMAIN u = 1..n
      /\ \A k \in 1..Len(t) : u[k] = t[k]
      /\ u[n] = s[i]
  BY AppendProperties, LenProperties
<1> DEFINE g == [k \in 1..n |-> IF k = n THEN i ELSE h[k]]
<1>3. n \notin DOMAIN t /\ DOMAIN u = DOMAIN t \cup {n}
  BY <1>2
<1>4. g[n] = i /\ \A k \in DOMAIN t : g[k] = h[k]
  BY <1>2
<1> HIDE DEF g, u, n
<1>5. \A k \in DOMAIN u : g[k] \in S \cup {i} /\ u[k] = s[g[k]]
  BY <1>1, <1>2, <1>3, <1>4 DEF SelectedBy
<1>6. \A j \in S \cup {i} : \E k \in DOMAIN u : g[k] = j
  BY <1>1, <1>3, <1>4 DEF SelectedBy
<1>7. \A k, l \in DOMAIN u : g[k] = g[l] => k = l
  BY <1>1, <1>3, <1>4 DEF SelectedBy
<1>8. SelectedBy(g, u, s, S \cup {i})
  BY <1>5, <1>6, <1>7 DEF SelectedBy
<1> QED
  BY <1>8 DEF Selects, u

\* Nothing is selected yet.
LEMMA SelectsNone ==
    ASSUME NEW s
    PROVE  Selects(<<>>, s, {})
<1>1. SelectedBy(<<>>, <<>>, s, {})
  BY DEF SelectedBy
<1> QED
  BY <1>1 DEF Selects

\* A selection of what is there once has it once.
LEMMA SelectsSet ==
    ASSUME NEW t, NEW s, NEW S, Selects(t, s, S)
    PROVE  /\ ToSet(t) = {s[i] : i \in S}
           /\ (\A i, j \in S : s[i] = s[j] => i = j) => IsInjective(t)
<1>1. PICK h : SelectedBy(h, t, s, S)
  BY DEF Selects
<1>2. ToSet(t) = {s[i] : i \in S}
  <2>1. \A k \in DOMAIN t : t[k] \in {s[i] : i \in S}
    BY <1>1 DEF SelectedBy
  <2>2. ASSUME NEW i \in S PROVE \E k \in DOMAIN t : t[k] = s[i]
    BY <1>1 DEF SelectedBy
  <2> QED
    BY <2>1, <2>2 DEF ToSet
<1>3. ASSUME \A i, j \in S : s[i] = s[j] => i = j PROVE IsInjective(t)
  BY <1>1, <1>3 DEF SelectedBy, IsInjective
<1> QED
  BY <1>2, <1>3

\* The indices of a set in their own order.
LEMMA IndexRanks ==
    ASSUME NEW R, NEW s \in Seq(R), NEW S \in SUBSET DOMAIN s
    PROVE  Ranks([i \in S |-> {j \in S : j < i}])
<1> DEFINE ahead == [i \in S |-> {j \in S : j < i}]
<1>1. S \subseteq 1..Len(s) /\ Len(s) \in Nat /\ S \subseteq Nat
  BY LenProperties
<1>2. IsFiniteSet(S)
  <2>1. IsFiniteSet(1..Len(s))
    BY <1>1, FS_Interval
  <2> QED
    BY <1>1, <2>1, FS_Subset
<1>3. DOMAIN ahead = S /\ ahead \in [S -> SUBSET S]
  OBVIOUS
<1>4. \A i, j \in S : j \in ahead[i] <=> j < i
  OBVIOUS
<1> HIDE DEF ahead
<1>5. ASSUME NEW i \in S, NEW j \in S, j \in ahead[i] PROVE ahead[j] \subseteq ahead[i]
  <2>1. \A k \in S : k < j => k < i
    BY <1>1, <1>4, <1>5
  <2> QED
    BY <1>3, <1>4, <2>1
<1>6. \A i \in S : i \notin ahead[i]
  BY <1>1, <1>4
<1>7. \A i, j \in S : i = j \/ i \in ahead[j] \/ j \in ahead[i]
  BY <1>1, <1>4
<1>8. Ranks(ahead)
  BY <1>2, <1>3, <1>5, <1>6, <1>7 DEF Ranks
<1> QED
  BY <1>8 DEF ahead

-----------------------------------------------------------------------------
(* The sorted buffer. *)

Entries == [stamp : Int, url_id : Int, wrd_id : Int, coord : Int]


LEMMA LatestRanks ==
    ASSUME NEW s \in Seq(Entries)
    PROVE  Ranks([i \in DOMAIN s |-> {j \in DOMAIN s : \/ Cmplog(s[j], s[i])
                                                       \/ ~Cmplog(s[i], s[j]) /\ j < i}])
<1> DEFINE S == DOMAIN s
           First(j, i) == Cmplog(s[j], s[i]) \/ (~Cmplog(s[i], s[j]) /\ j < i)
           ahead == [i \in S |-> {j \in S : First(j, i)}]
<1>1. S = 1..Len(s) /\ Len(s) \in Nat /\ S \subseteq Nat
  BY LenProperties
<1>2. IsFiniteSet(S)
  BY <1>1, FS_Interval
<1>e. \A i \in S : s[i] \in Entries
  BY <1>1, ElementOfSeq
<1>3. \A i \in S : s[i].stamp \in Int /\ s[i].url_id \in Int
  BY <1>e DEF Entries
<1>4. \A i, j \in S : First(j, i) <=> \/ s[j].url_id < s[i].url_id
                                      \/ s[j].url_id = s[i].url_id /\ s[j].stamp > s[i].stamp
                                      \/ s[j].url_id = s[i].url_id /\ s[j].stamp = s[i].stamp /\ j < i
  BY <1>1, <1>3 DEF Cmplog
<1> HIDE DEF First
<1>5. DOMAIN ahead = S /\ ahead \in [S -> SUBSET S] /\ \A i, j \in S : j \in ahead[i] <=> First(j, i)
  OBVIOUS
<1>6. \A i \in S : ~First(i, i)
  BY <1>1, <1>3, <1>4
<1>7. \A i, j \in S : i = j \/ First(i, j) \/ First(j, i)
  BY <1>1, <1>3, <1>4
<1>8. ASSUME NEW i \in S, NEW j \in S, NEW k \in S, First(k, j), First(j, i) PROVE First(k, i)
  <2>1. s[k].url_id <= s[j].url_id /\ s[j].url_id <= s[i].url_id /\ s[k].url_id <= s[i].url_id
    BY <1>3, <1>4, <1>8
  <2>2. CASE s[k].url_id < s[i].url_id
    BY <1>4, <2>2
  <2>3. CASE s[k].url_id = s[i].url_id
    <3>1. s[k].url_id = s[j].url_id /\ s[j].url_id = s[i].url_id
      BY <1>3, <2>1, <2>3
    <3>2. /\ s[k].stamp > s[j].stamp \/ (s[k].stamp = s[j].stamp /\ k < j)
          /\ s[j].stamp > s[i].stamp \/ (s[j].stamp = s[i].stamp /\ j < i)
      BY <1>3, <1>4, <1>8, <3>1
    <3>3. s[k].stamp > s[i].stamp \/ (s[k].stamp = s[i].stamp /\ k < i)
      BY <1>1, <1>3, <3>2
    <3> QED
      BY <1>4, <2>3, <3>3
  <2> QED
    BY <1>3, <2>1, <2>2, <2>3
<1> HIDE DEF ahead
<1>9. \A i, j \in S : j \in ahead[i] => ahead[j] \subseteq ahead[i]
  BY <1>5, <1>8
<1>10. Ranks(ahead)
  BY <1>2, <1>5, <1>6, <1>7, <1>9 DEF Ranks
<1> QED
  BY <1>10 DEF ahead, First

LEMMA WordRanks ==
    ASSUME NEW s \in Seq(Entries)
    PROVE  Ranks([i \in DOMAIN s |-> {j \in DOMAIN s : \/ Cmplog_wrd(s[j], s[i])
                                                       \/ ~Cmplog_wrd(s[i], s[j]) /\ j < i}])
<1> DEFINE S == DOMAIN s
           First(j, i) == Cmplog_wrd(s[j], s[i]) \/ (~Cmplog_wrd(s[i], s[j]) /\ j < i)
           ahead == [i \in S |-> {j \in S : First(j, i)}]
<1>1. S = 1..Len(s) /\ Len(s) \in Nat /\ S \subseteq Nat
  BY LenProperties
<1>2. IsFiniteSet(S)
  BY <1>1, FS_Interval
<1>e. \A i \in S : s[i] \in Entries
  BY <1>1, ElementOfSeq
<1>3. \A i \in S : s[i].wrd_id \in Int /\ s[i].url_id \in Int /\ s[i].coord \in Int
  BY <1>e DEF Entries
<1>4. \A i, j \in S :
         First(j, i) <=> \/ s[j].wrd_id < s[i].wrd_id
                         \/ s[j].wrd_id = s[i].wrd_id /\ s[j].url_id < s[i].url_id
                         \/ s[j].wrd_id = s[i].wrd_id /\ s[j].url_id = s[i].url_id
                            /\ (s[j].coord < s[i].coord \/ (s[j].coord = s[i].coord /\ j < i))
  BY <1>1, <1>3 DEF Cmplog_wrd
<1> HIDE DEF First
<1>5. DOMAIN ahead = S /\ ahead \in [S -> SUBSET S] /\ \A i, j \in S : j \in ahead[i] <=> First(j, i)
  OBVIOUS
<1>6. \A i \in S : ~First(i, i)
  BY <1>1, <1>3, <1>4
<1>7. \A i, j \in S : i = j \/ First(i, j) \/ First(j, i)
  BY <1>1, <1>3, <1>4
<1>8. ASSUME NEW i \in S, NEW j \in S, NEW k \in S, First(k, j), First(j, i) PROVE First(k, i)
  <2>1. s[k].wrd_id <= s[j].wrd_id /\ s[j].wrd_id <= s[i].wrd_id /\ s[k].wrd_id <= s[i].wrd_id
    BY <1>3, <1>4, <1>8
  <2>2. CASE s[k].wrd_id < s[i].wrd_id
    BY <1>4, <2>2
  <2>3. CASE s[k].wrd_id = s[i].wrd_id
    <3>1. s[k].wrd_id = s[j].wrd_id /\ s[j].wrd_id = s[i].wrd_id
      BY <1>3, <2>1, <2>3
    <3>2. s[k].url_id <= s[j].url_id /\ s[j].url_id <= s[i].url_id /\ s[k].url_id <= s[i].url_id
      BY <1>3, <1>4, <1>8, <3>1
    <3>3. CASE s[k].url_id < s[i].url_id
      BY <1>4, <2>3, <3>3
    <3>4. CASE s[k].url_id = s[i].url_id
      <4>1. s[k].url_id = s[j].url_id /\ s[j].url_id = s[i].url_id
        BY <1>3, <3>2, <3>4
      <4>2. /\ s[k].coord < s[j].coord \/ (s[k].coord = s[j].coord /\ k < j)
            /\ s[j].coord < s[i].coord \/ (s[j].coord = s[i].coord /\ j < i)
        BY <1>3, <1>4, <1>8, <3>1, <4>1
      <4>3. s[k].coord < s[i].coord \/ (s[k].coord = s[i].coord /\ k < i)
        BY <1>1, <1>3, <4>2
      <4> QED
        BY <1>4, <2>3, <3>4, <4>3
    <3> QED
      BY <1>3, <3>2, <3>3, <3>4
  <2> QED
    BY <1>3, <2>1, <2>2, <2>3
<1> HIDE DEF ahead
<1>9. \A i, j \in S : j \in ahead[i] => ahead[j] \subseteq ahead[i]
  BY <1>5, <1>8
<1>10. Ranks(ahead)
  BY <1>2, <1>5, <1>6, <1>7, <1>9 DEF Ranks
<1> QED
  BY <1>10 DEF ahead, First

\* DpsSort by url and time returns words of the buffer, as many as there are.
LEMMA LatestSorted ==
    ASSUME NEW R \in SUBSET Entries, NEW s \in Seq(R)
    PROVE  DpsSort(s, Cmplog) \in Seq(R)
<1>1. s \in Seq(Entries)
  BY SeqMonotonic
<1> QED
  BY <1>1, LatestRanks, Ordered DEF DpsSort

\* DpsSort by word, url and coordinate returns words of the buffer in this order.
Sequential(s) == \A k, l \in DOMAIN s : k < l => ~Cmplog_wrd(s[l], s[k])

LEMMA WordsSorted ==
    ASSUME NEW R \in SUBSET Entries, NEW s \in Seq(R)
    PROVE  DpsSort(s, Cmplog_wrd) \in Seq(R) /\ Sequential(DpsSort(s, Cmplog_wrd))
<1> DEFINE ahead == [i \in DOMAIN s |-> {j \in DOMAIN s : \/ Cmplog_wrd(s[j], s[i])
                                                          \/ ~Cmplog_wrd(s[i], s[j]) /\ j < i}]
           t == DpsSort(s, Cmplog_wrd)
<1>1. s \in Seq(Entries)
  BY SeqMonotonic
<1>2. Ranks(ahead)
  BY <1>1, WordRanks
<1>3. t = InOrder(s, ahead) /\ DOMAIN ahead = DOMAIN s
  BY DEF DpsSort
<1>4. \A i, j \in DOMAIN s : j \in ahead[i] => ~Cmplog_wrd(s[i], s[j])
  <2>1. \A i \in DOMAIN s : s[i].wrd_id \in Int /\ s[i].url_id \in Int /\ s[i].coord \in Int
    BY <1>1, LenProperties, ElementOfSeq DEF Entries
  <2> QED
    BY <2>1 DEF Cmplog_wrd
<1> HIDE DEF ahead, t
<1>5. /\ t \in Seq(R) /\ Len(t) = Cardinality(DOMAIN s)
      /\ \A k \in 1..Len(t) : At(ahead, k) \in DOMAIN s /\ t[k] = s[At(ahead, k)]
      /\ \A k, l \in 1..Len(t) : k < l => At(ahead, k) \in ahead[At(ahead, l)]
  BY <1>2, <1>3, Ordered
<1>6. DOMAIN t = 1..Len(t)
  BY <1>5, LenProperties
<1>7. Sequential(t)
  BY <1>4, <1>5, <1>6 DEF Sequential
<1> QED
  BY <1>5, <1>7 DEF t

-----------------------------------------------------------------------------
(* The deletion markers. *)

Markers == [stamp : Int, url_id : Int]

LEMMA MarkerNumbers ==
    ASSUME NEW s \in Seq(Markers), NEW k \in DOMAIN s
    PROVE  s[k].stamp \in Int /\ s[k].url_id \in Int
<1>1. s[k] \in Markers
  BY LenProperties, ElementOfSeq
<1> QED
  BY <1>1 DEF Markers

LEMMA MarkerRanks ==
    ASSUME NEW s \in Seq(Markers)
    PROVE  Ranks([i \in DOMAIN s |-> {j \in DOMAIN s : \/ Cmpurldellog(s[j], s[i])
                                                       \/ ~Cmpurldellog(s[i], s[j]) /\ j < i}])
<1> DEFINE S == DOMAIN s
           First(j, i) == Cmpurldellog(s[j], s[i]) \/ (~Cmpurldellog(s[i], s[j]) /\ j < i)
           ahead == [i \in S |-> {j \in S : First(j, i)}]
<1>1. S = 1..Len(s) /\ Len(s) \in Nat /\ S \subseteq Nat
  BY LenProperties
<1>2. IsFiniteSet(S)
  BY <1>1, FS_Interval
<1>e. \A i \in S : s[i] \in Markers
  BY <1>1, ElementOfSeq
<1>3. \A i \in S : s[i].stamp \in Int /\ s[i].url_id \in Int
  BY <1>e DEF Markers
<1>4. \A i, j \in S : First(j, i) <=> \/ s[j].url_id < s[i].url_id
                                      \/ s[j].url_id = s[i].url_id /\ s[j].stamp < s[i].stamp
                                      \/ s[j].url_id = s[i].url_id /\ s[j].stamp = s[i].stamp /\ j < i
  BY <1>1, <1>3 DEF Cmpurldellog
<1> HIDE DEF First
<1>5. DOMAIN ahead = S /\ ahead \in [S -> SUBSET S] /\ \A i, j \in S : j \in ahead[i] <=> First(j, i)
  OBVIOUS
<1>6. \A i \in S : ~First(i, i)
  BY <1>1, <1>3, <1>4
<1>7. \A i, j \in S : i = j \/ First(i, j) \/ First(j, i)
  BY <1>1, <1>3, <1>4
<1>8. ASSUME NEW i \in S, NEW j \in S, NEW k \in S, First(k, j), First(j, i) PROVE First(k, i)
  <2>1. s[k].url_id <= s[j].url_id /\ s[j].url_id <= s[i].url_id /\ s[k].url_id <= s[i].url_id
    BY <1>3, <1>4, <1>8
  <2>2. CASE s[k].url_id < s[i].url_id
    BY <1>4, <2>2
  <2>3. CASE s[k].url_id = s[i].url_id
    <3>1. s[k].url_id = s[j].url_id /\ s[j].url_id = s[i].url_id
      BY <1>3, <2>1, <2>3
    <3>2. /\ s[k].stamp < s[j].stamp \/ (s[k].stamp = s[j].stamp /\ k < j)
          /\ s[j].stamp < s[i].stamp \/ (s[j].stamp = s[i].stamp /\ j < i)
      BY <1>3, <1>4, <1>8, <3>1
    <3>3. s[k].stamp < s[i].stamp \/ (s[k].stamp = s[i].stamp /\ k < i)
      BY <1>1, <1>3, <3>2
    <3> QED
      BY <1>4, <2>3, <3>3
  <2> QED
    BY <1>3, <2>1, <2>2, <2>3
<1> HIDE DEF ahead
<1>9. \A i, j \in S : j \in ahead[i] => ahead[j] \subseteq ahead[i]
  BY <1>5, <1>8
<1>10. Ranks(ahead)
  BY <1>2, <1>5, <1>6, <1>7, <1>9 DEF Ranks
<1> QED
  BY <1>10 DEF ahead, First

\* One marker for each url, in the order of the urls.
OnePerUrl(dels) ==
    /\ dels \in Seq(Markers)
    /\ \A k, l \in DOMAIN dels : k < l => dels[k].url_id < dels[l].url_id

\* DpsSort by url and time returns the markers in this order.
LEMMA MarkersSorted ==
    ASSUME NEW dels \in Seq(Markers)
    PROVE  LET d == DpsSort(dels, Cmpurldellog) IN
           /\ d \in Seq(Markers)
           /\ Selects(d, dels, DOMAIN dels)
           /\ \A k, l \in DOMAIN d : k < l => ~Cmpurldellog(d[l], d[k])
<1> DEFINE ahead == [i \in DOMAIN dels |-> {j \in DOMAIN dels : \/ Cmpurldellog(dels[j], dels[i])
                                                                \/ ~Cmpurldellog(dels[i], dels[j]) /\ j < i}]
           d == DpsSort(dels, Cmpurldellog)
<1>1. Ranks(ahead)
  BY MarkerRanks
<1>2. d = InOrder(dels, ahead) /\ DOMAIN ahead = DOMAIN dels
  BY DEF DpsSort
<1>3. \A i, j \in DOMAIN dels : j \in ahead[i] => ~Cmpurldellog(dels[i], dels[j])
  <2>1. \A i \in DOMAIN dels : dels[i].stamp \in Int /\ dels[i].url_id \in Int
    BY MarkerNumbers
  <2> QED
    BY <2>1 DEF Cmpurldellog
<1> HIDE DEF ahead, d
<1>4. Selects(d, dels, DOMAIN dels)
  BY <1>1, <1>2, OrderedSelects
<1>5. /\ d \in Seq(Markers) /\ Len(d) = Cardinality(DOMAIN dels)
      /\ \A k \in 1..Len(d) : At(ahead, k) \in DOMAIN dels /\ d[k] = dels[At(ahead, k)]
      /\ \A k, l \in 1..Len(d) : k < l => At(ahead, k) \in ahead[At(ahead, l)]
  BY <1>1, <1>2, Ordered
<1>6. DOMAIN d = 1..Len(d)
  BY <1>5, LenProperties
<1>7. \A k, l \in DOMAIN d : k < l => ~Cmpurldellog(d[l], d[k])
  BY <1>3, <1>5, <1>6
<1> QED
  BY <1>4, <1>5, <1>7 DEF d

\* What is left of the markers is, for each url, its latest.
LatestOf(sorted, dels) ==
    /\ OnePerUrl(sorted)
    /\ \A k \in DOMAIN sorted : \E m \in DOMAIN dels : dels[m] = sorted[k]
    /\ \A m \in DOMAIN dels : \E k \in DOMAIN sorted :
           sorted[k].url_id = dels[m].url_id /\ sorted[k].stamp >= dels[m].stamp

LEMMA SortedDelsLatest ==
    ASSUME NEW dels \in Seq(Markers)
    PROVE  LatestOf(SortedDels(dels), dels)
<1> DEFINE d == DpsSort(dels, Cmpurldellog)
           n == Len(d)
           lasts == {k \in DOMAIN d : k = Len(d) \/ d[k].url_id # d[k + 1].url_id}
           ahead == [k \in lasts |-> {l \in lasts : l < k}]
           t == InOrder(d, ahead)
<1>1. SortedDels(dels) = t
  BY DEF SortedDels, RemoveDelLogDups
<1>2. /\ d \in Seq(Markers) /\ Selects(d, dels, DOMAIN dels)
      /\ \A k, l \in DOMAIN d : k < l => ~Cmpurldellog(d[l], d[k])
  BY MarkersSorted
<1> HIDE DEF d
<1>3. n \in Nat /\ DOMAIN d = 1..n /\ \A k \in 1..n : d[k].stamp \in Int /\ d[k].url_id \in Int
  BY <1>2, LenProperties, MarkerNumbers
<1>4. lasts \subseteq 1..n /\ DOMAIN ahead = lasts
  BY <1>3
<1>5. Ranks(ahead)
  <2>1. lasts \in SUBSET DOMAIN d
    OBVIOUS
  <2> HIDE DEF lasts
  <2> QED
    BY <1>2, <2>1, IndexRanks
<1>6. \A k \in lasts : \A l \in ahead[k] : l \in lasts /\ l < k
  OBVIOUS
<1>7. \A k, l \in 1..n : k < l => \/ d[k].url_id < d[l].url_id
                                  \/ d[k].url_id = d[l].url_id /\ d[k].stamp <= d[l].stamp
  <2> SUFFICES ASSUME NEW k \in 1..n, NEW l \in 1..n, k < l
               PROVE  \/ d[k].url_id < d[l].url_id
                      \/ d[k].url_id = d[l].url_id /\ d[k].stamp <= d[l].stamp
    OBVIOUS
  <2>1. ~Cmpurldellog(d[l], d[k])
    BY <1>2, <1>3
  <2>2. d[k].stamp \in Int /\ d[k].url_id \in Int /\ d[l].stamp \in Int /\ d[l].url_id \in Int
    BY <1>3
  <2> QED
    BY <2>1, <2>2 DEF Cmpurldellog
<1>8. \A k \in lasts : k = n \/ d[k].url_id # d[k + 1].url_id
  OBVIOUS
<1>9. \A k \in 1..n : k = n \/ d[k].url_id # d[k + 1].url_id => k \in lasts
  BY <1>3
<1> HIDE DEF lasts, ahead
<1>10. Selects(t, d, lasts)
  BY <1>2, <1>3, <1>4, <1>5, OrderedSelects
<1>11. /\ t \in Seq(Markers) /\ DOMAIN t = 1..Len(t)
       /\ \A k \in 1..Len(t) : At(ahead, k) \in lasts /\ t[k] = d[At(ahead, k)]
       /\ \A k, l \in 1..Len(t) : k < l => At(ahead, k) \in ahead[At(ahead, l)]
  <2>1. /\ t \in Seq(Markers) /\ Len(t) = Cardinality(lasts)
        /\ \A k \in 1..Len(t) : At(ahead, k) \in lasts /\ t[k] = d[At(ahead, k)]
        /\ \A k, l \in 1..Len(t) : k < l => At(ahead, k) \in ahead[At(ahead, l)]
    <3> HIDE DEF t
    <3>1. t = InOrder(d, ahead)
      BY DEF t
    <3> HIDE DEF n
    <3>2. DOMAIN ahead \subseteq DOMAIN d
      BY <1>3, <1>4
    <3> QED
      BY <1>2, <1>4, <1>5, <3>1, <3>2, Ordered
  <2> HIDE DEF t
  <2> QED
    BY <2>1, LenProperties
<1> HIDE DEF t
<1>12. OnePerUrl(t)
  <2> SUFFICES ASSUME NEW k \in 1..Len(t), NEW l \in 1..Len(t), k < l
               PROVE  t[k].url_id < t[l].url_id
    BY <1>11 DEF OnePerUrl
  <2> DEFINE i == At(ahead, k)
             j == At(ahead, l)
  <2>1. i \in lasts /\ j \in lasts /\ i < j /\ t[k] = d[i] /\ t[l] = d[j]
    BY <1>6, <1>11
  <2> HIDE DEF i, j
  <2>2. i \in 1..n /\ j \in 1..n /\ i + 1 \in 1..n /\ (i + 1 = j \/ i + 1 < j)
    BY <1>3, <1>4, <2>1
  <2>3. d[i].url_id # d[i + 1].url_id
    BY <1>8, <2>1, <2>2
  <2>4. d[i].url_id < d[i + 1].url_id
    BY <1>7, <2>2, <2>3
  <2>5. d[i + 1].url_id <= d[j].url_id
    BY <1>3, <1>7, <2>2
  <2> QED
    BY <1>3, <2>1, <2>2, <2>4, <2>5
<1>13. ASSUME NEW k \in DOMAIN t PROVE \E m \in DOMAIN dels : dels[m] = t[k]
  <2>1. PICK i \in 1..n : t[k] = d[i]
    BY <1>4, <1>11
  <2>2. PICK h : SelectedBy(h, d, dels, DOMAIN dels)
    BY <1>2 DEF Selects
  <2> QED
    BY <1>3, <2>1, <2>2 DEF SelectedBy
<1>14. ASSUME NEW m \in DOMAIN dels
       PROVE  \E k \in DOMAIN t : t[k].url_id = dels[m].url_id /\ t[k].stamp >= dels[m].stamp
  <2>0. PICK h : SelectedBy(h, d, dels, DOMAIN dels)
    BY <1>2 DEF Selects
  <2>1. PICK i \in 1..n : d[i] = dels[m]
    BY <1>3, <2>0 DEF SelectedBy
  <2> DEFINE S == {c \in 0..n : n - c >= i /\ d[n - c].url_id = d[i].url_id}
  <2>2. n - i \in S
    BY <1>3
  <2>3. PICK c \in S : \A e \in S : c <= e
    <3>1. S \subseteq Nat
      BY <1>3
    <3> HIDE DEF S
    <3> QED
      BY <2>2, <3>1, Least
  <2> DEFINE j == n - c
  <2>4. j \in 1..n /\ j >= i /\ d[j].url_id = d[i].url_id
    BY <1>3
  <2>5. j \in lasts
    <3> SUFFICES ASSUME j # n, d[j].url_id = d[j + 1].url_id PROVE FALSE
      BY <1>9, <2>4
    <3>1. c - 1 \in 0..n /\ n - (c - 1) = j + 1 /\ j + 1 >= i
      <4>1. c \in 0..n /\ n - c \in 1..n /\ n - c >= i /\ n - c # n
        BY <2>4
      <4>2. n \in Nat /\ i \in 1..n
        BY <1>3
      <4> HIDE DEF n, S
      <4> QED
        BY <4>1, <4>2
    <3>2. c - 1 \in S
      BY <2>4, <3>1
    <3>3. c <= c - 1
      BY <2>3, <3>2
    <3> QED
      BY <3>1, <3>3
  <2>6. d[j].stamp >= d[i].stamp
    <3> HIDE DEF j
    <3>1. j = i \/ i < j
      BY <2>4
    <3> QED
      BY <1>3, <1>7, <2>4, <3>1
  <2> HIDE DEF j
  <2>7. PICK k \in DOMAIN t : t[k] = d[j]
    BY <1>10, <2>5 DEF Selects, SelectedBy
  <2> QED
    BY <2>1, <2>4, <2>6, <2>7
<1>15. LatestOf(t, dels)
  BY <1>12, <1>13, <1>14 DEF LatestOf
<1> QED
  BY <1>1, <1>15

\* NextDel is there, and is what its comment says.
LEMMA NextDelIs ==
    ASSUME NEW dels \in Seq(Markers), NEW start \in 1..(Len(dels) + 1), NEW u \in Int
    PROVE  LET s == NextDel(dels, start, u) IN
           /\ s \in start..(Len(dels) + 1)
           /\ s <= Len(dels) => dels[s].url_id >= u
           /\ \A t \in start..(s - 1) : dels[t].url_id < u
<1> DEFINE n == Len(dels)
           S == {s \in start..(n + 1) : s <= n => dels[s].url_id >= u}
<1>1. n \in Nat /\ \A k \in 1..n : dels[k].url_id \in Int
  BY LenProperties, MarkerNumbers
<1>2. n + 1 \in S
  BY <1>1
<1>3. PICK s \in S : \A t \in S : s <= t
  <2>1. S \subseteq Nat
    BY <1>1
  <2> HIDE DEF S
  <2> QED
    BY <1>2, <2>1, Least
<1>4. \A t \in start..(s - 1) : dels[t].url_id < u
  <2> SUFFICES ASSUME NEW t \in start..(s - 1), ~(dels[t].url_id < u) PROVE FALSE
    OBVIOUS
  <2>1. t \in start..(n + 1) /\ t \in 1..n /\ t < s
    BY <1>1
  <2>2. t \in S
    BY <1>1, <2>1
  <2>3. s <= t
    BY <1>3, <2>2
  <2> QED
    BY <1>1, <2>1, <2>3
<1>5. \E x \in start..(Len(dels) + 1) : /\ x <= Len(dels) => dels[x].url_id >= u
                                        /\ \A t \in start..(x - 1) : dels[t].url_id < u
  BY <1>4
<1> QED
  BY <1>5 DEF NextDel

-----------------------------------------------------------------------------
(* The words that DpsRemoveOldWords leaves. *)

WalkOn(words, dels, before, i) ==
    LET x == words[i]
        s == NextDel(dels, before.start, x.url_id)
    IN IF s > Len(dels)
       THEN [start |-> s, kept |-> before.kept, tail |-> before.tail + 1]
       ELSE [start |-> s,
             kept  |-> IF x.url_id < dels[s].url_id \/ x.stamp >= dels[s].stamp
                       THEN Append(before.kept, x) ELSE before.kept,
             tail  |-> before.tail]

WalkBegin == [start |-> 1, kept |-> <<>>, tail |-> 0]

WalkTo(words, dels, n, g) ==
    g = [i \in 0..n |-> IF i = 0 THEN WalkBegin ELSE WalkOn(words, dels, g[i - 1], i)]

LEMMA WalkToExists ==
    ASSUME NEW words, NEW dels
    PROVE  \A n \in Nat : \E g : WalkTo(words, dels, n, g)
<1> DEFINE T == {n \in Nat : \E g : WalkTo(words, dels, n, g)}
<1>1. 0 \in T
  <2>1. WalkTo(words, dels, 0, [i \in 0..0 |-> WalkBegin])
    BY DEF WalkTo
  <2> QED
    BY <2>1
<1>2. ASSUME NEW n \in Nat, n \in T PROVE n + 1 \in T
  <2>1. PICK g : WalkTo(words, dels, n, g)
    BY <1>2
  <2> DEFINE new == WalkOn(words, dels, g[n], n + 1)
             h == [i \in 0..(n + 1) |-> IF i = n + 1 THEN new ELSE g[i]]
             Rule(i) == IF i = 0 THEN WalkBegin ELSE WalkOn(words, dels, h[i - 1], i)
  <2>2. \A i \in 0..n : g[i] = IF i = 0 THEN WalkBegin ELSE WalkOn(words, dels, g[i - 1], i)
    BY <2>1 DEF WalkTo
  <2>3. h[n + 1] = new /\ \A i \in 0..n : h[i] = g[i]
    OBVIOUS
  <2>4. h = [i \in 0..(n + 1) |-> h[i]]
    OBVIOUS
  <2> HIDE DEF h
  <2>5. ASSUME NEW i \in 0..(n + 1) PROVE h[i] = Rule(i)
    <3>1. CASE i = n + 1
      <4>1. i # 0 /\ i - 1 = n /\ n \in 0..n
        BY <3>1
      <4> QED
        BY <2>3, <3>1, <4>1
    <3>2. CASE i # n + 1
      <4>1. i \in 0..n /\ (i # 0 => i - 1 \in 0..n)
        BY <3>2
      <4> QED
        BY <2>2, <2>3, <4>1
    <3> QED
      BY <3>1, <3>2
  <2>6. h = [i \in 0..(n + 1) |-> Rule(i)]
    <3> HIDE DEF Rule
    <3> QED
      BY <2>4, <2>5
  <2>7. WalkTo(words, dels, n + 1, h)
    BY <2>6 DEF WalkTo
  <2> QED
    BY <2>7
<1> HIDE DEF T
<1>3. \A n \in Nat : n \in T
  BY <1>1, <1>2, Induct
<1> QED
  BY <1>3 DEF T

LEMMA WalkIs ==
    ASSUME NEW words, NEW dels, Len(words) \in Nat
    PROVE  \E g : WalkTo(words, dels, Len(words), g) /\ Walk(words, dels) = g[Len(words)]
<1> DEFINE g == CHOOSE g : WalkTo(words, dels, Len(words), g)
<1>1. WalkTo(words, dels, Len(words), g)
  BY WalkToExists
<1>2. Walk(words, dels) = g[Len(words)]
  BY DEF Walk, WalkTo, WalkOn, WalkBegin
<1> QED
  BY <1>1, <1>2

\* What is kept are words of the buffer, and with those behind the last marker
\* there are not more than there were.
LEMMA WalkKeeps ==
    ASSUME NEW R, NEW words \in Seq(R), NEW dels
    PROVE  LET w == Walk(words, dels) IN
           w.kept \in Seq(R) /\ w.tail \in Nat /\ Len(w.kept) + w.tail <= Len(words)
<1>1. Len(words) \in Nat /\ \A i \in 1..Len(words) : words[i] \in R
  BY LenProperties, ElementOfSeq
<1>2. PICK g : WalkTo(words, dels, Len(words), g) /\ Walk(words, dels) = g[Len(words)]
  BY <1>1, WalkIs
<1> DEFINE OK(i) == g[i].kept \in Seq(R) /\ g[i].tail \in Nat /\ Len(g[i].kept) + g[i].tail <= i
           T == {i \in Nat : i <= Len(words) => OK(i)}
<1>3. g[0] = WalkBegin /\ \A i \in 1..Len(words) : g[i] = WalkOn(words, dels, g[i - 1], i)
  BY <1>1, <1>2 DEF WalkTo
<1>4. OK(0)
  BY <1>3, EmptySeq DEF WalkBegin
<1>5. ASSUME NEW i \in Nat, i + 1 <= Len(words), OK(i) PROVE OK(i + 1)
  <2>1. i + 1 \in 1..Len(words) /\ (i + 1) - 1 = i /\ words[i + 1] \in R
    BY <1>1, <1>5
  <2>2. g[i + 1] = WalkOn(words, dels, g[i], i + 1)
    BY <1>3, <2>1
  <2>3. \/ g[i + 1].kept = g[i].kept /\ g[i + 1].tail = g[i].tail + 1
        \/ g[i + 1].kept \in {g[i].kept, Append(g[i].kept, words[i + 1])} /\ g[i + 1].tail = g[i].tail
    BY <2>2 DEF WalkOn
  <2>4. /\ Append(g[i].kept, words[i + 1]) \in Seq(R)
        /\ Len(Append(g[i].kept, words[i + 1])) = Len(g[i].kept) + 1
        /\ Len(g[i].kept) \in Nat
    BY <1>5, <2>1, AppendProperties, LenProperties
  <2>5. g[i].kept \in Seq(R) /\ g[i].tail \in Nat /\ Len(g[i].kept) + g[i].tail <= i
    BY <1>5
  <2> DEFINE k == g[i].kept
             t == g[i].tail
             k1 == g[i + 1].kept
             t1 == g[i + 1].tail
             y == Append(k, words[i + 1])
  <2>6. /\ \/ k1 = k /\ t1 = t + 1
           \/ k1 = k /\ t1 = t
           \/ k1 = y /\ t1 = t
        /\ y \in Seq(R) /\ Len(y) = Len(k) + 1 /\ Len(k) \in Nat
        /\ k \in Seq(R) /\ t \in Nat /\ Len(k) + t <= i
    BY <2>3, <2>4, <2>5
  <2> HIDE DEF k, t, k1, t1, y
  <2>7. k1 \in Seq(R) /\ t1 \in Nat /\ Len(k1) + t1 <= i + 1
    BY <2>6
  <2> QED
    BY <2>7 DEF k1, t1
<1>6. Len(words) \in T
  <2> HIDE DEF OK
  <2>1. 0 \in T
    BY <1>4
  <2>2. \A i \in Nat : i \in T => i + 1 \in T
    BY <1>1, <1>5
  <2> HIDE DEF T
  <2> QED
    BY <1>1, <2>1, <2>2, Induct
<1> QED
  BY <1>1, <1>2, <1>6

\* Words put together of parts of others have their types.
LEMMA PartsMoved ==
    ASSUME NEW A, NEW B, NEW C, NEW D,
           NEW m \in Seq([stamp : A, url_id : B, wrd_id : C, coord : D]),
           NEW i \in Nat, NEW j \in Nat, NEW t \in Nat, j <= i, i + t = Len(m)
    PROVE  MovedParts(m, i, j, t) \in Seq([stamp : A, url_id : B, wrd_id : C, coord : D])
<1> DEFINE W == [stamp : A, url_id : B, wrd_id : C, coord : D]
           From(p, q) == IF Parts * (p - 1) + q \in (Parts * j)..(Parts * j + t - 1) THEN m[p + i - j] ELSE m[p]
           new == [p \in 1..(j + t) |-> [stamp  |-> From(p, 0).stamp,
                                         url_id |-> From(p, 1).url_id,
                                         wrd_id |-> From(p, 1).wrd_id,
                                         coord  |-> From(p, 2).coord]]
<1>1. MovedParts(m, i, j, t) = new
  BY DEF MovedParts
<1>2. \A p \in 1..Len(m) : m[p] \in W
  BY ElementOfSeq
<1>3. ASSUME NEW p \in 1..(j + t), NEW q PROVE From(p, q) \in W
  <2>1. p \in 1..Len(m) /\ p + i - j \in 1..Len(m)
    OBVIOUS
  <2>2. From(p, q) \in {m[p + i - j], m[p]}
    OBVIOUS
  <2> HIDE DEF From
  <2> QED
    BY <1>2, <2>1, <2>2
<1> HIDE DEF From
<1>4. new \in [1..(j + t) -> W]
  BY <1>3
<1> HIDE DEF new, W
<1>5. new \in Seq(W)
  BY <1>4, FunctionIsSeq
<1> QED
  BY <1>1, <1>5 DEF W

LEMMA OldWordsRemoved ==
    ASSUME NEW A, NEW B, NEW C, NEW D,
           NEW words \in Seq([stamp : A, url_id : B, wrd_id : C, coord : D]), NEW dels
    PROVE  RemoveOldWords(words, dels) \in Seq([stamp : A, url_id : B, wrd_id : C, coord : D])
<1> DEFINE W == [stamp : A, url_id : B, wrd_id : C, coord : D]
           w == Walk(words, dels)
           kept == w.kept
           n == Len(words)
           j == Len(kept)
           t == w.tail
           i == n - t
<1>1. words \in Seq(W) /\ n \in Nat /\ \A k \in 1..n : words[k] \in W
  BY LenProperties, ElementOfSeq
<1>2. kept \in Seq(W) /\ t \in Nat /\ j + t <= n
  BY WalkKeeps
<1>3. RemoveOldWords(words, dels) =
          IF dels = <<>> \/ words = <<>> THEN words
          ELSE IF i = j \/ t = 0 THEN kept \o SubSeq(words, i + 1, n)
          ELSE MovedParts(kept \o SubSeq(words, j + 1, n), i, j, t)
  BY DEF RemoveOldWords
<1> HIDE DEF W, w, kept, t
<1>4. j \in Nat /\ i \in Nat /\ j <= i /\ i <= n
  BY <1>1, <1>2, LenProperties
<1>5. ASSUME NEW a \in Nat, a <= n
      PROVE  SubSeq(words, a + 1, n) \in Seq(W) /\ Len(SubSeq(words, a + 1, n)) = n - a
  <2>1. a + 1 \in Int /\ n \in Int /\ \A k \in (a + 1)..n : words[k] \in W
    BY <1>1, <1>5
  <2> HIDE DEF n
  <2>2. /\ SubSeq(words, a + 1, n) \in Seq(W)
        /\ Len(SubSeq(words, a + 1, n)) = IF a + 1 <= n THEN n - (a + 1) + 1 ELSE 0
    BY <2>1, SubSeqProperties
  <2> QED
    BY <1>1, <1>5, <2>2
<1> HIDE DEF n, j, i
<1>6. kept \o SubSeq(words, i + 1, n) \in Seq(W)
  BY <1>2, <1>4, <1>5, ConcatProperties
<1>7. kept \o SubSeq(words, j + 1, n) \in Seq(W) /\ Len(kept \o SubSeq(words, j + 1, n)) = i + t
  <2>1. j <= n
    BY <1>1, <1>4
  <2>2. SubSeq(words, j + 1, n) \in Seq(W) /\ Len(SubSeq(words, j + 1, n)) = n - j
    BY <1>4, <1>5, <2>1
  <2>3. /\ kept \o SubSeq(words, j + 1, n) \in Seq(W)
        /\ Len(kept \o SubSeq(words, j + 1, n)) = j + (n - j)
    BY <1>2, <2>2, ConcatProperties DEF j
  <2>4. j + (n - j) = i + t
    BY <1>1, <1>2, <1>4 DEF i
  <2> QED
    BY <2>3, <2>4
<1>8. MovedParts(kept \o SubSeq(words, j + 1, n), i, j, t) \in Seq(W)
  BY <1>2, <1>4, <1>7, PartsMoved DEF W
<1>9. RemoveOldWords(words, dels) \in Seq(W)
  BY <1>1, <1>3, <1>6, <1>8
<1> QED
  BY <1>9 DEF W

\* What a buffer leaves is made of words of the buffer.
LEMMA FreshWordsTyped ==
    ASSUME NEW A \in SUBSET Int, NEW B \in SUBSET Int, NEW C \in SUBSET Int, NEW D \in SUBSET Int,
           NEW b, b.data \in Seq([stamp : A, url_id : B, wrd_id : C, coord : D])
    PROVE  FreshWords(b) \in Seq([stamp : A, url_id : B, wrd_id : C, coord : D])
<1>1. [stamp : A, url_id : B, wrd_id : C, coord : D] \in SUBSET Entries
  BY DEF Entries
<1>2. DpsSort(b.data, Cmplog) \in Seq([stamp : A, url_id : B, wrd_id : C, coord : D])
  BY <1>1, LatestSorted
<1> QED
  BY <1>2, OldWordsRemoved DEF FreshWords

\* No marker of its url is later than x.
NotOld(dels, x) == \A m \in DOMAIN dels : dels[m].url_id = x.url_id => x.stamp >= dels[m].stamp

\* Every marker is of an earlier url than x.
Beyond(dels, x) == \A m \in DOMAIN dels : dels[m].url_id < x.url_id

\* DpsRemoveOldWords has nothing to move in parts: no word of the buffer is
\* old, or none is beyond the url of the last marker.
Unmoved(b) ==
    \/ \A k \in DOMAIN b.data : NotOld(b.del_buf, b.data[k])
    \/ \A k \in DOMAIN b.data : ~Beyond(b.del_buf, b.data[k])

ByUrl(words) == \A k, l \in DOMAIN words : k < l => words[k].url_id <= words[l].url_id

\* What the walk over the first i words has found.
WalkedTo(g, words, dels, i) ==
    /\ g.kept \in Seq(Entries)
    /\ g.tail \in 0..i
    /\ g.start \in 1..(Len(dels) + 1)
    /\ g.tail = 0 \/ g.start = Len(dels) + 1
    /\ \A m \in 1..(g.start - 1) : i # 0 /\ dels[m].url_id < words[i].url_id
    /\ Selects(g.kept, words, {m \in 1..(i - g.tail) : NotOld(dels, words[m])})
    /\ \A m \in (i - g.tail + 1)..i : Beyond(dels, words[m])

\* The walk takes the words that are not old, as far as the markers reach.
LEMMA WalkSelects ==
    ASSUME NEW words \in Seq(Entries), ByUrl(words), NEW dels, OnePerUrl(dels)
    PROVE  WalkedTo(Walk(words, dels), words, dels, Len(words))
<1> DEFINE n == Len(words)
           d == Len(dels)
<1>1. /\ n \in Nat /\ DOMAIN words = 1..n /\ \A i \in 1..n : words[i] \in Entries
      /\ d \in Nat /\ DOMAIN dels = 1..d /\ \A i \in 1..d : dels[i] \in Markers
  BY LenProperties, ElementOfSeq DEF OnePerUrl
<1>2. /\ \A i \in 1..n : words[i].url_id \in Int /\ words[i].stamp \in Int
      /\ \A i \in 1..d : dels[i].url_id \in Int /\ dels[i].stamp \in Int
  BY <1>1 DEF Entries, Markers
<1>3. PICK g : WalkTo(words, dels, n, g) /\ Walk(words, dels) = g[n]
  BY <1>1, WalkIs
<1>4. g[0] = WalkBegin /\ \A i \in 1..n : g[i] = WalkOn(words, dels, g[i - 1], i)
  BY <1>1, <1>3 DEF WalkTo
<1> DEFINE OK(i) == WalkedTo(g[i], words, dels, i)
           T == {i \in Nat : i <= n => OK(i)}
<1>5. OK(0)
  <2>1. g[0].kept = <<>> /\ g[0].tail = 0 /\ g[0].start = 1
    BY <1>4 DEF WalkBegin
  <2>2. {m \in 1..(0 - g[0].tail) : NotOld(dels, words[m])} = {}
    BY <2>1
  <2>3. Selects(g[0].kept, words, {m \in 1..(0 - g[0].tail) : NotOld(dels, words[m])})
    BY <2>1, <2>2, SelectsNone
  <2>4. 1 \in 1..(d + 1) /\ \A m \in 1..(1 - 1) : FALSE
    BY <1>1
  <2>5. \A m \in (0 - 0 + 1)..0 : FALSE
    OBVIOUS
  <2> QED
    BY <2>1, <2>3, <2>4, <2>5 DEF WalkedTo
<1>6. ASSUME NEW i \in Nat, i + 1 <= n, OK(i) PROVE OK(i + 1)
  <2> DEFINE a == g[i]
             x == words[i + 1]
             s == NextDel(dels, a.start, x.url_id)
  <2>1. i + 1 \in 1..n /\ (i + 1) - 1 = i /\ x \in Entries /\ x.url_id \in Int /\ x.stamp \in Int
    BY <1>1, <1>2, <1>6
  <2>2. g[i + 1] = WalkOn(words, dels, a, i + 1)
    BY <1>4, <2>1
  <2>3. /\ a.kept \in Seq(Entries) /\ a.tail \in 0..i /\ a.start \in 1..(d + 1)
        /\ a.tail = 0 \/ a.start = d + 1
        /\ \A m \in 1..(a.start - 1) : i # 0 /\ dels[m].url_id < words[i].url_id
        /\ Selects(a.kept, words, {m \in 1..(i - a.tail) : NotOld(dels, words[m])})
        /\ \A m \in (i - a.tail + 1)..i : Beyond(dels, words[m])
    BY <1>6 DEF WalkedTo
  <2> DEFINE kept == a.kept
             tail == a.tail
             start == a.start
  <2>4. /\ s \in start..(d + 1)
        /\ s <= d => dels[s].url_id >= x.url_id
        /\ \A t \in start..(s - 1) : dels[t].url_id < x.url_id
    <3>1. dels \in Seq(Markers)
      BY DEF OnePerUrl
    <3> QED
      BY <2>1, <2>3, <3>1, NextDelIs
  <2>5. g[i + 1] = IF s > d
                   THEN [start |-> s, kept |-> kept, tail |-> tail + 1]
                   ELSE [start |-> s,
                         kept  |-> IF x.url_id < dels[s].url_id \/ x.stamp >= dels[s].stamp
                                   THEN Append(kept, x) ELSE kept,
                         tail  |-> tail]
    BY <2>2 DEF WalkOn
  <2> HIDE DEF a, s
  <2>6. i # 0 => words[i].url_id \in Int /\ words[i].url_id <= x.url_id
    <3> SUFFICES ASSUME i # 0 PROVE words[i].url_id \in Int /\ words[i].url_id <= x.url_id
      OBVIOUS
    <3>1. i \in 1..n /\ i < i + 1
      BY <1>6
    <3>2. words[i].url_id <= words[i + 1].url_id
      BY <1>1, <2>1, <3>1 DEF ByUrl
    <3> QED
      BY <1>2, <3>1, <3>2
  <2>7. \A m \in 1..(s - 1) : dels[m].url_id < x.url_id
    <3> SUFFICES ASSUME NEW m \in 1..(s - 1) PROVE dels[m].url_id < x.url_id
      OBVIOUS
    <3>1. CASE m < start
      <4>1. i # 0 /\ dels[m].url_id < words[i].url_id
        BY <2>3, <3>1
      <4>2. m \in 1..d
        BY <1>1, <2>3, <3>1
      <4> QED
        BY <1>2, <2>1, <2>6, <4>1, <4>2
    <3>2. CASE ~(m < start)
      BY <1>1, <2>3, <2>4, <3>2
    <3> QED
      BY <3>1, <3>2
  <2>8. s \in 1..(d + 1)
    BY <1>1, <2>3, <2>4
  <2>9. CASE s > d
    <3> DEFINE b == [start |-> s, kept |-> kept, tail |-> tail + 1]
    <3>1. g[i + 1] = b
      BY <2>5, <2>9
    <3>2. s = d + 1 /\ Beyond(dels, x)
      <4>1. s = d + 1
        BY <1>1, <2>8, <2>9
      <4> QED
        BY <1>1, <2>7, <4>1 DEF Beyond
    <3>3. (i + 1) - (tail + 1) = i - tail /\ tail + 1 \in 0..(i + 1)
      <4>1. tail \in 0..i
        BY <2>3
      <4> HIDE DEF tail
      <4> QED
        BY <4>1
    <3>4. ASSUME NEW m \in ((i + 1) - (tail + 1) + 1)..(i + 1) PROVE Beyond(dels, words[m])
      <4>1. m = i + 1 \/ m \in (i - tail + 1)..i
        BY <2>3
      <4> QED
        BY <2>3, <3>2, <4>1
    <3>5. \A m \in 1..(s - 1) : i + 1 # 0 /\ dels[m].url_id < words[i + 1].url_id
      BY <2>7
    <3>6. Selects(kept, words, {m \in 1..((i + 1) - (tail + 1)) : NotOld(dels, words[m])})
      BY <2>3, <3>3
    <3> HIDE DEF kept, tail, start
    <3>7. b.kept = kept /\ b.tail = tail + 1 /\ b.start = s
      OBVIOUS
    <3> HIDE DEF b
    <3>8. kept \in Seq(Entries)
      BY <2>3 DEF kept
    <3> QED
      BY <2>8, <3>1, <3>2, <3>3, <3>4, <3>5, <3>6, <3>7, <3>8 DEF WalkedTo
  <2>10. CASE ~(s > d)
    <3>1. s \in 1..d /\ s <= d
      BY <1>1, <2>8, <2>10
    <3>2. tail = 0
      BY <1>1, <2>3, <2>4, <3>1
    <3> DEFINE keeps == x.url_id < dels[s].url_id \/ x.stamp >= dels[s].stamp
               b == [start |-> s, kept |-> IF keeps THEN Append(kept, x) ELSE kept, tail |-> 0]
    <3>3. g[i + 1] = b
      BY <2>5, <2>10, <3>2
    <3>4. NotOld(dels, x) <=> keeps
      <4>1. \A m \in 1..d : m < s => dels[m].url_id < x.url_id
        BY <1>1, <2>7, <3>1
      <4>2. \A m \in 1..d : s < m => dels[m].url_id > x.url_id
        <5> SUFFICES ASSUME NEW m \in 1..d, s < m PROVE dels[m].url_id > x.url_id
          OBVIOUS
        <5>1. dels[s].url_id < dels[m].url_id
          BY <1>1, <3>1 DEF OnePerUrl
        <5> QED
          BY <1>2, <2>1, <2>4, <3>1, <5>1
      <4>3. \A m \in 1..d : dels[m].url_id = x.url_id => m = s
        BY <1>1, <1>2, <2>1, <3>1, <4>1, <4>2
      <4>4. dels[s].url_id >= x.url_id
        BY <2>4, <3>1
      <4> QED
        BY <1>1, <1>2, <2>1, <3>1, <4>3, <4>4 DEF NotOld
    <3> DEFINE S == {m \in 1..i : NotOld(dels, words[m])}
               S1 == {m \in 1..(i + 1) : NotOld(dels, words[m])}
    <3>5. Selects(kept, words, S)
      <4>1. i - tail = i
        BY <3>2
      <4> HIDE DEF tail
      <4> QED
        BY <2>3, <4>1 DEF tail
    <3>6. Selects(b.kept, words, S1) /\ b.kept \in Seq(Entries)
      <4>1. kept \in Seq(Entries)
        BY <2>3
      <4>2. 1..(i + 1) = 1..i \cup {i + 1} /\ i + 1 \notin 1..i
        OBVIOUS
      <4> HIDE DEF kept
      <4>3. CASE keeps
        <5>1. b.kept = Append(kept, words[i + 1]) /\ S1 = S \cup {i + 1} /\ i + 1 \notin S
          BY <3>4, <4>2, <4>3
        <5> HIDE DEF b, S, S1
        <5>2. Selects(b.kept, words, S1)
          <6>1. words[i + 1] \in Entries
            BY <2>1
          <6> HIDE DEF x
          <6>2. i + 1 \notin S
            BY <5>1
          <6> DEFINE w == i + 1
          <6> HIDE DEF w
          <6>3. Selects(Append(kept, words[w]), words, S \cup {w})
            <7>1. words[w] \in Entries /\ w \notin S
              BY <6>1, <6>2 DEF w
            <7> QED
              BY <3>5, <4>1, <7>1, SelectsOneMore
          <6> QED
            BY <5>1, <6>3 DEF w
        <5>3. b.kept \in Seq(Entries)
          BY <2>1, <4>1, <5>1, AppendProperties
        <5> QED
          BY <5>2, <5>3
      <4>4. CASE ~keeps
        <5>1. b.kept = kept /\ S1 = S
          BY <3>4, <4>2, <4>4
        <5> HIDE DEF b, S, S1
        <5> QED
          BY <3>5, <4>1, <5>1
      <4> QED
        BY <4>3, <4>4
    <3>7. b.tail = 0 /\ b.start = s
      OBVIOUS
    <3>8. \A m \in 1..(s - 1) : i + 1 # 0 /\ dels[m].url_id < words[i + 1].url_id
      BY <2>7
    <3>9. (i + 1) - 0 = i + 1 /\ 0 \in 0..(i + 1) /\ \A m \in ((i + 1) - 0 + 1)..(i + 1) : FALSE
      OBVIOUS
    <3> HIDE DEF b
    <3> QED
      BY <2>8, <3>3, <3>6, <3>7, <3>8, <3>9 DEF WalkedTo
  <2> QED
    BY <2>9, <2>10
<1>7. n \in T
  <2> HIDE DEF OK
  <2>1. 0 \in T
    BY <1>5
  <2>2. \A i \in Nat : i \in T => i + 1 \in T
    BY <1>1, <1>6
  <2> HIDE DEF T
  <2> QED
    BY <1>1, <2>1, <2>2, Induct
<1>8. OK(n)
  BY <1>1, <1>7
<1> QED
  BY <1>3, <1>8

\* A selection is as long as what it is selected by.
LEMMA SelectsLen ==
    ASSUME NEW R, NEW t \in Seq(R), NEW s, NEW S, Selects(t, s, S)
    PROVE  IsFiniteSet(S) /\ Cardinality(S) = Len(t)
<1>1. PICK h : SelectedBy(h, t, s, S)
  BY DEF Selects
<1>2. Len(t) \in Nat /\ DOMAIN t = 1..Len(t)
  BY LenProperties
<1> DEFINE f == [k \in 1..Len(t) |-> h[k]]
<1>3. f \in [1..Len(t) -> S] /\ \A k \in 1..Len(t) : f[k] = h[k]
  BY <1>1, <1>2 DEF SelectedBy
<1> HIDE DEF f
<1>4. f \in Injection(1..Len(t), S)
  BY <1>1, <1>2, <1>3 DEF SelectedBy, Injection, IsInjective
<1>5. f \in Surjection(1..Len(t), S)
  BY <1>1, <1>2, <1>3 DEF SelectedBy, Surjection
<1>6. f \in Bijection(1..Len(t), S)
  BY <1>4, <1>5 DEF Bijection
<1>7. IsFiniteSet(1..Len(t)) /\ Cardinality(1..Len(t)) = Len(t)
  BY <1>2, FS_Interval
<1> QED
  BY <1>6, <1>7, FS_Bijection DEF ExistsBijection

\* A selection from the beginning of s, and then the rest of s.
LEMMA SelectsRest ==
    ASSUME NEW R, NEW s \in Seq(R), NEW t \in Seq(R), NEW i \in 0..Len(s), NEW S \in SUBSET (1..i), Selects(t, s, S)
    PROVE  Selects(t \o SubSeq(s, i + 1, Len(s)), s, S \cup ((i + 1)..Len(s)))
<1> DEFINE n == Len(s)
           l == Len(t)
           r == SubSeq(s, i + 1, n)
           u == t \o r
<1>1. PICK h : SelectedBy(h, t, s, S)
  BY DEF Selects
<1>2. n \in Nat /\ l \in Nat /\ DOMAIN t = 1..l /\ \A k \in 1..n : s[k] \in R
  BY LenProperties, ElementOfSeq
<1>3. r \in Seq(R) /\ Len(r) = n - i /\ \A k \in 1..(n - i) : r[k] = s[i + k]
  <2>1. i + 1 \in Int /\ n \in Int /\ \A k \in (i + 1)..n : s[k] \in R
    BY <1>2
  <2> HIDE DEF n
  <2>2. /\ SubSeq(s, i + 1, n) \in Seq(R)
        /\ Len(SubSeq(s, i + 1, n)) = IF i + 1 <= n THEN n - (i + 1) + 1 ELSE 0
        /\ \A k \in 1..(n - (i + 1) + 1) : SubSeq(s, i + 1, n)[k] = s[(i + 1) + k - 1]
    BY <2>1, SubSeqProperties
  <2>3. n - (i + 1) + 1 = n - i /\ \A k \in 1..(n - i) : (i + 1) + k - 1 = i + k
    BY <1>2
  <2>4. i <= n
    BY DEF n
  <2> QED
    BY <1>2, <2>2, <2>3, <2>4
<1> HIDE DEF r
<1>4. /\ u \in Seq(R) /\ Len(u) = l + (n - i)
      /\ \A k \in 1..l : u[k] = t[k]
      /\ \A k \in (l + 1)..(l + (n - i)) : u[k] = s[k - l + i]
  <2>1. /\ u \in Seq(R) /\ Len(u) = l + Len(r)
        /\ \A k \in 1..(l + Len(r)) : u[k] = IF k <= l THEN t[k] ELSE r[k - l]
    BY <1>3, ConcatProperties
  <2> HIDE DEF u, l
  <2>2. \A k \in 1..l : k \in 1..(l + (n - i)) /\ k <= l
    BY <1>2
  <2>3. \A k \in (l + 1)..(l + (n - i)) : k \in 1..(l + (n - i)) /\ ~(k <= l) /\ k - l \in 1..(n - i) /\ i + (k - l) = k - l + i
    BY <1>2
  <2> QED
    BY <1>3, <2>1, <2>2, <2>3
<1>5. DOMAIN u = 1..(l + (n - i))
  <2> HIDE DEF u
  <2> QED
    BY <1>4, LenProperties
<1> HIDE DEF u
<1> DEFINE g == [k \in DOMAIN u |-> IF k <= l THEN h[k] ELSE k - l + i]
           S1 == S \cup ((i + 1)..n)
<1>6. \A k \in DOMAIN u : g[k] = IF k <= l THEN h[k] ELSE k - l + i
  OBVIOUS
<1> HIDE DEF g
<1>7. \A k \in DOMAIN u : k <= l => k \in DOMAIN t /\ g[k] = h[k] /\ g[k] \in S /\ g[k] \in 1..i
  <2> SUFFICES ASSUME NEW k \in DOMAIN u, k <= l
               PROVE  k \in DOMAIN t /\ g[k] = h[k] /\ g[k] \in S /\ g[k] \in 1..i
    OBVIOUS
  <2>1. k \in 1..l
    BY <1>2, <1>5
  <2>2. k \in DOMAIN t
    BY <1>2, <2>1
  <2>3. h[k] \in S
    BY <1>1, <2>2 DEF SelectedBy
  <2> QED
    BY <1>6, <2>2, <2>3
<1>8. \A k \in DOMAIN u : ~(k <= l) => k \in (l + 1)..(l + (n - i)) /\ g[k] = k - l + i /\ g[k] \in (i + 1)..n
  BY <1>2, <1>5, <1>6
<1>9. \A k \in DOMAIN u : g[k] \in S1 /\ u[k] = s[g[k]]
  BY <1>1, <1>2, <1>4, <1>7, <1>8 DEF SelectedBy
<1>10. ASSUME NEW m \in S1 PROVE \E k \in DOMAIN u : g[k] = m
  <2>1. CASE m \in S
    <3>1. PICK k \in DOMAIN t : h[k] = m
      BY <1>1, <2>1 DEF SelectedBy
    <3>2. k \in DOMAIN u /\ k <= l
      BY <1>2, <1>5, <3>1
    <3> QED
      BY <1>7, <3>1, <3>2
  <2>2. CASE m \in (i + 1)..n
    <3>1. m - i + l \in DOMAIN u /\ ~(m - i + l <= l) /\ (m - i + l) - l + i = m
      BY <1>2, <1>5, <2>2
    <3> QED
      BY <1>8, <3>1
  <2> QED
    BY <1>10, <2>1, <2>2
<1>11. ASSUME NEW a \in DOMAIN u, NEW b \in DOMAIN u, g[a] = g[b] PROVE a = b
  <2>1. CASE a <= l /\ b <= l
    BY <1>1, <1>7, <1>11, <2>1 DEF SelectedBy
  <2>2. CASE ~(a <= l) /\ ~(b <= l)
    <3>1. a - l + i = b - l + i /\ a \in Int /\ b \in Int
      BY <1>2, <1>5, <1>8, <1>11, <2>2
    <3> QED
      BY <1>2, <3>1
  <2>3. ~(a <= l /\ ~(b <= l)) /\ ~(b <= l /\ ~(a <= l))
    BY <1>7, <1>8, <1>11
  <2> QED
    BY <2>1, <2>2, <2>3
<1>12. SelectedBy(g, u, s, S1)
  BY <1>9, <1>10, <1>11 DEF SelectedBy
<1> QED
  BY <1>12 DEF Selects, u, r

\* DpsRemoveOldWords, where it moves no parts, leaves the words that are not old.
LEMMA OldWordsAway ==
    ASSUME NEW words \in Seq(Entries), ByUrl(words), NEW dels, OnePerUrl(dels),
           \/ \A k \in DOMAIN words : NotOld(dels, words[k])
           \/ \A k \in DOMAIN words : ~Beyond(dels, words[k])
    PROVE  Selects(RemoveOldWords(words, dels), words, {k \in DOMAIN words : NotOld(dels, words[k])})
<1> DEFINE n == Len(words)
           w == Walk(words, dels)
           kept == w.kept
           tail == w.tail
           i == n - tail
           S == {k \in DOMAIN words : NotOld(dels, words[k])}
           S0 == {m \in 1..(n - tail) : NotOld(dels, words[m])}
<1>1. n \in Nat /\ DOMAIN words = 1..n
  BY LenProperties
<1>2. CASE dels = <<>> \/ words = <<>>
  <2>1. RemoveOldWords(words, dels) = words
    BY <1>2 DEF RemoveOldWords
  <2>2. S = DOMAIN words
    <3>1. CASE dels = <<>>
      <4>1. DOMAIN dels = {}
        BY <3>1
      <4> QED
        BY <4>1 DEF NotOld
    <3>2. CASE words = <<>>
      BY <3>2
    <3> QED
      BY <1>2, <3>1, <3>2
  <2> HIDE DEF S
  <2>3. Selects(words, words, S)
    BY <2>2, SelectsAll
  <2> QED
    BY <2>1, <2>3 DEF S
<1>3. CASE ~(dels = <<>> \/ words = <<>>)
  <2>1. WalkedTo(w, words, dels, n)
    BY WalkSelects
  <2> HIDE DEF w
  <2>2. /\ kept \in Seq(Entries) /\ tail \in 0..n
        /\ Selects(kept, words, S0)
        /\ \A m \in (i + 1)..n : Beyond(dels, words[m])
    BY <2>1 DEF WalkedTo
  <2>3. i \in 0..n
    BY <1>1, <2>2
  <2>4. tail = 0 \/ i = Len(kept)
    <3>1. CASE \A k \in DOMAIN words : NotOld(dels, words[k])
      <4>1. S0 = 1..i
        BY <1>1, <2>2, <3>1
      <4>2. Cardinality(S0) = Len(kept)
        <5> HIDE DEF S0, kept
        <5> QED
          BY <2>2, SelectsLen
      <4>3. Cardinality(1..i) = i
        <5> HIDE DEF i
        <5>1. i \in Nat
          BY <1>1, <2>3
        <5> QED
          BY <5>1, FS_Interval
      <4> QED
        BY <4>1, <4>2, <4>3
    <3>2. CASE \A k \in DOMAIN words : ~Beyond(dels, words[k])
      <4> SUFFICES ASSUME tail # 0 PROVE FALSE
        OBVIOUS
      <4>1. n \in (i + 1)..n /\ n \in 1..n
        BY <1>1, <2>2
      <4> QED
        BY <1>1, <2>2, <3>2, <4>1
    <3> QED
      BY <3>1, <3>2
  <2>5. RemoveOldWords(words, dels) = kept \o SubSeq(words, i + 1, n)
    BY <1>3, <2>4 DEF RemoveOldWords, w
  <2>6. S0 \cup ((i + 1)..n) = S
    <3>1. \A m \in (i + 1)..n : NotOld(dels, words[m])
      <4> SUFFICES ASSUME NEW m \in (i + 1)..n, NEW k \in DOMAIN dels, dels[k].url_id = words[m].url_id
                   PROVE  FALSE
        BY DEF NotOld
      <4>1. dels[k].url_id < words[m].url_id
        BY <2>2 DEF Beyond
      <4>2. m \in 1..n
        BY <1>1, <2>3
      <4>3. words[m] \in Entries
        BY <1>1, <4>2, ElementOfSeq
      <4>4. words[m].url_id \in Int
        BY <4>3 DEF Entries
      <4> QED
        BY <4>1, <4>4
    <3>2. 1..n = 1..i \cup ((i + 1)..n)
      BY <1>1, <2>3
    <3> QED
      BY <1>1, <3>1, <3>2
  <2>7. S0 \in SUBSET (1..i)
    OBVIOUS
  <2> HIDE DEF S0, S, kept, tail, i
  <2>8. Selects(kept \o SubSeq(words, i + 1, n), words, S0 \cup ((i + 1)..n))
    BY <2>2, <2>3, <2>7, SelectsRest DEF i
  <2> QED
    BY <2>5, <2>6, <2>8 DEF S
<1> QED
  BY <1>2, <1>3

\* DpsSort by url and time.
LEMMA LatestSelects ==
    ASSUME NEW s \in Seq(Entries)
    PROVE  LET t == DpsSort(s, Cmplog) IN t \in Seq(Entries) /\ Selects(t, s, DOMAIN s) /\ ByUrl(t)
<1> DEFINE ahead == [i \in DOMAIN s |-> {j \in DOMAIN s : \/ Cmplog(s[j], s[i])
                                                          \/ ~Cmplog(s[i], s[j]) /\ j < i}]
           t == DpsSort(s, Cmplog)
<1>1. Ranks(ahead)
  BY LatestRanks
<1>2. t = InOrder(s, ahead) /\ DOMAIN ahead = DOMAIN s
  BY DEF DpsSort
<1>3. \A i, j \in DOMAIN s : j \in ahead[i] => s[j].url_id <= s[i].url_id
  <2>1. \A i \in DOMAIN s : s[i] \in Entries
    BY LenProperties, ElementOfSeq
  <2>2. \A i \in DOMAIN s : s[i].stamp \in Int /\ s[i].url_id \in Int
    BY <2>1 DEF Entries
  <2> QED
    BY <2>2 DEF Cmplog
<1> HIDE DEF ahead, t
<1>4. Selects(t, s, DOMAIN s)
  BY <1>1, <1>2, OrderedSelects
<1>5. /\ t \in Seq(Entries) /\ Len(t) = Cardinality(DOMAIN s)
      /\ \A k \in 1..Len(t) : At(ahead, k) \in DOMAIN s /\ t[k] = s[At(ahead, k)]
      /\ \A k, l \in 1..Len(t) : k < l => At(ahead, k) \in ahead[At(ahead, l)]
  BY <1>1, <1>2, Ordered
<1>6. DOMAIN t = 1..Len(t)
  BY <1>5, LenProperties
<1>7. ByUrl(t)
  BY <1>3, <1>5, <1>6 DEF ByUrl
<1> QED
  BY <1>4, <1>5, <1>7 DEF t

\* DpsSort by word, url and coordinate.
LEMMA WordsSelect ==
    ASSUME NEW s \in Seq(Entries)
    PROVE  Selects(DpsSort(s, Cmplog_wrd), s, DOMAIN s)
<1> DEFINE ahead == [i \in DOMAIN s |-> {j \in DOMAIN s : \/ Cmplog_wrd(s[j], s[i])
                                                          \/ ~Cmplog_wrd(s[i], s[j]) /\ j < i}]
<1>1. Ranks(ahead)
  BY WordRanks
<1>2. DpsSort(s, Cmplog_wrd) = InOrder(s, ahead) /\ DOMAIN ahead = DOMAIN s
  BY DEF DpsSort
<1> HIDE DEF ahead
<1> QED
  BY <1>1, <1>2, OrderedSelects

-----------------------------------------------------------------------------
(* The postings of a record. *)

\* In the order of the wrd files.
Ascending(s) == \A k, l \in DOMAIN s : k < l => ~CrdAfter(s[k], s[l])

Postings == [url_id : Int, coord : Int]

LEMMA AscendingAppend ==
    ASSUME NEW R, NEW s \in Seq(R), NEW x \in R, Ascending(s),
           \A k \in DOMAIN s : ~CrdAfter(s[k], x)
    PROVE  Append(s, x) \in Seq(R) /\ Ascending(Append(s, x))
<1> DEFINE t == Append(s, x)
<1>1. /\ t \in Seq(R) /\ Len(s) \in Nat /\ DOMAIN s = 1..Len(s) /\ DOMAIN t = 1..(Len(s) + 1)
      /\ \A i \in 1..Len(s) : t[i] = s[i]
      /\ t[Len(s) + 1] = x
  BY AppendProperties, LenProperties
<1> HIDE DEF t
<1>2. ASSUME NEW k \in DOMAIN t, NEW l \in DOMAIN t, k < l PROVE ~CrdAfter(t[k], t[l])
  <2>1. k \in DOMAIN s /\ t[k] = s[k]
    BY <1>1, <1>2
  <2>2. CASE l = Len(s) + 1
    BY <1>1, <2>1, <2>2
  <2>3. CASE l # Len(s) + 1
    <3>1. l \in DOMAIN s /\ t[l] = s[l]
      BY <1>1, <2>3
    <3> QED
      BY <1>2, <2>1, <3>1 DEF Ascending
  <2> QED
    BY <2>2, <2>3
<1>3. Ascending(t)
  BY <1>2 DEF Ascending
<1> QED
  BY <1>1, <1>3 DEF t

\* The words of w in a sorted buffer make postings in order.
LEMMA AddedAscends ==
    ASSUME NEW A \in SUBSET Int, NEW B \in SUBSET Int, NEW C \in SUBSET Int, NEW D \in SUBSET Int,
           NEW words \in Seq([stamp : A, url_id : B, wrd_id : C, coord : D]), Sequential(words), NEW w
    PROVE  Added(words, w) \in Seq([url_id : B, coord : D]) /\ Ascending(Added(words, w))
<1> DEFINE W == [stamp : A, url_id : B, wrd_id : C, coord : D]
           mine == {i \in DOMAIN words : words[i].wrd_id = w}
           ahead == [i \in mine |-> {j \in mine : j < i}]
           mid == InOrder(words, ahead)
           crds == Added(words, w)
           n == Cardinality(mine)
<1>1. DOMAIN ahead = mine /\ Ranks(ahead) /\ mine \subseteq DOMAIN words
  BY IndexRanks
<1>2. /\ mid \in Seq(W) /\ Len(mid) = n
      /\ \A k \in 1..n : At(ahead, k) \in mine /\ mid[k] = words[At(ahead, k)]
      /\ \A k, l \in 1..n : k < l => At(ahead, k) \in ahead[At(ahead, l)]
  <2> HIDE DEF mine, ahead, mid
  <2>1. mid = InOrder(words, ahead) /\ words \in Seq(W)
    BY DEF mid
  <2> HIDE DEF W
  <2> QED
    BY <1>1, <2>1, Ordered
<1>3. DOMAIN mid = 1..n /\ n \in Nat /\ \A k \in 1..n : mid[k] \in W
  <2> HIDE DEF mid, n, W, mine
  <2> QED
    BY <1>2, LenProperties, ElementOfSeq
<1>4. crds = [k \in 1..n |-> Crd(mid[k].url_id, mid[k].coord)]
  <2>1. crds = [k \in DOMAIN mid |-> Crd(mid[k].url_id, mid[k].coord)]
    BY DEF Added
  <2> HIDE DEF mid, n, crds
  <2> QED
    BY <1>3, <2>1
<1> HIDE DEF crds, mid, n, ahead, mine
<1>5. \A k \in 1..n : crds[k] = Crd(mid[k].url_id, mid[k].coord)
  BY <1>4
<1>6. crds \in [1..n -> [url_id : B, coord : D]]
  BY <1>3, <1>4 DEF Crd
<1>7. crds \in Seq([url_id : B, coord : D]) /\ DOMAIN crds = 1..n
  BY <1>3, <1>6, FunctionIsSeq
<1>8. ASSUME NEW k \in 1..n, NEW l \in 1..n, k < l PROVE ~CrdAfter(crds[k], crds[l])
  <2> DEFINE i == At(ahead, k)
             j == At(ahead, l)
  <2>1. i \in mine /\ j \in mine /\ mid[k] = words[i] /\ mid[l] = words[j] /\ i \in ahead[j]
    BY <1>2, <1>8
  <2>2. i \in DOMAIN words /\ j \in DOMAIN words /\ i < j /\ words[i].wrd_id = w /\ words[j].wrd_id = w
    BY <2>1 DEF mine, ahead
  <2> HIDE DEF i, j
  <2>3. ~Cmplog_wrd(words[j], words[i])
    BY <2>2 DEF Sequential
  <2>4. words[i] \in W /\ words[j] \in W
    BY <1>3, <2>1
  <2>5. /\ words[i].wrd_id \in Int /\ words[i].url_id \in Int /\ words[i].coord \in Int
        /\ words[j].wrd_id \in Int /\ words[j].url_id \in Int /\ words[j].coord \in Int
    BY <2>4
  <2>6. crds[k] = Crd(words[i].url_id, words[i].coord) /\ crds[l] = Crd(words[j].url_id, words[j].coord)
    BY <1>5, <2>1
  <2> QED
    BY <2>2, <2>3, <2>5, <2>6 DEF Cmplog_wrd, CrdAfter, Crd
<1>9. Ascending(crds)
  BY <1>7, <1>8 DEF Ascending
<1> QED
  BY <1>7, <1>9 DEF crds

CrdsOn(crds, dels, before, i) ==
    LET x == crds[i]
        s == NextDel(dels, before.start, x.url_id)
    IN [start |-> s,
        kept  |-> IF s <= Len(dels) /\ dels[s].url_id = x.url_id
                  THEN before.kept ELSE Append(before.kept, x)]

CrdsBegin == [start |-> 1, kept |-> <<>>]

CrdsTo(crds, dels, n, g) ==
    g = [i \in 0..n |-> IF i = 0 THEN CrdsBegin ELSE CrdsOn(crds, dels, g[i - 1], i)]

LEMMA CrdsToExists ==
    ASSUME NEW crds, NEW dels
    PROVE  \A n \in Nat : \E g : CrdsTo(crds, dels, n, g)
<1> DEFINE T == {n \in Nat : \E g : CrdsTo(crds, dels, n, g)}
<1>1. 0 \in T
  <2>1. CrdsTo(crds, dels, 0, [i \in 0..0 |-> CrdsBegin])
    BY DEF CrdsTo
  <2> QED
    BY <2>1
<1>2. ASSUME NEW n \in Nat, n \in T PROVE n + 1 \in T
  <2>1. PICK g : CrdsTo(crds, dels, n, g)
    BY <1>2
  <2> DEFINE new == CrdsOn(crds, dels, g[n], n + 1)
             h == [i \in 0..(n + 1) |-> IF i = n + 1 THEN new ELSE g[i]]
             Rule(i) == IF i = 0 THEN CrdsBegin ELSE CrdsOn(crds, dels, h[i - 1], i)
  <2>2. \A i \in 0..n : g[i] = IF i = 0 THEN CrdsBegin ELSE CrdsOn(crds, dels, g[i - 1], i)
    BY <2>1 DEF CrdsTo
  <2>3. h[n + 1] = new /\ \A i \in 0..n : h[i] = g[i]
    OBVIOUS
  <2>4. h = [i \in 0..(n + 1) |-> h[i]]
    OBVIOUS
  <2> HIDE DEF h
  <2>5. ASSUME NEW i \in 0..(n + 1) PROVE h[i] = Rule(i)
    <3>1. CASE i = n + 1
      <4>1. i # 0 /\ i - 1 = n /\ n \in 0..n
        BY <3>1
      <4> QED
        BY <2>3, <3>1, <4>1
    <3>2. CASE i # n + 1
      <4>1. i \in 0..n /\ (i # 0 => i - 1 \in 0..n)
        BY <3>2
      <4> QED
        BY <2>2, <2>3, <4>1
    <3> QED
      BY <3>1, <3>2
  <2>6. h = [i \in 0..(n + 1) |-> Rule(i)]
    <3> HIDE DEF Rule
    <3> QED
      BY <2>4, <2>5
  <2>7. CrdsTo(crds, dels, n + 1, h)
    BY <2>6 DEF CrdsTo
  <2> QED
    BY <2>7
<1> HIDE DEF T
<1>3. \A n \in Nat : n \in T
  BY <1>1, <1>2, Induct
<1> QED
  BY <1>3 DEF T

LEMMA CrdsIs ==
    ASSUME NEW crds, NEW dels, Len(crds) \in Nat
    PROVE  \E g : CrdsTo(crds, dels, Len(crds), g) /\ RemoveOldCrds(crds, dels) = g[Len(crds)].kept
<1> DEFINE g == CHOOSE g : CrdsTo(crds, dels, Len(crds), g)
<1>1. CrdsTo(crds, dels, Len(crds), g)
  BY CrdsToExists
<1>2. RemoveOldCrds(crds, dels) = g[Len(crds)].kept
  BY DEF RemoveOldCrds, CrdsTo, CrdsOn, CrdsBegin
<1> QED
  BY <1>1, <1>2

\* The postings that stay are in order if all were.
LEMMA OldCrdsRemoved ==
    ASSUME NEW R, NEW crds \in Seq(R), Ascending(crds), NEW dels
    PROVE  RemoveOldCrds(crds, dels) \in Seq(R) /\ Ascending(RemoveOldCrds(crds, dels))
<1>1. Len(crds) \in Nat /\ DOMAIN crds = 1..Len(crds) /\ \A i \in 1..Len(crds) : crds[i] \in R
  BY LenProperties, ElementOfSeq
<1>2. PICK g : CrdsTo(crds, dels, Len(crds), g) /\ RemoveOldCrds(crds, dels) = g[Len(crds)].kept
  BY <1>1, CrdsIs
<1> DEFINE From(s, i) == \A k \in DOMAIN s : \E m \in 1..i : s[k] = crds[m]
           OK(i) == g[i].kept \in Seq(R) /\ Ascending(g[i].kept) /\ From(g[i].kept, i)
           T == {i \in Nat : i <= Len(crds) => OK(i)}
<1>3. g[0] = CrdsBegin /\ \A i \in 1..Len(crds) : g[i] = CrdsOn(crds, dels, g[i - 1], i)
  BY <1>1, <1>2 DEF CrdsTo
<1>4. OK(0)
  <2>1. g[0].kept = <<>> /\ <<>> \in Seq(R) /\ DOMAIN <<>> = {}
    BY <1>3 DEF CrdsBegin
  <2> QED
    BY <2>1 DEF Ascending
<1>5. ASSUME NEW i \in Nat, i + 1 <= Len(crds), OK(i) PROVE OK(i + 1)
  <2> DEFINE s == g[i].kept
             x == crds[i + 1]
  <2>1. i + 1 \in 1..Len(crds) /\ (i + 1) - 1 = i /\ x \in R
    BY <1>1, <1>5
  <2>2. g[i + 1] = CrdsOn(crds, dels, g[i], i + 1)
    BY <1>3, <2>1
  <2>3. g[i + 1].kept \in {s, Append(s, x)}
    BY <2>2 DEF CrdsOn
  <2>4. s \in Seq(R) /\ Ascending(s) /\ From(s, i)
    BY <1>5
  <2> HIDE DEF s, x
  <2>5. From(s, i + 1)
    <3>1. \A m \in 1..i : m \in 1..(i + 1)
      OBVIOUS
    <3> QED
      BY <2>4, <3>1
  <2>6. Append(s, x) \in Seq(R) /\ Ascending(Append(s, x))
    <3>1. ASSUME NEW k \in DOMAIN s PROVE ~CrdAfter(s[k], x)
      <4>1. PICK m \in 1..i : s[k] = crds[m]
        BY <2>4
      <4>2. m \in DOMAIN crds /\ i + 1 \in DOMAIN crds /\ m < i + 1
        BY <1>1, <1>5
      <4> QED
        BY <4>1, <4>2 DEF Ascending, x
    <3> QED
      BY <2>1, <2>4, <3>1, AscendingAppend
  <2>7. From(Append(s, x), i + 1)
    <3>1. /\ Len(s) \in Nat /\ DOMAIN s = 1..Len(s) /\ DOMAIN Append(s, x) = 1..(Len(s) + 1)
          /\ \A k \in 1..Len(s) : Append(s, x)[k] = s[k]
          /\ Append(s, x)[Len(s) + 1] = x
      BY <2>1, <2>4, AppendProperties, LenProperties
    <3>2. i + 1 \in 1..(i + 1)
      OBVIOUS
    <3> QED
      BY <2>5, <3>1, <3>2 DEF x
  <2> HIDE DEF From
  <2>8. CASE g[i + 1].kept = s
    BY <2>4, <2>5, <2>8
  <2>9. CASE g[i + 1].kept = Append(s, x)
    BY <2>6, <2>7, <2>9
  <2> QED
    BY <2>3, <2>8, <2>9
<1>6. Len(crds) \in T
  <2> HIDE DEF OK
  <2>1. 0 \in T
    BY <1>4
  <2>2. \A i \in Nat : i \in T => i + 1 \in T
    BY <1>1, <1>5
  <2> HIDE DEF T
  <2> QED
    BY <1>1, <2>1, <2>2, Induct
<1> QED
  BY <1>1, <1>2, <1>6

-----------------------------------------------------------------------------
(* The merge. *)

\* One step of the merge, for the first p[1] old and the first p[2] new postings.
MergeOn(old, new, g, p) ==
    LET j == p[1]
        z == p[2]
    IN IF z = 0 THEN SubSeq(old, 1, j)
       ELSE IF j > 0 /\ CrdAfter(old[j], new[z]) THEN Append(g[<<j - 1, z>>], old[j])
       ELSE Append(g[<<j, z - 1>>], new[z])

MergeTo(old, new, g) ==
    g = [p \in (0..Len(old)) \X (0..Len(new)) |-> MergeOn(old, new, g, p)]

\* A step looks at fewer postings only.
\* The parts of two merges, of up to n postings, and what they are made into.
AlikeTo(old, new, n, h, g) ==
    \A p \in (0..Len(old)) \X (0..Len(new)) : p[1] + p[2] <= n => h[p] = g[p]
MergedAlikeTo(old, new, n, h, g) ==
    \A p \in (0..Len(old)) \X (0..Len(new)) :
        p[1] + p[2] <= n => MergeOn(old, new, h, p) = MergeOn(old, new, g, p)

LEMMA MergeLooksBack ==
    ASSUME NEW old, NEW new, Len(old) \in Nat, Len(new) \in Nat, NEW n \in Nat, NEW h, NEW g,
           AlikeTo(old, new, n, h, g)
    PROVE  MergedAlikeTo(old, new, n + 1, h, g)
<1>a. \A p \in (0..Len(old)) \X (0..Len(new)) : p[1] + p[2] <= n => h[p] = g[p]
  BY DEF AlikeTo
<1> SUFFICES ASSUME NEW j \in 0..Len(old), NEW z \in 0..Len(new), j + z <= n + 1
             PROVE  MergeOn(old, new, h, <<j, z>>) = MergeOn(old, new, g, <<j, z>>)
  BY DEF MergedAlikeTo
<1>1. z # 0 => h[<<j, z - 1>>] = g[<<j, z - 1>>]
  <2> SUFFICES ASSUME z # 0 PROVE h[<<j, z - 1>>] = g[<<j, z - 1>>]
    OBVIOUS
  <2>1. z - 1 \in 0..Len(new) /\ j + (z - 1) <= n
    OBVIOUS
  <2> QED
    BY <1>a, <2>1
<1>2. j > 0 => h[<<j - 1, z>>] = g[<<j - 1, z>>]
  <2> SUFFICES ASSUME j > 0 PROVE h[<<j - 1, z>>] = g[<<j - 1, z>>]
    OBVIOUS
  <2>1. j - 1 \in 0..Len(old) /\ (j - 1) + z <= n
    OBVIOUS
  <2> QED
    BY <1>a, <2>1
<1> QED
  BY <1>1, <1>2 DEF MergeOn

LEMMA MergeToExists ==
    ASSUME NEW old, NEW new, Len(old) \in Nat, Len(new) \in Nat
    PROVE  \E g : MergeTo(old, new, g)
<1> DEFINE D == (0..Len(old)) \X (0..Len(new))
           Fits(g, n) == \A p \in D : p[1] + p[2] <= n => g[p] = MergeOn(old, new, g, p)
           T == {n \in Nat : \E g : g = [p \in D |-> g[p]] /\ Fits(g, n)}
<1>d. \A p \in D : p[1] \in 0..Len(old) /\ p[2] \in 0..Len(new) /\ p = <<p[1], p[2]>>
  OBVIOUS
<1>1. 0 \in T
  <2> DEFINE g == [p \in D |-> MergeOn(old, new, <<>>, p)]
  <2>1. g = [p \in D |-> g[p]]
    OBVIOUS
  <2>2. ASSUME NEW p \in D, p[1] + p[2] <= 0 PROVE MergeOn(old, new, <<>>, p) = MergeOn(old, new, g, p)
    <3>1. p[2] = 0
      BY <1>d, <2>2
    <3> HIDE DEF g, D
    <3> QED
      BY <3>1 DEF MergeOn
  <2>3. Fits(g, 0)
    BY <2>2
  <2> HIDE DEF g, Fits
  <2> QED
    BY <2>1, <2>3
<1>2. ASSUME NEW n \in Nat, n \in T PROVE n + 1 \in T
  <2>1. PICK g : Fits(g, n)
    BY <1>2
  <2> DEFINE h == [p \in D |-> IF p[1] + p[2] <= n THEN g[p] ELSE MergeOn(old, new, g, p)]
  <2>2. h = [p \in D |-> h[p]]
    OBVIOUS
  <2>3. /\ \A p \in D : p[1] + p[2] <= n => h[p] = g[p]
        /\ \A p \in D : ~(p[1] + p[2] <= n) => h[p] = MergeOn(old, new, g, p)
    OBVIOUS
  <2> HIDE DEF h
  <2>4. \A p \in D : p[1] + p[2] <= n + 1 => MergeOn(old, new, h, p) = MergeOn(old, new, g, p)
    <3>1. \A p \in (0..Len(old)) \X (0..Len(new)) : p[1] + p[2] <= n => h[p] = g[p]
      BY <2>3
    <3>2. AlikeTo(old, new, n, h, g)
      BY <3>1 DEF AlikeTo
    <3>3. MergedAlikeTo(old, new, n + 1, h, g)
      <4> HIDE DEF T, Fits, D
      <4> QED
        BY <3>2, MergeLooksBack
    <3> QED
      BY <3>3 DEF MergedAlikeTo
  <2>5. Fits(h, n + 1)
    <3> SUFFICES ASSUME NEW p \in D, p[1] + p[2] <= n + 1 PROVE h[p] = MergeOn(old, new, h, p)
      OBVIOUS
    <3>1. MergeOn(old, new, h, p) = MergeOn(old, new, g, p)
      BY <2>4
    <3> HIDE DEF D
    <3> QED
      BY <2>1, <2>3, <3>1
  <2> HIDE DEF Fits
  <2> QED
    BY <2>2, <2>5
<1>3. Len(old) + Len(new) \in T
  <2> HIDE DEF T
  <2> QED
    BY <1>1, <1>2, Induct
<1>4. PICK g : g = [p \in D |-> g[p]] /\ Fits(g, Len(old) + Len(new))
  BY <1>3
<1>5. \A p \in D : g[p] = MergeOn(old, new, g, p)
  <2>1. \A p \in D : p[1] + p[2] <= Len(old) + Len(new)
    BY <1>d
  <2> QED
    BY <1>4, <2>1
<1>6. g = [p \in D |-> MergeOn(old, new, g, p)]
  <2> HIDE DEF D
  <2> QED
    BY <1>4, <1>5
<1> QED
  BY <1>6 DEF MergeTo

LEMMA MergeIs ==
    ASSUME NEW old, NEW new, Len(old) \in Nat, Len(new) \in Nat
    PROVE  \E g : MergeTo(old, new, g) /\ Merge(old, new) = g[<<Len(old), Len(new)>>]
<1> DEFINE g == CHOOSE g : MergeTo(old, new, g)
<1>1. MergeTo(old, new, g)
  BY MergeToExists
<1>2. Merge(old, new) = g[<<Len(old), Len(new)>>]
  BY DEF Merge, MergeTo, MergeOn
<1> QED
  BY <1>1, <1>2

\* Each posting of a merge is one of its first j old or its first z new ones.
FromBoth(s, old, j, new, z) ==
    \A k \in DOMAIN s : (\E a \in 1..j : s[k] = old[a]) \/ (\E b \in 1..z : s[k] = new[b])

\* The merge of two records that are in order is in order.
LEMMA MergeAscends ==
    ASSUME NEW R \in SUBSET Postings, NEW old \in Seq(R), NEW new \in Seq(R), Ascending(old), Ascending(new)
    PROVE  Merge(old, new) \in Seq(R) /\ Ascending(Merge(old, new))
<1>1. /\ Len(old) \in Nat /\ DOMAIN old = 1..Len(old) /\ \A i \in 1..Len(old) : old[i] \in R
      /\ Len(new) \in Nat /\ DOMAIN new = 1..Len(new) /\ \A i \in 1..Len(new) : new[i] \in R
  BY LenProperties, ElementOfSeq
<1>2. PICK g : MergeTo(old, new, g) /\ Merge(old, new) = g[<<Len(old), Len(new)>>]
  BY <1>1, MergeIs
<1> DEFINE OK(j, z) == /\ g[<<j, z>>] \in Seq(R) /\ Ascending(g[<<j, z>>])
                       /\ FromBoth(g[<<j, z>>], old, j, new, z)
           T == {n \in Nat : \A j \in 0..Len(old), z \in 0..Len(new) : j + z <= n => OK(j, z)}
<1>3. \A j \in 0..Len(old), z \in 0..Len(new) : g[<<j, z>>] = MergeOn(old, new, g, <<j, z>>)
  BY <1>2 DEF MergeTo
<1>o. \A x, y \in R : x.url_id \in Int /\ x.coord \in Int /\ y.url_id \in Int /\ y.coord \in Int
  BY DEF Postings
<1>4. ASSUME NEW j \in 0..Len(old) PROVE OK(j, 0)
  <2> DEFINE s == SubSeq(old, 1, j)
  <2>1. g[<<j, 0>>] = s
    <3>1. 0 \in 0..Len(new)
      BY <1>1
    <3> QED
      BY <1>3, <3>1 DEF MergeOn
  <2>2. 1 \in Int /\ j \in Int /\ \A i \in 1..j : old[i] \in R
    BY <1>1
  <2>3. /\ s \in Seq(R) /\ Len(s) = IF 1 <= j THEN j - 1 + 1 ELSE 0
        /\ \A i \in 1..(j - 1 + 1) : s[i] = old[1 + i - 1]
    BY <2>2, SubSeqProperties
  <2> HIDE DEF s
  <2>4. s \in Seq(R) /\ DOMAIN s = 1..j /\ \A i \in 1..j : s[i] = old[i]
    <3>1. DOMAIN s = 1..Len(s)
      BY <2>3, LenProperties
    <3> QED
      BY <1>1, <2>3, <3>1
  <2>5. 1..j \subseteq DOMAIN old
    BY <1>1
  <2>6. Ascending(s)
    BY <2>4, <2>5 DEF Ascending
  <2>7. FromBoth(s, old, j, new, 0)
    BY <2>4 DEF FromBoth
  <2> QED
    BY <2>1, <2>4, <2>6, <2>7
<1>5. ASSUME NEW j \in 0..Len(old), NEW z \in 0..Len(new), z # 0,
             j > 0 => OK(j - 1, z), OK(j, z - 1)
      PROVE  OK(j, z)
  <2>z. z \in 1..Len(new) /\ new[z] \in R /\ z \in DOMAIN new
    BY <1>1, <1>5
  <2>1. CASE j > 0 /\ CrdAfter(old[j], new[z])
    <3> DEFINE s == g[<<j - 1, z>>]
               x == old[j]
    <3>1. g[<<j, z>>] = Append(s, x)
      BY <1>3, <1>5, <2>1 DEF MergeOn
    <3>2. s \in Seq(R) /\ Ascending(s) /\ FromBoth(s, old, j - 1, new, z)
      BY <1>5, <2>1
    <3>3. j \in 1..Len(old) /\ x \in R /\ j \in DOMAIN old
      BY <1>1, <2>1
    <3> HIDE DEF s
    <3>4. ASSUME NEW k \in DOMAIN s PROVE ~CrdAfter(s[k], x)
      <4>1. CASE \E a \in 1..(j - 1) : s[k] = old[a]
        <5>1. PICK a \in 1..(j - 1) : s[k] = old[a]
          BY <4>1
        <5>2. a \in DOMAIN old /\ a < j
          BY <1>1, <3>3
        <5> QED
          BY <3>3, <5>1, <5>2 DEF Ascending
      <4>2. CASE \E b \in 1..z : s[k] = new[b]
        <5>1. PICK b \in 1..z : s[k] = new[b]
          BY <4>2
        <5>2. b \in 1..Len(new) /\ new[b] \in R
          BY <1>1, <2>z
        <5>3. b = z \/ ~CrdAfter(new[b], new[z])
          <6> SUFFICES ASSUME b # z PROVE ~CrdAfter(new[b], new[z])
            OBVIOUS
          <6>1. b \in DOMAIN new /\ b < z
            BY <1>1, <5>2
          <6> QED
            BY <2>z, <6>1 DEF Ascending
        <5>4. CrdAfter(x, new[z])
          BY <2>1
        <5> HIDE DEF x
        <5> QED
          BY <1>o, <2>z, <3>3, <5>1, <5>2, <5>3, <5>4 DEF CrdAfter
      <4> QED
        BY <3>2, <3>4, <4>1, <4>2 DEF FromBoth
    <3>5. Append(s, x) \in Seq(R) /\ Ascending(Append(s, x))
      BY <3>2, <3>3, <3>4, AscendingAppend
    <3>6. FromBoth(Append(s, x), old, j, new, z)
      <4>1. /\ Len(s) \in Nat /\ DOMAIN s = 1..Len(s) /\ DOMAIN Append(s, x) = 1..(Len(s) + 1)
            /\ \A k \in 1..Len(s) : Append(s, x)[k] = s[k]
            /\ Append(s, x)[Len(s) + 1] = x
        BY <3>2, <3>3, AppendProperties, LenProperties
      <4>2. \A a \in 1..(j - 1) : a \in 1..j
        OBVIOUS
      <4>3. j \in 1..j
        BY <3>3
      <4>4. ASSUME NEW k \in DOMAIN Append(s, x)
            PROVE  (\E a \in 1..j : Append(s, x)[k] = old[a]) \/ (\E b \in 1..z : Append(s, x)[k] = new[b])
        <5>1. CASE k = Len(s) + 1
          BY <4>1, <4>3, <5>1
        <5>2. CASE k # Len(s) + 1
          <6>1. k \in DOMAIN s /\ Append(s, x)[k] = s[k]
            BY <4>1, <5>2
          <6> QED
            BY <3>2, <4>2, <6>1 DEF FromBoth
        <5> QED
          BY <5>1, <5>2
      <4> QED
        BY <4>4 DEF FromBoth
    <3> QED
      BY <3>1, <3>5, <3>6
  <2>2. CASE ~(j > 0 /\ CrdAfter(old[j], new[z]))
    <3> DEFINE s == g[<<j, z - 1>>]
               x == new[z]
    <3>1. g[<<j, z>>] = Append(s, x)
      BY <1>3, <1>5, <2>2 DEF MergeOn
    <3>2. s \in Seq(R) /\ Ascending(s) /\ FromBoth(s, old, j, new, z - 1)
      BY <1>5
    <3> HIDE DEF s
    <3>4. ASSUME NEW k \in DOMAIN s PROVE ~CrdAfter(s[k], x)
      <4>1. CASE \E b \in 1..(z - 1) : s[k] = new[b]
        <5>1. PICK b \in 1..(z - 1) : s[k] = new[b]
          BY <4>1
        <5>2. b \in DOMAIN new /\ b < z
          BY <1>1, <2>z
        <5> QED
          BY <2>z, <5>1, <5>2 DEF Ascending
      <4>2. CASE \E a \in 1..j : s[k] = old[a]
        <5>1. PICK a \in 1..j : s[k] = old[a]
          BY <4>2
        <5>2. a \in 1..Len(old) /\ old[a] \in R /\ j > 0 /\ j \in 1..Len(old) /\ old[j] \in R
          BY <1>1
        <5>3. a = j \/ ~CrdAfter(old[a], old[j])
          <6> SUFFICES ASSUME a # j PROVE ~CrdAfter(old[a], old[j])
            OBVIOUS
          <6>1. a \in DOMAIN old /\ j \in DOMAIN old /\ a < j
            BY <1>1, <5>2
          <6> QED
            BY <6>1 DEF Ascending
        <5>4. ~CrdAfter(old[j], x)
          BY <2>2, <5>2
        <5> HIDE DEF x
        <5>5. x \in R
          BY <2>z DEF x
        <5> QED
          BY <1>o, <5>1, <5>2, <5>3, <5>4, <5>5 DEF CrdAfter
      <4> QED
        BY <3>2, <3>4, <4>1, <4>2 DEF FromBoth
    <3>5. Append(s, x) \in Seq(R) /\ Ascending(Append(s, x))
      BY <2>z, <3>2, <3>4, AscendingAppend
    <3>6. FromBoth(Append(s, x), old, j, new, z)
      <4>1. /\ Len(s) \in Nat /\ DOMAIN s = 1..Len(s) /\ DOMAIN Append(s, x) = 1..(Len(s) + 1)
            /\ \A k \in 1..Len(s) : Append(s, x)[k] = s[k]
            /\ Append(s, x)[Len(s) + 1] = x
        BY <2>z, <3>2, AppendProperties, LenProperties
      <4>2. \A b \in 1..(z - 1) : b \in 1..z
        OBVIOUS
      <4>3. z \in 1..z
        BY <2>z
      <4>4. ASSUME NEW k \in DOMAIN Append(s, x)
            PROVE  (\E a \in 1..j : Append(s, x)[k] = old[a]) \/ (\E b \in 1..z : Append(s, x)[k] = new[b])
        <5>1. CASE k = Len(s) + 1
          BY <4>1, <4>3, <5>1
        <5>2. CASE k # Len(s) + 1
          <6>1. k \in DOMAIN s /\ Append(s, x)[k] = s[k]
            BY <4>1, <5>2
          <6> QED
            BY <3>2, <4>2, <6>1 DEF FromBoth
        <5> QED
          BY <5>1, <5>2
      <4> QED
        BY <4>4 DEF FromBoth
    <3> QED
      BY <3>1, <3>5, <3>6
  <2> QED
    BY <2>1, <2>2
<1> HIDE DEF OK
<1>6. 0 \in T
  <2>1. \A j \in 0..Len(old), z \in 0..Len(new) : j + z <= 0 => z = 0
    BY <1>1
  <2> QED
    BY <1>4, <2>1
<1>7. ASSUME NEW n \in Nat, n \in T PROVE n + 1 \in T
  <2> SUFFICES ASSUME NEW j \in 0..Len(old), NEW z \in 0..Len(new), j + z <= n + 1 PROVE OK(j, z)
    OBVIOUS
  <2>1. CASE z = 0
    BY <1>4, <2>1
  <2>2. CASE z # 0
    <3>1. z - 1 \in 0..Len(new) /\ j + (z - 1) <= n
      BY <1>1, <2>2
    <3>2. OK(j, z - 1)
      BY <1>7, <3>1
    <3>3. j > 0 => j - 1 \in 0..Len(old) /\ (j - 1) + z <= n
      BY <1>1
    <3>4. j > 0 => OK(j - 1, z)
      BY <1>7, <3>3
    <3> QED
      BY <1>5, <2>2, <3>2, <3>4
  <2> QED
    BY <2>1, <2>2
<1>8. Len(old) + Len(new) \in T
  <2>1. Len(old) + Len(new) \in Nat
    BY <1>1
  <2> HIDE DEF T
  <2> QED
    BY <1>6, <1>7, <2>1, Induct
<1>9. OK(Len(old), Len(new))
  BY <1>1, <1>8
<1> QED
  BY <1>2, <1>9 DEF OK

-----------------------------------------------------------------------------
\* What a buffer adds to a record is made of its words and in order.
LEMMA FreshAdded ==
    ASSUME NEW A \in SUBSET Int, NEW B \in SUBSET Int, NEW C \in SUBSET Int, NEW D \in SUBSET Int,
           NEW b, b.data \in Seq([stamp : A, url_id : B, wrd_id : C, coord : D])
    PROVE  LET words == DpsSort(FreshWords(b), Cmplog_wrd) IN
           /\ words \in Seq([stamp : A, url_id : B, wrd_id : C, coord : D])
           /\ \A w : Added(words, w) \in Seq([url_id : B, coord : D]) /\ Ascending(Added(words, w))
<1> DEFINE W == [stamp : A, url_id : B, wrd_id : C, coord : D]
           words == DpsSort(FreshWords(b), Cmplog_wrd)
<1>1. W \in SUBSET Entries
  BY DEF Entries
<1>2. FreshWords(b) \in Seq(W)
  BY FreshWordsTyped
<1>3. words \in Seq(W) /\ Sequential(words)
  <2> HIDE DEF W
  <2> QED
    BY <1>1, <1>2, WordsSorted
<1> HIDE DEF words
<1>4. ASSUME NEW w PROVE Added(words, w) \in Seq([url_id : B, coord : D]) /\ Ascending(Added(words, w))
  BY <1>3, AddedAscends
<1> QED
  BY <1>3, <1>4 DEF words

-----------------------------------------------------------------------------
(* What a save makes of a record. *)

Unmarked(dels, u) == \A m \in DOMAIN dels : dels[m].url_id # u

\* The postings of the record that a save of b keeps, and those it adds: these
\* are of the words at the indices NewAt.
OldIn(record, b) == {x \in ToSet(record) : Unmarked(b.del_buf, x.url_id)}
NewAt(b, w) == {k \in DOMAIN b.data : b.data[k].wrd_id = w /\ NotOld(b.del_buf, b.data[k])}
PostingAt(b, k) == Crd(b.data[k].url_id, b.data[k].coord)
NewIn(b, w) == {PostingAt(b, k) : k \in NewAt(b, w)}

\* No posting comes twice.
PostedOnce(record, b, w) ==
    /\ IsInjective(record)
    /\ \A k, l \in NewAt(b, w) : PostingAt(b, k) = PostingAt(b, l) => k = l
    /\ OldIn(record, b) \cap NewIn(b, w) = {}

\* The latest markers tell what all of them do.
LEMMA LatestTells ==
    ASSUME NEW dels \in Seq(Markers), NEW sorted, LatestOf(sorted, dels), NEW x, x.stamp \in Int, x.url_id \in Int
    PROVE  /\ NotOld(sorted, x) <=> NotOld(dels, x)
           /\ Beyond(sorted, x) <=> Beyond(dels, x)
           /\ Unmarked(sorted, x.url_id) <=> Unmarked(dels, x.url_id)
<1>1. \A k \in DOMAIN sorted : \E m \in DOMAIN dels : dels[m] = sorted[k]
  BY DEF LatestOf
<1>2. \A m \in DOMAIN dels : \E k \in DOMAIN sorted :
          sorted[k].url_id = dels[m].url_id /\ sorted[k].stamp >= dels[m].stamp
  BY DEF LatestOf
<1>3. /\ \A k \in DOMAIN sorted : sorted[k].stamp \in Int /\ sorted[k].url_id \in Int
      /\ \A m \in DOMAIN dels : dels[m].stamp \in Int /\ dels[m].url_id \in Int
  BY MarkerNumbers DEF LatestOf, OnePerUrl
<1>4. NotOld(sorted, x) => NotOld(dels, x)
  <2> SUFFICES ASSUME NotOld(sorted, x), NEW m \in DOMAIN dels, dels[m].url_id = x.url_id
               PROVE  x.stamp >= dels[m].stamp
    BY DEF NotOld
  <2>1. PICK k \in DOMAIN sorted : sorted[k].url_id = dels[m].url_id /\ sorted[k].stamp >= dels[m].stamp
    BY <1>2
  <2>2. x.stamp >= sorted[k].stamp
    BY <2>1 DEF NotOld
  <2> QED
    BY <1>3, <2>1, <2>2
<1>5. NotOld(dels, x) => NotOld(sorted, x)
  BY <1>1 DEF NotOld
<1>6. Beyond(sorted, x) <=> Beyond(dels, x)
  BY <1>1, <1>2 DEF Beyond
<1>7. Unmarked(sorted, x.url_id) <=> Unmarked(dels, x.url_id)
  BY <1>1, <1>2 DEF Unmarked
<1> QED
  BY <1>4, <1>5, <1>6, <1>7

\* The words that a buffer leaves are those that are not old.
LEMMA FreshWordsSelect ==
    ASSUME NEW b, b.data \in Seq(Entries), b.del_buf \in Seq(Markers), Unmoved(b)
    PROVE  /\ FreshWords(b) \in Seq(Entries)
           /\ Selects(FreshWords(b), b.data, {k \in DOMAIN b.data : NotOld(b.del_buf, b.data[k])})
<1> DEFINE data == b.data
           dels == b.del_buf
           words == DpsSort(data, Cmplog)
           sorted == SortedDels(dels)
           fresh == FreshWords(b)
           V == {x \in Entries : NotOld(sorted, x)}
<1>1. fresh = RemoveOldWords(words, sorted)
  BY DEF FreshWords
<1>2. words \in Seq(Entries) /\ Selects(words, data, DOMAIN data) /\ ByUrl(words)
  BY LatestSelects
<1>3. LatestOf(sorted, dels) /\ OnePerUrl(sorted)
  BY SortedDelsLatest DEF LatestOf
<1>4. /\ \A k \in DOMAIN data : data[k] \in Entries
      /\ \A k \in DOMAIN words : words[k] \in Entries
  <2> HIDE DEF words
  <2> QED
    BY <1>2, LenProperties, ElementOfSeq
<1>5. \A x \in Entries : x.stamp \in Int /\ x.url_id \in Int
  BY DEF Entries
<1>6. \A x \in Entries : (NotOld(sorted, x) <=> NotOld(dels, x)) /\ (Beyond(sorted, x) <=> Beyond(dels, x))
  <2> HIDE DEF sorted
  <2> QED
    BY <1>3, <1>5, LatestTells
<1> HIDE DEF words, sorted, fresh
<1>7. \/ \A k \in DOMAIN words : NotOld(sorted, words[k])
      \/ \A k \in DOMAIN words : ~Beyond(sorted, words[k])
  <2>1. PICK h : SelectedBy(h, words, data, DOMAIN data)
    BY <1>2 DEF Selects
  <2>2. \A k \in DOMAIN words : h[k] \in DOMAIN data /\ words[k] = data[h[k]]
    BY <2>1 DEF SelectedBy
  <2>3. CASE \A k \in DOMAIN data : NotOld(dels, data[k])
    BY <1>4, <1>6, <2>2, <2>3
  <2>4. CASE \A k \in DOMAIN data : ~Beyond(dels, data[k])
    BY <1>4, <1>6, <2>2, <2>4
  <2> QED
    BY <2>3, <2>4 DEF Unmoved
<1>8. Selects(fresh, words, {k \in DOMAIN words : NotOld(sorted, words[k])})
  BY <1>1, <1>2, <1>3, <1>7, OldWordsAway
<1> DEFINE T == {k \in DOMAIN words : NotOld(sorted, words[k])}
           U == {k \in DOMAIN data : NotOld(dels, data[k])}
<1>9. /\ T \subseteq DOMAIN words /\ \A k \in DOMAIN words : k \in T <=> words[k] \in V
      /\ U \subseteq DOMAIN data /\ \A k \in DOMAIN data : k \in U <=> data[k] \in V
  BY <1>4, <1>6
<1>10. Selects(fresh, data, U)
  <2>1. Selects(words, data, DOMAIN data) /\ Selects(fresh, words, T)
    BY <1>2, <1>8
  <2> HIDE DEF V, T, U, data
  <2> QED
    BY <1>9, <2>1, SelectsTwice
<1>12. fresh \in Seq(Entries)
  <2>1. b.data \in Seq([stamp : Int, url_id : Int, wrd_id : Int, coord : Int])
    BY DEF Entries
  <2>2. Int \in SUBSET Int
    OBVIOUS
  <2> QED
    BY <2>1, <2>2, FreshWordsTyped DEF Entries, fresh
<1> QED
  BY <1>10, <1>12 DEF fresh

\* The postings that a save adds to the record of w.
LEMMA AddedIs ==
    ASSUME NEW b, b.data \in Seq(Entries), b.del_buf \in Seq(Markers), Unmoved(b), NEW w \in Int
    PROVE  LET words == DpsSort(FreshWords(b), Cmplog_wrd)
               new == Added(words, w)
           IN  /\ ToSet(new) = NewIn(b, w)
               /\ (\A k, l \in NewAt(b, w) : PostingAt(b, k) = PostingAt(b, l) => k = l) => IsInjective(new)
               /\ w \notin {words[k].wrd_id : k \in DOMAIN words} => new = <<>>
<1> DEFINE fresh == FreshWords(b)
           words == DpsSort(fresh, Cmplog_wrd)
           new == Added(words, w)
           mine == {i \in DOMAIN words : words[i].wrd_id = w}
           ahead == [i \in mine |-> {j \in mine : j < i}]
           mid == InOrder(words, ahead)
           S == {k \in DOMAIN b.data : NotOld(b.del_buf, b.data[k])}
           V == {x \in Entries : x.wrd_id = w}
<1>1. fresh \in Seq(Entries) /\ Selects(fresh, b.data, S)
  BY FreshWordsSelect
<1>2. words \in Seq(Entries) /\ Selects(words, fresh, DOMAIN fresh)
  <2>1. Entries \in SUBSET Entries
    OBVIOUS
  <2> HIDE DEF fresh
  <2> QED
    BY <1>1, <2>1, WordsSorted, WordsSelect
<1> HIDE DEF fresh, words, S
<1>3. /\ \A k \in DOMAIN fresh : fresh[k] \in Entries
      /\ \A k \in DOMAIN words : words[k] \in Entries
      /\ \A k \in DOMAIN b.data : b.data[k] \in Entries
  BY <1>1, <1>2, LenProperties, ElementOfSeq
<1>4. Selects(words, b.data, S)
  <2>1. \A k \in S : b.data[k] \in Entries
    BY <1>3 DEF S
  <2> QED
    BY <1>1, <1>2, <1>3, <2>1, SelectsTwice
<1>5. DOMAIN ahead = mine /\ Ranks(ahead) /\ mine \subseteq DOMAIN words
  <2>1. mine \in SUBSET DOMAIN words
    OBVIOUS
  <2> HIDE DEF mine
  <2> QED
    BY <1>2, <2>1, IndexRanks
<1>6. Selects(mid, words, mine) /\ Len(mid) = Cardinality(mine) /\ mid \in Seq(Entries)
  <2> HIDE DEF mine, ahead
  <2> QED
    BY <1>2, <1>5, Ordered, OrderedSelects
<1>7. \A k \in DOMAIN words : k \in mine <=> words[k] \in V
  BY <1>3
<1>8. NewAt(b, w) \subseteq S /\ \A k \in S : k \in NewAt(b, w) <=> b.data[k] \in V
  BY <1>3 DEF NewAt, S
<1>9. Selects(mid, b.data, NewAt(b, w))
  <2> HIDE DEF mine, mid, V
  <2> QED
    BY <1>4, <1>5, <1>6, <1>7, <1>8, SelectsTwice
<1>10. new = [k \in DOMAIN mid |-> Crd(mid[k].url_id, mid[k].coord)]
  BY DEF Added
<1> HIDE DEF new, mid
<1>11. PICK h : SelectedBy(h, mid, b.data, NewAt(b, w))
  BY <1>9 DEF Selects
<1>12. DOMAIN new = DOMAIN mid /\ \A k \in DOMAIN new : h[k] \in NewAt(b, w) /\ new[k] = PostingAt(b, h[k])
  BY <1>10, <1>11 DEF SelectedBy, PostingAt
<1>13. \A i \in NewAt(b, w) : \E k \in DOMAIN new : h[k] = i
  BY <1>11, <1>12 DEF SelectedBy
<1>14. ToSet(new) = NewIn(b, w)
  <2>1. \A k \in DOMAIN new : new[k] \in NewIn(b, w)
    BY <1>12 DEF NewIn
  <2>2. \A i \in NewAt(b, w) : \E k \in DOMAIN new : new[k] = PostingAt(b, i)
    BY <1>12, <1>13
  <2> QED
    BY <2>1, <2>2 DEF ToSet, NewIn
<1>15. ASSUME \A k, l \in NewAt(b, w) : PostingAt(b, k) = PostingAt(b, l) => k = l
       PROVE  IsInjective(new)
  <2> SUFFICES ASSUME NEW k \in DOMAIN new, NEW l \in DOMAIN new, new[k] = new[l] PROVE k = l
    BY DEF IsInjective
  <2>1. h[k] = h[l]
    BY <1>12, <1>15
  <2> QED
    BY <1>11, <1>12, <2>1 DEF SelectedBy
<1>16. ASSUME w \notin {words[k].wrd_id : k \in DOMAIN words} PROVE new = <<>>
  <2>1. mine = {}
    BY <1>16
  <2>2. Len(mid) = 0
    BY <1>6, <2>1, FS_EmptySet
  <2>3. mid = <<>>
    BY <1>6, <2>2, EmptySeq, LenProperties
  <2> QED
    BY <1>10, <2>3
<1> QED
  BY <1>14, <1>15, <1>16 DEF new, words, fresh

\* The walk over the postings of a record keeps those of urls with no marker.
LEMMA OldCrdsSelect ==
    ASSUME NEW crds \in Seq(Postings), Ascending(crds), NEW dels, OnePerUrl(dels)
    PROVE  Selects(RemoveOldCrds(crds, dels), crds, {k \in DOMAIN crds : Unmarked(dels, crds[k].url_id)})
<1> DEFINE n == Len(crds)
           d == Len(dels)
           S(i) == {m \in 1..i : Unmarked(dels, crds[m].url_id)}
<1>1. /\ n \in Nat /\ DOMAIN crds = 1..n /\ \A i \in 1..n : crds[i] \in Postings
      /\ d \in Nat /\ DOMAIN dels = 1..d /\ dels \in Seq(Markers)
  BY LenProperties, ElementOfSeq DEF OnePerUrl
<1>2. /\ \A i \in 1..n : crds[i].url_id \in Int /\ crds[i].coord \in Int
      /\ \A i \in 1..d : dels[i].url_id \in Int
  BY <1>1, MarkerNumbers DEF Postings
<1>3. PICK g : CrdsTo(crds, dels, n, g) /\ RemoveOldCrds(crds, dels) = g[n].kept
  BY <1>1, CrdsIs
<1>4. g[0] = CrdsBegin /\ \A i \in 1..n : g[i] = CrdsOn(crds, dels, g[i - 1], i)
  BY <1>1, <1>3 DEF CrdsTo
<1> DEFINE OK(i) == /\ g[i].kept \in Seq(Postings)
                    /\ g[i].start \in 1..(d + 1)
                    /\ \A m \in 1..(g[i].start - 1) : i # 0 /\ dels[m].url_id < crds[i].url_id
                    /\ Selects(g[i].kept, crds, S(i))
           T == {i \in Nat : i <= n => OK(i)}
<1>5. OK(0)
  <2>1. g[0].kept = <<>> /\ g[0].start = 1
    BY <1>4 DEF CrdsBegin
  <2>2. S(0) = {}
    OBVIOUS
  <2>3. Selects(g[0].kept, crds, S(0))
    BY <2>1, <2>2, SelectsNone
  <2>4. 1 \in 1..(d + 1) /\ \A m \in 1..(1 - 1) : FALSE
    BY <1>1
  <2> QED
    BY <2>1, <2>3, <2>4
<1>6. ASSUME NEW i \in Nat, i + 1 <= n, OK(i) PROVE OK(i + 1)
  <2> DEFINE start == g[i].start
             kept == g[i].kept
             x == crds[i + 1]
             s == NextDel(dels, start, x.url_id)
  <2>1. i + 1 \in 1..n /\ (i + 1) - 1 = i /\ x \in Postings /\ x.url_id \in Int
    BY <1>1, <1>2, <1>6
  <2>2. g[i + 1] = CrdsOn(crds, dels, g[i], i + 1)
    BY <1>4, <2>1
  <2>3. /\ kept \in Seq(Postings) /\ start \in 1..(d + 1)
        /\ \A m \in 1..(start - 1) : i # 0 /\ dels[m].url_id < crds[i].url_id
        /\ Selects(kept, crds, S(i))
    BY <1>6
  <2>4. /\ s \in start..(d + 1)
        /\ s <= d => dels[s].url_id >= x.url_id
        /\ \A t \in start..(s - 1) : dels[t].url_id < x.url_id
    BY <1>1, <2>1, <2>3, NextDelIs
  <2>5. g[i + 1] = [start |-> s,
                    kept  |-> IF s <= d /\ dels[s].url_id = x.url_id THEN kept ELSE Append(kept, x)]
    BY <2>2 DEF CrdsOn
  <2> HIDE DEF s
  <2>6. i # 0 => crds[i].url_id \in Int /\ crds[i].url_id <= x.url_id
    <3> SUFFICES ASSUME i # 0 PROVE crds[i].url_id \in Int /\ crds[i].url_id <= x.url_id
      OBVIOUS
    <3>1. i \in 1..n /\ i < i + 1
      BY <1>6
    <3>2. ~CrdAfter(crds[i], crds[i + 1])
      BY <1>1, <2>1, <3>1 DEF Ascending
    <3> QED
      BY <1>2, <2>1, <3>1, <3>2 DEF CrdAfter
  <2>7. \A m \in 1..(s - 1) : dels[m].url_id < x.url_id
    <3> SUFFICES ASSUME NEW m \in 1..(s - 1) PROVE dels[m].url_id < x.url_id
      OBVIOUS
    <3>1. CASE m < start
      <4>1. i # 0 /\ dels[m].url_id < crds[i].url_id
        BY <2>3, <3>1
      <4>2. m \in 1..d
        BY <1>1, <2>3, <3>1
      <4> QED
        BY <1>2, <2>1, <2>6, <4>1, <4>2
    <3>2. CASE ~(m < start)
      BY <1>1, <2>3, <2>4, <3>2
    <3> QED
      BY <3>1, <3>2
  <2>8. s \in 1..(d + 1)
    BY <1>1, <2>3, <2>4
  <2> DEFINE goes == s <= d /\ dels[s].url_id = x.url_id
             b == [start |-> s, kept |-> IF goes THEN kept ELSE Append(kept, x)]
  <2>9. Unmarked(dels, x.url_id) <=> ~goes
    <3>1. CASE s = d + 1
      <4>1. \A m \in 1..d : dels[m].url_id < x.url_id
        BY <1>1, <2>7, <3>1
      <4> QED
        BY <1>1, <1>2, <2>1, <3>1, <4>1 DEF Unmarked
    <3>2. CASE s # d + 1
      <4>1. s \in 1..d
        BY <1>1, <2>8, <3>2
      <4>2. \A m \in 1..d : m < s => dels[m].url_id < x.url_id
        BY <1>1, <2>7, <4>1
      <4>3. \A m \in 1..d : s < m => dels[m].url_id > x.url_id
        <5> SUFFICES ASSUME NEW m \in 1..d, s < m PROVE dels[m].url_id > x.url_id
          OBVIOUS
        <5>1. dels[s].url_id < dels[m].url_id
          BY <1>1, <4>1 DEF OnePerUrl
        <5> QED
          BY <1>2, <2>1, <2>4, <4>1, <5>1
      <4>4. \A m \in 1..d : dels[m].url_id = x.url_id => m = s
        BY <1>1, <1>2, <2>1, <4>1, <4>2, <4>3
      <4> QED
        BY <1>1, <1>2, <2>1, <4>1, <4>4 DEF Unmarked
    <3> QED
      BY <3>1, <3>2
  <2>10. g[i + 1] = b
    BY <2>5
  <2>11. Selects(b.kept, crds, S(i + 1)) /\ b.kept \in Seq(Postings)
    <3>1. 1..(i + 1) = 1..i \cup {i + 1} /\ i + 1 \notin 1..i
      OBVIOUS
    <3>2. kept \in Seq(Postings) /\ Selects(kept, crds, S(i))
      BY <2>3
    <3> HIDE DEF kept
    <3>3. CASE ~goes
      <4>1. b.kept = Append(kept, crds[i + 1]) /\ S(i + 1) = S(i) \cup {i + 1} /\ i + 1 \notin S(i)
        BY <2>9, <3>1, <3>3
      <4>2. crds[i + 1] \in Postings
        BY <2>1
      <4> HIDE DEF b, S, x
      <4>3. Selects(b.kept, crds, S(i + 1))
        BY <3>2, <4>1, <4>2, SelectsOneMore
      <4>4. b.kept \in Seq(Postings)
        BY <3>2, <4>1, <4>2, AppendProperties
      <4> QED
        BY <4>3, <4>4
    <3>4. CASE goes
      <4>1. b.kept = kept /\ S(i + 1) = S(i)
        BY <2>9, <3>1, <3>4
      <4> HIDE DEF b, S
      <4> QED
        BY <3>2, <4>1
    <3> QED
      BY <3>3, <3>4
  <2>12. b.start = s /\ \A m \in 1..(s - 1) : i + 1 # 0 /\ dels[m].url_id < crds[i + 1].url_id
    BY <2>7
  <2> HIDE DEF b, S
  <2> QED
    BY <2>8, <2>10, <2>11, <2>12
<1>7. n \in T
  <2> HIDE DEF OK
  <2>1. 0 \in T
    BY <1>5
  <2>2. \A i \in Nat : i \in T => i + 1 \in T
    BY <1>1, <1>6
  <2> HIDE DEF T
  <2> QED
    BY <1>1, <2>1, <2>2, Induct
<1>8. OK(n)
  <2> HIDE DEF OK
  <2> QED
    BY <1>1, <1>7
<1> QED
  BY <1>1, <1>3, <1>8

\* The merge of DpsProcessBuf, posting by posting.
LEMMA MergeInduct ==
    ASSUME NEW old, NEW new, Len(old) \in Nat, Len(new) \in Nat, NEW S,
           \A j \in 0..Len(old) : <<j, 0>> \in S,
           \A j \in 0..Len(old), z \in 1..Len(new) :
               <<j, z - 1>> \in S /\ (j > 0 => <<j - 1, z>> \in S) => <<j, z>> \in S
    PROVE  <<Len(old), Len(new)>> \in S
<1> DEFINE T == {n \in Nat : \A j \in 0..Len(old), z \in 0..Len(new) : j + z <= n => <<j, z>> \in S}
<1>1. 0 \in T
  <2>1. \A j \in 0..Len(old), z \in 0..Len(new) : j + z <= 0 => z = 0
    OBVIOUS
  <2> QED
    BY <2>1
<1>2. ASSUME NEW n \in Nat, n \in T PROVE n + 1 \in T
  <2> SUFFICES ASSUME NEW j \in 0..Len(old), NEW z \in 0..Len(new), j + z <= n + 1 PROVE <<j, z>> \in S
    OBVIOUS
  <2>1. CASE z = 0
    BY <2>1
  <2>2. CASE z # 0
    <3>1. z - 1 \in 0..Len(new) /\ j + (z - 1) <= n /\ z \in 1..Len(new)
      BY <2>2
    <3>2. j > 0 => j - 1 \in 0..Len(old) /\ (j - 1) + z <= n
      OBVIOUS
    <3>3. <<j, z - 1>> \in S /\ (j > 0 => <<j - 1, z>> \in S)
      BY <1>2, <3>1, <3>2
    <3> QED
      BY <3>1, <3>3
  <2> QED
    BY <2>1, <2>2
<1>3. Len(old) + Len(new) \in T
  <2>1. Len(old) + Len(new) \in Nat
    OBVIOUS
  <2> HIDE DEF T
  <2> QED
    BY <1>1, <1>2, <2>1, Induct
<1> QED
  BY <1>3

\* One more element, which is not there yet.
LEMMA OneMore ==
    ASSUME NEW R, NEW s \in Seq(R), NEW x \in R
    PROVE  /\ ToSet(Append(s, x)) = ToSet(s) \cup {x}
           /\ IsInjective(s) /\ x \notin ToSet(s) => IsInjective(Append(s, x))
<1> DEFINE u == Append(s, x)
<1>1. /\ Len(s) \in Nat /\ DOMAIN s = 1..Len(s) /\ DOMAIN u = 1..(Len(s) + 1)
      /\ \A k \in 1..Len(s) : u[k] = s[k]
      /\ u[Len(s) + 1] = x
  BY AppendProperties, LenProperties
<1> HIDE DEF u
<1>2. DOMAIN u = DOMAIN s \cup {Len(s) + 1} /\ Len(s) + 1 \notin DOMAIN s /\ \A k \in DOMAIN s : u[k] = s[k]
  BY <1>1
<1>3. ToSet(u) = ToSet(s) \cup {x}
  BY <1>1, <1>2 DEF ToSet
<1>4. IsInjective(s) /\ x \notin ToSet(s) => IsInjective(u)
  BY <1>1, <1>2 DEF ToSet, IsInjective
<1> QED
  BY <1>3, <1>4 DEF u

\* A merge has the postings of both, each once if they were.
LEMMA MergeHas ==
    ASSUME NEW R, NEW old \in Seq(R), NEW new \in Seq(R)
    PROVE  LET m == Merge(old, new) IN
           /\ ToSet(m) = ToSet(old) \cup ToSet(new)
           /\ IsInjective(old) /\ IsInjective(new) /\ ToSet(old) \cap ToSet(new) = {} => IsInjective(m)
<1>1. /\ Len(old) \in Nat /\ DOMAIN old = 1..Len(old) /\ \A i \in 1..Len(old) : old[i] \in R
      /\ Len(new) \in Nat /\ DOMAIN new = 1..Len(new) /\ \A i \in 1..Len(new) : new[i] \in R
  BY LenProperties, ElementOfSeq
<1>2. PICK g : MergeTo(old, new, g) /\ Merge(old, new) = g[<<Len(old), Len(new)>>]
  BY <1>1, MergeIs
<1>3. \A j \in 0..Len(old), z \in 0..Len(new) : g[<<j, z>>] = MergeOn(old, new, g, <<j, z>>)
  BY <1>2 DEF MergeTo
<1> DEFINE First(s, j) == {s[a] : a \in 1..j}
           Apart == IsInjective(old) /\ IsInjective(new) /\ ToSet(old) \cap ToSet(new) = {}
           OK(p) == /\ g[p] \in Seq(R)
                    /\ ToSet(g[p]) = First(old, p[1]) \cup First(new, p[2])
                    /\ Apart => IsInjective(g[p])
           S == {p \in (0..Len(old)) \X (0..Len(new)) : OK(p)}
<1>4. ASSUME NEW s, NEW n \in Nat, DOMAIN s = 1..n
      PROVE  /\ ToSet(s) = First(s, n)
             /\ \A j \in 1..n : First(s, j) = First(s, j - 1) \cup {s[j]} /\ s[j] \in ToSet(s)
             /\ IsInjective(s) => \A j \in 1..n : s[j] \notin First(s, j - 1)
             /\ \A j \in 0..n : First(s, j) \subseteq ToSet(s)
  <2>1. ToSet(s) = First(s, n) /\ \A j \in 0..n : First(s, j) \subseteq ToSet(s)
    BY <1>4 DEF ToSet
  <2>2. \A j \in 1..n : First(s, j) = First(s, j - 1) \cup {s[j]} /\ s[j] \in ToSet(s)
    <3>1. \A j \in 1..n : 1..j = (1..(j - 1)) \cup {j}
      OBVIOUS
    <3> QED
      BY <1>4, <3>1 DEF ToSet
  <2>3. ASSUME IsInjective(s), NEW j \in 1..n PROVE s[j] \notin First(s, j - 1)
    <3> SUFFICES ASSUME NEW a \in 1..(j - 1), s[j] = s[a] PROVE FALSE
      OBVIOUS
    <3>1. a \in 1..n /\ a # j
      OBVIOUS
    <3> QED
      BY <1>4, <2>3, <3>1 DEF IsInjective
  <2> QED
    BY <2>1, <2>2, <2>3
<1>5. ASSUME NEW j \in 0..Len(old) PROVE <<j, 0>> \in S
  <2> DEFINE s == SubSeq(old, 1, j)
  <2>1. g[<<j, 0>>] = s
    <3>1. 0 \in 0..Len(new)
      BY <1>1
    <3> QED
      BY <1>3, <3>1 DEF MergeOn
  <2>2. 1 \in Int /\ j \in Int /\ \A i \in 1..j : old[i] \in R
    BY <1>1
  <2>3. /\ s \in Seq(R) /\ Len(s) = IF 1 <= j THEN j - 1 + 1 ELSE 0
        /\ \A i \in 1..(j - 1 + 1) : s[i] = old[1 + i - 1]
    BY <2>2, SubSeqProperties
  <2> HIDE DEF s
  <2>4. s \in Seq(R) /\ DOMAIN s = 1..j /\ \A i \in 1..j : s[i] = old[i]
    <3>1. DOMAIN s = 1..Len(s)
      BY <2>3, LenProperties
    <3> QED
      BY <1>1, <2>3, <3>1
  <2>5. ToSet(s) = First(old, j) /\ First(new, 0) = {}
    <3>1. ToSet(s) = {s[a] : a \in 1..j}
      BY <2>4 DEF ToSet
    <3>2. {s[a] : a \in 1..j} = {old[a] : a \in 1..j}
      BY <2>4
    <3>3. First(new, 0) = {}
      OBVIOUS
    <3> HIDE DEF s
    <3>4. ToSet(s) = First(old, j)
      BY <3>1, <3>2
    <3> QED
      BY <3>3, <3>4
  <2>6. Apart => IsInjective(s)
    <3>1. 1..j \subseteq DOMAIN old
      BY <1>1
    <3> QED
      BY <2>4, <3>1 DEF IsInjective
  <2>7. 0 \in 0..Len(new)
    BY <1>1
  <2> HIDE DEF Apart, First
  <2> QED
    BY <2>1, <2>4, <2>5, <2>6, <2>7
<1>6. ASSUME NEW j \in 0..Len(old), NEW z \in 1..Len(new), <<j, z - 1>> \in S, j > 0 => <<j - 1, z>> \in S
      PROVE  <<j, z>> \in S
  <2>1. z \in 0..Len(new) /\ z # 0 /\ new[z] \in R /\ z - 1 \in 0..Len(new) /\ z - 1 \in Nat
    BY <1>1
  <2>2. <<j, z>> \in (0..Len(old)) \X (0..Len(new))
    BY <2>1
  <2>o. \A a \in 0..Len(old), b \in 0..Len(new) : Apart =>
           /\ \A c \in 1..Len(old) : old[c] \notin First(new, b)
           /\ \A c \in 1..Len(new) : new[c] \notin First(old, a)
    <3>1. \A a \in 0..Len(old), b \in 0..Len(new) : First(old, a) \subseteq ToSet(old) /\ First(new, b) \subseteq ToSet(new)
      BY <1>1, <1>4
    <3>2. (\A c \in 1..Len(old) : old[c] \in ToSet(old)) /\ (\A c \in 1..Len(new) : new[c] \in ToSet(new))
      BY <1>1, <1>4
    <3> HIDE DEF First
    <3> QED
      BY <3>1, <3>2
  <2>3. CASE j > 0 /\ CrdAfter(old[j], new[z])
    <3> DEFINE s == g[<<j - 1, z>>]
               x == old[j]
    <3>1. g[<<j, z>>] = Append(s, x)
      BY <1>3, <2>1, <2>3 DEF MergeOn
    <3>2. OK(<<j - 1, z>>)
      BY <1>6, <2>3
    <3>3. /\ s \in Seq(R) /\ ToSet(s) = First(old, j - 1) \cup First(new, z)
          /\ Apart => IsInjective(s)
      BY <3>2
    <3>4. j \in 1..Len(old) /\ x \in R
      BY <1>1, <2>3
    <3>5. First(old, j) = First(old, j - 1) \cup {x} /\ (Apart => x \notin First(old, j - 1))
      BY <1>1, <1>4, <3>4
    <3>6. Apart => x \notin First(new, z)
      BY <1>1, <2>1, <2>o, <3>4
    <3> HIDE DEF s, x, Apart, First
    <3>7. ToSet(Append(s, x)) = First(old, j) \cup First(new, z) /\ (Apart => IsInjective(Append(s, x)))
      <4>1. /\ ToSet(Append(s, x)) = ToSet(s) \cup {x}
            /\ IsInjective(s) /\ x \notin ToSet(s) => IsInjective(Append(s, x))
        BY <3>3, <3>4, OneMore
      <4> QED
        BY <3>3, <3>5, <3>6, <4>1
    <3>8. Append(s, x) \in Seq(R)
      BY <3>3, <3>4, AppendProperties
    <3> QED
      BY <2>2, <3>1, <3>7, <3>8
  <2>4. CASE ~(j > 0 /\ CrdAfter(old[j], new[z]))
    <3> DEFINE s == g[<<j, z - 1>>]
               x == new[z]
    <3>1. g[<<j, z>>] = Append(s, x)
      BY <1>3, <2>1, <2>4 DEF MergeOn
    <3>2. OK(<<j, z - 1>>)
      BY <1>6
    <3>3. /\ s \in Seq(R) /\ ToSet(s) = First(old, j) \cup First(new, z - 1)
          /\ Apart => IsInjective(s)
      BY <3>2
    <3>4. x \in R
      BY <2>1
    <3>5. First(new, z) = First(new, z - 1) \cup {x} /\ (Apart => x \notin First(new, z - 1))
      BY <1>1, <1>4
    <3>6. Apart => x \notin First(old, j)
      BY <1>1, <2>1, <2>o
    <3> HIDE DEF s, x, Apart, First
    <3>7. ToSet(Append(s, x)) = First(old, j) \cup First(new, z) /\ (Apart => IsInjective(Append(s, x)))
      <4>1. /\ ToSet(Append(s, x)) = ToSet(s) \cup {x}
            /\ IsInjective(s) /\ x \notin ToSet(s) => IsInjective(Append(s, x))
        BY <3>3, <3>4, OneMore
      <4> QED
        BY <3>3, <3>5, <3>6, <4>1
    <3>8. Append(s, x) \in Seq(R)
      BY <3>3, <3>4, AppendProperties
    <3> QED
      BY <2>2, <3>1, <3>7, <3>8
  <2> QED
    BY <2>3, <2>4
<1>7. <<Len(old), Len(new)>> \in S
  <2> HIDE DEF S
  <2> QED
    BY <1>1, <1>5, <1>6, MergeInduct
<1>8. OK(<<Len(old), Len(new)>>)
  BY <1>7
<1>9. First(old, Len(old)) = ToSet(old) /\ First(new, Len(new)) = ToSet(new)
  BY <1>1, <1>4
<1> HIDE DEF First, Apart
<1>10. /\ ToSet(Merge(old, new)) = ToSet(old) \cup ToSet(new)
       /\ Apart => IsInjective(Merge(old, new))
  BY <1>2, <1>8, <1>9
<1> QED
  BY <1>10 DEF Apart

\* What a merge of a buffer makes of the record of w, cleaned with the latest
\* markers of the buffer.
LEMMA RecordMerged ==
    ASSUME NEW b, b.data \in Seq(Entries), b.del_buf \in Seq(Markers), Unmoved(b), NEW w \in Int,
           NEW record \in Seq(Postings), Ascending(record), PostedOnce(record, b, w),
           NEW sorted, LatestOf(sorted, b.del_buf)
    PROVE  LET words == DpsSort(FreshWords(b), Cmplog_wrd)
               old   == RemoveOldCrds(record, sorted)
               new   == Added(words, w)
           IN  /\ ToSet(Merge(old, new)) = OldIn(record, b) \cup NewIn(b, w)
               /\ IsInjective(Merge(old, new))
               /\ w \notin {words[k].wrd_id : k \in DOMAIN words} =>
                      new = <<>> /\ ToSet(old) = OldIn(record, b) \cup NewIn(b, w) /\ IsInjective(old)
<1> DEFINE words == DpsSort(FreshWords(b), Cmplog_wrd)
           old == RemoveOldCrds(record, sorted)
           new == Added(words, w)
           written == w \in {words[k].wrd_id : k \in DOMAIN words}
           S == {k \in DOMAIN record : Unmarked(sorted, record[k].url_id)}
<1>1. /\ ToSet(new) = NewIn(b, w)
      /\ IsInjective(new)
      /\ ~written => new = <<>>
  <2>1. \A k, l \in NewAt(b, w) : PostingAt(b, k) = PostingAt(b, l) => k = l
    BY DEF PostedOnce
  <2> QED
    BY <2>1, AddedIs
<1>2. new \in Seq(Postings)
  <2>1. b.data \in Seq([stamp : Int, url_id : Int, wrd_id : Int, coord : Int]) /\ Int \in SUBSET Int
    BY DEF Entries
  <2> QED
    BY <2>1, FreshAdded DEF Postings
<1>3. OnePerUrl(sorted)
  BY DEF LatestOf
<1> HIDE DEF words, old, new, written
<1>4. Selects(old, record, S) /\ old \in Seq(Postings)
  BY <1>3, OldCrdsSelect, OldCrdsRemoved DEF old
<1>5. \A k \in DOMAIN record : record[k] \in Postings
  BY LenProperties, ElementOfSeq
<1>6. \A k \in DOMAIN record : k \in S <=> Unmarked(b.del_buf, record[k].url_id)
  <2> SUFFICES ASSUME NEW k \in DOMAIN record
               PROVE  Unmarked(sorted, record[k].url_id) <=> Unmarked(b.del_buf, record[k].url_id)
    OBVIOUS
  <2> DEFINE x == [stamp |-> 0, url_id |-> record[k].url_id]
  <2>1. record[k].url_id \in Int
    BY <1>5 DEF Postings
  <2>2. x.stamp \in Int /\ x.url_id \in Int /\ x.url_id = record[k].url_id
    BY <2>1
  <2> HIDE DEF x
  <2>3. Unmarked(sorted, x.url_id) <=> Unmarked(b.del_buf, x.url_id)
    BY <1>3, <2>2, LatestTells
  <2> QED
    BY <2>2, <2>3
<1>7. {record[k] : k \in S} = OldIn(record, b)
  BY <1>6 DEF OldIn, ToSet
<1>8. \A i, j \in S : record[i] = record[j] => i = j
  BY DEF PostedOnce, IsInjective
<1> HIDE DEF S
<1> DEFINE T == {record[k] : k \in S}
<1>9. ToSet(old) = OldIn(record, b) /\ IsInjective(old)
  <2>1. ToSet(old) = T /\ ((\A i, j \in S : record[i] = record[j] => i = j) => IsInjective(old))
    BY <1>4, SelectsSet
  <2>2. T = OldIn(record, b)
    BY <1>7
  <2> HIDE DEF T
  <2> QED
    BY <1>8, <2>1, <2>2
<1>10. ToSet(Merge(old, new)) = OldIn(record, b) \cup NewIn(b, w) /\ IsInjective(Merge(old, new))
  <2>1. ToSet(old) \cap ToSet(new) = {}
    BY <1>1, <1>9 DEF PostedOnce
  <2>2. /\ ToSet(Merge(old, new)) = ToSet(old) \cup ToSet(new)
        /\ IsInjective(Merge(old, new))
    BY <1>1, <1>2, <1>4, <1>9, <2>1, MergeHas
  <2> QED
    BY <1>1, <1>9, <2>2
<1>11. ~written => NewIn(b, w) = {}
  BY <1>1 DEF ToSet
<1> QED
  BY <1>1, <1>9, <1>10, <1>11 DEF words, old, new, written

\* What DpsProcessBuf writes into the record of w.
LEMMA RecordSaved ==
    ASSUME NEW b, b.data \in Seq(Entries), b.del_buf \in Seq(Markers), Unmoved(b), NEW w \in Int,
           NEW record \in Seq(Postings), Ascending(record), PostedOnce(record, b, w)
    PROVE  LET words == DpsSort(FreshWords(b), Cmplog_wrd)
               old   == RemoveOldCrds(record, SortedDels(b.del_buf))
               new   == Added(words, w)
               saved == IF w \in {words[k].wrd_id : k \in DOMAIN words} THEN Merge(old, new) ELSE old
           IN  /\ ToSet(saved) = OldIn(record, b) \cup NewIn(b, w)
               /\ IsInjective(saved)
               /\ w \notin {words[k].wrd_id : k \in DOMAIN words} => new = <<>>
<1> DEFINE words == DpsSort(FreshWords(b), Cmplog_wrd)
           old == RemoveOldCrds(record, SortedDels(b.del_buf))
           new == Added(words, w)
           written == w \in {words[k].wrd_id : k \in DOMAIN words}
<1>1. LatestOf(SortedDels(b.del_buf), b.del_buf)
  BY SortedDelsLatest
<1>2. /\ ToSet(Merge(old, new)) = OldIn(record, b) \cup NewIn(b, w)
      /\ IsInjective(Merge(old, new))
      /\ ~written => new = <<>> /\ ToSet(old) = OldIn(record, b) \cup NewIn(b, w) /\ IsInjective(old)
  BY <1>1, RecordMerged
<1> HIDE DEF words, old, new, written
<1> QED
  BY <1>2 DEF words, old, new, written

\* A record in order and with each posting once lists its postings.
LEMMA RecordLists ==
    ASSUME NEW record \in Seq(Postings), Ascending(record), IsInjective(record)
    PROVE  Lists(record, ToSet(record))
<1> SUFFICES ASSUME NEW k \in DOMAIN record, NEW l \in DOMAIN record, k < l
             PROVE  CrdAfter(record[l], record[k])
  BY DEF Lists
<1> DEFINE x == record[k]
           y == record[l]
<1>1. DOMAIN record \subseteq Nat
  BY LenProperties
<1>2. x \in Postings /\ y \in Postings
  BY LenProperties, ElementOfSeq
<1>3. x # y
  BY <1>1 DEF IsInjective
<1>4. ~CrdAfter(x, y)
  BY DEF Ascending
<1> HIDE DEF x, y
<1>5. /\ x.url_id \in Int /\ y.url_id \in Int /\ x.coord \in Int /\ y.coord \in Int
      /\ x = [url_id |-> x.url_id, coord |-> x.coord] /\ y = [url_id |-> y.url_id, coord |-> y.coord]
  BY <1>2 DEF Postings
<1>6. x.url_id # y.url_id \/ x.coord # y.coord
  BY <1>3, <1>5
<1>7. CrdAfter(y, x)
  BY <1>4, <1>5, <1>6 DEF CrdAfter
<1> QED
  BY <1>7 DEF x, y

-----------------------------------------------------------------------------
(* What a record and a buffer together say of a word. *)

ContentOf(record, b, w) == OldIn(record, b) \cup NewIn(b, w)

\* An empty buffer says nothing.
LEMMA EmptyContent ==
    ASSUME NEW record, NEW b, DOMAIN b.data = {}, DOMAIN b.del_buf = {}, NEW w
    PROVE  /\ ContentOf(record, b, w) = ToSet(record)
           /\ PostedOnce(record, b, w) <=> IsInjective(record)
<1>1. NewAt(b, w) = {}
  BY DEF NewAt
<1>2. NewIn(b, w) = {}
  BY <1>1 DEF NewIn
<1>3. OldIn(record, b) = ToSet(record)
  BY DEF OldIn, Unmarked
<1> QED
  BY <1>1, <1>2, <1>3 DEF ContentOf, PostedOnce

\* A marker takes the postings of its url away, those of the record and those
\* of the words that are older than it.
LEMMA MarkerClears ==
    ASSUME NEW record, NEW w, NEW b, NEW b1, NEW u \in Int, NEW s \in Int,
           b.data \in Seq(Entries), b.del_buf \in Seq(Markers),
           b1.data = b.data, b1.del_buf = Append(b.del_buf, LogDel(s, u)),
           \A k \in DOMAIN b.data : b.data[k].url_id = u => b.data[k].stamp < s
    PROVE  /\ ContentOf(record, b1, w) = {x \in ContentOf(record, b, w) : x.url_id # u}
           /\ PostedOnce(record, b, w) => PostedOnce(record, b1, w)
<1> DEFINE dels == b.del_buf
           x == LogDel(s, u)
           dels1 == b1.del_buf
<1>1. /\ Len(dels) \in Nat /\ DOMAIN dels = 1..Len(dels) /\ DOMAIN dels1 = 1..(Len(dels) + 1)
      /\ \A m \in 1..Len(dels) : dels1[m] = dels[m]
      /\ dels1[Len(dels) + 1] = x
  <2>1. x \in Markers
    BY DEF LogDel, Markers
  <2> QED
    BY <2>1, AppendProperties, LenProperties
<1>2. DOMAIN dels1 = DOMAIN dels \cup {Len(dels) + 1} /\ x.url_id = u /\ x.stamp = s
  BY <1>1 DEF LogDel
<1> HIDE DEF dels, dels1, x
<1>3. \A v : Unmarked(dels1, v) <=> Unmarked(dels, v) /\ v # u
  BY <1>1, <1>2 DEF Unmarked
<1>4. \A k \in DOMAIN b.data : NotOld(dels1, b.data[k]) <=> NotOld(dels, b.data[k]) /\ b.data[k].url_id # u
  <2> SUFFICES ASSUME NEW k \in DOMAIN b.data
               PROVE  NotOld(dels1, b.data[k]) <=> NotOld(dels, b.data[k]) /\ b.data[k].url_id # u
    OBVIOUS
  <2> DEFINE y == b.data[k]
  <2>1. y \in Entries
    BY LenProperties, ElementOfSeq
  <2>2. y.stamp \in Int /\ y.url_id \in Int
    BY <2>1 DEF Entries
  <2>3. y.url_id = u => ~(y.stamp >= s)
    BY <2>2
  <2> HIDE DEF y
  <2>4. NotOld(dels1, y) <=> NotOld(dels, y) /\ (u = y.url_id => y.stamp >= s)
    BY <1>1, <1>2 DEF NotOld
  <2> QED
    BY <2>3, <2>4 DEF y
<1>5. OldIn(record, b1) = {y \in OldIn(record, b) : y.url_id # u}
  BY <1>3 DEF OldIn, dels, dels1
<1>6. NewAt(b1, w) = {k \in NewAt(b, w) : b.data[k].url_id # u}
  BY <1>4 DEF NewAt, dels, dels1
<1>7. \A k \in NewAt(b, w) : PostingAt(b1, k) = PostingAt(b, k) /\ PostingAt(b, k).url_id = b.data[k].url_id
  BY DEF PostingAt, Crd
<1>8. NewIn(b1, w) = {y \in NewIn(b, w) : y.url_id # u}
  <2>1. ASSUME NEW y, y \in NewIn(b1, w) PROVE y \in NewIn(b, w) /\ y.url_id # u
    BY <1>6, <1>7, <2>1 DEF NewIn
  <2>2. ASSUME NEW y, y \in NewIn(b, w), y.url_id # u PROVE y \in NewIn(b1, w)
    BY <1>6, <1>7, <2>2 DEF NewIn
  <2> QED
    BY <2>1, <2>2
<1>9. ContentOf(record, b1, w) = {y \in ContentOf(record, b, w) : y.url_id # u}
  BY <1>5, <1>8 DEF ContentOf
<1>10. ASSUME PostedOnce(record, b, w) PROVE PostedOnce(record, b1, w)
  <2>1. OldIn(record, b1) \cap NewIn(b1, w) = {}
    BY <1>5, <1>8, <1>10 DEF PostedOnce
  <2>2. \A k, l \in NewAt(b1, w) : PostingAt(b1, k) = PostingAt(b1, l) => k = l
    BY <1>6, <1>7, <1>10 DEF PostedOnce
  <2> QED
    BY <1>10, <2>1, <2>2 DEF PostedOnce
<1> QED
  BY <1>9, <1>10

\* A word that is not old adds its posting.
LEMMA WordAdds ==
    ASSUME NEW record, NEW w, NEW b, NEW b1, NEW x \in Entries,
           b.data \in Seq(Entries), b1.del_buf = b.del_buf, b1.data = Append(b.data, x),
           NotOld(b.del_buf, x)
    PROVE  LET new == IF w = x.wrd_id THEN {Crd(x.url_id, x.coord)} ELSE {} IN
           /\ ContentOf(record, b1, w) = ContentOf(record, b, w) \cup new
           /\ PostedOnce(record, b, w) /\ ContentOf(record, b, w) \cap new = {} => PostedOnce(record, b1, w)
<1> DEFINE data == b.data
           data1 == b1.data
           n == Len(data) + 1
           v == x.wrd_id
           c == x.coord
           u == x.url_id
<1>2. /\ Len(data) \in Nat /\ DOMAIN data = 1..Len(data) /\ DOMAIN data1 = 1..(Len(data) + 1)
      /\ \A m \in 1..Len(data) : data1[m] = data[m]
      /\ data1[Len(data) + 1] = x
  BY AppendProperties, LenProperties
<1>3. DOMAIN data1 = DOMAIN data \cup {n} /\ n \notin DOMAIN data /\ \A m \in DOMAIN data : data1[m] = data[m]
  BY <1>2
<1>5. data1[n] = x
  BY <1>2
<1> HIDE DEF data, data1, n
<1>6. OldIn(record, b1) = OldIn(record, b)
  BY DEF OldIn
<1>7. NewAt(b1, w) = NewAt(b, w) \cup (IF w = v THEN {n} ELSE {})
  BY <1>3, <1>5 DEF NewAt, data, data1
<1>8. /\ \A k \in NewAt(b, w) : PostingAt(b1, k) = PostingAt(b, k) /\ k # n
      /\ PostingAt(b1, n) = Crd(u, c)
  BY <1>3, <1>5 DEF NewAt, PostingAt, data, data1
<1>9. NewIn(b1, w) = NewIn(b, w) \cup (IF w = v THEN {Crd(u, c)} ELSE {})
  <2>1. CASE w = v
    <3>1. NewAt(b1, w) = NewAt(b, w) \cup {n}
      BY <1>7, <2>1
    <3>2. ASSUME NEW y, y \in NewIn(b1, w) PROVE y \in NewIn(b, w) \cup {Crd(u, c)}
      BY <1>8, <3>1, <3>2 DEF NewIn
    <3>3. ASSUME NEW y, y \in NewIn(b, w) \cup {Crd(u, c)} PROVE y \in NewIn(b1, w)
      BY <1>8, <3>1, <3>3 DEF NewIn
    <3> QED
      BY <2>1, <3>2, <3>3
  <2>2. CASE w # v
    <3>1. NewAt(b1, w) = NewAt(b, w)
      BY <1>7, <2>2
    <3> QED
      BY <1>8, <2>2, <3>1 DEF NewIn
  <2> QED
    BY <2>1, <2>2
<1>10. ContentOf(record, b1, w) = ContentOf(record, b, w) \cup (IF w = v THEN {Crd(u, c)} ELSE {})
  BY <1>6, <1>9 DEF ContentOf
<1>11. ASSUME PostedOnce(record, b, w), ContentOf(record, b, w) \cap (IF w = v THEN {Crd(u, c)} ELSE {}) = {}
       PROVE  PostedOnce(record, b1, w)
  <2>1. OldIn(record, b1) \cap NewIn(b1, w) = {}
    BY <1>6, <1>9, <1>11 DEF PostedOnce, ContentOf
  <2>2. w = v => \A k \in NewAt(b, w) : PostingAt(b, k) # Crd(u, c)
    BY <1>11 DEF ContentOf, NewIn
  <2>3. \A k, l \in NewAt(b, w) : PostingAt(b, k) = PostingAt(b, l) => k = l
    BY <1>11 DEF PostedOnce
  <2>4. \A k, l \in NewAt(b1, w) : PostingAt(b1, k) = PostingAt(b1, l) => k = l
    BY <1>7, <1>8, <2>2, <2>3
  <2> QED
    BY <1>11, <2>1, <2>4 DEF PostedOnce
<1> QED
  BY <1>10, <1>11

-----------------------------------------------------------------------------
(* Buffers one behind the other. *)

FlatTo(seqs, n, g) == g = [i \in 1..n |-> IF i = 1 THEN seqs[i] ELSE g[i - 1] \o seqs[i]]

LEMMA FlatToExists ==
    ASSUME NEW seqs
    PROVE  \A n \in Nat : \E g : FlatTo(seqs, n, g)
<1> DEFINE T == {n \in Nat : \E g : FlatTo(seqs, n, g)}
<1>1. 0 \in T
  <2> DEFINE g == [i \in 1..0 |-> 0]
  <2>1. FlatTo(seqs, 0, g)
    BY DEF FlatTo
  <2> QED
    BY <2>1
<1>2. ASSUME NEW n \in Nat, n \in T PROVE n + 1 \in T
  <2>1. PICK g : FlatTo(seqs, n, g)
    BY <1>2
  <2> DEFINE new == IF n = 0 THEN seqs[1] ELSE g[n] \o seqs[n + 1]
             h == [i \in 1..(n + 1) |-> IF i = n + 1 THEN new ELSE g[i]]
             Rule(i) == IF i = 1 THEN seqs[i] ELSE h[i - 1] \o seqs[i]
  <2>2. \A i \in 1..n : g[i] = IF i = 1 THEN seqs[i] ELSE g[i - 1] \o seqs[i]
    BY <2>1 DEF FlatTo
  <2>3. h[n + 1] = new /\ \A i \in 1..n : h[i] = g[i]
    <3> HIDE DEF new
    <3> QED
      OBVIOUS
  <2>4. h = [i \in 1..(n + 1) |-> h[i]]
    OBVIOUS
  <2> HIDE DEF h
  <2>5. ASSUME NEW i \in 1..(n + 1) PROVE h[i] = Rule(i)
    <3>1. CASE i = n + 1 /\ n = 0
      BY <2>3, <3>1
    <3>2. CASE i = n + 1 /\ n # 0
      <4>1. i # 1 /\ i - 1 = n /\ n \in 1..n
        BY <3>2
      <4>2. h[i - 1] = g[n]
        BY <2>3, <4>1
      <4> QED
        BY <2>3, <3>2, <4>1, <4>2
    <3>3. CASE i # n + 1
      <4>1. i \in 1..n /\ (i # 1 => i - 1 \in 1..n)
        BY <3>3
      <4> QED
        BY <2>2, <2>3, <4>1
    <3> QED
      BY <3>1, <3>2, <3>3
  <2>6. h = [i \in 1..(n + 1) |-> Rule(i)]
    <3> HIDE DEF Rule
    <3> QED
      BY <2>4, <2>5
  <2>7. FlatTo(seqs, n + 1, h)
    BY <2>6 DEF FlatTo
  <2> QED
    BY <2>7
<1> HIDE DEF T
<1>3. \A n \in Nat : n \in T
  BY <1>1, <1>2, Induct
<1> QED
  BY <1>3 DEF T

\* Sequences over R one behind the other are one over R.
LEMMA FlattenTyped ==
    ASSUME NEW R, NEW seqs, Len(seqs) \in Nat, \A i \in 1..Len(seqs) : seqs[i] \in Seq(R),
           Len(seqs) = 0 => seqs = <<>>
    PROVE  FlattenSeq(seqs) \in Seq(R)
<1> DEFINE n == Len(seqs)
           g == CHOOSE g : FlatTo(seqs, n, g)
           T == {i \in Nat : i + 1 \in 1..n => g[i + 1] \in Seq(R)}
<1>1. FlatTo(seqs, n, g)
  BY FlatToExists
<1>2. n # 0 => FlattenSeq(seqs) = g[n]
  BY DEF FlattenSeq, FlatTo
<1>3. \A i \in 1..n : g[i] = IF i = 1 THEN seqs[i] ELSE g[i - 1] \o seqs[i]
  BY <1>1 DEF FlatTo
<1> HIDE DEF g
<1>4. 0 \in T
  BY <1>3
<1>5. ASSUME NEW i \in Nat, i \in T PROVE i + 1 \in T
  <2> SUFFICES ASSUME i + 2 \in 1..n PROVE g[i + 2] \in Seq(R)
    OBVIOUS
  <2>1. i + 1 \in 1..n /\ i + 2 # 1 /\ (i + 2) - 1 = i + 1
    OBVIOUS
  <2>2. g[i + 1] \in Seq(R) /\ seqs[i + 2] \in Seq(R)
    BY <1>5, <2>1
  <2>3. g[i + 2] = g[i + 1] \o seqs[i + 2]
    BY <1>3, <2>1
  <2> QED
    BY <2>2, <2>3
<1>6. CASE n # 0
  <2>1. n - 1 \in Nat /\ (n - 1) + 1 = n /\ n \in 1..n
    BY <1>6
  <2>2. n - 1 \in T
    <3> HIDE DEF T
    <3> QED
      BY <1>4, <1>5, <2>1, Induct
  <2> QED
    BY <1>2, <1>6, <2>1, <2>2
<1>7. CASE n = 0
  BY <1>7 DEF FlattenSeq
<1> QED
  BY <1>6, <1>7
\* Two sequences one behind the other have the elements of both.
LEMMA JoinedSet ==
    ASSUME NEW R, NEW s \in Seq(R), NEW t \in Seq(R)
    PROVE  ToSet(s \o t) = ToSet(s) \cup ToSet(t)
<1> DEFINE u == s \o t
<1>1. /\ Len(s) \in Nat /\ Len(t) \in Nat /\ DOMAIN s = 1..Len(s) /\ DOMAIN t = 1..Len(t)
      /\ DOMAIN u = 1..(Len(s) + Len(t))
      /\ \A i \in 1..(Len(s) + Len(t)) : u[i] = IF i <= Len(s) THEN s[i] ELSE t[i - Len(s)]
  BY ConcatProperties, LenProperties
<1> HIDE DEF u
<1>2. \A i \in DOMAIN s : i \in DOMAIN u /\ u[i] = s[i]
  BY <1>1
<1>3. \A i \in DOMAIN t : i + Len(s) \in DOMAIN u /\ u[i + Len(s)] = t[i]
  BY <1>1
<1>4. \A i \in DOMAIN u : (i \in DOMAIN s /\ u[i] = s[i]) \/ (i - Len(s) \in DOMAIN t /\ u[i] = t[i - Len(s)])
  BY <1>1
<1>5. ToSet(s) \subseteq ToSet(u) /\ ToSet(t) \subseteq ToSet(u)
  BY <1>2, <1>3 DEF ToSet
<1>6. ToSet(u) \subseteq ToSet(s) \cup ToSet(t)
  BY <1>4 DEF ToSet
<1> QED
  BY <1>5, <1>6 DEF u

\* Sequences one behind the other have the elements of all.
LEMMA FlattenedSet ==
    ASSUME NEW R, NEW seqs, Len(seqs) \in Nat \ {0}, \A i \in 1..Len(seqs) : seqs[i] \in Seq(R)
    PROVE  ToSet(FlattenSeq(seqs)) = UNION {ToSet(seqs[i]) : i \in 1..Len(seqs)}
<1> DEFINE n == Len(seqs)
           g == CHOOSE g : FlatTo(seqs, n, g)
           All(i) == UNION {ToSet(seqs[j]) : j \in 1..i}
           OK(i) == g[i + 1] \in Seq(R) /\ ToSet(g[i + 1]) = All(i + 1)
           T == {i \in Nat : i + 1 \in 1..n => OK(i)}
<1>1. FlatTo(seqs, n, g)
  BY FlatToExists
<1>2. FlattenSeq(seqs) = g[n]
  BY DEF FlattenSeq, FlatTo
<1>3. \A i \in 1..n : g[i] = IF i = 1 THEN seqs[i] ELSE g[i - 1] \o seqs[i]
  BY <1>1 DEF FlatTo
<1> HIDE DEF g
<1>4. 0 \in T
  <2>1. 1 \in 1..n /\ g[1] = seqs[1] /\ All(1) = ToSet(seqs[1])
    BY <1>3
  <2> QED
    BY <2>1
<1>5. ASSUME NEW i \in Nat, i \in T PROVE i + 1 \in T
  <2> SUFFICES ASSUME i + 2 \in 1..n PROVE OK(i + 1)
    OBVIOUS
  <2>1. i + 1 \in 1..n /\ i + 2 # 1 /\ (i + 2) - 1 = i + 1 /\ (i + 1) + 1 = i + 2
    OBVIOUS
  <2>2. OK(i) /\ seqs[i + 2] \in Seq(R)
    BY <1>5, <2>1
  <2>3. g[i + 2] = g[i + 1] \o seqs[i + 2]
    BY <1>3, <2>1
  <2>4. All(i + 2) = All(i + 1) \cup ToSet(seqs[i + 2])
    <3>1. 1..(i + 2) = 1..(i + 1) \cup {i + 2}
      OBVIOUS
    <3> QED
      BY <3>1
  <2> HIDE DEF All
  <2>5. ToSet(g[i + 2]) = ToSet(g[i + 1]) \cup ToSet(seqs[i + 2])
    BY <2>2, <2>3, JoinedSet
  <2>6. g[i + 2] \in Seq(R)
    BY <2>2, <2>3, ConcatProperties
  <2> QED
    BY <2>1, <2>2, <2>4, <2>5, <2>6
<1>6. n - 1 \in Nat /\ (n - 1) + 1 = n /\ n \in 1..n
  OBVIOUS
<1>7. n - 1 \in T
  <2> HIDE DEF T
  <2> QED
    BY <1>4, <1>5, <1>6, Induct
<1>8. ToSet(g[n]) = All(n)
  <2> HIDE DEF All
  <2> QED
    BY <1>6, <1>7
<1> QED
  BY <1>2, <1>8

-----------------------------------------------------------------------------
(* What a record and sets of words and markers together say of a word,     *)
(* wherever these are.                                                     *)

Clear(M, u) == \A m \in M : m.url_id # u
NotBefore(M, x) == \A m \in M : m.url_id = x.url_id => x.stamp >= m.stamp

\* The postings of the record that the markers M leave, and those of the words D.
Kept(record, M) == {c \in ToSet(record) : Clear(M, c.url_id)}
Told(D, M, w) == {x \in D : x.wrd_id = w /\ NotBefore(M, x)}
PostingOf(x) == Crd(x.url_id, x.coord)
Posted(D, M, w) == {PostingOf(x) : x \in Told(D, M, w)}
Shows(record, D, M, w) == Kept(record, M) \cup Posted(D, M, w)

\* No posting comes twice.
ShowsOnce(record, D, M, w) ==
    /\ IsInjective(record)
    /\ \A x, y \in Told(D, M, w) : PostingOf(x) = PostingOf(y) => x = y
    /\ Kept(record, M) \cap Posted(D, M, w) = {}

\* It is what a buffer with these words and markers says.
LEMMA BufferShows ==
    ASSUME NEW record, NEW w, NEW b, IsInjective(b.data)
    PROVE  LET D == ToSet(b.data)
               M == ToSet(b.del_buf)
           IN  /\ ContentOf(record, b, w) = Shows(record, D, M, w)
               /\ PostedOnce(record, b, w) <=> ShowsOnce(record, D, M, w)
<1> DEFINE D == ToSet(b.data)
           M == ToSet(b.del_buf)
<1>1. \A u : Unmarked(b.del_buf, u) <=> Clear(M, u)
  BY DEF Unmarked, Clear, ToSet
<1>2. \A x : NotOld(b.del_buf, x) <=> NotBefore(M, x)
  BY DEF NotOld, NotBefore, ToSet
<1>3. OldIn(record, b) = Kept(record, M)
  BY <1>1 DEF OldIn, Kept
<1>4. /\ \A k \in NewAt(b, w) : b.data[k] \in Told(D, M, w)
      /\ \A x \in Told(D, M, w) : \E k \in NewAt(b, w) : b.data[k] = x
      /\ \A k \in NewAt(b, w) : PostingAt(b, k) = PostingOf(b.data[k]) /\ k \in DOMAIN b.data
  BY <1>2 DEF NewAt, Told, PostingAt, PostingOf, ToSet
<1>5. NewIn(b, w) = Posted(D, M, w)
  <2>1. \A k \in NewAt(b, w) : PostingAt(b, k) \in Posted(D, M, w)
    BY <1>4 DEF Posted
  <2>2. \A x \in Told(D, M, w) : PostingOf(x) \in NewIn(b, w)
    BY <1>4 DEF NewIn
  <2>3. NewIn(b, w) \subseteq Posted(D, M, w)
    BY <2>1 DEF NewIn
  <2>4. Posted(D, M, w) \subseteq NewIn(b, w)
    BY <2>2 DEF Posted
  <2> QED
    BY <2>3, <2>4
<1>6. (\A k, l \in NewAt(b, w) : PostingAt(b, k) = PostingAt(b, l) => k = l)
      <=> (\A x, y \in Told(D, M, w) : PostingOf(x) = PostingOf(y) => x = y)
  <2>1. \A k, l \in DOMAIN b.data : b.data[k] = b.data[l] => k = l
    BY DEF IsInjective
  <2> HIDE DEF D, M
  <2>2. ASSUME \A k, l \in NewAt(b, w) : PostingAt(b, k) = PostingAt(b, l) => k = l,
               NEW x \in Told(D, M, w), NEW y \in Told(D, M, w), PostingOf(x) = PostingOf(y)
        PROVE  x = y
    <3>1. PICK k \in NewAt(b, w) : b.data[k] = x
      BY <1>4
    <3>2. PICK l \in NewAt(b, w) : b.data[l] = y
      BY <1>4
    <3> QED
      BY <1>4, <2>2, <3>1, <3>2
  <2>3. ASSUME \A x, y \in Told(D, M, w) : PostingOf(x) = PostingOf(y) => x = y,
               NEW k \in NewAt(b, w), NEW l \in NewAt(b, w), PostingAt(b, k) = PostingAt(b, l)
        PROVE  k = l
    BY <1>4, <2>1, <2>3
  <2> QED
    BY <2>2, <2>3
<1> QED
  BY <1>3, <1>5, <1>6 DEF ContentOf, PostedOnce, Shows, ShowsOnce

\* Nothing is to come.
LEMMA NothingShows ==
    ASSUME NEW record, NEW w
    PROVE  /\ Shows(record, {}, {}, w) = ToSet(record)
           /\ ShowsOnce(record, {}, {}, w) <=> IsInjective(record)
<1>1. Told({}, {}, w) = {} /\ Kept(record, {}) = ToSet(record)
  BY DEF Told, Kept, Clear
<1>2. Posted({}, {}, w) = {}
  BY <1>1 DEF Posted
<1> QED
  BY <1>1, <1>2 DEF Shows, ShowsOnce

\* A marker later than all words takes the postings of its url away.
LEMMA MarkerTakes ==
    ASSUME NEW record, NEW w, NEW D, NEW M, NEW u, NEW s \in Int,
           \A x \in D : x.stamp \in Int /\ x.stamp < s
    PROVE  LET N == M \cup {LogDel(s, u)} IN
           /\ Shows(record, D, N, w) = {c \in Shows(record, D, M, w) : c.url_id # u}
           /\ ShowsOnce(record, D, M, w) => ShowsOnce(record, D, N, w)
<1> DEFINE m == LogDel(s, u)
           N == M \cup {m}
<1>1. m.url_id = u /\ m.stamp = s
  BY DEF LogDel
<1> HIDE DEF m
<1>2. \A v : Clear(N, v) <=> Clear(M, v) /\ v # u
  BY <1>1 DEF Clear
<1>3. \A x \in D : NotBefore(N, x) <=> NotBefore(M, x) /\ x.url_id # u
  BY <1>1 DEF NotBefore
<1> HIDE DEF N
<1>4. Kept(record, N) = {c \in Kept(record, M) : c.url_id # u}
  BY <1>2 DEF Kept
<1>5. Told(D, N, w) = {x \in Told(D, M, w) : x.url_id # u}
  BY <1>3 DEF Told
<1>6. \A x : PostingOf(x).url_id = x.url_id
  BY DEF PostingOf, Crd
<1>7. Posted(D, N, w) = {c \in Posted(D, M, w) : c.url_id # u}
  <2>1. ASSUME NEW c \in Posted(D, N, w) PROVE c \in Posted(D, M, w) /\ c.url_id # u
    BY <1>5, <1>6 DEF Posted
  <2>2. ASSUME NEW c \in Posted(D, M, w), c.url_id # u PROVE c \in Posted(D, N, w)
    BY <1>5, <1>6, <2>2 DEF Posted
  <2> QED
    BY <2>1, <2>2
<1>8. Shows(record, D, N, w) = {c \in Shows(record, D, M, w) : c.url_id # u}
  BY <1>4, <1>7 DEF Shows
<1>9. ShowsOnce(record, D, M, w) => ShowsOnce(record, D, N, w)
  BY <1>4, <1>5, <1>7 DEF ShowsOnce
<1> QED
  BY <1>8, <1>9 DEF N, m

\* A word that no marker is later than adds its posting.
LEMMA WordTells ==
    ASSUME NEW record, NEW w, NEW D, NEW M, NEW x, NotBefore(M, x)
    PROVE  LET E == D \cup {x}
               new == IF w = x.wrd_id THEN {PostingOf(x)} ELSE {}
           IN  /\ Shows(record, E, M, w) = Shows(record, D, M, w) \cup new
               /\ ShowsOnce(record, D, M, w) /\ Shows(record, D, M, w) \cap new = {} => ShowsOnce(record, E, M, w)
<1> DEFINE E == D \cup {x}
           more == IF w = x.wrd_id THEN {x} ELSE {}
           new == IF w = x.wrd_id THEN {PostingOf(x)} ELSE {}
<1>1. Told(E, M, w) = Told(D, M, w) \cup more
  BY DEF Told
<1> HIDE DEF E
<1>2. Posted(E, M, w) = Posted(D, M, w) \cup new
  <2>1. CASE w = x.wrd_id
    <3>1. Told(E, M, w) = Told(D, M, w) \cup {x}
      BY <1>1, <2>1
    <3> QED
      BY <2>1, <3>1 DEF Posted
  <2>2. CASE w # x.wrd_id
    BY <1>1, <2>2 DEF Posted
  <2> QED
    BY <2>1, <2>2
<1>3. Shows(record, E, M, w) = Shows(record, D, M, w) \cup new
  BY <1>2 DEF Shows
<1>4. ASSUME ShowsOnce(record, D, M, w), Shows(record, D, M, w) \cap new = {} PROVE ShowsOnce(record, E, M, w)
  <2>1. Kept(record, M) \cap Posted(E, M, w) = {}
    BY <1>2, <1>4 DEF ShowsOnce, Shows
  <2>2. w = x.wrd_id => \A y \in Told(D, M, w) : PostingOf(y) # PostingOf(x)
    BY <1>4 DEF Shows, Posted
  <2>3. \A y, z \in Told(E, M, w) : PostingOf(y) = PostingOf(z) => y = z
    BY <1>1, <1>4, <2>2 DEF ShowsOnce
  <2> QED
    BY <1>4, <2>1, <2>3 DEF ShowsOnce
<1> QED
  BY <1>3, <1>4 DEF E

\* Where the words D and markers M are all earlier than the words E and markers
\* N, it is the same to merge D and M first and to have all at once.
LEMMA TwoRounds ==
    ASSUME NEW record, NEW w, NEW D, NEW M, NEW E, NEW N, NEW first,
           \A x \in D \cup E : x.stamp \in Int, \A m \in M \cup N : m.stamp \in Int,
           \A x \in D, y \in E : x.stamp < y.stamp, \A x \in D, m \in N : x.stamp < m.stamp,
           \A m \in M, y \in E : m.stamp < y.stamp,
           ShowsOnce(record, D \cup E, M \cup N, w),
           ToSet(first) = Shows(record, D, M, w), IsInjective(first)
    PROVE  /\ Shows(first, E, N, w) = Shows(record, D \cup E, M \cup N, w)
           /\ ShowsOnce(first, E, N, w)
<1> DEFINE A == D \cup E
           O == M \cup N
<1>1. \A u : Clear(O, u) <=> Clear(M, u) /\ Clear(N, u)
  BY DEF Clear
<1>2. \A y \in E : NotBefore(O, y) <=> NotBefore(N, y)
  BY DEF NotBefore
<1>3. \A x \in D : NotBefore(O, x) <=> NotBefore(M, x) /\ Clear(N, x.url_id)
  <2> SUFFICES ASSUME NEW x \in D PROVE NotBefore(O, x) <=> NotBefore(M, x) /\ Clear(N, x.url_id)
    OBVIOUS
  <2>1. \A m \in N : ~(x.stamp >= m.stamp)
    OBVIOUS
  <2> QED
    BY <2>1 DEF NotBefore, Clear
<1>4. Told(A, O, w) = {x \in Told(D, M, w) : Clear(N, x.url_id)} \cup Told(E, N, w)
  BY <1>2, <1>3 DEF Told
<1>5. Kept(record, O) = {c \in Kept(record, M) : Clear(N, c.url_id)}
  BY <1>1 DEF Kept
<1>6. \A x : PostingOf(x).url_id = x.url_id
  BY DEF PostingOf, Crd
<1>7. Kept(first, N) = Kept(record, O) \cup {c \in Posted(D, M, w) : Clear(N, c.url_id)}
  BY <1>5 DEF Kept, Shows
<1> DEFINE P == {c \in Posted(D, M, w) : Clear(N, c.url_id)}
<1>8. \A c \in P : \E x \in Told(A, O, w) : x \in D /\ c = PostingOf(x)
  BY <1>4, <1>6 DEF Posted, Told
<1>9. Posted(A, O, w) = P \cup Posted(E, N, w)
  <2>1. \A x \in Told(A, O, w) : PostingOf(x) \in P \cup Posted(E, N, w)
    BY <1>4, <1>6 DEF Posted
  <2>2. \A x \in Told(E, N, w) : PostingOf(x) \in Posted(A, O, w)
    BY <1>4 DEF Posted
  <2>3. Posted(A, O, w) \subseteq P \cup Posted(E, N, w)
    BY <2>1 DEF Posted
  <2>4. Posted(E, N, w) \subseteq Posted(A, O, w)
    BY <2>2 DEF Posted
  <2>5. P \subseteq Posted(A, O, w)
    BY <1>8 DEF Posted
  <2> QED
    BY <2>3, <2>4, <2>5
<1>10. Shows(first, E, N, w) = Shows(record, A, O, w)
  BY <1>7, <1>9 DEF Shows
<1> HIDE DEF P
<1>11. /\ \A x, y \in Told(A, O, w) : PostingOf(x) = PostingOf(y) => x = y
       /\ Kept(record, O) \cap Posted(A, O, w) = {}
  BY DEF ShowsOnce
<1>12. \A x, y \in Told(E, N, w) : PostingOf(x) = PostingOf(y) => x = y
  BY <1>4, <1>11
<1>13. P \cap Posted(E, N, w) = {}
  <2> SUFFICES ASSUME NEW c, c \in P, c \in Posted(E, N, w) PROVE FALSE
    OBVIOUS
  <2>1. PICK x \in Told(A, O, w) : x \in D /\ c = PostingOf(x)
    BY <1>8
  <2>2. PICK y \in Told(E, N, w) : c = PostingOf(y)
    BY DEF Posted
  <2>3. y \in E /\ y \in Told(A, O, w)
    BY <1>4, <2>2 DEF Told
  <2>4. x = y
    BY <1>11, <2>1, <2>2, <2>3
  <2>5. x.stamp < x.stamp /\ x.stamp \in Int
    BY <2>1, <2>3, <2>4
  <2> QED
    BY <2>5
<1>14. Kept(first, N) \cap Posted(E, N, w) = {}
  BY <1>7, <1>9, <1>11, <1>13 DEF P
<1> QED
  BY <1>10, <1>12, <1>14 DEF ShowsOnce
\* The latest marker of each url says what all of them do.
LEMMA LatestShows ==
    ASSUME NEW record \in Seq(Postings), NEW w, NEW D, \A x \in D : x.stamp \in Int /\ x.url_id \in Int,
           NEW dels \in Seq(Markers), NEW sorted, LatestOf(sorted, dels)
    PROVE  LET M == ToSet(dels)
               N == ToSet(sorted)
           IN  /\ Shows(record, D, N, w) = Shows(record, D, M, w)
               /\ ShowsOnce(record, D, N, w) <=> ShowsOnce(record, D, M, w)
<1> DEFINE M == ToSet(dels)
           N == ToSet(sorted)
<1>1. \A m \in M : \E n \in N : n.url_id = m.url_id /\ n.stamp >= m.stamp
  <2> SUFFICES ASSUME NEW m \in M
               PROVE  \E n \in N : n.url_id = m.url_id /\ n.stamp >= m.stamp
    OBVIOUS
  <2>1. PICK j \in DOMAIN dels : dels[j] = m
    BY DEF ToSet
  <2>2. PICK k \in DOMAIN sorted : sorted[k].url_id = dels[j].url_id /\ sorted[k].stamp >= dels[j].stamp
    BY DEF LatestOf
  <2>3. sorted[k] \in N
    BY DEF ToSet
  <2> QED
    BY <2>1, <2>2, <2>3
<1>2. N \subseteq M
  BY DEF LatestOf, ToSet
<1>3. \A m \in M \cup N : m.stamp \in Int
  BY <1>2, MarkerNumbers DEF ToSet
<1> HIDE DEF M, N
<1>4. \A u : Clear(N, u) <=> Clear(M, u)
  BY <1>1, <1>2 DEF Clear
<1>5. \A x \in D : NotBefore(N, x) <=> NotBefore(M, x)
  <2> SUFFICES ASSUME NEW x \in D, NotBefore(N, x), NEW m \in M, m.url_id = x.url_id
               PROVE  x.stamp >= m.stamp
    BY <1>2 DEF NotBefore
  <2>1. PICK n \in N : n.url_id = m.url_id /\ n.stamp >= m.stamp
    BY <1>1
  <2>2. x.stamp >= n.stamp
    BY <2>1 DEF NotBefore
  <2> QED
    BY <1>3, <2>1, <2>2
<1>6. Kept(record, N) = Kept(record, M)
  BY <1>4 DEF Kept
<1>7. Told(D, N, w) = Told(D, M, w)
  BY <1>5 DEF Told
<1> QED
  BY <1>6, <1>7 DEF Shows, ShowsOnce, Posted, M, N
-----------------------------------------------------------------------------
(* What a document says of a word. *)

\* The first of the words, and the others.
LEMMA HeadAway ==
    ASSUME NEW R, NEW s \in Seq(R), s # <<>>, IsInjective(s)
    PROVE  /\ ToSet(s) = {Head(s)} \cup ToSet(Tail(s))
           /\ Head(s) \notin ToSet(Tail(s))
           /\ IsInjective(Tail(s))
<1> DEFINE t == Tail(s)
           n == Len(s)
<1>1. /\ n \in Nat \ {0} /\ DOMAIN s = 1..n /\ DOMAIN t = 1..(n - 1) /\ Head(s) = s[1]
      /\ \A k \in 1..(n - 1) : t[k] = s[k + 1]
  BY LenProperties, HeadTailProperties
<1>2. \A k, l \in 1..n : s[k] = s[l] => k = l
  BY <1>1 DEF IsInjective
<1> HIDE DEF t, n
<1>3. \A k \in 1..(n - 1) : k + 1 \in 1..n /\ k + 1 # 1 /\ t[k] = s[k + 1]
  BY <1>1
<1>4. \A k \in 1..n : k = 1 \/ (k - 1 \in 1..(n - 1) /\ s[k] = t[k - 1])
  BY <1>1
<1>5. 1 \in 1..n
  BY <1>1
<1>6. ToSet(s) = {Head(s)} \cup ToSet(t)
  <2>1. ASSUME NEW x \in ToSet(s) PROVE x \in {Head(s)} \cup ToSet(t)
    <3>1. PICK k \in 1..n : x = s[k]
      BY <1>1 DEF ToSet
    <3> QED
      BY <1>1, <1>4, <3>1 DEF ToSet
  <2>2. ASSUME NEW x \in ToSet(t) PROVE x \in ToSet(s)
    <3>1. PICK k \in 1..(n - 1) : x = t[k]
      BY <1>1 DEF ToSet
    <3> QED
      BY <1>1, <1>3, <3>1 DEF ToSet
  <2>3. Head(s) \in ToSet(s)
    BY <1>1, <1>5 DEF ToSet
  <2> QED
    BY <2>1, <2>2, <2>3
<1>7. Head(s) \notin ToSet(t)
  BY <1>1, <1>2, <1>3, <1>5 DEF ToSet
<1>8. IsInjective(t)
  <2> SUFFICES ASSUME NEW k \in 1..(n - 1), NEW l \in 1..(n - 1), t[k] = t[l] PROVE k = l
    BY <1>1 DEF IsInjective
  <2>1. k + 1 = l + 1
    BY <1>2, <1>3
  <2> QED
    BY <1>1, <2>1
<1> QED
  BY <1>6, <1>7, <1>8 DEF t

\* The postings of w that these words of url u are.
Of(u, words, w) == {Crd(u, y[2]) : y \in {z \in ToSet(words) : z[1] = w}}

\* What the words say without the first of them.
LEMMA OfTail ==
    ASSUME NEW R, \A y \in R : y = <<y[1], y[2]>>,
           NEW words \in Seq(R), words # <<>>, IsInjective(words), NEW u,
           NEW v, NEW c, v = Head(words)[1], c = Head(words)[2]
    PROVE  /\ \A w : Of(u, words, w) = Of(u, Tail(words), w) \cup (IF w = v THEN {Crd(u, c)} ELSE {})
           /\ Crd(u, c) \notin Of(u, Tail(words), v)
<1> DEFINE T == ToSet(Tail(words))
<1>1. ToSet(words) = {Head(words)} \cup T /\ Head(words) \notin T
  BY HeadAway
<1>2. Head(words) = <<v, c>>
  <2>1. Head(words) \in R
    OBVIOUS
  <2> QED
    BY <2>1
<1>3. T \subseteq R
  <2>1. Tail(words) \in Seq(R)
    OBVIOUS
  <2> QED
    BY <2>1, LenProperties, ElementOfSeq DEF ToSet
<1> HIDE DEF T
<1>4. Crd(u, c) \notin Of(u, Tail(words), v)
  <2> SUFFICES ASSUME NEW y \in T, y[1] = v, Crd(u, y[2]) = Crd(u, c) PROVE FALSE
    BY DEF Of, T
  <2>1. y[2] = c
    BY DEF Crd
  <2>2. y = <<v, c>>
    BY <1>3, <2>1
  <2> QED
    BY <1>1, <1>2, <2>2
<1>5. ASSUME NEW w PROVE Of(u, words, w) = Of(u, Tail(words), w) \cup (IF w = v THEN {Crd(u, c)} ELSE {})
  <2> DEFINE yes == {z \in ToSet(words) : z[1] = w}
             no == {z \in T : z[1] = w}
  <2>1. yes = no \cup (IF w = v THEN {<<v, c>>} ELSE {})
    BY <1>1, <1>2
  <2>2. Of(u, words, w) = {Crd(u, y[2]) : y \in yes} /\ Of(u, Tail(words), w) = {Crd(u, y[2]) : y \in no}
    BY DEF Of, T
  <2>3. CASE w = v
    <3>1. yes = no \cup {<<v, c>>}
      BY <2>1, <2>3
    <3>2. <<v, c>>[2] = c
      OBVIOUS
    <3> HIDE DEF yes, no
    <3> QED
      BY <2>2, <2>3, <3>1, <3>2
  <2>4. CASE w # v
    BY <2>1, <2>2, <2>4
  <2> QED
    BY <2>3, <2>4
<1> QED
  BY <1>4, <1>5
=============================================================================
