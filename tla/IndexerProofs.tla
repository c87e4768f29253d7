---------------------------- MODULE IndexerProofs ----------------------------
(***************************************************************************)
(* What Indexer promises for every number of threads, processes, urls and  *)
(* targets: its types, no document in two threads, and what is true when   *)
(* the threads end (WaitsForAll, Owned, NothingLeft).                      *)
(*                                                                         *)
(* The proofs of the latter see a step of a thread through two tables:     *)
(* where the thread goes and what it is told then (Moves), and what        *)
(* becomes of the urls (Deals). The tables follow from the actions; the    *)
(* rest from the tables.                                                   *)
(***************************************************************************)
EXTENDS Indexer, FiniteSetTheorems, TLAPS

Dozing(p) == {t \in Mine(p) : sleeping[t]}

\* sleep_threads is the number of threads whose i_sleep is set, ended ones included.
Counted == \A p \in Procs : asleep[p] = Cardinality(Dozing(p))

\* A thread that works on a document has one, and no other has.
Busy == \A t \in Threads : IF pc[t] \in {"work", "flush"} THEN work[t] \in Urls ELSE work[t] = NoUrl

Typed == TypeOK /\ Counted /\ Busy

-----------------------------------------------------------------------------
(* The types. *)

LEMMA LimitNat == Limit \in Nat
BY IndexerAssumption DEF Limit

LEMMA DozingFinite == \A p \in Procs : IsFiniteSet(Dozing(p))
<1>1. \A p \in Procs : Dozing(p) \subseteq Threads BY DEF Dozing, Mine
<1> QED BY <1>1, IndexerAssumption, FS_Subset

\* The surroundings of a run and the process of a thread never change.
LEMMA Fixed == [Next]_vars => UNCHANGED <<around, proc>>
<1> SUFFICES ASSUME [Next]_vars PROVE UNCHANGED <<around, proc>> OBVIOUS
<1>1. ASSUME NEW t \in Threads, Step(t) PROVE UNCHANGED <<around, proc>>
  <2>1. CASE Create(t) \/ Open(t) \/ Signals(t) \/ Check(t) \/ Reload(t) \/ Enter(t) \/ NoMore(t)
    BY <2>1 DEF Create, Open, Signals, Check, Reload, Enter, NoMore
  <2>2. CASE Take(t) \/ SelectTargets(t) \/ MarkTargets(t) \/ Parse(t) \/ Update(t) \/ Finish(t)
    BY <2>2 DEF Take, SelectTargets, MarkTargets, Parse, Update, Finish
  <2>3. CASE SetAction(t) \/ Wake(t) \/ Drain(t) \/ StopAll(t)
    BY <2>3 DEF SetAction, Wake, Drain, StopAll
  <2>4. CASE Sleep(t) \/ Test(t) \/ End(t) \/ Leave(t)
    BY <2>4 DEF Sleep, Test, End, Leave
  <2> QED BY <1>1, <2>1, <2>2, <2>3, <2>4 DEF Step
<1>2. ASSUME NEW p \in Procs, Count(p) \/ Signal(p) \/ Die(p) PROVE UNCHANGED <<around, proc>>
  BY <1>2 DEF Count, Signal, Die
<1>3. CASE Expire \/ UNCHANGED vars
  BY <1>3 DEF Expire, vars
<1> QED BY <1>1, <1>2, <1>3 DEF Next

LEMMA TypedInit == Init => Typed
<1> SUFFICES ASSUME Init PROVE Typed OBVIOUS
<1>1. \A p \in Procs : Cardinality(Mine(p)) \in Nat
  <2>1. \A p \in Procs : Mine(p) \subseteq Threads BY DEF Mine
  <2> QED BY <2>1, IndexerAssumption, FS_Subset, FS_CardinalityType
<1>2. total \in [Procs -> Int] BY <1>1 DEF Init
<1>3. number \in [Procs -> Int] BY LimitNat DEF Init
<1>4. nit \in [Urls -> {"none", "due", "held", "later"}] BY DEF Init
<1>5. TypeOK BY <1>2, <1>3, <1>4 DEF Init, TypeOK, Places, Results
<1>6. Counted
  <2>1. \A p \in Procs : Dozing(p) = {} BY DEF Init, Dozing, Mine
  <2> QED BY <2>1, FS_EmptySet DEF Counted, Init
<1>7. Busy BY DEF Init, Busy
<1> QED BY <1>5, <1>6, <1>7 DEF Typed

\* Where neither the sleepers nor the documents at work change, the rest follows from the type.
LEMMA CountedKept ==
    ASSUME Counted, UNCHANGED <<proc, asleep, sleeping>>
    PROVE  Counted'
BY DEF Counted, Dozing, Mine

\* A thread falls asleep: one more dozes.
LEMMA FallsAsleep ==
    ASSUME Typed, NEW t \in Threads, Sleep(t)
    PROVE  asleep' \in [Procs -> Nat] /\ Counted'
<1> DEFINE p == proc[t]
<1>1. p \in Procs BY DEF Typed, TypeOK
<1>2. proc' = proc BY DEF Sleep
<1>3. \A q \in Procs : Dozing(q)' = IF q = p THEN Dozing(q) \cup {t} ELSE Dozing(q)
  BY <1>2 DEF Dozing, Mine, Sleep, Typed, TypeOK
<1>4. CASE sleeping[t]
  <2>1. \A q \in Procs : Dozing(q)' = Dozing(q) BY <1>3, <1>4 DEF Dozing, Mine
  <2> QED BY <2>1, <1>4 DEF Sleep, Counted, Typed, TypeOK
<1>5. CASE ~ sleeping[t]
  <2>1. t \notin Dozing(p) BY <1>5 DEF Dozing
  <2>2. Cardinality(Dozing(p) \cup {t}) = Cardinality(Dozing(p)) + 1
    BY <2>1, <1>1, DozingFinite, FS_AddElement
  <2>3. asleep' = [asleep EXCEPT ![p] = @ + 1] BY <1>5 DEF Sleep
  <2>4. asleep \in [Procs -> Nat] /\ \A q \in Procs : asleep[q] = Cardinality(Dozing(q))
    BY DEF Typed, TypeOK, Counted
  <2>5. \A q \in Procs : asleep'[q] = Cardinality(Dozing(q)')
    BY <1>1, <1>3, <2>2, <2>3, <2>4
  <2>6. asleep' \in [Procs -> Nat] BY <1>1, <2>3, <2>4
  <2> QED BY <2>5, <2>6 DEF Counted
<1> QED BY <1>4, <1>5

\* A thread that has slept wakes: it was one of those that dozed.
LEMMA WakesUp ==
    ASSUME Typed, NEW t \in Threads, Wake(t)
    PROVE  asleep' \in [Procs -> Nat] /\ Counted'
<1> DEFINE p == proc[t]
<1>1. p \in Procs BY DEF Typed, TypeOK
<1>2. proc' = proc BY DEF Wake
<1>3. \A q \in Procs : Dozing(q)' = IF q = p THEN Dozing(q) \ {t} ELSE Dozing(q)
  BY <1>2 DEF Dozing, Mine, Wake, Typed, TypeOK
<1>4. CASE ~ sleeping[t]
  <2>1. \A q \in Procs : Dozing(q)' = Dozing(q) BY <1>3, <1>4 DEF Dozing, Mine
  <2> QED BY <2>1, <1>4 DEF Wake, Counted, Typed, TypeOK
<1>5. CASE sleeping[t]
  <2>1. t \in Dozing(p) BY <1>5 DEF Dozing, Mine
  <2>2. Cardinality(Dozing(p) \ {t}) = Cardinality(Dozing(p)) - 1
    BY <2>1, <1>1, DozingFinite, FS_RemoveElement
  <2>3. asleep' = [asleep EXCEPT ![p] = @ - 1] BY <1>5 DEF Wake
  <2>4. asleep \in [Procs -> Nat] /\ \A q \in Procs : asleep[q] = Cardinality(Dozing(q))
    BY DEF Typed, TypeOK, Counted
  <2>5. \A q \in Procs : asleep'[q] = Cardinality(Dozing(q)')
    BY <1>1, <1>3, <2>2, <2>3, <2>4
  <2>6. Cardinality(Dozing(p) \ {t}) \in Nat
    BY <1>1, DozingFinite, FS_Subset, FS_CardinalityType
  <2> QED BY <1>1, <2>2, <2>3, <2>4, <2>5, <2>6 DEF Counted
<1> QED BY <1>4, <1>5

\* What a flush of the cache does, by type.
LEMMA FlushTyped ==
    ASSUME Typed, NEW t \in Threads, NEW doc, FlushCache(t, doc)
    PROVE  /\ nit' \in [Urls -> {"none", "due", "held", "later"}]
           /\ cache' = [cache EXCEPT ![t] = {}]
           /\ doc # {} => \/ pc' = [pc EXCEPT ![t] = "finish"] /\ res' = res
                          \/ pc' = [pc EXCEPT ![t] = "set"] /\ res' = [res EXCEPT ![t] = "error"]
BY DEF FlushCache, Updated, Goto, Returns, Typed, TypeOK

LEMMA TypedStep == Typed /\ [Next]_vars => Typed'
<1> SUFFICES ASSUME Typed, [Next]_vars PROVE Typed' OBVIOUS
<1> USE DEF Places, Results
<1>0. /\ Limit \in Nat
      /\ TypeOK /\ Counted /\ Busy
  BY LimitNat DEF Typed
<1>1. ASSUME NEW t \in Threads, Step(t) PROVE Typed'
  <2>1. CASE Create(t)
    <3>1. born' \in [Procs -> Threads \cup {NoThread}] BY <1>0, <2>1 DEF TypeOK, Create
    <3>2. /\ pc' \in [Threads -> Places]
          /\ \A s \in Threads : pc'[s] \in {"work", "flush"} <=> pc[s] \in {"work", "flush"}
      BY <1>0, <2>1 DEF TypeOK, Create, Goto
    <3>3. Counted' BY <1>0, <2>1, CountedKept DEF Create
    <3>4. Busy' BY <1>0, <2>1, <3>2 DEF Busy, Create
    <3>5. TypeOK' BY <1>0, <2>1, <3>1, <3>2 DEF TypeOK, Create, conf
    <3> QED BY <3>3, <3>4, <3>5 DEF Typed
  <2>2. CASE Open(t)
    <3>1. /\ pc' \in [Threads -> Places]
          /\ \A s \in Threads : pc'[s] \in {"work", "flush"} <=> pc[s] \in {"work", "flush"}
      BY <1>0, <2>2 DEF TypeOK, Open, Goto
    <3> QED BY <1>0, <2>2, <3>1, CountedKept DEF Typed, TypeOK, Busy, Open, conf, counts
  <2>3. CASE Signals(t)
    <3>1. /\ targets' \in [Procs -> SUBSET Urls]
          /\ number' \in [Procs -> Int]
          /\ action' \in [Threads -> Results]
      BY <1>0, <2>3 DEF TypeOK, Signals, Tell
    <3>2. sig' \in [Procs -> [{"hup", "term"} -> {"no", "pending", "seen"}]]
      BY <1>0, <2>3 DEF TypeOK, Signals
    <3> QED BY <1>0, <2>3, <3>1, <3>2, CountedKept DEF Typed, TypeOK, Busy, Signals, Goto, counts
  <2>4. CASE Check(t)
    BY <1>0, <2>4, CountedKept DEF Typed, TypeOK, Busy, Check, Goto, conf, counts
  <2>5. CASE Reload(t)
    BY <1>0, <2>5, CountedKept DEF Typed, TypeOK, Busy, Reload, Goto, counts
  <2>6. CASE Enter(t)
    <3>1. Counted' BY <1>0, <2>6, CountedKept DEF Enter, counts
    <3>2. pc' \in [Threads -> Places] /\ res' \in [Threads -> Results]
      BY <1>0, <2>6 DEF TypeOK, Enter, Goto, Returns
    <3>3. \A s \in Threads : pc'[s] \in {"work", "flush"} <=> pc[s] \in {"work", "flush"}
      BY <1>0, <2>6 DEF TypeOK, Enter, Goto, Returns
    <3> QED BY <1>0, <2>6, <3>1, <3>2, <3>3 DEF Typed, TypeOK, Busy, Enter, conf, counts
  <2>7. CASE NoMore(t)
    BY <1>0, <2>7, CountedKept DEF Typed, TypeOK, Busy, NoMore, Asks, Goto, Returns, conf, counts
  <2>8. CASE Take(t)
    <3>1. PICK u \in targets[proc[t]] : HandOut(t, u)
      BY <2>8 DEF Take
    <3>2. u \in Urls /\ proc[t] \in Procs
      BY <1>0 DEF TypeOK
    <3>3. UNCHANGED <<around, proc, nit, counts, lock, sig, action, res, sleeping, cache>>
      BY <2>8 DEF Take
    <3>4. Counted'
      BY <1>0, <3>3, CountedKept DEF counts
    <3>5. targets' \in [Procs -> SUBSET Urls] /\ number' \in [Procs -> Int]
      BY <1>0, <3>1, <3>2 DEF TypeOK, HandOut
    <3>6. /\ work' = [work EXCEPT ![t] = u] /\ work' \in [Threads -> Urls \cup {NoUrl}]
          /\ pc' = [pc EXCEPT ![t] = "work"] /\ pc' \in [Threads -> Places]
      BY <1>0, <3>1, <3>2 DEF TypeOK, HandOut, Goto
    <3>7. Busy'
      BY <1>0, <3>2, <3>6 DEF TypeOK, Busy
    <3>8. TypeOK'
      BY <1>0, <3>3, <3>5, <3>6 DEF TypeOK, counts
    <3> QED
      BY <3>4, <3>7, <3>8 DEF Typed
  <2>9. CASE SelectTargets(t)
    <3>1. /\ targets' \in [Procs -> SUBSET Urls]
          /\ number' \in [Procs -> Int]
          /\ lock' \in [Procs -> Threads \cup {NoThread}]
          /\ res' \in [Threads -> Results]
          /\ pc' \in [Threads -> Places]
          /\ \A s \in Threads : pc'[s] \in {"work", "flush"} <=> pc[s] \in {"work", "flush"}
      <4>1. /\ targets' \in [Procs -> SUBSET Urls]
            /\ number' \in [Procs -> Int]
            /\ lock' \in [Procs -> Threads \cup {NoThread}]
            /\ res' \in [Threads -> Results]
        <5>1. CASE UNCHANGED <<targets, lock>> /\ number' = [number EXCEPT ![proc[t]] = -1] /\ Returns(t, "notarget")
          BY <1>0, <5>1 DEF TypeOK, Returns
        <5>2. CASE /\ \E rows \in SUBSET {u \in Urls : nit[u] = "due"} : targets' = [targets EXCEPT ![proc[t]] = rows]
                   /\ lock' = [lock EXCEPT ![proc[t]] = t]
                   /\ UNCHANGED <<number, res>>
          BY <1>0, <5>2 DEF TypeOK
        <5>3. CASE Returns(t, "error") /\ UNCHANGED <<targets, number, lock>>
          BY <1>0, <5>3 DEF TypeOK, Returns
        <5> QED BY <2>9, <5>1, <5>2, <5>3 DEF SelectTargets
      <4>2. \/ pc' = [pc EXCEPT ![t] = "set"]
            \/ pc' = [pc EXCEPT ![t] = "mark"]
        BY <2>9 DEF SelectTargets, Goto, Returns
      <4>3. pc[t] = "next" BY <2>9 DEF SelectTargets, Asks
      <4>4. pc \in [Threads -> Places] BY <1>0 DEF TypeOK
      <4> QED BY <4>1, <4>2, <4>3, <4>4
    <3> QED BY <1>0, <2>9, <3>1, CountedKept DEF Typed, TypeOK, Busy, SelectTargets, counts
  <2>10. CASE MarkTargets(t)
    <3>1. nit' \in [Urls -> {"none", "due", "held", "later"}]
      BY <1>0, <2>10 DEF TypeOK, MarkTargets, Marked
    <3>2. /\ targets' \in [Procs -> SUBSET Urls]
          /\ number' \in [Procs -> Int]
          /\ lock' \in [Procs -> Threads \cup {NoThread}]
          /\ res' \in [Threads -> Results]
          /\ pc' \in [Threads -> Places]
          /\ work' \in [Threads -> Urls \cup {NoUrl}]
          /\ \A s \in Threads : IF pc'[s] \in {"work", "flush"} THEN work'[s] \in Urls ELSE work'[s] = NoUrl
      <4>1. lock' \in [Procs -> Threads \cup {NoThread}] BY <1>0, <2>10 DEF TypeOK, MarkTargets
      <4>2. CASE \E u \in targets[proc[t]] : HandOut(t, u) /\ res' = res
        <5>1. PICK u \in targets[proc[t]] : HandOut(t, u)
          BY <4>2
        <5>2. u \in Urls /\ proc[t] \in Procs
          BY <1>0 DEF TypeOK
        <5>3. /\ targets' \in [Procs -> SUBSET Urls] /\ number' \in [Procs -> Int]
              /\ res' \in [Threads -> Results]
          BY <1>0, <4>2, <5>1, <5>2 DEF TypeOK, HandOut
        <5>4. /\ work' = [work EXCEPT ![t] = u] /\ work' \in [Threads -> Urls \cup {NoUrl}]
              /\ pc' = [pc EXCEPT ![t] = "work"] /\ pc' \in [Threads -> Places]
          BY <1>0, <5>1, <5>2 DEF TypeOK, HandOut, Goto
        <5>5. \A s \in Threads : IF pc'[s] \in {"work", "flush"} THEN work'[s] \in Urls ELSE work'[s] = NoUrl
          BY <1>0, <5>2, <5>4 DEF TypeOK, Busy
        <5> QED
          BY <4>1, <5>3, <5>4, <5>5
      <4>3. CASE Returns(t, "error") /\ UNCHANGED <<targets, number, work>>
        <5>1. pc[t] = "mark" BY <2>10 DEF MarkTargets
        <5> QED BY <1>0, <4>1, <4>3, <5>1 DEF TypeOK, Busy, Goto, Returns
      <4> QED BY <2>10, <4>2, <4>3 DEF MarkTargets
    <3> QED BY <1>0, <2>10, <3>1, <3>2, CountedKept DEF Typed, TypeOK, Busy, MarkTargets, counts
  <2>11. CASE Parse(t)
    <3>1. nit' \in [Urls -> {"none", "due", "held", "later"}]
      BY <1>0, <2>11 DEF TypeOK, Parse, Marked
    <3>2. /\ res' \in [Threads -> Results]
          /\ pc' \in [Threads -> Places]
          /\ work' \in [Threads -> Urls \cup {NoUrl}]
          /\ \A s \in Threads : IF pc'[s] \in {"work", "flush"} THEN work'[s] \in Urls ELSE work'[s] = NoUrl
      <4>1. CASE Goto(t, "flush") /\ UNCHANGED <<res, work>>
        BY <1>0, <2>11, <4>1 DEF TypeOK, Busy, Goto, Parse
      <4>2. CASE Returns(t, "error") /\ work' = [work EXCEPT ![t] = NoUrl]
        BY <1>0, <4>2 DEF TypeOK, Busy, Goto, Returns
      <4> QED BY <2>11, <4>1, <4>2 DEF Parse
    <3> QED BY <1>0, <2>11, <3>1, <3>2, CountedKept DEF Typed, TypeOK, Busy, Parse, conf, counts
  <2>12. CASE Update(t)
    <3>1. /\ nit' \in [Urls -> {"none", "due", "held", "later"}]
          /\ cache' \in [Threads -> SUBSET Urls]
          /\ res' \in [Threads -> Results]
          /\ pc' \in [Threads -> Places]
          /\ \A s \in Threads : IF s = t THEN pc'[s] \notin {"work", "flush"} ELSE pc'[s] = pc[s]
      <4>1. CASE FlushCache(t, {work[t]})
        <5>1. /\ nit' \in [Urls -> {"none", "due", "held", "later"}]
              /\ cache' = [cache EXCEPT ![t] = {}]
              /\ \/ pc' = [pc EXCEPT ![t] = "finish"] /\ res' = res
                 \/ pc' = [pc EXCEPT ![t] = "set"] /\ res' = [res EXCEPT ![t] = "error"]
          BY <4>1, FlushTyped
        <5>2. /\ pc \in [Threads -> Places] /\ res \in [Threads -> Results]
              /\ cache \in [Threads -> SUBSET Urls]
          BY <1>0 DEF TypeOK
        <5> QED BY <5>1, <5>2
      <4>2. CASE cache' = [cache EXCEPT ![t] = @ \cup {work[t]}] /\ Goto(t, "finish") /\ UNCHANGED <<nit, res>>
        <5>1. work[t] \in Urls BY <1>0, <2>12 DEF Busy, Update
        <5> QED BY <1>0, <4>2, <5>1 DEF TypeOK, Goto
      <4>3. CASE Returns(t, "error") /\ UNCHANGED <<nit, cache>>
        BY <1>0, <4>3 DEF TypeOK, Goto, Returns
      <4> QED BY <2>12, <4>1, <4>2, <4>3 DEF Update
    <3> QED BY <1>0, <2>12, <3>1, CountedKept DEF Typed, TypeOK, Busy, Update, conf, counts
  <2>13. CASE Finish(t)
    BY <1>0, <2>13, CountedKept DEF Typed, TypeOK, Busy, Finish, Goto, Returns, conf, counts
  <2>14. CASE SetAction(t)
    <3>1. res[t] \in Results BY <1>0 DEF TypeOK
    <3>2. /\ pc' \in [Threads -> Places]
          /\ \A s \in Threads : pc'[s] \in {"work", "flush"} <=> pc[s] \in {"work", "flush"}
      BY <1>0, <2>14, <3>1 DEF TypeOK, SetAction, Goto
    <3> QED BY <1>0, <2>14, <3>1, <3>2, CountedKept DEF Typed, TypeOK, Busy, SetAction, conf, counts
  <2>15. CASE Wake(t)
    BY <1>0, <2>15, WakesUp DEF Typed, TypeOK, Busy, Wake, Goto, conf
  <2>16. CASE Drain(t)
    <3>1. /\ nit' \in [Urls -> {"none", "due", "held", "later"}]
          /\ cache' \in [Threads -> SUBSET Urls]
      BY <1>0, <2>16, FlushTyped DEF Drain, Typed, TypeOK
    <3> QED BY <1>0, <2>16, <3>1, CountedKept DEF Typed, TypeOK, Busy, Drain, Goto, conf, counts
  <2>17. CASE StopAll(t)
    BY <1>0, <2>17, CountedKept DEF Typed, TypeOK, Busy, StopAll, Tell, Goto, conf, counts
  <2>18. CASE Sleep(t)
    BY <1>0, <2>18, FallsAsleep DEF Typed, TypeOK, Busy, Sleep, Goto, conf
  <2>19. CASE Test(t)
    BY <1>0, <2>19, CountedKept DEF Typed, TypeOK, Busy, Test, Goto, conf, counts
  <2>20. CASE End(t)
    <3>1. /\ nit' \in [Urls -> {"none", "due", "held", "later"}]
          /\ cache' \in [Threads -> SUBSET Urls]
      BY <1>0, <2>20, FlushTyped DEF End, Typed, TypeOK
    <3> QED BY <1>0, <2>20, <3>1, CountedKept DEF Typed, TypeOK, Busy, End, Goto, conf, counts
  <2>21. CASE Leave(t)
    BY <1>0, <2>21, CountedKept DEF Typed, TypeOK, Busy, Leave, Goto, conf
  <2> QED BY <1>1, <2>1, <2>2, <2>3, <2>4, <2>5, <2>6, <2>7, <2>8, <2>9, <2>10, <2>11, <2>12, <2>13,
             <2>14, <2>15, <2>16, <2>17, <2>18, <2>19, <2>20, <2>21 DEF Step
<1>2. ASSUME NEW p \in Procs, Count(p) PROVE Typed'
  BY <1>0, <1>2, CountedKept DEF Typed, TypeOK, Busy, Count, own, conf
<1>3. ASSUME NEW p \in Procs, Signal(p) PROVE Typed'
  BY <1>0, <1>3, CountedKept DEF Typed, TypeOK, Busy, Signal, own, conf, counts
<1>4. ASSUME NEW p \in Procs, Die(p) PROVE Typed'
  BY <1>0, <1>4, CountedKept DEF Typed, TypeOK, Busy, Die
<1>5. CASE Expire
  <2>1. nit' \in [Urls -> {"none", "due", "held", "later"}] BY <1>0, <1>5 DEF TypeOK, Expire, Marked
  <2> QED BY <1>0, <1>5, <2>1, CountedKept DEF Typed, TypeOK, Busy, Expire, own, conf, counts
<1>6. CASE UNCHANGED vars
  BY <1>0, <1>6, CountedKept DEF Typed, TypeOK, Busy, vars, own, conf, counts
<1> QED BY <1>1, <1>2, <1>3, <1>4, <1>5, <1>6 DEF Next

\* Every variable keeps its type, and sleep_threads counts the threads that sleep.
THEOREM TypesKept == Spec => []Typed
<1> QED BY TypedInit, TypedStep, PTL DEF Spec
\* TypeOK for every value of the constants.
THEOREM Types == Spec => []TypeOK
<1>1. Typed => TypeOK BY DEF Typed
<1> QED BY <1>1, TypesKept, PTL

-----------------------------------------------------------------------------
(* No url in two hands. *)

\* One process, its marks succeed and hold as long as they must.
Alone == (\A s, t \in Threads : proc[s] = proc[t]) /\ Without({"slow", "mark"})

\* Between SELECT and UPDATE the lock is kept by the thread that marks.
Guarded == \A t \in Threads : pc[t] = "mark" <=> lock[proc[t]] = t

\* A url in hand is marked and is no target any more.
Marks == \A t \in Threads : \A u \in InHand(t) : nit[u] = "held" /\ u \notin targets[proc[t]]

\* The targets are marked when nobody keeps the lock, and are due while somebody does.
Stock ==
    \A t \in Threads : \A u \in targets[proc[t]] :
        nit[u] = IF lock[proc[t]] = NoThread THEN "held" ELSE "due"

\* No two threads have the same url in hand.
Disjoint == \A s, t \in Threads : s # t => InHand(s) \cap InHand(t) = {}

Apart == Guarded /\ Marks /\ Stock /\ Disjoint

\* What the proof of Exclusive keeps.
Held == Alone => Apart

LEMMA HeldInit == Init => Held
BY IndexerAssumption DEF Init, Held, Apart, Guarded, Marks, Stock, Disjoint, InHand

LEMMA AloneStays == [Next]_vars /\ Alone' => Alone
BY Fixed DEF Alone, Without

\* A step that touches no url and leaves the place of marking alone keeps everything.
LEMMA Quiet ==
    ASSUME Apart, UNCHANGED <<proc, nit, targets, lock, work, cache>>,
           \A t \in Threads : pc'[t] = "mark" <=> pc[t] = "mark"
    PROVE  Apart'
BY DEF Apart, Guarded, Marks, Stock, Disjoint, InHand

\* A flush changes rows of the own documents only, and leaves none in hand.
LEMMA FlushApart ==
    ASSUME Typed, Alone, Apart, NEW t \in Threads, NEW doc \in SUBSET {work[t]}, FlushCache(t, doc),
           UNCHANGED <<proc, targets, lock>>,
           work' = [work EXCEPT ![t] = NoUrl],
           \A s \in Threads : pc'[s] = "mark" <=> pc[s] = "mark"
    PROVE  Apart'
<1>1. cache' = [cache EXCEPT ![t] = {}] BY FlushTyped
<1>2. InHand(t)' = {} BY <1>1 DEF InHand, Typed, TypeOK
<1>3. \A s \in Threads : s # t => InHand(s)' = InHand(s) BY <1>1 DEF InHand, Typed, TypeOK
<1>4. \A u \in Urls : u \notin InHand(t) => nit'[u] = nit[u]
  <2>1. PICK failed \in SUBSET cache[t] : nit' = Updated(doc \cup (cache[t] \ failed))
    BY DEF FlushCache, Typed, TypeOK
  <2>2. \A u \in doc \cup (cache[t] \ failed) : u \in Urls => u \in InHand(t)
    BY IndexerAssumption DEF InHand
  <2> QED BY <2>1, <2>2 DEF Updated
<1>5. \A s \in Threads : InHand(s) \subseteq Urls BY DEF InHand, Typed, TypeOK
<1>6. \A s \in Threads : targets[proc[s]] \subseteq Urls BY DEF Typed, TypeOK
<1>7. Marks' BY <1>2, <1>3, <1>4, <1>5 DEF Apart, Marks, Disjoint
<1>8. Stock' BY <1>4, <1>6 DEF Apart, Stock, Marks, Alone
<1>9. Disjoint' BY <1>2, <1>3 DEF Apart, Disjoint
<1> QED BY <1>7, <1>8, <1>9 DEF Apart, Guarded

LEMMA HeldStep == Typed /\ Held /\ [Next]_vars => Held'
<1> SUFFICES ASSUME Typed, Held, [Next]_vars, Alone' PROVE Apart'
  BY DEF Held
<1>0. Typed /\ Alone /\ Apart /\ TypeOK BY AloneStays DEF Held, Typed
<1>1. ASSUME NEW t \in Threads, Step(t) PROVE Apart'
  <2>1. CASE Create(t)
    BY <1>0, <2>1, Quiet DEF TypeOK, Create, Goto, conf
  <2>2. CASE Open(t)
    BY <1>0, <2>2, Quiet DEF TypeOK, Open, Goto, conf
  <2>3. CASE Signals(t)
    <3>1. \A s \in Threads : targets'[proc[s]] = targets[proc[s]] \/ targets'[proc[s]] = {}
      BY <1>0, <2>3 DEF TypeOK, Signals
    <3>2. \A s \in Threads : pc'[s] = "mark" <=> pc[s] = "mark"
      BY <1>0, <2>3 DEF TypeOK, Signals, Goto
    <3> QED BY <1>0, <2>3, <3>1, <3>2 DEF Signals, Apart, Guarded, Marks, Stock, Disjoint, InHand
  <2>4. CASE Check(t)
    BY <1>0, <2>4, Quiet DEF TypeOK, Check, Goto, conf
  <2>5. CASE Reload(t)
    BY <1>0, <2>5, Quiet DEF TypeOK, Reload, Goto
  <2>6. CASE Enter(t)
    BY <1>0, <2>6, Quiet DEF TypeOK, Enter, Goto, Returns, conf
  <2>7. CASE NoMore(t)
    BY <1>0, <2>7, Quiet DEF TypeOK, NoMore, Asks, Goto, Returns, conf
  <2>8. CASE Take(t)
    <3>1. PICK u \in targets[proc[t]] : HandOut(t, u) BY <2>8 DEF Take
    <3> DEFINE p == proc[t]
    <3>2. p \in Procs /\ u \in Urls /\ lock[p] = NoThread BY <1>0, <2>8 DEF TypeOK, Take, Asks, LockFree
    <3>3. UNCHANGED <<proc, nit, lock, cache>> BY <2>8 DEF Take
    <3>4. targets' = [targets EXCEPT ![p] = @ \ {u}] /\ work' = [work EXCEPT ![t] = u]
      BY <3>1 DEF HandOut
    <3>5. \A s \in Threads : pc'[s] = "mark" <=> pc[s] = "mark"
      BY <1>0, <2>8, <3>1 DEF TypeOK, Take, Asks, HandOut, Goto
    <3>6. \A s \in Threads : proc[s] = p /\ targets'[proc[s]] = targets[p] \ {u}
      BY <1>0, <3>2, <3>4 DEF TypeOK, Alone
    <3>7. \A s \in Threads : s # t => InHand(s)' = InHand(s) BY <1>0, <3>3, <3>4 DEF TypeOK, InHand
    <3>8. InHand(t)' \subseteq InHand(t) \cup {u} BY <1>0, <3>3, <3>4 DEF TypeOK, InHand
    <3>9. nit[u] = "held" BY <1>0, <3>2 DEF Apart, Stock
    <3>10. \A s \in Threads : u \notin InHand(s) BY <1>0, <3>6 DEF Apart, Marks
    <3>11. Marks' BY <1>0, <3>3, <3>6, <3>7, <3>8, <3>9, <3>10 DEF Apart, Marks
    <3>12. Stock' BY <1>0, <3>3, <3>6 DEF Apart, Stock
    <3>13. Disjoint' BY <1>0, <3>7, <3>8, <3>10 DEF Apart, Disjoint
    <3> QED BY <1>0, <3>3, <3>5, <3>11, <3>12, <3>13 DEF Apart, Guarded
  <2>9. CASE SelectTargets(t)
    <3> DEFINE p == proc[t]
    <3>0. UNCHANGED <<proc, nit, work, cache>> /\ p \in Procs /\ lock[p] = NoThread /\ pc[t] = "next" /\ targets[p] = {}
      BY <1>0, <2>9 DEF TypeOK, SelectTargets, Asks, LockFree
    <3>1. CASE UNCHANGED <<targets, lock>> /\ pc' = [pc EXCEPT ![t] = "set"]
      <4>1. \A s \in Threads : pc'[s] = "mark" <=> pc[s] = "mark" BY <1>0, <3>0, <3>1 DEF TypeOK
      <4> QED BY <1>0, <3>0, <3>1, <4>1, Quiet
    <3>2. CASE /\ \E rows \in SUBSET {u \in Urls : nit[u] = "due"} : targets' = [targets EXCEPT ![p] = rows]
               /\ lock' = [lock EXCEPT ![p] = t]
               /\ pc' = [pc EXCEPT ![t] = "mark"]
      <4>1. PICK rows \in SUBSET {u \in Urls : nit[u] = "due"} : targets' = [targets EXCEPT ![p] = rows]
        BY <3>2
      <4>2. \A s \in Threads : proc[s] = p /\ targets'[proc[s]] = rows /\ lock'[proc[s]] = t
        BY <1>0, <3>0, <3>2, <4>1 DEF TypeOK, Alone
      <4>3. Guarded'
        BY <1>0, <3>0, <3>2, <4>2, IndexerAssumption DEF TypeOK, Apart, Guarded
      <4>4. Marks' BY <1>0, <3>0, <4>2 DEF Apart, Marks, InHand
      <4>5. Stock' BY <3>0, <4>2, IndexerAssumption DEF Stock
      <4>6. Disjoint' BY <1>0, <3>0 DEF Apart, Disjoint, InHand
      <4> QED BY <4>3, <4>4, <4>5, <4>6 DEF Apart
    <3> QED BY <2>9, <3>1, <3>2 DEF SelectTargets, Goto, Returns
  <2>10. CASE MarkTargets(t)
    <3> DEFINE p == proc[t]
    <3>1. /\ nit' = Marked(targets[p], "held")
          /\ \E u \in targets[p] : HandOut(t, u)
      BY <1>0, <2>10 DEF MarkTargets, Alone, Without, May
    <3>2. PICK u \in targets[p] : HandOut(t, u) BY <3>1
    <3>3. /\ UNCHANGED <<proc, cache>>
          /\ lock' = [lock EXCEPT ![p] = NoThread]
          /\ targets' = [targets EXCEPT ![p] = @ \ {u}]
          /\ work' = [work EXCEPT ![t] = u]
          /\ pc' = [pc EXCEPT ![t] = "work"]
      BY <2>10, <3>2 DEF MarkTargets, HandOut, Goto
    <3>4. p \in Procs /\ u \in Urls /\ lock[p] = t /\ pc[t] = "mark"
      BY <1>0, <2>10 DEF TypeOK, MarkTargets, Apart, Guarded
    <3>5. \A s \in Threads : proc[s] = p /\ targets'[proc[s]] = targets[p] \ {u} /\ lock'[proc[s]] = NoThread
      BY <1>0, <3>3, <3>4 DEF TypeOK, Alone
    <3>6. \A v \in Urls : nit'[v] = IF v \in targets[p] THEN "held" ELSE nit[v] BY <3>1 DEF Marked
    <3>7. \A s \in Threads : s # t => InHand(s)' = InHand(s) BY <1>0, <3>3 DEF TypeOK, InHand
    <3>8. InHand(t)' \subseteq InHand(t) \cup {u} BY <1>0, <3>3 DEF TypeOK, InHand
    <3>9. \A s \in Threads : u \notin InHand(s) BY <1>0, <3>5 DEF Apart, Marks
    <3>10. \A s \in Threads : InHand(s) \subseteq Urls BY <1>0 DEF InHand, TypeOK
    <3>11. Guarded'
      <4>1. \A s \in Threads : s # t => pc[s] # "mark" BY <1>0, <3>4, <3>5 DEF Apart, Guarded
      <4>2. \A s \in Threads : pc'[s] # "mark" BY <1>0, <3>3, <4>1 DEF TypeOK
      <4> QED BY <3>3, <3>5, <4>2, IndexerAssumption DEF Guarded
    <3>12. Marks'
      <4>1. \A s \in Threads : \A v \in InHand(s) : nit'[v] = "held" /\ v \notin targets'[proc[s]]
        BY <1>0, <3>5, <3>6, <3>10 DEF Apart, Marks
      <4>2. nit'[u] = "held" /\ \A s \in Threads : u \notin targets'[proc[s]] BY <3>4, <3>5, <3>6
      <4> QED BY <3>3, <3>7, <3>8, <4>1, <4>2 DEF Marks
    <3>13. Stock'
      <4>1. targets[p] \subseteq Urls BY <1>0, <3>4 DEF TypeOK
      <4> QED BY <3>3, <3>5, <3>6, <4>1 DEF Stock
    <3>14. Disjoint' BY <1>0, <3>7, <3>8, <3>9 DEF Apart, Disjoint
    <3> QED BY <3>11, <3>12, <3>13, <3>14 DEF Apart
  <2>11. CASE Parse(t)
    <3>1. UNCHANGED <<proc, targets, lock, cache>> /\ pc[t] = "work" BY <2>11 DEF Parse, conf
    <3>2. \A u \in Urls : nit'[u] = nit[u] \/ nit[u] = "none" BY <2>11 DEF Parse, Marked
    <3>3. \A s \in Threads : InHand(s)' \subseteq InHand(s) BY <1>0, <2>11, <3>1 DEF TypeOK, Parse, InHand
    <3>4. \A s \in Threads : pc'[s] = "mark" <=> pc[s] = "mark"
      BY <1>0, <2>11 DEF TypeOK, Parse, Goto, Returns
    <3>5. \A s \in Threads : InHand(s) \subseteq Urls /\ targets[proc[s]] \subseteq Urls
      BY <1>0 DEF TypeOK, InHand
    <3>6. Marks' BY <1>0, <3>1, <3>2, <3>3, <3>5 DEF Apart, Marks
    <3>7. Stock'
      <4>1. \A s \in Threads : \A u \in targets[proc[s]] : nit[u] # "none" BY <1>0 DEF Apart, Stock
      <4> QED BY <1>0, <3>1, <3>2, <3>5, <4>1 DEF Apart, Stock
    <3>8. Disjoint' BY <1>0, <3>3 DEF Apart, Disjoint
    <3> QED BY <1>0, <3>1, <3>4, <3>6, <3>7, <3>8 DEF Apart, Guarded
  <2>12. CASE Update(t)
    <3>0. /\ UNCHANGED <<proc, targets, lock>> /\ pc[t] = "flush"
          /\ work' = [work EXCEPT ![t] = NoUrl]
          /\ work[t] \in Urls
      BY <1>0, <2>12 DEF Update, conf, Typed, Busy
    <3>1. CASE FlushCache(t, {work[t]})
      <4>1. pc' = [pc EXCEPT ![t] = "finish"] \/ pc' = [pc EXCEPT ![t] = "set"]
        BY <1>0, <3>1, FlushTyped
      <4>2. \A s \in Threads : pc'[s] = "mark" <=> pc[s] = "mark" BY <1>0, <3>0, <4>1 DEF TypeOK
      <4> QED BY <1>0, <3>0, <3>1, <4>2, FlushApart
    <3>2. CASE cache' = [cache EXCEPT ![t] = @ \cup {work[t]}] /\ Goto(t, "finish") /\ UNCHANGED <<nit, res>>
      <4>1. \A s \in Threads : InHand(s)' = InHand(s) BY <1>0, <3>0, <3>2 DEF TypeOK, InHand
      <4>2. \A s \in Threads : pc'[s] = "mark" <=> pc[s] = "mark" BY <1>0, <3>0, <3>2 DEF TypeOK, Goto
      <4> QED BY <1>0, <3>0, <3>2, <4>1, <4>2 DEF Apart, Guarded, Marks, Stock, Disjoint
    <3>3. CASE Returns(t, "error") /\ UNCHANGED <<nit, cache>>
      <4>1. \A s \in Threads : InHand(s)' \subseteq InHand(s) BY <1>0, <3>0, <3>3 DEF TypeOK, InHand
      <4>2. \A s \in Threads : pc'[s] = "mark" <=> pc[s] = "mark" BY <1>0, <3>0, <3>3 DEF TypeOK, Goto, Returns
      <4> QED BY <1>0, <3>0, <3>3, <4>1, <4>2 DEF Apart, Guarded, Marks, Stock, Disjoint
    <3> QED BY <2>12, <3>1, <3>2, <3>3 DEF Update
  <2>13. CASE Finish(t)
    BY <1>0, <2>13, Quiet DEF TypeOK, Finish, Goto, Returns, conf
  <2>14. CASE SetAction(t)
    <3>1. pc[t] = "set" /\ \E l \in {"wake", "drain", "stop", "sleep"} : pc' = [pc EXCEPT ![t] = l]
      BY <1>0, <2>14 DEF TypeOK, Results, SetAction, Goto
    <3>2. \A s \in Threads : pc'[s] = "mark" <=> pc[s] = "mark" BY <1>0, <3>1 DEF TypeOK
    <3> QED BY <1>0, <2>14, <3>2, Quiet DEF SetAction, conf
  <2>15. CASE Wake(t)
    BY <1>0, <2>15, Quiet DEF TypeOK, Wake, Goto, conf
  <2>16. CASE Drain(t)
    <3>1. FlushCache(t, {}) /\ UNCHANGED <<proc, targets, lock, work>> BY <2>16 DEF Drain, conf
    <3>2. \A s \in Threads : pc'[s] = "mark" <=> pc[s] = "mark" BY <1>0, <2>16 DEF TypeOK, Drain, Goto
    <3>3. work' = [work EXCEPT ![t] = NoUrl] BY <1>0, <2>16, <3>1 DEF Drain, Typed, TypeOK, Busy
    <3> QED BY <1>0, <3>1, <3>2, <3>3, FlushApart
  <2>17. CASE StopAll(t)
    BY <1>0, <2>17, Quiet DEF TypeOK, StopAll, Goto, conf
  <2>18. CASE Sleep(t)
    BY <1>0, <2>18, Quiet DEF TypeOK, Sleep, Goto, conf
  <2>19. CASE Test(t)
    BY <1>0, <2>19, Quiet DEF TypeOK, Test, Goto, conf
  <2>20. CASE End(t)
    <3>0. UNCHANGED <<proc, targets, lock, work>> BY <2>20 DEF End, conf
    <3>1. \A s \in Threads : pc'[s] = "mark" <=> pc[s] = "mark" BY <1>0, <2>20 DEF TypeOK, End, Goto
    <3>2. CASE FlushCache(t, {})
      <4>1. work' = [work EXCEPT ![t] = NoUrl] BY <1>0, <2>20, <3>0 DEF End, Typed, TypeOK, Busy
      <4> QED BY <1>0, <3>0, <3>1, <3>2, <4>1, FlushApart
    <3>3. CASE cache' = [cache EXCEPT ![t] = {}] /\ UNCHANGED nit
      <4>1. \A s \in Threads : InHand(s)' \subseteq InHand(s) BY <1>0, <3>0, <3>3 DEF TypeOK, InHand
      <4> QED BY <1>0, <3>0, <3>1, <3>3, <4>1 DEF Apart, Guarded, Marks, Stock, Disjoint
    <3> QED BY <2>20, <3>2, <3>3 DEF End
  <2>21. CASE Leave(t)
    BY <1>0, <2>21, Quiet DEF TypeOK, Leave, Goto, conf
  <2> QED BY <1>1, <2>1, <2>2, <2>3, <2>4, <2>5, <2>6, <2>7, <2>8, <2>9, <2>10, <2>11, <2>12, <2>13,
             <2>14, <2>15, <2>16, <2>17, <2>18, <2>19, <2>20, <2>21 DEF Step
<1>2. ASSUME NEW p \in Procs, Count(p) PROVE Apart'
  BY <1>0, <1>2, Quiet DEF Count, own, conf
<1>3. ASSUME NEW p \in Procs, Signal(p) PROVE Apart'
  BY <1>0, <1>3, Quiet DEF Signal, own, conf
<1>4. ASSUME NEW p \in Procs, Die(p) PROVE Apart'
  <2>1. UNCHANGED <<proc, nit>> BY <1>4 DEF Die
  <2>2. \A t \in Threads : /\ pc'[t] = IF proc[t] = p THEN "ended" ELSE pc[t]
                           /\ work'[t] = IF proc[t] = p THEN NoUrl ELSE work[t]
                           /\ cache'[t] = IF proc[t] = p THEN {} ELSE cache[t]
                           /\ targets'[proc[t]] = IF proc[t] = p THEN {} ELSE targets[proc[t]]
                           /\ lock'[proc[t]] = IF proc[t] = p THEN NoThread ELSE lock[proc[t]]
    BY <1>0, <1>4 DEF Die, TypeOK
  <2>3. \A t \in Threads : InHand(t)' \subseteq InHand(t) BY <2>2 DEF InHand
  <2>4. Guarded' BY <1>0, <2>1, <2>2, IndexerAssumption DEF Apart, Guarded
  <2>5. Marks' BY <1>0, <2>1, <2>2, <2>3 DEF Apart, Marks
  <2>6. Stock' BY <1>0, <2>1, <2>2 DEF Apart, Stock
  <2>7. Disjoint' BY <1>0, <2>3 DEF Apart, Disjoint
  <2> QED BY <2>4, <2>5, <2>6, <2>7 DEF Apart
<1>5. CASE Expire
  BY <1>0, <1>5 DEF Expire, May, Alone, Without
<1>6. CASE UNCHANGED vars
  BY <1>0, <1>6, Quiet DEF vars, own, conf
<1> QED BY <1>1, <1>2, <1>3, <1>4, <1>5, <1>6 DEF Next

\* Exclusive: two threads of the only process never have the same url in hand,
\* for every number of threads, urls and targets, with SIGHUP, SIGTERM and errors.
THEOREM NoneTwice == Spec => []Exclusive
<1>1. Init => Typed /\ Held BY TypedInit, HeldInit
<1>2. Typed /\ Held /\ [Next]_vars => Typed' /\ Held' BY TypedStep, HeldStep
<1>3. Typed /\ Held => Exclusive BY DEF Held, Exclusive, Alone, Apart, Disjoint
<1> QED BY <1>1, <1>2, <1>3, PTL DEF Spec

-----------------------------------------------------------------------------
(* Where a thread goes. *)

Goes(t, from, to) == pc[t] = from /\ pc'[t] = to

\* It goes on with what it had.
Walks(t) ==
    /\ \/ Goes(t, "new", "open")
       \/ Goes(t, "open", "top")
       \/ Goes(t, "open", "end") /\ May("open")
       \/ Goes(t, "check", "enter") /\ res[t] \in {"ok", "notarget"}
       \/ Goes(t, "check", "set") /\ res[t] \notin {"ok", "notarget"}
       \/ Goes(t, "enter", "next")
       \/ Goes(t, "next", "mark") /\ number[proc[t]] > 0
       \/ Goes(t, "work", "flush")
       \/ Goes(t, "flush", "finish")
       \/ Goes(t, "drain", "sleep")
       \/ Goes(t, "test", "top")
       \/ Goes(t, "test", "last") /\ asleep[proc[t]] >= total[proc[t]]
       \/ Goes(t, "end", "leave")
       \/ Goes(t, "leave", "ended")
    /\ res'[t] = res[t] /\ action'[t] = action[t] /\ sleeping'[t] = sleeping[t]
    /\ number'[proc[t]] = number[proc[t]]

\* It looks at the signals.
Looks(t) ==
    /\ Goes(t, "top", "check") \/ Goes(t, "last", "end")
    /\ action'[t] = action[t] \/ (action'[t] = "terminated" /\ sig[proc[t]]["term"] = "pending")
    /\ res'[t] = res[t] /\ sleeping'[t] = sleeping[t] /\ number'[proc[t]] = number[proc[t]]

\* DpsIndexNextURL returns.
Comes(t) ==
    /\ pc'[t] = "set"
    /\ \/ pc[t] = "enter" /\ res'[t] = action[t] /\ action[t] \notin {"ok", "notarget"}
       \/ pc[t] = "next" /\ res'[t] = "notarget" /\ number'[proc[t]] <= 0
       \/ pc[t] = "next" /\ res'[t] = action[t] /\ action[t] # "ok" /\ number[proc[t]] > 0
       \/ pc[t] \in {"next", "work", "flush"} /\ res'[t] = "error" /\ May("sql")
       \/ pc[t] = "mark" /\ res'[t] = "error" /\ May("mark")
       \/ pc[t] = "finish" /\ res'[t] = action[t]
    /\ number'[proc[t]] <= number[proc[t]]
    /\ pc[t] # "next" => number'[proc[t]] = number[proc[t]]
    /\ action'[t] = action[t] /\ sleeping'[t] = sleeping[t]

\* It gets a url to work on.
Gets(t) ==
    /\ pc[t] = "mark" \/ (pc[t] = "next" /\ number[proc[t]] > 0)
    /\ pc'[t] = "work"
    /\ number'[proc[t]] = number[proc[t]] - 1
    /\ res'[t] = res[t] /\ action'[t] = action[t] /\ sleeping'[t] = sleeping[t]

\* It acts on what DpsIndexNextURL has returned.
Acts(t) ==
    /\ pc[t] = "set"
    /\ pc'[t] = CASE res[t] = "ok" -> "wake"
                  [] res[t] = "notarget" -> "drain"
                  [] res[t] = "error" -> "stop"
                  [] res[t] = "terminated" -> "sleep"
    /\ action'[t] = res[t]
    /\ res'[t] = res[t] /\ sleeping'[t] = sleeping[t] /\ number'[proc[t]] = number[proc[t]]

\* It wakes, stops all threads or falls asleep.
Turns(t) ==
    /\ \/ Goes(t, "wake", "top") /\ sleeping'[t] = FALSE /\ action'[t] = action[t]
       \/ Goes(t, "stop", "sleep") /\ sleeping'[t] = sleeping[t] /\ action'[t] = "terminated"
       \/ Goes(t, "sleep", "test") /\ sleeping'[t] = TRUE /\ action'[t] = action[t]
    /\ res'[t] = res[t] /\ number'[proc[t]] = number[proc[t]]

Moves(t) == Walks(t) \/ Looks(t) \/ Comes(t) \/ Gets(t) \/ Acts(t) \/ Turns(t)

\* Nothing of another thread changes, but it may be told to end.
Telling(t) == pc[t] = "stop" \/ sig[proc[t]]["term"] = "pending"

OthersKeep(t) ==
    \A s \in Threads \ {t} :
        /\ pc'[s] = pc[s] /\ res'[s] = res[s] /\ sleeping'[s] = sleeping[s]
        /\ action'[s] = action[s] \/ (action'[s] = "terminated" /\ Telling(t))

\* Nobody gets more documents, no signal comes, and only its end and its start are counted.
CountsKeep(t) ==
    /\ \A q \in Procs : number'[q] <= number[q] /\ (q # proc[t] => number'[q] = number[q])
    /\ \A q \in Procs : \A x \in {"hup", "term"} : sig[q][x] = "no" => sig'[q][x] = "no"
    /\ total' = IF pc[t] = "leave" THEN [total EXCEPT ![proc[t]] = @ - 1] ELSE total
    /\ pc[t] # "new" => born' = born
    /\ proc' = proc

Does(t) == Moves(t) /\ OthersKeep(t) /\ CountsKeep(t)

\* Without SIGHUP nobody reloads, and who was told of no targets can know that url_number is spent.
NoHup == Without({"hup"})

Unreloaded(t) ==
    /\ pc[t] # "reload" /\ action[t] # "reload" /\ res[t] # "reload"
    /\ "notarget" \in {action[t], res[t]} => number[proc[t]] <= 0

Quiescent == (\A p \in Procs : sig[p]["hup"] = "no") /\ \A t \in Threads : Unreloaded(t)

PInv == NoHup => Quiescent

\* What FlushCache does to where a thread goes.
LEMMA FlushGoes ==
    ASSUME Typed, NEW t \in Threads, NEW doc, doc # {}, FlushCache(t, doc)
    PROVE  \/ pc' = [pc EXCEPT ![t] = "finish"] /\ res' = res
           \/ pc' = [pc EXCEPT ![t] = "set"] /\ res' = [res EXCEPT ![t] = "error"] /\ May("sql")
<1>1. PICK failed \in (IF May("sql") THEN SUBSET cache[t] ELSE {{}}) :
         IF failed = {} THEN Goto(t, "finish") /\ UNCHANGED res ELSE Returns(t, "error")
  BY DEF FlushCache
<1>2. failed # {} => May("sql")
  BY <1>1
<1> QED
  BY <1>1, <1>2 DEF Goto, Returns

LEMMA StepDoes ==
    ASSUME Typed, NoHup, Quiescent, NEW t \in Threads, Step(t)
    PROVE  Does(t)
<1>0. /\ TypeOK /\ proc[t] \in Procs /\ sig[proc[t]]["hup"] = "no"
      /\ pc[t] # "reload" /\ action[t] # "reload" /\ res[t] # "reload"
  BY DEF Typed, TypeOK, Quiescent, Unreloaded
<1>1. CASE Create(t)
  <2>1. Walks(t)
    BY <1>0, <1>1 DEF TypeOK, Create, Walks, Goes, Goto, conf
  <2>2. OthersKeep(t)
    BY <1>0, <1>1 DEF TypeOK, Create, OthersKeep, Goto
  <2>3. CountsKeep(t)
    BY <1>0, <1>1 DEF TypeOK, Create, CountsKeep, conf
  <2> QED
    BY <2>1, <2>2, <2>3 DEF Does, Moves
<1>2. CASE Open(t)
  <2>1. Walks(t)
    BY <1>0, <1>2 DEF TypeOK, Open, Walks, Goes, Goto, conf
  <2>2. OthersKeep(t)
    BY <1>0, <1>2 DEF TypeOK, Open, OthersKeep, Goto
  <2>3. CountsKeep(t)
    BY <1>0, <1>2 DEF TypeOK, Open, CountsKeep, conf, counts
  <2> QED
    BY <2>1, <2>2, <2>3 DEF Does, Moves
<1>3. CASE Signals(t)
  <2>a. /\ targets' = targets /\ number' = number
        /\ \/ action' = action
           \/ action' = Tell(proc[t], "terminated") /\ sig[proc[t]]["term"] = "pending"
    BY <1>0, <1>3 DEF Signals
  <2>b. pc[t] \in {"top", "last"} /\ pc' = [pc EXCEPT ![t] = IF pc[t] = "last" THEN "end" ELSE "check"]
    BY <1>3 DEF Signals, Goto
  <2>c. UNCHANGED <<proc, total, born, res, sleeping>>
    BY <1>3 DEF Signals, counts
  <2>d. \A s \in Threads : action'[s] = action[s]
                           \/ (action'[s] = "terminated" /\ sig[proc[t]]["term"] = "pending")
    BY <1>0, <2>a DEF TypeOK, Tell
  <2>1. Looks(t)
    BY <1>0, <2>a, <2>b, <2>c, <2>d DEF TypeOK, Looks, Goes
  <2>2. OthersKeep(t)
    BY <1>0, <2>b, <2>c, <2>d DEF TypeOK, OthersKeep, Telling
  <2>3. \A q \in Procs : \A x \in {"hup", "term"} : sig[q][x] = "no" => sig'[q][x] = "no"
    BY <1>0, <1>3 DEF TypeOK, Signals
  <2>4. CountsKeep(t)
    BY <1>0, <2>a, <2>b, <2>c, <2>3 DEF TypeOK, CountsKeep
  <2> QED
    BY <2>1, <2>2, <2>4 DEF Does, Moves
<1>4. CASE Check(t)
  <2>1. Walks(t)
    BY <1>0, <1>4 DEF TypeOK, Check, Walks, Goes, Goto, conf
  <2>2. OthersKeep(t)
    BY <1>0, <1>4 DEF TypeOK, Check, OthersKeep, Goto
  <2>3. CountsKeep(t)
    BY <1>0, <1>4 DEF TypeOK, Check, CountsKeep, conf, counts
  <2> QED
    BY <2>1, <2>2, <2>3 DEF Does, Moves
<1>5. CASE Reload(t)
  BY <1>0, <1>5 DEF Reload
<1>6. CASE Enter(t)
  <2>1. action[t] \in {"ok", "notarget"} => Walks(t)
    BY <1>0, <1>6 DEF TypeOK, Enter, Goto, conf, Walks, Goes
  <2>2. action[t] \notin {"ok", "notarget"} => Comes(t)
    BY <1>0, <1>6 DEF TypeOK, Enter, Goto, Returns, conf, Comes
  <2>3. OthersKeep(t)
    BY <1>0, <1>6 DEF TypeOK, Enter, OthersKeep, Goto, Returns
  <2>4. CountsKeep(t)
    BY <1>0, <1>6 DEF TypeOK, Enter, CountsKeep, conf, counts
  <2> QED
    BY <2>1, <2>2, <2>3, <2>4 DEF Does, Moves
<1>7. CASE NoMore(t)
  <2>1. Comes(t)
    BY <1>0, <1>7 DEF TypeOK, NoMore, Comes, Asks, Goto, Returns, conf
  <2>2. OthersKeep(t)
    BY <1>0, <1>7 DEF TypeOK, NoMore, OthersKeep, Asks, Goto, Returns
  <2>3. CountsKeep(t)
    BY <1>0, <1>7 DEF TypeOK, NoMore, CountsKeep, Asks, conf, counts
  <2> QED
    BY <2>1, <2>2, <2>3 DEF Does, Moves
<1>8. CASE Take(t)
  <2>1. Gets(t)
    BY <1>0, <1>8 DEF TypeOK, Take, Gets, Asks, HandOut, Goto
  <2>2. OthersKeep(t)
    BY <1>0, <1>8 DEF TypeOK, Take, OthersKeep, Asks, HandOut, Goto
  <2>3. CountsKeep(t)
    BY <1>0, <1>8 DEF TypeOK, Take, CountsKeep, Asks, HandOut, counts
  <2> QED
    BY <2>1, <2>2, <2>3 DEF Does, Moves
<1>9. CASE SelectTargets(t)
  <2>a. pc[t] = "next" /\ number[proc[t]] > 0 /\ UNCHANGED <<proc, total, born, sig, action, sleeping>>
    BY <1>9 DEF SelectTargets, Asks, counts
  <2>b. CASE number' = [number EXCEPT ![proc[t]] = -1] /\ Returns(t, "notarget")
    <3>1. Comes(t)
      BY <1>0, <2>a, <2>b DEF TypeOK, Comes, Goto, Returns
    <3>2. OthersKeep(t)
      BY <1>0, <2>a, <2>b DEF TypeOK, OthersKeep, Goto, Returns
    <3>3. CountsKeep(t)
      BY <1>0, <2>a, <2>b DEF TypeOK, CountsKeep
    <3> QED
      BY <3>1, <3>2, <3>3 DEF Does, Moves
  <2>c. CASE Goto(t, "mark") /\ UNCHANGED <<number, res>>
    <3>1. Walks(t)
      BY <1>0, <2>a, <2>c DEF TypeOK, Walks, Goes, Goto
    <3>2. OthersKeep(t)
      BY <1>0, <2>a, <2>c DEF TypeOK, OthersKeep, Goto
    <3>3. CountsKeep(t)
      BY <1>0, <2>a, <2>c DEF TypeOK, CountsKeep
    <3> QED
      BY <3>1, <3>2, <3>3 DEF Does, Moves
  <2>d. CASE May("sql") /\ Returns(t, "error") /\ UNCHANGED number
    <3>1. Comes(t)
      BY <1>0, <2>a, <2>d DEF TypeOK, Comes, Goto, Returns
    <3>2. OthersKeep(t)
      BY <1>0, <2>a, <2>d DEF TypeOK, OthersKeep, Goto, Returns
    <3>3. CountsKeep(t)
      BY <1>0, <2>a, <2>d DEF TypeOK, CountsKeep
    <3> QED
      BY <3>1, <3>2, <3>3 DEF Does, Moves
  <2> QED
    BY <1>9, <2>b, <2>c, <2>d DEF SelectTargets
<1>10. CASE MarkTargets(t)
  <2>a. pc[t] = "mark" /\ UNCHANGED <<proc, total, born, sig, action, sleeping>>
    BY <1>10 DEF MarkTargets, counts
  <2>b. CASE \E u : HandOut(t, u) /\ res' = res
    <3>1. Gets(t)
      BY <1>0, <2>a, <2>b DEF TypeOK, Gets, HandOut, Goto
    <3>2. OthersKeep(t)
      BY <1>0, <2>a, <2>b DEF TypeOK, OthersKeep, HandOut, Goto
    <3>3. CountsKeep(t)
      BY <1>0, <2>a, <2>b DEF TypeOK, CountsKeep, HandOut
    <3> QED
      BY <3>1, <3>2, <3>3 DEF Does, Moves
  <2>c. CASE May("mark") /\ Returns(t, "error") /\ UNCHANGED number
    <3>1. Comes(t)
      BY <1>0, <2>a, <2>c DEF TypeOK, Comes, Goto, Returns
    <3>2. OthersKeep(t)
      BY <1>0, <2>a, <2>c DEF TypeOK, OthersKeep, Goto, Returns
    <3>3. CountsKeep(t)
      BY <1>0, <2>a, <2>c DEF TypeOK, CountsKeep
    <3> QED
      BY <3>1, <3>2, <3>3 DEF Does, Moves
  <2> QED
    BY <1>10, <2>b, <2>c DEF MarkTargets
<1>11. CASE Parse(t)
  <2>a. pc[t] = "work" /\ UNCHANGED <<proc, number, total, born, sig, action, sleeping>>
    BY <1>11 DEF Parse, conf, counts
  <2>b. \/ pc' = [pc EXCEPT ![t] = "flush"] /\ res' = res
        \/ pc' = [pc EXCEPT ![t] = "set"] /\ res' = [res EXCEPT ![t] = "error"] /\ May("sql")
    BY <1>11 DEF Parse, Goto, Returns
  <2>1. Walks(t) \/ Comes(t)
    BY <1>0, <2>a, <2>b DEF TypeOK, Walks, Goes, Comes
  <2>2. OthersKeep(t)
    BY <1>0, <2>a, <2>b DEF TypeOK, OthersKeep
  <2>3. CountsKeep(t)
    BY <1>0, <2>a DEF TypeOK, CountsKeep
  <2> QED
    BY <2>1, <2>2, <2>3 DEF Does, Moves
<1>12. CASE Update(t)
  <2>a. pc[t] = "flush" /\ UNCHANGED <<proc, number, total, born, sig, action, sleeping>>
    BY <1>12 DEF Update, conf, counts
  <2>b. \/ pc' = [pc EXCEPT ![t] = "finish"] /\ res' = res
        \/ pc' = [pc EXCEPT ![t] = "set"] /\ res' = [res EXCEPT ![t] = "error"] /\ May("sql")
    <3>1. CASE FlushCache(t, {work[t]})
      BY <3>1, FlushGoes
    <3>2. CASE Goto(t, "finish") /\ UNCHANGED res
      BY <3>2 DEF Goto
    <3>3. CASE May("sql") /\ Returns(t, "error")
      BY <3>3 DEF Goto, Returns
    <3> QED
      BY <1>12, <3>1, <3>2, <3>3 DEF Update
  <2>1. Walks(t) \/ Comes(t)
    BY <1>0, <2>a, <2>b DEF TypeOK, Walks, Goes, Comes
  <2>2. OthersKeep(t)
    BY <1>0, <2>a, <2>b DEF TypeOK, OthersKeep
  <2>3. CountsKeep(t)
    BY <1>0, <2>a DEF TypeOK, CountsKeep
  <2> QED
    BY <2>1, <2>2, <2>3 DEF Does, Moves
<1>13. CASE Finish(t)
  <2>1. Comes(t)
    BY <1>0, <1>13 DEF TypeOK, Finish, Comes, Goto, Returns, conf
  <2>2. OthersKeep(t)
    BY <1>0, <1>13 DEF TypeOK, Finish, OthersKeep, Goto, Returns
  <2>3. CountsKeep(t)
    BY <1>0, <1>13 DEF TypeOK, Finish, CountsKeep, conf, counts
  <2> QED
    BY <2>1, <2>2, <2>3 DEF Does, Moves
<1>14. CASE SetAction(t)
  <2>1. Acts(t)
    BY <1>0, <1>14 DEF TypeOK, SetAction, Acts, Results, conf, Goto
  <2>2. OthersKeep(t)
    BY <1>0, <1>14 DEF TypeOK, SetAction, OthersKeep, Goto
  <2>3. CountsKeep(t)
    BY <1>0, <1>14 DEF TypeOK, SetAction, CountsKeep, conf, counts
  <2> QED
    BY <2>1, <2>2, <2>3 DEF Does, Moves
<1>15. CASE Wake(t)
  <2>1. Turns(t)
    BY <1>0, <1>15 DEF TypeOK, Wake, Turns, Goes, Goto, conf
  <2>2. OthersKeep(t)
    BY <1>0, <1>15 DEF TypeOK, Wake, OthersKeep, Goto
  <2>3. CountsKeep(t)
    BY <1>0, <1>15 DEF TypeOK, Wake, CountsKeep, conf
  <2> QED
    BY <2>1, <2>2, <2>3 DEF Does, Moves
<1>16. CASE Drain(t)
  <2>1. Walks(t)
    BY <1>0, <1>16 DEF TypeOK, Drain, Walks, Goes, Goto, conf
  <2>2. OthersKeep(t)
    BY <1>0, <1>16 DEF TypeOK, Drain, OthersKeep, Goto
  <2>3. CountsKeep(t)
    BY <1>0, <1>16 DEF TypeOK, Drain, CountsKeep, conf, counts
  <2> QED
    BY <2>1, <2>2, <2>3 DEF Does, Moves
<1>17. CASE StopAll(t)
  <2>a. /\ pc[t] = "stop" /\ pc' = [pc EXCEPT ![t] = "sleep"] /\ action' = Tell(proc[t], "terminated")
        /\ UNCHANGED <<proc, number, total, born, sig, res, sleeping>>
    BY <1>17 DEF StopAll, Goto, conf, counts
  <2>1. Turns(t)
    BY <1>0, <2>a DEF TypeOK, Turns, Goes, Tell
  <2>2. OthersKeep(t)
    BY <1>0, <2>a DEF TypeOK, OthersKeep, Telling, Tell
  <2>3. CountsKeep(t)
    BY <1>0, <2>a DEF TypeOK, CountsKeep
  <2> QED
    BY <2>1, <2>2, <2>3 DEF Does, Moves
<1>18. CASE Sleep(t)
  <2>1. Turns(t)
    BY <1>0, <1>18 DEF TypeOK, Sleep, Turns, Goes, Goto, conf
  <2>2. OthersKeep(t)
    BY <1>0, <1>18 DEF TypeOK, Sleep, OthersKeep, Goto
  <2>3. CountsKeep(t)
    BY <1>0, <1>18 DEF TypeOK, Sleep, CountsKeep, conf
  <2> QED
    BY <2>1, <2>2, <2>3 DEF Does, Moves
<1>19. CASE Test(t)
  <2>1. Walks(t)
    BY <1>0, <1>19 DEF TypeOK, Test, Walks, Goes, Goto, conf
  <2>2. OthersKeep(t)
    BY <1>0, <1>19 DEF TypeOK, Test, OthersKeep, Goto
  <2>3. CountsKeep(t)
    BY <1>0, <1>19 DEF TypeOK, Test, CountsKeep, conf, counts
  <2> QED
    BY <2>1, <2>2, <2>3 DEF Does, Moves
<1>20. CASE End(t)
  <2>1. Walks(t)
    BY <1>0, <1>20 DEF TypeOK, End, Walks, Goes, Goto, conf
  <2>2. OthersKeep(t)
    BY <1>0, <1>20 DEF TypeOK, End, OthersKeep, Goto
  <2>3. CountsKeep(t)
    BY <1>0, <1>20 DEF TypeOK, End, CountsKeep, conf, counts
  <2> QED
    BY <2>1, <2>2, <2>3 DEF Does, Moves
<1>21. CASE Leave(t)
  <2>1. Walks(t)
    BY <1>0, <1>21 DEF TypeOK, Leave, Walks, Goes, Goto, conf
  <2>2. OthersKeep(t)
    BY <1>0, <1>21 DEF TypeOK, Leave, OthersKeep, Goto
  <2>3. CountsKeep(t)
    BY <1>0, <1>21 DEF TypeOK, Leave, CountsKeep, conf
  <2> QED
    BY <2>1, <2>2, <2>3 DEF Does, Moves
<1> QED
  BY <1>1, <1>2, <1>3, <1>4, <1>5, <1>6, <1>7, <1>8, <1>9, <1>10, <1>11, <1>12, <1>13, <1>14,
     <1>15, <1>16, <1>17, <1>18, <1>19, <1>20, <1>21 DEF Step

\* Where no thread steps, none changes what it was told, and the counts stay; one may die.
Dies(p) ==
    /\ pc' = [t \in Threads |-> IF proc[t] = p THEN "ended" ELSE pc[t]]
    /\ UNCHANGED <<proc, number, total, sig, action, res, sleeping>>

ElseDoes ==
    /\ \A t \in Threads : pc'[t] = pc[t]
    /\ UNCHANGED <<proc, number, action, res, sleeping>>
    /\ (\A q \in Procs : born[q] = NoThread) => born' = born /\ total' = total
    /\ \A q \in Procs : \A x \in {"hup", "term"} : x \notin around /\ sig[q][x] = "no" => sig'[q][x] = "no"

LEMMA NextDoes ==
    ASSUME Typed, NoHup, Quiescent, [Next]_vars
    PROVE  \/ \E t \in Threads : Step(t) /\ Does(t)
           \/ \E p \in Procs : Die(p) /\ Dies(p)
           \/ ElseDoes
<1>0. TypeOK
  BY DEF Typed
<1>1. CASE \E t \in Threads : Step(t)
  BY <1>1, StepDoes
<1>2. ASSUME NEW p \in Procs, Count(p) PROVE ElseDoes
  BY <1>0, <1>2 DEF TypeOK, Count, ElseDoes, own, conf
<1>3. ASSUME NEW p \in Procs, Signal(p) PROVE ElseDoes
  <2>1. PICK s \in {"hup", "term"} \cap around : sig' = [sig EXCEPT ![p][s] = "pending"]
    BY <1>3 DEF Signal
  <2>2. \A q \in Procs : \A x \in {"hup", "term"} : x \notin around /\ sig[q][x] = "no" => sig'[q][x] = "no"
    BY <1>0, <2>1 DEF TypeOK
  <2> QED
    BY <1>3, <2>2 DEF Signal, ElseDoes, own, conf, counts
<1>4. ASSUME NEW p \in Procs, Die(p) PROVE Dies(p)
  BY <1>4 DEF Die, Dies
<1>5. CASE Expire
  BY <1>5 DEF Expire, ElseDoes, own, conf, counts
<1>6. CASE UNCHANGED vars
  BY <1>6 DEF vars, ElseDoes, own, conf, counts
<1> QED
  BY <1>1, <1>2, <1>3, <1>4, <1>5, <1>6 DEF Next

LEMMA InitPInv == Init => PInv
BY DEF Init, PInv, Quiescent, Unreloaded

LEMMA NextPInv == Typed /\ PInv /\ [Next]_vars => PInv'
<1> SUFFICES ASSUME Typed, NoHup, Quiescent, [Next]_vars PROVE Quiescent'
  BY Fixed DEF PInv, NoHup, Without
<1>0. /\ "hup" \notin around /\ number \in [Procs -> Int] /\ \A t \in Threads : proc[t] \in Procs
      /\ \A p \in Procs : sig[p]["hup"] = "no"
      /\ \A t \in Threads : Unreloaded(t)
      /\ \A t \in Threads : res[t] \in Results
  BY DEF NoHup, Without, Quiescent, Typed, TypeOK
<1>1. ASSUME NEW t \in Threads, Does(t) PROVE Quiescent'
  <2>1. Moves(t) /\ OthersKeep(t) /\ CountsKeep(t)
    BY <1>1 DEF Does
  <2>2. \A p \in Procs : sig'[p]["hup"] = "no"
    BY <1>0, <2>1 DEF CountsKeep
  <2>3. proc' = proc /\ \A q \in Procs : number'[q] \in Int /\ number'[q] <= number[q]
    <3>1. number' \in [Procs -> Int]
      BY TypedStep DEF Typed, TypeOK
    <3> QED
      BY <2>1, <3>1 DEF CountsKeep
  <2>4. Unreloaded(t)'
    <3>1. Unreloaded(t) /\ proc[t] \in Procs /\ number'[proc[t]] <= number[proc[t]] /\ res[t] \in Results
          /\ number[proc[t]] \in Int /\ number'[proc[t]] \in Int
      BY <1>0, <2>3
    <3>2. CASE Walks(t)
      BY <2>3, <3>1, <3>2 DEF Walks, Goes, Unreloaded
    <3>3. CASE Looks(t)
      BY <2>3, <3>1, <3>3 DEF Looks, Goes, Unreloaded
    <3>4. CASE Comes(t)
      BY <2>3, <3>1, <3>4 DEF Comes, Unreloaded
    <3>5. CASE Gets(t)
      BY <2>3, <3>1, <3>5 DEF Gets, Unreloaded
    <3>6. CASE Acts(t)
      BY <2>3, <3>1, <3>6 DEF Acts, Unreloaded, Results
    <3>7. CASE Turns(t)
      BY <2>3, <3>1, <3>7 DEF Turns, Goes, Unreloaded
    <3> QED
      BY <2>1, <3>2, <3>3, <3>4, <3>5, <3>6, <3>7 DEF Moves
  <2>5. ASSUME NEW s \in Threads, s # t PROVE Unreloaded(s)'
    <3>1. /\ pc'[s] = pc[s] /\ res'[s] = res[s] /\ action'[s] \in {action[s], "terminated"}
          /\ Unreloaded(s) /\ proc'[s] = proc[s]
          /\ number'[proc[s]] <= number[proc[s]] /\ number[proc[s]] \in Int /\ number'[proc[s]] \in Int
      BY <1>0, <2>1, <2>3, <2>5 DEF OthersKeep
    <3> QED
      BY <3>1 DEF Unreloaded
  <2> QED
    BY <2>2, <2>4, <2>5 DEF Quiescent
<1>2. ASSUME NEW p \in Procs, Dies(p) PROVE Quiescent'
  <2>1. UNCHANGED <<proc, number, sig, action, res>> /\ \A t \in Threads : pc'[t] \in {pc[t], "ended"}
    BY <1>2 DEF Dies
  <2> QED
    BY <1>0, <2>1 DEF Quiescent, Unreloaded
<1>3. CASE ElseDoes
  BY <1>0, <1>3 DEF ElseDoes, Quiescent, Unreloaded
<1> QED
  BY <1>1, <1>2, <1>3, NextDoes

-----------------------------------------------------------------------------
(* A thread leaves the loop when all others are asleep or have ended. *)

\* All threads are counted before they run, and no signal makes them start again.
Steady == Without({"late", "hup"})

Gone == {"end", "leave", "ended"}

\* Nobody starts while others run.
Born == (\A p \in Procs : born[p] = NoThread) /\ \A t \in Threads : pc[t] # "new"

\* A thread that has slept comes to the loop's end again, and to no url.
Sleeper(t) ==
    /\ pc[t] \in {"test", "last"} => sleeping[t]
    /\ pc[t] \in {"drain", "stop", "sleep", "test", "last"} => res[t] # "ok"
    /\ sleeping[t] => /\ pc[t] \notin {"new", "open", "reload", "mark", "work", "flush", "finish", "wake"}
                      /\ res[t] # "ok"
                      /\ pc[t] \in {"enter", "next"} => res[t] = "notarget"

\* total_threads counts all that have not ended; after a crash of the process nobody looks at it.
Living(p) == {t \in Mine(p) : pc[t] # "ended"}
Totals    == \A p \in Procs : Cardinality(Living(p)) <= total[p]

\* One that has left the loop for want of work has found all others asleep or on their way out.
Idle(t)   == sleeping[t] \/ pc[t] \in Gone
Parts(t)  == pc[t] = "last" \/ (sleeping[t] /\ pc[t] \in Gone)
Agreed    == \A s, t \in Threads : proc[s] = proc[t] /\ Parts(s) => Idle(t)

Restful == Born /\ (\A t \in Threads : Sleeper(t)) /\ Totals /\ Agreed

WInv == Steady => Restful

LEMMA InitWInv == Init => WInv
<1> SUFFICES ASSUME Init, Steady PROVE Restful
  BY DEF WInv
<1>1. "late" \notin around
  BY DEF Steady, Without
<1>2. Born /\ (\A t \in Threads : Sleeper(t)) /\ Agreed
  BY <1>1 DEF Init, Born, Sleeper, Agreed, Parts, Gone
<1>3. Totals
  <2>1. ASSUME NEW p \in Procs PROVE Cardinality(Living(p)) <= Cardinality(Mine(p))
    <3>1. Mine(p) \subseteq Threads /\ Living(p) \subseteq Mine(p)
      BY DEF Mine, Living
    <3>2. IsFiniteSet(Mine(p))
      BY <3>1, IndexerAssumption, FS_Subset
    <3> QED
      BY <3>1, <3>2, FS_Subset
  <2>2. \A p \in Procs : total[p] = Cardinality(Mine(p))
    BY <1>1 DEF Init
  <2> QED
    BY <2>1, <2>2 DEF Totals
<1> QED
  BY <1>2, <1>3 DEF Restful

\* A move of a thread keeps what is said of a sleeper.
LEMMA SleeperMoves ==
    ASSUME NEW t \in Threads, Sleeper(t), Unreloaded(t), Moves(t), pc[t] # "new",
           res[t] \in Results, number[proc[t]] \in Int
    PROVE  Sleeper(t)'
<1>1. CASE Walks(t)
  BY <1>1 DEF Walks, Goes, Sleeper, Unreloaded
<1>2. CASE Looks(t)
  BY <1>2 DEF Looks, Goes, Sleeper
<1>3. CASE Comes(t)
  BY <1>3 DEF Comes, Sleeper, Unreloaded
<1>4. CASE Gets(t)
  BY <1>4 DEF Gets, Sleeper, Unreloaded
<1>5. CASE Acts(t)
  BY <1>5 DEF Acts, Sleeper, Unreloaded, Results
<1>6. CASE Turns(t)
  BY <1>6 DEF Turns, Goes, Sleeper
<1> QED
  BY <1>1, <1>2, <1>3, <1>4, <1>5, <1>6 DEF Moves

LEMMA LivingFinite ==
    ASSUME NEW p
    PROVE  IsFiniteSet(Living(p)) /\ Cardinality(Living(p)) \in Nat
<1>1. Living(p) \subseteq Threads
  BY DEF Living, Mine
<1> QED
  BY <1>1, IndexerAssumption, FS_Subset, FS_CardinalityType

\* Nobody moves but to an end, and nobody ends but from leave.
LEMMA EndsOnce ==
    ASSUME NEW t \in Threads, Moves(t), res[t] \in Results \ {"reload"}
    PROVE  pc[t] # "ended" /\ (pc'[t] = "ended" <=> pc[t] = "leave") /\ pc'[t] # "new"
BY DEF Moves, Walks, Looks, Comes, Gets, Acts, Turns, Goes, Results

LEMMA TotalsMove ==
    ASSUME Typed, Totals, NEW t \in Threads, Does(t), res[t] # "reload"
    PROVE  Totals'
<1>0. Moves(t) /\ OthersKeep(t) /\ CountsKeep(t) /\ proc[t] \in Procs /\ res[t] \in Results \ {"reload"}
      /\ total \in [Procs -> Int] /\ pc \in [Threads -> Places]
  BY DEF Does, Typed, TypeOK
<1>1. pc[t] # "ended" /\ (pc'[t] = "ended" <=> pc[t] = "leave")
  BY <1>0, EndsOnce
<1>2. proc' = proc /\ \A s \in Threads : s # t => pc'[s] = pc[s]
  BY <1>0 DEF OthersKeep, CountsKeep
<1>3. CASE pc[t] # "leave"
  <2>1. \A p \in Procs : Living(p)' = Living(p)
    BY <1>1, <1>2, <1>3 DEF Living, Mine
  <2>2. total' = total
    BY <1>0, <1>3 DEF CountsKeep
  <2> QED
    BY <2>1, <2>2 DEF Totals
<1>4. CASE pc[t] = "leave"
  <2> DEFINE p == proc[t]
  <2>1. \A q \in Procs : Living(q)' = IF q = p THEN Living(q) \ {t} ELSE Living(q)
    BY <1>1, <1>2, <1>4 DEF Living, Mine
  <2>2. t \in Living(p)
    BY <1>1 DEF Living, Mine
  <2>3. Cardinality(Living(p) \ {t}) = Cardinality(Living(p)) - 1
    BY <2>2, LivingFinite, FS_RemoveElement
  <2>4. total' = [total EXCEPT ![p] = @ - 1]
    BY <1>0, <1>4 DEF CountsKeep
  <2>5. ASSUME NEW q \in Procs PROVE Cardinality(Living(q)') <= total'[q]
    <3>1. Cardinality(Living(q)) <= total[q] /\ Cardinality(Living(q)) \in Nat /\ total[q] \in Int
      BY <1>0, LivingFinite DEF Totals
    <3>2. CASE q = p
      <4>1. Cardinality(Living(q)') = Cardinality(Living(q)) - 1 /\ total'[q] = total[q] - 1
        BY <1>0, <2>1, <2>3, <2>4, <3>2
      <4> QED
        BY <3>1, <4>1
    <3>3. CASE q # p
      <4>1. Living(q)' = Living(q) /\ total'[q] = total[q]
        BY <1>0, <2>1, <2>4, <3>3
      <4> QED
        BY <3>1, <4>1
    <3> QED
      BY <3>2, <3>3
  <2> QED
    BY <2>5 DEF Totals
<1> QED
  BY <1>3, <1>4

\* Who finds as many asleep as there are threads finds all others idle.
LEMMA TestFinds ==
    ASSUME Typed, Restful, NEW t \in Threads, pc[t] = "test", asleep[proc[t]] >= total[proc[t]],
           NEW s \in Threads, proc[s] = proc[t]
    PROVE  Idle(s)
<1> DEFINE p == proc[t]
<1>0. p \in Procs /\ asleep[p] = Cardinality(Dozing(p)) /\ Cardinality(Living(p)) <= total[p] /\ total[p] \in Int
      /\ pc[s] \in Places
  BY DEF Typed, TypeOK, Counted, Restful, Totals
<1>1. CASE \E r \in Threads : proc[r] = p /\ Parts(r)
  BY <1>1 DEF Restful, Agreed
<1>2. CASE ~\E r \in Threads : proc[r] = p /\ Parts(r)
  <2>1. Dozing(p) \subseteq Living(p)
    BY <1>2 DEF Dozing, Living, Mine, Parts, Gone
  <2>2. Cardinality(Dozing(p)) \in Nat /\ IsFiniteSet(Dozing(p)) /\ Cardinality(Living(p)) \in Nat /\ IsFiniteSet(Living(p))
    BY <1>0, LivingFinite, DozingFinite, FS_CardinalityType
  <2>3. Cardinality(Dozing(p)) = Cardinality(Living(p))
    <3>1. Cardinality(Dozing(p)) <= Cardinality(Living(p))
      BY <2>1, <2>2, FS_Subset
    <3>2. Cardinality(Living(p)) <= Cardinality(Dozing(p))
      BY <1>0, <2>2
    <3> QED
      BY <2>2, <3>1, <3>2
  <2>4. Dozing(p) = Living(p)
    BY <2>1, <2>2, <2>3, FS_Subset
  <2> QED
    BY <2>4 DEF Dozing, Living, Mine, Idle, Gone
<1> QED
  BY <1>1, <1>2

\* An idle thread stays so.
LEMMA StaysIdle ==
    ASSUME NEW t \in Threads, Idle(t), Sleeper(t), Unreloaded(t), Moves(t),
           number[proc[t]] \in Int, res[t] \in Results
    PROVE  Idle(t)'
<1>1. CASE sleeping[t]
  BY <1>1 DEF Idle, Gone, Sleeper, Moves, Walks, Looks, Comes, Gets, Acts, Turns, Goes
<1>2. CASE pc[t] \in Gone
  BY <1>2 DEF Idle, Gone, Moves, Walks, Looks, Comes, Gets, Acts, Turns, Goes
<1> QED
  BY <1>1, <1>2 DEF Idle

LEMMA AgreedMoves ==
    ASSUME Typed, Restful, NEW t \in Threads, Does(t), Unreloaded(t)
    PROVE  Agreed'
<1>0. /\ Moves(t) /\ OthersKeep(t) /\ proc' = proc /\ Sleeper(t) /\ Agreed
      /\ number[proc[t]] \in Int /\ res[t] \in Results /\ pc[t] # "new"
  BY DEF Does, CountsKeep, Typed, TypeOK, Restful, Born
<1>1. \A s \in Threads : s # t => (Idle(s)' <=> Idle(s)) /\ (Parts(s)' <=> Parts(s))
  BY <1>0 DEF OthersKeep, Idle, Parts
<1>2. Idle(t) => Idle(t)'
  BY <1>0, StaysIdle
<1>3. CASE pc[t] = "test" /\ asleep[proc[t]] >= total[proc[t]]
  <2>1. \A s \in Threads : proc[s] = proc[t] => Idle(s)'
    BY <1>1, <1>2, <1>3, TestFinds
  <2>2. \A s \in Threads : proc[s] # proc[t] => (Idle(s)' <=> Idle(s)) /\ (Parts(s)' <=> Parts(s))
    BY <1>1
  <2> QED
    BY <1>0, <2>1, <2>2 DEF Agreed
<1>4. CASE ~(pc[t] = "test" /\ asleep[proc[t]] >= total[proc[t]])
  <2>1. Parts(t)' => Parts(t)
    <3>1. CASE Walks(t)
      BY <1>0, <1>4, <3>1 DEF Walks, Goes, Parts, Gone, Sleeper
    <3>2. CASE Looks(t)
      BY <1>0, <3>2 DEF Looks, Goes, Parts, Gone
    <3>3. CASE Comes(t) \/ Gets(t)
      BY <1>0, <3>3 DEF Comes, Gets, Parts, Gone
    <3>4. CASE Acts(t)
      BY <1>0, <3>4 DEF Acts, Parts, Gone, Unreloaded, Results
    <3>5. CASE Turns(t)
      BY <1>0, <3>5 DEF Turns, Goes, Parts, Gone
    <3> QED
      BY <1>0, <3>1, <3>2, <3>3, <3>4, <3>5 DEF Moves
  <2> QED
    BY <1>0, <1>1, <1>2, <2>1 DEF Agreed
<1> QED
  BY <1>3, <1>4

LEMMA NextWInv == Typed /\ PInv /\ WInv /\ [Next]_vars => WInv'
<1> SUFFICES ASSUME Typed, PInv, Steady, Restful, [Next]_vars PROVE Restful'
  BY Fixed DEF WInv, Steady, Without
<1>0. /\ NoHup /\ Quiescent /\ Born /\ Totals /\ Agreed /\ (\A t \in Threads : Sleeper(t) /\ Unreloaded(t))
      /\ \A t \in Threads : /\ proc[t] \in Procs /\ number[proc[t]] \in Int
                            /\ res[t] \in Results /\ pc[t] # "new"
  BY DEF Steady, PInv, NoHup, Without, Quiescent, Restful, Born, Typed, TypeOK
<1>1. ASSUME NEW t \in Threads, Does(t) PROVE Restful'
  <2>0. Moves(t) /\ OthersKeep(t) /\ CountsKeep(t)
    BY <1>1 DEF Does
  <2>1. Born'
    <3>1. pc'[t] # "new"
      BY <1>0, <2>0, EndsOnce DEF Unreloaded
    <3>2. \A s \in Threads : s # t => pc'[s] = pc[s]
      BY <2>0 DEF OthersKeep
    <3>3. born' = born
      BY <1>0, <2>0 DEF CountsKeep
    <3> QED
      BY <1>0, <3>1, <3>2, <3>3 DEF Born
  <2>2. \A s \in Threads : Sleeper(s)'
    <3>1. Sleeper(t)'
      BY <1>0, <2>0, SleeperMoves
    <3>2. ASSUME NEW s \in Threads, s # t PROVE Sleeper(s)'
      <4>1. pc'[s] = pc[s] /\ res'[s] = res[s] /\ sleeping'[s] = sleeping[s] /\ Sleeper(s)
        BY <1>0, <2>0, <3>2 DEF OthersKeep
      <4> QED
        BY <4>1 DEF Sleeper
    <3> QED
      BY <3>1, <3>2
  <2>3. Totals'
    BY <1>0, <1>1, TotalsMove DEF Unreloaded
  <2>4. Agreed'
    BY <1>0, <1>1, AgreedMoves
  <2> QED
    BY <2>1, <2>2, <2>3, <2>4 DEF Restful
<1>2. ASSUME NEW p \in Procs, Die(p), Dies(p) PROVE Restful'
  <2>1. \A t \in Threads : pc'[t] = IF proc[t] = p THEN "ended" ELSE pc[t]
    BY <1>2 DEF Dies
  <2>2. UNCHANGED <<proc, total, res, sleeping>>
    BY <1>2 DEF Dies
  <2>3. Born'
    BY <1>0, <1>2, <2>1 DEF Born, Die, Typed, TypeOK
  <2>4. \A t \in Threads : Sleeper(t)'
    BY <1>0, <2>1, <2>2 DEF Sleeper
  <2>5. Totals'
    <3>1. ASSUME NEW q \in Procs PROVE Cardinality(Living(q)') <= total'[q]
      <4>1. Living(q)' \subseteq Living(q)
        BY <2>1, <2>2 DEF Living, Mine
      <4>2. IsFiniteSet(Living(q)) /\ Cardinality(Living(q)) \in Nat
        BY LivingFinite
      <4>3. Cardinality(Living(q)') <= Cardinality(Living(q)) /\ Cardinality(Living(q)') \in Nat
        BY <4>1, <4>2, FS_Subset, FS_CardinalityType
      <4>4. Cardinality(Living(q)) <= total[q] /\ total'[q] = total[q] /\ total[q] \in Int
        BY <1>0, <2>2 DEF Totals, Typed, TypeOK
      <4> QED
        BY <4>2, <4>3, <4>4
    <3> QED
      BY <3>1 DEF Totals
  <2>6. Agreed'
    BY <1>0, <2>1, <2>2 DEF Agreed, Parts, Idle, Gone
  <2> QED
    BY <2>3, <2>4, <2>5, <2>6 DEF Restful
<1>3. CASE ElseDoes
  <2>1. /\ \A t \in Threads : pc'[t] = pc[t]
        /\ UNCHANGED <<proc, number, res, sleeping, born, total>>
    BY <1>0, <1>3 DEF ElseDoes, Born
  <2>2. Born' /\ Agreed' /\ \A t \in Threads : Sleeper(t)'
    BY <1>0, <2>1 DEF Born, Agreed, Parts, Idle, Sleeper
  <2>3. Totals'
    <3>1. \A q \in Procs : Living(q)' = Living(q)
      BY <2>1 DEF Living, Mine
    <3> QED
      BY <1>0, <2>1, <3>1 DEF Totals
  <2> QED
    BY <2>2, <2>3 DEF Restful
<1> QED
  BY <1>0, <1>1, <1>2, <1>3, NextDoes

\* WaitsForAll: unless threads are counted late or a SIGHUP wakes them, a thread
\* that leaves the loop for want of work leaves no other at work behind it,
\* whoever dies, fails or is told to end meanwhile.
THEOREM NoneLeftAtWork == Spec => WaitsForAll
<1>1. Init => Typed /\ PInv /\ WInv
  BY TypedInit, InitPInv, InitWInv
<1>2. (Typed /\ PInv /\ WInv) /\ [Next]_vars => (Typed /\ PInv /\ WInv)'
  BY TypedStep, NextPInv, NextWInv
<1> DEFINE Waits ==
        \A t \in Threads :
            pc[t] = "test" /\ pc'[t] = "last" /\ Without({"late", "hup"}) =>
                \A s \in Mine(proc[t]) : work[s] = NoUrl /\ (sleeping[s] \/ pc[s] \in {"end", "leave", "ended"})
<1>3. (Typed /\ PInv /\ WInv) /\ [Next]_vars => Waits
  <2> SUFFICES ASSUME Typed, PInv, WInv, [Next]_vars, NEW t \in Threads,
                      pc[t] = "test", pc'[t] = "last", Steady, NEW s \in Mine(proc[t])
               PROVE  work[s] = NoUrl /\ Idle(s)
    BY DEF Steady, Idle, Gone
  <2>1. Restful /\ NoHup /\ Quiescent
    BY DEF WInv, PInv, NoHup, Steady, Without
  <2>2. s \in Threads /\ proc[s] = proc[t]
    BY DEF Mine
  <2>3. asleep[proc[t]] >= total[proc[t]]
    <3>1. ASSUME NEW r \in Threads, Does(r) PROVE asleep[proc[t]] >= total[proc[t]]
      <4>1. r = t
        BY <3>1 DEF Does, OthersKeep
      <4>2. Moves(t)
        BY <3>1, <4>1 DEF Does
      <4> QED
        BY <4>2 DEF Moves, Walks, Looks, Comes, Gets, Acts, Turns, Goes
    <3>2. ~\E p \in Procs : Dies(p)
      BY DEF Dies
    <3>3. ~ElseDoes
      BY DEF ElseDoes
    <3> QED
      BY <2>1, <3>1, <3>2, <3>3, NextDoes
  <2>4. Idle(s)
    BY <2>1, <2>2, <2>3, TestFinds
  <2>5. pc[s] \notin {"work", "flush"}
    BY <2>1, <2>2, <2>4 DEF Idle, Gone, Restful, Sleeper
  <2> QED
    BY <2>2, <2>4, <2>5 DEF Typed, Busy
<1>4. WaitsForAll <=> [][Waits]_vars
  BY DEF WaitsForAll
<1> QED
  BY <1>1, <1>2, <1>3, <1>4, PTL DEF Spec

-----------------------------------------------------------------------------
(* What becomes of the urls while nothing fails and nothing stops the threads. *)

Calm == Without({"term", "hup", "sql", "mark", "slow", "die"})

\* A thread has found targets or not, and goes to sleep only for want of them.
Untroubled(t) ==
    /\ action[t] \in {"ok", "notarget"} /\ res[t] \in {"ok", "notarget"} /\ pc[t] # "stop"
    /\ pc[t] \in {"drain", "sleep", "test", "last"} => res[t] = "notarget"

\* Nothing happens to the urls.
Rests(t) == pc[t] \notin {"mark", "end"} /\ UNCHANGED <<nit, targets, number, InHand(t)>>

\* There are no rows to select.
Dries(t) ==
    /\ pc[t] = "next" /\ pc'[t] = "set" /\ targets[proc[t]] = {} /\ \A u \in Urls : nit[u] # "due"
    /\ number' = [number EXCEPT ![proc[t]] = -1]
    /\ UNCHANGED <<nit, targets, InHand(t)>>

\* Rows are selected, no more than url_number.
Selects(t) ==
    /\ pc[t] = "next" /\ pc'[t] = "mark" /\ targets[proc[t]] = {}
    /\ \E rows \in SUBSET {u \in Urls : nit[u] = "due"} :
          rows # {} /\ Cardinality(rows) <= number[proc[t]] /\ targets' = [targets EXCEPT ![proc[t]] = rows]
    /\ UNCHANGED <<nit, number, InHand(t)>>

\* A target is handed out; the one that has selected it marks them all first.
Hands(t) ==
    /\ pc[t] = "mark" \/ (pc[t] = "next" /\ number[proc[t]] > 0)
    /\ pc'[t] = "work"
    /\ nit' = IF pc[t] = "mark" THEN Marked(targets[proc[t]], "held") ELSE nit
    /\ number' = [number EXCEPT ![proc[t]] = @ - 1]
    /\ \E u \in targets[proc[t]] :
          targets' = [targets EXCEPT ![proc[t]] = @ \ {u}] /\ InHand(t)' = InHand(t) \cup {u}

\* New urls become rows.
Finds(t) ==
    /\ pc[t] = "work" /\ pc'[t] = "flush"
    /\ \E hrefs \in SUBSET {u \in Urls \ Forbidden : nit[u] = "none"} : nit' = Marked(hrefs, "due")
    /\ UNCHANGED <<targets, number, InHand(t)>>

\* The documents in hand are written.
Writes(t) ==
    /\ pc[t] \in {"flush", "drain", "end"}
    /\ nit' = Updated(InHand(t)) /\ InHand(t)' = {}
    /\ UNCHANGED <<targets, number>>

Deals(t) ==
    /\ Rests(t) \/ Dries(t) \/ Selects(t) \/ Hands(t) \/ Finds(t) \/ Writes(t)
    /\ \A s \in Threads : s # t => InHand(s)' = InHand(s)

\* A flush of the cache writes all that is in it.
LEMMA FlushDeals ==
    ASSUME Typed, "sql" \notin around, NEW t \in Threads, NEW doc, FlushCache(t, doc),
           doc \cup cache[t] = InHand(t), work' = [work EXCEPT ![t] = NoUrl]
    PROVE  /\ nit' = Updated(InHand(t)) /\ InHand(t)' = {}
           /\ \A s \in Threads : s # t => InHand(s)' = InHand(s)
<1>1. nit' = Updated(doc \cup cache[t])
  BY DEF FlushCache, May
<1>2. cache' = [cache EXCEPT ![t] = {}]
  BY DEF FlushCache
<1>3. cache'[t] = {} /\ work'[t] = NoUrl
  BY <1>2 DEF Typed, TypeOK
<1>4. \A s \in Threads : s # t => cache'[s] = cache[s] /\ work'[s] = work[s]
  BY <1>2 DEF Typed, TypeOK
<1> QED
  BY <1>1, <1>3, <1>4 DEF InHand

\* A step that gives a thread no other documents.
LEMMA HandsSame ==
    ASSUME UNCHANGED <<work, cache>>
    PROVE  \A s \in Threads : InHand(s)' = InHand(s)
BY DEF InHand

LEMMA HandOutDeals ==
    ASSUME Typed, NEW t \in Threads, NEW u \in targets[proc[t]], HandOut(t, u), cache' = cache,
           pc[t] \notin {"work", "flush"}
    PROVE  /\ pc'[t] = "work"
           /\ number' = [number EXCEPT ![proc[t]] = @ - 1]
           /\ targets' = [targets EXCEPT ![proc[t]] = @ \ {u}]
           /\ InHand(t)' = InHand(t) \cup {u}
           /\ \A s \in Threads : s # t => InHand(s)' = InHand(s)
<1>1. /\ proc[t] \in Procs /\ u \in Urls /\ u # NoUrl /\ work[t] = NoUrl
      /\ pc \in [Threads -> Places] /\ work \in [Threads -> Urls \cup {NoUrl}]
  BY IndexerAssumption DEF Typed, TypeOK, Busy
<1>2. /\ pc' = [pc EXCEPT ![t] = "work"] /\ work' = [work EXCEPT ![t] = u]
      /\ number' = [number EXCEPT ![proc[t]] = @ - 1]
      /\ targets' = [targets EXCEPT ![proc[t]] = @ \ {u}]
  BY DEF HandOut, Goto
<1>3. work'[t] = u /\ cache'[t] = cache[t]
  BY <1>1, <1>2
<1>4. \A s \in Threads : s # t => work'[s] = work[s] /\ cache'[s] = cache[s]
  BY <1>1, <1>2
<1>5. InHand(t)' = InHand(t) \cup {u}
  BY <1>1, <1>3 DEF InHand
<1>6. \A s \in Threads : s # t => InHand(s)' = InHand(s)
  BY <1>4 DEF InHand
<1> QED
  BY <1>1, <1>2, <1>5, <1>6

LEMMA StepDeals ==
    ASSUME Typed, Calm, Quiescent, NEW t \in Threads, Step(t), Untroubled(t)
    PROVE  Deals(t)
<1>0. /\ TypeOK /\ proc[t] \in Procs /\ sig[proc[t]]["hup"] = "no" /\ pc[t] \notin {"reload", "stop"}
      /\ \A x \in {"sql", "mark"} : ~May(x)
      /\ res[t] # "error" /\ cache[t] \in SUBSET Urls
  BY DEF Typed, TypeOK, Quiescent, Unreloaded, Untroubled, Calm, Without, May
<1>a. UNCHANGED <<nit, targets, number, work, cache>> /\ pc[t] \notin {"mark", "end"} => Deals(t)
  BY HandsSame DEF Deals, Rests
<1>1. CASE Create(t) \/ Open(t) \/ Check(t) \/ Reload(t) \/ Enter(t) \/ NoMore(t)
  BY <1>0, <1>1, <1>a DEF Create, Open, Check, Reload, Enter, NoMore, Asks, conf
<1>2. CASE Signals(t)
  <2>1. targets' = targets /\ number' = number
    BY <1>0, <1>2 DEF Signals
  <2> QED
    BY <1>2, <1>a, <2>1 DEF Signals
<1>3. CASE Finish(t) \/ SetAction(t) \/ Wake(t) \/ StopAll(t) \/ Sleep(t) \/ Test(t) \/ Leave(t)
  BY <1>0, <1>3, <1>a DEF Finish, SetAction, Wake, StopAll, Sleep, Test, Leave, conf
<1>4. CASE Take(t)
  <2>1. PICK u \in targets[proc[t]] : HandOut(t, u)
    BY <1>4 DEF Take
  <2>2. pc[t] = "next" /\ number[proc[t]] > 0 /\ nit' = nit /\ cache' = cache
    BY <1>4 DEF Take, Asks
  <2> QED
    BY <2>1, <2>2, HandOutDeals DEF Deals, Hands
<1>5. CASE SelectTargets(t)
  <2> DEFINE p   == proc[t]
             due == {u \in Urls : nit[u] = "due"}
  <2>1. pc[t] = "next" /\ number[p] > 0 /\ targets[p] = {} /\ UNCHANGED <<nit, work, cache>>
    BY <1>5 DEF SelectTargets, Asks
  <2>2. \A s \in Threads : InHand(s)' = InHand(s)
    BY <2>1, HandsSame
  <2>3. \/ due = {} /\ number' = [number EXCEPT ![p] = -1] /\ Returns(t, "notarget") /\ UNCHANGED targets
        \/ \E rows \in SUBSET due :
              /\ rows # {}
              /\ Cardinality(rows) = Wanted(p) \/ (rows = due /\ Cardinality(due) < Wanted(p))
              /\ targets' = [targets EXCEPT ![p] = rows]
              /\ Goto(t, "mark")
              /\ UNCHANGED number
    BY <1>0, <1>5 DEF SelectTargets
  <2>4. CASE due = {} /\ number' = [number EXCEPT ![p] = -1] /\ Returns(t, "notarget") /\ UNCHANGED targets
    <3>1. pc'[t] = "set" /\ \A u \in Urls : nit[u] # "due"
      BY <1>0, <2>4 DEF TypeOK, Returns, Goto
    <3> QED
      BY <2>1, <2>2, <2>4, <3>1 DEF Deals, Dries
  <2>5. ASSUME NEW rows \in SUBSET due, rows # {},
               Cardinality(rows) = Wanted(p) \/ (rows = due /\ Cardinality(due) < Wanted(p)),
               targets' = [targets EXCEPT ![p] = rows], Goto(t, "mark"), UNCHANGED number
        PROVE  Deals(t)
    <3>1. pc'[t] = "mark"
      BY <1>0, <2>5 DEF TypeOK, Goto
    <3>2. Wanted(p) \in Int /\ Wanted(p) <= number[p] /\ number[p] \in Int
      BY <1>0, IndexerAssumption DEF TypeOK, Wanted
    <3>3. Cardinality(rows) \in Nat
      <4>1. rows \subseteq Urls
        BY <2>5
      <4> QED
        BY <4>1, IndexerAssumption, FS_Subset, FS_CardinalityType
    <3>4. Cardinality(rows) <= number[p]
      BY <2>5, <3>2, <3>3
    <3>5. Selects(t)
      BY <2>1, <2>2, <2>5, <3>1, <3>4 DEF Selects
    <3> QED
      BY <2>2, <3>5 DEF Deals
  <2> HIDE DEF p, due
  <2> QED
    BY <2>3, <2>4, <2>5
<1>6. CASE MarkTargets(t)
  <2>1. PICK u \in targets[proc[t]] : HandOut(t, u)
    BY <1>0, <1>6 DEF MarkTargets
  <2>2. pc[t] = "mark" /\ nit' = Marked(targets[proc[t]], "held") /\ cache' = cache
    BY <1>0, <1>6 DEF MarkTargets
  <2> QED
    BY <2>1, <2>2, HandOutDeals DEF Deals, Hands
<1>7. CASE Parse(t)
  <2>1. /\ pc[t] = "work" /\ pc' = [pc EXCEPT ![t] = "flush"] /\ UNCHANGED <<targets, number, work, cache>>
    BY <1>0, <1>7 DEF Parse, Goto, conf
  <2>2. \E hrefs \in SUBSET {u \in Urls \ Forbidden : nit[u] = "none"} : nit' = Marked(hrefs, "due")
    BY <1>7 DEF Parse
  <2>3. pc'[t] = "flush"
    BY <1>0, <2>1 DEF TypeOK
  <2> QED
    BY <2>1, <2>2, <2>3, HandsSame DEF Deals, Finds
<1>8. CASE Update(t)
  <2>1. /\ pc[t] = "flush" /\ work' = [work EXCEPT ![t] = NoUrl] /\ UNCHANGED <<targets, number>>
        /\ work[t] \in Urls /\ work[t] # NoUrl
    BY <1>8, IndexerAssumption DEF Update, conf, Typed, Busy
  <2>2. {work[t]} \cup cache[t] = InHand(t)
    BY <1>0, <2>1, IndexerAssumption DEF InHand
  <2>3. CASE FlushCache(t, {work[t]})
    <3>1. /\ nit' = Updated(InHand(t)) /\ InHand(t)' = {}
          /\ \A s \in Threads : s # t => InHand(s)' = InHand(s)
      BY <1>0, <2>1, <2>2, <2>3, FlushDeals DEF May
    <3> QED
      BY <2>1, <3>1 DEF Deals, Writes
  <2>4. CASE cache' = [cache EXCEPT ![t] = @ \cup {work[t]}] /\ nit' = nit
    <3>1. cache'[t] = cache[t] \cup {work[t]} /\ work'[t] = NoUrl
      BY <1>0, <2>1, <2>4 DEF TypeOK
    <3>2. \A s \in Threads : s # t => cache'[s] = cache[s] /\ work'[s] = work[s]
      BY <1>0, <2>1, <2>4 DEF TypeOK
    <3>3. InHand(t)' = InHand(t)
      BY <2>1, <3>1 DEF InHand
    <3>4. \A s \in Threads : s # t => InHand(s)' = InHand(s)
      BY <3>2 DEF InHand
    <3> QED
      BY <2>1, <2>4, <3>3, <3>4 DEF Deals, Rests
  <2> QED
    BY <1>0, <1>8, <2>3, <2>4 DEF Update
<1>9. CASE Drain(t) \/ End(t)
  <2>1. /\ pc[t] \in {"drain", "end"} /\ UNCHANGED <<targets, number, work>> /\ FlushCache(t, {})
    BY <1>0, <1>9 DEF Drain, End, conf
  <2>2. work[t] = NoUrl /\ work' = [work EXCEPT ![t] = NoUrl]
    BY <1>0, <2>1 DEF Typed, TypeOK, Busy
  <2>3. {} \cup cache[t] = InHand(t)
    BY <1>0, <2>2, IndexerAssumption DEF InHand
  <2>4. /\ nit' = Updated(InHand(t)) /\ InHand(t)' = {}
        /\ \A s \in Threads : s # t => InHand(s)' = InHand(s)
    BY <1>0, <2>1, <2>2, <2>3, FlushDeals DEF May
  <2> QED
    BY <2>1, <2>4 DEF Deals, Writes
<1> QED
  BY <1>1, <1>2, <1>3, <1>4, <1>5, <1>6, <1>7, <1>8, <1>9 DEF Step

-----------------------------------------------------------------------------
(* No mark is left behind. *)

\* No more targets are selected than url_number allows.
Funded == \A p \in Procs : targets[p] = {} \/ Cardinality(targets[p]) <= number[p]

\* Who has left the loop has written all he had.
Emptied == \A t \in Threads : pc[t] \in {"leave", "ended"} => InHand(t) = {}

\* Targets have a thread that will ask for them.
Attends(t) == pc[t] \notin {"new", "open", "end", "leave", "ended"}
Attended   == \A p \in Procs : targets[p] # {} => \E t \in Mine(p) : Attends(t)

\* A marked url is in somebody's hands or is his target.
Cares(t, u) == pc[t] # "ended" /\ u \in InHand(t) \cup targets[proc[t]]
Cared       == \A u \in Urls : nit[u] = "held" => \E t \in Threads : Cares(t, u)

Careful ==
    /\ \A p \in Procs : sig[p]["term"] = "no"
    /\ \A t \in Threads : Untroubled(t)
    /\ Funded /\ Emptied /\ Attended /\ Cared

OInv == Calm => Careful

LEMMA InitOInv == Init => OInv
<1> SUFFICES ASSUME Init PROVE Careful
  BY DEF OInv
<1>1. \A t \in Threads : Untroubled(t)
  BY DEF Init, Untroubled
<1>2. Funded /\ Emptied /\ Attended /\ Cared
  BY DEF Init, Funded, Emptied, Attended, Cared
<1> QED
  BY <1>1, <1>2 DEF Init, Careful

LEMMA UntroubledMoves ==
    ASSUME NEW t \in Threads, Moves(t), Untroubled(t), sig[proc[t]]["term"] = "no",
           ~May("sql"), ~May("mark")
    PROVE  Untroubled(t)'
<1>1. CASE Walks(t)
  BY <1>1 DEF Walks, Goes, Untroubled
<1>2. CASE Looks(t)
  BY <1>2 DEF Looks, Goes, Untroubled
<1>3. CASE Comes(t)
  BY <1>3 DEF Comes, Untroubled
<1>4. CASE Gets(t)
  BY <1>4 DEF Gets, Untroubled
<1>5. CASE Acts(t)
  BY <1>5 DEF Acts, Untroubled
<1>6. CASE Turns(t)
  BY <1>6 DEF Turns, Goes, Untroubled
<1> QED
  BY <1>1, <1>2, <1>3, <1>4, <1>5, <1>6 DEF Moves

LEMMA TargetsFinite ==
    ASSUME Typed, NEW p \in Procs
    PROVE  IsFiniteSet(targets[p]) /\ Cardinality(targets[p]) \in Nat
<1>1. targets[p] \subseteq Urls
  BY DEF Typed, TypeOK
<1> QED
  BY <1>1, IndexerAssumption, FS_Subset, FS_CardinalityType

\* Where url_number is spent there are no targets.
LEMMA SpentEmpty ==
    ASSUME Typed, Funded, NEW p \in Procs, number[p] <= 0
    PROVE  targets[p] = {}
<1>1. Cardinality(targets[p]) \in Nat /\ IsFiniteSet(targets[p]) /\ number[p] \in Int
  BY TargetsFinite DEF Typed, TypeOK
<1>2. CASE Cardinality(targets[p]) <= number[p]
  <2>1. Cardinality(targets[p]) = 0
    BY <1>1, <1>2
  <2> QED
    BY <1>1, <2>1, FS_EmptySet
<1> QED
  BY <1>2 DEF Funded

LEMMA FundedDeals ==
    ASSUME Typed, Funded, NEW t \in Threads, Deals(t)
    PROVE  Funded'
<1> DEFINE p == proc[t]
<1>0. /\ p \in Procs /\ targets \in [Procs -> SUBSET Urls] /\ number \in [Procs -> Int]
  BY DEF Typed, TypeOK
<1>1. CASE Rests(t) \/ Finds(t) \/ Writes(t)
  BY <1>1 DEF Rests, Finds, Writes, Funded
<1>2. CASE Dries(t)
  BY <1>0, <1>2 DEF Dries, Funded
<1>3. CASE Selects(t)
  BY <1>0, <1>3 DEF Selects, Funded
<1>4. CASE Hands(t)
  <2>1. PICK u \in targets[p] : targets' = [targets EXCEPT ![p] = @ \ {u}]
    BY <1>4 DEF Hands
  <2>2. number' = [number EXCEPT ![p] = @ - 1]
    BY <1>4 DEF Hands
  <2>3. Cardinality(targets[p] \ {u}) = Cardinality(targets[p]) - 1
    BY <1>0, <2>1, TargetsFinite, FS_RemoveElement
  <2>4. Cardinality(targets[p]) <= number[p] /\ Cardinality(targets[p]) \in Nat /\ number[p] \in Int
    BY <1>0, <2>1, TargetsFinite DEF Funded
  <2>5. Cardinality(targets'[p]) <= number'[p]
    <3>1. targets'[p] = targets[p] \ {u} /\ number'[p] = number[p] - 1
      BY <1>0, <2>1, <2>2
    <3> QED
      BY <2>3, <2>4, <3>1
  <2>6. \A q \in Procs : q # p => targets'[q] = targets[q] /\ number'[q] = number[q]
    BY <1>0, <2>1, <2>2
  <2> QED
    BY <2>5, <2>6 DEF Funded
<1> QED
  BY <1>1, <1>2, <1>3, <1>4 DEF Deals

LEMMA EmptiedDeals ==
    ASSUME Emptied, NEW t \in Threads, Deals(t), Moves(t), OthersKeep(t), Untroubled(t)
    PROVE  Emptied'
<1>1. ASSUME NEW s \in Threads, s # t PROVE pc'[s] = pc[s] /\ InHand(s)' = InHand(s)
  BY <1>1 DEF Deals, OthersKeep
<1>2. ASSUME pc'[t] \in {"leave", "ended"} PROVE InHand(t)' = {}
  <2>1. pc[t] \in {"end", "leave"}
    BY <1>2 DEF Moves, Walks, Looks, Comes, Gets, Acts, Turns, Goes, Untroubled
  <2>2. CASE Rests(t)
    BY <2>1, <2>2 DEF Rests, Emptied
  <2>3. CASE Writes(t)
    BY <2>3 DEF Writes
  <2> QED
    BY <2>1, <2>2, <2>3 DEF Deals, Dries, Selects, Hands, Finds
<1> QED
  BY <1>1, <1>2 DEF Emptied

LEMMA AttendedDeals ==
    ASSUME Typed, Funded, Attended, NEW t \in Threads, Does(t), Deals(t), Untroubled(t), Unreloaded(t)
    PROVE  Attended'
<1>0. /\ Moves(t) /\ OthersKeep(t) /\ proc' = proc
      /\ targets \in [Procs -> SUBSET Urls] /\ proc[t] \in Procs
  BY DEF Does, CountsKeep, Typed, TypeOK
<1>1. ASSUME NEW p \in Procs, targets'[p] # {} PROVE targets[p] # {} \/ (p = proc[t] /\ pc'[t] = "mark")
  <2>1. CASE Selects(t)
    BY <1>0, <1>1, <2>1 DEF Selects
  <2>2. CASE Hands(t)
    BY <1>0, <1>1, <2>2 DEF Hands
  <2>3. CASE Rests(t) \/ Dries(t) \/ Finds(t) \/ Writes(t)
    BY <1>1, <2>3 DEF Rests, Dries, Finds, Writes
  <2> QED
    BY <2>1, <2>2, <2>3 DEF Deals
<1>2. targets[proc[t]] # {} /\ Attends(t) => Attends(t)'
  <2> SUFFICES ASSUME targets[proc[t]] # {}, Attends(t), ~Attends(t)' PROVE FALSE
    OBVIOUS
  <2>1. pc[t] = "last"
    BY <1>0 DEF Attends, Moves, Walks, Looks, Comes, Gets, Acts, Turns, Goes, Untroubled
  <2>2. number[proc[t]] <= 0
    BY <2>1 DEF Untroubled, Unreloaded
  <2> QED
    BY <1>0, <2>2, SpentEmpty
<1>3. ASSUME NEW p \in Procs, targets'[p] # {} PROVE \E s \in Threads : proc[s] = p /\ Attends(s)'
  <2>1. CASE p = proc[t] /\ pc'[t] = "mark"
    BY <2>1 DEF Attends
  <2>2. CASE targets[p] # {}
    <3>1. PICK s \in Threads : proc[s] = p /\ Attends(s)
      BY <2>2 DEF Attended, Mine
    <3>2. Attends(s)'
      <4>1. CASE s = t
        BY <1>2, <2>2, <3>1, <4>1
      <4>2. CASE s # t
        BY <1>0, <3>1, <4>2 DEF OthersKeep, Attends
      <4> QED
        BY <4>1, <4>2
    <3> QED
      BY <3>1, <3>2
  <2> QED
    BY <1>1, <1>3, <2>1, <2>2
<1> QED
  BY <1>0, <1>3 DEF Attended, Mine

\* A thread that cares for a url cares for it until it is written, or another does.
LEMMA CaredDeals ==
    ASSUME Typed, Emptied, Attended, Cared, NEW t \in Threads, Does(t), Deals(t), Untroubled(t)
    PROVE  Cared'
<1>0. /\ Moves(t) /\ OthersKeep(t) /\ proc' = proc
      /\ targets \in [Procs -> SUBSET Urls] /\ \A s \in Threads : proc[s] \in Procs
      /\ \A s \in Threads : s # t => InHand(s)' = InHand(s) /\ pc'[s] = pc[s]
      /\ res[t] \in Results \ {"reload"} /\ pc \in [Threads -> Places]
  BY DEF Does, CountsKeep, Deals, OthersKeep, Untroubled, Typed, TypeOK, Results
<1>1. pc[t] # "ended" /\ (pc'[t] = "ended" => pc[t] = "leave")
  BY <1>0, EndsOnce
<1> SUFFICES ASSUME NEW u \in Urls, nit'[u] = "held" PROVE \E s \in Threads : Cares(s, u)'
  BY DEF Cared
<1>2. CASE Rests(t) \/ Dries(t) \/ Selects(t)
  <2>1. /\ nit' = nit /\ InHand(t)' = InHand(t)
        /\ \A p \in Procs : targets'[p] = targets[p] \/ targets[p] = {}
    BY <1>0, <1>2 DEF Rests, Dries, Selects
  <2>2. PICK s \in Threads : Cares(s, u)
    BY <2>1 DEF Cared
  <2>3. u \in InHand(s)' \cup targets'[proc[s]]
    BY <1>0, <2>1, <2>2 DEF Cares
  <2>4. CASE pc'[s] # "ended"
    BY <1>0, <2>3, <2>4 DEF Cares
  <2>5. CASE pc'[s] = "ended"
    <3>1. s = t /\ pc[t] = "leave"
      BY <1>0, <1>1, <2>2, <2>5 DEF Cares
    <3>2. u \in targets[proc[t]]
      BY <2>2, <3>1 DEF Cares, Emptied
    <3>3. targets' = targets
      BY <1>2, <3>1 DEF Rests, Dries, Selects
    <3>4. PICK r \in Threads : proc[r] = proc[t] /\ Attends(r)
      BY <1>0, <3>2 DEF Attended, Mine
    <3>5. r # t /\ pc'[r] # "ended"
      BY <1>0, <3>1, <3>4 DEF Attends
    <3> QED
      BY <1>0, <3>2, <3>3, <3>4, <3>5 DEF Cares
  <2> QED
    BY <2>4, <2>5
<1>3. CASE Hands(t)
  <2> DEFINE p == proc[t]
  <2>1. PICK v \in targets[p] : targets' = [targets EXCEPT ![p] = @ \ {v}] /\ InHand(t)' = InHand(t) \cup {v}
    BY <1>3 DEF Hands
  <2>2. pc'[t] = "work" /\ pc'[t] # "ended"
    BY <1>3 DEF Hands
  <2>3. targets'[p] = targets[p] \ {v} /\ \A q \in Procs : q # p => targets'[q] = targets[q]
    BY <1>0, <2>1
  <2>4. CASE u \in targets[p]
    BY <1>0, <2>1, <2>2, <2>3, <2>4 DEF Cares
  <2>5. CASE u \notin targets[p]
    <3>1. nit[u] = "held"
      BY <1>3, <2>5 DEF Hands, Marked
    <3>2. PICK s \in Threads : Cares(s, u)
      BY <3>1 DEF Cared
    <3>3. CASE s = t
      BY <2>1, <2>2, <2>5, <3>2, <3>3 DEF Cares
    <3>4. CASE s # t
      <4>1. pc'[s] # "ended" /\ InHand(s)' = InHand(s)
        BY <1>0, <3>2, <3>4 DEF Cares
      <4>2. u \in InHand(s) \/ (u \in targets[proc[s]] /\ proc[s] # p)
        BY <2>5, <3>2 DEF Cares
      <4>3. u \in InHand(s)' \cup targets'[proc[s]]
        BY <1>0, <2>3, <4>1, <4>2
      <4> QED
        BY <1>0, <4>1, <4>3 DEF Cares
    <3> QED
      BY <3>3, <3>4
  <2> QED
    BY <2>4, <2>5
<1>4. CASE Finds(t)
  <2>1. nit[u] = "held" /\ targets' = targets /\ InHand(t)' = InHand(t) /\ pc'[t] # "ended"
    BY <1>4 DEF Finds, Marked
  <2>2. PICK s \in Threads : Cares(s, u)
    BY <2>1 DEF Cared
  <2> QED
    BY <1>0, <2>1, <2>2 DEF Cares
<1>5. CASE Writes(t)
  <2>1. nit[u] = "held" /\ u \notin InHand(t) /\ targets' = targets /\ pc'[t] # "ended"
    BY <1>1, <1>5 DEF Writes, Updated
  <2>2. PICK s \in Threads : Cares(s, u)
    BY <2>1 DEF Cared
  <2>3. CASE s = t
    BY <1>0, <2>1, <2>2, <2>3 DEF Cares
  <2>4. CASE s # t
    BY <1>0, <2>1, <2>2, <2>4 DEF Cares
  <2> QED
    BY <2>3, <2>4
<1> QED
  BY <1>2, <1>3, <1>4, <1>5 DEF Deals

\* In calm a step is one of a thread, or changes nothing here.
Still == UNCHANGED <<nit, targets, number, work, cache, pc, action, res, proc, sig>>

LEMMA NextDeals ==
    ASSUME Typed, Calm, Quiescent, Careful, [Next]_vars
    PROVE  (\E t \in Threads : Does(t) /\ Deals(t)) \/ Still
<1>0. NoHup /\ around \cap {"hup", "term", "slow", "die"} = {} /\ \A t \in Threads : Untroubled(t)
  BY DEF Calm, NoHup, Without, Careful
<1>1. ASSUME NEW t \in Threads, Step(t) PROVE Does(t) /\ Deals(t)
  BY <1>0, <1>1, StepDoes, StepDeals
<1>2. ASSUME NEW p \in Procs, Count(p) PROVE Still
  BY <1>2 DEF Count, Still, own, conf
<1>3. ASSUME NEW p \in Procs, Signal(p) PROVE FALSE
  BY <1>0, <1>3 DEF Signal
<1>4. ASSUME NEW p \in Procs, Die(p) PROVE FALSE
  BY <1>0, <1>4 DEF Die, May
<1>5. CASE Expire
  BY <1>0, <1>5 DEF Expire, May
<1>6. CASE UNCHANGED vars
  BY <1>6 DEF vars, Still, own, conf
<1> QED
  BY <1>1, <1>2, <1>3, <1>4, <1>5, <1>6 DEF Next

LEMMA StillInHand == Still => \A t \in Threads : InHand(t)' = InHand(t)
BY DEF Still, InHand

LEMMA NextOInv == Typed /\ PInv /\ OInv /\ [Next]_vars => OInv'
<1> SUFFICES ASSUME Typed, Calm, Quiescent, Careful, [Next]_vars PROVE Careful'
  BY Fixed DEF OInv, PInv, NoHup, Calm, Without
<1>0. /\ (\A t \in Threads : Untroubled(t) /\ Unreloaded(t) /\ proc[t] \in Procs)
      /\ Funded /\ Emptied /\ Attended /\ Cared
      /\ ~May("sql") /\ ~May("mark") /\ \A p \in Procs : sig[p]["term"] = "no"
  BY DEF Careful, Quiescent, Calm, Without, May, Typed, TypeOK
<1>1. ASSUME NEW t \in Threads, Does(t), Deals(t) PROVE Careful'
  <2>0. Moves(t) /\ OthersKeep(t) /\ CountsKeep(t)
    BY <1>1 DEF Does
  <2>1. \A p \in Procs : sig'[p]["term"] = "no"
    BY <1>0, <2>0 DEF CountsKeep
  <2>2. Untroubled(t)'
    BY <1>0, <2>0, UntroubledMoves
  <2>3. ASSUME NEW s \in Threads, s # t PROVE Untroubled(s)'
    <3>1. ~Telling(t)
      BY <1>0 DEF Telling, Untroubled
    <3>2. pc'[s] = pc[s] /\ res'[s] = res[s] /\ action'[s] = action[s] /\ Untroubled(s)
      BY <1>0, <2>0, <2>3, <3>1 DEF OthersKeep
    <3> QED
      BY <3>2 DEF Untroubled
  <2>4. Funded'
    BY <1>0, <1>1, FundedDeals
  <2>5. Emptied'
    BY <1>0, <1>1, <2>0, EmptiedDeals
  <2>6. Attended'
    BY <1>0, <1>1, AttendedDeals
  <2>7. Cared'
    BY <1>0, <1>1, CaredDeals
  <2> QED
    BY <2>1, <2>2, <2>3, <2>4, <2>5, <2>6, <2>7 DEF Careful
<1>2. CASE Still
  <2>1. UNCHANGED <<nit, targets, number, pc, action, res, proc, sig>> /\ \A t \in Threads : InHand(t)' = InHand(t)
    BY <1>2, StillInHand DEF Still
  <2>2. \A t \in Threads : Untroubled(t)'
    BY <1>0, <2>1 DEF Untroubled
  <2>3. Funded' /\ Emptied'
    BY <1>0, <2>1 DEF Funded, Emptied
  <2>4. Attended'
    BY <1>0, <2>1 DEF Attended, Attends, Mine
  <2>5. Cared'
    BY <1>0, <2>1 DEF Cared, Cares
  <2> QED
    BY <1>0, <2>1, <2>2, <2>3, <2>4, <2>5 DEF Careful
<1> QED
  BY <1>1, <1>2, NextDeals

\* Owned: while no signal comes, nobody dies and nothing fails, a url is marked only
\* as long as a thread that runs has it in hand or among its targets.
THEOREM NoMarkLeft == Spec => []Owned
<1>1. Init => Typed /\ PInv /\ OInv
  BY TypedInit, InitPInv, InitOInv
<1>2. (Typed /\ PInv /\ OInv) /\ [Next]_vars => (Typed /\ PInv /\ OInv)'
  BY TypedStep, NextPInv, NextOInv
<1>3. OInv => Owned
  BY DEF OInv, Calm, Careful, Cared, Cares, Owned
<1> QED
  BY <1>1, <1>2, <1>3, PTL DEF Spec

-----------------------------------------------------------------------------
(* Nothing that is due is left. *)

\* One thread in each process, no bound on the documents, and every thread can start.
Solo == (\A s, t \in Threads : s # t => proc[s] # proc[t]) /\ Calm /\ Without({"open", "limit"})

\* The rows that are due, and those that a document may still lead to.
Fresh   == {u \in Urls : nit[u] = "due" \/ (nit[u] = "none" /\ u \notin Forbidden)}
Todo(p) == Fresh \cup targets[p]

\* Every row is handed out once by a process at most: url_number is enough for what it may still get.
Enough == \A p \in Procs : number[p] >= 0 => Cardinality(Todo(p)) <= number[p]

\* Who has not been told that there is nothing left looks once more.
Hopeful == (\E u \in Urls : nit[u] = "due") => \E t \in Threads : number[proc[t]] > 0

Spent(t) ==
    /\ pc[t] \in Gone => number[proc[t]] <= 0
    /\ pc[t] \in {"work", "flush"} => number[proc[t]] >= 0

\* Targets are marked before they are handed out.
Taken(t) == pc[t] # "mark" => targets[proc[t]] \cap Fresh = {}

Thorough == Enough /\ Hopeful /\ \A t \in Threads : Spent(t) /\ Taken(t)

NInv == Solo => Thorough

LEMMA TodoFinite ==
    ASSUME Typed, NEW p \in Procs
    PROVE  IsFiniteSet(Todo(p)) /\ Cardinality(Todo(p)) \in Nat
<1>1. Todo(p) \subseteq Urls
  BY DEF Typed, TypeOK, Todo, Fresh
<1> QED
  BY <1>1, IndexerAssumption, FS_Subset, FS_CardinalityType

LEMMA InitNInv ==
    ASSUME Threads # {}, MaxDocs["all"] >= Cardinality(Urls)
    PROVE  Init => NInv
<1> SUFFICES ASSUME Init, Solo PROVE Thorough
  BY DEF NInv
<1>1. Limit = MaxDocs["all"] /\ Limit \in Nat /\ Limit > 0
  BY IndexerAssumption DEF Solo, Without, Limit
<1>2. (\A p \in Procs : number[p] = Limit /\ targets[p] = {}) /\ \A t \in Threads : proc[t] \in Procs
  BY DEF Init
<1>3. Enough
  <2>1. ASSUME NEW p \in Procs PROVE Cardinality(Todo(p)) <= Cardinality(Urls) /\ Cardinality(Todo(p)) \in Nat
    <3>1. Todo(p) \subseteq Urls
      BY <1>2 DEF Todo, Fresh
    <3> QED
      BY <3>1, IndexerAssumption, FS_Subset, FS_CardinalityType
  <2>2. Cardinality(Urls) \in Nat
    BY IndexerAssumption, FS_CardinalityType
  <2> QED
    BY <1>1, <1>2, <2>1, <2>2 DEF Enough
<1>4. Hopeful
  BY <1>1, <1>2 DEF Hopeful
<1>5. \A t \in Threads : Spent(t) /\ Taken(t)
  BY <1>2 DEF Init, Spent, Taken, Gone
<1> QED
  BY <1>3, <1>4, <1>5 DEF Thorough

\* Nothing becomes fresh: a document is found and indexed once.
LEMMA FreshDeals ==
    ASSUME Typed, NEW t \in Threads, Deals(t)
    PROVE  /\ Fresh' \subseteq Fresh
           /\ \A u \in Urls : nit'[u] = "due" => nit[u] = "due" \/ (Finds(t) /\ u \in Fresh)
<1>1. CASE Rests(t) \/ Dries(t) \/ Selects(t)
  BY <1>1 DEF Rests, Dries, Selects, Fresh
<1>2. CASE Hands(t)
  BY <1>2 DEF Hands, Marked, Fresh
<1>3. CASE Finds(t)
  BY <1>3 DEF Finds, Marked, Fresh
<1>4. CASE Writes(t)
  BY <1>4 DEF Writes, Updated, Fresh
<1> QED
  BY <1>1, <1>2, <1>3, <1>4 DEF Deals

\* A target that is handed out is not fresh any more.
LEMMA HandedOut ==
    ASSUME Typed, NEW t \in Threads, Hands(t), Taken(t)
    PROVE  targets[proc[t]] \cap Fresh' = {}
<1>1. targets[proc[t]] \subseteq Urls
  BY DEF Typed, TypeOK
<1>2. CASE pc[t] = "mark"
  BY <1>1, <1>2 DEF Hands, Marked, Fresh
<1>3. CASE pc[t] # "mark"
  BY <1>3 DEF Hands, Fresh, Taken
<1> QED
  BY <1>2, <1>3

LEMMA EnoughDeals ==
    ASSUME Typed, Typed', Enough, NEW t \in Threads, Deals(t), Taken(t)
    PROVE  Enough'
<1> DEFINE p == proc[t]
<1>0. /\ p \in Procs /\ targets \in [Procs -> SUBSET Urls] /\ number \in [Procs -> Int] /\ Fresh' \subseteq Fresh
  BY FreshDeals DEF Typed, TypeOK
<1>1. ASSUME NEW q \in Procs, Todo(q)' \subseteq Todo(q), number'[q] = number[q], number'[q] >= 0
      PROVE  Cardinality(Todo(q)') <= number'[q]
  <2>1. Cardinality(Todo(q)') <= Cardinality(Todo(q)) /\ Cardinality(Todo(q)') \in Nat /\ Cardinality(Todo(q)) \in Nat
    BY <1>1, TodoFinite, FS_Subset, FS_CardinalityType
  <2>2. Cardinality(Todo(q)) <= number[q] /\ number[q] \in Int
    BY <1>0, <1>1 DEF Enough
  <2> QED
    BY <1>1, <2>1, <2>2
<1>2. CASE Rests(t) \/ Finds(t) \/ Writes(t)
  <2>1. targets' = targets /\ number' = number
    BY <1>2 DEF Rests, Finds, Writes
  <2>2. \A q \in Procs : Todo(q)' \subseteq Todo(q)
    BY <1>0, <2>1 DEF Todo
  <2> QED
    BY <1>1, <2>1, <2>2 DEF Enough
<1>3. CASE Dries(t)
  <2>1. targets' = targets /\ number'[p] = -1 /\ \A q \in Procs : q # p => number'[q] = number[q]
    BY <1>0, <1>3 DEF Dries
  <2>2. \A q \in Procs : Todo(q)' \subseteq Todo(q)
    BY <1>0, <2>1 DEF Todo
  <2>3. ~(number'[p] >= 0)
    BY <2>1
  <2> QED
    BY <1>1, <2>1, <2>2, <2>3 DEF Enough
<1>4. CASE Selects(t)
  <2>1. number' = number /\ \A q \in Procs : targets'[q] \subseteq targets[q] \cup Fresh
    BY <1>0, <1>4 DEF Selects, Fresh
  <2>2. \A q \in Procs : Todo(q)' \subseteq Todo(q)
    BY <1>0, <2>1 DEF Todo
  <2> QED
    BY <1>1, <2>1, <2>2 DEF Enough
<1>5. CASE Hands(t)
  <2>1. PICK u \in targets[p] : targets' = [targets EXCEPT ![p] = @ \ {u}]
    BY <1>5 DEF Hands
  <2>2. number' = [number EXCEPT ![p] = @ - 1]
    BY <1>5 DEF Hands
  <2>3. u \notin Fresh'
    BY <1>5, <2>1, HandedOut
  <2>4. ASSUME NEW q \in Procs, q # p, number'[q] >= 0 PROVE Cardinality(Todo(q)') <= number'[q]
    <3>1. targets'[q] = targets[q] /\ number'[q] = number[q]
      BY <1>0, <2>1, <2>2, <2>4
    <3>2. Todo(q)' \subseteq Todo(q)
      BY <1>0, <3>1 DEF Todo
    <3> QED
      BY <1>1, <2>4, <3>1, <3>2
  <2>5. ASSUME NEW q \in Procs, q = p, number'[q] >= 0 PROVE Cardinality(Todo(q)') <= number'[q]
    <3>1. targets'[q] = targets[q] \ {u} /\ number'[q] = number[q] - 1 /\ number[q] \in Int
      BY <1>0, <2>1, <2>2, <2>5
    <3>2. u \in Todo(q) /\ IsFiniteSet(Todo(q)) /\ Cardinality(Todo(q)) \in Nat
      BY <1>0, <2>1, <2>5, TodoFinite DEF Todo
    <3>3. Todo(q)' \subseteq Todo(q) \ {u}
      BY <1>0, <2>3, <3>1 DEF Todo
    <3>4. Cardinality(Todo(q) \ {u}) = Cardinality(Todo(q)) - 1 /\ IsFiniteSet(Todo(q) \ {u})
      BY <3>2, FS_RemoveElement
    <3>5. Cardinality(Todo(q)') <= Cardinality(Todo(q) \ {u})
      BY <3>3, <3>4, FS_Subset
    <3>6. Cardinality(Todo(q)') \in Nat
      BY <3>3, <3>4, FS_Subset, FS_CardinalityType
    <3>7. Cardinality(Todo(q)) <= number[q]
      BY <1>0, <2>5, <3>1 DEF Enough
    <3> QED
      BY <3>1, <3>2, <3>4, <3>5, <3>6, <3>7
  <2> QED
    BY <2>4, <2>5 DEF Enough
<1> QED
  BY <1>2, <1>3, <1>4, <1>5 DEF Deals

LEMMA HopefulDeals ==
    ASSUME Typed, Typed', Enough', Hopeful, NEW t \in Threads, Deals(t), Spent(t), Enough, proc' = proc
    PROVE  Hopeful'
<1>0. /\ number \in [Procs -> Int] /\ \A s \in Threads : proc[s] \in Procs
  BY DEF Typed, TypeOK
<1> SUFFICES ASSUME NEW u \in Urls, nit'[u] = "due" PROVE \E s \in Threads : number'[proc[s]] > 0
  BY DEF Hopeful
<1>1. nit[u] = "due" \/ (Finds(t) /\ u \in Fresh)
  BY FreshDeals
<1>2. CASE Rests(t) \/ Selects(t) \/ Writes(t)
  <2>1. number' = number /\ nit[u] = "due"
    BY <1>1, <1>2 DEF Rests, Selects, Writes, Updated
  <2> QED
    BY <2>1 DEF Hopeful
<1>3. CASE Dries(t)
  BY <1>1, <1>3 DEF Dries
<1>4. CASE Finds(t)
  <2>1. number' = number /\ pc[t] = "work"
    BY <1>4 DEF Finds
  <2>2. CASE nit[u] = "due"
    BY <2>1, <2>2 DEF Hopeful
  <2>3. CASE u \in Fresh
    <3>1. number[proc[t]] >= 0 /\ number[proc[t]] \in Int
      BY <1>0, <2>1 DEF Spent
    <3>2. Cardinality(Todo(proc[t])) <= number[proc[t]]
      BY <1>0, <3>1 DEF Enough
    <3>3. IsFiniteSet(Todo(proc[t])) /\ Cardinality(Todo(proc[t])) \in Nat /\ Todo(proc[t]) # {}
      BY <1>0, <2>3, TodoFinite DEF Todo
    <3>4. Cardinality(Todo(proc[t])) # 0
      BY <3>3, FS_EmptySet
    <3> QED
      BY <2>1, <3>1, <3>2, <3>3, <3>4
  <2> QED
    BY <1>1, <2>2, <2>3
<1>5. CASE Hands(t)
  <2>1. nit[u] = "due" /\ number' = [number EXCEPT ![proc[t]] = @ - 1]
    BY <1>1, <1>5 DEF Hands, Marked
  <2>2. PICK s \in Threads : number[proc[s]] > 0
    BY <2>1 DEF Hopeful
  <2>3. PICK q \in Procs : q = proc[s]
    BY <1>0
  <2>4. number'[q] \in Int /\ number'[q] >= 0
    BY <1>0, <2>1, <2>2, <2>3
  <2>5. Cardinality(Todo(q)') <= number'[q]
    BY <2>4 DEF Enough
  <2>6. IsFiniteSet(Todo(q)') /\ Cardinality(Todo(q)') \in Nat
    <3>1. Todo(q)' \subseteq Urls
      BY DEF Typed, TypeOK, Todo, Fresh
    <3> QED
      BY <3>1, IndexerAssumption, FS_Subset, FS_CardinalityType
  <2>7. Todo(q)' # {}
    BY DEF Todo, Fresh
  <2>8. Cardinality(Todo(q)') # 0
    BY <2>6, <2>7, FS_EmptySet
  <2>9. number'[q] > 0
    BY <2>4, <2>5, <2>6, <2>8
  <2> QED
    BY <2>3, <2>9
<1> QED
  BY <1>2, <1>3, <1>4, <1>5 DEF Deals

LEMMA SpentMoves ==
    ASSUME Typed, Funded, NEW t \in Threads, Does(t), Deals(t), Spent(t), Untroubled(t), Unreloaded(t),
           ~May("open"), ~May("mark")
    PROVE  Spent(t)'
<1> DEFINE p == proc[t]
<1>0. /\ Moves(t) /\ proc' = proc /\ p \in Procs /\ number \in [Procs -> Int]
  BY DEF Does, CountsKeep, Typed, TypeOK
<1>1. number'[p] <= number[p] /\ number[p] \in Int /\ number'[p] \in Int
  <2>1. number'[p] <= number[p] /\ number[p] \in Int
    BY <1>0 DEF Does, CountsKeep
  <2>2. number'[p] \in {number[p], -1, number[p] - 1}
    BY <1>0 DEF Deals, Rests, Dries, Selects, Hands, Finds, Writes
  <2> QED
    BY <2>1, <2>2
<1>2. ASSUME pc'[t] \in Gone PROVE number'[p] <= 0
  <2>1. pc[t] \in {"last", "end", "leave"}
    BY <1>0, <1>2 DEF Moves, Walks, Looks, Comes, Gets, Acts, Turns, Goes, Untroubled, Gone
  <2>2. number[p] <= 0
    BY <2>1 DEF Spent, Gone, Untroubled, Unreloaded
  <2> QED
    BY <1>1, <2>2
<1>3. ASSUME pc'[t] \in {"work", "flush"} PROVE number'[p] >= 0
  <2>1. CASE Gets(t)
    <3>1. CASE pc[t] = "next"
      BY <1>1, <2>1, <3>1 DEF Gets
    <3>2. CASE pc[t] = "mark"
      <4>1. Hands(t)
        BY <3>2 DEF Deals, Rests, Dries, Selects, Finds, Writes
      <4>2. targets[p] # {}
        BY <4>1 DEF Hands
      <4>3. number[p] > 0
        BY <1>0, <1>1, <4>2, SpentEmpty
      <4> QED
        BY <1>1, <2>1, <4>3 DEF Gets
    <3> QED
      BY <2>1, <3>1, <3>2 DEF Gets
  <2>2. CASE Walks(t)
    BY <1>3, <2>2 DEF Walks, Goes, Spent
  <2>3. CASE Looks(t) \/ Comes(t) \/ Acts(t) \/ Turns(t)
    BY <1>3, <2>3 DEF Looks, Comes, Acts, Turns, Goes, Untroubled
  <2> QED
    BY <1>0, <2>1, <2>2, <2>3 DEF Moves
<1> QED
  BY <1>0, <1>2, <1>3 DEF Spent

LEMMA TakenDeals ==
    ASSUME Typed, NEW t \in Threads, Deals(t), Taken(t), proc' = proc
    PROVE  Taken(t)'
<1>0. proc[t] \in Procs /\ targets \in [Procs -> SUBSET Urls] /\ Fresh' \subseteq Fresh
  BY FreshDeals DEF Typed, TypeOK
<1>1. CASE Rests(t) \/ Dries(t) \/ Finds(t) \/ Writes(t)
  <2>1. targets' = targets /\ pc[t] # "mark"
    BY <1>1 DEF Rests, Dries, Finds, Writes
  <2> QED
    BY <1>0, <2>1 DEF Taken
<1>2. CASE Selects(t)
  BY <1>2 DEF Selects, Taken
<1>3. CASE Hands(t)
  <2>1. targets'[proc[t]] \subseteq targets[proc[t]]
    BY <1>0, <1>3 DEF Hands
  <2>2. targets[proc[t]] \cap Fresh' = {}
    BY <1>3, HandedOut
  <2> QED
    BY <2>1, <2>2 DEF Taken
<1> QED
  BY <1>1, <1>2, <1>3 DEF Deals

LEMMA NextNInv == Typed /\ PInv /\ OInv /\ NInv /\ [Next]_vars => NInv'
<1> SUFFICES ASSUME Typed, PInv, OInv, Solo, Thorough, [Next]_vars PROVE Thorough'
  BY Fixed DEF NInv, Solo, Calm, Without
<1>0. /\ Calm /\ Quiescent /\ Careful /\ Funded
      /\ (\A t \in Threads : Untroubled(t) /\ Unreloaded(t) /\ Spent(t) /\ Taken(t) /\ proc[t] \in Procs)
      /\ Enough /\ Hopeful /\ ~May("open") /\ ~May("mark")
      /\ \A s, t \in Threads : s # t => proc[s] # proc[t]
  BY DEF Solo, OInv, PInv, NoHup, Calm, Without, May, Careful, Quiescent, Thorough, Typed, TypeOK
<1>1. Typed'
  BY TypedStep
<1>2. ASSUME NEW t \in Threads, Does(t), Deals(t) PROVE Thorough'
  <2>0. OthersKeep(t) /\ CountsKeep(t) /\ proc' = proc
    BY <1>2 DEF Does, CountsKeep
  <2>1. Enough'
    BY <1>0, <1>1, <1>2, EnoughDeals
  <2>2. Hopeful'
    BY <1>0, <1>1, <1>2, <2>0, <2>1, HopefulDeals
  <2>3. Spent(t)'
    BY <1>0, <1>2, SpentMoves
  <2>4. Taken(t)'
    BY <1>0, <1>2, <2>0, TakenDeals
  <2>5. ASSUME NEW s \in Threads, s # t PROVE Spent(s)' /\ Taken(s)'
    <3>1. pc'[s] = pc[s] /\ number'[proc[s]] = number[proc[s]]
      BY <1>0, <2>0, <2>5 DEF OthersKeep, CountsKeep
    <3>2. targets'[proc[s]] = targets[proc[s]]
      <4>1. targets \in [Procs -> SUBSET Urls] /\ proc[s] # proc[t] /\ proc[s] \in Procs
        BY <1>0, <2>5 DEF Typed, TypeOK
      <4> QED
        BY <1>2, <4>1 DEF Deals, Rests, Dries, Selects, Hands, Finds, Writes
    <3>3. Fresh' \subseteq Fresh
      BY <1>2, FreshDeals
    <3> QED
      BY <1>0, <2>0, <3>1, <3>2, <3>3 DEF Spent, Taken
  <2> QED
    BY <2>1, <2>2, <2>3, <2>4, <2>5 DEF Thorough
<1>3. CASE Still
  <2>1. UNCHANGED <<nit, targets, number, pc, proc>>
    BY <1>3 DEF Still
  <2>2. \A p \in Procs : Todo(p)' = Todo(p)
    BY <2>1 DEF Todo, Fresh
  <2>3. Enough' /\ Hopeful'
    BY <1>0, <2>1, <2>2 DEF Enough, Hopeful
  <2>4. \A t \in Threads : Spent(t)' /\ Taken(t)'
    BY <1>0, <2>1 DEF Spent, Taken, Fresh
  <2> QED
    BY <2>3, <2>4 DEF Thorough
<1> QED
  BY <1>0, <1>2, <1>3, NextDeals

\* NothingLeft: indexers of one thread each, on however many rows and with whatever
\* selections, leave none that is due if -n is not given: without it url_number is
\* 0x7FFFFFFF, more than the table has rows.
THEOREM AllIndexed ==
    ASSUME Threads # {}, MaxDocs["all"] >= Cardinality(Urls)
    PROVE  Spec => []NothingLeft
<1>1. Init => Typed /\ PInv /\ OInv /\ NInv
  BY TypedInit, InitPInv, InitOInv, InitNInv
<1>2. (Typed /\ PInv /\ OInv /\ NInv) /\ [Next]_vars => (Typed /\ PInv /\ OInv /\ NInv)'
  BY TypedStep, NextPInv, NextOInv, NextNInv
<1>3. Typed /\ OInv /\ NInv => NothingLeft
  <2> SUFFICES ASSUME Typed, OInv, NInv, Solo, \A t \in Threads : pc[t] = "ended", NEW u \in Urls
               PROVE  nit[u] \in {"none", "later"}
    BY DEF NothingLeft, Solo, Calm, Without
  <2>1. nit[u] \in {"none", "due", "held", "later"}
    BY DEF Typed, TypeOK
  <2>2. nit[u] # "held"
    BY DEF OInv, Solo, Careful, Cared, Cares
  <2>3. nit[u] # "due"
    <3>1. ASSUME NEW t \in Threads PROVE ~(number[proc[t]] > 0)
      <4>1. number[proc[t]] <= 0 /\ number[proc[t]] \in Int
        BY DEF NInv, Thorough, Spent, Gone, Typed, TypeOK
      <4> QED
        BY <4>1
    <3> QED
      BY <3>1 DEF NInv, Thorough, Hopeful
  <2> QED
    BY <2>1, <2>2, <2>3
<1> QED
  BY <1>1, <1>2, <1>3, PTL DEF Spec
=============================================================================
