---------------------------- MODULE SearchdProofs ----------------------------
(* Proofs about Searchd, for every number of pids, slots and values of        *)
(* MaxClients, and for all surroundings.                                      *)
EXTENDS Searchd, FiniteSetTheorems, TLAPS

\* Every child that lives is in the table, below MaxClients while the parent
\* serves, or is the one that fork() has just returned.
Known ==
    \A p \in Pids : Living(p) =>
        \/ \E i \in Slots : Children[i] = p /\ (Serving => i <= MaxClients)
        \/ ppc = "store" /\ fresh = p

\* The slot a child was forked for is still empty when its pid is stored.
ForItsSlot == ppc = "store" => slot <= MaxClients /\ Children[slot] = NoPid

IInv == TypeOK /\ Known /\ ForItsSlot /\ OneGeneration

\* What the actions of a child leave alone: the parent, but for its flag.
Aside == UNCHANGED <<env, ppc, leave, slot, fresh, term, MaxClients, Children>> /\ hup' \in BOOLEAN

\* What they do to the processes: they go on in their generation or end.
Onward == \A p \in Pids : Living(p)' => Living(p) /\ (ps[p].old = ps'[p].old)

\* A child that becomes something else keeps its generation.
LEMMA BecomeOnward ==
    ASSUME TypeOK, NEW q \in Pids, Living(q),
           NEW s \in {"start", "wait", "select", "serve", "zombie"}, Become(q, s)
    PROVE  Onward /\ ps' \in [Pids -> [st : {"free", "start", "wait", "select", "serve", "zombie"},
                                      old : BOOLEAN, hup : BOOLEAN, term : BOOLEAN]]
BY DEF TypeOK, Become, Onward, Living

\* A child that ends is not alive.
LEMMA EndOnward ==
    ASSUME TypeOK, NEW q \in Pids, End(q)
    PROVE  Onward /\ ps' \in [Pids -> [st : {"free", "start", "wait", "select", "serve", "zombie"},
                                      old : BOOLEAN, hup : BOOLEAN, term : BOOLEAN]]
BY DEF TypeOK, End, Ended, NoProc, Born, Onward, Living

\* A step that leaves the table alone and only lets children go on or end
\* preserves the invariant.
LEMMA AsideKeeps ==
    ASSUME IInv, Aside, Onward,
           mutex' \in [{"new", "old"} -> Pids \cup {NoPid}],
           ps' \in [Pids -> [st : {"free", "start", "wait", "select", "serve", "zombie"},
                             old : BOOLEAN, hup : BOOLEAN, term : BOOLEAN]]
    PROVE  IInv'
<1>1. TypeOK'
  BY DEF IInv, TypeOK, Aside
<1>2. Known'
  <2> SUFFICES ASSUME NEW p \in Pids, Living(p)'
               PROVE  \/ \E i \in Slots : Children'[i] = p /\ (Serving' => i <= MaxClients')
                      \/ ppc' = "store" /\ fresh' = p
    BY DEF Known
  <2>1. Living(p)
    BY DEF Onward
  <2>2. QED
    BY <2>1 DEF IInv, Known, Aside, Serving
<1>3. ForItsSlot'
  BY DEF IInv, ForItsSlot, Aside
<1>4. OneGeneration'
  BY DEF IInv, OneGeneration, Onward, Aside, Serving
<1>5. QED
  BY <1>1, <1>2, <1>3, <1>4 DEF IInv

\* The steps of a child.
LEMMA ChildKeeps ==
    ASSUME IInv, NEW p \in Pids,
           Start(p) \/ Lock(p) \/ Selected(p) \/ Served(p) \/ Alarm(p) \/ HupChild(p)
    PROVE  IInv'
<1> USE DEF IInv
<1>t. TypeOK
  OBVIOUS
<1>1. CASE Start(p)
  <2>1. Aside /\ mutex' \in [{"new", "old"} -> Pids \cup {NoPid}]
    BY <1>1, <1>t DEF Start, Aside, parent, TypeOK
  <2>2. CASE Become(p, "wait")
    BY <1>1, <1>t, <2>1, <2>2, BecomeOnward, AsideKeeps DEF Start, Living
  <2>3. CASE End(p)
    BY <1>t, <2>1, <2>3, EndOnward, AsideKeeps
  <2>4. QED
    BY <1>1, <2>2, <2>3 DEF Start
<1>2. CASE Lock(p)
  <2>1. Aside /\ mutex' \in [{"new", "old"} -> Pids \cup {NoPid}]
    BY <1>2, <1>t DEF Lock, Aside, parent, TypeOK, Gen
  <2>2. QED
    BY <1>2, <1>t, <2>1, BecomeOnward, AsideKeeps DEF Lock, Living
<1>3. CASE Selected(p)
  <2>1. Aside /\ mutex' \in [{"new", "old"} -> Pids \cup {NoPid}]
    BY <1>3, <1>t DEF Selected, Aside, TypeOK, TellParent, Gen
  <2>2. CASE Become(p, "wait") \/ Become(p, "serve")
    BY <1>3, <1>t, <2>1, <2>2, BecomeOnward, AsideKeeps DEF Selected, Living
  <2>3. CASE End(p)
    BY <1>t, <2>1, <2>3, EndOnward, AsideKeeps
  <2>4. QED
    BY <1>3, <2>2, <2>3 DEF Selected
<1>4. CASE Served(p)
  <2>1. Aside /\ mutex' \in [{"new", "old"} -> Pids \cup {NoPid}]
    BY <1>4, <1>t DEF Served, Aside, parent, TypeOK
  <2>2. QED
    BY <1>4, <1>t, <2>1, BecomeOnward, AsideKeeps DEF Served, Living
<1>5. CASE Alarm(p)
  <2>1. Aside /\ mutex' \in [{"new", "old"} -> Pids \cup {NoPid}]
    BY <1>5, <1>t DEF Alarm, Aside, parent, TypeOK
  <2>2. QED
    BY <1>5, <1>t, <2>1, EndOnward, AsideKeeps DEF Alarm
<1>6. CASE HupChild(p)
  <2>1. Aside /\ mutex' \in [{"new", "old"} -> Pids \cup {NoPid}]
    BY <1>6, <1>t DEF HupChild, Aside, parent, TypeOK
  <2>2. Onward /\ ps' \in [Pids -> [st : {"free", "start", "wait", "select", "serve", "zombie"},
                                   old : BOOLEAN, hup : BOOLEAN, term : BOOLEAN]]
    BY <1>6, <1>t DEF HupChild, Onward, Living, TypeOK
  <2>3. QED
    BY <2>1, <2>2, AsideKeeps
<1>7. QED
  BY <1>1, <1>2, <1>3, <1>4, <1>5, <1>6

\* The loop over the slots.
LEMMA FillKeeps ==
    ASSUME IInv, Fork \/ ForkFails \/ Store \/ Skip \/ Filled \/ Look \/ Hup \/ Term \/ Fail
    PROVE  IInv'
<1> USE SearchdAssumption DEF IInv, Serving, Slots
<1>1. CASE Fork
  <2>1. PICK q \in Pids : /\ ps[q].st = "free"
                          /\ fresh' = q
                          /\ ps' = [ps EXCEPT ![q] = Born(hup, term)]
    BY <1>1 DEF Fork
  <2>2. TypeOK'
    BY <1>1, <2>1 DEF Fork, TypeOK, Born
  <2>3. Known'
    BY <1>1, <2>1 DEF Fork, TypeOK, Known, Living, Born
  <2>4. ForItsSlot'
    BY <1>1 DEF Fork, ForItsSlot
  <2>5. OneGeneration'
    BY <1>1, <2>1 DEF Fork, TypeOK, OneGeneration, Living, Born
  <2>6. QED
    BY <2>2, <2>3, <2>4, <2>5
<1>2. CASE Store
  <2>1. slot \in 1..Limit /\ slot <= MaxClients /\ Children[slot] = NoPid
    BY <1>2 DEF Store, ForItsSlot, TypeOK
  <2>2. TypeOK'
    BY <1>2, <2>1 DEF Store, TypeOK
  <2>3. Known'
    BY <1>2, <2>1 DEF Store, TypeOK, Known, Living
  <2>4. QED
    BY <1>2, <2>2, <2>3 DEF Store, ForItsSlot, OneGeneration, Living
<1>3. CASE Skip \/ ForkFails
  <2>1. slot \in 1..Limit
    BY <1>3 DEF Skip, ForkFails, TypeOK
  <2>2. TypeOK'
    BY <1>3, <2>1 DEF Skip, ForkFails, TypeOK
  <2>3. QED
    BY <1>3, <2>2 DEF Skip, ForkFails, Known, ForItsSlot, OneGeneration, Living
<1>4. CASE Filled
  <2>1. ppc' \in {"sleep", "load", "exit"}
    BY <1>4 DEF Filled, TypeOK
  <2>2. TypeOK'
    BY <1>4, <2>1 DEF Filled, TypeOK
  <2>3. QED
    BY <1>4, <2>1, <2>2 DEF Filled, Known, ForItsSlot, OneGeneration, Living
<1>5. CASE Look
  <2>1. TypeOK'
    <3>1. leave' \in {"stay", "reload", "exit"} /\ 1 \in 1..(Limit + 1)
      BY <1>5 DEF Look, TypeOK
    <3>2. QED
      BY <1>5, <3>1 DEF Look, TypeOK
  <2>2. QED
    BY <1>5, <2>1 DEF Look, Known, ForItsSlot, OneGeneration, Living
<1>6. CASE Hup \/ Term
  <2>1. TypeOK'
    BY <1>6 DEF Hup, Term, TypeOK
  <2>2. QED
    BY <1>6, <2>1 DEF Hup, Term, Known, ForItsSlot, OneGeneration, Living
<1>7. CASE Fail
  <2>1. TypeOK'
    BY <1>7 DEF Fail, TypeOK
  <2>2. QED
    BY <1>7, <2>1 DEF Fail, Known, ForItsSlot, OneGeneration, Living
<1>8. QED
  BY <1>1, <1>2, <1>3, <1>4, <1>5, <1>6, <1>7

\* SIGCHLD clears the slots of processes that have ended, and no others.
LEMMA ReapKeeps ==
    ASSUME IInv, Reap
    PROVE  IInv'
<1> USE SearchdAssumption DEF IInv, Serving, Slots
<1>1. \A p \in Pids : Living(p)' => Living(p) /\ ps'[p] = ps[p]
  BY DEF Reap, Living, NoProc, Born, TypeOK
<1>2. \A p \in Pids, i \in Slots : Living(p) /\ Children[i] = p => Children'[i] = p
  BY DEF Reap, Living, TypeOK
<1>3. \A i \in Slots : Children[i] = NoPid => Children'[i] = NoPid
  BY DEF Reap, TypeOK
<1>4. TypeOK'
  BY DEF Reap, TypeOK, NoProc, Born
<1>5. Known'
  <2> SUFFICES ASSUME NEW p \in Pids, Living(p)'
               PROVE  \/ \E i \in Slots : Children'[i] = p /\ (Serving' => i <= MaxClients')
                      \/ ppc' = "store" /\ fresh' = p
    BY DEF Known
  <2>1. Living(p)
    BY <1>1
  <2>2. CASE ppc = "store" /\ fresh = p
    BY <2>2 DEF Reap
  <2>3. CASE \E i \in Slots : Children[i] = p /\ (Serving => i <= MaxClients)
    BY <1>2, <2>1, <2>3 DEF Reap
  <2>4. QED
    BY <2>1, <2>2, <2>3 DEF Known
<1>6. ForItsSlot'
  BY <1>3 DEF Reap, ForItsSlot, TypeOK
<1>7. OneGeneration'
  BY <1>1 DEF Reap, OneGeneration
<1>8. QED
  BY <1>4, <1>5, <1>6, <1>7

\* A reload: the processes of all slots are killed, and those are all that live.
LEMMA ReloadKeeps ==
    ASSUME IInv, Load \/ TermAll \/ KillAll \/ Stop
    PROVE  IInv'
<1> USE SearchdAssumption DEF IInv, Serving, Slots
<1>1. CASE Load
  <2>1. MaxClients' \in 0..Limit
    BY <1>1 DEF Load, NextSizes, Capped
  <2>2. TypeOK'
    <3>1. ps' \in [Pids -> [st : {"free", "start", "wait", "select", "serve", "zombie"},
                            old : BOOLEAN, hup : BOOLEAN, term : BOOLEAN]]
      <4>1. \A p \in Pids : Living(p) \in BOOLEAN
        BY DEF Living
      <4>2. \A p \in Pids : [ps[p] EXCEPT !.old = Living(p)] \in
              [st : {"free", "start", "wait", "select", "serve", "zombie"},
               old : BOOLEAN, hup : BOOLEAN, term : BOOLEAN]
        BY <4>1 DEF TypeOK
      <4>3. QED
        BY <1>1, <4>2 DEF Load
    <3>2. mutex' \in [{"new", "old"} -> Pids \cup {NoPid}]
      BY <1>1 DEF Load, TypeOK
    <3>3. QED
      BY <1>1, <2>1, <3>1, <3>2 DEF Load, TypeOK
  <2>3. QED
    BY <1>1, <2>2 DEF Load, Known, ForItsSlot, OneGeneration, Living, TypeOK
<1>2. CASE TermAll \/ Stop
  <2>1. TypeOK'
    <3>1. ps' = Terminated(Slots) \/ ps' = Terminated(1..MaxClients)
      BY <1>2 DEF TermAll, Stop
    <3>2. ps' \in [Pids -> [st : {"free", "start", "wait", "select", "serve", "zombie"},
                            old : BOOLEAN, hup : BOOLEAN, term : BOOLEAN]]
      <4>1. \A p \in Pids : [ps[p] EXCEPT !.term = TRUE] \in
              [st : {"free", "start", "wait", "select", "serve", "zombie"},
               old : BOOLEAN, hup : BOOLEAN, term : BOOLEAN]
        BY DEF TypeOK
      <4>2. QED
        BY <3>1, <4>1 DEF Terminated, TypeOK
    <3>3. QED
      BY <1>2, <3>2 DEF TermAll, Stop, TypeOK
  <2>2. \A p \in Pids : Living(p)' => Living(p)
    BY <1>2 DEF TermAll, Stop, Terminated, Living, TypeOK
  <2>3. QED
    BY <1>2, <2>1, <2>2 DEF TermAll, Stop, Known, ForItsSlot, OneGeneration
<1>3. CASE KillAll
  <2>1. TypeOK'
    <3>1. ps' \in [Pids -> [st : {"free", "start", "wait", "select", "serve", "zombie"},
                            old : BOOLEAN, hup : BOOLEAN, term : BOOLEAN]]
      BY <1>3 DEF KillAll, TypeOK, Ended, NoProc, Born
    <3>2. 1 \in 1..(Limit + 1)
      OBVIOUS
    <3>3. QED
      BY <1>3, <3>1, <3>2 DEF KillAll, TypeOK
  <2>2. \A p \in Pids : ~Living(p)'
    BY <1>3 DEF KillAll, TypeOK, Known, Living, Ended, NoProc, Born
  <2>3. QED
    BY <1>3, <2>1, <2>2 DEF KillAll, Known, ForItsSlot, OneGeneration
<1>4. QED
  BY <1>1, <1>2, <1>3

\* The invariant is inductive.
THEOREM Invariant == Spec => []IInv
<1>1. Init => IInv
  <2> SUFFICES ASSUME Init
               PROVE  IInv
    OBVIOUS
  <2>1. ps \in [Pids -> [st : {"free", "start", "wait", "select", "serve", "zombie"},
                         old : BOOLEAN, hup : BOOLEAN, term : BOOLEAN]]
    BY DEF Init, NoProc, Born
  <2>2. MaxClients \in 0..Limit /\ 1 \in 1..(Limit + 1)
    BY SearchdAssumption DEF Init, Capped
  <2>3. TypeOK
    <3>1. mutex \in [{"new", "old"} -> Pids \cup {NoPid}]
      BY DEF Init
    <3>2. Children \in [Slots -> Pids \cup {NoPid}]
      BY DEF Init
    <3>3. QED
      BY <2>1, <2>2, <3>1, <3>2 DEF Init, TypeOK
  <2>4. \A p \in Pids : ~Living(p)
    BY DEF Init, Living, NoProc, Born
  <2>5. QED
    BY <2>3, <2>4 DEF Init, IInv, Known, ForItsSlot, OneGeneration
<1>2. IInv /\ [Next]_vars => IInv'
  <2> SUFFICES ASSUME IInv, [Next]_vars
               PROVE  IInv'
    OBVIOUS
  <2>1. CASE Parent
    BY <2>1, FillKeeps, ReloadKeeps DEF Parent
  <2>2. CASE Reap
    BY <2>2, ReapKeeps
  <2>3. CASE Disturb
    BY <2>3, FillKeeps, ChildKeeps DEF Disturb
  <2>4. CASE \E p \in Pids : Start(p) \/ Lock(p) \/ Selected(p) \/ Served(p) \/ Alarm(p)
    BY <2>4, ChildKeeps
  <2>5. CASE UNCHANGED vars
    BY <2>5 DEF vars, parent, IInv, TypeOK, Known, ForItsSlot, OneGeneration, Living, Serving, Slots
  <2>6. QED
    BY <2>1, <2>2, <2>3, <2>4, <2>5 DEF Next
<1>3. QED
  BY <1>1, <1>2, PTL DEF Spec

\* The table is not overrun, whatever MaxClients the configuration file has.
THEOREM TableTyped == Spec => []TypeOK
BY Invariant, PTL DEF IInv

\* No child of an older configuration lives when the parent serves again.
THEOREM NoOldChildren == Spec => []OneGeneration
BY Invariant, PTL DEF IInv

\* As many living children as pids in the slots below MaxClients.
LEMMA Counted ==
    ASSUME IInv
    PROVE  AtMost
<1> SUFFICES ASSUME Serving
             PROVE  Cardinality({p \in Pids : Living(p)}) <= MaxClients
  BY DEF AtMost
<1> DEFINE L == {p \in Pids : Living(p)}
           f[i \in 1..MaxClients] == IF ppc = "store" /\ i = slot THEN fresh ELSE Children[i]
           R == {f[i] : i \in 1..MaxClients}
<1>1. MaxClients \in Nat /\ 1..MaxClients \subseteq Slots
  BY SearchdAssumption DEF IInv, TypeOK, Slots
<1>2. IsFiniteSet(1..MaxClients) /\ Cardinality(1..MaxClients) = MaxClients
  BY <1>1, FS_Interval
<1>3. L \subseteq R
  <2> SUFFICES ASSUME NEW p \in Pids, Living(p)
               PROVE  \E i \in 1..MaxClients : f[i] = p
    OBVIOUS
  <2>1. CASE ppc = "store" /\ fresh = p
    <3>1. slot \in 1..MaxClients
      BY <2>1, <1>1 DEF IInv, ForItsSlot, TypeOK
    <3>2. QED
      BY <2>1, <3>1
  <2>2. CASE \E i \in Slots : Children[i] = p /\ (Serving => i <= MaxClients)
    <3>1. PICK i \in Slots : Children[i] = p /\ i <= MaxClients
      BY <2>2
    <3>2. i \in 1..MaxClients /\ p # NoPid
      BY <3>1, <1>1, SearchdAssumption DEF Slots
    <3>3. ~(ppc = "store" /\ i = slot)
      BY <3>1, <3>2 DEF IInv, ForItsSlot
    <3>4. QED
      BY <3>1, <3>2, <3>3
  <2>3. QED
    BY <2>1, <2>2 DEF IInv, Known
<1>4. IsFiniteSet(R) /\ Cardinality(R) <= MaxClients
  <2>1. f \in Surjection(1..MaxClients, R)
    BY DEF Surjection
  <2> HIDE DEF f, R
  <2>2. QED
    BY <1>2, <2>1, FS_Surjection
<1>5. Cardinality(L) <= Cardinality(R) /\ Cardinality(R) \in Nat /\ Cardinality(L) \in Nat
  BY <1>3, <1>4, FS_Subset, FS_CardinalityType
<1>6. QED
  BY <1>1, <1>4, <1>5

\* There are never more than MaxClients children.
THEOREM Bounded == Spec => []AtMost
BY Invariant, Counted, PTL

-----------------------------------------------------------------------------
(* The accept mutex. *)

\* Whoever is in select() holds the mutex of its generation, also when that is
\* the generation a reload is about to kill.
Holds == \A p \in Pids : ps[p].st = "select" => mutex[Gen(p)] = p

\* Between the new mutex and SIGKILL every child that lives is of the old
\* generation, and leaves the new mutex alone; before and after none is.
Turned ==
    IF ppc \in {"term", "kill"}
    THEN mutex.new = NoPid /\ \A p \in Pids : Living(p) => ps[p].old
    ELSE ppc # "failed" => \A p \in Pids : Living(p) => ~ps[p].old

HInv == MutexHeld /\ Holds /\ Turned

\* A step that leaves the mutex and the parent's place alone and neither moves
\* a child into select() or out of it nor changes its generation.
LEMMA QuietHolds ==
    ASSUME TypeOK, HInv, mutex' = mutex,
           ppc' = ppc \/ (ppc \notin {"term", "kill", "failed"} /\ ppc' \notin {"term", "kill"})
                      \/ (ppc = "term" /\ ppc' = "kill") \/ ppc' = "failed",
           \A p \in Pids : /\ ps'[p].st = "select" <=> ps[p].st = "select"
                           /\ ps[p].st = "select" => ps'[p].old = ps[p].old
                           /\ Living(p)' => (Living(p) /\ ps'[p].old = ps[p].old)
                                            \/ (~ps'[p].old /\ ppc \notin {"term", "kill"})
    PROVE  HInv'
<1>1. MutexHeld'
  BY DEF HInv, MutexHeld, TypeOK
<1>2. Holds'
  BY DEF HInv, Holds, Gen
<1>3. Turned'
  BY DEF HInv, Turned
<1>4. QED
  BY <1>1, <1>2, <1>3 DEF HInv

\* The steps of a child: it takes the mutex with select() and gives it back.
LEMMA ChildHolds ==
    ASSUME TypeOK, HInv, NEW p \in Pids,
           Start(p) \/ Lock(p) \/ Selected(p) \/ Served(p) \/ Alarm(p) \/ HupChild(p)
    PROVE  HInv'
<1>t. ps \in [Pids -> [st : {"free", "start", "wait", "select", "serve", "zombie"},
                       old : BOOLEAN, hup : BOOLEAN, term : BOOLEAN]]
  BY DEF TypeOK
<1>1. CASE Start(p) \/ Served(p) \/ Alarm(p) \/ HupChild(p)
  <2>1. mutex' = mutex /\ ppc' = ppc
    BY <1>1 DEF Start, Served, Alarm, HupChild, parent
  <2>2. CASE ps[p].st \in {"start", "serve"} /\ (Become(p, "wait") \/ End(p))
    <3>1. \A q \in Pids : q # p => ps'[q] = ps[q]
      BY <1>t, <2>2 DEF Become, End
    <3>2. \/ ps'[p].st = "wait" /\ ps'[p].old = ps[p].old
          \/ ps'[p].st = "zombie"
      BY <1>t, <2>2 DEF Become, End, Ended, NoProc, Born
    <3>3. \A q \in Pids : /\ ps'[q].st = "select" <=> ps[q].st = "select"
                          /\ ps[q].st = "select" => ps'[q].old = ps[q].old
                          /\ Living(q)' => Living(q) /\ ps'[q].old = ps[q].old
      BY <2>2, <3>1, <3>2 DEF Living
    <3>4. QED
      BY <2>1, <3>3, QuietHolds
  <2>3. CASE HupChild(p)
    <3>1. \A q \in Pids : ps'[q].st = ps[q].st /\ ps'[q].old = ps[q].old
      BY <1>t, <2>3 DEF HupChild
    <3>2. QED
      BY <2>1, <3>1, QuietHolds DEF Living
  <2>4. QED
    BY <1>1, <2>2, <2>3 DEF Start, Served, Alarm
<1>2. CASE Lock(p)
  <2>1. /\ ps[p].st = "wait" /\ mutex[Gen(p)] = NoPid /\ ppc' = ppc
        /\ mutex' = [mutex EXCEPT ![Gen(p)] = p]
        /\ ps' = [ps EXCEPT ![p].st = "select"]
    BY <1>2 DEF Lock, Become, parent
  <2>2. /\ ps'[p].st = "select"
        /\ \A q \in Pids : q # p => ps'[q] = ps[q]
        /\ \A q \in Pids : ps'[q].old = ps[q].old /\ Gen(q)' = Gen(q) /\ (Living(q)' => Living(q))
    BY <1>t, <2>1 DEF Gen, Living
  <2>3. /\ mutex'[Gen(p)] = p
        /\ \A g \in {"new", "old"} : g # Gen(p) => mutex'[g] = mutex[g]
    BY <2>1 DEF TypeOK, Gen
  <2>4. MutexHeld'
    BY <2>1, <2>2, <2>3, SearchdAssumption DEF HInv, MutexHeld, TypeOK, Gen
  <2>5. Holds'
    <3> SUFFICES ASSUME NEW q \in Pids, q # p, ps'[q].st = "select"
                 PROVE  mutex'[Gen(q)] = q
      BY <2>2, <2>3 DEF Holds
    <3>1. mutex[Gen(q)] = q
      BY <2>2 DEF HInv, Holds
    <3>2. Gen(q) # Gen(p) /\ Gen(q) \in {"new", "old"}
      BY <2>1, <3>1, SearchdAssumption DEF Gen
    <3>3. QED
      BY <2>3, <3>1, <3>2
  <2>6. Turned'
    BY <2>1, <2>2, <2>3 DEF HInv, Turned, Gen, Living
  <2>7. QED
    BY <2>4, <2>5, <2>6 DEF HInv
<1>3. CASE Selected(p)
  <2>1. /\ ps[p].st = "select" /\ ppc' = ppc
        /\ mutex' = [mutex EXCEPT ![Gen(p)] = NoPid]
        /\ \/ \E s \in {"wait", "serve"} : ps' = [ps EXCEPT ![p].st = s]
           \/ ps' = [ps EXCEPT ![p] = Ended]
    BY <1>3 DEF Selected, Become, End
  <2>2. /\ ps'[p].st # "select"
        /\ \A q \in Pids : q # p => ps'[q] = ps[q]
        /\ \A q \in Pids : Living(q)' => Living(q) /\ ps'[q].old = ps[q].old
    BY <1>t, <2>1 DEF Living, Ended, NoProc, Born
  <2>3. /\ mutex'[Gen(p)] = NoPid
        /\ \A g \in {"new", "old"} : g # Gen(p) => mutex'[g] = mutex[g]
    BY <2>1 DEF TypeOK, Gen
  <2>4. mutex[Gen(p)] = p
    BY <2>1 DEF HInv, Holds
  <2>5. MutexHeld'
    <3> SUFFICES ASSUME mutex'.new # NoPid
                 PROVE  ps'[mutex'.new].st = "select" /\ ~ps'[mutex'.new].old
      BY DEF MutexHeld
    <3>1. Gen(p) = "old" /\ mutex'.new = mutex.new
      BY <2>3 DEF Gen
    <3>2. ps[mutex.new].st = "select" /\ ~ps[mutex.new].old /\ mutex.new \in Pids
      BY <3>1 DEF HInv, MutexHeld, TypeOK
    <3>3. mutex.new # p
      BY <3>1, <3>2 DEF Gen
    <3>4. QED
      BY <2>2, <3>1, <3>2, <3>3
  <2>6. Holds'
    <3> SUFFICES ASSUME NEW q \in Pids, q # p, ps'[q].st = "select"
                 PROVE  mutex'[Gen(q)'] = q
      BY <2>2 DEF Holds
    <3>1. mutex[Gen(q)] = q /\ Gen(q)' = Gen(q)
      BY <2>2 DEF HInv, Holds, Gen
    <3>2. Gen(q) # Gen(p) /\ Gen(q) \in {"new", "old"}
      BY <2>4, <3>1 DEF Gen
    <3>3. QED
      BY <2>3, <3>1, <3>2
  <2>7. Turned'
    BY <2>1, <2>2, <2>3 DEF HInv, Turned, Gen, Living
  <2>8. QED
    BY <2>5, <2>6, <2>7 DEF HInv
<1>4. QED
  BY <1>1, <1>2, <1>3

\* The steps of the parent and of the system.
LEMMA ParentHolds ==
    ASSUME TypeOK, IInv, HInv, Parent \/ Reap \/ Hup \/ Term \/ ForkFails \/ Fail
    PROVE  HInv'
<1>t. ps \in [Pids -> [st : {"free", "start", "wait", "select", "serve", "zombie"},
                       old : BOOLEAN, hup : BOOLEAN, term : BOOLEAN]]
  BY DEF TypeOK
<1>1. CASE Fork
  <2>1. /\ ppc = "fill" /\ ppc' = "store" /\ mutex' = mutex
        /\ \E p \in Pids : ps[p].st = "free" /\ ps' = [ps EXCEPT ![p] = Born(hup, term)]
    BY <1>1 DEF Fork
  <2>2. \A p \in Pids : /\ ps'[p].st = "select" <=> ps[p].st = "select"
                        /\ ps[p].st = "select" => ps'[p].old = ps[p].old
                        /\ Living(p)' => (Living(p) /\ ps'[p].old = ps[p].old) \/ ~ps'[p].old
    <3>1. PICK q \in Pids : ps[q].st = "free" /\ ps' = [ps EXCEPT ![q] = Born(hup, term)]
      BY <2>1
    <3>2. ps'[q].st = "start" /\ ~ps'[q].old
      BY <1>t, <3>1 DEF Born
    <3>3. \A p \in Pids : p # q => ps'[p] = ps[p]
      BY <1>t, <3>1
    <3>4. QED
      BY <3>1, <3>2, <3>3 DEF Living
  <2>3. QED
    BY <2>1, <2>2, QuietHolds
<1>2. CASE Store \/ Skip \/ ForkFails \/ Filled \/ Look \/ Hup \/ Term \/ Fail
  <2>1. /\ mutex' = mutex /\ ps' = ps
        /\ ppc' = ppc \/ ppc' = "failed"
             \/ (ppc \in {"fill", "store", "sleep"} /\ ppc' \in {"fill", "sleep", "load", "exit"})
    BY <1>2 DEF Store, Skip, ForkFails, Filled, Look, Hup, Term, Fail, TypeOK
  <2>2. QED
    BY <2>1, QuietHolds DEF Living
<1>3. CASE TermAll \/ Stop
  <2>1. /\ mutex' = mutex
        /\ (ppc = "term" /\ ppc' = "kill") \/ (ppc = "exit" /\ ppc' = "stopped")
        /\ ps' = Terminated(Slots) \/ ps' = Terminated(1..MaxClients)
    BY <1>3 DEF TermAll, Stop
  <2>2. \A p \in Pids : ps'[p].st = ps[p].st /\ ps'[p].old = ps[p].old
    BY <1>t, <2>1 DEF Terminated
  <2>3. QED
    BY <2>1, <2>2, QuietHolds DEF Living
<1>4. CASE Reap
  <2>1. mutex' = mutex /\ ppc' = ppc
    BY <1>4 DEF Reap
  <2>2. \A p \in Pids : ps'[p] = ps[p] \/ (ps[p].st = "zombie" /\ ps'[p] = NoProc)
    BY <1>4 DEF Reap
  <2>3. \A p \in Pids : /\ ps'[p].st = "select" <=> ps[p].st = "select"
                        /\ ps[p].st = "select" => ps'[p].old = ps[p].old
                        /\ Living(p)' => Living(p) /\ ps'[p].old = ps[p].old
    BY <2>2 DEF NoProc, Born, Living
  <2>4. QED
    BY <2>1, <2>3, QuietHolds
<1>5. CASE Load
  <2>1. /\ ppc = "load" /\ ppc' = "term"
        /\ mutex' = [new |-> NoPid, old |-> mutex.new]
        /\ ps' = [p \in Pids |-> [ps[p] EXCEPT !.old = Living(p)]]
    BY <1>5 DEF Load
  <2>2. \A p \in Pids : ps'[p].st = ps[p].st /\ ps'[p].old = Living(p) /\ (Living(p)' <=> Living(p))
    BY <1>t, <2>1 DEF Living
  <2>3. \A p \in Pids : ps[p].st = "select" => mutex.new = p /\ Gen(p)' = "old"
    BY <2>1, <2>2 DEF HInv, Turned, Holds, Gen, Living
  <2>4. MutexHeld'
    BY <2>1 DEF MutexHeld
  <2>5. Holds'
    <3> SUFFICES ASSUME NEW p \in Pids, ps'[p].st = "select"
                 PROVE  mutex'[Gen(p)'] = p
      BY DEF Holds
    <3>1. mutex.new = p /\ Gen(p)' = "old"
      BY <2>2, <2>3
    <3>2. QED
      BY <2>1, <3>1
  <2>6. Turned'
    BY <2>1, <2>2 DEF Turned
  <2>7. QED
    BY <2>4, <2>5, <2>6 DEF HInv
<1>6. CASE KillAll
  <2>1. ppc = "kill" /\ ppc' = "fill" /\ mutex' = mutex /\ mutex.new = NoPid
    BY <1>6 DEF KillAll, HInv, Turned
  <2>2. \A p \in Pids : ~Living(p)'
    BY <1>6, SearchdAssumption DEF KillAll, IInv, Known, Living, Ended, NoProc, Born
  <2>3. MutexHeld' /\ Holds' /\ Turned'
    BY <2>1, <2>2 DEF MutexHeld, Holds, Turned, Living
  <2>4. QED
    BY <2>3 DEF HInv
<1>7. QED
  BY <1>1, <1>2, <1>3, <1>4, <1>5, <1>6 DEF Parent

\* The mutex of the present children is never lost: a process in select()
\* that can give it back holds it, or nobody does.
THEOREM MutexNotLost == Spec => []MutexHeld
<1>1. Init => HInv
  BY DEF Init, HInv, MutexHeld, Holds, Turned, Living, NoProc, Born
<1>2. IInv /\ HInv /\ [Next]_vars => HInv'
  <2> SUFFICES ASSUME IInv, HInv, [Next]_vars
               PROVE  HInv'
    OBVIOUS
  <2>t. TypeOK
    BY DEF IInv
  <2>1. CASE Parent \/ Reap
    BY <2>t, <2>1, ParentHolds
  <2>2. CASE Disturb
    BY <2>t, <2>2, ParentHolds, ChildHolds DEF Disturb
  <2>3. CASE \E p \in Pids : Start(p) \/ Lock(p) \/ Selected(p) \/ Served(p) \/ Alarm(p)
    BY <2>t, <2>3, ChildHolds
  <2>4. CASE UNCHANGED vars
    <3>1. mutex' = mutex /\ ps' = ps /\ ppc' = ppc
      BY <2>4 DEF vars, parent
    <3>2. QED
      BY <2>t, <3>1, QuietHolds DEF Living
  <2>5. QED
    BY <2>1, <2>2, <2>3, <2>4 DEF Next
<1>3. HInv => MutexHeld
  BY DEF HInv
<1>4. QED
  BY <1>1, <1>2, <1>3, Invariant, PTL DEF Spec
=============================================================================
