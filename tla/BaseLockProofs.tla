--------------------------- MODULE BaseLockProofs ---------------------------
(***************************************************************************)
(* The mutexes and the fcntl locks of BaseLock exclude what they have to,  *)
(* and what an early return leaves behind is still reached by the next     *)
(* DpsBaseClose, for every number of threads, processes and files, and     *)
(* whatever a thread goes on with after a failed call.                     *)
(***************************************************************************)
EXTENDS BaseLock, TLAPS

\* How often t should count a mutex: for its locked handle, and while
\* DpsBaseOpen writes the head slots or waits for the lock of the index file.
Once(b) == IF b THEN 1 ELSE 0
Taken(t, f) ==
    Once(handle[t].locked /\ handle[t].file = f)
    + Once(pc[t] \in {"headlock", "heads", "locki"} /\ call[t].file = f)

Opening == {"open", "create", "headmutex", "headlock", "heads", "mutex", "locki"}
Opened  == {"opens", "locks", "search"}

\* What the fields of the handle are at each step of a call.
HandleOK(t) ==
    /\ pc[t] = "idle" => (handle[t].opened => handle[t].locked)
    /\ pc[t] \in Opening \cup Opened => ~handle[t].opened
    /\ pc[t] \in Opened => handle[t].locked
    /\ pc[t] = "in" => handle[t].locked /\ handle[t].opened
    /\ pc[t] \in {"closes", "closei"} => ~handle[t].locked
    /\ pc[t] \in (Opening \ {"open"}) \cup Opened => handle[t].file = call[t].file
    /\ pc[t] \in Opening \ {"open", "create"} => handle[t].ifd = call[t].file
    /\ pc[t] = "locks" => handle[t].sfd = call[t].file
    /\ ~handle[t].locked /\ ~handle[t].opened => handle[t].sfd = NoFile
    /\ handle[t].locked /\ went[t] = "no" => pc[t] \notin Opening
    /\ handle[t].locked /\ went[t] # "astray" /\ pc[t] = "open" => handle[t].file = call[t].file

\* A thread counts a mutex once each time it takes it; after it went on, it may
\* count it more often.
CountOK(t) == \A f \in Files :
    /\ went[t] # "astray" => count[t][f] >= Taken(t, f)
    /\ went[t] = "no" => count[t][f] = Taken(t, f)

\* The files a thread is about to lock are there.
FileOK(t) ==
    /\ pc[t] \in Opening \ {"open", "create"} => idx[call[t].file] # "none"
    /\ pc[t] = "locks" => dat[call[t].file]

\* A thread that has its process to itself still has the lock it took.
Has(t, f, m) == flock[proc[t]][f]["i"] = m
OwnOK(t) == Alone(t) =>
    /\ pc[t] = "heads" => Has(t, call[t].file, "write")
    /\ pc[t] \in Opened => Has(t, call[t].file, call[t].mode)
    /\ handle[t].opened /\ handle[t].locked => Has(t, handle[t].file, handle[t].mode)

ThreadOK(t) == HandleOK(t) /\ CountOK(t) /\ FileOK(t) /\ OwnOK(t)
ThreadsOK == \A t \in Threads : ThreadOK(t)

\* A mutex belongs to the thread of the process that counts it.
MutexesOK ==
    /\ \A t \in Threads, f \in Files : count[t][f] >= 1 <=> owner[proc[t]][f] = t
    /\ \A p \in Procs, f \in Files : owner[p][f] # NoThread => proc[owner[p][f]] = p

\* A lock is on a file that is there.
FilesOK == \A p \in Procs, f \in Files :
    /\ flock[p][f]["i"] # "none" => idx[f] # "none"
    /\ flock[p][f]["s"] # "none" => dat[f]

\* A process none of whose threads went astray has locks only of files that one
\* of them holds, through the descriptors in the handle of that thread.
Orderly(p) == \A t \in Threads : proc[t] = p => went[t] # "astray"
Free(p, f) == \A x \in Parts : flock[p][f][x] = "none"
Reaches(t, f) ==
    /\ flock[proc[t]][f]["i"] # "none" => handle[t].ifd = f
    /\ flock[proc[t]][f]["s"] # "none" => handle[t].sfd = f
LocksOK == \A p \in Procs, f \in Files : Orderly(p) =>
    /\ (\A t \in Threads : proc[t] = p => ~Holds(t, f)) => Free(p, f)
    /\ \A t \in Threads : proc[t] = p /\ Holds(t, f) => Reaches(t, f)

\* A lock to write on the index file excludes the locks of other processes.
SharedOK ==
    \A p, q \in Procs, f \in Files : p # q /\ flock[p][f]["i"] = "write" => flock[q][f]["i"] = "none"

\* The types of what was chosen at the start, and of what the steps change.
SettingOK == numbers \in [Threads -> SUBSET Files] /\ faults \subseteq {"create", "io", "die"}
StateOK ==
    /\ proc \in [Threads -> Procs]
    /\ idx \in [Files -> {"none", "empty", "heads"}]
    /\ dat \in [Files -> BOOLEAN]
    /\ owner \in [Procs -> [Files -> Threads \cup {NoThread}]]
    /\ count \in [Threads -> [Files -> Int]]
    /\ flock \in [Procs -> [Files -> [Parts -> Modes \cup {"none"}]]]
    /\ handle \in [Threads -> Handles]
    /\ call \in [Threads -> Calls]
    /\ pc \in [Threads -> Steps]
    /\ went \in [Threads -> {"no", "on", "astray"}]
    /\ \A t \in Threads, f \in Files : count[t][f] < 0 => went[t] = "astray"

IInv == StateOK /\ ThreadsOK /\ MutexesOK /\ FilesOK /\ LocksOK /\ SharedOK

FlockType == [Procs -> [Files -> [Parts -> Modes \cup {"none"}]]]

\* What the types say of the files and the arguments of a thread.
LEMMA Typed ==
    ASSUME StateOK, NEW t \in Threads
    PROVE  /\ proc[t] \in Procs /\ t # NoThread /\ pc[t] \in Steps
           /\ call[t] \in Calls /\ call[t].file \in Files /\ call[t].mode \in Modes
           /\ handle[t] \in Handles /\ handle[t].file \in Files /\ handle[t].mode \in Modes
           /\ handle[t].opened \in BOOLEAN /\ handle[t].locked \in BOOLEAN
           /\ NoCall \in Calls /\ Closed \in Handles
<1>1. (CHOOSE f \in Files : TRUE) \in Files
  BY LockAssumption
<1>2. handle[t] \in Handles /\ call[t] \in Calls /\ proc[t] \in Procs /\ pc[t] \in Steps
  BY DEF StateOK
<1> QED
  BY <1>1, <1>2, LockAssumption DEF Handles, Calls, NoCall, Closed, Modes

\* One value of a function changes.
LEMMA OneChanges ==
    ASSUME NEW S, NEW T, NEW g \in [S -> T], NEW a \in S, NEW v \in T
    PROVE  /\ [g EXCEPT ![a] = v] \in [S -> T]
           /\ \A b \in S : [g EXCEPT ![a] = v][b] = IF b = a THEN v ELSE g[b]
  OBVIOUS

\* A thread goes to a step of its call.
LEMMA GoesTo ==
    ASSUME StateOK, NEW t \in Threads, NEW l \in Steps, Goto(t, l)
    PROVE  pc' \in [Threads -> Steps] /\ \A u \in Threads : pc'[u] = IF u = t THEN l ELSE pc[u]
<1>1. pc \in [Threads -> Steps]
  BY DEF StateOK
<1> QED
  BY <1>1 DEF Goto

\* A thread gets another handle.
LEMMA NewHandle ==
    ASSUME StateOK, NEW t \in Threads, NEW h \in Handles, handle' = [handle EXCEPT ![t] = h]
    PROVE  handle' \in [Threads -> Handles] /\ \A u \in Threads : handle'[u] = IF u = t THEN h ELSE handle[u]
  BY DEF StateOK

\* A thread has other arguments.
LEMMA NewCall ==
    ASSUME StateOK, NEW t \in Threads, NEW c \in Calls, call' = [call EXCEPT ![t] = c]
    PROVE  call' \in [Threads -> Calls] /\ \A u \in Threads : call'[u] = IF u = t THEN c ELSE call[u]
  BY DEF StateOK

\* One lock changes.
LEMMA OneLock ==
    ASSUME StateOK, NEW t \in Threads, NEW f \in Files, NEW part \in Parts, NEW m \in Modes \cup {"none"},
           flock' = SetLock(t, f, part, m)
    PROVE  /\ flock' \in FlockType
           /\ \A q \in Procs, g \in Files, x \in Parts :
                 flock'[q][g][x] = IF q = proc[t] /\ g = f /\ x = part THEN m ELSE flock[q][g][x]
  BY DEF StateOK, FlockType, SetLock

-----------------------------------------------------------------------------
(* What a step of one thread does to the invariants about the others. *)

\* Only the process of t, and of its threads only t, takes part in the step;
\* files do not go away, and a thread that went astray stays so.
StepOf(t) ==
    /\ proc' = proc
    /\ \A u \in Threads \ {t} :
          pc'[u] = pc[u] /\ call'[u] = call[u] /\ handle'[u] = handle[u] /\ went'[u] = went[u] /\ count'[u] = count[u]
    /\ \A q \in Procs \ {proc[t]}, f \in Files, x \in Parts : flock'[q][f][x] = flock[q][f][x]
    /\ \A f \in Files : (idx[f] # "none" => idx'[f] # "none") /\ (dat[f] => dat'[f])
    /\ went[t] = "astray" => went'[t] = "astray"

LEMMA OthersKeep ==
    ASSUME IInv, NEW t \in Threads, StepOf(t), ThreadOK(t)'
    PROVE  ThreadsOK'
<1> SUFFICES ASSUME NEW u \in Threads, u # t PROVE ThreadOK(u)'
  BY DEF ThreadsOK
<1>1. /\ proc'[u] = proc[u] /\ pc'[u] = pc[u] /\ call'[u] = call[u] /\ handle'[u] = handle[u]
      /\ went'[u] = went[u] /\ count'[u] = count[u]
  BY DEF StepOf
<1>2. ThreadOK(u)
  BY DEF IInv, ThreadsOK
<1>t. proc[u] \in Procs /\ call[u].file \in Files /\ handle[u].file \in Files
  BY Typed DEF IInv
<1>3. HandleOK(u)'
  BY <1>1, <1>2 DEF ThreadOK, HandleOK
<1>4. CountOK(u)'
  BY <1>1, <1>2 DEF ThreadOK, CountOK, Taken
<1>5. FileOK(u)'
  BY <1>1, <1>2, <1>t DEF ThreadOK, FileOK, StepOf
<1>6. OwnOK(u)'
  <2> SUFFICES ASSUME Alone(u)' PROVE OwnOK(u)'
    BY DEF OwnOK
  <2>1. Alone(u) /\ proc[u] # proc[t]
    BY DEF Alone, StepOf
  <2>2. \A f \in Files : flock'[proc[u]][f]["i"] = flock[proc[u]][f]["i"]
    BY <2>1, <1>t DEF StepOf, Parts
  <2> QED
    BY <1>1, <1>2, <1>t, <2>1, <2>2 DEF ThreadOK, OwnOK, Has
<1> QED
  BY <1>3, <1>4, <1>5, <1>6 DEF ThreadOK

\* A thread that holds a file has its mutex, unless it went astray.
LEMMA HoldsMutex ==
    ASSUME IInv, NEW t \in Threads, NEW f \in Files, Holds(t, f), went[t] # "astray"
    PROVE  count[t][f] >= 1 /\ owner[proc[t]][f] = t
<1>1. Taken(t, f) >= 1 /\ count[t][f] >= Taken(t, f) /\ count[t][f] \in Int /\ Taken(t, f) \in Int
  BY DEF IInv, StateOK, ThreadsOK, ThreadOK, CountOK, Taken, Once, Holds
<1> QED
  BY <1>1 DEF IInv, MutexesOK

\* What a step leaves of the locks of its process: it takes them on a file t
\* holds, t reaches those it has, and keeps none of a file it holds no more.
LEMMA LocksKeep ==
    ASSUME IInv, NEW t \in Threads, StepOf(t),
           \A f \in Files, x \in Parts : \/ flock'[proc[t]][f][x] \in {flock[proc[t]][f][x], "none"}
                                         \/ f = call[t].file /\ Holds(t, f) /\ Holds(t, f)',
           Orderly(proc[t])' =>
               \A f \in Files : /\ Holds(t, f)' => Reaches(t, f)'
                                /\ Holds(t, f) /\ ~Holds(t, f)' => Free(proc[t], f)'
    PROVE  LocksOK'
<1> SUFFICES ASSUME NEW p \in Procs, NEW f \in Files, Orderly(p)'
             PROVE  /\ (\A u \in Threads : proc'[u] = p => ~Holds(u, f)') => Free(p, f)'
                    /\ \A u \in Threads : proc'[u] = p /\ Holds(u, f)' => Reaches(u, f)'
  BY DEF LocksOK
<1>1. Orderly(p)
  BY DEF Orderly, StepOf
<1>2. /\ (\A u \in Threads : proc[u] = p => ~Holds(u, f)) => Free(p, f)
      /\ \A u \in Threads : proc[u] = p /\ Holds(u, f) => Reaches(u, f)
  BY <1>1 DEF IInv, LocksOK
<1>3. \A u \in Threads \ {t} : (Holds(u, f)' <=> Holds(u, f)) /\ proc'[u] = proc[u]
  BY DEF StepOf, Holds
<1>4. proc'[t] = proc[t]
  BY DEF StepOf
<1>5. CASE p # proc[t]
  <2>1. \A x \in Parts : flock'[p][f][x] = flock[p][f][x]
    BY <1>5 DEF StepOf
  <2>2. Free(p, f)' <=> Free(p, f)
    BY <2>1 DEF Free
  <2>3. \A u \in Threads : proc'[u] = p => u # t /\ (Holds(u, f)' <=> Holds(u, f)) /\ proc[u] = p
    BY <1>3, <1>4, <1>5
  <2>4. \A u \in Threads : proc[u] = p => proc'[u] = p
    BY <1>4, <1>3
  <2>5. ASSUME NEW u \in Threads, proc'[u] = p, Holds(u, f)' PROVE Reaches(u, f)'
    <3>1. Reaches(u, f) /\ proc[u] = p /\ handle'[u] = handle[u]
      BY <1>2, <2>3, <2>5 DEF StepOf
    <3> QED
      BY <2>1, <2>5, <3>1 DEF Reaches, Parts
  <2> QED
    BY <1>2, <2>2, <2>3, <2>4, <2>5
<1>6. CASE p = proc[t]
  <2>1. ASSUME \A u \in Threads : proc'[u] = p => ~Holds(u, f)' PROVE Free(p, f)'
    <3>1. CASE Holds(t, f)
      BY <1>4, <1>6, <2>1, <3>1
    <3>2. CASE ~Holds(t, f)
      <4>1. Free(p, f)
        BY <1>2, <1>3, <2>1, <3>2
      <4> QED
        BY <1>6, <3>2, <4>1 DEF Free
    <3> QED
      BY <3>1, <3>2
  <2>2. ASSUME NEW u \in Threads, proc'[u] = p, Holds(u, f)' PROVE Reaches(u, f)'
    <3>1. CASE u = t
      BY <1>6, <2>2, <3>1
    <3>2. CASE u # t
      <4>1. Reaches(u, f) /\ Holds(u, f) /\ proc[u] = p /\ handle'[u] = handle[u]
        BY <1>2, <1>3, <2>2, <3>2 DEF StepOf
      <4>2. ~Holds(t, f)
        <5>1. went[u] # "astray" /\ went[t] # "astray"
          BY <1>1, <1>6, <4>1 DEF Orderly
        <5> QED
          BY <1>6, <3>2, <4>1, <5>1, HoldsMutex
      <4>3. \A x \in Parts : flock'[p][f][x] \in {flock[p][f][x], "none"}
        BY <1>6, <4>2
      <4> QED
        BY <2>2, <4>1, <4>3 DEF Reaches, Parts
    <3> QED
      BY <3>1, <3>2
  <2> QED
    BY <2>1, <2>2
<1> QED
  BY <1>5, <1>6

\* A lock that is taken is compatible with those of other processes, and on a
\* file that is there.
LEMMA LockTaken ==
    ASSUME IInv, NEW t \in Threads, NEW f \in Files, NEW part \in Parts, NEW m \in Modes,
           Lock(t, f, part, m), UNCHANGED <<idx, dat>>,
           IF part = "i" THEN idx[f] # "none" ELSE dat[f]
    PROVE  SharedOK' /\ FilesOK'
<1>1. \A q \in Procs, g \in Files, x \in Parts :
          flock'[q][g][x] = IF q = proc[t] /\ g = f /\ x = part THEN m ELSE flock[q][g][x]
  <2>1. flock' = SetLock(t, f, part, m) /\ m \in Modes \cup {"none"} /\ StateOK
    BY DEF Lock, IInv
  <2> QED
    BY <2>1, OneLock
<1>2. \A p \in Procs \ {proc[t]} : ~Excludes(m, flock[p][f][part])
  BY DEF Lock
<1>t. proc[t] \in Procs /\ "i" \in Parts /\ "s" \in Parts
  BY Typed DEF IInv, Parts
<1>3. SharedOK'
  BY <1>1, <1>2, <1>t DEF IInv, SharedOK, Excludes, Modes
<1>4. FilesOK'
  BY <1>1, <1>t DEF IInv, FilesOK, Parts
<1> QED
  BY <1>3, <1>4

\* Locks that only go, and files that only come.
LEMMA LocksGo ==
    ASSUME IInv, NEW t \in Threads, StepOf(t),
           \A f \in Files, x \in Parts : flock'[proc[t]][f][x] \in {flock[proc[t]][f][x], "none"}
    PROVE  SharedOK' /\ FilesOK'
<1>1. \A p \in Procs, f \in Files, x \in Parts : flock'[p][f][x] \in {flock[p][f][x], "none"}
  BY DEF StepOf
<1>2. SharedOK'
  BY <1>1 DEF IInv, SharedOK, Parts
<1>3. FilesOK'
  BY <1>1 DEF IInv, FilesOK, StepOf, Parts
<1> QED
  BY <1>2, <1>3

OwnerType == [Procs -> [Files -> Threads \cup {NoThread}]]
CountType == [Threads -> [Files -> Int]]

LEMMA MutexGot ==
    ASSUME IInv, NEW t \in Threads, NEW f \in Files, proc' = proc, GetLock(t, f)
    PROVE  /\ MutexesOK' /\ owner' \in OwnerType /\ count' \in CountType
           /\ \A u \in Threads \ {t} : count'[u] = count[u]
           /\ \A g \in Files : count'[t][g] = count[t][g] + Once(g = f)
<1>t. proc[t] \in Procs /\ t # NoThread /\ owner \in OwnerType /\ count \in CountType /\ proc \in [Threads -> Procs]
  BY Typed DEF IInv, StateOK, OwnerType, CountType
<1>1. count' = [count EXCEPT ![t][f] = @ + 1]
  BY DEF GetLock
<1>2. /\ count' \in CountType
      /\ \A u \in Threads \ {t} : count'[u] = count[u]
      /\ \A g \in Files : count'[t][g] = count[t][g] + Once(g = f)
  BY <1>t, <1>1 DEF CountType, Once
<1>3. CASE count[t][f] = 0
  <2>1. owner[proc[t]][f] = NoThread /\ owner' = [owner EXCEPT ![proc[t]][f] = t]
    BY <1>3 DEF GetLock
  <2>2. owner' \in OwnerType /\ \A p \in Procs, g \in Files :
            owner'[p][g] = IF p = proc[t] /\ g = f THEN t ELSE owner[p][g]
    BY <1>t, <2>1 DEF OwnerType
  <2>3. ASSUME NEW u \in Threads, NEW g \in Files
        PROVE  count'[u][g] >= 1 <=> owner'[proc'[u]][g] = u
    <3>1. proc[u] \in Procs /\ u # NoThread
      BY <1>t, LockAssumption
    <3>2. count[u][g] >= 1 <=> owner[proc[u]][g] = u
      BY DEF IInv, MutexesOK
    <3>3. CASE g # f
      <4>1. count'[u][g] = count[u][g] /\ owner'[proc[u]][g] = owner[proc[u]][g]
        BY <1>t, <1>2, <2>2, <3>1, <3>3 DEF Once, CountType
      <4> QED
        BY <3>2, <4>1
    <3>4. CASE g = f /\ u = t
      BY <1>2, <1>3, <2>2, <3>1, <3>4 DEF Once
    <3>5. CASE g = f /\ u # t
      <4>1. count'[u][g] = count[u][g]
        BY <1>2, <3>5
      <4>2. owner'[proc[u]][g] = u <=> owner[proc[u]][g] = u
        BY <2>1, <2>2, <3>1, <3>5
      <4> QED
        BY <3>2, <4>1, <4>2
    <3> QED
      BY <3>3, <3>4, <3>5
  <2>4. \A p \in Procs, g \in Files : owner'[p][g] # NoThread => proc'[owner'[p][g]] = p
    BY <2>2 DEF IInv, MutexesOK
  <2> QED
    BY <1>2, <2>2, <2>3, <2>4 DEF MutexesOK
<1>4. CASE count[t][f] # 0
  <2>1. owner' = owner
    BY <1>4 DEF GetLock
  <2>2. ASSUME NEW u \in Threads, NEW g \in Files
        PROVE  count'[u][g] >= 1 <=> owner'[proc'[u]][g] = u
    <3>1. count'[u][g] >= 1 <=> count[u][g] >= 1
      <4>1. count[u][g] \in Int
        BY <1>t DEF CountType
      <4>2. CASE u = t /\ g = f
        BY <1>2, <1>4, <4>1, <4>2 DEF Once
      <4>3. CASE u # t
        BY <1>2, <4>3
      <4>4. CASE u = t /\ g # f
        BY <1>2, <4>1, <4>4 DEF Once
      <4> QED
        BY <4>2, <4>3, <4>4
    <3> QED
      BY <2>1, <3>1 DEF IInv, MutexesOK
  <2> QED
    BY <1>t, <1>2, <2>1, <2>2 DEF IInv, MutexesOK
<1> QED
  BY <1>3, <1>4

LEMMA MutexReleased ==
    ASSUME IInv, NEW t \in Threads, NEW f \in Files, proc' = proc, ReleaseLock(t, f)
    PROVE  /\ MutexesOK' /\ owner' \in OwnerType /\ count' \in CountType
           /\ \A u \in Threads \ {t} : count'[u] = count[u]
           /\ \A g \in Files : count'[t][g] = count[t][g] - Once(g = f)
<1>t. proc[t] \in Procs /\ t # NoThread /\ owner \in OwnerType /\ count \in CountType /\ proc \in [Threads -> Procs]
  BY Typed DEF IInv, StateOK, OwnerType, CountType
<1>1. count' = [count EXCEPT ![t][f] = @ - 1]
  BY DEF ReleaseLock
<1>2. /\ count' \in CountType
      /\ \A u \in Threads \ {t} : count'[u] = count[u]
      /\ \A g \in Files : count'[t][g] = count[t][g] - Once(g = f)
  BY <1>t, <1>1 DEF CountType, Once
<1>3. CASE count[t][f] = 1
  <2>1. owner[proc[t]][f] = t /\ owner' = [owner EXCEPT ![proc[t]][f] = NoThread]
    BY <1>3 DEF ReleaseLock, IInv, MutexesOK
  <2>2. owner' \in OwnerType /\ \A p \in Procs, g \in Files :
            owner'[p][g] = IF p = proc[t] /\ g = f THEN NoThread ELSE owner[p][g]
    BY <1>t, <2>1 DEF OwnerType
  <2>3. ASSUME NEW u \in Threads, NEW g \in Files
        PROVE  count'[u][g] >= 1 <=> owner'[proc'[u]][g] = u
    <3>1. proc[u] \in Procs /\ u # NoThread
      BY <1>t, LockAssumption
    <3>2. count[u][g] >= 1 <=> owner[proc[u]][g] = u
      BY DEF IInv, MutexesOK
    <3>3. CASE g # f
      <4>1. count'[u][g] = count[u][g] /\ owner'[proc[u]][g] = owner[proc[u]][g]
        BY <1>t, <1>2, <2>2, <3>1, <3>3 DEF Once, CountType
      <4> QED
        BY <3>2, <4>1
    <3>4. CASE g = f /\ u = t
      BY <1>2, <1>3, <1>t, <2>2, <3>1, <3>4 DEF Once
    <3>5. CASE g = f /\ u # t
      <4>1. count'[u][g] = count[u][g]
        BY <1>2, <3>5
      <4>2. owner'[proc[u]][g] = u <=> owner[proc[u]][g] = u
        BY <2>1, <2>2, <3>1, <3>5
      <4> QED
        BY <3>2, <4>1, <4>2
    <3> QED
      BY <3>3, <3>4, <3>5
  <2>4. \A p \in Procs, g \in Files : owner'[p][g] # NoThread => proc'[owner'[p][g]] = p
    BY <2>2 DEF IInv, MutexesOK
  <2> QED
    BY <1>2, <2>2, <2>3, <2>4 DEF MutexesOK
<1>4. CASE count[t][f] # 1
  <2>1. owner' = owner
    BY <1>4 DEF ReleaseLock
  <2>2. ASSUME NEW u \in Threads, NEW g \in Files
        PROVE  count'[u][g] >= 1 <=> owner'[proc'[u]][g] = u
    <3>1. count'[u][g] >= 1 <=> count[u][g] >= 1
      <4>1. count[u][g] \in Int
        BY <1>t DEF CountType
      <4>2. CASE u = t /\ g = f
        BY <1>2, <1>4, <4>1, <4>2 DEF Once
      <4>3. CASE u # t
        BY <1>2, <4>3
      <4>4. CASE u = t /\ g # f
        BY <1>2, <4>1, <4>4 DEF Once
      <4> QED
        BY <4>2, <4>3, <4>4
    <3> QED
      BY <2>1, <3>1 DEF IInv, MutexesOK
  <2> QED
    BY <1>t, <1>2, <2>1, <2>2 DEF IInv, MutexesOK
<1> QED
  BY <1>3, <1>4

-----------------------------------------------------------------------------
(* The steps. *)

TypesOK ==
    /\ proc \in [Threads -> Procs]
    /\ idx \in [Files -> {"none", "empty", "heads"}]
    /\ dat \in [Files -> BOOLEAN]
    /\ owner \in OwnerType
    /\ count \in CountType
    /\ flock \in FlockType
    /\ handle \in [Threads -> Handles]
    /\ call \in [Threads -> Calls]
    /\ pc \in [Threads -> Steps]
    /\ went \in [Threads -> {"no", "on", "astray"}]

LEMMA Types == ASSUME IInv PROVE TypesOK
  BY DEF IInv, StateOK, TypesOK, OwnerType, CountType, FlockType

LEMMA StepKeeps ==
    ASSUME IInv, NEW t \in Threads, StepOf(t), TypesOK', ThreadOK(t)',
           MutexesOK', FilesOK', LocksOK', SharedOK'
    PROVE  IInv'
<1>1. ThreadsOK'
  BY OthersKeep
<1>2. ASSUME NEW u \in Threads, NEW f \in Files, count'[u][f] < 0 PROVE went'[u] = "astray"
  <2>1. CountOK(u)'
    BY <1>1 DEF ThreadsOK, ThreadOK
  <2>2. Taken(u, f)' \in Nat
    BY DEF Taken, Once
  <2>3. count'[u][f] \in Int
    BY DEF TypesOK, CountType
  <2> QED
    BY <1>2, <2>1, <2>2, <2>3 DEF CountOK
<1>3. StateOK'
  BY <1>2 DEF TypesOK, StateOK, OwnerType, CountType, FlockType
<1> QED
  BY <1>1, <1>3 DEF IInv

\* A step that takes and releases nothing.
LEMMA QuietStep ==
    ASSUME IInv, NEW t \in Threads, UNCHANGED <<owner, count, flock>>, StepOf(t), TypesOK',
           HandleOK(t)', FileOK(t)', OwnOK(t)',
           went'[t] = "no" => went[t] = "no",
           went'[t] # "astray" => \A f \in Files : /\ Taken(t, f)' = Taken(t, f)
                                                   /\ Holds(t, f)' <=> Holds(t, f)
                                                   /\ Holds(t, f) /\ Reaches(t, f) => Reaches(t, f)'
    PROVE  IInv'
<1>1. CountOK(t)'
  BY DEF IInv, ThreadsOK, ThreadOK, CountOK, StepOf
<1>2. MutexesOK'
  BY DEF IInv, MutexesOK, StepOf
<1>3. SharedOK' /\ FilesOK'
  BY LocksGo
<1>4. LocksOK'
  <2>1. ASSUME Orderly(proc[t])', NEW f \in Files
        PROVE  /\ Holds(t, f)' => Reaches(t, f)'
               /\ Holds(t, f) /\ ~Holds(t, f)' => Free(proc[t], f)'
    <3>1. went'[t] # "astray" /\ Orderly(proc[t]) /\ proc[t] \in Procs
      BY <2>1, Typed DEF Orderly, StepOf, IInv
    <3>2. Holds(t, f) => Reaches(t, f)
      BY <3>1 DEF IInv, LocksOK
    <3> QED
      BY <3>1, <3>2
  <2> QED
    BY <2>1, LocksKeep
<1> QED
  BY <1>1, <1>2, <1>3, <1>4, StepKeeps DEF ThreadOK

\* Where the step goes.
LEMMA Resumed ==
    ASSUME StateOK, NEW t \in Threads, NEW l \in Steps, Resume(t, l)
    PROVE  /\ pc' \in [Threads -> Steps] /\ call' \in [Threads -> Calls]
           /\ pc'[t] = l /\ call'[t] = call[t]
           /\ \A u \in Threads \ {t} : pc'[u] = pc[u] /\ call'[u] = call[u]
<1>1. pc' \in [Threads -> Steps] /\ \A u \in Threads : pc'[u] = IF u = t THEN l ELSE pc[u]
  BY GoesTo DEF Resume
<1>2. call' = call /\ call \in [Threads -> Calls]
  BY DEF StateOK, Resume
<1> QED
  BY <1>1, <1>2

LEMMA Returned ==
    ASSUME StateOK, NEW t \in Threads, Return(t)
    PROVE  /\ pc' \in [Threads -> Steps] /\ call' \in [Threads -> Calls]
           /\ pc'[t] = "idle" /\ call'[t] = NoCall
           /\ \A u \in Threads \ {t} : pc'[u] = pc[u] /\ call'[u] = call[u]
<1>1. pc' \in [Threads -> Steps] /\ \A u \in Threads : pc'[u] = IF u = t THEN "idle" ELSE pc[u]
  BY GoesTo DEF Return, Steps
<1>2. call' \in [Threads -> Calls] /\ \A u \in Threads : call'[u] = IF u = t THEN NoCall ELSE call[u]
  BY Typed, NewCall DEF Return
<1> QED
  BY <1>1, <1>2

LEMMA SeekKeeps == ASSUME SettingOK, IInv, NEW t \in Threads, Seek(t) PROVE IInv'
<1>t. TypesOK /\ StateOK /\ ThreadOK(t)
  BY Types DEF IInv, ThreadsOK
<1>p. PICK f \in Files, m \in Modes :
          /\ call' = [call EXCEPT ![t] = [kind |-> "seek", file |-> f, mode |-> m]]
          /\ went' = [went EXCEPT ![t] = IF ~Failed(t) THEN @
                                         ELSE IF f = handle[t].file /\ @ # "astray" THEN "on"
                                         ELSE "astray"]
          /\ Goto(t, IF Fits(t, f, m) THEN "in"
                     ELSE IF handle[t].opened THEN "unlock" ELSE "open")
  BY DEF Seek, SettingOK
<1>k. pc[t] = "idle" /\ UNCHANGED <<proc, idx, dat, owner, count, flock, handle>>
  BY DEF Seek, shared
<1> DEFINE c == [kind |-> "seek", file |-> f, mode |-> m]
           l == IF Fits(t, f, m) THEN "in" ELSE IF handle[t].opened THEN "unlock" ELSE "open"
           w == IF ~Failed(t) THEN went[t]
                ELSE IF f = handle[t].file /\ went[t] # "astray" THEN "on" ELSE "astray"
<1>c. call' \in [Threads -> Calls] /\ \A u \in Threads : call'[u] = IF u = t THEN c ELSE call[u]
  BY <1>t, <1>p, NewCall DEF Calls
<1>l. pc' \in [Threads -> Steps] /\ \A u \in Threads : pc'[u] = IF u = t THEN l ELSE pc[u]
  BY <1>t, <1>p, GoesTo DEF Steps
<1>w. /\ went' \in [Threads -> {"no", "on", "astray"}]
      /\ \A u \in Threads : went'[u] = IF u = t THEN w ELSE went[u]
  BY <1>t, <1>p DEF TypesOK
<1>h. handle[t].opened => handle[t].locked
  BY <1>t, <1>k DEF ThreadOK, HandleOK
<1>1. StepOf(t)
  BY <1>c, <1>k, <1>l, <1>w DEF StepOf
<1>2. TypesOK'
  BY <1>t, <1>c, <1>k, <1>l, <1>w DEF TypesOK
<1>3. HandleOK(t)'
  BY <1>t, <1>c, <1>h, <1>k, <1>l, <1>w DEF ThreadOK, HandleOK, Failed, Fits, Opening, Opened
<1>4. FileOK(t)'
  BY <1>l DEF FileOK, Opening
<1>5. OwnOK(t)'
  BY <1>t, <1>k, <1>l DEF ThreadOK, OwnOK, Has, Alone, Opened
<1>6. \A g \in Files : /\ Taken(t, g)' = Taken(t, g)
                       /\ Holds(t, g)' <=> Holds(t, g)
                       /\ Holds(t, g) /\ Reaches(t, g) => Reaches(t, g)'
  BY <1>k, <1>l DEF Taken, Holds, Reaches
<1>7. went'[t] = "no" => went[t] = "no"
  BY <1>w
<1> QED
  BY <1>1, <1>2, <1>3, <1>4, <1>5, <1>6, <1>7, <1>k, QuietStep

LEMMA OpenIndexKeeps == ASSUME IInv, NEW t \in Threads, OpenIndex(t) PROVE IInv'
<1> DEFINE f == call[t].file
           h == [handle[t] EXCEPT !.file = f, !.ifd = IF idx[f] = "none" THEN NoFile ELSE f]
<1>t. TypesOK /\ StateOK /\ ThreadOK(t) /\ f \in Files /\ proc[t] \in Procs
  BY Types, Typed DEF IInv, ThreadsOK
<1>k. pc[t] = "open" /\ handle' = [handle EXCEPT ![t] = h] /\ UNCHANGED <<proc, idx, dat, owner, count, flock, went>>
  BY DEF OpenIndex, shared
<1>h. /\ handle' \in [Threads -> Handles]
      /\ \A u \in Threads : handle'[u] = IF u = t THEN h ELSE handle[u]
  <2>1. h \in Handles
    BY <1>t, Typed DEF Handles
  <2> QED
    BY <1>t, <1>k, <2>1, NewHandle
<1>r. /\ h.file = f /\ h.opened = handle[t].opened /\ h.locked = handle[t].locked /\ h.sfd = handle[t].sfd
      /\ h.ifd = IF idx[f] = "none" THEN NoFile ELSE f
  BY <1>t, Typed DEF Handles
<1>p. /\ pc' \in [Threads -> Steps] /\ call' \in [Threads -> Calls]
      /\ \A u \in Threads \ {t} : pc'[u] = pc[u] /\ call'[u] = call[u]
      /\ \/ pc'[t] = "idle"
         \/ pc'[t] = "create" /\ call'[t] = call[t]
         \/ pc'[t] = "mutex" /\ call'[t] = call[t] /\ idx[f] # "none"
  BY <1>t, Resumed, Returned DEF OpenIndex, Steps
<1> HIDE DEF h
<1>1. StepOf(t)
  BY <1>h, <1>k, <1>p DEF StepOf
<1>2. TypesOK'
  BY <1>t, <1>h, <1>k, <1>p DEF TypesOK
<1>3. HandleOK(t)'
  BY <1>t, <1>h, <1>k, <1>p, <1>r DEF ThreadOK, HandleOK, Opening, Opened
<1>4. FileOK(t)'
  BY <1>k, <1>p DEF FileOK, Opening
<1>5. OwnOK(t)'
  BY <1>t, <1>h, <1>k, <1>p, <1>r DEF ThreadOK, HandleOK, OwnOK, Opening, Opened
<1>6. ASSUME went'[t] # "astray", NEW g \in Files
      PROVE  /\ Taken(t, g)' = Taken(t, g)
             /\ Holds(t, g)' <=> Holds(t, g)
             /\ Holds(t, g) /\ Reaches(t, g) => Reaches(t, g)'
  <2>1. handle[t].locked => handle[t].file = f
    BY <1>t, <1>k, <1>6 DEF ThreadOK, HandleOK
  <2>2. Taken(t, g)' = Taken(t, g) /\ (Holds(t, g)' <=> Holds(t, g))
    BY <1>h, <1>k, <1>p, <1>r, <2>1 DEF Taken, Holds, Once
  <2>3. Holds(t, g) => g = f /\ (flock[proc[t]][f]["i"] # "none" => idx[f] # "none")
    BY <1>t, <1>k, <2>1 DEF Holds, IInv, FilesOK
  <2> QED
    BY <1>h, <1>k, <1>r, <2>2, <2>3 DEF Reaches
<1> QED
  BY <1>1, <1>2, <1>3, <1>4, <1>5, <1>6, <1>k, QuietStep

LEMMA CreateIndexKeeps == ASSUME IInv, NEW t \in Threads, CreateIndex(t) PROVE IInv'
<1> DEFINE f == call[t].file
           h == [handle[t] EXCEPT !.ifd = f]
<1>t. TypesOK /\ StateOK /\ ThreadOK(t) /\ f \in Files /\ proc[t] \in Procs
  BY Types, Typed DEF IInv, ThreadsOK
<1>k. /\ pc[t] = "create" /\ handle' = [handle EXCEPT ![t] = h]
      /\ idx' = [idx EXCEPT ![f] = IF @ = "none" THEN "empty" ELSE @]
      /\ UNCHANGED <<proc, dat, owner, count, flock, went, call>>
  BY DEF CreateIndex
<1>i. /\ idx' \in [Files -> {"none", "empty", "heads"}] /\ idx'[f] # "none"
      /\ \A g \in Files : idx[g] # "none" => idx'[g] # "none"
  BY <1>t, <1>k DEF TypesOK
<1>h. /\ handle' \in [Threads -> Handles]
      /\ \A u \in Threads : handle'[u] = IF u = t THEN h ELSE handle[u]
  <2>1. h \in Handles
    BY <1>t, Typed DEF Handles
  <2> QED
    BY <1>t, <1>k, <2>1, NewHandle
<1>r. /\ h.file = handle[t].file /\ h.opened = handle[t].opened /\ h.locked = handle[t].locked
      /\ h.sfd = handle[t].sfd /\ h.ifd = f
  BY <1>t, Typed DEF Handles
<1>p. /\ pc' \in [Threads -> Steps] /\ pc'[t] = "headmutex"
      /\ \A u \in Threads \ {t} : pc'[u] = pc[u]
  BY <1>t, GoesTo DEF CreateIndex, Steps
<1> HIDE DEF h
<1>1. StepOf(t)
  BY <1>h, <1>i, <1>k, <1>p DEF StepOf
<1>2. TypesOK'
  BY <1>t, <1>h, <1>i, <1>k, <1>p DEF TypesOK
<1>3. HandleOK(t)'
  BY <1>t, <1>h, <1>k, <1>p, <1>r DEF ThreadOK, HandleOK, Opening, Opened
<1>4. FileOK(t)'
  BY <1>i, <1>k, <1>p DEF FileOK, Opening
<1>5. OwnOK(t)'
  BY <1>t, <1>h, <1>k, <1>p, <1>r DEF ThreadOK, HandleOK, OwnOK, Opening, Opened
<1>6. \A g \in Files : /\ Taken(t, g)' = Taken(t, g)
                       /\ Holds(t, g)' <=> Holds(t, g)
                       /\ Holds(t, g) /\ Reaches(t, g) => Reaches(t, g)'
  <2>1. handle[t].file = f
    BY <1>t, <1>k DEF ThreadOK, HandleOK, Opening
  <2> QED
    BY <1>h, <1>k, <1>p, <1>r, <2>1 DEF Taken, Holds, Reaches
<1> QED
  BY <1>1, <1>2, <1>3, <1>4, <1>5, <1>6, <1>k, QuietStep

\* HeadMutex and GetMutex.
LEMMA MutexStep ==
    ASSUME IInv, NEW t \in Threads, NEW l \in {"headlock", "locki"}, pc[t] \in {"headmutex", "mutex"},
           GetLock(t, call[t].file), Goto(t, l), UNCHANGED <<proc, went, idx, dat, flock, handle, call>>
    PROVE  IInv'
<1> DEFINE f == call[t].file
<1>t. TypesOK /\ StateOK /\ ThreadOK(t) /\ f \in Files /\ proc[t] \in Procs
  BY Types, Typed DEF IInv, ThreadsOK
<1>p. pc' \in [Threads -> Steps] /\ pc'[t] = l /\ \A u \in Threads \ {t} : pc'[u] = pc[u]
  BY <1>t, GoesTo DEF Steps
<1>m. /\ MutexesOK' /\ owner' \in OwnerType /\ count' \in CountType
      /\ \A u \in Threads \ {t} : count'[u] = count[u]
      /\ \A g \in Files : count'[t][g] = count[t][g] + Once(g = f)
  BY <1>t, MutexGot
<1> HIDE DEF f
<1>h. /\ \A g \in Files : Taken(t, g)' = Taken(t, g) + Once(g = f)
      /\ \A g \in Files : Holds(t, g)' <=> Holds(t, g) \/ g = f
  BY <1>p, <1>t DEF Taken, Once, Holds, f
<1>1. StepOf(t)
  BY <1>m, <1>p DEF StepOf
<1>2. TypesOK'
  BY <1>t, <1>m, <1>p DEF TypesOK
<1>3. ThreadOK(t)'
  <2>1. HandleOK(t)'
    BY <1>t, <1>p DEF ThreadOK, HandleOK, Opening, Opened
  <2>2. CountOK(t)'
    <3> SUFFICES ASSUME NEW g \in Files
                 PROVE  /\ went'[t] # "astray" => count'[t][g] >= Taken(t, g)'
                        /\ went'[t] = "no" => count'[t][g] = Taken(t, g)'
      BY DEF CountOK
    <3>1. count[t][g] \in Int /\ Taken(t, g) \in Int /\ Once(g = f) \in Int
      BY <1>t DEF TypesOK, CountType, Taken, Once
    <3>2. /\ went[t] # "astray" => count[t][g] >= Taken(t, g)
          /\ went[t] = "no" => count[t][g] = Taken(t, g)
      BY <1>t DEF ThreadOK, CountOK
    <3> QED
      BY <1>h, <1>m, <3>1, <3>2
  <2>3. FileOK(t)'
    BY <1>t, <1>p DEF ThreadOK, FileOK, Opening
  <2>4. OwnOK(t)'
    BY <1>t, <1>p DEF ThreadOK, HandleOK, OwnOK, Opening, Opened
  <2> QED
    BY <2>1, <2>2, <2>3, <2>4 DEF ThreadOK
<1>4. SharedOK' /\ FilesOK'
  BY <1>1, LocksGo
<1>5. LocksOK'
  <2>1. ASSUME Orderly(proc[t])', NEW g \in Files, Holds(t, g)' PROVE Reaches(t, g)'
    <3>1. Orderly(proc[t])
      BY <2>1 DEF Orderly
    <3>2. CASE Holds(t, g)
      BY <1>t, <3>1, <3>2 DEF IInv, LocksOK, Reaches
    <3>3. CASE g = f /\ ~Holds(t, f)
      <4>1. count[t][f] = 0 => owner[proc[t]][f] = NoThread
        BY DEF GetLock, f
      <4>2. count[t][f] # 0 => owner[proc[t]][f] = t
        <5>1. went[t] # "astray" /\ count[t][f] \in Int /\ Taken(t, f) \in Nat
          BY <1>t, <3>1 DEF TypesOK, CountType, Taken, Once, Orderly
        <5> QED
          BY <1>t, <5>1 DEF ThreadOK, CountOK, IInv, MutexesOK
      <4>3. ASSUME NEW u \in Threads, proc[u] = proc[t] PROVE ~Holds(u, f)
        <5>1. Holds(u, f) => owner[proc[t]][f] = u /\ u # NoThread
          BY <1>t, <3>1, <4>3, HoldsMutex, LockAssumption DEF Orderly
        <5> QED
          BY <3>3, <4>1, <4>2, <5>1
      <4>4. Free(proc[t], f)
        BY <1>t, <3>1, <4>3 DEF IInv, LocksOK
      <4> QED
        BY <3>3, <4>4 DEF Free, Reaches, Parts
    <3> QED
      BY <1>h, <2>1, <3>2, <3>3
  <2>2. \A g \in Files, x \in Parts : flock'[proc[t]][g][x] \in {flock[proc[t]][g][x], "none"}
    OBVIOUS
  <2> QED
    BY <1>1, <1>h, <2>1, <2>2, LocksKeep
<1> QED
  BY <1>1, <1>2, <1>3, <1>4, <1>5, <1>m, StepKeeps

LEMMA HeadLockKeeps == ASSUME IInv, NEW t \in Threads, HeadLock(t) PROVE IInv'
<1> DEFINE f == call[t].file
<1>t. TypesOK /\ StateOK /\ ThreadOK(t) /\ f \in Files /\ proc[t] \in Procs
  BY Types, Typed DEF IInv, ThreadsOK
<1>k. pc[t] = "headlock" /\ Lock(t, f, "i", "write") /\ UNCHANGED <<proc, went, idx, dat, owner, count, handle, call>>
  BY DEF HeadLock
<1>p. pc' \in [Threads -> Steps] /\ pc'[t] = "heads" /\ \A u \in Threads \ {t} : pc'[u] = pc[u]
  BY <1>t, GoesTo DEF Steps, HeadLock
<1>l. /\ flock' \in FlockType
      /\ \A q \in Procs, g \in Files, x \in Parts :
            flock'[q][g][x] = IF q = proc[t] /\ g = f /\ x = "i" THEN "write" ELSE flock[q][g][x]
  <2>1. flock' = SetLock(t, f, "i", "write") /\ "write" \in Modes \cup {"none"} /\ "i" \in Parts
    BY <1>k DEF Lock, Modes, Parts
  <2> QED
    BY <1>t, <2>1, OneLock
<1>h. \A g \in Files : Taken(t, g)' = Taken(t, g) /\ (Holds(t, g)' <=> Holds(t, g))
  BY <1>k, <1>p DEF Taken, Holds
<1>1. StepOf(t)
  BY <1>k, <1>l, <1>p DEF StepOf
<1>2. TypesOK'
  BY <1>t, <1>k, <1>l, <1>p DEF TypesOK
<1>3. ThreadOK(t)'
  <2>1. HandleOK(t)' /\ FileOK(t)'
    BY <1>t, <1>k, <1>p DEF ThreadOK, HandleOK, FileOK, Opening, Opened
  <2>2. CountOK(t)'
    BY <1>t, <1>h, <1>k DEF ThreadOK, CountOK
  <2>3. OwnOK(t)'
    BY <1>t, <1>k, <1>l, <1>p DEF ThreadOK, HandleOK, OwnOK, Has, Opening, Opened, Parts
  <2> QED
    BY <2>1, <2>2, <2>3 DEF ThreadOK
<1>4. SharedOK' /\ FilesOK'
  <2>1. idx[f] # "none" /\ "i" \in Parts /\ "write" \in Modes
    BY <1>t, <1>k DEF ThreadOK, FileOK, Opening, Parts, Modes
  <2> QED
    BY <1>t, <1>k, <2>1, LockTaken
<1>5. LocksOK'
  <2>1. ASSUME Orderly(proc[t])', NEW g \in Files, Holds(t, g)' PROVE Reaches(t, g)'
    <3>1. Orderly(proc[t])
      BY <1>k, <2>1 DEF Orderly
    <3>2. Reaches(t, g)
      BY <1>t, <1>h, <2>1, <3>1 DEF IInv, LocksOK
    <3>3. handle[t].ifd = f
      BY <1>t, <1>k DEF ThreadOK, HandleOK, Opening
    <3> QED
      BY <1>t, <1>k, <1>l, <3>2, <3>3 DEF Reaches, Parts
  <2>2. Holds(t, f) /\ Holds(t, f)'
    BY <1>k, <1>p DEF Holds
  <2>3. \A g \in Files, x \in Parts : flock'[proc[t]][g][x] \in {flock[proc[t]][g][x], "none"} \/ g = f
    BY <1>t, <1>l
  <2> QED
    BY <1>1, <1>h, <2>1, <2>2, <2>3, LocksKeep
<1>6. MutexesOK'
  BY <1>k DEF IInv, MutexesOK
<1> QED
  BY <1>1, <1>2, <1>3, <1>4, <1>5, <1>6, StepKeeps

LEMMA LockIndexKeeps == ASSUME IInv, NEW t \in Threads, LockIndex(t) PROVE IInv'
<1> DEFINE f == call[t].file
           m == call[t].mode
           h == [handle[t] EXCEPT !.locked = TRUE]
<1>t. TypesOK /\ StateOK /\ ThreadOK(t) /\ f \in Files /\ m \in Modes /\ proc[t] \in Procs
  BY Types, Typed DEF IInv, ThreadsOK
<1>k. /\ pc[t] = "locki" /\ Lock(t, f, "i", m) /\ handle' = [handle EXCEPT ![t] = h]
      /\ UNCHANGED <<proc, went, idx, dat, owner, count, call>>
  BY DEF LockIndex
<1>g. /\ handle' \in [Threads -> Handles]
      /\ \A u \in Threads : handle'[u] = IF u = t THEN h ELSE handle[u]
  <2>1. h \in Handles
    BY <1>t, Typed DEF Handles
  <2> QED
    BY <1>t, <1>k, <2>1, NewHandle
<1>r. /\ h.file = handle[t].file /\ h.opened = handle[t].opened /\ h.locked = TRUE
      /\ h.sfd = handle[t].sfd /\ h.ifd = handle[t].ifd
  BY <1>t, Typed DEF Handles
<1> HIDE DEF h
<1>p. pc' \in [Threads -> Steps] /\ pc'[t] = "opens" /\ \A u \in Threads \ {t} : pc'[u] = pc[u]
  BY <1>t, GoesTo DEF Steps, LockIndex
<1>l. /\ flock' \in FlockType
      /\ \A q \in Procs, g \in Files, x \in Parts :
            flock'[q][g][x] = IF q = proc[t] /\ g = f /\ x = "i" THEN m ELSE flock[q][g][x]
  <2>1. flock' = SetLock(t, f, "i", m) /\ m \in Modes \cup {"none"} /\ "i" \in Parts
    BY <1>t, <1>k DEF Lock, Parts
  <2> QED
    BY <1>t, <2>1, OneLock
<1>f. handle[t].file = f /\ handle[t].ifd = f /\ idx[f] # "none" /\ ~handle[t].opened
      /\ (went[t] = "no" => ~handle[t].locked)
  BY <1>t, <1>k DEF ThreadOK, HandleOK, FileOK, Opening
<1>h. \A g \in Files : (Holds(t, g)' <=> Holds(t, g))
  BY <1>f, <1>g, <1>k, <1>p, <1>r DEF Holds
<1>1. StepOf(t)
  BY <1>g, <1>k, <1>l, <1>p DEF StepOf
<1>2. TypesOK'
  BY <1>t, <1>g, <1>k, <1>l, <1>p DEF TypesOK
<1>3. ThreadOK(t)'
  <2>1. HandleOK(t)' /\ FileOK(t)'
    BY <1>t, <1>f, <1>g, <1>k, <1>p, <1>r DEF ThreadOK, HandleOK, FileOK, Opening, Opened
  <2>2. CountOK(t)'
    <3> SUFFICES ASSUME NEW g \in Files
                 PROVE  /\ went[t] # "astray" => count[t][g] >= Taken(t, g)'
                        /\ went[t] = "no" => count[t][g] = Taken(t, g)'
      BY <1>k DEF CountOK
    <3>1. count[t][g] \in Int
      BY <1>t DEF TypesOK, CountType
    <3>2. /\ went[t] # "astray" => count[t][g] >= Taken(t, g)
          /\ went[t] = "no" => count[t][g] = Taken(t, g)
      BY <1>t DEF ThreadOK, CountOK
    <3>3. Taken(t, g)' = Once(f = g) /\ Taken(t, g) = Once(handle[t].locked /\ f = g) + Once(f = g)
      BY <1>f, <1>g, <1>k, <1>p, <1>r DEF Taken, Once
    <3> QED
      BY <1>f, <3>1, <3>2, <3>3 DEF Once
  <2>3. OwnOK(t)'
    BY <1>t, <1>f, <1>g, <1>k, <1>l, <1>p, <1>r DEF OwnOK, Has, Opened, Parts
  <2> QED
    BY <2>1, <2>2, <2>3 DEF ThreadOK
<1>4. SharedOK' /\ FilesOK'
  <2>1. "i" \in Parts
    BY DEF Parts
  <2> QED
    BY <1>t, <1>f, <1>k, <2>1, LockTaken
<1>5. LocksOK'
  <2>1. ASSUME Orderly(proc[t])', NEW g \in Files, Holds(t, g)' PROVE Reaches(t, g)'
    <3>1. Orderly(proc[t])
      BY <1>k, <2>1 DEF Orderly
    <3>2. Reaches(t, g)
      BY <1>t, <1>h, <2>1, <3>1 DEF IInv, LocksOK
    <3> QED
      BY <1>t, <1>f, <1>g, <1>k, <1>l, <1>r, <3>2 DEF Reaches, Parts
  <2>2. Holds(t, f) /\ Holds(t, f)'
    BY <1>f, <1>g, <1>k, <1>r DEF Holds
  <2>3. \A g \in Files, x \in Parts : flock'[proc[t]][g][x] \in {flock[proc[t]][g][x], "none"} \/ g = f
    BY <1>t, <1>l
  <2> QED
    BY <1>1, <1>h, <2>1, <2>2, <2>3, LocksKeep
<1>6. MutexesOK'
  BY <1>k DEF IInv, MutexesOK
<1> QED
  BY <1>1, <1>2, <1>3, <1>4, <1>5, <1>6, StepKeeps

LEMMA LockDataKeeps == ASSUME IInv, NEW t \in Threads, LockData(t) PROVE IInv'
<1> DEFINE f == call[t].file
           m == call[t].mode
<1>t. TypesOK /\ StateOK /\ ThreadOK(t) /\ f \in Files /\ m \in Modes /\ proc[t] \in Procs
  BY Types, Typed DEF IInv, ThreadsOK
<1>k. pc[t] = "locks" /\ Lock(t, f, "s", m) /\ UNCHANGED <<proc, went, idx, dat, owner, count, handle, call>>
  BY DEF LockData
<1>p. pc' \in [Threads -> Steps] /\ pc'[t] = "search" /\ \A u \in Threads \ {t} : pc'[u] = pc[u]
  BY <1>t, GoesTo DEF Steps, LockData
<1>l. /\ flock' \in FlockType
      /\ \A q \in Procs, g \in Files, x \in Parts :
            flock'[q][g][x] = IF q = proc[t] /\ g = f /\ x = "s" THEN m ELSE flock[q][g][x]
  <2>1. flock' = SetLock(t, f, "s", m) /\ m \in Modes \cup {"none"} /\ "s" \in Parts
    BY <1>t, <1>k DEF Lock, Parts
  <2> QED
    BY <1>t, <2>1, OneLock
<1>f. handle[t].file = f /\ handle[t].sfd = f /\ dat[f] /\ ~handle[t].opened /\ handle[t].locked
  BY <1>t, <1>k DEF ThreadOK, HandleOK, FileOK, Opening, Opened
<1>h. \A g \in Files : Taken(t, g)' = Taken(t, g) /\ (Holds(t, g)' <=> Holds(t, g))
  BY <1>k, <1>p DEF Taken, Holds
<1>1. StepOf(t)
  BY <1>k, <1>l, <1>p DEF StepOf
<1>2. TypesOK'
  BY <1>t, <1>k, <1>l, <1>p DEF TypesOK
<1>3. ThreadOK(t)'
  <2>1. HandleOK(t)' /\ FileOK(t)'
    BY <1>t, <1>k, <1>p DEF ThreadOK, HandleOK, FileOK, Opening, Opened
  <2>2. CountOK(t)'
    BY <1>t, <1>h, <1>k DEF ThreadOK, CountOK
  <2>3. OwnOK(t)'
    BY <1>t, <1>f, <1>k, <1>l, <1>p DEF ThreadOK, OwnOK, Alone, Has, Opened, Parts
  <2> QED
    BY <2>1, <2>2, <2>3 DEF ThreadOK
<1>4. SharedOK' /\ FilesOK'
  <2>1. "s" \in Parts
    BY DEF Parts
  <2> QED
    BY <1>t, <1>f, <1>k, <2>1, LockTaken
<1>5. LocksOK'
  <2>1. ASSUME Orderly(proc[t])', NEW g \in Files, Holds(t, g)' PROVE Reaches(t, g)'
    <3>1. Orderly(proc[t])
      BY <1>k, <2>1 DEF Orderly
    <3>2. Reaches(t, g)
      BY <1>t, <1>h, <2>1, <3>1 DEF IInv, LocksOK
    <3> QED
      BY <1>t, <1>f, <1>k, <1>l, <3>2 DEF Reaches, Parts
  <2>2. Holds(t, f) /\ Holds(t, f)'
    BY <1>f, <1>k DEF Holds
  <2>3. \A g \in Files, x \in Parts : flock'[proc[t]][g][x] \in {flock[proc[t]][g][x], "none"} \/ g = f
    BY <1>t, <1>l
  <2> QED
    BY <1>1, <1>h, <2>1, <2>2, <2>3, LocksKeep
<1>6. MutexesOK'
  BY <1>k DEF IInv, MutexesOK
<1> QED
  BY <1>1, <1>2, <1>3, <1>4, <1>5, <1>6, StepKeeps

LEMMA WriteHeadsKeeps == ASSUME IInv, NEW t \in Threads, WriteHeads(t) PROVE IInv'
<1> DEFINE f == call[t].file
<1>t. TypesOK /\ StateOK /\ ThreadOK(t) /\ f \in Files /\ proc[t] \in Procs
  BY Types, Typed DEF IInv, ThreadsOK
<1>k. /\ pc[t] = "heads" /\ flock' = SetLock(t, f, "i", "none") /\ ReleaseLock(t, f)
      /\ UNCHANGED <<proc, went, dat, handle>>
  BY DEF WriteHeads, Unlock
<1>i. idx' \in [Files -> {"none", "empty", "heads"}] /\ \A g \in Files : idx[g] # "none" => idx'[g] # "none"
  BY <1>t DEF TypesOK, WriteHeads
<1>p. /\ pc' \in [Threads -> Steps] /\ call' \in [Threads -> Calls]
      /\ \A u \in Threads \ {t} : pc'[u] = pc[u] /\ call'[u] = call[u]
      /\ pc'[t] = "idle" \/ (pc'[t] = "mutex" /\ call'[t] = call[t] /\ idx'[f] # "none")
  <2>1. CASE idx' = [idx EXCEPT ![f] = "heads"] /\ Resume(t, "mutex")
    BY <1>t, <2>1, Resumed DEF TypesOK, Steps
  <2>2. CASE Return(t)
    BY <1>t, <2>2, Returned
  <2> QED
    BY <2>1, <2>2 DEF WriteHeads
<1>l. /\ flock' \in FlockType
      /\ \A q \in Procs, g \in Files, x \in Parts :
            flock'[q][g][x] = IF q = proc[t] /\ g = f /\ x = "i" THEN "none" ELSE flock[q][g][x]
  <2>1. "none" \in Modes \cup {"none"} /\ "i" \in Parts
    BY DEF Parts
  <2> QED
    BY <1>t, <1>k, <2>1, OneLock
<1>m. /\ MutexesOK' /\ owner' \in OwnerType /\ count' \in CountType
      /\ \A u \in Threads \ {t} : count'[u] = count[u]
      /\ \A g \in Files : count'[t][g] = count[t][g] - Once(g = f)
  BY <1>t, <1>k, MutexReleased
<1>f. handle[t].file = f /\ handle[t].ifd = f /\ ~handle[t].opened /\ (handle[t].locked \/ handle[t].sfd = NoFile)
      /\ (went[t] = "no" => ~handle[t].locked)
  BY <1>t, <1>k DEF ThreadOK, HandleOK, Opening
<1> HIDE DEF f
<1>h. /\ \A g \in Files : Taken(t, g)' = Taken(t, g) - Once(g = f)
      /\ \A g \in Files : Holds(t, g)' <=> (handle[t].locked /\ g = f)
      /\ Holds(t, f)
  BY <1>f, <1>k, <1>p, <1>t DEF Taken, Once, Holds, f
<1>1. StepOf(t)
  BY <1>i, <1>k, <1>l, <1>m, <1>p DEF StepOf
<1>2. TypesOK'
  BY <1>t, <1>i, <1>k, <1>l, <1>m, <1>p DEF TypesOK
<1>3. ThreadOK(t)'
  <2>1. HandleOK(t)'
    BY <1>t, <1>f, <1>k, <1>p DEF ThreadOK, HandleOK, Opening, Opened, f
  <2>2. CountOK(t)'
    <3> SUFFICES ASSUME NEW g \in Files
                 PROVE  /\ went[t] # "astray" => count'[t][g] >= Taken(t, g)'
                        /\ went[t] = "no" => count'[t][g] = Taken(t, g)'
      BY <1>k DEF CountOK
    <3>1. count[t][g] \in Int /\ Taken(t, g) \in Int /\ Once(g = f) \in Int
      BY <1>t DEF TypesOK, CountType, Taken, Once
    <3>2. /\ went[t] # "astray" => count[t][g] >= Taken(t, g)
          /\ went[t] = "no" => count[t][g] = Taken(t, g)
      BY <1>t DEF ThreadOK, CountOK
    <3> QED
      BY <1>h, <1>m, <3>1, <3>2
  <2>3. FileOK(t)'
    BY <1>p DEF FileOK, Opening, f
  <2>4. OwnOK(t)'
    BY <1>f, <1>k, <1>p DEF OwnOK, Opened
  <2> QED
    BY <2>1, <2>2, <2>3, <2>4 DEF ThreadOK
<1>d. \A g \in Files, x \in Parts : flock'[proc[t]][g][x] \in {flock[proc[t]][g][x], "none"}
  BY <1>t, <1>l
<1>4. SharedOK' /\ FilesOK'
  BY <1>1, <1>d, LocksGo
<1>5. LocksOK'
  <2> SUFFICES ASSUME Orderly(proc[t])', NEW g \in Files
               PROVE  /\ Holds(t, g)' => Reaches(t, g)'
                      /\ Holds(t, g) /\ ~Holds(t, g)' => Free(proc[t], g)'
    BY <1>1, <1>d, LocksKeep
  <2>1. Orderly(proc[t])
    BY <1>k DEF Orderly
  <2>2. Reaches(t, f)
    BY <1>t, <1>h, <2>1 DEF IInv, LocksOK
  <2>3. Holds(t, g) => g = f
    BY <1>f, <1>k DEF Holds, f
  <2>4. Holds(t, g)' => Reaches(t, g)'
    BY <1>t, <1>d, <1>h, <1>k, <2>2 DEF Reaches, Parts
  <2>5. ASSUME Holds(t, g), ~Holds(t, g)' PROVE Free(proc[t], g)'
    <3>1. g = f /\ handle[t].sfd = NoFile
      BY <1>f, <1>h, <2>3, <2>5
    <3>2. flock[proc[t]][f]["s"] = "none"
      BY <1>t, <2>2, <3>1, LockAssumption DEF Reaches
    <3>3. flock'[proc[t]][f]["i"] = "none" /\ flock'[proc[t]][f]["s"] = "none"
      BY <1>t, <1>l, <3>2 DEF Parts
    <3> QED
      BY <1>k, <3>1, <3>3 DEF Free, Parts
  <2> QED
    BY <2>4, <2>5
<1> QED
  BY <1>1, <1>2, <1>3, <1>4, <1>5, <1>m, StepKeeps

\* A step that changes the handle at most: the lemmas below say how.
LEMMA HandleStep ==
    ASSUME IInv, NEW t \in Threads, NEW h \in Handles, handle' = [handle EXCEPT ![t] = h],
           UNCHANGED <<proc, idx, owner, count, flock, went>>,
           dat' \in [Files -> BOOLEAN], \A f \in Files : dat[f] => dat'[f],
           pc' \in [Threads -> Steps], call' \in [Threads -> Calls],
           \A u \in Threads \ {t} : pc'[u] = pc[u] /\ call'[u] = call[u],
           HandleOK(t)', FileOK(t)', OwnOK(t)',
           h.locked = handle[t].locked, h.file = handle[t].file, h.ifd = handle[t].ifd,
           h.sfd = handle[t].sfd \/ (handle[t].locked => h.sfd = h.file \/ ~dat[h.file]),
           pc[t] \notin {"headlock", "heads", "locki"}, pc'[t] \notin {"headlock", "heads", "locki"}
    PROVE  IInv'
<1>t. TypesOK /\ StateOK /\ proc[t] \in Procs
  BY Types, Typed DEF IInv
<1>h. /\ handle' \in [Threads -> Handles]
      /\ \A u \in Threads : handle'[u] = IF u = t THEN h ELSE handle[u]
  BY <1>t, NewHandle
<1>1. StepOf(t)
  BY <1>h DEF StepOf
<1>2. TypesOK'
  BY <1>t, <1>h DEF TypesOK
<1>3. \A g \in Files : Taken(t, g)' = Taken(t, g) /\ (Holds(t, g)' <=> Holds(t, g))
  BY <1>h DEF Taken, Holds
<1>4. ASSUME NEW g \in Files, Holds(t, g), Reaches(t, g) PROVE Reaches(t, g)'
  <2>1. handle[t].locked /\ handle[t].file = g
    BY <1>4 DEF Holds
  <2>2. flock[proc[t]][g]["s"] # "none" => dat[g]
    BY <1>t DEF IInv, FilesOK
  <2> QED
    BY <1>4, <1>h, <2>1, <2>2 DEF Reaches
<1> QED
  BY <1>1, <1>2, <1>3, <1>4, QuietStep

LEMMA OpenDataKeeps == ASSUME IInv, NEW t \in Threads, OpenData(t) PROVE IInv'
<1> DEFINE f == call[t].file
           h == [handle[t] EXCEPT !.sfd = f]
<1>t. TypesOK /\ StateOK /\ ThreadOK(t) /\ f \in Files
  BY Types, Typed DEF IInv, ThreadsOK
<1>k. /\ pc[t] = "opens" /\ handle' = [handle EXCEPT ![t] = h] /\ dat' = [dat EXCEPT ![f] = TRUE]
      /\ UNCHANGED <<proc, idx, owner, count, flock, went, call>>
  BY DEF OpenData
<1>h. h \in Handles /\ \A u \in Threads : handle'[u] = IF u = t THEN h ELSE handle[u]
  <2>1. h \in Handles
    BY <1>t, Typed DEF Handles
  <2> QED
    BY <1>t, <1>k, <2>1, NewHandle
<1>r. /\ h.file = handle[t].file /\ h.opened = handle[t].opened /\ h.locked = handle[t].locked
      /\ h.ifd = handle[t].ifd /\ h.sfd = f
  BY <1>t, Typed DEF Handles
<1> HIDE DEF h
<1>p. pc' \in [Threads -> Steps] /\ pc'[t] = "locks" /\ \A u \in Threads \ {t} : pc'[u] = pc[u]
  BY <1>t, GoesTo DEF Steps, OpenData
<1>d. dat' \in [Files -> BOOLEAN] /\ dat'[f] /\ \A g \in Files : dat[g] => dat'[g]
  BY <1>t, <1>k DEF TypesOK
<1>f. handle[t].file = f
  BY <1>t, <1>k DEF ThreadOK, HandleOK, Opened
<1>1. HandleOK(t)'
  BY <1>t, <1>h, <1>k, <1>p, <1>r DEF ThreadOK, HandleOK, Opening, Opened
<1>2. FileOK(t)'
  BY <1>d, <1>k, <1>p DEF FileOK, Opening
<1>3. OwnOK(t)'
  BY <1>t, <1>h, <1>k, <1>p, <1>r DEF ThreadOK, HandleOK, OwnOK, Has, Alone, Opened
<1>4. call' \in [Threads -> Calls]
  BY <1>t, <1>k DEF TypesOK
<1> QED
  BY <1>1, <1>2, <1>3, <1>4, <1>d, <1>f, <1>h, <1>k, <1>p, <1>r, HandleStep

LEMMA SearchKeeps == ASSUME IInv, NEW t \in Threads, Search(t) PROVE IInv'
<1> DEFINE h == [handle[t] EXCEPT !.opened = TRUE, !.mode = call[t].mode]
<1>t. TypesOK /\ StateOK /\ ThreadOK(t)
  BY Types DEF IInv, ThreadsOK
<1>k. /\ pc[t] = "search" /\ handle' = [handle EXCEPT ![t] = h]
      /\ UNCHANGED <<proc, idx, dat, owner, count, flock, went, call>>
  BY DEF Search, shared
<1>h. h \in Handles /\ \A u \in Threads : handle'[u] = IF u = t THEN h ELSE handle[u]
  <2>1. h \in Handles
    BY <1>t, Typed DEF Handles
  <2> QED
    BY <1>t, <1>k, <2>1, NewHandle
<1>r. /\ h.file = handle[t].file /\ h.opened = TRUE /\ h.locked = handle[t].locked
      /\ h.ifd = handle[t].ifd /\ h.sfd = handle[t].sfd /\ h.mode = call[t].mode
  BY <1>t, Typed DEF Handles
<1> HIDE DEF h
<1>p. pc' \in [Threads -> Steps] /\ pc'[t] = "in" /\ \A u \in Threads \ {t} : pc'[u] = pc[u]
  BY <1>t, GoesTo DEF Steps, Search
<1>1. HandleOK(t)'
  BY <1>t, <1>h, <1>k, <1>p, <1>r DEF ThreadOK, HandleOK, Opening, Opened
<1>2. FileOK(t)'
  BY <1>p DEF FileOK, Opening
<1>3. OwnOK(t)'
  BY <1>t, <1>h, <1>k, <1>p, <1>r DEF ThreadOK, HandleOK, OwnOK, Has, Alone, Opened
<1>4. call' \in [Threads -> Calls] /\ dat' \in [Files -> BOOLEAN] /\ \A f \in Files : dat[f] => dat'[f]
  BY <1>t, <1>k DEF TypesOK
<1> QED
  BY <1>1, <1>2, <1>3, <1>4, <1>h, <1>k, <1>p, <1>r, HandleStep

LEMMA OpenFailsKeeps == ASSUME IInv, NEW t \in Threads, OpenFails(t) PROVE IInv'
<1> DEFINE h == [handle[t] EXCEPT !.sfd = IF pc[t] = "opens" THEN NoFile ELSE @]
<1>t. TypesOK /\ StateOK /\ ThreadOK(t)
  BY Types DEF IInv, ThreadsOK
<1>k. /\ handle' = [handle EXCEPT ![t] = h]
      /\ UNCHANGED <<proc, idx, dat, owner, count, flock, went>>
  BY DEF OpenFails, shared
<1>a. pc[t] \in {"opens", "create", "search"} /\ (pc[t] = "opens" => ~dat[call[t].file])
  BY DEF OpenFails
<1>h. h \in Handles /\ \A u \in Threads : handle'[u] = IF u = t THEN h ELSE handle[u]
  <2>1. h \in Handles
    BY <1>t, Typed DEF Handles
  <2> QED
    BY <1>t, <1>k, <2>1, NewHandle
<1>r. /\ h.file = handle[t].file /\ h.opened = handle[t].opened /\ h.locked = handle[t].locked
      /\ h.ifd = handle[t].ifd /\ h.sfd = IF pc[t] = "opens" THEN NoFile ELSE handle[t].sfd
  BY <1>t, Typed DEF Handles
<1> HIDE DEF h
<1>p. /\ pc' \in [Threads -> Steps] /\ call' \in [Threads -> Calls] /\ pc'[t] = "idle"
      /\ \A u \in Threads \ {t} : pc'[u] = pc[u] /\ call'[u] = call[u]
  BY <1>t, Returned DEF OpenFails
<1>f. handle[t].file = call[t].file /\ ~handle[t].opened
  BY <1>t, <1>a DEF ThreadOK, HandleOK, Opening, Opened
<1>1. HandleOK(t)'
  BY <1>t, <1>a, <1>f, <1>h, <1>p, <1>r DEF ThreadOK, HandleOK, Opening, Opened
<1>2. FileOK(t)' /\ OwnOK(t)'
  BY <1>f, <1>h, <1>p, <1>r DEF FileOK, OwnOK, Opening, Opened
<1>4. dat' \in [Files -> BOOLEAN] /\ \A f \in Files : dat[f] => dat'[f]
  BY <1>t, <1>k DEF TypesOK
<1> QED
  BY <1>1, <1>2, <1>4, <1>a, <1>f, <1>h, <1>k, <1>p, <1>r, HandleStep

\* Leave and Close.
LEMMA CallStep ==
    ASSUME IInv, NEW t \in Threads, pc[t] \in {"idle", "in"}, UNCHANGED <<proc, shared, handle, went>>,
           pc' \in [Threads -> Steps], call' \in [Threads -> Calls], pc'[t] \in {"idle", "unlock"},
           \A u \in Threads \ {t} : pc'[u] = pc[u] /\ call'[u] = call[u]
    PROVE  IInv'
<1>t. TypesOK /\ StateOK /\ ThreadOK(t)
  BY Types DEF IInv, ThreadsOK
<1>k. UNCHANGED <<proc, idx, dat, owner, count, flock, handle, went>>
  BY DEF shared
<1>h. handle[t] \in Handles /\ handle' = [handle EXCEPT ![t] = handle[t]]
  BY <1>t, <1>k DEF TypesOK
<1>1. HandleOK(t)' /\ FileOK(t)' /\ OwnOK(t)'
  BY <1>t, <1>k DEF ThreadOK, HandleOK, FileOK, OwnOK, Has, Alone, Opening, Opened
<1>4. dat' \in [Files -> BOOLEAN] /\ \A f \in Files : dat[f] => dat'[f]
  BY <1>t, <1>k DEF TypesOK
<1> QED
  BY <1>1, <1>4, <1>h, <1>k, HandleStep

LEMMA LeaveKeeps == ASSUME IInv, NEW t \in Threads, Leave(t) PROVE IInv'
<1>1. StateOK
  BY DEF IInv
<1> QED
  BY <1>1, Returned, CallStep DEF Leave

LEMMA CloseKeeps == ASSUME IInv, NEW t \in Threads, Close(t) PROVE IInv'
<1>1. StateOK
  BY DEF IInv
<1>2. pc' \in [Threads -> Steps] /\ pc'[t] = "unlock" /\ \A u \in Threads \ {t} : pc'[u] = pc[u]
  BY <1>1, GoesTo DEF Close, Steps
<1>3. call' \in [Threads -> Calls] /\ \A u \in Threads \ {t} : call'[u] = call[u]
  BY <1>1, NewCall, Typed DEF Close
<1> QED
  BY <1>1, <1>2, <1>3, CallStep DEF Close

LEMMA UnlockFilesKeeps == ASSUME IInv, NEW t \in Threads, UnlockFiles(t) PROVE IInv'
<1> DEFINE h == IF handle[t].opened THEN [handle[t] EXCEPT !.locked = FALSE] ELSE Closed
           l == IF handle[t].opened THEN "closes" ELSE Closing(t)
           f == handle[t].file
<1>t. TypesOK /\ StateOK /\ ThreadOK(t) /\ f \in Files /\ proc[t] \in Procs
  BY Types, Typed DEF IInv, ThreadsOK
<1>k. /\ pc[t] = "unlock" /\ handle' = [handle EXCEPT ![t] = h]
      /\ UNCHANGED <<proc, went, idx, dat, call>>
  BY DEF UnlockFiles
<1>h. /\ handle' \in [Threads -> Handles]
      /\ \A u \in Threads : handle'[u] = IF u = t THEN h ELSE handle[u]
  <2>1. h \in Handles
    BY <1>t, Typed DEF Handles
  <2> QED
    BY <1>t, <1>k, <2>1, NewHandle
<1>r. h.locked = FALSE /\ h.opened = handle[t].opened /\ (~h.opened => h.sfd = NoFile)
  BY <1>t, Typed DEF Handles, Closed
<1> HIDE DEF h
<1>p. /\ pc' \in [Threads -> Steps] /\ pc'[t] \in {"closes", "open", "idle"}
      /\ handle[t].opened <=> pc'[t] = "closes"
      /\ \A u \in Threads \ {t} : pc'[u] = pc[u]
  <2>1. l \in Steps /\ Goto(t, l) /\ l \in {"closes", "open", "idle"} /\ (handle[t].opened <=> l = "closes")
    BY DEF UnlockFiles, Closing, Steps
  <2> HIDE DEF l
  <2> QED
    BY <1>t, <2>1, GoesTo
<1>n. \A g \in Files : ~Holds(t, g)' /\ Taken(t, g)' = 0
  BY <1>h, <1>p, <1>r DEF Holds, Taken, Once
<1>o. \A g \in Files : Holds(t, g) <=> handle[t].locked /\ g = f
  BY <1>k DEF Holds
<1>l. /\ flock' \in FlockType
      /\ \A q \in Procs, g \in Files, x \in Parts :
            flock'[q][g][x] =
            IF handle[t].locked /\ q = proc[t] /\ g = (IF x = "i" THEN handle[t].ifd ELSE handle[t].sfd)
            THEN "none" ELSE flock[q][g][x]
  <2>1. CASE handle[t].locked
    <3> DEFINE left == [g \in Files |-> [x \in Parts |->
                           IF g = (IF x = "i" THEN handle[t].ifd ELSE handle[t].sfd)
                           THEN "none" ELSE flock[proc[t]][g][x]]]
    <3>1. flock' = [flock EXCEPT ![proc[t]] = left]
      BY <2>1 DEF UnlockFiles, Released
    <3>2. flock \in FlockType /\ left \in [Files -> [Parts -> Modes \cup {"none"}]]
      BY <1>t DEF TypesOK, FlockType
    <3>3. flock' \in FlockType /\ \A q \in Procs : flock'[q] = IF q = proc[t] THEN left ELSE flock[q]
      <4> HIDE DEF left
      <4> QED
        BY <1>t, <3>1, <3>2, OneChanges DEF FlockType
    <3>4. \A g \in Files, x \in Parts :
              left[g][x] = IF g = (IF x = "i" THEN handle[t].ifd ELSE handle[t].sfd)
                           THEN "none" ELSE flock[proc[t]][g][x]
      OBVIOUS
    <3> HIDE DEF left
    <3> QED
      BY <2>1, <3>3, <3>4
  <2>2. CASE ~handle[t].locked
    BY <1>t, <2>2 DEF UnlockFiles, TypesOK
  <2> QED
    BY <2>1, <2>2
<1>m. /\ MutexesOK' /\ owner' \in OwnerType /\ count' \in CountType
      /\ \A u \in Threads \ {t} : count'[u] = count[u]
      /\ \A g \in Files : count'[t][g] = count[t][g] - Once(handle[t].locked /\ g = f)
  <2>1. CASE handle[t].locked
    BY <1>t, <1>k, <2>1, MutexReleased DEF UnlockFiles
  <2>2. CASE ~handle[t].locked
    BY <1>t, <1>k, <2>2 DEF UnlockFiles, IInv, MutexesOK, TypesOK, CountType, Once
  <2> QED
    BY <2>1, <2>2
<1>1. StepOf(t)
  BY <1>h, <1>k, <1>l, <1>m, <1>p DEF StepOf
<1>2. TypesOK'
  BY <1>t, <1>h, <1>k, <1>l, <1>m, <1>p DEF TypesOK
<1>3. ThreadOK(t)'
  <2>1. HandleOK(t)'
    BY <1>h, <1>p, <1>r DEF HandleOK, Opening, Opened
  <2>2. CountOK(t)'
    <3> SUFFICES ASSUME NEW g \in Files
                 PROVE  /\ went[t] # "astray" => count'[t][g] >= Taken(t, g)'
                        /\ went[t] = "no" => count'[t][g] = Taken(t, g)'
      BY <1>k DEF CountOK
    <3>1. count[t][g] \in Int /\ Taken(t, g) = Once(handle[t].locked /\ g = f)
      BY <1>t, <1>k DEF TypesOK, CountType, Taken, Once
    <3>2. /\ went[t] # "astray" => count[t][g] >= Taken(t, g)
          /\ went[t] = "no" => count[t][g] = Taken(t, g)
      BY <1>t DEF ThreadOK, CountOK
    <3> QED
      BY <1>m, <1>n, <3>1, <3>2 DEF Once
  <2>3. FileOK(t)' /\ OwnOK(t)'
    BY <1>h, <1>p, <1>r DEF FileOK, OwnOK, Opening, Opened
  <2> QED
    BY <2>1, <2>2, <2>3 DEF ThreadOK
<1>d. \A g \in Files, x \in Parts : flock'[proc[t]][g][x] \in {flock[proc[t]][g][x], "none"}
  BY <1>t, <1>l
<1>4. SharedOK' /\ FilesOK'
  BY <1>1, <1>d, LocksGo
<1>5. LocksOK'
  <2>1. ASSUME Orderly(proc[t])', NEW g \in Files, Holds(t, g) PROVE Free(proc[t], g)'
    <3>1. Orderly(proc[t]) /\ handle[t].locked
      BY <1>k, <1>o, <2>1 DEF Orderly
    <3>2. Reaches(t, g)
      BY <1>t, <2>1, <3>1 DEF IInv, LocksOK
    <3>3. \A x \in Parts : flock'[proc[t]][g][x] = "none"
      BY <1>t, <1>l, <3>1, <3>2 DEF Reaches, Parts
    <3> QED
      BY <1>k, <3>3 DEF Free
  <2> QED
    BY <1>1, <1>d, <1>n, <2>1, LocksKeep
<1> QED
  BY <1>1, <1>2, <1>3, <1>4, <1>5, <1>m, StepKeeps

\* CloseData and CloseIndex.
LEMMA DropStep ==
    ASSUME IInv, NEW t \in Threads, NEW part \in Parts, pc[t] \in {"closes", "closei"},
           flock' = Unlock(t, handle[t].file, part), UNCHANGED <<proc, went, idx, dat, owner, count, call>>,
           \/ handle' = handle /\ Goto(t, "closei")
           \/ handle' = [handle EXCEPT ![t] = Closed] /\ Goto(t, Closing(t))
    PROVE  IInv'
<1>t. TypesOK /\ StateOK /\ ThreadOK(t) /\ proc[t] \in Procs /\ handle[t].file \in Files
  BY Types, Typed DEF IInv, ThreadsOK
<1>a. ~handle[t].locked
  BY <1>t DEF ThreadOK, HandleOK
<1>h. /\ handle' \in [Threads -> Handles] /\ pc' \in [Threads -> Steps]
      /\ \A u \in Threads \ {t} : pc'[u] = pc[u] /\ handle'[u] = handle[u]
      /\ \/ pc'[t] = "closei" /\ handle'[t] = handle[t]
         \/ pc'[t] \in {"open", "idle"} /\ handle'[t] = Closed
  <2>1. CASE handle' = handle /\ Goto(t, "closei")
    BY <1>t, <2>1, GoesTo DEF TypesOK, Steps
  <2>2. CASE handle' = [handle EXCEPT ![t] = Closed] /\ Goto(t, Closing(t))
    <3>1. Closing(t) \in Steps /\ Closing(t) \in {"open", "idle"}
      BY DEF Closing, Steps
    <3>2. pc' \in [Threads -> Steps] /\ \A u \in Threads : pc'[u] = IF u = t THEN Closing(t) ELSE pc[u]
      BY <1>t, <2>2, <3>1, GoesTo
    <3>3. handle' \in [Threads -> Handles] /\ \A u \in Threads : handle'[u] = IF u = t THEN Closed ELSE handle[u]
      BY <1>t, <2>2, NewHandle, Typed
    <3> QED
      BY <3>1, <3>2, <3>3
  <2> QED
    BY <2>1, <2>2
<1>l. /\ flock' \in FlockType
      /\ \A q \in Procs, g \in Files, x \in Parts :
            flock'[q][g][x] = IF q = proc[t] /\ g = handle[t].file /\ x = part THEN "none" ELSE flock[q][g][x]
  <2>1. flock' = SetLock(t, handle[t].file, part, "none") /\ "none" \in Modes \cup {"none"}
    BY DEF Unlock
  <2> QED
    BY <1>t, <2>1, OneLock
<1>n. /\ ~handle'[t].locked /\ (~handle'[t].opened => handle'[t].sfd = NoFile)
      /\ pc'[t] # "closei" => ~handle'[t].opened
  BY <1>t, <1>a, <1>h DEF ThreadOK, HandleOK, Closed
<1>o. \A g \in Files : ~Holds(t, g) /\ ~Holds(t, g)' /\ Taken(t, g)' = Taken(t, g)
  BY <1>a, <1>h, <1>n DEF Holds, Taken
<1>1. StepOf(t)
  BY <1>h, <1>l DEF StepOf
<1>2. TypesOK'
  BY <1>t, <1>h, <1>l DEF TypesOK
<1>3. ThreadOK(t)'
  <2>1. HandleOK(t)'
    BY <1>h, <1>n DEF HandleOK, Opening, Opened
  <2>2. CountOK(t)'
    BY <1>t, <1>o DEF ThreadOK, CountOK
  <2>3. FileOK(t)' /\ OwnOK(t)'
    BY <1>h, <1>n DEF FileOK, OwnOK, Opening, Opened
  <2> QED
    BY <2>1, <2>2, <2>3 DEF ThreadOK
<1>d. \A g \in Files, x \in Parts : flock'[proc[t]][g][x] \in {flock[proc[t]][g][x], "none"}
  BY <1>t, <1>l
<1>4. SharedOK' /\ FilesOK'
  BY <1>1, <1>d, LocksGo
<1>5. LocksOK'
  BY <1>1, <1>d, <1>o, LocksKeep
<1>6. MutexesOK'
  BY DEF IInv, MutexesOK
<1> QED
  BY <1>1, <1>2, <1>3, <1>4, <1>5, <1>6, StepKeeps

LEMMA DieKeeps == ASSUME IInv, NEW d \in Procs, Die(d) PROVE IInv'
<1>t. TypesOK /\ StateOK
  BY Types DEF IInv
<1>k. /\ UNCHANGED <<proc, idx, dat>>
      /\ owner' = [owner EXCEPT ![d] = [f \in Files |-> NoThread]]
      /\ flock' = [flock EXCEPT ![d] = [f \in Files |-> Unlocked]]
  BY DEF Die
<1>p. \A p \in Procs, f \in Files :
          /\ owner'[p][f] = IF p = d THEN NoThread ELSE owner[p][f]
          /\ \A x \in Parts : flock'[p][f][x] = IF p = d THEN "none" ELSE flock[p][f][x]
  BY <1>t, <1>k DEF TypesOK, OwnerType, FlockType, Unlocked
<1>f. owner' \in OwnerType /\ flock' \in FlockType
  BY <1>t, <1>k DEF TypesOK, OwnerType, FlockType, Unlocked
<1>d. \A t \in Threads : proc[t] = d =>
          /\ handle'[t] = Closed /\ call'[t] = NoCall /\ pc'[t] = "idle" /\ went'[t] = "no"
          /\ count'[t] = [f \in Files |-> 0]
  BY DEF Die
<1>u. \A t \in Threads : proc[t] # d =>
          /\ handle'[t] = handle[t] /\ call'[t] = call[t] /\ pc'[t] = pc[t] /\ went'[t] = went[t]
          /\ count'[t] = count[t]
  BY DEF Die
<1>g. \A t \in Threads : /\ handle[t] \in Handles /\ call[t] \in Calls /\ pc[t] \in Steps
                         /\ went[t] \in {"no", "on", "astray"} /\ count[t] \in [Files -> Int]
  BY <1>t DEF TypesOK, CountType
<1>h. /\ handle' \in [Threads -> Handles] /\ call' \in [Threads -> Calls] /\ pc' \in [Threads -> Steps]
      /\ went' \in [Threads -> {"no", "on", "astray"}] /\ count' \in CountType
  <2>1. \A t \in Threads : /\ handle'[t] \in Handles /\ call'[t] \in Calls /\ pc'[t] \in Steps
                           /\ went'[t] \in {"no", "on", "astray"} /\ count'[t] \in [Files -> Int]
    <3> SUFFICES ASSUME NEW t \in Threads
                 PROVE  /\ handle'[t] \in Handles /\ call'[t] \in Calls /\ pc'[t] \in Steps
                        /\ went'[t] \in {"no", "on", "astray"} /\ count'[t] \in [Files -> Int]
      OBVIOUS
    <3>1. CASE proc[t] = d
      BY <1>t, <1>d, <3>1, Typed DEF Steps
    <3>2. CASE proc[t] # d
      BY <1>g, <1>u, <3>2
    <3> QED
      BY <3>1, <3>2
  <2>2. /\ handle' = [t \in Threads |-> handle'[t]] /\ call' = [t \in Threads |-> call'[t]]
        /\ pc' = [t \in Threads |-> pc'[t]] /\ went' = [t \in Threads |-> went'[t]]
        /\ count' = [t \in Threads |-> count'[t]]
    BY DEF Die
  <2> QED
    BY <2>1, <2>2 DEF CountType
<1>1. ThreadsOK'
  <2> SUFFICES ASSUME NEW t \in Threads PROVE ThreadOK(t)'
    BY DEF ThreadsOK
  <2>1. CASE proc[t] = d
    <3>1. /\ ~handle'[t].opened /\ ~handle'[t].locked /\ handle'[t].sfd = NoFile
          /\ pc'[t] = "idle" /\ \A f \in Files : count'[t][f] = 0
      <4>1. Closed.opened = FALSE /\ Closed.locked = FALSE /\ Closed.sfd = NoFile
        BY DEF Closed
      <4>2. handle'[t] = Closed /\ pc'[t] = "idle" /\ count'[t] = [f \in Files |-> 0]
        BY <1>d, <2>1
      <4>3. \A f \in Files : count'[t][f] = 0
        BY <4>2
      <4> QED
        BY <4>1, <4>2, <4>3
    <3>2. HandleOK(t)'
      BY <3>1 DEF HandleOK, Opening, Opened
    <3>3. FileOK(t)' /\ OwnOK(t)'
      BY <3>1 DEF FileOK, OwnOK, Opening, Opened
    <3>4. \A f \in Files : Taken(t, f)' = 0
      BY <3>1 DEF Taken, Once
    <3>5. CountOK(t)'
      <4> SUFFICES ASSUME NEW f \in Files PROVE count'[t][f] = Taken(t, f)' /\ count'[t][f] >= Taken(t, f)'
        BY DEF CountOK
      <4> QED
        BY <3>1, <3>4
    <3> QED
      BY <3>2, <3>3, <3>5 DEF ThreadOK
  <2>2. CASE proc[t] # d
    <3>1. ThreadOK(t) /\ proc[t] \in Procs /\ call[t].file \in Files /\ handle[t].file \in Files
      BY <1>t, Typed DEF IInv, ThreadsOK
    <3>2. HandleOK(t)' /\ FileOK(t)'
      BY <1>k, <1>u, <2>2, <3>1 DEF ThreadOK, HandleOK, FileOK
    <3>3. CountOK(t)'
      BY <1>u, <2>2, <3>1 DEF ThreadOK, CountOK, Taken
    <3>4. OwnOK(t)'
      BY <1>k, <1>p, <1>u, <2>2, <3>1 DEF ThreadOK, OwnOK, Alone, Has, Parts
    <3> QED
      BY <3>2, <3>3, <3>4 DEF ThreadOK
  <2> QED
    BY <2>1, <2>2
<1>2. MutexesOK'
  <2>1. ASSUME NEW t \in Threads, NEW f \in Files PROVE count'[t][f] >= 1 <=> owner'[proc'[t]][f] = t
    <3>1. proc[t] \in Procs /\ t # NoThread
      BY <1>t, Typed
    <3>2. CASE proc[t] = d
      BY <1>d, <1>k, <1>p, <3>1, <3>2
    <3>3. CASE proc[t] # d
      BY <1>k, <1>p, <1>u, <3>1, <3>3 DEF IInv, MutexesOK
    <3> QED
      BY <3>2, <3>3
  <2>2. \A p \in Procs, f \in Files : owner'[p][f] # NoThread => proc'[owner'[p][f]] = p
    BY <1>k, <1>p DEF IInv, MutexesOK
  <2> QED
    BY <2>1, <2>2 DEF MutexesOK
<1>3. FilesOK' /\ SharedOK'
  BY <1>k, <1>p DEF IInv, FilesOK, SharedOK, Parts
<1>4. LocksOK'
  <2> SUFFICES ASSUME NEW p \in Procs, NEW f \in Files, Orderly(p)'
               PROVE  /\ (\A t \in Threads : proc'[t] = p => ~Holds(t, f)') => Free(p, f)'
                      /\ \A t \in Threads : proc'[t] = p /\ Holds(t, f)' => Reaches(t, f)'
    BY DEF LocksOK
  <2>1. CASE p = d
    BY <1>k, <1>p, <2>1 DEF Free, Reaches, Parts
  <2>2. CASE p # d
    <3>1. /\ (\A t \in Threads : proc[t] = p => ~Holds(t, f)) => Free(p, f)
          /\ \A t \in Threads : proc[t] = p /\ Holds(t, f) => Reaches(t, f)
      <4>1. Orderly(p)
        BY <1>k, <1>u, <2>2 DEF Orderly
      <4> QED
        BY <4>1 DEF IInv, LocksOK
    <3>2. \A t \in Threads : proc[t] = p => (Holds(t, f)' <=> Holds(t, f)) /\ handle'[t] = handle[t]
      BY <1>u, <2>2 DEF Holds
    <3>3. \A x \in Parts : flock'[p][f][x] = flock[p][f][x]
      BY <1>p, <2>2
    <3>4. Free(p, f)' <=> Free(p, f)
      BY <3>3 DEF Free
    <3>5. ASSUME NEW t \in Threads, proc'[t] = p, Holds(t, f)' PROVE Reaches(t, f)'
      <4>1. proc[t] = p /\ Reaches(t, f)
        BY <1>k, <3>1, <3>2, <3>5
      <4> QED
        BY <1>k, <3>2, <3>3, <4>1 DEF Reaches, Parts
    <3> QED
      BY <1>k, <3>1, <3>2, <3>4, <3>5
  <2> QED
    BY <2>1, <2>2
<1>5. StateOK'
  <2>1. ASSUME NEW t \in Threads, NEW f \in Files, count'[t][f] < 0 PROVE went'[t] = "astray"
    <3>1. proc[t] # d
      BY <1>d, <2>1
    <3> QED
      BY <1>u, <2>1, <3>1 DEF IInv, StateOK
  <2> QED
    BY <1>t, <1>f, <1>h, <1>k, <2>1 DEF TypesOK, StateOK, OwnerType, CountType, FlockType
<1> QED
  BY <1>1, <1>2, <1>3, <1>4, <1>5 DEF IInv

LEMMA InitIInv == Init => IInv
<1> SUFFICES ASSUME Init PROVE IInv
  OBVIOUS
<1> USE LockAssumption
<1>1. (CHOOSE f \in Files : TRUE) \in Files
  OBVIOUS
<1>2. StateOK
  BY <1>1 DEF Init, StateOK, Unlocked, Closed, NoCall, Modes, Parts, Handles, Calls, Steps
<1>3. ThreadsOK
  <2> SUFFICES ASSUME NEW t \in Threads PROVE ThreadOK(t)
    BY DEF ThreadsOK
  <2>1. /\ ~handle[t].opened /\ ~handle[t].locked /\ handle[t].sfd = NoFile
        /\ pc[t] = "idle" /\ \A f \in Files : count[t][f] = 0
    BY DEF Init, Closed
  <2>2. HandleOK(t)
    BY <2>1 DEF HandleOK, Opening, Opened
  <2>3. FileOK(t) /\ OwnOK(t)
    BY <2>1 DEF FileOK, OwnOK, Opening, Opened
  <2>4. CountOK(t)
    BY <2>1 DEF CountOK, Taken, Once
  <2> QED
    BY <2>2, <2>3, <2>4 DEF ThreadOK
<1>4. MutexesOK
  BY DEF Init, MutexesOK
<1>5. \A p \in Procs, f \in Files, x \in Parts : flock[p][f][x] = "none"
  BY DEF Init, Unlocked
<1>6. FilesOK /\ SharedOK
  BY <1>5 DEF FilesOK, SharedOK, Parts
<1>7. LocksOK
  <2>1. \A t \in Threads : proc[t] \in Procs
    BY DEF Init
  <2> QED
    BY <1>5, <2>1 DEF LocksOK, Free, Reaches, Parts
<1> QED
  BY <1>2, <1>3, <1>4, <1>6, <1>7 DEF IInv

LEMMA StutterKeeps == ASSUME IInv, UNCHANGED vars PROVE IInv'
<1>1. UNCHANGED <<proc, idx, dat, owner, count, flock, handle, call, pc, went>>
  BY DEF vars, shared
<1>2. StateOK' /\ MutexesOK' /\ FilesOK' /\ SharedOK'
  BY <1>1 DEF IInv, StateOK, MutexesOK, FilesOK, SharedOK
<1>3. ThreadsOK'
  BY <1>1 DEF IInv, ThreadsOK, ThreadOK, HandleOK, CountOK, Taken, FileOK, OwnOK, Alone, Has
<1>4. LocksOK'
  BY <1>1 DEF IInv, LocksOK, Orderly, Holds, Free, Reaches
<1> QED
  BY <1>2, <1>3, <1>4 DEF IInv

LEMMA NextIInv == SettingOK /\ IInv /\ [Next]_vars => IInv'
<1> SUFFICES ASSUME SettingOK, IInv, [Next]_vars PROVE IInv'
  OBVIOUS
<1>1. ASSUME NEW t \in Threads, Seek(t) \/ Close(t) PROVE IInv'
  BY <1>1, SeekKeeps, CloseKeeps
<1>2. ASSUME NEW t \in Threads, Step(t) PROVE IInv'
  <2>1. CASE OpenIndex(t) \/ CreateIndex(t) \/ WriteHeads(t)
    BY <2>1, OpenIndexKeeps, CreateIndexKeeps, WriteHeadsKeeps
  <2>2. CASE OpenData(t) \/ OpenFails(t) \/ Search(t) \/ Leave(t)
    BY <2>2, OpenDataKeeps, OpenFailsKeeps, SearchKeeps, LeaveKeeps
  <2>3. CASE UnlockFiles(t)
    BY <2>3, UnlockFilesKeeps
  <2>4. CASE CloseData(t) \/ CloseIndex(t)
    BY <2>4, DropStep DEF CloseData, CloseIndex, Parts
  <2> QED
    BY <1>2, <2>1, <2>2, <2>3, <2>4 DEF Step
<1>3. ASSUME NEW t \in Threads, Wait(t) PROVE IInv'
  <2>1. CASE HeadMutex(t) \/ GetMutex(t)
    BY <2>1, MutexStep DEF HeadMutex, GetMutex
  <2>2. CASE HeadLock(t) \/ LockIndex(t) \/ LockData(t)
    BY <2>2, HeadLockKeeps, LockIndexKeeps, LockDataKeeps
  <2> QED
    BY <1>3, <2>1, <2>2 DEF Wait
<1>4. ASSUME NEW p \in Procs, Die(p) PROVE IInv'
  BY <1>4, DieKeeps
<1>5. CASE UNCHANGED vars
  BY <1>5, StutterKeeps
<1> QED
  BY <1>1, <1>2, <1>3, <1>4, <1>5 DEF Next

-----------------------------------------------------------------------------
(* The theorems. *)

\* What was chosen at the start stays.
LEMMA Settings == Spec => []SettingOK
<1>1. Init => SettingOK
  BY DEF Init, SettingOK
<1>2. SettingOK /\ [Next]_vars => SettingOK'
  <2>1. [Next]_vars => UNCHANGED <<numbers, faults>>
    BY DEF Next, Step, Wait, Seek, Close, OpenIndex, CreateIndex, HeadMutex, HeadLock, WriteHeads, GetMutex,
           LockIndex, OpenData, LockData, Search, OpenFails, Leave, UnlockFiles, CloseData, CloseIndex, Die, vars
  <2> QED
    BY <2>1 DEF SettingOK
<1> QED
  BY <1>1, <1>2, PTL DEF Spec

LEMMA Kept == Spec => []IInv
BY Settings, InitIInv, NextIInv, PTL DEF Spec

\* Every variable of the locks keeps its type, and no A->Locked goes below 0,
\* unless its agent went on with another file number after a failed call.
THEOREM LocksTyped == Spec => []TypeOK
<1>1. SettingOK /\ IInv => TypeOK
  BY DEF IInv, SettingOK, StateOK, TypeOK
<1> QED
  BY <1>1, Settings, Kept, PTL

\* Who is in the files of a number has its mutex, unless it went astray.
LEMMA InsideHolds ==
    ASSUME IInv, NEW t \in Threads, NEW f \in Files, Inside(t, f)
    PROVE  Holds(t, f)
  BY DEF IInv, ThreadsOK, ThreadOK, HandleOK, Inside, InFiles, Holds, Opened

\* Two threads of one process are never in the files of a number together, also
\* after they went on with a handle, as long as neither went astray.
THEOREM ThreadsExclude == Spec => []ThreadsExcluded
<1>1. ASSUME IInv PROVE ThreadsExcluded
  <2> SUFFICES ASSUME NEW s \in Threads, NEW t \in Threads, NEW f \in Files, s # t,
                      Inside(s, f), Inside(t, f), went[s] # "astray", went[t] # "astray"
               PROVE  proc[s] # proc[t]
    BY DEF ThreadsExcluded
  <2>1. owner[proc[s]][f] = s /\ owner[proc[t]][f] = t
    BY <1>1, InsideHolds, HoldsMutex
  <2> QED
    BY <2>1
<1> QED
  BY <1>1, Kept, PTL

\* A writer shares the files with no other process, if both have one thread,
\* whatever either went on with.
THEOREM LocksExclude == Spec => []Exclusion
<1>1. ASSUME IInv PROVE Exclusion
  <2>1. ASSUME NEW s \in Threads, NEW t \in Threads, NEW f \in Files, s # t,
               Inside(s, f), Inside(t, f), Alone(s), Alone(t)
        PROVE  ~Writes(s)
    <3>1. proc[s] # proc[t] /\ proc[s] \in Procs /\ proc[t] \in Procs
      BY <1>1, <2>1, Typed DEF Alone, IInv
    <3>2. ThreadOK(s) /\ ThreadOK(t)
      BY <1>1 DEF IInv, ThreadsOK
    <3>3. flock[proc[t]][f]["i"] # "none"
      <4>1. call[t].mode \in Modes /\ handle[t].mode \in Modes
        BY <1>1, Typed DEF IInv
      <4> QED
        BY <2>1, <3>2, <4>1 DEF ThreadOK, HandleOK, OwnOK, Has, Inside, InFiles, Opening, Opened, Modes
    <3>4. ASSUME Writes(s) PROVE flock[proc[s]][f]["i"] = "write"
      BY <2>1, <3>2, <3>4 DEF ThreadOK, HandleOK, OwnOK, Has, Inside, InFiles, Writes, Opening, Opened
    <3> QED
      BY <1>1, <2>1, <3>1, <3>3, <3>4 DEF IInv, SharedOK
  <2> QED
    BY <2>1 DEF Exclusion
<1> QED
  BY <1>1, Kept, PTL

\* Whatever return DpsBaseOpen took: a thread that never went on after it keeps
\* no mutex with a closed handle, and a process none of whose threads went
\* astray keeps no lock on a file that none of them uses.
THEOREM NoneKept == Spec => []NothingKept
<1>1. ASSUME IInv PROVE NothingKept
  <2>1. ASSUME NEW t \in Threads, NEW f \in Files, pc[t] = "idle", ~handle[t].locked, went[t] = "no"
        PROVE  owner[proc[t]][f] # t
    <3>1. count[t][f] = 0
      BY <1>1, <2>1 DEF IInv, ThreadsOK, ThreadOK, CountOK, Taken, Once
    <3> QED
      BY <1>1, <3>1 DEF IInv, MutexesOK
  <2>2. ASSUME NEW p \in Procs, NEW f \in Files,
               \A t \in Threads : proc[t] = p => went[t] # "astray" /\ ~Holds(t, f)
        PROVE  flock[p][f] = Unlocked
    <3>1. \A x \in Parts : flock[p][f][x] = "none"
      BY <1>1, <2>2 DEF IInv, LocksOK, Orderly, Free
    <3>2. flock[p][f] = [x \in Parts |-> flock[p][f][x]]
      BY <1>1 DEF IInv, StateOK
    <3> QED
      BY <3>1, <3>2 DEF Unlocked
  <2> QED
    BY <2>1, <2>2 DEF NothingKept
<1> QED
  BY <1>1, Kept, PTL
=============================================================================
