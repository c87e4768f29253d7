------------------------------ MODULE BaseLock ------------------------------
(* Who may be in a pair of files of base.c: DpsBaseOpen, DpsBaseSeek and     *)
(* DpsBaseClose of several threads in several processes, the mutexes of      *)
(* mutex.c and the fcntl locks of utils.c.  What a caller does in the files  *)
(* is the subject of Base, which takes exclusion as given.                   *)
EXTENDS Integers

CONSTANTS
    Threads,   \* agents, each with one DPS_BASE_PARAM
    Procs,     \* processes
    Files,     \* file numbers (FileNo)
    NoThread,  \* a free mutex
    NoFile,    \* no descriptor (-1)
    MaxHeld    \* bound: no caller goes on with a handle whose agent counts a mutex this often

ASSUME LockAssumption ==
    /\ NoThread \notin Threads
    /\ Files # {}
    /\ NoFile \notin Files
    /\ MaxHeld \in Nat

VARIABLES
    proc,    \* the process of a thread
    numbers, \* the file numbers of the records a thread asks for
    faults,  \* what may go wrong, of "create", "io" and "die"
    idx,     \* the .i file: "none", "empty" or "heads" (the head slots are written)
    dat,     \* is there a .s file?
    owner,   \* the mutex DPS_LOCK_BASE_N of each process: the agent that has it
    count,   \* A->Locked
    flock,   \* the fcntl locks a process has on the .i and the .s file
    handle,  \* opened, locked, mode, FileNo, Ifd, Sfd of the DPS_BASE_PARAM
    call,    \* the arguments of the call in progress
    pc,
    went     \* history: has a thread gone "on" with the handle of a failed call, or "astray"?

shared == <<idx, dat, owner, count, flock>>
vars   == <<proc, numbers, faults, shared, handle, call, pc, went>>

Modes    == {"read", "write"}   \* DPS_READ_LOCK, DPS_WRITE_LOCK
Parts    == {"i", "s"}          \* the index file .i and the data file .s
Unlocked == [part \in Parts |-> "none"]
Closed   == [opened |-> FALSE, locked |-> FALSE, mode |-> "read", file |-> CHOOSE f \in Files : TRUE,
             ifd |-> NoFile, sfd |-> NoFile]
NoCall   == [kind |-> "none", file |-> CHOOSE f \in Files : TRUE, mode |-> "read"]

Init ==
    /\ proc \in [Threads -> Procs]
    /\ numbers \in [Threads -> SUBSET Files]
    /\ faults \in SUBSET {"create", "io", "die"}
    /\ idx = [f \in Files |-> "none"]
    /\ dat = [f \in Files |-> FALSE]
    /\ owner = [p \in Procs |-> [f \in Files |-> NoThread]]
    /\ count = [t \in Threads |-> [f \in Files |-> 0]]
    /\ flock = [p \in Procs |-> [f \in Files |-> Unlocked]]
    /\ handle = [t \in Threads |-> Closed]
    /\ call = [t \in Threads |-> NoCall]
    /\ pc = [t \in Threads |-> "idle"]
    /\ went = [t \in Threads |-> "no"]

-----------------------------------------------------------------------------
(* The locks. *)

\* Mutant of GetLock: the mutex is not waited for.
GetLockAlways(t, f) ==
    /\ owner' = [owner EXCEPT ![proc[t]][f] = t]
    /\ count' = [count EXCEPT ![t][f] = @ + 1]

\* Mutant of GetLock: A->Locked is not counted up.
GetLockUncounted(t, f) ==
    /\ count[t][f] = 0 => owner[proc[t]][f] = NoThread
    /\ owner' = [owner EXCEPT ![proc[t]][f] = t]
    /\ UNCHANGED count

\* DPS_GETLOCK: an agent whose count is not 0 only counts (DpsLockProc).
GetLock(t, f) ==
    /\ IF count[t][f] = 0
       THEN owner[proc[t]][f] = NoThread /\ owner' = [owner EXCEPT ![proc[t]][f] = t]
       ELSE UNCHANGED owner
    /\ count' = [count EXCEPT ![t][f] = @ + 1]

\* DPS_RELEASELOCK: the mutex is free when the count comes to 0.
ReleaseLock(t, f) ==
    /\ count' = [count EXCEPT ![t][f] = @ - 1]
    /\ owner' = IF count[t][f] = 1 THEN [owner EXCEPT ![proc[t]][f] = NoThread] ELSE owner

SetLock(t, f, part, m) == [flock EXCEPT ![proc[t]][f][part] = m]

Excludes(m, n) == n # "none" /\ "write" \in {m, n}

\* Mutant of Lock: F_SETLK, whose refusal nobody looks at.
LockAtOnce(t, f, part, m) ==
    flock' = IF \E p \in Procs \ {proc[t]} : Excludes(m, flock[p][f][part])
             THEN flock ELSE SetLock(t, f, part, m)

\* DpsReadLock and DpsWriteLock: F_SETLKW waits for the locks of other processes only.
Lock(t, f, part, m) ==
    /\ \A p \in Procs \ {proc[t]} : ~Excludes(m, flock[p][f][part])
    /\ flock' = SetLock(t, f, part, m)

\* DpsUnLock, and DpsClose: a process that closes any descriptor of a file
\* drops its locks of the file, the ones other threads have taken included.
Unlock(t, f, part) == SetLock(t, f, part, "none")

Goto(t, l) == pc' = [pc EXCEPT ![t] = l]

-----------------------------------------------------------------------------
(* DpsBaseOpen and DpsBaseSeek. *)

\* DpsBaseSeek goes on with an open handle if the file and the mode fit.
Fits(t, f, m) ==
    handle[t].opened /\ handle[t].file = f /\ ~(handle[t].mode = "read" /\ m = "write")

\* A call that failed has left the handle locked, and no DpsBaseClose came since.
Failed(t) == handle[t].locked /\ ~handle[t].opened

\* A caller may go on with such a handle, as DpsFindWordsCache (cache.c:2591)
\* and DpsResAddDocInfoCache (cache.c:4701) do with their next record, be it
\* of the same file number or of another.
Seek(t) ==
    /\ pc[t] = "idle"
    /\ Failed(t) => \A g \in Files : count[t][g] \in (1 - MaxHeld)..(MaxHeld - 1)
    /\ \E f \in numbers[t], m \in Modes :
          /\ call' = [call EXCEPT ![t] = [kind |-> "seek", file |-> f, mode |-> m]]
          /\ went' = [went EXCEPT ![t] = IF ~Failed(t) THEN @
                                         ELSE IF f = handle[t].file /\ @ # "astray" THEN "on"
                                         ELSE "astray"]
          /\ Goto(t, IF Fits(t, f, m) THEN "in"
                     ELSE IF handle[t].opened THEN "unlock" ELSE "open")
    /\ UNCHANGED <<proc, numbers, faults, shared, handle>>

\* The call is over.
Return(t) == Goto(t, "idle") /\ call' = [call EXCEPT ![t] = NoCall]
Resume(t, l) == Goto(t, l) /\ UNCHANGED call

\* FileNo and Ifd are overwritten, P->locked is not.
OpenIndex(t) ==
    LET f == call[t].file IN
    /\ pc[t] = "open"
    /\ handle' = [handle EXCEPT ![t].file = f, ![t].ifd = IF idx[f] = "none" THEN NoFile ELSE f]
    /\ IF idx[f] = "none" /\ call[t].mode = "read" THEN Return(t)
       ELSE Resume(t, IF idx[f] = "none" THEN "create" ELSE "mutex")
    /\ UNCHANGED <<proc, numbers, faults, went, shared>>

\* O_CREAT without O_EXCL: another caller may have made the file meanwhile.
CreateIndex(t) ==
    /\ pc[t] = "create"
    /\ idx' = [idx EXCEPT ![call[t].file] = IF @ = "none" THEN "empty" ELSE @]
    /\ handle' = [handle EXCEPT ![t].ifd = call[t].file]
    /\ Goto(t, "headmutex")
    /\ UNCHANGED <<proc, numbers, faults, went, dat, owner, count, flock, call>>

HeadMutex(t) ==
    /\ pc[t] = "headmutex"
    /\ GetLock(t, call[t].file)
    /\ Goto(t, "headlock")
    /\ UNCHANGED <<proc, numbers, faults, went, idx, dat, flock, handle, call>>

HeadLock(t) ==
    /\ pc[t] = "headlock"
    /\ Lock(t, call[t].file, "i", "write")
    /\ Goto(t, "heads")
    /\ UNCHANGED <<proc, numbers, faults, went, idx, dat, owner, count, handle, call>>

\* Mutant of WriteHeads: the locks are released only when write() succeeds.
WriteHeadsLeave(t) ==
    LET f == call[t].file IN
    /\ pc[t] = "heads"
    /\ \/ /\ idx' = [idx EXCEPT ![f] = "heads"]
          /\ flock' = Unlock(t, f, "i")
          /\ ReleaseLock(t, f)
          /\ Resume(t, "mutex")
       \/ "io" \in faults /\ Return(t) /\ UNCHANGED <<idx, flock, owner, count>>
    /\ UNCHANGED <<proc, numbers, faults, went, dat, handle>>

\* hTable is written and the locks are released, also when write() fails.
WriteHeads(t) ==
    LET f == call[t].file IN
    /\ pc[t] = "heads"
    /\ \/ idx' = [idx EXCEPT ![f] = "heads"] /\ Resume(t, "mutex")
       \/ "io" \in faults /\ Return(t) /\ UNCHANGED idx
    /\ flock' = Unlock(t, f, "i")
    /\ ReleaseLock(t, f)
    /\ UNCHANGED <<proc, numbers, faults, went, dat, handle>>

GetMutex(t) ==
    /\ pc[t] = "mutex"
    /\ GetLock(t, call[t].file)
    /\ Goto(t, "locki")
    /\ UNCHANGED <<proc, numbers, faults, went, idx, dat, flock, handle, call>>

LockIndex(t) ==
    /\ pc[t] = "locki"
    /\ Lock(t, call[t].file, "i", call[t].mode)
    /\ handle' = [handle EXCEPT ![t].locked = TRUE]
    /\ Goto(t, "opens")
    /\ UNCHANGED <<proc, numbers, faults, went, idx, dat, owner, count, call>>

OpenData(t) ==
    LET f == call[t].file IN
    /\ pc[t] = "opens"
    /\ dat[f] \/ call[t].mode = "write"
    /\ dat' = [dat EXCEPT ![f] = TRUE]
    /\ handle' = [handle EXCEPT ![t].sfd = f]
    /\ Goto(t, "locks")
    /\ UNCHANGED <<proc, numbers, faults, went, idx, owner, count, flock, call>>

LockData(t) ==
    /\ pc[t] = "locks"
    /\ Lock(t, call[t].file, "s", call[t].mode)
    /\ Goto(t, "search")
    /\ UNCHANGED <<proc, numbers, faults, went, idx, dat, owner, count, handle, call>>

\* The record has been searched, and the handle is open.
Search(t) ==
    /\ pc[t] = "search"
    /\ handle' = [handle EXCEPT ![t].opened = TRUE, ![t].mode = call[t].mode]
    /\ Goto(t, "in")
    /\ UNCHANGED <<proc, numbers, faults, went, shared, call>>

\* The early returns: no .s file to read, a file that cannot be made, a failing read or write.
OpenFails(t) ==
    /\ \/ pc[t] = "opens" /\ ~dat[call[t].file] /\ (call[t].mode = "read" \/ "create" \in faults)
       \/ pc[t] = "create" /\ "create" \in faults
       \/ pc[t] = "search" /\ "io" \in faults
    /\ handle' = [handle EXCEPT ![t].sfd = IF pc[t] = "opens" THEN NoFile ELSE @]
    /\ Return(t)   \* what is locked stays locked
    /\ UNCHANGED <<proc, numbers, faults, went, shared>>

\* The caller has done with its record; the handle stays open.
Leave(t) ==
    /\ pc[t] = "in"
    /\ Return(t)
    /\ UNCHANGED <<proc, numbers, faults, went, shared, handle>>

-----------------------------------------------------------------------------
(* DpsBaseClose. *)

Close(t) ==
    /\ pc[t] = "idle"
    /\ handle[t].opened \/ handle[t].locked
    /\ call' = [call EXCEPT ![t] = NoCall]
    /\ Goto(t, "unlock")
    /\ UNCHANGED <<proc, numbers, faults, went, shared, handle>>

Closing(t) == IF call[t].kind = "seek" THEN "open" ELSE "idle"

\* DpsUnLock of both descriptors; of one that is -1 it does nothing.
Released(t) ==
    [flock EXCEPT ![proc[t]] = [f \in Files |-> [part \in Parts |->
        IF f = (IF part = "i" THEN handle[t].ifd ELSE handle[t].sfd) THEN "none" ELSE @[f][part]]]]

\* Mutant of UnlockFiles: a handle that is not open is left alone.
UnlockIfOpened(t) ==
    /\ pc[t] = "unlock"
    /\ IF handle[t].opened
       THEN flock' = Released(t) /\ ReleaseLock(t, handle[t].file)
       ELSE UNCHANGED <<owner, count, flock>>
    /\ handle' = [handle EXCEPT ![t] = IF @.opened THEN [@ EXCEPT !.locked = FALSE] ELSE Closed]
    /\ Goto(t, IF handle[t].opened THEN "closes" ELSE Closing(t))
    /\ UNCHANGED <<proc, numbers, faults, went, idx, dat, call>>

\* The locks of the files that Ifd and Sfd are open on and the mutex of FileNo
\* are released ...
UnlockFiles(t) ==
    /\ pc[t] = "unlock"
    /\ IF handle[t].locked
       THEN flock' = Released(t) /\ ReleaseLock(t, handle[t].file)
       ELSE UNCHANGED <<owner, count, flock>>
    /\ handle' = [handle EXCEPT ![t] = IF @.opened THEN [@ EXCEPT !.locked = FALSE] ELSE Closed]
    /\ Goto(t, IF handle[t].opened THEN "closes" ELSE Closing(t))
    /\ UNCHANGED <<proc, numbers, faults, went, idx, dat, call>>

\* ... and then the files are closed.
CloseData(t) ==
    /\ pc[t] = "closes"
    /\ flock' = Unlock(t, handle[t].file, "s")
    /\ Goto(t, "closei")
    /\ UNCHANGED <<proc, numbers, faults, went, idx, dat, owner, count, handle, call>>

CloseIndex(t) ==
    /\ pc[t] = "closei"
    /\ flock' = Unlock(t, handle[t].file, "i")
    /\ handle' = [handle EXCEPT ![t] = Closed]   \* the other fields are set before they are used
    /\ Goto(t, Closing(t))
    /\ UNCHANGED <<proc, numbers, faults, went, idx, dat, owner, count, call>>

\* A process dies; its locks go with it, and another one takes its place.
Die(p) ==
    LET mine == {t \in Threads : proc[t] = p} IN
    /\ "die" \in faults
    /\ \E t \in mine : pc[t] # "idle"
    /\ owner' = [owner EXCEPT ![p] = [f \in Files |-> NoThread]]
    /\ flock' = [flock EXCEPT ![p] = [f \in Files |-> Unlocked]]
    /\ count' = [t \in Threads |-> IF t \in mine THEN [f \in Files |-> 0] ELSE count[t]]
    /\ handle' = [t \in Threads |-> IF t \in mine THEN Closed ELSE handle[t]]
    /\ call' = [t \in Threads |-> IF t \in mine THEN NoCall ELSE call[t]]
    /\ pc' = [t \in Threads |-> IF t \in mine THEN "idle" ELSE pc[t]]
    /\ went' = [t \in Threads |-> IF t \in mine THEN "no" ELSE went[t]]
    /\ UNCHANGED <<proc, numbers, faults, idx, dat>>

Step(t) ==
    \/ OpenIndex(t) \/ CreateIndex(t) \/ WriteHeads(t)
    \/ OpenData(t) \/ OpenFails(t) \/ Search(t) \/ Leave(t)
    \/ UnlockFiles(t) \/ CloseData(t) \/ CloseIndex(t)

Wait(t) == HeadMutex(t) \/ HeadLock(t) \/ GetMutex(t) \/ LockIndex(t) \/ LockData(t)

Next ==
    \/ \E t \in Threads : Seek(t) \/ Close(t) \/ Step(t) \/ Wait(t)
    \/ \E p \in Procs : Die(p)

Spec == Init /\ [][Next]_vars

\* A thread goes on with its call, takes a mutex or a lock that stays free, and
\* closes its handle when it does nothing else with it.
Fairness == \A t \in Threads : WF_vars(Step(t)) /\ WF_vars(Wait(t)) /\ WF_vars(Close(t))

FairSpec == Spec /\ Fairness

-----------------------------------------------------------------------------
(* Properties. *)

Handles == [opened : BOOLEAN, locked : BOOLEAN, mode : Modes, file : Files,
            ifd : Files \cup {NoFile}, sfd : Files \cup {NoFile}]
Calls   == [kind : {"none", "seek"}, file : Files, mode : Modes]
Steps   == {"idle", "open", "create", "headmutex", "headlock", "heads", "mutex", "locki",
            "opens", "locks", "search", "in", "unlock", "closes", "closei"}

\* Every variable keeps its type; A->Locked is not negative, unless the thread
\* went on with another file number after a failed call.
TypeOK ==
    /\ proc \in [Threads -> Procs]
    /\ numbers \in [Threads -> SUBSET Files]
    /\ faults \subseteq {"create", "io", "die"}
    /\ idx \in [Files -> {"none", "empty", "heads"}]
    /\ dat \in [Files -> BOOLEAN]
    /\ owner \in [Procs -> [Files -> Threads \cup {NoThread}]]
    /\ count \in [Threads -> [Files -> Int]]
    /\ flock \in [Procs -> [Files -> [Parts -> Modes \cup {"none"}]]]
    /\ handle \in [Threads -> Handles]
    /\ call \in [Threads -> Calls]
    /\ pc \in [Threads -> Steps]
    /\ went \in [Threads -> {"no", "on", "astray"}]
    /\ \A t \in Threads, f \in Files : count[t][f] < 0 => went[t] = "astray"

\* The file a thread reads or writes, and how: from the lock of .s to the
\* release, between calls too, and while it writes the head slots.
InFiles(t) == pc[t] = "search" \/ (handle[t].opened /\ handle[t].locked)
Inside(t, f) == (InFiles(t) /\ handle[t].file = f) \/ (pc[t] = "heads" /\ call[t].file = f)
Writes(t) == pc[t] = "heads" \/ (IF pc[t] = "search" THEN call[t].mode ELSE handle[t].mode) = "write"

\* A thread that has its process to itself.
Alone(t) == \A u \in Threads \ {t} : proc[u] # proc[t]

\* The mutex of DpsBaseOpen: two threads of one process are never in the files
\* of a number together, neither during a call nor between two on one handle,
\* also when they went on after a failed call, as long as neither did so with
\* another file number.
ThreadsExcluded ==
    \A s, t \in Threads, f \in Files :
        s # t /\ Inside(s, f) /\ Inside(t, f) /\ "astray" \notin {went[s], went[t]} => proc[s] # proc[t]

\* The fcntl locks: a writer shares the files with no other process, whatever
\* calls it goes on after, as long as both have one thread: with several, the
\* close of one thread drops the lock of another.
Exclusion ==
    \A s, t \in Threads, f \in Files :
        s # t /\ Inside(s, f) /\ Inside(t, f) /\ Alone(s) /\ Alone(t) => ~Writes(s) /\ ~Writes(t)

\* The file number whose mutex a thread took and has not released.
Holds(t, f) ==
    \/ handle[t].locked /\ handle[t].file = f
    \/ pc[t] \in {"headlock", "heads", "locki"} /\ call[t].file = f

\* Whatever return DpsBaseOpen took, a thread that never went on after it keeps
\* no mutex with a closed handle; and a process none of whose threads went on
\* with another file number keeps no lock on a file that none of them uses.
NothingKept ==
    /\ \A t \in Threads : pc[t] = "idle" /\ ~handle[t].locked /\ went[t] = "no" =>
           \A f \in Files : owner[proc[t]][f] # t
    /\ \A p \in Procs, f \in Files :
           (\A t \in Threads : proc[t] = p => went[t] # "astray" /\ ~Holds(t, f)) => flock[p][f] = Unlocked

\* A thread has come to the end of its calls and has closed its handle.
Done(t) == pc[t] = "idle" /\ ~handle[t].opened /\ ~handle[t].locked
NoMoreCalls == <>[][\A t \in Threads : ~Seek(t)]_vars

\* No deadlock among mutexes and locks, whatever failed or died: once there are
\* no new calls, every thread gets what it waits for and closes its files,
\* unless somebody went on after a failed call.
\* (With new calls all the time, readers that overlap keep a writer out for ever.)
CallsEnd ==
    NoMoreCalls => <>[](\A t \in Threads : Done(t)) \/ <>(\E t \in Threads : went[t] # "no")

\* "One may use several indexing and searching processes at the same time even
\* on the same database" (doc/intro.xml:89): nobody waits for ever for files
\* that nobody uses.  Not so after a caller went astray (README).
AllCallsEnd == NoMoreCalls => <>[](\A t \in Threads : Done(t))

\* "Locked: is locked, how many times" (include/dps_common.h:1260): an agent
\* counts a mutex exactly while it has it.  Not so after a caller went astray (README).
LockedCounts ==
    \A t \in Threads, f \in Files :
        /\ count[t][f] >= 0
        /\ count[t][f] > 0 <=> owner[proc[t]][f] = t
=============================================================================
