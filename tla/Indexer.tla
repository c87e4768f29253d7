------------------------------- MODULE Indexer -------------------------------
(* The threads of indexer (thread_main of main.c), the urls they get from    *)
(* the SQL table (DpsNextTarget, DpsTargets, DpsTargetsSQL), the calls of    *)
(* DpsIndexNextURL as far as the table sees them, the cache of indexed       *)
(* documents (DpsDocUpdate), and how the threads stop, reload and end.       *)
EXTENDS Integers, FiniteSets

CONSTANTS
    Threads,    \* agents: ThreadIndexers of all processes
    Procs,      \* indexer processes on one database
    Urls,       \* rows the table url may have
    Forbidden,  \* urls that the rules of the configuration disallow
    First,      \* rows that are due at the start
    CacheSize,  \* URLSelectCacheSize
    MaxDocs,    \* option -n, and the number of documents without it
    NoThread, NoUrl,
    Surroundings  \* what may happen in a run: one of these sets of names

Events == {"late", "open", "limit", "keep", "term", "hup", "conf", "sql", "mark", "slow", "die"}

ASSUME IndexerAssumption ==
    /\ NoThread \notin Threads /\ NoUrl \notin Urls
    /\ Forbidden \subseteq Urls /\ First \subseteq Urls
    /\ IsFiniteSet(Threads) /\ IsFiniteSet(Urls)
    /\ CacheSize \in Nat \ {0}
    /\ MaxDocs \in [{"limit", "all"} -> Nat \ {0}]
    /\ Surroundings \subseteq SUBSET Events

VARIABLES
    around,   \* the member of Surroundings of this run
    proc,     \* the process of a thread
    nit,      \* next_index_time of a row: "none" (no row), "due", "held" (now + URL_LOCK_TIME), "later"
    targets,  \* Conf->Targets of a process from cur_row on
    number,   \* Conf->url_number
    asleep,   \* sleep_threads
    total,    \* total_threads
    lock,     \* DPS_LOCK_THREAD where it is kept over several steps
    sig,      \* have_sighup and have_sigterm, each raised once at most
    born,     \* the thread whose pthread_create() has not been counted yet
    pc,
    action,   \* Indexer->action
    res,      \* res of thread_main
    sleeping, \* i_sleep
    work,     \* the document of DpsIndexNextURL
    cache     \* Indexer->Indexed: parsed and not written to the table yet

conf   == <<targets, number>>
counts == <<asleep, total, born>>
own    == <<pc, action, res, sleeping, work, cache>>
vars   == <<around, proc, nit, conf, counts, lock, sig, own>>

Mine(p) == {t \in Threads : proc[t] = p}
Limit   == MaxDocs[IF "limit" \in around THEN "limit" ELSE "all"]

Init ==
    /\ around \in Surroundings
    /\ proc \in [Threads -> Procs]
    /\ nit = [u \in Urls |-> IF u \in First THEN "due" ELSE "none"]
    /\ targets = [p \in Procs |-> {}]
    /\ number = [p \in Procs |-> Limit]
    /\ asleep = [p \in Procs |-> 0]
    /\ total = [p \in Procs |-> IF "late" \in around THEN 0 ELSE Cardinality(Mine(p))]
    /\ lock = [p \in Procs |-> NoThread]
    /\ sig = [p \in Procs |-> [s \in {"hup", "term"} |-> "no"]]
    /\ born = [p \in Procs |-> NoThread]
    /\ pc = [t \in Threads |-> IF "late" \in around THEN "new" ELSE "open"]
    /\ action = [t \in Threads |-> "ok"]
    /\ res = [t \in Threads |-> "ok"]
    /\ sleeping = [t \in Threads |-> FALSE]
    /\ work = [t \in Threads |-> NoUrl]
    /\ cache = [t \in Threads |-> {}]

-----------------------------------------------------------------------------
(* Steps of a thread: where it goes on, and what it needs the lock for. *)

Goto(t, l)      == pc' = [pc EXCEPT ![t] = l]
Returns(t, r)   == res' = [res EXCEPT ![t] = r] /\ Goto(t, "set")
LockFree(t)     == lock[proc[t]] = NoThread
Tell(p, a)      == [t \in Threads |-> IF proc[t] = p /\ pc[t] \notin {"new", "ended"} THEN a ELSE action[t]]
Marked(us, when) == [u \in Urls |-> IF u \in us THEN when ELSE nit[u]]
May(what)       == what \in around

\* DpsIndex starts a thread and counts it afterwards.
Create(t) ==
    /\ pc[t] = "new"
    /\ born[proc[t]] = NoThread
    /\ born' = [born EXCEPT ![proc[t]] = t]
    /\ Goto(t, "open")
    /\ UNCHANGED <<around, proc, nit, conf, asleep, total, lock, sig, action, res, sleeping, work, cache>>

Count(p) ==
    /\ born[p] # NoThread
    /\ lock[p] = NoThread
    /\ total' = [total EXCEPT ![p] = @ + 1]
    /\ born' = [born EXCEPT ![p] = NoThread]
    /\ UNCHANGED <<around, proc, nit, conf, asleep, lock, sig, own>>

Open(t) ==
    /\ pc[t] = "open"
    /\ Goto(t, "top") \/ (May("open") /\ Goto(t, "end"))
    /\ UNCHANGED <<around, proc, nit, conf, counts, lock, sig, action, res, sleeping, work, cache>>

\* The head of the loop: a new configuration has no targets, SIGTERM comes last.
\* A thread that is done ("last") leaves the loop only after it.
Signals(t) ==
    LET p    == proc[t]
        hup  == sig[p]["hup"] = "pending"
        term == sig[p]["term"] = "pending" IN
    /\ pc[t] \in {"top", "last"}
    /\ LockFree(t)
    /\ \E loaded \in {hup} \cup (IF May("conf") THEN {FALSE} ELSE {}) :
          /\ targets' = IF loaded THEN [targets EXCEPT ![p] = {}] ELSE targets
          /\ number' = IF loaded THEN [number EXCEPT ![p] = Limit] ELSE number
          /\ action' = IF term THEN Tell(p, "terminated")
                       ELSE IF loaded THEN Tell(p, "reload") ELSE action
    /\ sig' = [sig EXCEPT ![p] = [s \in DOMAIN @ |-> IF @[s] = "pending" THEN "seen" ELSE @[s]]]
    /\ Goto(t, IF pc[t] = "last" THEN "end" ELSE "check")
    /\ UNCHANGED <<around, proc, nit, counts, lock, res, sleeping, work, cache>>

Check(t) ==
    /\ pc[t] = "check"
    /\ Goto(t, IF action[t] = "reload" THEN "reload"
               ELSE IF res[t] \in {"ok", "notarget"} THEN "enter" ELSE "set")
    /\ UNCHANGED <<around, proc, nit, conf, counts, lock, sig, action, res, sleeping, work, cache>>

Reload(t) ==
    /\ pc[t] = "reload"
    /\ number' = [number EXCEPT ![proc[t]] = Limit]
    /\ action' = [action EXCEPT ![t] = "ok"]
    /\ res' = [res EXCEPT ![t] = "ok"]
    /\ Goto(t, "enter")
    /\ UNCHANGED <<around, proc, nit, targets, counts, lock, sig, sleeping, work, cache>>

-----------------------------------------------------------------------------
(* DpsIndexNextURL and DpsNextTarget. *)

Enter(t) ==
    /\ pc[t] = "enter"
    /\ IF action[t] \in {"ok", "notarget"} THEN Goto(t, "next") /\ UNCHANGED res
       ELSE Returns(t, action[t])
    /\ UNCHANGED <<around, proc, nit, conf, counts, lock, sig, action, sleeping, work, cache>>

Asks(t) == pc[t] = "next" /\ LockFree(t)

\* url_number is spent, or somebody found no targets; or there are none and the thread is to stop.
NoMore(t) ==
    /\ Asks(t)
    /\ \/ number[proc[t]] <= 0 /\ Returns(t, "notarget")
       \/ number[proc[t]] > 0 /\ targets[proc[t]] = {} /\ action[t] # "ok" /\ Returns(t, action[t])
    /\ UNCHANGED <<around, proc, nit, conf, counts, lock, sig, action, sleeping, work, cache>>

\* Mutant of HandOut: cur_row stays where it is.
HandOutAgain(t, u) ==
    /\ work' = [work EXCEPT ![t] = u]
    /\ number' = [number EXCEPT ![proc[t]] = @ - 1]
    /\ targets' = IF number[proc[t]] = 1 THEN [targets EXCEPT ![proc[t]] = {}] ELSE targets
    /\ Goto(t, "work")

\* Mutant of HandOut: the last of the selected targets is taken for the last of all.
HandOutLast(t, u) ==
    /\ work' = [work EXCEPT ![t] = u]
    /\ number' = [number EXCEPT ![proc[t]] = IF targets[proc[t]] = {u} THEN 0 ELSE @ - 1]
    /\ targets' = [targets EXCEPT ![proc[t]] = @ \ {u}]
    /\ Goto(t, "work")

HandOut(t, u) ==
    /\ work' = [work EXCEPT ![t] = u]
    /\ number' = [number EXCEPT ![proc[t]] = @ - 1]
    /\ targets' = [targets EXCEPT ![proc[t]] = @ \ {u}]
    /\ Goto(t, "work")

Take(t) ==
    /\ Asks(t)
    /\ number[proc[t]] > 0
    /\ \E u \in targets[proc[t]] : HandOut(t, u)
    /\ UNCHANGED <<around, proc, nit, counts, lock, sig, action, res, sleeping, cache>>

\* Mutant of Wanted: the number of documents is not looked at.
WantedAll(p) == CacheSize

\* How many rows DpsTargetsSQL selects at most.
Wanted(p) == IF number[p] < CacheSize THEN number[p] ELSE CacheSize

\* SELECT: the lock is kept, but the database is free for other processes.
SelectTargets(t) ==
    LET p   == proc[t]
        due == {u \in Urls : nit[u] = "due"} IN
    /\ Asks(t)
    /\ number[p] > 0 /\ targets[p] = {} /\ action[t] = "ok"
    /\ \/ /\ due = {}
          /\ number' = [number EXCEPT ![p] = -1]
          /\ Returns(t, "notarget")
          /\ UNCHANGED <<targets, lock>>
       \/ \E rows \in SUBSET due :
          /\ rows # {}
          /\ Cardinality(rows) = Wanted(p) \/ (rows = due /\ Cardinality(due) < Wanted(p))
          /\ targets' = [targets EXCEPT ![p] = rows]
          /\ lock' = [lock EXCEPT ![p] = t]
          /\ Goto(t, "mark")
          /\ UNCHANGED <<number, res>>
       \/ May("sql") /\ Returns(t, "error") /\ UNCHANGED <<targets, number, lock>>
    /\ UNCHANGED <<around, proc, nit, counts, sig, action, sleeping, work, cache>>

\* UPDATE url SET next_index_time = now + URL_LOCK_TIME; when it fails, the targets stay.
MarkTargets(t) ==
    LET p == proc[t] IN
    /\ pc[t] = "mark"
    /\ lock' = [lock EXCEPT ![p] = NoThread]
    /\ \/ /\ nit' = Marked(targets[p], "held")
          /\ \E u \in targets[p] : HandOut(t, u)
          /\ UNCHANGED res
       \/ /\ May("mark")
          /\ \E some \in SUBSET targets[p] : nit' = Marked(some, "held")
          /\ Returns(t, "error")
          /\ UNCHANGED <<targets, number, work>>
    /\ UNCHANGED <<around, proc, counts, sig, action, sleeping, cache>>

\* The document is fetched and parsed, and the new urls in it become rows (DpsStoreHrefs).
Parse(t) ==
    LET new == {u \in Urls \ Forbidden : nit[u] = "none"} IN
    /\ pc[t] = "work"
    /\ \E hrefs \in SUBSET (IF work[t] \in Forbidden THEN {} ELSE new) :
          nit' = Marked(hrefs, "due")
    /\ \/ Goto(t, "flush") /\ UNCHANGED <<res, work>>
       \/ May("sql") /\ Returns(t, "error") /\ work' = [work EXCEPT ![t] = NoUrl]
    /\ UNCHANGED <<around, proc, conf, counts, lock, sig, action, sleeping, cache>>

-----------------------------------------------------------------------------
(* DpsDocUpdate and DocUpdate. *)

\* DocUpdate of some documents: a disallowed one loses its row.
Updated(us) == [u \in Urls |-> IF u \notin us THEN nit[u] ELSE IF u \in Forbidden THEN "none" ELSE "later"]

\* The cached documents are updated one by one; those that fail are dropped like the others.
FlushCache(t, doc) ==
    /\ \E failed \in (IF May("sql") THEN SUBSET cache[t] ELSE {{}}) :
          /\ nit' = Updated(doc \cup (cache[t] \ failed))
          /\ doc # {} => IF failed = {} THEN Goto(t, "finish") /\ UNCHANGED res ELSE Returns(t, "error")
    /\ cache' = [cache EXCEPT ![t] = {}]

Update(t) ==
    /\ pc[t] = "flush"
    /\ work' = [work EXCEPT ![t] = NoUrl]
    /\ \/ FlushCache(t, {work[t]})
       \/ /\ May("keep")
          /\ cache' = [cache EXCEPT ![t] = @ \cup {work[t]}]
          /\ Goto(t, "finish")
          /\ UNCHANGED <<nit, res>>
       \/ May("sql") /\ Returns(t, "error") /\ UNCHANGED <<nit, cache>>
    /\ UNCHANGED <<around, proc, conf, counts, lock, sig, action, sleeping>>

Finish(t) ==
    /\ pc[t] = "finish"
    /\ LockFree(t)
    /\ Returns(t, action[t])
    /\ UNCHANGED <<around, proc, nit, conf, counts, lock, sig, action, sleeping, work, cache>>

-----------------------------------------------------------------------------
(* The rest of the loop. *)

\* DpsAgentSetAction(Indexer, res), with no lock: what others have set meanwhile is lost.
SetAction(t) ==
    /\ pc[t] = "set"
    /\ action' = [action EXCEPT ![t] = res[t]]
    /\ Goto(t, CASE res[t] \in {"ok", "reload"} -> "wake"
                 [] res[t] = "notarget" -> "drain"
                 [] res[t] = "error" -> "stop"
                 [] res[t] = "terminated" -> "sleep")
    /\ UNCHANGED <<around, proc, nit, conf, counts, lock, sig, res, sleeping, work, cache>>

\* Mutant of Wake: a thread that has not slept is counted, too.
WakeAlways(t) ==
    /\ pc[t] = "wake"
    /\ LockFree(t)
    /\ asleep' = [asleep EXCEPT ![proc[t]] = @ - 1]
    /\ sleeping' = [sleeping EXCEPT ![t] = FALSE]
    /\ Goto(t, "top")
    /\ UNCHANGED <<around, proc, nit, conf, total, born, lock, sig, action, res, work, cache>>

Wake(t) ==
    /\ pc[t] = "wake"
    /\ LockFree(t)
    /\ asleep' = IF sleeping[t] THEN [asleep EXCEPT ![proc[t]] = @ - 1] ELSE asleep
    /\ sleeping' = [sleeping EXCEPT ![t] = FALSE]
    /\ Goto(t, "top")
    /\ UNCHANGED <<around, proc, nit, conf, total, born, lock, sig, action, res, work, cache>>

\* Without targets the cache is flushed.
Drain(t) ==
    /\ pc[t] = "drain"
    /\ FlushCache(t, {})
    /\ Goto(t, "sleep")
    /\ UNCHANGED <<around, proc, conf, counts, lock, sig, action, res, sleeping, work>>

\* An error stops all threads.
StopAll(t) ==
    /\ pc[t] = "stop"
    /\ LockFree(t)
    /\ action' = Tell(proc[t], "terminated")
    /\ Goto(t, "sleep")
    /\ UNCHANGED <<around, proc, nit, conf, counts, lock, sig, res, sleeping, work, cache>>

\* Mutant of Sleep: only a thread without targets is counted.
SleepDry(t) ==
    /\ pc[t] = "sleep"
    /\ LockFree(t)
    /\ asleep' = IF sleeping[t] \/ res[t] # "notarget" THEN asleep ELSE [asleep EXCEPT ![proc[t]] = @ + 1]
    /\ sleeping' = [sleeping EXCEPT ![t] = TRUE]
    /\ Goto(t, "test")
    /\ UNCHANGED <<around, proc, nit, conf, total, born, lock, sig, action, res, work, cache>>

\* Mutant of Sleep: a thread is counted every time.
SleepTwice(t) ==
    /\ pc[t] = "sleep"
    /\ LockFree(t)
    /\ asleep' = [asleep EXCEPT ![proc[t]] = IF @ < 9 THEN @ + 1 ELSE @]
    /\ sleeping' = [sleeping EXCEPT ![t] = TRUE]
    /\ Goto(t, "test")
    /\ UNCHANGED <<around, proc, nit, conf, total, born, lock, sig, action, res, work, cache>>

Sleep(t) ==
    /\ pc[t] = "sleep"
    /\ LockFree(t)
    /\ asleep' = IF sleeping[t] THEN asleep ELSE [asleep EXCEPT ![proc[t]] = @ + 1]
    /\ sleeping' = [sleeping EXCEPT ![t] = TRUE]
    /\ Goto(t, "test")
    /\ UNCHANGED <<around, proc, nit, conf, total, born, lock, sig, action, res, work, cache>>

Test(t) ==
    /\ pc[t] = "test"
    /\ LockFree(t)
    /\ Goto(t, IF asleep[proc[t]] >= total[proc[t]] THEN "last" ELSE "top")
    /\ UNCHANGED <<around, proc, nit, conf, counts, lock, sig, action, res, sleeping, work, cache>>

\* After the loop the cache is flushed, unless the thread ends for an error.
End(t) ==
    /\ pc[t] = "end"
    /\ IF res[t] # "error" THEN FlushCache(t, {})
       ELSE cache' = [cache EXCEPT ![t] = {}] /\ UNCHANGED nit
    /\ Goto(t, "leave")
    /\ UNCHANGED <<around, proc, conf, counts, lock, sig, action, res, sleeping, work>>

Leave(t) ==
    /\ pc[t] = "leave"
    /\ LockFree(t)
    /\ total' = [total EXCEPT ![proc[t]] = @ - 1]
    /\ Goto(t, "ended")
    /\ UNCHANGED <<around, proc, nit, conf, asleep, born, lock, sig, action, res, sleeping, work, cache>>

-----------------------------------------------------------------------------
(* The surroundings. *)

Signal(p) ==
    /\ \E t \in Mine(p) : pc[t] # "ended"
    /\ \E s \in {"hup", "term"} \cap around :
          /\ sig[p][s] = "no"
          /\ sig' = [sig EXCEPT ![p][s] = "pending"]
    /\ UNCHANGED <<around, proc, nit, conf, counts, lock, own>>

\* Four hours pass, and whoever has marked a row has not indexed it yet.
Expire ==
    /\ May("slow")
    /\ \E u \in Urls : nit[u] = "held" /\ nit' = Marked({u}, "due")
    /\ UNCHANGED <<around, proc, conf, counts, lock, sig, own>>

Die(p) ==
    /\ May("die")
    /\ \E t \in Mine(p) : pc[t] # "ended"
    /\ pc' = [t \in Threads |-> IF proc[t] = p THEN "ended" ELSE pc[t]]
    /\ work' = [t \in Threads |-> IF proc[t] = p THEN NoUrl ELSE work[t]]
    /\ cache' = [t \in Threads |-> IF proc[t] = p THEN {} ELSE cache[t]]
    /\ targets' = [targets EXCEPT ![p] = {}]
    /\ lock' = [lock EXCEPT ![p] = NoThread]
    /\ born' = [born EXCEPT ![p] = NoThread]
    /\ UNCHANGED <<around, proc, nit, number, asleep, total, sig, action, res, sleeping>>

Step(t) ==
    \/ Create(t) \/ Open(t) \/ Signals(t) \/ Check(t) \/ Reload(t) \/ Enter(t)
    \/ NoMore(t) \/ Take(t) \/ SelectTargets(t) \/ MarkTargets(t) \/ Parse(t)
    \/ Update(t) \/ Finish(t) \/ SetAction(t) \/ Wake(t) \/ Drain(t) \/ StopAll(t)
    \/ Sleep(t) \/ Test(t) \/ End(t) \/ Leave(t)

Next ==
    \/ \E t \in Threads : Step(t)
    \/ \E p \in Procs : Count(p) \/ Signal(p) \/ Die(p)
    \/ Expire

Spec == Init /\ [][Next]_vars

\* No thread, and not the one that starts them, stops for ever.
Fairness == (\A t \in Threads : WF_vars(Step(t))) /\ (\A p \in Procs : WF_vars(Count(p)))

FairSpec == Spec /\ Fairness

-----------------------------------------------------------------------------
(* Properties. *)

Results == {"ok", "notarget", "error", "terminated", "reload"}
Places  == {"new", "open", "top", "check", "reload", "enter", "next", "mark", "work", "flush", "finish",
            "set", "wake", "drain", "stop", "sleep", "test", "last", "end", "leave", "ended"}

\* Every variable keeps its type: the count of sleepers never falls below zero.
TypeOK ==
    /\ around \in Surroundings
    /\ proc \in [Threads -> Procs]
    /\ nit \in [Urls -> {"none", "due", "held", "later"}]
    /\ targets \in [Procs -> SUBSET Urls]
    /\ number \in [Procs -> Int]
    /\ asleep \in [Procs -> Nat]
    /\ total \in [Procs -> Int]
    /\ lock \in [Procs -> Threads \cup {NoThread}]
    /\ sig \in [Procs -> [{"hup", "term"} -> {"no", "pending", "seen"}]]
    /\ born \in [Procs -> Threads \cup {NoThread}]
    /\ pc \in [Threads -> Places]
    /\ action \in [Threads -> Results]
    /\ res \in [Threads -> Results]
    /\ sleeping \in [Threads -> BOOLEAN]
    /\ work \in [Threads -> Urls \cup {NoUrl}]
    /\ cache \in [Threads -> SUBSET Urls]

\* The documents a thread has fetched or is fetching and has not written to the table.
InHand(t) == (cache[t] \cup {work[t]}) \ {NoUrl}

\* None of these happens in this run.
Without(events) == around \cap events = {}

\* "Multi-threaded indexer version uses own locking mechanism": if one process
\* is the only indexer, two of its threads never index the same url at once,
\* unless marking failed or a document took longer than the mark holds.
Exclusive ==
    (\A s, t \in Threads : proc[s] = proc[t]) /\ Without({"slow", "mark"}) =>
        \A s, t \in Threads : s # t => InHand(s) \cap InHand(t) = {}

\* A url that is marked for four hours is in the hands of a thread or waits for
\* one that is running: nobody marks more than he will index (main.c ends the
\* threads, option -n stops them, the cache keeps documents back).
Owned ==
    Without({"term", "hup", "sql", "mark", "slow", "die"}) =>
        \A u \in Urls : nit[u] = "held" =>
            \E t \in Threads : pc[t] # "ended" /\ u \in InHand(t) \cup targets[proc[t]]

\* "we should wait for a moment when every thread has nothing to do": a thread
\* leaves the loop when all others are asleep or have ended, unless the count
\* of sleepers is old: it keeps those that ended, and a reload wakes others.
WaitsForAll ==
    [][\A t \in Threads :
          pc[t] = "test" /\ pc'[t] = "last" /\ Without({"late", "hup"}) =>
              \A s \in Mine(proc[t]) : work[s] = NoUrl /\ (sleeping[s] \/ pc[s] \in {"end", "leave", "ended"})]_vars

\* Whatever failed and whatever was sent to them, all threads end.
AllEnd == <>(\A t \in Threads : pc[t] = "ended")

\* Indexers with one thread each leave nothing that is due, whoever found it:
\* the url a document led to, and what another process had no targets left for.
NothingLeft ==
    /\ \A s, t \in Threads : s # t => proc[s] # proc[t]
    /\ Without({"open", "limit", "term", "hup", "sql", "mark", "slow", "die"})
    /\ \A t \in Threads : pc[t] = "ended"
    => \A u \in Urls : nit[u] \in {"none", "later"}
=============================================================================
