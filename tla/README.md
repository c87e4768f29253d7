# Verification of DataparkSearch

TLA+ specifications of the parts of DataparkSearch where the order of steps
matters: the on-disk hash table under every store and its locks
(`src/src/base.c`, `mutex.c`, `utils.c`), the word path of the daemon `cached` in
its two modes (`cached.c`, `cache.c`, `splitter.c`), the processes of `searchd`
(`searchd.c`), the threads of `indexer` with the urls they share
(`main.c`, `indexer.c`, `sql.c`), and the evaluation of search queries
(`searchtool.c`, `boolean.c`).  TLC checks them on small instances, and TLAPS
proves what matters most for instances of any size.

    tlc -config base_crash.cfg BaseMC          # a run; PROJECT.json lists all
    tlapm BaseProofs.tla                       # the proofs

## 1. The system

DataparkSearch is a web search engine.  `indexer` processes, with several
threads each, fetch documents and cut them into words.  With the "cache"
storage mode the words go over a socket to the daemon `cached`, which keeps
them in memory buffers and merges them into files, or, in the logs-only mode,
writes logs that `splitter` merges; documents go to `stored`; the state of each
url is in an SQL database.  `searchd` and the CGI read the files.

| Part | State | Operations | Interacts with | Hard behaviour | What makes it correct |
|---|---|---|---|---|---|
| Hash table, `base.c` | per file number an index file of 24-byte slots chained by offset, a data file, a handle `DPS_BASE_PARAM` | open, seek, read, write, delete, close, optimize, checkup, relocate | every store below; mutex + `fcntl` lock | several writes per call, deaths between them, failing writes, reuse of a handle, slots of deleted records | it is a dictionary; a call changes its own record only; chains end; no bytes of another record are returned; optimizing keeps the records |
| Its locks, `mutex.c`, `dps_mutex.h`, `utils.c` | mutexes by file number with a count per agent, `fcntl` locks | get, release | hash table | early returns with a lock held, locks of a process dropped by any close of the file | a writer is alone; nothing stays locked; no call waits for ever |
| Word path, `cached.c`, `cache.c` | per "wrd" file a buffer of words and one of deletion markers; postings; url information | WORD, NEWORD, DELETE, URLINFO, flush, optimize round, shutdown | indexers (answered before the data is stored), hash table, SQL status | threads between each other's words, full buffers, failed merges, lost status updates, shutdown | when all is quiet the index is the last content of each url; postings stay sorted; buffers do not overflow; nothing is left at exit |
| Logs-only mode, `cache.c`, `splitter.c`, `run-splitter.in` | buffers, a log per file, del.log, split files | append, flush, rename or copy and cut, split, merge, clean up | `cached`, splitter and script share the files | a splitter that dies, rounds that overlap, documents during a flush | each word is merged once; the index is what was sent; nobody waits in vain |
| `searchd` | table of children, signal flags, accept mutex of a generation | fork, reap, reload, shut down, accept, answer | search library | signals between two statements, children that end at any time | no child of an old configuration; at most `MaxClients`; the mutex is not lost; all of them end |
| Indexer, targets, SQL | rows with `next_index_time`, selected targets, a cache of documents, the count of sleeping threads | select and mark, take, add rows, update, reload, stop | `cached`, `stored`, robots | threads and processes on one table, failing queries, deaths, signals | a url is one thread's at a time; no url is marked and forgotten; the indexer ends when nobody has anything to do |
| `stored`, `store.c` | documents in a hash table; threads | store, get, delete, optimize, check | hash table, SQL | records deleted from a list that is out of date | a stored document is returned until deleted |
| Search cache | file per query | find, store, clean | `searchd` | stale answers | an answer is not older than allowed |
| Robots, hosts | last access per host, in shared memory | wait, update | indexer threads | races on the delay | the crawl delay is kept |
| Query evaluation, `searchtool.c`, `boolean.c` | a row of items, two stacks, posting lists | parse, look up, evaluate, rank | postings | priorities and brackets, operators left out, walks over two lists that change places, reads behind an end | what is found is what the query says |
| The rest | see PROJECT.json | parsing, conversion, dictionaries, configuration, front ends | | text, one thread | |

PROJECT.json lists every part with its files, what is modelled of it and
otherwise why it is not, and the hazards of the code at their lines.

## 2. Modules

| Module | What it is |
|---|---|
| `KeyValue` | the abstract dictionary that `base.c` promises its callers |
| `Base` | one index/data file pair, one call at a time, each read and write of the files a step |
| `BaseOptimize` | extends `Base` by `DpsBaseOptimize` |
| `BaseLock` | who may be in a file pair: threads, processes, mutexes, `fcntl` locks; `Base` takes that exclusion as given |
| `LogWords` | the algorithms of `cache.c` on words, markers and postings, as operators |
| `Cached` | indexers, the threads of `cached`, buffers, merges, flushes, shutdown; on `LogWords` |
| `LogsOnly` | the same path through log files and the splitter; on `LogWords` |
| `Searchd` | parent and children of the search daemon |
| `Indexer` | the threads of indexers and the table of urls; what `Cached` assumes of `Free` |
| `Boolean` | a query from its text to the documents, and what the query means |
| `BaseProofs`, `BaseLockProofs`, `CachedProofs`, `LogsOnlyProofs`, `SearchdProofs`, `IndexerProofs` | inductive invariants and theorems of these modules; `BaseProofs` also that `Base` implements `KeyValue` |
| `BaseOptimizeProofs` | on `BaseProofs`, whose lemmas on chains it uses: that `DpsBaseOptimize` keeps the records |
| `LogWordsProofs` | lemmas on the operators of `LogWords`: what they return is typed, in order, and which words and postings it is made of; used by `CachedProofs` and `LogsOnlyProofs` |
| `BaseMC`, `BaseOptimizeMC`, `BaseLockMC`, `CachedMC`, `LogsOnlyMC`, `SearchdMC`, `IndexerMC`, `BooleanMC` | values of the constants for the runs |

Operators whose comment begins with "Mutant of" are variants with a plausible
mistake; they are part of no specification and show that a property would
notice it.

Several modules have a constant that names what may happen in a run
(`Faults`, `Env`, `Around`).  In `Searchd` and `Indexer` it is a set of such
sets, and a variable (`env`, `around`) is the one of this behaviour: one run then
covers several surroundings, and a property says by its premise in which of
them it is claimed.  In `BaseLock` a variable (`faults`) takes any such set at the start,
and `BaseLockMC` says which go with which threads.

### 2.1 Base

*Data.* A slot is a record with the fields of `DPS_BASEITEM` that matter:
`rec_id` (`NoRec` is 0), `next`, `offset`, `size`.  `next` holds a slot number
counted from 1 in place of a byte position, 0 ends a chain.  A buffer is a
sequence of cells that carry their record and a version, so that the model
sees whose bytes a slot describes.  `orig_size` is left out.

*State.* `idx`, `dat` are the files.  `mode`, `Item`, `CurrentItemPos`,
`mishash` are the fields of the handle; `op`, `pc`, `via`, `ret` the call, its
next step, whether `DpsBaseSeek` came by `DpsBaseOpen`, and the answer.

*Actions.* `Start` is a call on a closed or open handle; `ReadHead`, `WalkOn`,
`WalkRepair` are the search, in its two versions (`DpsBaseOpen` searches again
after a repair, `DpsBaseSeek` does not); `Read`, `Delete`, `WriteFound`,
`WriteReuse`, `WriteLink`, `WriteData`, `WriteIndex` what follows it.  A
failing `write()` is `DataFails` (part of the buffer is written), `LinkFails`,
`IndexFails`; `Crash` is the death of the process between any two steps, which
the kernel follows by closing its descriptors.  `HTable` or an empty index
file, which a death in `DpsBaseOpen` leaves, is where a run begins.

*Refinement.* `Promise` instantiates `KeyValue`: a record is in the dictionary
if a search would find it, except while it is being written.  `Change` is the record of
the write or delete in progress with the buffer it is to have, none for a delete.  `Dictionary` is
`Promise!Spec`, where every step of the dictionary is one of that call on that record: a write
that failed or died may spoil it, a delete removes it or leaves it, and a read or the repair of a
chain is no step at all.

*BaseOptimize.* A round reads the slots (`Begin`, or `Again` after errors),
copies buffer by buffer (`Move`), cuts the data file and then the index file,
writes head slots and puts slot after slot into its chain (`Seek`,
`WriteSlot`).  Slots with one offset may come in any order (`Sorted`), as `DpsSort` is not
stable.  The exclusive lock keeps calls out during a round and not
between two of them.  `Die` is the death of its process, at most once.

### 2.2 Cached

*State.* `wrd_buf[f]` holds the word buffer and the marker buffer of file f,
`base[w]` the postings of word w, `info` the urls with an info record.
`thread[i]` is where the thread of connection i is in `DpsLogdStoreDoc`,
`indexer[i]` the step of its client and the url it has, `status` the SQL table,
`wanted` what the last command answered for each url asked for, `now` a clock,
`main` the main thread.

*Grain.* `DPS_LOCK_CACHED_N` of a buffer is held for one marker or one word, or
for a merge; each of them is one action, and everybody may come in between.
`Command` is the send of a document together with the answer, which `cached`
gives before it stores anything.

*Actions.* `Index`, `URLInfo`, `SaveStatus`, `Delete`, `Forget` are the indexer
(`StatusUnsaved` its death or a failed update); `Mark`, `AddWord`, `Done` the
thread; `Flush` a flush command, signal or the round of `thread_optimize`;
`Stop`, `Leave`, `Exit` the shutdown; `SaveFails`, `FlushFails`, `ExitFails`
the same merges failing: the buffer is emptied all the same, as in the code.
`Leave` is enabled only while the daemon waits for its threads: before that, an
indexer that leaves is one that sends nothing more.

*LogWords* has the loops of `DpsRemoveDelLogDups`, `DpsRemoveOldWords`,
`DpsRemoveOldCrds` and the merge of `DpsProcessBuf`, down to the
`dps_memmove` that counts in the wrong structure.  `InOrder` puts the elements of a
sequence one behind the other by a relation between their places; the sort and the
choice of the last marker of each url are uses of it.

### 2.3 BaseLock

*State.* `owner[p][f]` is the mutex `DPS_LOCK_BASE_N` of a process, `count` the
`A->Locked` of an agent, `flock[p][f]` the `fcntl` locks of a process on the `.i` and
the `.s` file, `idx` and `dat` whether the files are there, `handle` the `opened`,
`locked`, `mode` and `FileNo` of a `DPS_BASE_PARAM` and the files its `Ifd` and `Sfd` are open on.
`numbers` are the file numbers of the records each thread asks for and `faults` what may fail
in this behaviour, both chosen at the start.  `went` is history: has the thread gone "on" with the handle of a failed call, or "astray",
that is with another file number?  The actions set it and only the properties read it.

*Actions.* `Seek` is `DpsBaseSeek`, which goes on with an open handle that fits;
`OpenIndex` to `Search` are `DpsBaseOpen`, a step for each `open()`, mutex and lock;
`OpenFails` its early returns, which keep what is locked; `Leave` the end of the
call; `Close`, `UnlockFiles`, `CloseData`, `CloseIndex` `DpsBaseClose`.  `Lock` waits for
other processes only and `Unlock` is also what `close()` does to the locks of the
whole process, as POSIX has it.  `Die` is the death of a process.

*After a failed call* a caller does `Close`, or goes on: `DpsFindWordsCache`
(`cache.c:2591`), `DpsResAddDocInfoCache` (`cache.c:4701`) and `sql.c:6406` take the next record on
the same handle.  `Seek` has no guard against it, since `DpsBaseSeek` has none: the mutex is
counted once more, `Ifd` and `FileNo` are overwritten and `locked` is not.  `MaxHeld` bounds how often a
caller goes on, by the count of a mutex; nothing else depends on it.

### 2.4 Searchd

*State.* `Children`, `MaxClients`, `hup` and `term` are the globals of the parent;
`ppc`, `slot`, `fresh`, `leave` its place in the two nested loops of `main`; `ps[p]`
the process with pid p, its own two flags (a child inherits those of the parent
at its fork) and whether it belongs to the generation before the reload;
`mutex` the accept mutex in the shared memory of each generation.

*Actions.* `Fork`, `Store`, `Skip`, `ForkFails`, `Filled`, `Look` are the loop over
the slots and the look at the flags once a second; `Load`, `TermAll`, `KillAll`,
`Fail` the reload; `Stop` the end; `Reap` the handler of SIGCHLD, which may run
between any two of them; `Hup`, `Term`, `HupChild` signals.  A child goes through
`Start`, `Lock`, `Selected`, `Served`, or ends in `Alarm`.  The alarm rings in
`do_client` only: `DpsAcceptMutexLock` blocks it until the mutex is given back.

### 2.5 LogsOnly

*State.* Files are sequences of records, or `NoFile`: `log[f]`, `split[f]`,
`del_log`, `del_split` (`del_made`: it exists).  `wrd_buf`, `cur_del_buf`, `thread` are
`cached` and the one connection; `flush` is where `DpsFlushAllBufs` is and
`asked` the flushes that wait for `in_flush`; `script` is `run-splitter`, `splitter` the
splitter with what it has read.  `OnTheWay` shows, at each of `Places` (data of a buffer,
log, split file, splitter), the words that are not yet merged.
`merged` and `careful` are history: what the
splitter put into the index, and whether everybody has waited for each other.

*Actions.* `Send`, `Mark`, `AddWord`, `Done` are a document or a deletion;
`BeginFlush`, `SaveNext`, `ResetDelBuf`, `Rename` or `Copy` and `Cut` per file,
`Create`, `CopyDels`, `CutDels` the flush with `DpsRotateDelLog`; `Run`, `Start`,
`RemoveDels` the script, `RunBare` a splitter without it, `Take` and `Put` the
splitter at one file, `Die` its death.  `Around` says which rules of the
documented procedure may be broken: "busy" documents during a flush, "overlap"
rounds that do not wait for each other, "bare", "die".  What is careless sets
`careful` to FALSE, and `Fresh` is claimed while it holds.

### 2.6 Indexer

*State.* `nit[u]` is the row of a url: none, due, held by a mark of four hours
(`URL_LOCK_TIME`), or later.  `targets[p]` and `number[p]` are `Conf->Targets` from
`cur_row` on and `Conf->url_number`; `asleep`, `total` the counts of `main.c`;
`lock` the `DPS_LOCK_THREAD` where it is kept over steps, that is between the SELECT and the
UPDATE of `DpsTargetsSQL`; `action`, `res`, `sleeping` what `thread_main` knows;
`work` and `cache` the document in work and those that are indexed and
not yet written to the table.

*Actions.* `Create`, `Count`, `Open` start the threads; `Signals` to `Test` are the
loop of `thread_main`; `Enter`, `NoMore`, `Take`, `SelectTargets`, `MarkTargets`,
`Parse`, `Update`, `Finish` are `DpsIndexNextURL` and `DpsNextTarget`; `Drain`, `End` flush the
documents kept back.  `Signal`, `Expire` (the four hours of a mark are over) and
`Die` are the surroundings, which `around` switches on.  Two processes share
the rows and nothing else.

*Cached and Indexer.* `Cached` lets an indexer start on a url only while
nobody else has it (`Free`).  `Exclusive` of `Indexer` is that assumption, and
shows how far it goes: for the threads of one process.

### 2.7 Boolean

*State.* `items` is the row of words and commands that `DpsPrepare` makes of the
text; `cstack` and `astack` are the stacks of `DPS_BOOLSTACK`, `i` the item that is
next, `reducing` whether its loop has begun; `answer` is `Res->CoordList`.  `query`
and `docs`, chosen at the start, are what is asked and what is indexed.  An
argument has its list, the mark of a NOT, where it comes from, the orders of
its words, and the coordinates in front of its `pcur`, which an operator without a
second operand counts.

*Actions.* `Prepare` and `FindWords` are `DpsFindWordsCache` as far as the query is
concerned; `Reduce` performs a command, `PushCommand` to `ClosePhrase` take an item,
`Finish` takes the result.  `perform` gives the set of stacks that a command may
leave: more than one where the code reads what it did not write, behind the end
of a list (`Skipped`) or in a slot of the ring of a phrase (`NotFilled`).  NEAR and
ANYWORD walk through two lists, which recursive operators follow step by step.

*Abstraction.* A text is a sequence of tokens.  Lists are sets, since all of
them are sorted by `DpsCmpUrlid`.  A coordinate has one section, and a word
has one form.

*Meaning.* `Meaning` is the set of words that the expression asks for, defined over its
tree; it knows of no stack and no list.  `Text` writes a tree down with as few
brackets as the priorities allow.  A query without a tree is run as well, and
nothing is claimed for it.

## 3. What is checked

| Run | Properties | Bounds | States |
|---|---|---|---|
| `base_crash` | `TypeOK`, `LinksForward`, `Dictionary`, `Answers`, `CallsEnd`: collisions, deaths and failing writes, handles closed after each call | 3 records in 2 chains, 2 versions of 1 or 2 cells | 472 000 |
| `base_apart` | `OwnData`, `Dictionary`: deletions, failures and open handles, no collisions | 2 records, buffers of 1 or 2 cells | 38 000 |
| `base_optimize` | `RecordsKept`, `OptimizeEnds` | 3 records, 2 chains, one death of the round | 454 000 |
| `base_lock` | `TypeOK`, `ThreadsExcluded`, `Exclusion`, `NothingKept`, `CallsEnd`: callers that go on after failed calls | 3 threads in 2 processes, or 2 threads in 2, on 1 file pair, with all faults; 2 threads in 1 or 2 processes, one of them on 2 file pairs, without; 2 counts of a mutex | 800 000 |
| `logs` | `TypeOK`, `BuffersFit`, `Once`, `Fresh`, `Served` | 1 url, 2 contents of one word, in different files, 4 commands, 3 flushes, buffers of 2 words and 1 marker; everything around but "busy" | 2 530 000 |
| `searchd` | `TypeOK`, `OneGeneration`, `AtMost`, `MutexHeld`, `ChildrenEnd`, `ChildrenRun`, `ReloadsEnd` | 3 pids, 2 slots, `MaxClients` 1 or 3 (capped to 2), 3 surroundings | 723 000 |
| `indexer` | `TypeOK`, `Exclusive`, `Owned`, `NothingLeft`, `WaitsForAll`, `AllEnd` | 2 threads in 1 or 2 processes, 3 urls, one of them disallowed, 2 targets at a time, 1 document with `-n`, 8 surroundings | 1 074 000 |
| `cached_fresh` | `Fresh`, `ShutdownSaves`, `Searchable` | 2 indexers, 2 urls, 2 words in 2 files, buffers of 1 word and 2 markers, 3 commands | 363 000 |
| `cached_faults` | `TypeOK`, `Sorted`, `OneStore`: failing merges, lost updates | the same, symmetric in the indexers | 1 440 000 |
| `boolean` | `Found`, `Excluded` | 3 565 queries of up to four operands over 3 words and a stop word, in 3 modes, on 2 collections of 18 documents | 178 000 |
| `cached_tail`, `cached_unsaved` | findings: `OnlyFresh`, `OldContentGone` | 2 urls in one file; 1 url in two files | stops at the violation |

*Why the bounds are enough.* A chain interacts with a call by its head, its
last slot and one in between: two colliding records give all three, a third one
gives a neighbour that must not notice.  Two versions tell an old buffer from a
new one, two sizes a longer from a shorter.  `MaxSlots` and `MaxData` let every
record be added, moved and deleted with a repair in between; a call in progress
may go beyond them.  Three threads in two processes have two that share
a mutex and one that they meet only at the locks.  File numbers touch each other only
through a handle that goes from one to the other, which one thread with records in two
files and another one that has its records in the first show; a call fails there
without deaths or failing writes, since a reader may come before the `.s` file.  A second
count of a mutex tells a thread that went on from one that did not, and a third adds nothing.
The invariants are proved for any number of each, and all faults.
In `cached` two threads on one buffer, or one thread and a flush,
are what there is to interleave; buffers are full in the middle of a document,
between its markers and at its end.  `logs` has two files, so that a flush is
between them, a third flush that meets the files of a round that died and one
that did not, and commands for an index, a new version, a deletion and one
more.  In `searchd` a pid is used again while the table may still have it, and
one pid more than slots lets an old child live beside a full new house; a
reload may go up and down.  In `indexer` the first urls lead to a third, so that
a thread that sleeps must wake for what another one found.  In `boolean` each pair of
operators meets in both orders, with and without brackets; the documents have
the words next to each other, in either order, repeated, one word apart, and
16 and 17 words apart.

*Deadlock.* It is checked where the system never stops.  `base_lock` says
`CHECK_DEADLOCK FALSE`, since threads that went on really may all wait for what others keep; that
nobody else does is `CallsEnd`.  The runs of `Cached`,
`logs`, `searchd`, `indexer` and `boolean` say `CHECK_DEADLOCK FALSE`: the daemon,
the indexer or the query ends there, or the commands of the bound are used up.

*Fairness.* `Base!FairSpec`: a process in a call goes on, since nothing in
`base.c` waits once it has the lock; no fairness for `Start`, faults or deaths.
`OptimizeFairSpec` adds that a round goes on, that a call which came between
two rounds ends and its caller closes the handle, and strong fairness of
`Again`: a process waiting for an `fcntl` lock gets it when others release it
over and over.  `BaseLock`: a thread goes on, takes what stays free and closes its
handle; only weak fairness for locks, so `CallsEnd` is claimed once no new
calls come.  `Cached!FairSpec`: threads store what they were sent, an indexer follows
its commands up, and buffers are flushed (`thread_optimize` visits them all);
nothing makes an indexer send or leave.  `Searchd!FairSpec`: the parent goes on,
SIGCHLD arrives, a child goes on except where it waits for its client, and there its
alarm rings.  `Indexer!FairSpec`: each thread and the thread that creates them go on; a
thread asleep wakes every second by itself.  `LogsOnly` has safety only.

### Findings

* `cached_tail`: `DpsRemoveOldWords` moves the words behind the last marker by a
  count of 8-byte postings in place of 24-byte words (`cache.c:965`).
* `cached_unsaved`: with status 0 a document is sent without a marker
  (`cache.c:703`), so after a lost status update its old words stay.

### Where a property ends

The premises of the properties are as weak as the code allows.  Each edit
below makes TLC print the behaviour behind it.

* `RecordsKept` is about several records with one slot each: a search
  stops at an empty head slot (`base.c:424`), a record further on in the chain
  gets a second slot when it is written again, and `DpsBaseOptimize`, finding the
  first slot for the second, resets its link (`base.c:1203`) and loses the
  records behind it.  (Drop `OneSlotEach` from `RecordsKept`.)
* It is about two records at least, since `DpsBaseOptimize` keeps the slots with
  `size < ActualSize`, the sum of all sizes (`base.c:1010`), which the only record of a
  file never satisfies: it is dropped.  (Drop `Several`.)
* `Answers` fails when a writer died between linking a slot and writing it, and
  the next caller comes to the broken chain over an open handle (`base.c:458`):
  its write is answered OK and not found.  (`Hash <- OneChain`,
  `Ops = {"read", "write"}` and the one property `Answers` in `base_apart.cfg`.)
* Once a caller goes on after a failed call, `base.c` does not keep what `BaseLock` promises of others.
  A call that fails on a missing `.s` file returns with the mutex and the lock of the `.i` file
  (`base.c:205`); the next call on the handle counts the mutex again, or overwrites the descriptor and
  `FileNo` by those of another file (`base.c:97`), and one `DpsBaseClose` releases too little, or
  what the thread never took (`mutex.c:511`).  No fault is needed, only a reader that comes between
  the two `open()` of a writer.  Therefore:
  - `CallsEnd` ends where a thread went on.  `AllCallsEnd` does not: the lock of the first `.i` file stays
    with the reader's process, and the writer in another one waits for ever, although "one may use
    several indexing and searching processes at the same time even on the same database"
    (`doc/intro.xml:89`).  (`AllCallsEnd` as the property of `base_lock.cfg`.)
  - The first half of `NothingKept` is about threads that never went on, the second about
    processes without a thread that went astray.  `A->Locked`, "is locked, how many times"
    (`dps_common.h:1260`), stays 1 with a closed handle, and that of the other file number comes to
    -1, so that the next get counts it to 0 without locking.  (`LockedCounts` as an invariant.)
  - `ThreadsExcluded` leaves out threads that went astray, which is what they may do with that
    count.  (Drop the condition on `went`.)
* `Exclusion` is about processes of one thread: with two, the `close()` of one
  thread drops the lock another has just taken (`base.c:362`).  (Drop `Alone`.)
* `ChildrenRun` leaves out two cases in which a slot stays empty: a child that
  ends before its pid is in the table (`searchd.c:2376`, 2443; "race") and a reload
  to a smaller `MaxClients`, below which the handler looks (`searchd.c:157`;
  "shrink").  (`FullHouse` in place of `ChildrenRun`.)
* `ReloadsEnd` is about the daemon.  In the foreground the children forked in a
  reload inherit the flag and send SIGHUP back to the parent
  (`searchd.c:1603`), which reloads again.  As a daemon `parent_pid` is that of the
  process before `dps_demonize`, so a child tells nobody.
* A failed reload exits and leaves the children (`searchd.c:2113`), which is why
  `ChildrenEnd` begins with "stopped".
* `Fresh` of `LogsOnly` is about rounds that wait.  "Indexes can be created
  anytime without interrupting current indexing process" (`doc/cachemode.xml:138`)
  is `Anytime`: with `Around <- Busy` and `Anytime` as the property of `logs.cfg` a
  document sent during a flush has its marker in one round and its words in
  another, and loses words (`cache.c:986`).  `Anytime` also fails with "overlap", with "bare" since
  `del-split.log` stays (`splitter.c:197`), and with "die" since a log is unlinked before
  it is processed (`splitter.c:261`).
* `Fresh` needs logs that fit the copy buffer: `DpsRotateDelLog` does not reset
  `bytes_written` between two buffers (`cache.c:480`).  (`PathMax = 1`.)
* `BuffersFit` needs documents to wait for the flush, which sets `cur_del_buf`
  back whatever came meanwhile (`cache.c:3014`).  (`Around <- Busy`,
  `CacheLogWords = 9`, `MaxCalls = 6`, `MaxFlushes = 1`.)
* `Exclusive` is about one process: the transaction around SELECT and UPDATE is
  switched off (`sql.c:4546`), so two indexers on one database
  may take the same targets; `doc/perf.xml:78` advises to run several.  (Drop the
  premise on `proc`.)  In one process it also fails after a failed mark, with three
  threads (`sql.c:4516`), and when a document takes longer than the mark.
* `WaitsForAll` fails with threads that start late and with a reload: a
  thread that ends is not taken off `sleep_threads` (`main.c:1337`), and a
  reload wakes sleepers that others have counted.
* `NothingLeft` is about one thread for each process: a thread that finds nothing due sets
  `url_number` to -1 (`indexer.c:2103`) while another one is about to add rows.
* `AllEnd` holds although a thread may overwrite its SIGTERM with the result of
  its last document (`agent.c:477`): it goes on until it finds no targets.
* `Found` needs documents that do not use the same positions when there is a phrase: a run of
  equal positions is read on into the next document (`boolean.c:548`, 593), whose first
  word is then missing, so that documents with the phrase are not found.  (Drop
  `Spread`.)  A phrase with a repeated word is never found, and of one whose last
  word is a stop word behind another one, a ring slot is compared that was not filled.
  For ANYWORD it needs documents with each word once: `boolean.c:993`
  copies the position of the wrong list, and the walk steps over pairs.  (Drop `Once`.)
* `Excluded` allows one document for each NOT, by the read at `boolean.c:1134`.
* With a NOT elsewhere than behind an AND the code does not compute what
  `doc/search.xml:446` calls a usual boolean expression: "~ odbc", which
  "will find nothing!" (line 443), finds the documents with odbc; `~a & b` is `~(a & b)`,
  since nothing is performed before two arguments are there (`boolean.c:1410`); OR
  ignores the mark, and of `a ~b` only the documents of b are left.

## 4. What is proved

No assumption but those on constants that the modules name, and the hypotheses
given here.  Each invariant was checked by TLC on the run of its
module before it was proved.

### Base

For every set of records, hash function, number of head slots and combination
of calls and faults (`BaseAssumption`):

* `TypeCorrect`: `Spec => []TypeOK`.
* `NoForeignData`: `Spec => []OwnData`.  No slot in use describes bytes of another
  record.  `OwnData` is not inductive: between the choice of an offset and the
  write of the slot the claim is about `Item`, which is in memory.  The
  invariant `IInv` adds what holds at each step of a call: `CallOK` (the call in
  progress), `WalkOK` (`Item` is the slot at `CurrentItemPos`), `DataOK` (the bytes
  to be written over are the record's own or beyond the end), `IndexOK` (`Item`
  describes the record's bytes).  `Relinked`, `WriteItemKeeps` and
  `WriteDataKeeps` say what one write to a file does to `OwnData`.

Where the files are opened for each call (`~KeepOpen`):

* `NoLoops`: `[]LinksForward`.  A repair after a torn link writes a slot
  that refers to itself for a moment; a file that is opened anew has no `Item`
  from the time before.  With handles that are kept open (`KeepOpen`) it is not
  claimed.
* `FilesAreDictionary` and `AnswersTrue`: without `DpsBaseDelete` the files implement
  `KeyValue`, over crashes and failing writes too: each step of the files is a step of the
  write in progress on its record, or changes nothing of the dictionary (`Dictionary`), and a read answers
  what the dictionary holds (`Answers`).  What is stored under a record is what a walk
  along its chain finds first.  The walk is a recursive function; that it
  ends, and that a write elsewhere does not change it, is shown by induction over the
  positions with a set of counterexamples that has a least element.  The hypothesis
  on deletions is needed: a search stops at the head slot that a deletion emptied
  (`base.c:424`) and does not find the records behind it, so with deletions and
  colliding records the refinement is false; without collisions it is
  checked by TLC (`base_apart`).

### BaseOptimize

For every set of records, hash function, ratio and combination of calls and faults, open
handles and deletions included:

* `RecordsAreKept`: `OptimizeSpec => RecordsKept`.  A round that comes to its end leaves each
  record that a search found with the buffer it had.  The invariant `OInv` is that of `Base`
  between two rounds (`IInv`), and in a round `BusyOK`:
  - the slots in memory have data of their own (`OwnedBy`), and stand for all records that
    were found (`HeldIn`).  `RoundHolds` starts it: of two slots none is as long as all together
    (`NotAll`, by the sum of sizes), so none is taken for a damaged one;
  - `Ahead`: what is moved ends before what is still to be moved begins, so `Move` writes over no buffer
    but the one it moves (`SlotsMoved`).  Sizes are cut only where two buffers overlap, which
    needs two slots of one record (`FittingIs`);
  - `TableOK`: in the new index file all chains lead forward and end in the file, so the end that
    `DpsBaseSeek` finds is on the way of a search (`EndOfSearch`); `Placed` and `Built`: each slot
    written so far is found by one, since a link at the end of a chain and a slot behind it
    change no other search (`LinkKeeps`, `SlotKeeps`).

  After a death in a round the invariant claims nothing, and neither does `RecordsKept`.
* `NoForeignDataBeside`: `OwnData` holds also before, between and after the rounds, with
  calls that fail or die in between.

### BaseLock

For every number of threads, processes and files, all faults, and whatever callers go on with
after a failed call (`LockAssumption`, no other hypothesis):

* `LocksTyped`: `Spec => []TypeOK`.  `A->Locked` falls below zero only in an agent that went astray.
* `ThreadsExclude`, `LocksExclude`, `NoneKept`: `ThreadsExcluded`, `Exclusion` and
  `NothingKept`.

None of them is inductive: who is in the files is said by the handle and the step of a thread, who excludes
whom by mutexes, counts and locks.  `IInv` ties them together:

- `HandleOK`: what the fields of the handle are at each step; `FileOK`: the files that are about to be locked
  are there.
- `CountOK`: a thread counts a mutex as often as `Taken` says by its step and its locked handle, at least as
  often if it went on, and nothing is known of one that went astray.
- `MutexesOK`: a mutex is a thread's exactly while its count is positive.  Together with `CountOK` that
  is `HoldsMutex`, and `InsideHolds` leads to `ThreadsExcluded`.
- `OwnOK`, `SharedOK`: a thread alone in its process still has the lock of the index file it took, and a
  lock to write excludes those of other processes: `Exclusion`.
- `LocksOK`: a process none of whose threads went astray has locks only of files that one of its
  threads holds, and through the descriptors of that thread's handle, so that its `DpsBaseClose` drops
  them; `FilesOK`: locks are on files that are there.  That is the second half of `NothingKept`.

Each action keeps `IInv` by a lemma of its own; those that take or release a lock share
`LocksKeep`, `LockTaken`, `LocksGo`, `MutexGot` and `MutexReleased`.

### Cached

For every number of indexers, urls, words, files and sizes of buffers
(`CachedAssumption`):

* `OneStoreSafe`: `Spec => []OneStore`.  The code has no lock for a document; that
  two threads never store for one url follows from the targets alone.
  `TurnsInv` says how: a url whose thread is still storing is either held by
  that indexer or deleted, and a deleted one is not sent again.
* `ShutdownSafe`: without failing merges `Spec => []ShutdownSaves`, by `Down`: a
  daemon that is down has no live thread and only empty buffers.
* `BuffersSafe`: `Spec => []BuffersOK`, from `ControlOK`: each buffer is checked for
  room in the same visit in which a record is added.
* `PostingsSorted` and `TypesKept`: `Spec => []Sorted` and `Spec => []TypeOK`, failing merges
  included.  The invariant `RecordsInv` has that each record is in order (`Ascending`, of
  any two postings, where `Sorted` says it of neighbours).  A step keeps it
  because everything on the way from a buffer to a record does, which is shown in `LogWordsProofs`:
  `DpsSort` orders (`WordsSorted`), what `DpsRemoveOldWords` leaves is made of
  fields of the words of the buffer, also where it moves parts of words (`OldWordsRemoved`), the
  words of one record of a sorted buffer ascend (`AddedAscends`), cleaning keeps
  the order (`OldCrdsRemoved`), and so does the merge (`MergeAscends`).

* `FreshUnlessMoved` and `FreshOneWord`: with files that can be written (`Env = {}`) and
  documents that do not name a word at one place twice (`Contents`),
  `Spec /\ []Intact => []Fresh`, and `Spec => []Fresh` where a buffer has one word or there is one
  url.  `Intact` says of the buffers what the finding of `cached_tail` denies: no save is to
  have both words older than a marker and words behind the last marker, which
  `DpsRemoveOldWords` moves by a wrong length; so the theorem says that this move is the only thing
  between the code and a right index.  `Fresh` speaks of the quiet states only and nothing of
  it is inductive.  `FreshInv` says at every state what a save would make of record and
  buffer together (`Content`), and for each url:
  - while a thread is storing for it, `Duty`: before its marker, that the words to come are all
    that is wanted; behind it, that the postings of the url in `Content` and the words still
    to come are together what is wanted, and have nothing in common (`StoringInv`);
  - otherwise the postings in `Content` are what is wanted (`RestInv`);
  - the status, the info record and what the indexer is about to save or to forget agree with the
    last command (`AnswersInv`), of which the choice between WORD and NEWORD depends;
  - stamps in the buffers are not later than the clock, and those of a url whose marker is
    still to come are earlier than the marker (`StampsInv`): else the marker, or a marker
    that comes later, would not take the old words or take the new ones;
  - each posting is there once, in the record or as one word of the buffer (`OnceInv`).

  A save leaves `Content` as it is, which is `RecordSaved`: the whole of `SortedDels`, `FreshWords`,
  `RemoveOldCrds`, `Added` and `Merge` together return the postings of the record without a
  marker of their url and those of the words with none later (`LatestTells`,
  `FreshWordsSelect`, `OldCrdsSelect`, `AddedIs`, `MergeHas`).  A marker takes the postings of
  its url from `Content` (`MarkerClears`) and a word adds its own (`WordAdds`).  TLC had
  `FreshInv` before, on the instance of `cached_fresh`, on one url with three words, and on buffers of
  two words with the states outside of `Intact` left out.

The operators of `LogWords` that walk over an array are recursive functions (`Walk`,
`RemoveOldCrds`, `Merge`).  That such a function exists and what it holds at its end is
shown by induction with a set of numbers that has 0 and each successor (`Induct`):
`WalkIs`, `CrdsIs`, `MergeIs`.  `DpsSort` gives each element the place that is the
number of those ahead of it; that no two have one place and none is free is `Ranked`.

### LogsOnly

For every number of files and sizes of buffers (`LogsOnlyAssumption`):

* `ScriptServed`: `Spec => []Served`, whatever overlaps and dies: del-split.log is
  removed only by the script's own round, and a waiting script has a flush
  before it that has not passed `Create`.
* `MarksFit`: without "busy" `Spec => []BuffersFit`.  The invariant adds that the
  buffers behind `cur_del_buf` hold no markers, and that a flush meets
  no thread.
* `MergedOnce`: `Spec => []Once`, whatever overlaps and dies, "busy" included.  The
  documents must not name a word at one coordinate twice (`Distinct`).
  `DpsWordListAdd` gives each word a position of its own, but its alternatives (a form
  without an accent, a suffix) share that position (`word.c:34`), and where two
  of them are equal the words themselves cannot tell a second copy from the first.  `Once` is about words
  that are somewhere; a word that comes new must not be one of them.
  `OnceInv` therefore adds `Past`: all words at a place or merged have a stamp that
  is over, or belong to the part of the present document that is already in the
  buffers.  A step moves words, joins two places, drops words or merges them; the
  lemmas `Moved`, `Joined`, `Dropped` and `MergedIn` say what each does to `Apart`.
* `TypesKept`: `Spec => []TypeOK`, whatever overlaps and dies, with the lemmas of `LogWordsProofs`
  for the records (which also stay in order: `RestOK`) and for the markers of all buffers
  one behind the other (`FlattenTyped`).
* `FreshUnlessCut` and `FreshOneUrl`: for documents that are `Distinct`,
  `Spec /\ []Intact /\ []Fits => []Fresh`, and with one url, which is the setting of the run
  `logs`, `Spec /\ []Fits => []Fresh`.  `Intact` is as in `Cached`, said of what the
  splitter is about to merge.  `Fits` says that `del.log` and each log have no more
  than goes into one buffer of the copy, so that the missing reset of `bytes_written`
  (`cache.c:480`, "Where a property ends") does not matter; the few words of the instance of
  `logs` never are more.  Nothing else is assumed: what
  `Around` allows may happen at any time, `Fresh` being claimed while `careful` holds.

  `Fresh` speaks of the states where all is through.  `KeptInv` says for all others,
  while `careful` holds, what the record of a word is going to be (`Final`): what is in it, changed
  by the markers and words of the present round (`EarlyDels`, `Early`: the split files, `del-split.log`
  and the splitter), then by those of the next one (`LateDels`, `Late`: the buffers, the logs and
  `del.log`), file by file, since a flush has moved some files and not yet others, and the
  splitter has merged some (`Through`).  `Procedure`, `Round` and `Rotated` say which of the
  steps of a flush, a script and a splitter may come together: a flush begins to move files only
  when the last round is over, and markers go with the words they were sent
  with.  `Timely` has that no stamp is from a time to come, and that the marker of the present
  document is later than the words before it.  `FinalOnce` and `NextOnce` have each
  posting once, `Said` ties `Final` to what was sent: for each url it is what the last
  command wants, less the words of the document that are still to come.  A flush and a script leave `Final` as
  it is (`FinalSame`), so does the splitter (`PutFinal`, with `RecordMerged`: the
  latest marker of each url, which `SortedDels` keeps, does what all of them do, `LatestShows`), a marker
  clears a url (`MarkFinal`) and a word adds one posting (`WordFinal`).  TLC had the invariant before on one
  url and documents of two words, first without deaths and overlaps, then with these cut off where
  `careful` ends, and on two urls with the states outside of `Intact` and `Fits` left out (4 600 000 states).  That a
  flush resets the markers only at its first file (`reset => at = 1` in `Rotated`) was not in it
  and was found missing by the proof of `IndexKept`.

### Searchd

For every set of pids, `Limit` and sizes (`SearchdAssumption`):

* `TableTyped`: the table, the slot and `MaxClients` stay within the limit.
* `NoOldChildren`: `OneGeneration`.  The invariant: every living child is in a slot of
  its own or is the one about to be stored, so SIGKILL reaches all.
* `Bounded`: `AtMost`, by the injection of living children into slots.
* `MutexNotLost`: `MutexHeld`.  Of a reload both mutexes matter: `Holds` says that
  whoever is in `select()` holds the mutex of its generation, and
  `Turned` that between the reload of the configuration and `KillAll` every living
  child is of the old one and the new mutex is free, so SIGKILL takes
  nothing from the next generation.

### Indexer

For every number of threads, processes and urls (`IndexerAssumption`):

* `Types`: `TypeOK`.  That `sleep_threads` does not fall below zero needs `Counted`: it is
  the number of threads whose `i_sleep` is set.
* `NoneTwice`: `Exclusive`.  The invariant `Held`: while one process is alone, what a thread has in
  hand or the targets hold is marked or indexed (`Guarded`, `Marks`), and targets
  and hands are disjoint (`Stock`, `Disjoint`); between SELECT and UPDATE, when that is not so,
  the lock keeps the other threads out.

The others go by a table of what each action does to a thread (`Moves`, and
`Deals` for urls), so that an invariant is checked against the table and not
against every action again:

* `NoneLeftAtWork`: `Spec => WaitsForAll`.  `WInv`: a thread that has
  slept comes back to the end of the loop without a url (`Sleeper`), `total_threads`
  is not below the number of living threads (`Totals`), and one that leaves because all sleep
  has found every other one asleep or on its way out (`Agreed`).
* `NoMarkLeft`: `Spec => []Owned`.  `OInv`: a marked url is in the hands
  of a thread that has not ended or among the targets of its process (`Cared`); that these
  are not left behind needs that `url_number` covers them (`Funded`) and that a thread will
  ask for them (`Attended`).
* `AllIndexed`: `Spec => []NothingLeft`, for `Threads # {}` and `MaxDocs["all"]` not below
  the number of urls: without `-n` the code has 0x7FFFFFFF there (`main.c:81`).
  `NInv` relates `url_number` to what is still to be done (`Enough`, `Spent`).

### Model-checked only

Liveness and fairness, which are out of the prover's reach: of `BaseOptimize`, that is
`OptimizeEnds`, of `BaseLock` `CallsEnd`.  `Boolean`: what the stacks compute for every query is an induction over
expressions, and its walks through two lists are recursive operators.  Of `Cached`, `Fresh` with failing merges, which the code
does not keep (`cached_unsaved`).

## 5. Assumptions and limits

* One second of the clock for each command: two versions sent within one second
  are both kept by the code (`cache.c:941`).
* A url that was deleted and is found again has a new `rec_id`.  With
  `UseCRC32URLId` it has the same, and its new words may be stored before the
  deletion is: `OneStore` and `Fresh` are not claimed for that setting.
* `rec_id`s are not 0 and no caller stores an empty buffer.
* The buffers of `Base` are not compressed and `read()` does not fail.  `DpsBaseARead`, the read of compressed
  buffers, deletes a record that it could not read (`base.c:771`), so there a failing read loses
  its own record for good.
* A `write()` of one slot is done or not; a `write()` of a buffer may stop anywhere.
* `Base` takes the exclusive lock of a file pair as given, from the creation of the
  files on; readers share it, which changes nothing for them.  `BaseLock` shows
  the exclusion, with its premises, and has no contents.
* `LogsOnly` has one connection and one flush at a time, since the buffer of markers
  is written with no lock by all connections (`cache.c:3713`) and `in_flush` is
  tested without one (`cached.c:369`); deaths of `cached`, failing writes, several
  splitters (`-f`, `-t`) and an append between the open and the rename of
  a log are left out.
* `Searchd` leaves out the answers, SIGPIPE, log levels and the process that
  tracks queries.
* `Indexer` abstracts a document to what it does to rows.  The retries of the
  SELECT are one step, a flush of several documents is one step; several
  databases, limits of time and size (`-c`, `-G`) and the commands that rank,
  list or clear are left out.  So are `MarkForIndex no` (`sql.c:4474`, `doc/perf.xml:76`), with
  which targets are not marked and nothing keeps two indexers from one url, and a failing
  `DpsStoreHrefs` at the entry of `DpsIndexNextURL` (`indexer.c:2902`).  Threads that start late are not combined with signals.
* `Boolean` leaves out word forms, synonyms, acronyms, aliases and words that are split,
  which add alternatives to a word; sections, limits, the prefix notation; and
  the grouping and ranking of the documents found.

## 6. Not modelled, and the plan

What PROJECT.json lists as `not_modelled` is, for the largest part, text and
tables worked through by one thread: parsers, conversions (most of the lines of
the repository are generated tables of character sets), dictionaries, rules,
templates, drivers.  There a test with a sample page says more than a model.

Next, in this order:

1. `CrawlDelay`: `robots.c:611` reads the time before it has the lock of the
   hosts; a postponed url gets the whole delay from now in place of what is left of it
   (`robots.c:620`, 656; `doc/follow.xml:653`), and `db.c:527` writes over its
   `Next-Index-Time`.
2. `BaseCheckup`: `DpsBaseCheckup` and a caller between its two passes
   (`base.c:868`).
3. `CachedFlush`: `in_flush`, `have_sigpipe` and several clients that flush.
