------------------------------ MODULE LogsOnly ------------------------------
(***************************************************************************)
(* The word path in the logs-only mode of cached (LogsOnly yes): the       *)
(* buffers go to log files (src/src/cache.c), a flush rotates these to     *)
(* "split" files, and the program splitter (src/src/splitter.c), which     *)
(* scripts/run-splitter.in starts and cleans up after, merges the split    *)
(* files into the records of the "wrd" files.                              *)
(*                                                                         *)
(* Three processes take part: cached, with the thread of a connection and  *)
(* the thread that flushes, the splitter and the script.  They share the   *)
(* files and nothing else.  A file is a sequence of records, or NoFile.    *)
(***************************************************************************)
EXTENDS LogWords

CONSTANTS Urls,           \* rec_ids of url, numbers
          Words,          \* wrd_ids, numbers
          WrdFiles,       \* NWrdFiles: the files are numbered from 1
          FileOf,         \* DPS_FILENO
          CacheLogWords,  \* words a buffer holds
          CacheLogDels,   \* markers a buffer holds
          Docs,           \* contents of a document: sequences of <<wrd_id, coord>>
          MaxCalls,       \* bound: documents and deletions sent
          MaxFlushes,     \* bound: flushes asked for
          PathMax,        \* records in a buffer of PATH_MAX bytes
          Around,         \* what may happen: see Careless below
          NoFile          \* in place of a file that does not exist

ASSUME LogsOnlyAssumption ==
    /\ Urls \subseteq Nat \ {0} /\ Words \subseteq Nat
    /\ WrdFiles \in Nat \ {0}
    /\ FileOf \in [Words -> 1..WrdFiles]
    /\ CacheLogWords \in Nat \ {0} /\ CacheLogDels \in Nat \ {0}
    /\ Docs \subseteq Seq(Words \X Nat)
    /\ MaxCalls \in Nat /\ MaxFlushes \in Nat /\ PathMax \in Nat \ {0}
    /\ Around \subseteq {"busy", "overlap", "bare", "die"}
    /\ NoFile \notin Seq([stamp : Nat, url_id : Urls, wrd_id : Words, coord : Nat])

VARIABLES wrd_buf,      \* the buffers: words and markers
          cur_del_buf,  \* the buffer whose markers are being filled
          thread,       \* what DpsLogdStoreDoc is doing
          log,          \* XXX.log of each file
          split,        \* XXX-split.log of each file
          del_log,      \* del.log, which cached keeps open
          del_split,    \* del-split.log
          del_made,     \* whether that file exists
          flush,        \* where the flushing thread is, and at which file
          asked,        \* flushes asked for that have not begun
          script,       \* what run-splitter is doing
          splitter,     \* where the splitter is, its file, words and markers
          base,         \* the postings of each word, in the wrd files
          status,       \* of each url in the SQL table: "new", "indexed" or "deleted"
          wanted,       \* of each url: the content last sent
          now,          \* the clock, a new second for each command
          flushes,      \* flushes asked for so far
          merged,       \* history: the words the splitter has merged
          careful       \* history: the procedure was kept and nobody died

buffers == <<wrd_buf, cur_del_buf, thread>>
logs == <<log, del_log>>
marks == <<del_split, del_made>>
splits == <<split, marks>>
sent == <<status, wanted, now>>
index == <<base, merged>>
control == <<flush, asked, script, flushes>>
vars == <<buffers, logs, splits, sent, index, control, splitter, careful>>

Files == 1..WrdFiles
Empty == [data |-> <<>>, del_buf |-> <<>>]
Idle == [pc |-> "idle", url |-> 0, stamp |-> 0, words |-> <<>>]
Off == [pc |-> "off", at |-> 0, words |-> <<>>, dels |-> <<>>]
Resting == [pc |-> "idle", at |-> 0]

Init ==
    /\ wrd_buf = [f \in Files |-> Empty]
    /\ cur_del_buf = 1
    /\ thread = Idle
    /\ log = [f \in Files |-> NoFile]
    /\ split = [f \in Files |-> NoFile]
    /\ del_log = <<>>
    /\ del_split = <<>>
    /\ del_made = FALSE
    /\ flush = Resting
    /\ asked = 0
    /\ script = "idle"
    /\ splitter = Off
    /\ base = [w \in Words |-> <<>>]
    /\ status = [u \in Urls |-> "new"]
    /\ wanted = [u \in Urls |-> <<>>]
    /\ now = 0
    /\ flushes = 0
    /\ merged = {}
    /\ careful = TRUE

\* A step that the procedure does not have in situation bad: left out, or
\* allowed by Around and noted.
Careless(what, bad) ==
    /\ bad => what \in Around
    /\ careful' = (careful /\ ~bad)

\* The records of a file, none if it does not exist.
Read(file) == IF file = NoFile THEN <<>> ELSE file

-----------------------------------------------------------------------------
(* An indexer and the thread of its connection. *)

Flushing == flush.pc # "idle" \/ asked > 0

\* A document or a deletion is sent: the indexer gives a url that is indexed
\* already to DpsLogdStoreDoc with a marker, and a deleted one not at all.
Send ==
    /\ thread.pc = "idle"
    /\ now < MaxCalls
    /\ Careless("busy", Flushing)
    /\ now' = now + 1
    /\ \E u \in Urls, d \in Docs \cup {<<>>} :
          /\ status[u] # "deleted"
          /\ d = <<>> => status[u] = "indexed"
          /\ status' = [status EXCEPT ![u] = IF d = <<>> THEN "deleted" ELSE "indexed"]
          /\ wanted' = [wanted EXCEPT ![u] = d]
          /\ thread' = [pc |-> IF status[u] = "indexed" THEN "mark" ELSE "words",
                        url |-> u, stamp |-> now', words |-> d]
    /\ UNCHANGED <<wrd_buf, cur_del_buf, logs, splits, index, control, splitter>>

\* The markers of buffers 1 to n, in this order.
AllDels(n) == FlattenSeq([f \in 1..n |-> wrd_buf[f].del_buf])

\* Mutant of Mark: behind the last buffer comes no first one.
MarkBehind ==
    LET next == IF Len(wrd_buf[cur_del_buf].del_buf) = CacheLogDels THEN cur_del_buf + 1 ELSE cur_del_buf
    IN /\ thread.pc = "mark"
       /\ wrd_buf' = IF next > WrdFiles THEN wrd_buf ELSE
              [wrd_buf EXCEPT ![next].del_buf = Append(@, LogDel(thread.stamp, thread.url))]
       /\ cur_del_buf' = next
       /\ thread' = [thread EXCEPT !.pc = "words"]
       /\ UNCHANGED <<logs, splits, sent, index, control, splitter, careful>>

\* Mutant of Mark: behind the last buffer comes the first one as it is.
MarkAround ==
    LET next == IF Len(wrd_buf[cur_del_buf].del_buf) = CacheLogDels THEN cur_del_buf + 1 ELSE cur_del_buf
        at == IF next > WrdFiles THEN 1 ELSE next
    IN /\ thread.pc = "mark"
       /\ wrd_buf' = [wrd_buf EXCEPT ![at].del_buf = Append(@, LogDel(thread.stamp, thread.url))]
       /\ cur_del_buf' = at
       /\ thread' = [thread EXCEPT !.pc = "words"]
       /\ UNCHANGED <<logs, splits, sent, index, control, splitter, careful>>

\* The marker goes to one buffer for all files, the next one when that is full;
\* when all are, the markers of all of them go to del.log first.
Mark ==
    LET full == Len(wrd_buf[cur_del_buf].del_buf) = CacheLogDels
        next == IF full THEN cur_del_buf + 1 ELSE cur_del_buf
        at == IF next > WrdFiles THEN 1 ELSE next
        room == IF next > WrdFiles THEN [f \in Files |-> [wrd_buf[f] EXCEPT !.del_buf = <<>>]]
                                   ELSE wrd_buf
    IN /\ thread.pc = "mark"
       /\ del_log' = IF next > WrdFiles THEN del_log \o AllDels(WrdFiles) ELSE del_log
       /\ wrd_buf' = [room EXCEPT ![at].del_buf = Append(@, LogDel(thread.stamp, thread.url))]
       /\ cur_del_buf' = at
       /\ thread' = [thread EXCEPT !.pc = "words"]
       /\ UNCHANGED <<log, splits, sent, index, control, splitter, careful>>

\* DpsLogdSaveBuf: the words of buffer f are appended to XXX.log, which is
\* created if need be, and its markers to del.log.
SaveBuf(f) ==
    /\ log' = [log EXCEPT ![f] = IF wrd_buf[f].data = <<>> THEN @ ELSE Read(@) \o wrd_buf[f].data]
    /\ del_log' = del_log \o wrd_buf[f].del_buf

\* The next word goes to the buffer of its file, saved first if it is full.
AddWord ==
    LET w == Head(thread.words)[1]
        f == FileOf[w]
        x == LogWord(thread.stamp, thread.url, w, Head(thread.words)[2])
    IN /\ thread.pc = "words"
       /\ thread.words # <<>>
       /\ IF Len(wrd_buf[f].data) = CacheLogWords
          THEN SaveBuf(f) /\ wrd_buf' = [wrd_buf EXCEPT ![f] = [Empty EXCEPT !.data = <<x>>]]
          ELSE UNCHANGED logs /\ wrd_buf' = [wrd_buf EXCEPT ![f].data = Append(@, x)]
       /\ thread' = [thread EXCEPT !.words = Tail(@)]
       /\ UNCHANGED <<cur_del_buf, splits, sent, index, control, splitter, careful>>

Done ==
    /\ thread.pc = "words"
    /\ thread.words = <<>>
    /\ thread' = Idle
    /\ UNCHANGED <<wrd_buf, cur_del_buf, logs, splits, sent, index, control, splitter, careful>>

-----------------------------------------------------------------------------
(* A flush: DpsFlushAllBufs with rotation, in one thread at a time. *)

\* A flush command ("indexer -TH") or SIGHUP.
AskFlush ==
    /\ flushes < MaxFlushes
    /\ asked' = asked + 1
    /\ flushes' = flushes + 1

Flush ==
    /\ script = "idle" \/ "overlap" \in Around
    /\ AskFlush
    /\ UNCHANGED <<buffers, logs, splits, sent, index, flush, script, splitter, careful>>

Splitting == splitter # Off \/ script = "rm"

\* in_flush holds it back while another one is under way.
BeginFlush ==
    /\ asked > 0
    /\ flush = Resting
    /\ thread.pc = "idle" \/ "busy" \in Around
    /\ ~Splitting \/ "overlap" \in Around
    /\ careful' = (careful /\ thread.pc = "idle" /\ ~Splitting)
    /\ asked' = asked - 1
    /\ flush' = [pc |-> "save", at |-> 1]
    /\ UNCHANGED <<buffers, logs, splits, sent, index, script, flushes, splitter>>

\* The next file, or the first one of the next round over them.
NextFile(pc, then) ==
    flush' = IF flush.at < WrdFiles THEN [pc |-> pc, at |-> flush.at + 1] ELSE [pc |-> then, at |-> 1]

\* DpsLogdSaveAllBufs comes to the next buffer.
SaveNext ==
    /\ flush.pc = "save"
    /\ SaveBuf(flush.at)
    /\ wrd_buf' = [wrd_buf EXCEPT ![flush.at] = Empty]
    /\ NextFile("save", "reset")
    /\ UNCHANGED <<cur_del_buf, thread, splits, sent, index, asked, script, flushes, splitter, careful>>

\* The markers go to the first buffer again, whatever came meanwhile.
ResetDelBuf ==
    /\ flush.pc = "reset"
    /\ cur_del_buf' = 1
    /\ flush' = [flush EXCEPT !.pc = "rotate"]
    /\ UNCHANGED <<wrd_buf, thread, logs, splits, sent, index, asked, script, flushes, splitter, careful>>

\* DpsRotateDelLog, next file: without a split file the log becomes it.
Rename ==
    /\ flush.pc = "rotate"
    /\ split[flush.at] = NoFile
    /\ split' = [split EXCEPT ![flush.at] = log[flush.at]]
    /\ log' = [log EXCEPT ![flush.at] = NoFile]
    /\ NextFile("rotate", "create")
    /\ UNCHANGED <<buffers, del_log, marks, sent, index, asked, script, flushes, splitter, careful>>

\* What DpsRotateDelLog copies of a file: it reads buffer after buffer, but
\* bytes_written goes on counting, and so only the first one is written.  (It
\* may end within a word, which is left out.)
Copied(file) == SubSeq(file, 1, IF Len(file) < PathMax THEN Len(file) ELSE PathMax)

\* Mutant of Copy: the log takes the place of the split file.
CopyOver ==
    /\ flush.pc = "rotate"
    /\ split[flush.at] # NoFile
    /\ split' = [split EXCEPT ![flush.at] = Read(log[flush.at])]
    /\ log' = [log EXCEPT ![flush.at] = Read(@)]
    /\ flush' = [flush EXCEPT !.pc = "cut"]
    /\ UNCHANGED <<buffers, del_log, marks, sent, index, asked, script, flushes, splitter, careful>>

\* With one, the log, created if need be, is appended to it.
Copy ==
    /\ flush.pc = "rotate"
    /\ split[flush.at] # NoFile
    /\ split' = [split EXCEPT ![flush.at] = @ \o Copied(Read(log[flush.at]))]
    /\ log' = [log EXCEPT ![flush.at] = Read(@)]
    /\ flush' = [flush EXCEPT !.pc = "cut"]
    /\ UNCHANGED <<buffers, del_log, marks, sent, index, asked, script, flushes, splitter, careful>>

\* Mutant of Cut: the log keeps what was copied.
CutNothing ==
    /\ flush.pc = "cut"
    /\ NextFile("rotate", "create")
    /\ UNCHANGED <<buffers, logs, splits, sent, index, asked, script, flushes, splitter, careful>>

\* And cut to nothing.  The lock of the file keeps the splitter out of it but
\* not the other threads of cached.
Cut ==
    /\ flush.pc = "cut"
    /\ log' = [log EXCEPT ![flush.at] = <<>>]
    /\ NextFile("rotate", "create")
    /\ UNCHANGED <<buffers, del_log, splits, sent, index, asked, script, flushes, splitter, careful>>

\* Mutant of Create: a file is created for markers only.
CreateForDels ==
    /\ flush.pc = "create"
    /\ del_made' = (del_made \/ del_log # <<>>)
    /\ flush' = [flush EXCEPT !.pc = "dels"]
    /\ UNCHANGED <<buffers, logs, split, del_split, sent, index, asked, script, flushes, splitter, careful>>

\* del-split.log is created, for which run-splitter waits.
Create ==
    /\ flush.pc = "create"
    /\ del_made' = TRUE
    /\ flush' = [flush EXCEPT !.pc = "dels"]
    /\ UNCHANGED <<buffers, logs, split, del_split, sent, index, asked, script, flushes, splitter, careful>>

\* The markers are appended to it; if it was removed in between, to no file.
CopyDels ==
    /\ flush.pc = "dels"
    /\ del_split' = IF del_made THEN del_split \o Copied(del_log) ELSE <<>>
    /\ flush' = [flush EXCEPT !.pc = "cutdels"]
    /\ UNCHANGED <<buffers, logs, split, del_made, sent, index, asked, script, flushes, splitter, careful>>

CutDels ==
    /\ flush.pc = "cutdels"
    /\ del_log' = <<>>
    /\ flush' = Resting
    /\ UNCHANGED <<buffers, log, splits, sent, index, asked, script, flushes, splitter, careful>>

-----------------------------------------------------------------------------
(* run-splitter and the splitter. *)

\* run-splitter -k -s: a SIGHUP to cached, and then it waits.
Run ==
    /\ script = "idle"
    /\ AskFlush
    /\ script' = "wait"
    /\ UNCHANGED <<buffers, logs, splits, sent, index, flush, splitter, careful>>

\* The splitter reads the markers.
SplitterOn == splitter' = [pc |-> "read", at |-> 1, words |-> <<>>, dels |-> SortedDels(del_split)]

\* run-splitter sees del-split.log and starts the splitter.  The doc adds that
\* one has to "wait till all buffers will be flushed", which the script does not.
Start ==
    /\ script = "wait"
    /\ del_made
    /\ Careless("overlap", Flushing)
    /\ SplitterOn
    /\ script' = "split"
    /\ UNCHANGED <<buffers, logs, splits, sent, index, flush, asked, flushes>>

\* The splitter is run as such, and nobody removes del-split.log behind it.
RunBare ==
    /\ "bare" \in Around
    /\ script = "idle"
    /\ del_made
    /\ ~Flushing
    /\ SplitterOn
    /\ script' = "bare"
    /\ careful' = FALSE
    /\ UNCHANGED <<buffers, logs, splits, sent, index, flush, asked, flushes>>

\* The next split file is read into memory and unlinked; an empty one stays.
Take ==
    LET f == splitter.at IN
    /\ splitter.pc = "read"
    /\ splitter' = [splitter EXCEPT !.pc = "merge", !.words = Read(split[f])]
    /\ split' = [split EXCEPT ![f] = IF Read(@) = <<>> THEN @ ELSE NoFile]
    /\ UNCHANGED <<buffers, logs, marks, sent, index, control, careful>>

\* DpsProcessBuf for its file: the records of all words are cleaned of the urls
\* that have a marker, and the words added.
Merging(f, words, dels) ==
    LET new == DpsSort(FreshWords([data |-> words, del_buf |-> dels]), Cmplog_wrd)
    IN [w \in Words |-> IF FileOf[w] # f THEN base[w]
                        ELSE Merge(RemoveOldCrds(base[w], dels), Added(new, w))]

Put ==
    LET last == splitter.at = WrdFiles IN
    /\ splitter.pc = "merge"
    /\ base' = Merging(splitter.at, splitter.words, splitter.dels)
    /\ merged' = merged \cup ToSet(splitter.words)
    /\ splitter' = IF last THEN Off ELSE [splitter EXCEPT !.pc = "read", !.at = @ + 1, !.words = <<>>]
    /\ script' = IF ~last THEN script ELSE IF script = "split" THEN "rm" ELSE "idle"
    /\ UNCHANGED <<buffers, logs, splits, sent, flush, asked, flushes, careful>>

\* run-splitter removes del-split.log behind a splitter that succeeded.
RemoveDels ==
    /\ script = "rm"
    /\ del_made' = FALSE
    /\ del_split' = <<>>
    /\ script' = "idle"
    /\ UNCHANGED <<buffers, logs, split, sent, index, flush, asked, flushes, splitter, careful>>

\* The splitter dies; the script ends and leaves del-split.log.
Die ==
    /\ "die" \in Around
    /\ splitter # Off
    /\ splitter' = Off
    /\ script' = "idle"
    /\ careful' = FALSE
    /\ UNCHANGED <<buffers, logs, splits, sent, index, flush, asked, flushes>>

-----------------------------------------------------------------------------

Next ==
    \/ Send \/ Mark \/ AddWord \/ Done
    \/ Flush \/ BeginFlush \/ SaveNext \/ ResetDelBuf \/ Rename \/ Copy \/ Cut \/ Create \/ CopyDels \/ CutDels
    \/ Run \/ Start \/ RunBare \/ Take \/ Put \/ RemoveDels \/ Die

Spec == Init /\ [][Next]_vars

-----------------------------------------------------------------------------
(* Properties. *)

\* Every variable keeps its type.
WordRecs == [stamp : 1..MaxCalls, url_id : Urls, wrd_id : Words, coord : Nat]
DelRecs == [stamp : 1..MaxCalls, url_id : Urls]
TypeOK ==
    /\ wrd_buf \in [Files -> [data : Seq(WordRecs), del_buf : Seq(DelRecs)]]
    /\ cur_del_buf \in Files
    /\ thread.pc \in {"idle", "mark", "words"}
    /\ log \in [Files -> Seq(WordRecs) \cup {NoFile}]
    /\ split \in [Files -> Seq(WordRecs) \cup {NoFile}]
    /\ del_log \in Seq(DelRecs) /\ del_split \in Seq(DelRecs) /\ del_made \in BOOLEAN
    /\ flush.pc \in {"idle", "save", "reset", "rotate", "cut", "create", "dels", "cutdels"}
    /\ script \in {"idle", "wait", "split", "bare", "rm"}
    /\ splitter.pc \in {"off", "read", "merge"}
    /\ base \in [Words -> Seq([url_id : Urls, coord : Nat])]
    /\ asked \in 0..MaxFlushes

\* No buffer is filled past its end.  Mark looks at one buffer and, when that is
\* full, writes to the next: that one has room because the buffers behind
\* cur_del_buf hold no markers, as long as no document comes while a flush
\* empties the buffers and ResetDelBuf starts again.
BuffersFit ==
    \A f \in Files : Len(wrd_buf[f].data) <= CacheLogWords /\ Len(wrd_buf[f].del_buf) <= CacheLogDels

\* The words that are on their way to the index, at each of the places.
Places == {"data", "log", "split", "splitter"} \X Files
OnTheWay == [p \in Places |->
    CASE p[1] = "data"     -> wrd_buf[p[2]].data
      [] p[1] = "log"      -> IF flush = [pc |-> "cut", at |-> p[2]] THEN <<>> ELSE Read(log[p[2]])
      [] p[1] = "split"    -> Read(split[p[2]])
      [] p[1] = "splitter" -> IF splitter.at = p[2] THEN splitter.words ELSE <<>>]

\* A word is at one place only, and no word is merged again: through renamed,
\* copied and cut logs, with a splitter that comes at any time and dies at any
\* time, none gets into the index twice.
Once ==
    \A p \in Places : \A i \in DOMAIN OnTheWay[p] :
        /\ \A q \in Places : \A j \in DOMAIN OnTheWay[q] :
              OnTheWay[p][i] = OnTheWay[q][j] => p = q /\ i = j
        /\ OnTheWay[p][i] \notin merged

WantedCrds(w) ==
    UNION {{Crd(u, x[2]) : x \in {y \in ToSet(wanted[u]) : y[1] = w}} : u \in Urls}

\* Nothing is left to do for what was sent.
Quiet ==
    /\ thread.pc = "idle" /\ splitter = Off /\ ~Flushing /\ script = "idle"
    /\ \A p \in Places : OnTheWay[p] = <<>>
    /\ del_log = <<>> /\ del_split = <<>> /\ \A f \in Files : wrd_buf[f] = Empty

UpToDate == \A w \in Words : Lists(base[w], WantedCrds(w))

\* With run-splitter, indexers that wait for a flush and flushes that wait for
\* the splitter, the index is what was sent, each posting once, when all is
\* through: however flushes, rounds and documents alternate, and although words
\* and markers travel in different files.
Fresh == careful /\ Quiet => UpToDate

\* "indexes can be created anytime without interrupting current indexing
\* process" (doc/cachemode.xml:138): the index is what was sent, when all is
\* through, also if documents are sent during a flush.
Anytime == Quiet => UpToDate

\* run-splitter never waits in vain for the file that cached has to create: it
\* is there or a flush is still to come to it, over splitters that died, files
\* they left and other rounds that removed theirs.
Served ==
    script = "wait" =>
        del_made \/ asked > 0 \/ flush.pc \in {"save", "reset", "rotate", "cut", "create"}
=============================================================================
