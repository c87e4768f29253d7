------------------------------- MODULE Cached -------------------------------
(***************************************************************************)
(* The word path of the cached daemon (src/src/cached.c, src/src/cache.c)  *)
(* in its combined mode.  An indexer has one connection and cached one     *)
(* thread for it.  The thread of a document adds a deletion marker to the  *)
(* buffer of every "wrd" file and then the words, one by one; a buffer     *)
(* that is full, or that a flush or the optimizing thread comes to, is     *)
(* merged into the records of its file.                                    *)
(*                                                                         *)
(* Each visit to a buffer is one step, because it is made under the lock   *)
(* DPS_LOCK_CACHED_N of that buffer; between two of them any other thread  *)
(* may come.  The records are a dictionary, which is what KeyValue says    *)
(* of the files that Base models.                                          *)
(***************************************************************************)
EXTENDS LogWords

CONSTANTS Clients,        \* indexers, each with its connection and thread
          Urls,           \* rec_ids of url, numbers
          Words,          \* wrd_ids, numbers
          WrdFiles,       \* NWrdFiles: the files are numbered from 1
          FileOf,         \* DPS_FILENO
          CacheLogWords,  \* words a buffer holds
          CacheLogDels,   \* markers a buffer holds
          Docs,           \* contents of a document: sequences of <<wrd_id, coord>>
          MaxCalls,       \* bound: documents and deletions sent
          Env             \* what may happen, of "unsaved" and "io"

ASSUME CachedAssumption ==
    /\ Urls \subseteq Nat \ {0} /\ Words \subseteq Nat
    /\ WrdFiles \in Nat \ {0}
    /\ FileOf \in [Words -> 1..WrdFiles]
    /\ CacheLogWords \in Nat \ {0} /\ CacheLogDels \in Nat \ {0}
    /\ Docs \subseteq Seq(Words \X Nat)
    /\ MaxCalls \in Nat
    /\ Env \subseteq {"unsaved", "io"}

VARIABLES wrd_buf,  \* the buffers: words and markers of each file
          base,     \* the postings of each word, in the wrd files
          info,     \* the urls with a record in the info files
          thread,   \* of each connection: what DpsLogdStoreDoc is doing
          indexer,  \* of each connection: what its indexer does next, and to which url
          status,   \* of each url in the SQL table: "new", "indexed" or "deleted"
          wanted,   \* of each url: what the last command answered for it said
          now,      \* the clock, a new second for each command
          main      \* "serving", "draining" after a signal, "down"

vars == <<wrd_buf, base, info, thread, indexer, status, wanted, now, main>>

Files == 1..WrdFiles
Empty == [data |-> <<>>, del_buf |-> <<>>]
None == << <<0, 0>> >>   \* wanted of a url deleted or never sent: no word is at 0

\* What a thread is doing: waiting for a command, at buffer "at" with the
\* marker, or with "words" left to add.
Idle == [pc |-> "idle", cmd |-> "none", url |-> 0, stamp |-> 0, at |-> 0, words |-> <<>>]
Closed == [Idle EXCEPT !.pc = "closed"]   \* an error ended it
Gone == [Idle EXCEPT !.pc = "gone"]       \* its indexer left
Rest == [step |-> "next", url |-> 0]

Init ==
    /\ wrd_buf = [f \in Files |-> Empty]
    /\ base = [w \in Words |-> <<>>]
    /\ info = {}
    /\ thread = [i \in Clients |-> Idle]
    /\ indexer = [i \in Clients |-> Rest]
    /\ status = [u \in Urls |-> "new"]
    /\ wanted = [u \in Urls |-> None]
    /\ now = 0
    /\ main = "serving"

-----------------------------------------------------------------------------
(* DpsLogdSaveBuf and DpsProcessBuf. *)

\* The records of file f when the words of the records in Written are merged
\* and, with the rest, those of no new words are cleaned.
ProcessBuf(f, words, dels, Written, rest) ==
    [w \in Words |->
        IF FileOf[w] # f THEN base[w]
        ELSE LET old == RemoveOldCrds(base[w], dels)
                 new == Added(words, w)
             IN IF w \in Written THEN Merge(old, new)
                ELSE IF rest /\ new = <<>> THEN old ELSE base[w]]

\* Merging buffer b of file f.
SaveBuf(f, b) ==
    LET words == DpsSort(FreshWords(b), Cmplog_wrd)
    IN ProcessBuf(f, words, SortedDels(b.del_buf), {words[k].wrd_id : k \in DOMAIN words}, TRUE)

\* The file cannot be opened, or DpsBaseWrite fails at the record of a word,
\* which it may lose: the records of the words before it are written, the
\* others are not, nor is any record cleaned.
FailedSaves(f, b) ==
    LET words == DpsSort(FreshWords(b), Cmplog_wrd)
        UpTo(w) == ProcessBuf(f, words, SortedDels(b.del_buf),
                              {words[k].wrd_id : k \in DOMAIN words} \cap 0..(w - 1), FALSE)
    IN {base} \cup UNION {{UpTo(words[n].wrd_id), [UpTo(words[n].wrd_id) EXCEPT ![words[n].wrd_id] = <<>>]}
                             : n \in DOMAIN words}

-----------------------------------------------------------------------------
(* The indexers. *)

\* One indexer at a time has a url: the targets of DpsTargets are marked.
Free(u) == \A i \in Clients : indexer[i].url # u

CanSend(i) ==
    /\ indexer[i].step = "next"
    /\ thread[i].pc = "idle"
    /\ now < MaxCalls

Command(i, cmd, pc, u, words, step) ==
    /\ now' = now + 1
    /\ thread' = [thread EXCEPT ![i] =
          [pc |-> pc, cmd |-> cmd, url |-> u, stamp |-> now', at |-> 1, words |-> words]]
    /\ indexer' = [indexer EXCEPT ![i] = [step |-> step, url |-> u]]

\* Mutant of Index: what is indexed again is sent as if it were new.
IndexNeword(i) ==
    /\ CanSend(i)
    /\ \E u \in Urls, d \in Docs :
          /\ Free(u)
          /\ status[u] # "deleted"
          /\ Command(i, "NEWORD", "words", u, d, "info")
          /\ wanted' = [wanted EXCEPT ![u] = d]
    /\ UNCHANGED <<wrd_buf, base, info, status, main>>

\* Mutant of Index: a deleted url is sent again.
IndexDeleted(i) ==
    /\ CanSend(i)
    /\ \E u \in Urls, d \in Docs :
          /\ Free(u)
          /\ IF status[u] = "indexed" THEN Command(i, "WORD", "mark", u, d, "info")
                                      ELSE Command(i, "NEWORD", "words", u, d, "info")
          /\ wanted' = [wanted EXCEPT ![u] = d]
    /\ UNCHANGED <<wrd_buf, base, info, status, main>>

\* DpsStoreWordsCache sends the content d of url u, and cached answers before
\* it stores it.  A document that is a clone of another is sent without words.
Index(i) ==
    /\ CanSend(i)
    /\ \E u \in Urls, d \in Docs :
          /\ Free(u)
          /\ status[u] # "deleted"
          /\ IF status[u] = "indexed" THEN Command(i, "WORD", "mark", u, d, "info")
                                      ELSE Command(i, "NEWORD", "words", u, d, "info")
          /\ wanted' = [wanted EXCEPT ![u] = d]
    /\ UNCHANGED <<wrd_buf, base, info, status, main>>

\* DpsAddURLCache: the information of the url goes to the same thread, which
\* takes it when it has stored the words, and answers whether or not it could
\* write it.  An error, as of a connection that is gone, is overwritten by the
\* result of the SQL update that follows.
URLInfo(i) ==
    /\ indexer[i].step = "info"
    /\ thread[i].pc \in {"idle", "closed"}
    /\ \/ /\ thread[i].pc = "idle"
          /\ info' = info \cup {indexer[i].url}
       \/ /\ thread[i].pc = "closed" \/ "io" \in Env
          /\ info' = info
    /\ indexer' = [indexer EXCEPT ![i].step = "status"]
    /\ UNCHANGED <<wrd_buf, base, thread, status, wanted, now, main>>

\* The SQL table is updated, and the indexer goes on to its next target.
SaveStatus(i) ==
    /\ indexer[i].step = "status"
    /\ status' = [status EXCEPT ![indexer[i].url] = "indexed"]
    /\ indexer' = [indexer EXCEPT ![i] = Rest]
    /\ UNCHANGED <<wrd_buf, base, info, thread, wanted, now, main>>

\* The update of the SQL table fails, or the indexer dies and is started again.
StatusUnsaved(i) ==
    /\ "unsaved" \in Env
    /\ indexer[i].step = "status"
    /\ indexer' = [indexer EXCEPT ![i] = Rest]
    /\ UNCHANGED <<wrd_buf, base, info, thread, status, wanted, now, main>>

\* DpsDeleteURLFromCache: cached answers before it deletes.
Delete(i) ==
    /\ CanSend(i)
    /\ \E u \in Urls :
          /\ Free(u)
          /\ status[u] # "deleted"
          /\ Command(i, "DELETE", "mark", u, <<>>, "forget")
          /\ wanted' = [wanted EXCEPT ![u] = None]
    /\ UNCHANGED <<wrd_buf, base, info, status, main>>

\* The url is deleted from the SQL table; found again, it gets a rec_id of its
\* own (not so under UseCRC32URLId, which is left out).
Forget(i) ==
    /\ indexer[i].step = "forget"
    /\ status' = [status EXCEPT ![indexer[i].url] = "deleted"]
    /\ indexer' = [indexer EXCEPT ![i] = Rest]
    /\ UNCHANGED <<wrd_buf, base, info, thread, wanted, now, main>>

-----------------------------------------------------------------------------
(* DpsLogdStoreDoc, in the thread of connection i. *)

Storing(i) == thread[i].pc \in {"mark", "words"}

\* Buffer f as it is when a record is added: saved and empty if it was full.
Room(f, full) == IF full THEN Empty ELSE wrd_buf[f]
Saved(f, full) == IF full THEN SaveBuf(f, wrd_buf[f]) ELSE base

\* The next buffer gets the marker: the words of the url are old from here on.
Mark(i) ==
    LET t == thread[i]
        full == Len(wrd_buf[t.at].del_buf) = CacheLogDels
    IN /\ t.pc = "mark"
       /\ base' = Saved(t.at, full)
       /\ wrd_buf' = [wrd_buf EXCEPT ![t.at] =
              [Room(t.at, full) EXCEPT !.del_buf = Append(@, LogDel(t.stamp, t.url))]]
       /\ thread' = [thread EXCEPT ![i] =
              IF t.at < WrdFiles THEN [t EXCEPT !.at = @ + 1] ELSE [t EXCEPT !.pc = "words"]]
       /\ UNCHANGED <<info, indexer, status, wanted, now, main>>

\* Mutant of AddWord: a buffer is taken for full one word too late.
AddWordLate(i) ==
    LET t == thread[i]
        w == Head(t.words)[1]
        f == FileOf[w]
        full == Len(wrd_buf[f].data) > CacheLogWords
    IN /\ t.pc = "words"
       /\ t.words # <<>>
       /\ base' = Saved(f, full)
       /\ wrd_buf' = [wrd_buf EXCEPT ![f] =
              [Room(f, full) EXCEPT !.data = Append(@, LogWord(t.stamp, t.url, w, Head(t.words)[2]))]]
       /\ thread' = [thread EXCEPT ![i].words = Tail(@)]
       /\ UNCHANGED <<info, indexer, status, wanted, now, main>>

\* The next word goes to the buffer of its file.
AddWord(i) ==
    LET t == thread[i]
        w == Head(t.words)[1]
        f == FileOf[w]
        full == Len(wrd_buf[f].data) = CacheLogWords
    IN /\ t.pc = "words"
       /\ t.words # <<>>
       /\ base' = Saved(f, full)
       /\ wrd_buf' = [wrd_buf EXCEPT ![f] =
              [Room(f, full) EXCEPT !.data = Append(@, LogWord(t.stamp, t.url, w, Head(t.words)[2]))]]
       /\ thread' = [thread EXCEPT ![i].words = Tail(@)]
       /\ UNCHANGED <<info, indexer, status, wanted, now, main>>

\* The command is done; a deletion removes the information of the url last,
\* and does not look whether it could.
Done(i) ==
    /\ thread[i].pc = "words"
    /\ thread[i].words = <<>>
    /\ \/ /\ thread[i].cmd = "DELETE"
          /\ info' = info \ {thread[i].url}
       \/ /\ thread[i].cmd # "DELETE" \/ "io" \in Env
          /\ info' = info
    /\ thread' = [thread EXCEPT ![i] = Idle]
    /\ UNCHANGED <<wrd_buf, base, indexer, status, wanted, now, main>>

\* A full buffer cannot be merged: it is emptied all the same, and the error
\* ends the command and the connection.
SaveFails(i) ==
    LET t == thread[i]
        f == IF t.pc = "mark" THEN t.at ELSE FileOf[Head(t.words)[1]]
    IN /\ "io" \in Env
       /\ \/ t.pc = "mark" /\ Len(wrd_buf[f].del_buf) = CacheLogDels
          \/ t.pc = "words" /\ t.words # <<>> /\ Len(wrd_buf[f].data) = CacheLogWords
       /\ base' \in FailedSaves(f, wrd_buf[f])
       /\ wrd_buf' = [wrd_buf EXCEPT ![f] = Empty]
       /\ thread' = [thread EXCEPT ![i] = Closed]
       /\ UNCHANGED <<info, indexer, status, wanted, now, main>>

-----------------------------------------------------------------------------
(* Flushes and the end. *)

\* DpsLogdSaveAllBufs, for a flush command or a signal, or thread_optimize on
\* its round comes to buffer f.
Flush(f) ==
    /\ main # "down"
    /\ wrd_buf[f] # Empty
    /\ base' = SaveBuf(f, wrd_buf[f])
    /\ wrd_buf' = [wrd_buf EXCEPT ![f] = Empty]
    /\ UNCHANGED <<info, thread, indexer, status, wanted, now, main>>

FlushFails(f) ==
    /\ "io" \in Env
    /\ main # "down"
    /\ wrd_buf[f] # Empty
    /\ base' \in FailedSaves(f, wrd_buf[f])
    /\ wrd_buf' = [wrd_buf EXCEPT ![f] = Empty]
    /\ UNCHANGED <<info, thread, indexer, status, wanted, now, main>>

\* SIGINT or SIGTERM: no connection is accepted from here on.
Stop ==
    /\ main = "serving"
    /\ main' = "draining"
    /\ UNCHANGED <<wrd_buf, base, info, thread, indexer, status, wanted, now>>

\* An indexer leaves: the read of its thread ends.
Leave(i) ==
    /\ main = "draining"
    /\ indexer[i].step = "next"
    /\ thread[i].pc = "idle"
    /\ thread' = [thread EXCEPT ![i] = Gone]
    /\ UNCHANGED <<wrd_buf, base, info, indexer, status, wanted, now, main>>

\* Mutant of Exit: the buffers are not flushed once more.
ExitAtOnce ==
    /\ main = "draining"
    /\ \A i \in Clients : thread[i].pc \in {"closed", "gone"}
    /\ main' = "down"
    /\ UNCHANGED <<wrd_buf, base, info, thread, indexer, status, wanted, now>>

\* No thread is left: the buffers are flushed and the daemon exits.
Exit ==
    /\ main = "draining"
    /\ \A i \in Clients : thread[i].pc \in {"closed", "gone"}
    /\ base' = [w \in Words |-> SaveBuf(FileOf[w], wrd_buf[FileOf[w]])[w]]
    /\ wrd_buf' = [f \in Files |-> Empty]
    /\ main' = "down"
    /\ UNCHANGED <<info, thread, indexer, status, wanted, now>>

\* The last flush fails at buffer f: the buffers it did not come to are lost.
ExitFails ==
    /\ "io" \in Env
    /\ main = "draining"
    /\ \A i \in Clients : thread[i].pc \in {"closed", "gone"}
    /\ \E f \in Files, before \in SUBSET Files :
          /\ f \notin before
          /\ wrd_buf[f] # Empty
          /\ \E failed \in FailedSaves(f, wrd_buf[f]) :
                base' = [w \in Words |-> IF FileOf[w] \in before
                                         THEN SaveBuf(FileOf[w], wrd_buf[FileOf[w]])[w] ELSE failed[w]]
          /\ wrd_buf' = [g \in Files |-> IF g \in before \cup {f} THEN Empty ELSE wrd_buf[g]]
    /\ main' = "down"
    /\ UNCHANGED <<info, thread, indexer, status, wanted, now>>

Store(i) == Mark(i) \/ AddWord(i) \/ Done(i)
Follow(i) == URLInfo(i) \/ SaveStatus(i) \/ Forget(i)

Next ==
    \/ \E i \in Clients :
          \/ Index(i) \/ URLInfo(i) \/ SaveStatus(i) \/ StatusUnsaved(i)
          \/ Delete(i) \/ Forget(i)
          \/ Mark(i) \/ AddWord(i) \/ Done(i) \/ SaveFails(i)
          \/ Leave(i)
    \/ \E f \in Files : Flush(f) \/ FlushFails(f)
    \/ Stop \/ Exit \/ ExitFails

Spec == Init /\ [][Next]_vars

\* Something that can go on does: the threads run, the indexers follow up on
\* what they sent, and thread_optimize comes to every buffer on its round.
Progress ==
    \/ \E i \in Clients : Store(i) \/ Follow(i)
    \/ \E f \in Files : Flush(f)

\* ENABLED <<Progress>>_vars, which TLC would find by merging the buffers.
CanProgress ==
    \/ \E i \in Clients : Storing(i) \/ indexer[i].step # "next"
    \/ main # "down" /\ \E f \in Files : wrd_buf[f] # Empty

\* Weak fairness of Progress, written out.
FairSpec == Spec /\ (<>[]CanProgress => []<><<Progress>>_vars)

-----------------------------------------------------------------------------
(* Properties. *)

\* No buffer is filled past its end.
WordRecs == [stamp : 1..MaxCalls, url_id : Urls, wrd_id : Words, coord : Nat]
DelRecs == [stamp : 1..MaxCalls, url_id : Urls]
BuffersOK ==
    /\ wrd_buf \in [Files -> [data : Seq(WordRecs), del_buf : Seq(DelRecs)]]
    /\ \A f \in Files : Len(wrd_buf[f].data) <= CacheLogWords /\ Len(wrd_buf[f].del_buf) <= CacheLogDels

\* What the connections and the indexers are at; the SQL table and the clock.
Threads == [pc : {"idle", "mark", "words", "closed", "gone"},
            cmd : {"none", "WORD", "NEWORD", "DELETE"},
            url : Urls \cup {0}, stamp : 0..MaxCalls, at : 0..WrdFiles,
            words : Seq(Words \X Nat)]
Steps == {"next", "info", "status", "forget"}
ControlOK ==
    /\ thread \in [Clients -> Threads]
    /\ \A i \in Clients : Storing(i) =>
          thread[i].url \in Urls /\ thread[i].stamp \in 1..MaxCalls /\ thread[i].at \in Files
    /\ indexer \in [Clients -> [step : Steps, url : Urls \cup {0}]]
    /\ \A i \in Clients : indexer[i].step # "next" => indexer[i].url \in Urls
    /\ status \in [Urls -> {"new", "indexed", "deleted"}]
    /\ now \in 0..MaxCalls
    /\ main \in {"serving", "draining", "down"}

\* Every variable keeps its type.
TypeOK ==
    /\ BuffersOK
    /\ ControlOK
    /\ base \in [Words -> Seq([url_id : Urls, coord : Nat])]
    /\ info \subseteq Urls
    /\ wanted \in [Urls -> Docs \cup {None}]

\* Two threads never store for one url at a time, although cached answers
\* before it stores and an indexer goes on with the answer: DpsLogdStoreDoc
\* takes no lock for a document, and relies on the targets being given out
\* once and on a deleted url not coming back.
OneStore ==
    \A i, j \in Clients : i # j /\ Storing(i) /\ Storing(j) => thread[i].url # thread[j].url

\* The postings of a record are in the order that the search and the next
\* merge rely on, by url and by coordinate, through every interleaving of
\* merges and also when one of them failed half way.
Sorted ==
    \A w \in Words : \A k \in 1..(Len(base[w]) - 1) : ~CrdAfter(base[w][k], base[w][k + 1])

\* The words that DpsRemoveOldWords leaves in a buffer are those "which are
\* newer than (url_id) from delete log" (cache.c:891), each once.
OnlyFresh ==
    \A f \in Files :
        LET words == DpsSort(wrd_buf[f].data, Cmplog)
            dels  == wrd_buf[f].del_buf
        IN FreshWords(wrd_buf[f]) =
           SelectSeq(words, LAMBDA x : \A k \in 1..Len(dels) :
               dels[k].url_id = x.url_id => x.stamp >= dels[k].stamp)

\* Nothing is left to do for what has been sent.
Quiet ==
    /\ \A i \in Clients : indexer[i].step = "next" /\ thread[i].pc \in {"idle", "closed", "gone"}
    /\ \A f \in Files : wrd_buf[f] = Empty

WantedCrds(w) ==
    UNION {{Crd(u, x[2]) : x \in {y \in ToSet(wanted[u]) : y[1] = w}} : u \in {v \in Urls : wanted[v] # None}}

\* When the buffers are empty and no command is under way the index is what
\* the last commands said: the postings of the last content of each url, each
\* once, and none of an older content, whatever the order in which threads
\* and flushes came to the buffers; and a url has information unless its last
\* command was a deletion.
Fresh ==
    Quiet =>
        /\ \A w \in Words : Lists(base[w], WantedCrds(w))
        /\ info = {u \in Urls : wanted[u] # None}

\* "old content should be deleted ... every time even if previous status=0,
\* i.e. first time indexing" (cache.c:674): when all is quiet the postings of
\* a url are those of its last content.
OldContentGone ==
    Quiet => \A w \in Words : ToSet(base[w]) \subseteq WantedCrds(w)

\* A daemon that was asked to stop exits with all the words it answered for
\* in the files: no buffer is left behind.
ShutdownSaves == main = "down" => \A f \in Files : wrd_buf[f] = Empty

\* What was answered for comes to be found: over and over, and so after the
\* last command, the postings of a url are those of its last content.
Searchable ==
    \A u \in Urls : []<>(\A w \in Words :
        {x \in ToSet(base[w]) : x.url_id = u} = {x \in WantedCrds(w) : x.url_id = u})
=============================================================================
