---------------------------- MODULE CachedProofs ----------------------------
(***************************************************************************)
(* What Cached promises for every number of indexers, urls, words and      *)
(* files, every size of the buffers and every content of the documents: no *)
(* buffer is filled past its end, no two threads store for one url at a    *)
(* time, the records keep their order, a daemon that could write its files *)
(* leaves nothing behind, and the index is what the last commands said.    *)
(***************************************************************************)
EXTENDS Cached, LogWordsProofs

-----------------------------------------------------------------------------
(* The shutdown. *)

\* Once the daemon is down nothing can add to a buffer any more.
Down ==
    main = "down" =>
        /\ \A i \in Clients : thread[i].pc \in {"closed", "gone"}
        /\ \A f \in Files : wrd_buf[f] = Empty

LEMMA DownKept ==
    ASSUME "io" \notin Env, Down, [Next]_vars
    PROVE  Down'
<1>1. CASE UNCHANGED vars
  BY <1>1 DEF vars, Down
<1>2. ASSUME main = "down", NEW i \in Clients,
             \/ Index(i) \/ URLInfo(i) \/ SaveStatus(i) \/ StatusUnsaved(i)
             \/ Delete(i) \/ Forget(i)
             \/ Mark(i) \/ AddWord(i) \/ Done(i) \/ SaveFails(i) \/ Leave(i)
      PROVE  Down'
  <2>1. thread[i].pc \in {"closed", "gone"} /\ thread[i].pc # "idle"
    BY <1>2 DEF Down
  <2>2. CASE Index(i) \/ Delete(i)
    BY <2>1, <2>2 DEF Index, Delete, CanSend
  <2>3. CASE URLInfo(i) \/ SaveStatus(i) \/ StatusUnsaved(i) \/ Forget(i)
    <3>1. UNCHANGED <<wrd_buf, thread, main>>
      BY <2>3 DEF URLInfo, SaveStatus, StatusUnsaved, Forget
    <3> QED
      BY <3>1 DEF Down
  <2>4. CASE Mark(i) \/ AddWord(i) \/ Done(i) \/ SaveFails(i) \/ Leave(i)
    BY <1>2, <2>1, <2>4 DEF Mark, AddWord, Done, SaveFails, Leave
  <2> QED
    BY <1>2, <2>2, <2>3, <2>4
<1>3. ASSUME main # "down", Next, main' = "down"
      PROVE  Exit
  BY <1>3 DEF Next, Index, Command, URLInfo, SaveStatus, StatusUnsaved, Delete, Forget, Mark,
     AddWord, Done, SaveFails, Leave, Flush, FlushFails, Stop, ExitFails
<1>4. CASE Exit
  BY <1>4 DEF Exit, Down
<1>5. ASSUME main = "down", Next
      PROVE  Down'
  BY <1>2, <1>5 DEF Next, Flush, FlushFails, Stop, Exit, ExitFails
<1>6. CASE Next /\ main # "down" /\ main' # "down"
  BY <1>6 DEF Down
<1> QED
  BY <1>1, <1>3, <1>4, <1>5, <1>6

\* A daemon whose files can be written exits with nothing in its buffers: the
\* main thread of cached flushes them behind the last thread.
THEOREM ShutdownSafe ==
    ASSUME "io" \notin Env
    PROVE  Spec => []ShutdownSaves
<1>1. Init => Down
  BY DEF Init, Down
<1>2. Down /\ [Next]_vars => Down'
  BY DownKept
<1>3. Down => ShutdownSaves
  BY DEF Down, ShutdownSaves
<1> QED
  BY <1>1, <1>2, <1>3, PTL DEF Spec

-----------------------------------------------------------------------------
(* The types of the control state. *)

LEMMA CommandTypes ==
    ASSUME ControlOK, NEW i \in Clients, NEW u \in Urls, NEW d \in Seq(Words \X Nat),
           NEW cmd \in {"WORD", "NEWORD", "DELETE"}, NEW pc \in {"mark", "words"},
           NEW step \in {"info", "forget"},
           now < MaxCalls, Command(i, cmd, pc, u, d, step), UNCHANGED <<status, main>>
    PROVE  ControlOK'
<1> USE DEF ControlOK
<1>1. now' \in 1..MaxCalls
  BY CachedAssumption DEF Command
<1>2. 1 \in Files /\ 1 \in 0..WrdFiles
  BY CachedAssumption DEF Files
<1>3. thread' \in [Clients -> Threads]
  BY <1>1, <1>2 DEF Command, Threads
<1>4. indexer' \in [Clients -> [step : Steps, url : Urls \cup {0}]]
  BY DEF Command, Steps
<1>5. ASSUME NEW j \in Clients, Storing(j)'
      PROVE  thread'[j].url \in Urls /\ thread'[j].stamp \in 1..MaxCalls /\ thread'[j].at \in Files
  BY <1>1, <1>2, <1>5 DEF Command, Storing
<1>6. ASSUME NEW j \in Clients, indexer'[j].step # "next"
      PROVE  indexer'[j].url \in Urls
  BY <1>6 DEF Command
<1> QED
  BY <1>1, <1>3, <1>4, <1>5, <1>6

\* A thread that goes on, or comes to an end, with the command it has.
LEMMA ThreadTypes ==
    ASSUME ControlOK, NEW i \in Clients,
           NEW t \in Threads,
           t.pc \in {"mark", "words"} => t.url \in Urls /\ t.stamp \in 1..MaxCalls /\ t.at \in Files,
           thread' = [thread EXCEPT ![i] = t], UNCHANGED <<indexer, status, now, main>>
    PROVE  ControlOK'
  BY DEF ControlOK, Storing

LEMMA ControlKept ==
    ASSUME ControlOK, [Next]_vars
    PROVE  ControlOK'
<1>1. CASE UNCHANGED vars
  BY <1>1 DEF vars, ControlOK, Storing
<1>2. ASSUME NEW i \in Clients, Index(i)
      PROVE  ControlOK'
  <2>1. PICK u \in Urls, d \in Docs :
           Command(i, "WORD", "mark", u, d, "info") \/ Command(i, "NEWORD", "words", u, d, "info")
    BY <1>2 DEF Index
  <2>2. now < MaxCalls /\ UNCHANGED <<status, main>> /\ d \in Seq(Words \X Nat)
    BY <1>2, CachedAssumption DEF Index, CanSend
  <2> QED
    BY <2>1, <2>2, CommandTypes
<1>3. ASSUME NEW i \in Clients, Delete(i)
      PROVE  ControlOK'
  <2>1. PICK u \in Urls : Command(i, "DELETE", "mark", u, <<>>, "forget")
    BY <1>3 DEF Delete
  <2>2. now < MaxCalls /\ UNCHANGED <<status, main>> /\ <<>> \in Seq(Words \X Nat)
    BY <1>3 DEF Delete, CanSend
  <2> QED
    BY <2>1, <2>2, CommandTypes
<1>4. ASSUME NEW i \in Clients, URLInfo(i)
      PROVE  ControlOK'
  BY <1>4 DEF URLInfo, ControlOK, Storing, Steps
<1>5. ASSUME NEW i \in Clients, SaveStatus(i) \/ StatusUnsaved(i) \/ Forget(i)
      PROVE  ControlOK'
  <2>1. UNCHANGED <<thread, now, main>> /\ indexer' = [indexer EXCEPT ![i] = Rest]
    BY <1>5 DEF SaveStatus, StatusUnsaved, Forget
  <2>2. status' \in [Urls -> {"new", "indexed", "deleted"}]
    BY <1>5 DEF SaveStatus, StatusUnsaved, Forget, ControlOK
  <2> QED
    BY <2>1, <2>2 DEF ControlOK, Storing, Rest, Steps
<1>6. ASSUME NEW i \in Clients, Mark(i)
      PROVE  ControlOK'
  <2> DEFINE t == IF thread[i].at < WrdFiles THEN [thread[i] EXCEPT !.at = @ + 1] ELSE [thread[i] EXCEPT !.pc = "words"]
  <2>1. thread' = [thread EXCEPT ![i] = t] /\ UNCHANGED <<indexer, status, now, main>>
    BY <1>6 DEF Mark
  <2>2. thread[i].url \in Urls /\ thread[i].stamp \in 1..MaxCalls /\ thread[i].at \in Files
    BY <1>6 DEF Mark, ControlOK, Storing
  <2>3. t.url \in Urls /\ t.stamp \in 1..MaxCalls /\ t.at \in Files
    BY <1>6, <2>2, CachedAssumption DEF ControlOK, Files
  <2>4. thread[i] \in Threads
    BY DEF ControlOK
  <2>5. t \in Threads
    <3>1. CASE thread[i].at < WrdFiles
      <4>1. thread[i].at + 1 \in 0..WrdFiles
        BY <2>2, <3>1, CachedAssumption DEF Files
      <4> QED
        BY <2>4, <3>1, <4>1 DEF Threads
    <3>2. CASE ~(thread[i].at < WrdFiles)
      BY <2>4, <3>2 DEF Threads
    <3> QED
      BY <3>1, <3>2
  <2> QED
    BY <2>1, <2>3, <2>5, ThreadTypes
<1>7. ASSUME NEW i \in Clients, AddWord(i)
      PROVE  ControlOK'
  <2> DEFINE t == [thread[i] EXCEPT !.words = Tail(@)]
  <2>1. thread' = [thread EXCEPT ![i] = t] /\ UNCHANGED <<indexer, status, now, main>>
    BY <1>7 DEF AddWord, ControlOK
  <2>2. thread[i].url \in Urls /\ thread[i].stamp \in 1..MaxCalls /\ thread[i].at \in Files
    BY <1>7 DEF AddWord, ControlOK, Storing
  <2>3. Tail(thread[i].words) \in Seq(Words \X Nat)
    <3>1. thread[i].words \in Seq(Words \X Nat) /\ thread[i].words # <<>>
      BY <1>7 DEF AddWord, ControlOK, Threads
    <3> QED
      BY <3>1
  <2>4. thread[i] \in Threads
    BY DEF ControlOK
  <2>5. t \in Threads
    BY <2>3, <2>4 DEF Threads
  <2>6. t.url = thread[i].url /\ t.stamp = thread[i].stamp /\ t.at = thread[i].at
    BY <2>4 DEF Threads
  <2> QED
    BY <2>1, <2>2, <2>5, <2>6, ThreadTypes
<1>8. ASSUME NEW i \in Clients, Done(i) \/ SaveFails(i) \/ Leave(i)
      PROVE  ControlOK'
  <2>1. PICK t \in {Idle, Closed, Gone} : thread' = [thread EXCEPT ![i] = t]
    BY <1>8 DEF Done, SaveFails, Leave
  <2>2. UNCHANGED <<indexer, status, now, main>>
    BY <1>8 DEF Done, SaveFails, Leave
  <2>3. t \in Threads
    <3>1. <<>> \in Seq(Words \X Nat) /\ 0 \in 0..MaxCalls /\ 0 \in 0..WrdFiles
      BY CachedAssumption
    <3>2. Idle \in Threads
      BY <3>1 DEF Idle, Threads
    <3> QED
      BY <3>2 DEF Closed, Gone, Threads
  <2>4. t.pc \notin {"mark", "words"}
    BY DEF Idle, Closed, Gone
  <2> QED
    BY <2>1, <2>2, <2>3, <2>4, ThreadTypes
<1>9. ASSUME \/ \E f \in Files : Flush(f) \/ FlushFails(f)
             \/ Stop \/ Exit \/ ExitFails
      PROVE  ControlOK'
  BY <1>9 DEF Flush, FlushFails, Stop, Exit, ExitFails, ControlOK, Storing
<1> QED
  BY <1>1, <1>2, <1>3, <1>4, <1>5, <1>6, <1>7, <1>8, <1>9 DEF Next

-----------------------------------------------------------------------------
(* One thread at a time stores for a url. *)

\* An indexer has a url from its command to the last of what follows it, no
\* two have the same, and none has a deleted one; its thread has stored the
\* words when it updates the status; and a thread stores for the url its
\* indexer has, or for one that was deleted behind its back.
Turns ==
    /\ \A i \in Clients : indexer[i].step = "next" => indexer[i].url = 0
    /\ \A i, j \in Clients : i # j /\ indexer[i].url # 0 => indexer[i].url # indexer[j].url
    /\ \A i \in Clients : indexer[i].step # "next" => status[indexer[i].url] # "deleted"
    /\ \A i \in Clients : indexer[i].step = "status" => ~Storing(i)
    /\ \A i \in Clients : Storing(i) =>
          indexer[i].url = thread[i].url \/ status[thread[i].url] = "deleted"

TurnsInv == ControlOK /\ Turns /\ OneStore

\* A new command is for a url that no other thread stores for.
LEMMA CommandTurns ==
    ASSUME TurnsInv, NEW i \in Clients, NEW u \in Urls, NEW d,
           NEW cmd, NEW pc \in {"mark", "words"}, NEW step \in {"info", "forget"},
           Free(u), status[u] # "deleted", CanSend(i), Command(i, cmd, pc, u, d, step),
           UNCHANGED status
    PROVE  (Turns /\ OneStore)'
<1> USE DEF TurnsInv
<1>1. u # 0
  BY CachedAssumption
<1>2. \A j \in Clients : indexer[j].url # u
  BY DEF Free
<1>3. \A j \in Clients : Storing(j) => thread[j].url # u
  BY <1>2 DEF Turns
<1>4. indexer'[i].step = step /\ indexer'[i].url = u /\ thread'[i].url = u
  BY DEF Command, ControlOK
<1>5. \A j \in Clients \ {i} : indexer'[j] = indexer[j] /\ thread'[j] = thread[j]
  BY DEF Command, ControlOK
<1>6. \A j \in Clients \ {i} : Storing(j)' <=> Storing(j)
  BY <1>5 DEF Storing
<1>7. OneStore'
  BY <1>3, <1>4, <1>5, <1>6 DEF OneStore
<1>8. Turns'
  BY <1>1, <1>2, <1>4, <1>5, <1>6 DEF Turns
<1> QED
  BY <1>7, <1>8

\* A thread that goes on with its command, or ends it, is nobody else's concern.
LEMMA ThreadTurns ==
    ASSUME TurnsInv, NEW i \in Clients, Storing(i) \/ ~Storing(i)',
           Storing(i)' => thread'[i].url = thread[i].url,
           \A j \in Clients \ {i} : thread'[j] = thread[j],
           UNCHANGED <<indexer, status>>
    PROVE  (Turns /\ OneStore)'
<1>1. \A j \in Clients : Storing(j)' => Storing(j) /\ thread'[j].url = thread[j].url
  BY DEF Storing
<1> QED
  BY <1>1 DEF TurnsInv, Turns, OneStore

LEMMA TurnsKept ==
    ASSUME TurnsInv, [Next]_vars
    PROVE  (Turns /\ OneStore)'
<1> USE DEF TurnsInv
<1>1. CASE UNCHANGED vars
  BY <1>1 DEF vars, Turns, OneStore, Storing
<1>2. ASSUME NEW i \in Clients, Index(i)
      PROVE  (Turns /\ OneStore)'
  <2>1. PICK u \in Urls, d \in Docs :
           /\ Free(u) /\ status[u] # "deleted"
           /\ Command(i, "WORD", "mark", u, d, "info") \/ Command(i, "NEWORD", "words", u, d, "info")
    BY <1>2 DEF Index
  <2>2. CanSend(i) /\ UNCHANGED status
    BY <1>2 DEF Index
  <2> QED
    BY <2>1, <2>2, CommandTurns
<1>3. ASSUME NEW i \in Clients, Delete(i)
      PROVE  (Turns /\ OneStore)'
  <2>1. PICK u \in Urls :
           Free(u) /\ status[u] # "deleted" /\ Command(i, "DELETE", "mark", u, <<>>, "forget")
    BY <1>3 DEF Delete
  <2>2. CanSend(i) /\ UNCHANGED status
    BY <1>3 DEF Delete
  <2> QED
    BY <2>1, <2>2, CommandTurns
<1>4. ASSUME NEW i \in Clients, URLInfo(i)
      PROVE  (Turns /\ OneStore)'
  <2>1. UNCHANGED <<thread, status>> /\ indexer[i].step # "next" /\ ~Storing(i)
    BY <1>4 DEF URLInfo, Storing
  <2>2. \A j \in Clients : indexer'[j].url = indexer[j].url
    BY <1>4 DEF URLInfo, ControlOK
  <2>3. \A j \in Clients : j # i => indexer'[j].step = indexer[j].step
    BY <1>4 DEF URLInfo, ControlOK
  <2>4. indexer'[i].step = "status"
    BY <1>4 DEF URLInfo, ControlOK
  <2>5. \A j \in Clients : Storing(j)' <=> Storing(j)
    BY <2>1 DEF Storing
  <2> QED
    BY <2>1, <2>2, <2>3, <2>4, <2>5 DEF Turns, OneStore
<1>5. ASSUME NEW i \in Clients, SaveStatus(i) \/ StatusUnsaved(i) \/ Forget(i)
      PROVE  (Turns /\ OneStore)'
  <2>1. UNCHANGED thread /\ indexer' = [indexer EXCEPT ![i] = Rest]
    BY <1>5 DEF SaveStatus, StatusUnsaved, Forget
  <2>2. indexer'[i] = Rest /\ \A j \in Clients : j # i => indexer'[j] = indexer[j]
    BY <2>1 DEF ControlOK
  <2>3. indexer[i].step # "next" /\ indexer[i].url \in Urls
    BY <1>5 DEF SaveStatus, StatusUnsaved, Forget, ControlOK
  <2>4. \A v \in Urls : v # indexer[i].url => status'[v] = status[v]
    BY <1>5 DEF SaveStatus, StatusUnsaved, Forget, ControlOK
  <2>5. \A j \in Clients : Storing(j)' <=> Storing(j)
    BY <2>1 DEF Storing
  <2>6. OneStore'
    BY <2>1, <2>5 DEF OneStore
  <2>7. ASSUME NEW j \in Clients, Storing(j)
        PROVE  indexer'[j].url = thread[j].url \/ status'[thread[j].url] = "deleted"
    <3>1. thread[j].url \in Urls /\ (indexer[j].url = thread[j].url \/ status[thread[j].url] = "deleted")
      BY <2>7 DEF Turns, ControlOK
    <3>2. CASE j = i
      <4>1. indexer[i].step = "forget" \/ indexer[i].step = "status"
        BY <1>5 DEF SaveStatus, StatusUnsaved, Forget
      <4>2. Forget(i)
        BY <1>5, <2>7, <3>2, <4>1 DEF SaveStatus, StatusUnsaved, Turns
      <4>3. status' = [status EXCEPT ![indexer[i].url] = "deleted"]
        BY <4>2 DEF Forget
      <4> QED
        BY <3>1, <3>2, <4>3 DEF ControlOK
    <3>3. CASE j # i
      <4>1. CASE indexer[j].url = thread[j].url
        BY <2>2, <3>3, <4>1
      <4>2. CASE status[thread[j].url] = "deleted"
        BY <2>3, <2>4, <3>1, <4>2 DEF Turns
      <4> QED
        BY <3>1, <4>1, <4>2
    <3> QED
      BY <3>2, <3>3
  <2>8. ASSUME NEW j \in Clients, indexer'[j].step # "next"
        PROVE  status'[indexer'[j].url] # "deleted"
    <3>1. j # i /\ indexer'[j] = indexer[j]
      BY <2>2, <2>8 DEF Rest
    <3>2. indexer[j].url \in Urls /\ indexer[j].url # 0 /\ status[indexer[j].url] # "deleted"
      BY <2>8, <3>1, CachedAssumption DEF Turns, ControlOK
    <3>3. indexer[j].url # indexer[i].url
      BY <3>1, <3>2 DEF Turns
    <3> QED
      BY <2>4, <3>1, <3>2, <3>3
  <2>9. /\ \A j \in Clients : indexer'[j].step = "next" => indexer'[j].url = 0
        /\ \A j, k \in Clients : j # k /\ indexer'[j].url # 0 => indexer'[j].url # indexer'[k].url
        /\ \A j \in Clients : indexer'[j].step = "status" => ~Storing(j)
    BY <2>2 DEF Turns, Rest
  <2> QED
    BY <2>1, <2>5, <2>6, <2>7, <2>8, <2>9 DEF Turns
<1>6. ASSUME NEW i \in Clients, Mark(i) \/ AddWord(i) \/ Done(i) \/ SaveFails(i) \/ Leave(i)
      PROVE  (Turns /\ OneStore)'
  <2>1. UNCHANGED <<indexer, status>> /\ \A j \in Clients \ {i} : thread'[j] = thread[j]
    BY <1>6 DEF Mark, AddWord, Done, SaveFails, Leave, ControlOK
  <2>2. CASE Mark(i) \/ AddWord(i)
    <3>1. Storing(i) /\ thread'[i].url = thread[i].url
      <4>1. thread \in [Clients -> Threads]
        BY DEF ControlOK
      <4>2. thread[i] \in Threads
        BY <4>1
      <4>3. thread'[i].url = thread[i].url
        <5>1. CASE Mark(i)
          <6>1. thread' = [thread EXCEPT ![i] = IF thread[i].at < WrdFiles
                               THEN [thread[i] EXCEPT !.at = @ + 1] ELSE [thread[i] EXCEPT !.pc = "words"]]
            BY <5>1 DEF Mark
          <6> QED
            BY <4>1, <4>2, <6>1 DEF Threads
        <5>2. CASE AddWord(i)
          <6>1. thread' = [thread EXCEPT ![i] = [thread[i] EXCEPT !.words = Tail(thread[i].words)]]
            BY <4>1, <5>2 DEF AddWord
          <6> QED
            BY <4>1, <4>2, <6>1 DEF Threads
        <5> QED
          BY <2>2, <5>1, <5>2
      <4>4. Storing(i)
        BY <2>2 DEF Mark, AddWord, Storing
      <4> QED
        BY <4>3, <4>4
    <3> QED
      BY <2>1, <3>1, ThreadTurns
  <2>3. CASE Done(i) \/ SaveFails(i) \/ Leave(i)
    <3>1. ~Storing(i)'
      <4>1. PICK t \in {Idle, Closed, Gone} : thread' = [thread EXCEPT ![i] = t]
        BY <2>3 DEF Done, SaveFails, Leave
      <4>2. thread'[i] = t
        BY <4>1 DEF ControlOK
      <4> QED
        BY <4>2 DEF Storing, Idle, Closed, Gone
    <3> QED
      BY <2>1, <3>1, ThreadTurns
  <2> QED
    BY <1>6, <2>2, <2>3
<1>7. ASSUME \/ \E f \in Files : Flush(f) \/ FlushFails(f)
             \/ Stop \/ Exit \/ ExitFails
      PROVE  (Turns /\ OneStore)'
  BY <1>7 DEF Flush, FlushFails, Stop, Exit, ExitFails, Turns, OneStore, Storing
<1> QED
  BY <1>1, <1>2, <1>3, <1>4, <1>5, <1>6, <1>7 DEF Next

LEMMA TurnsInit == Init => TurnsInv
<1> SUFFICES ASSUME Init PROVE TurnsInv
  OBVIOUS
<1>1. \A i \in Clients : thread[i] = Idle /\ indexer[i] = Rest
  BY DEF Init
<1>2. <<>> \in Seq(Words \X Nat) /\ 0 \in 0..MaxCalls /\ 0 \in 0..WrdFiles
  BY CachedAssumption
<1>3. ControlOK
  BY <1>1, <1>2 DEF Init, ControlOK, Threads, Idle, Rest, Steps, Storing
<1> QED
  BY <1>1, <1>3 DEF TurnsInv, Turns, OneStore, Storing, Idle, Rest, Init

\* No two threads of cached ever store for the same url at a time, whatever
\* fails and wherever an indexer dies.
THEOREM OneStoreSafe == Spec => []OneStore
<1>1. Init => TurnsInv
  BY TurnsInit
<1>2. TurnsInv /\ [Next]_vars => TurnsInv'
  BY ControlKept, TurnsKept DEF TurnsInv
<1>3. TurnsInv => OneStore
  BY DEF TurnsInv
<1> QED
  BY <1>1, <1>2, <1>3, PTL DEF Spec

-----------------------------------------------------------------------------
(* The bounds of the buffers. *)

Within(b) ==
    /\ b \in [data : Seq(WordRecs), del_buf : Seq(DelRecs)]
    /\ Len(b.data) <= CacheLogWords /\ Len(b.del_buf) <= CacheLogDels

LEMMA EmptyWithin == Within(Empty)
  BY CachedAssumption DEF Within, Empty

\* What DpsLogdStoreDoc adds a record to has room for it.
LEMMA RoomWithin ==
    ASSUME BuffersOK, NEW f \in Files
    PROVE  /\ Within(Room(f, Len(wrd_buf[f].del_buf) = CacheLogDels))
           /\ Within(Room(f, Len(wrd_buf[f].data) = CacheLogWords))
           /\ Len(Room(f, Len(wrd_buf[f].del_buf) = CacheLogDels).del_buf) < CacheLogDels
           /\ Len(Room(f, Len(wrd_buf[f].data) = CacheLogWords).data) < CacheLogWords
<1>1. Within(wrd_buf[f])
  BY DEF BuffersOK, Within
<1>2. Len(wrd_buf[f].del_buf) \in Nat /\ Len(wrd_buf[f].data) \in Nat
  BY <1>1 DEF Within
<1>3. Len(Empty.data) = 0 /\ Len(Empty.del_buf) = 0
  BY DEF Empty
<1>4. CacheLogWords \in Nat \ {0} /\ CacheLogDels \in Nat \ {0}
  BY CachedAssumption
<1> QED
  BY <1>1, <1>2, <1>3, <1>4, EmptyWithin DEF Room, Within

LEMMA MarkWithin ==
    ASSUME NEW b, Within(b), Len(b.del_buf) < CacheLogDels, NEW x \in DelRecs
    PROVE  Within([b EXCEPT !.del_buf = Append(@, x)])
<1>1. Append(b.del_buf, x) \in Seq(DelRecs) /\ Len(Append(b.del_buf, x)) = Len(b.del_buf) + 1
  BY DEF Within
<1>2. Len(b.del_buf) + 1 <= CacheLogDels
  BY CachedAssumption DEF Within
<1> QED
  BY <1>1, <1>2 DEF Within

LEMMA WordWithin ==
    ASSUME NEW b, Within(b), Len(b.data) < CacheLogWords, NEW x \in WordRecs
    PROVE  Within([b EXCEPT !.data = Append(@, x)])
<1>1. Append(b.data, x) \in Seq(WordRecs) /\ Len(Append(b.data, x)) = Len(b.data) + 1
  BY DEF Within
<1>2. Len(b.data) + 1 <= CacheLogWords
  BY CachedAssumption DEF Within
<1> QED
  BY <1>1, <1>2 DEF Within

\* One buffer at a time changes.
LEMMA OneBuffer ==
    ASSUME BuffersOK, NEW f \in Files, NEW b, Within(b), wrd_buf' = [wrd_buf EXCEPT ![f] = b]
    PROVE  BuffersOK'
  BY DEF BuffersOK, Within

LEMMA BuffersKept ==
    ASSUME BuffersOK, ControlOK, [Next]_vars
    PROVE  BuffersOK'
<1>1. CASE UNCHANGED wrd_buf
  BY <1>1 DEF BuffersOK
<1>2. ASSUME NEW i \in Clients, Mark(i)
      PROVE  BuffersOK'
  <2> DEFINE f == thread[i].at
             b == Room(f, Len(wrd_buf[f].del_buf) = CacheLogDels)
             x == LogDel(thread[i].stamp, thread[i].url)
  <2>1. f \in Files /\ x \in DelRecs
    BY <1>2 DEF Mark, ControlOK, Storing, LogDel, DelRecs
  <2>2. Within([b EXCEPT !.del_buf = Append(@, x)])
    BY <2>1, RoomWithin, MarkWithin
  <2>3. wrd_buf' = [wrd_buf EXCEPT ![f] = [b EXCEPT !.del_buf = Append(@, x)]]
    BY <1>2 DEF Mark
  <2> QED
    BY <2>1, <2>2, <2>3, OneBuffer
<1>3. ASSUME NEW i \in Clients, AddWord(i)
      PROVE  BuffersOK'
  <2> DEFINE word == Head(thread[i].words)
             f == FileOf[word[1]]
             b == Room(f, Len(wrd_buf[f].data) = CacheLogWords)
             x == LogWord(thread[i].stamp, thread[i].url, word[1], word[2])
  <2>1. thread[i].words \in Seq(Words \X Nat) /\ thread[i].words # <<>>
    BY <1>3 DEF AddWord, ControlOK, Threads
  <2>2. word[1] \in Words /\ word[2] \in Nat
    BY <2>1
  <2>3. f \in Files
    BY <2>2, CachedAssumption DEF Files
  <2>4. x \in WordRecs
    BY <1>3, <2>2 DEF AddWord, ControlOK, Storing, LogWord, WordRecs
  <2>5. Within([b EXCEPT !.data = Append(@, x)])
    BY <2>3, <2>4, RoomWithin, WordWithin
  <2>6. wrd_buf' = [wrd_buf EXCEPT ![f] = [b EXCEPT !.data = Append(@, x)]]
    BY <1>3 DEF AddWord
  <2> QED
    BY <2>3, <2>5, <2>6, OneBuffer
<1>4. ASSUME NEW f \in Files, wrd_buf' = [wrd_buf EXCEPT ![f] = Empty]
      PROVE  BuffersOK'
  BY <1>4, EmptyWithin, OneBuffer
<1>5. ASSUME NEW i \in Clients, SaveFails(i)
      PROVE  BuffersOK'
  <2> DEFINE f == IF thread[i].pc = "mark" THEN thread[i].at ELSE FileOf[Head(thread[i].words)[1]]
  <2>1. wrd_buf' = [wrd_buf EXCEPT ![f] = Empty]
    BY <1>5 DEF SaveFails
  <2>2. f \in Files
    <3>1. CASE thread[i].pc = "mark"
      BY <3>1 DEF ControlOK, Storing
    <3>2. CASE thread[i].pc # "mark"
      <4>1. thread[i].words \in Seq(Words \X Nat) /\ thread[i].words # <<>>
        BY <1>5, <3>2 DEF SaveFails, ControlOK, Threads
      <4>2. Head(thread[i].words)[1] \in Words
        BY <4>1
      <4> QED
        BY <3>2, <4>2, CachedAssumption DEF Files
    <3> QED
      BY <3>1, <3>2
  <2> QED
    BY <1>4, <2>1, <2>2
<1>6. ASSUME \E f \in Files : Flush(f) \/ FlushFails(f)
      PROVE  BuffersOK'
  BY <1>4, <1>6 DEF Flush, FlushFails
<1>7. CASE Exit
  BY <1>7, EmptyWithin DEF Exit, BuffersOK, Within
<1>8. CASE ExitFails
  <2>1. PICK f \in Files, before \in SUBSET Files :
           wrd_buf' = [g \in Files |-> IF g \in before \cup {f} THEN Empty ELSE wrd_buf[g]]
    BY <1>8 DEF ExitFails
  <2> QED
    BY <2>1, EmptyWithin DEF BuffersOK, Within
<1>9. ASSUME NEW i \in Clients,
             \/ Index(i) \/ URLInfo(i) \/ SaveStatus(i) \/ StatusUnsaved(i)
             \/ Delete(i) \/ Forget(i) \/ Done(i) \/ Leave(i)
      PROVE  UNCHANGED wrd_buf
  BY <1>9 DEF Index, URLInfo, SaveStatus, StatusUnsaved, Delete, Forget, Done, Leave
<1>10. ASSUME Stop
       PROVE  UNCHANGED wrd_buf
  BY <1>10 DEF Stop
<1>11. CASE Next
  BY <1>1, <1>2, <1>3, <1>5, <1>6, <1>7, <1>8, <1>9, <1>10, <1>11 DEF Next
<1> QED
  BY <1>1, <1>11 DEF vars

\* The words and the markers of the threads never go past the end of a buffer
\* of cached, whatever fails: what DpsLogdStoreDoc checks before it adds one
\* is enough, although a flush may come between any two of them.
THEOREM BuffersSafe == Spec => []BuffersOK
<1> DEFINE IInv == BuffersOK /\ ControlOK
<1>1. Init => IInv
  <2>1. Init => BuffersOK
    BY EmptyWithin DEF Init, BuffersOK, Within
  <2> QED
    BY <2>1, TurnsInit DEF TurnsInv
<1>2. IInv /\ [Next]_vars => IInv'
  BY BuffersKept, ControlKept
<1>3. IInv => BuffersOK
  OBVIOUS
<1> QED
  BY <1>1, <1>2, <1>3, PTL DEF Spec

-----------------------------------------------------------------------------
(* The records of the wrd files. *)

Crds == [url_id : Urls, coord : Nat]

\* The records are typed and in order.
InOrderOK(records) ==
    /\ records \in [Words -> Seq(Crds)]
    /\ \A w \in Words : Ascending(records[w])

LEMMA RecordsAreNumbers ==
    /\ 1..MaxCalls \in SUBSET Int /\ Urls \in SUBSET Int /\ Words \in SUBSET Int /\ Nat \in SUBSET Int
    /\ Crds \in SUBSET Postings
<1>1. Urls \subseteq Int /\ Words \subseteq Int
  BY CachedAssumption
<1>2. 1..MaxCalls \subseteq Int /\ Nat \subseteq Int
  BY CachedAssumption
<1>3. ASSUME NEW x \in Crds PROVE x \in Postings
  <2>1. x.url_id \in Urls /\ x.coord \in Nat /\ x = [url_id |-> x.url_id, coord |-> x.coord]
    BY DEF Crds
  <2>2. x.url_id \in Int /\ x.coord \in Int
    BY <1>1, <2>1
  <2> QED
    BY <2>1, <2>2 DEF Postings
<1> QED
  BY <1>1, <1>2, <1>3

\* DpsProcessBuf, however many of the records it comes to.
LEMMA ProcessBufSorts ==
    ASSUME InOrderOK(base), NEW f, NEW words, NEW dels, NEW Written, NEW rest,
           \A w : Added(words, w) \in Seq(Crds) /\ Ascending(Added(words, w))
    PROVE  InOrderOK(ProcessBuf(f, words, dels, Written, rest))
<1> DEFINE m == ProcessBuf(f, words, dels, Written, rest)
<1>1. ASSUME NEW w \in Words PROVE m[w] \in Seq(Crds) /\ Ascending(m[w])
  <2> DEFINE old == RemoveOldCrds(base[w], dels)
             new == Added(words, w)
  <2>1. base[w] \in Seq(Crds) /\ Ascending(base[w])
    BY DEF InOrderOK
  <2>2. old \in Seq(Crds) /\ Ascending(old)
    BY <2>1, OldCrdsRemoved
  <2>3. new \in Seq(Crds) /\ Ascending(new)
    OBVIOUS
  <2>4. m[w] = IF FileOf[w] # f THEN base[w]
               ELSE IF w \in Written THEN Merge(old, new)
               ELSE IF rest /\ new = <<>> THEN old ELSE base[w]
    BY DEF ProcessBuf
  <2> HIDE DEF m, old, new
  <2>5. Merge(old, new) \in Seq(Crds) /\ Ascending(Merge(old, new))
    BY <2>2, <2>3, RecordsAreNumbers, MergeAscends
  <2> QED
    BY <2>1, <2>2, <2>4, <2>5
<1>2. m = [w \in Words |-> m[w]]
  BY DEF ProcessBuf
<1> HIDE DEF m
<1>3. m \in [Words -> Seq(Crds)]
  BY <1>1, <1>2
<1>4. InOrderOK(m)
  BY <1>1, <1>3 DEF InOrderOK
<1> QED
  BY <1>4 DEF m

LEMMA BufferAdds ==
    ASSUME NEW b, Within(b)
    PROVE  LET words == DpsSort(FreshWords(b), Cmplog_wrd) IN
           /\ words \in Seq(WordRecs)
           /\ \A w : Added(words, w) \in Seq(Crds) /\ Ascending(Added(words, w))
<1>1. b.data \in Seq([stamp : 1..MaxCalls, url_id : Urls, wrd_id : Words, coord : Nat])
  BY DEF Within, WordRecs
<1> QED
  BY <1>1, RecordsAreNumbers, FreshAdded DEF WordRecs, Crds

LEMMA SaveBufSorts ==
    ASSUME InOrderOK(base), NEW f, NEW b, Within(b)
    PROVE  InOrderOK(SaveBuf(f, b))
<1> DEFINE words == DpsSort(FreshWords(b), Cmplog_wrd)
           dels == SortedDels(b.del_buf)
           Written == {words[k].wrd_id : k \in DOMAIN words}
<1>1. \A w : Added(words, w) \in Seq(Crds) /\ Ascending(Added(words, w))
  BY BufferAdds
<1>2. SaveBuf(f, b) = ProcessBuf(f, words, dels, Written, TRUE)
  BY DEF SaveBuf
<1> HIDE DEF words, dels, Written
<1> QED
  BY <1>1, <1>2, ProcessBufSorts

\* A save that fails at some record leaves it empty or as it was, and the
\* others in order.
LEMMA FailedSavesSort ==
    ASSUME InOrderOK(base), NEW f, NEW b, Within(b), NEW m \in FailedSaves(f, b)
    PROVE  InOrderOK(m)
<1> DEFINE words == DpsSort(FreshWords(b), Cmplog_wrd)
           dels == SortedDels(b.del_buf)
           Written(w) == {words[k].wrd_id : k \in DOMAIN words} \cap 0..(w - 1)
           UpTo(w) == ProcessBuf(f, words, dels, Written(w), FALSE)
<1>1. \A w : Added(words, w) \in Seq(Crds) /\ Ascending(Added(words, w))
  BY BufferAdds
<1>2. m = base \/ \E n \in DOMAIN words :
         m \in {UpTo(words[n].wrd_id), [UpTo(words[n].wrd_id) EXCEPT ![words[n].wrd_id] = <<>>]}
  BY DEF FailedSaves
<1> HIDE DEF words, dels, Written
<1>3. ASSUME NEW w PROVE InOrderOK(UpTo(w))
  BY <1>1, ProcessBufSorts
<1> HIDE DEF UpTo
<1>4. ASSUME NEW w PROVE InOrderOK([UpTo(w) EXCEPT ![w] = <<>>])
  <2> DEFINE r == UpTo(w)
             e == [r EXCEPT ![w] = <<>>]
  <2>1. r \in [Words -> Seq(Crds)] /\ \A v \in Words : Ascending(r[v])
    BY <1>3 DEF InOrderOK
  <2> HIDE DEF r
  <2>2. <<>> \in Seq(Crds) /\ Ascending(<<>>)
    BY DEF Ascending
  <2>3. e \in [Words -> Seq(Crds)] /\ \A v \in Words : e[v] = IF v = w THEN <<>> ELSE r[v]
    BY <2>1, <2>2
  <2> HIDE DEF e
  <2>4. InOrderOK(e)
    BY <2>1, <2>2, <2>3 DEF InOrderOK
  <2> QED
    BY <2>4 DEF e, r
<1> QED
  BY <1>2, <1>3, <1>4

\* The urls with information are urls, and what is wanted of one a document.
ContentOK == info \subseteq Urls /\ wanted \in [Urls -> Docs \cup {None}]

LEMMA ContentKept ==
    ASSUME ContentOK, ControlOK, [Next]_vars
    PROVE  ContentOK'
<1>1. CASE UNCHANGED <<info, wanted>>
  BY <1>1 DEF ContentOK
<1>2. ASSUME NEW i \in Clients, Index(i) \/ Delete(i)
      PROVE  ContentOK'
  BY <1>2 DEF Index, Delete, ContentOK
<1>3. ASSUME NEW i \in Clients, URLInfo(i)
      PROVE  ContentOK'
  <2>1. indexer[i].url \in Urls
    BY <1>3 DEF URLInfo, ControlOK
  <2> QED
    BY <1>3, <2>1 DEF URLInfo, ContentOK
<1>4. ASSUME NEW i \in Clients, Done(i)
      PROVE  ContentOK'
  BY <1>4 DEF Done, ContentOK
<1>5. ASSUME NEW i \in Clients,
             \/ SaveStatus(i) \/ StatusUnsaved(i) \/ Forget(i)
             \/ Mark(i) \/ AddWord(i) \/ SaveFails(i) \/ Leave(i)
      PROVE  ContentOK'
  BY <1>1, <1>5 DEF SaveStatus, StatusUnsaved, Forget, Mark, AddWord, SaveFails, Leave
<1>6. ASSUME \/ \E f \in Files : Flush(f) \/ FlushFails(f)
             \/ Stop \/ Exit \/ ExitFails
      PROVE  ContentOK'
  BY <1>1, <1>6 DEF Flush, FlushFails, Stop, Exit, ExitFails
<1>7. CASE Next
  BY <1>2, <1>3, <1>4, <1>5, <1>6, <1>7 DEF Next
<1> QED
  BY <1>1, <1>7 DEF vars

\* The records stay in order through every interleaving of saves.
LEMMA RecordsKept ==
    ASSUME InOrderOK(base), BuffersOK, ControlOK, [Next]_vars
    PROVE  InOrderOK(base')
<1>1. CASE UNCHANGED base
  BY <1>1
<1>2. ASSUME NEW f \in Files PROVE Within(wrd_buf[f])
  BY DEF BuffersOK, Within
<1>3. ASSUME NEW f \in Files, base' = SaveBuf(f, wrd_buf[f])
      PROVE  InOrderOK(base')
  BY <1>2, <1>3, SaveBufSorts
<1>4. ASSUME NEW f \in Files, base' \in FailedSaves(f, wrd_buf[f])
      PROVE  InOrderOK(base')
  BY <1>2, <1>4, FailedSavesSort
<1>5. ASSUME NEW i \in Clients, Mark(i)
      PROVE  InOrderOK(base')
  <2>1. thread[i].at \in Files
    BY <1>5 DEF Mark, ControlOK, Storing
  <2>2. base' = base \/ base' = SaveBuf(thread[i].at, wrd_buf[thread[i].at])
    BY <1>5 DEF Mark, Saved
  <2> QED
    BY <1>3, <2>1, <2>2
<1>6. ASSUME NEW i \in Clients, thread[i].words # <<>>
      PROVE  FileOf[Head(thread[i].words)[1]] \in Files
  <2>1. thread[i].words \in Seq(Words \X Nat)
    BY DEF ControlOK, Threads
  <2>2. Head(thread[i].words)[1] \in Words
    BY <1>6, <2>1
  <2> QED
    BY <2>2, CachedAssumption DEF Files
<1>7. ASSUME NEW i \in Clients, AddWord(i)
      PROVE  InOrderOK(base')
  <2> DEFINE f == FileOf[Head(thread[i].words)[1]]
  <2>1. f \in Files
    BY <1>6, <1>7 DEF AddWord
  <2>2. base' = base \/ base' = SaveBuf(f, wrd_buf[f])
    BY <1>7 DEF AddWord, Saved
  <2> HIDE DEF f
  <2> QED
    BY <1>3, <2>1, <2>2
<1>8. ASSUME NEW i \in Clients, SaveFails(i)
      PROVE  InOrderOK(base')
  <2> DEFINE f == IF thread[i].pc = "mark" THEN thread[i].at ELSE FileOf[Head(thread[i].words)[1]]
  <2>1. base' \in FailedSaves(f, wrd_buf[f])
    BY <1>8 DEF SaveFails
  <2>2. CASE thread[i].pc = "mark"
    <3>1. f \in Files
      BY <2>2 DEF ControlOK, Storing
    <3> HIDE DEF f
    <3> QED
      BY <1>4, <2>1, <3>1
  <2>3. CASE thread[i].pc # "mark"
    <3>1. f \in Files
      BY <1>6, <1>8, <2>3 DEF SaveFails
    <3> HIDE DEF f
    <3> QED
      BY <1>4, <2>1, <3>1
  <2> QED
    BY <2>2, <2>3
<1>9. ASSUME NEW f \in Files, Flush(f) \/ FlushFails(f)
      PROVE  InOrderOK(base')
  <2>1. base' = SaveBuf(f, wrd_buf[f]) \/ base' \in FailedSaves(f, wrd_buf[f])
    BY <1>9 DEF Flush, FlushFails
  <2> QED
    BY <1>3, <1>4, <2>1
<1>10. ASSUME NEW w \in Words
       PROVE  LET m == SaveBuf(FileOf[w], wrd_buf[FileOf[w]]) IN m[w] \in Seq(Crds) /\ Ascending(m[w])
  <2>1. FileOf[w] \in Files
    BY CachedAssumption DEF Files
  <2>2. InOrderOK(SaveBuf(FileOf[w], wrd_buf[FileOf[w]]))
    BY <1>2, <2>1, SaveBufSorts
  <2> QED
    BY <2>2 DEF InOrderOK
<1>11. CASE Exit
  <2> DEFINE r(w) == SaveBuf(FileOf[w], wrd_buf[FileOf[w]])[w]
  <2>1. base' = [w \in Words |-> r(w)]
    BY <1>11 DEF Exit
  <2>2. \A w \in Words : r(w) \in Seq(Crds) /\ Ascending(r(w))
    BY <1>10
  <2> HIDE DEF r
  <2> QED
    BY <2>1, <2>2 DEF InOrderOK
<1>12. CASE ExitFails
  <2>1. PICK f \in Files, before \in SUBSET Files :
           \E failed \in FailedSaves(f, wrd_buf[f]) :
               base' = [w \in Words |-> IF FileOf[w] \in before
                                        THEN SaveBuf(FileOf[w], wrd_buf[FileOf[w]])[w] ELSE failed[w]]
    BY <1>12 DEF ExitFails
  <2>2. PICK failed \in FailedSaves(f, wrd_buf[f]) :
           base' = [w \in Words |-> IF FileOf[w] \in before
                                    THEN SaveBuf(FileOf[w], wrd_buf[FileOf[w]])[w] ELSE failed[w]]
    BY <2>1
  <2>3. InOrderOK(failed)
    BY <1>2, FailedSavesSort
  <2> DEFINE r(w) == SaveBuf(FileOf[w], wrd_buf[FileOf[w]])[w]
  <2>4. \A w \in Words : r(w) \in Seq(Crds) /\ Ascending(r(w))
    BY <1>10
  <2>5. base' = [w \in Words |-> IF FileOf[w] \in before THEN r(w) ELSE failed[w]]
    BY <2>2
  <2> HIDE DEF r
  <2> QED
    BY <2>3, <2>4, <2>5 DEF InOrderOK
<1>13. ASSUME NEW i \in Clients,
              \/ Index(i) \/ URLInfo(i) \/ SaveStatus(i) \/ StatusUnsaved(i)
              \/ Delete(i) \/ Forget(i) \/ Done(i) \/ Leave(i)
       PROVE  UNCHANGED base
  BY <1>13 DEF Index, URLInfo, SaveStatus, StatusUnsaved, Delete, Forget, Done, Leave
<1>14. ASSUME Stop
       PROVE  UNCHANGED base
  BY <1>14 DEF Stop
<1>15. CASE Next
  BY <1>1, <1>5, <1>7, <1>8, <1>9, <1>11, <1>12, <1>13, <1>14, <1>15 DEF Next
<1> QED
  BY <1>1, <1>15 DEF vars

\* What the records rely on, and they do.
RecordsInv == BuffersOK /\ ControlOK /\ ContentOK /\ InOrderOK(base)

LEMMA RecordsInit == Init => RecordsInv
<1> SUFFICES ASSUME Init PROVE RecordsInv
  OBVIOUS
<1>1. BuffersOK
  BY EmptyWithin DEF Init, BuffersOK, Within
<1>2. ControlOK
  BY TurnsInit DEF TurnsInv
<1>3. ContentOK
  BY DEF Init, ContentOK
<1>4. InOrderOK(base)
  BY DEF Init, InOrderOK, Ascending
<1> QED
  BY <1>1, <1>2, <1>3, <1>4 DEF RecordsInv

LEMMA RecordsStep ==
    ASSUME RecordsInv, [Next]_vars
    PROVE  RecordsInv'
<1>1. BuffersOK' /\ ControlOK' /\ ContentOK' /\ InOrderOK(base')
  BY BuffersKept, ControlKept, ContentKept, RecordsKept DEF RecordsInv
<1> QED
  BY <1>1 DEF RecordsInv, InOrderOK

LEMMA RecordsInvariant == Spec => []RecordsInv
<1>1. Init => RecordsInv
  BY RecordsInit
<1>2. RecordsInv /\ [Next]_vars => RecordsInv'
  BY RecordsStep
<1> QED
  BY <1>1, <1>2, PTL DEF Spec

\* Every variable of cached keeps its type, whatever fails: above all, what
\* DpsRemoveOldWords leaves in a buffer after it has moved words in parts is
\* made of the ids and coordinates of the buffer.
THEOREM TypesKept == Spec => []TypeOK
<1>1. RecordsInv => TypeOK
  BY DEF RecordsInv, ContentOK, InOrderOK, Crds, TypeOK
<1> QED
  BY <1>1, RecordsInvariant, PTL

\* The postings of each record stay in the order by url and coordinate that
\* the search and the next merge rely on: through every interleaving of the
\* threads and the flushes, and where a save failed half way.
THEOREM PostingsSorted == Spec => []Sorted
<1>1. RecordsInv => Sorted
  <2> SUFFICES ASSUME RecordsInv, NEW w \in Words, NEW k \in 1..(Len(base[w]) - 1)
               PROVE  ~CrdAfter(base[w][k], base[w][k + 1])
    BY DEF Sorted
  <2>1. base[w] \in Seq(Crds) /\ Ascending(base[w])
    BY DEF RecordsInv, InOrderOK
  <2>2. k \in DOMAIN base[w] /\ k + 1 \in DOMAIN base[w] /\ k < k + 1
    BY <2>1
  <2> QED
    BY <2>1, <2>2 DEF Ascending
<1> QED
  BY <1>1, RecordsInvariant, PTL
-----------------------------------------------------------------------------
(* What a record and its buffer say, and that saves change nothing of it. *)

Buf(w) == wrd_buf[FileOf[w]]

\* The postings of w, and those of them of url u, in the record and the buffer.
Content(w) == ContentOf(base[w], Buf(w), w)
Has(w, u) == {x \in Content(w) : x.url_id = u}

\* No posting is there twice.
OnceInv == \A w \in Words : PostedOnce(base[w], Buf(w), w)

\* No save moves words in parts.
Intact == \A f \in Files : Unmoved(wrd_buf[f])

\* The buffers and the records are made of numbers.
LEMMA Numbers ==
    ASSUME BuffersOK, InOrderOK(base)
    PROVE  /\ \A f \in Files : wrd_buf[f].data \in Seq(Entries) /\ wrd_buf[f].del_buf \in Seq(Markers)
           /\ \A w \in Words : /\ w \in Int /\ FileOf[w] \in Files
                               /\ base[w] \in Seq(Postings) /\ Ascending(base[w])
<1>1. WordRecs \subseteq Entries
  <2> SUFFICES ASSUME NEW x \in WordRecs PROVE x \in Entries
    OBVIOUS
  <2>1. x.stamp \in Int /\ x.url_id \in Int /\ x.wrd_id \in Int /\ x.coord \in Int
    BY RecordsAreNumbers DEF WordRecs
  <2> QED
    BY <2>1 DEF WordRecs, Entries
<1>2. DelRecs \subseteq Markers
  <2> SUFFICES ASSUME NEW x \in DelRecs PROVE x \in Markers
    OBVIOUS
  <2>1. x.stamp \in Int /\ x.url_id \in Int
    BY RecordsAreNumbers DEF DelRecs
  <2> QED
    BY <2>1 DEF DelRecs, Markers
<1>3. ASSUME NEW f \in Files PROVE wrd_buf[f].data \in Seq(Entries) /\ wrd_buf[f].del_buf \in Seq(Markers)
  <2>1. wrd_buf[f].data \in Seq(WordRecs) /\ wrd_buf[f].del_buf \in Seq(DelRecs)
    BY DEF BuffersOK
  <2> QED
    BY <1>1, <1>2, <2>1
<1>4. ASSUME NEW w \in Words
      PROVE  w \in Int /\ FileOf[w] \in Files /\ base[w] \in Seq(Postings) /\ Ascending(base[w])
  <2>1. base[w] \in Seq(Crds) /\ Ascending(base[w])
    BY DEF InOrderOK
  <2>2. FileOf[w] \in Files
    BY CachedAssumption DEF Files
  <2> QED
    BY <2>1, <2>2, RecordsAreNumbers
<1> QED
  BY <1>3, <1>4

\* DpsLogdSaveBuf: a saved record has what the record and its buffer had.
LEMMA SaveKeeps ==
    ASSUME BuffersOK, InOrderOK(base), OnceInv, NEW f \in Files, Unmoved(wrd_buf[f]), NEW w \in Words
    PROVE  LET m == SaveBuf(f, wrd_buf[f]) IN
           /\ FileOf[w] = f => ToSet(m[w]) = Content(w) /\ IsInjective(m[w])
           /\ FileOf[w] # f => m[w] = base[w]
<1> DEFINE b == wrd_buf[f]
           words == DpsSort(FreshWords(b), Cmplog_wrd)
           old == RemoveOldCrds(base[w], SortedDels(b.del_buf))
           new == Added(words, w)
           Written == {words[k].wrd_id : k \in DOMAIN words}
           saved == IF w \in Written THEN Merge(old, new) ELSE old
           m == SaveBuf(f, b)
<1>1. m[w] = IF FileOf[w] # f THEN base[w]
             ELSE IF w \in Written THEN Merge(old, new)
             ELSE IF new = <<>> THEN old ELSE base[w]
  BY DEF SaveBuf, ProcessBuf
<1> HIDE DEF m
<1>2. CASE FileOf[w] # f
  BY <1>1, <1>2 DEF m
<1>3. CASE FileOf[w] = f
  <2>1. /\ b.data \in Seq(Entries) /\ b.del_buf \in Seq(Markers) /\ w \in Int
        /\ base[w] \in Seq(Postings) /\ Ascending(base[w])
    BY Numbers
  <2>2. PostedOnce(base[w], b, w)
    BY <1>3 DEF OnceInv, Buf
  <2>3. /\ ToSet(saved) = OldIn(base[w], b) \cup NewIn(b, w)
        /\ IsInjective(saved)
        /\ w \notin Written => new = <<>>
    BY <2>1, <2>2, RecordSaved
  <2> HIDE DEF words, old, new, Written
  <2>4. m[w] = saved
    BY <1>1, <1>3, <2>3
  <2>5. Content(w) = OldIn(base[w], b) \cup NewIn(b, w)
    BY <1>3 DEF Content, ContentOf, Buf
  <2> HIDE DEF saved
  <2> QED
    BY <1>3, <2>3, <2>4, <2>5 DEF m
<1> QED
  BY <1>2, <1>3

\* An emptied buffer leaves what the record has.
LEMMA Emptied ==
    ASSUME NEW record, NEW w
    PROVE  /\ ContentOf(record, Empty, w) = ToSet(record)
           /\ PostedOnce(record, Empty, w) <=> IsInjective(record)
<1>1. DOMAIN Empty.data = {} /\ DOMAIN Empty.del_buf = {}
  BY DEF Empty
<1> QED
  BY <1>1, EmptyContent

\* DpsLogdStoreDoc saves a full buffer before it adds to it.
LEMMA RoomKeeps ==
    ASSUME BuffersOK, InOrderOK(base), OnceInv, Intact, NEW f \in Files, NEW full \in BOOLEAN, NEW w \in Words
    PROVE  /\ FileOf[w] = f => /\ ContentOf(Saved(f, full)[w], Room(f, full), w) = Content(w)
                               /\ PostedOnce(Saved(f, full)[w], Room(f, full), w)
           /\ FileOf[w] # f => Saved(f, full)[w] = base[w]
<1>1. CASE full
  <2> DEFINE m == SaveBuf(f, wrd_buf[f])
  <2>1. Saved(f, full) = m /\ Room(f, full) = Empty
    BY <1>1 DEF Saved, Room
  <2>2. /\ FileOf[w] = f => ToSet(m[w]) = Content(w) /\ IsInjective(m[w])
        /\ FileOf[w] # f => m[w] = base[w]
    BY SaveKeeps DEF Intact
  <2> HIDE DEF m
  <2> QED
    BY <2>1, <2>2, Emptied
<1>2. CASE ~full
  BY <1>2 DEF Saved, Room, Content, Buf, OnceInv
<1> QED
  BY <1>1, <1>2

\* When buffer f changes to b and the records to m, nothing of the words of
\* other files does.
LEMMA OtherFiles ==
    ASSUME BuffersOK, NEW f \in Files, NEW b, wrd_buf' = [wrd_buf EXCEPT ![f] = b],
           NEW w \in Words, base'[w] = base[w], FileOf[w] # f
    PROVE  Content(w)' = Content(w) /\ (PostedOnce(base[w], Buf(w), w) => PostedOnce(base[w], Buf(w), w)')
<1>1. FileOf[w] \in Files
  BY CachedAssumption DEF Files
<1>2. Buf(w)' = Buf(w)
  BY <1>1 DEF BuffersOK, Buf
<1> QED
  BY <1>2 DEF Content
-----------------------------------------------------------------------------
(* What a step makes of it. *)

\* No record of b is newer than the clock, and none of the url of t newer than
\* the command of t; the words are older until t has left its markers.
Dated(b) ==
    /\ \A k \in DOMAIN b.data : b.data[k].stamp <= now
    /\ \A k \in DOMAIN b.del_buf : b.del_buf[k].stamp <= now
Precedes(b, t) ==
    /\ \A k \in DOMAIN b.data : b.data[k].url_id = t.url =>
          b.data[k].stamp <= t.stamp /\ (t.pc = "mark" => b.data[k].stamp < t.stamp)
    /\ \A k \in DOMAIN b.del_buf : b.del_buf[k].url_id = t.url => b.del_buf[k].stamp <= t.stamp

StampsInv ==
    /\ \A f \in Files : Dated(wrd_buf[f])
    /\ \A i \in Clients : Storing(i) =>
          thread[i].stamp <= now /\ \A f \in Files : Precedes(wrd_buf[f], thread[i])

LEMMA EmptyDated == Dated(Empty) /\ \A t : Precedes(Empty, t)
  BY DEF Dated, Precedes, Empty

LEMMA RoomDated ==
    ASSUME StampsInv, NEW f \in Files, NEW full
    PROVE  /\ Dated(Room(f, full))
           /\ \A i \in Clients : Storing(i) => Precedes(Room(f, full), thread[i])
  BY EmptyDated DEF StampsInv, Room

LEMMA RoomNumbers ==
    ASSUME BuffersOK, InOrderOK(base), NEW f \in Files, NEW full
    PROVE  /\ Room(f, full).data \in Seq(Entries) /\ Room(f, full).del_buf \in Seq(Markers)
           /\ Room(f, full) = [data |-> Room(f, full).data, del_buf |-> Room(f, full).del_buf]
<1>1. Room(f, full) = Empty \/ Room(f, full) = wrd_buf[f]
  BY DEF Room
<1>2. wrd_buf[f] = [data |-> wrd_buf[f].data, del_buf |-> wrd_buf[f].del_buf]
  BY DEF BuffersOK
<1>3. Empty.data \in Seq(Entries) /\ Empty.del_buf \in Seq(Markers)
  BY DEF Empty
<1> QED
  BY <1>1, <1>2, <1>3, Numbers DEF Empty

\* A marker takes the postings of its url in the words of its file away.
LEMMA MarkEffect ==
    ASSUME BuffersOK, ControlOK, InOrderOK(base), OnceInv, StampsInv, Intact, NEW i \in Clients, Mark(i)
    PROVE  /\ OnceInv'
           /\ \A w \in Words : Content(w)' = IF FileOf[w] = thread[i].at
                                             THEN {x \in Content(w) : x.url_id # thread[i].url}
                                             ELSE Content(w)
<1> DEFINE t == thread[i]
           f == t.at
           full == Len(wrd_buf[f].del_buf) = CacheLogDels
           b == Room(f, full)
           b1 == [b EXCEPT !.del_buf = Append(@, LogDel(t.stamp, t.url))]
           m == Saved(f, full)
<1>1. f \in Files /\ full \in BOOLEAN /\ Storing(i) /\ t.pc = "mark"
  BY DEF Mark, Storing, ControlOK
<1>2. t.url \in Int /\ t.stamp \in Int
  BY <1>1, RecordsAreNumbers DEF ControlOK
<1>3. wrd_buf' = [wrd_buf EXCEPT ![f] = b1] /\ base' = m
  BY DEF Mark
<1> HIDE DEF full
<1>4. /\ b.data \in Seq(Entries) /\ b.del_buf \in Seq(Markers)
      /\ b1.data = b.data /\ b1.del_buf = Append(b.del_buf, LogDel(t.stamp, t.url))
  BY <1>1, RoomNumbers
<1>5. \A k \in DOMAIN b.data : b.data[k].url_id = t.url => b.data[k].stamp < t.stamp
  BY <1>1, RoomDated DEF Precedes
<1>6. ASSUME NEW w \in Words, FileOf[w] = f
      PROVE  Content(w)' = {x \in Content(w) : x.url_id # t.url} /\ PostedOnce(base[w], Buf(w), w)'
  <2>1. ContentOf(m[w], b, w) = Content(w) /\ PostedOnce(m[w], b, w)
    BY <1>1, <1>6, RoomKeeps
  <2>2. Buf(w)' = b1 /\ base'[w] = m[w]
    BY <1>1, <1>3, <1>6 DEF BuffersOK, Buf
  <2> DEFINE r == m[w]
  <2> HIDE DEF b, b1, m, r, t, f
  <2>3. /\ ContentOf(r, b1, w) = {x \in ContentOf(r, b, w) : x.url_id # t.url}
        /\ PostedOnce(r, b, w) => PostedOnce(r, b1, w)
    BY <1>2, <1>4, <1>5, MarkerClears
  <2> QED
    BY <2>1, <2>2, <2>3 DEF Content, r
<1>7. ASSUME NEW w \in Words, FileOf[w] # f
      PROVE  Content(w)' = Content(w) /\ PostedOnce(base[w], Buf(w), w)'
  <2>1. base'[w] = base[w]
    BY <1>1, <1>3, <1>7, RoomKeeps
  <2> HIDE DEF b1, m, f
  <2> QED
    BY <1>1, <1>3, <1>7, <2>1, OtherFiles DEF OnceInv
<1> QED
  BY <1>6, <1>7 DEF OnceInv

\* A word adds its posting, which must not be there.
LEMMA WordEffect ==
    ASSUME BuffersOK, ControlOK, InOrderOK(base), OnceInv, StampsInv, Intact, NEW i \in Clients, AddWord(i),
           NEW v, NEW c, v = Head(thread[i].words)[1], c = Head(thread[i].words)[2],
           Crd(thread[i].url, c) \notin Content(v)
    PROVE  /\ OnceInv'
           /\ \A w \in Words : Content(w)' = Content(w) \cup (IF w = v THEN {Crd(thread[i].url, c)} ELSE {})
<1> DEFINE t == thread[i]
           f == FileOf[v]
           full == Len(wrd_buf[f].data) = CacheLogWords
           b == Room(f, full)
           b1 == [b EXCEPT !.data = Append(@, LogWord(t.stamp, t.url, v, c))]
           m == Saved(f, full)
<1>1. v \in Words /\ c \in Nat
  <2>1. t.words \in Seq(Words \X Nat) /\ t.words # <<>>
    BY DEF AddWord, ControlOK, Threads
  <2>2. Head(t.words) \in Words \X Nat
    BY <2>1
  <2> QED
    BY <2>2
<1>2. f \in Files /\ full \in BOOLEAN /\ Storing(i) /\ v \in Int /\ c \in Int
  <2>1. Storing(i)
    BY DEF AddWord, Storing
  <2>2. v \in Int /\ f \in Files
    BY <1>1, Numbers
  <2> HIDE DEF f
  <2> QED
    BY <1>1, <2>1, <2>2
<1>3. t.url \in Int /\ t.stamp \in Int
  BY <1>2, RecordsAreNumbers DEF ControlOK
<1> DEFINE x == LogWord(t.stamp, t.url, v, c)
<1>4. wrd_buf' = [wrd_buf EXCEPT ![f] = b1] /\ base' = m
  BY DEF AddWord
<1> HIDE DEF full
<1>5. /\ b.data \in Seq(Entries) /\ b.del_buf \in Seq(Markers)
      /\ b1.del_buf = b.del_buf /\ b1.data = Append(b.data, x)
  <2> DEFINE r == Room(f, full)
  <2>1. r.data \in Seq(Entries) /\ r.del_buf \in Seq(Markers) /\ r = [data |-> r.data, del_buf |-> r.del_buf]
    BY <1>2, RoomNumbers
  <2> HIDE DEF r
  <2>2. b = r /\ b1 = [r EXCEPT !.data = Append(@, x)]
    BY DEF r
  <2> HIDE DEF x, b, b1
  <2> QED
    BY <2>1, <2>2
<1>6. x \in Entries /\ x.url_id = t.url /\ x.stamp = t.stamp /\ x.wrd_id = v /\ x.coord = c
  BY <1>2, <1>3 DEF LogWord, Entries
<1> HIDE DEF x
<1>7. NotOld(b.del_buf, x)
  <2>1. \A k \in DOMAIN b.del_buf : b.del_buf[k].url_id = t.url => b.del_buf[k].stamp <= t.stamp
    BY <1>2, RoomDated DEF Precedes
  <2>2. \A k \in DOMAIN b.del_buf : b.del_buf[k].stamp \in Int
    BY <1>5, MarkerNumbers
  <2> HIDE DEF b, t
  <2> QED
    BY <1>3, <1>6, <2>1, <2>2 DEF NotOld
<1>8. ASSUME NEW w \in Words, FileOf[w] = f
      PROVE  /\ Content(w)' = Content(w) \cup (IF w = v THEN {Crd(t.url, c)} ELSE {})
             /\ PostedOnce(base[w], Buf(w), w)'
  <2>1. ContentOf(m[w], b, w) = Content(w) /\ PostedOnce(m[w], b, w)
    BY <1>2, <1>8, RoomKeeps
  <2>2. Buf(w)' = b1 /\ base'[w] = m[w]
    BY <1>2, <1>4, <1>8 DEF BuffersOK, Buf
  <2>3. w = v => Crd(t.url, c) \notin Content(w)
    OBVIOUS
  <2> DEFINE r == m[w]
             new == IF w = x.wrd_id THEN {Crd(x.url_id, x.coord)} ELSE {}
  <2>4. new = IF w = v THEN {Crd(t.url, c)} ELSE {}
    BY <1>6
  <2> HIDE DEF b, b1, m, r, t, f
  <2>5. /\ ContentOf(r, b1, w) = ContentOf(r, b, w) \cup new
        /\ PostedOnce(r, b, w) /\ ContentOf(r, b, w) \cap new = {} => PostedOnce(r, b1, w)
    BY <1>5, <1>6, <1>7, WordAdds
  <2> HIDE DEF new
  <2>6. Content(w) \cap new = {}
    BY <2>3, <2>4
  <2> QED
    BY <2>1, <2>2, <2>4, <2>5, <2>6 DEF Content, r
<1>9. ASSUME NEW w \in Words, FileOf[w] # f
      PROVE  Content(w)' = Content(w) /\ w # v /\ PostedOnce(base[w], Buf(w), w)'
  <2>1. base'[w] = base[w] /\ w # v
    BY <1>2, <1>4, <1>9, RoomKeeps
  <2> HIDE DEF b1, m, f
  <2> QED
    BY <1>2, <1>4, <1>9, <2>1, OtherFiles DEF OnceInv
<1> QED
  BY <1>8, <1>9 DEF OnceInv

\* A flush changes nothing.
LEMMA FlushEffect ==
    ASSUME BuffersOK, InOrderOK(base), OnceInv, Intact, NEW f \in Files, Flush(f)
    PROVE  OnceInv' /\ \A w \in Words : Content(w)' = Content(w)
<1> DEFINE m == SaveBuf(f, wrd_buf[f])
<1>1. wrd_buf' = [wrd_buf EXCEPT ![f] = Empty] /\ base' = m
  BY DEF Flush
<1>2. ASSUME NEW w \in Words PROVE Content(w)' = Content(w) /\ PostedOnce(base[w], Buf(w), w)'
  <2>1. /\ FileOf[w] = f => ToSet(m[w]) = Content(w) /\ IsInjective(m[w])
        /\ FileOf[w] # f => m[w] = base[w]
    BY SaveKeeps DEF Intact
  <2> HIDE DEF m
  <2>2. CASE FileOf[w] = f
    <3>1. Buf(w)' = Empty /\ base'[w] = m[w]
      BY <1>1, <2>2 DEF BuffersOK, Buf
    <3> QED
      BY <2>1, <2>2, <3>1, Emptied DEF Content
  <2>3. CASE FileOf[w] # f
    BY <1>1, <2>1, <2>3, OtherFiles DEF OnceInv
  <2> QED
    BY <2>2, <2>3
<1> QED
  BY <1>2 DEF OnceInv

\* Nor does the last one.
LEMMA ExitEffect ==
    ASSUME BuffersOK, InOrderOK(base), OnceInv, Intact, Exit
    PROVE  OnceInv' /\ \A w \in Words : Content(w)' = Content(w)
<1>1. ASSUME NEW w \in Words PROVE Content(w)' = Content(w) /\ PostedOnce(base[w], Buf(w), w)'
  <2> DEFINE f == FileOf[w]
             m == SaveBuf(f, wrd_buf[f])
  <2>1. f \in Files
    BY Numbers
  <2>2. ToSet(m[w]) = Content(w) /\ IsInjective(m[w])
    BY <2>1, SaveKeeps DEF Intact
  <2>3. Buf(w)' = Empty /\ base'[w] = m[w]
    BY <2>1 DEF Exit, Buf
  <2> HIDE DEF m
  <2> QED
    BY <2>2, <2>3, Emptied DEF Content
<1> QED
  BY <1>1 DEF OnceInv
-----------------------------------------------------------------------------
(* The stamps. *)

\* A thread that leaves a marker or a word goes on with the command it has.
LEMMA ThreadGoesOn ==
    ASSUME ControlOK, NEW i \in Clients, Mark(i) \/ AddWord(i)
    PROVE  /\ Storing(i)
           /\ \A j \in Clients : /\ Storing(j)' <=> Storing(j)
                                 /\ thread'[j].url = thread[j].url /\ thread'[j].stamp = thread[j].stamp
                                 /\ thread'[j].cmd = thread[j].cmd
                                 /\ thread'[j].pc = "mark" => thread[j].pc = "mark"
           /\ \A j \in Clients \ {i} : thread'[j] = thread[j]
<1> DEFINE t == thread[i]
<1>1. thread \in [Clients -> Threads] /\ t \in Threads
  BY DEF ControlOK
<1>2. t = [pc |-> t.pc, cmd |-> t.cmd, url |-> t.url, stamp |-> t.stamp, at |-> t.at, words |-> t.words]
  BY <1>1 DEF Threads
<1>3. Storing(i)
  BY DEF Mark, AddWord, Storing
<1>4. ASSUME NEW t1, thread' = [thread EXCEPT ![i] = t1], t1.pc \in {"mark", "words"},
             t1.url = t.url, t1.stamp = t.stamp, t1.cmd = t.cmd, t1.pc = "mark" => t.pc = "mark"
      PROVE  /\ \A j \in Clients : /\ Storing(j)' <=> Storing(j)
                                   /\ thread'[j].url = thread[j].url /\ thread'[j].stamp = thread[j].stamp
                                   /\ thread'[j].cmd = thread[j].cmd
                                   /\ thread'[j].pc = "mark" => thread[j].pc = "mark"
             /\ \A j \in Clients \ {i} : thread'[j] = thread[j]
  <2>1. thread'[i] = t1 /\ \A j \in Clients \ {i} : thread'[j] = thread[j]
    BY <1>1, <1>4
  <2> QED
    BY <1>3, <1>4, <2>1 DEF Storing
<1>5. CASE Mark(i)
  <2> DEFINE t1 == IF t.at < WrdFiles THEN [t EXCEPT !.at = @ + 1] ELSE [t EXCEPT !.pc = "words"]
  <2>1. thread' = [thread EXCEPT ![i] = t1] /\ t.pc = "mark"
    BY <1>5 DEF Mark
  <2>2. t1.pc \in {"mark", "words"} /\ t1.url = t.url /\ t1.stamp = t.stamp /\ t1.cmd = t.cmd
    BY <1>2, <2>1
  <2> HIDE DEF t1
  <2> QED
    BY <1>3, <1>4, <2>1, <2>2
<1>6. CASE AddWord(i)
  <2> DEFINE t1 == [t EXCEPT !.words = Tail(@)]
  <2>1. thread' = [thread EXCEPT ![i] = t1] /\ t.pc = "words"
    BY <1>1, <1>6 DEF AddWord
  <2>2. t1.pc = "words" /\ t1.url = t.url /\ t1.stamp = t.stamp /\ t1.cmd = t.cmd
    BY <1>2, <2>1
  <2> HIDE DEF t1
  <2> QED
    BY <1>3, <1>4, <2>1, <2>2
<1> QED
  BY <1>3, <1>5, <1>6

\* A marker or a word that is no newer than the clock, and none of the url of
\* another command, is one more record.
LEMMA MarkDated ==
    ASSUME NEW b, b.del_buf \in Seq(Markers), b = [data |-> b.data, del_buf |-> b.del_buf],
           NEW x \in Markers, x.stamp <= now, Dated(b)
    PROVE  LET b1 == [b EXCEPT !.del_buf = Append(@, x)] IN
           /\ Dated(b1)
           /\ \A t : Precedes(b, t) /\ (x.url_id = t.url => x.stamp <= t.stamp) => Precedes(b1, t)
<1> DEFINE n == Len(b.del_buf)
           b1 == [b EXCEPT !.del_buf = Append(@, x)]
           more == Append(b.del_buf, x)
<1>1. /\ DOMAIN more = 1..(n + 1) /\ DOMAIN b.del_buf = 1..n /\ n \in Nat
      /\ \A k \in 1..n : more[k] = b.del_buf[k]
      /\ more[n + 1] = x
  BY AppendProperties, LenProperties
<1>2. b1.data = b.data /\ b1.del_buf = more
  OBVIOUS
<1> HIDE DEF b1, n, more
<1>3. ASSUME NEW k \in DOMAIN b1.del_buf PROVE b1.del_buf[k] = x \/ (k \in DOMAIN b.del_buf /\ b1.del_buf[k] = b.del_buf[k])
  <2>1. k \in 1..(n + 1)
    BY <1>1, <1>2
  <2>2. k = n + 1 \/ k \in 1..n
    BY <1>1, <2>1
  <2> QED
    BY <1>1, <1>2, <2>2
<1>4. Dated(b1)
  BY <1>2, <1>3 DEF Dated
<1>5. ASSUME NEW t, Precedes(b, t), x.url_id = t.url => x.stamp <= t.stamp PROVE Precedes(b1, t)
  BY <1>2, <1>3, <1>5 DEF Precedes
<1> QED
  BY <1>4, <1>5 DEF b1

LEMMA WordDated ==
    ASSUME NEW b, b.data \in Seq(Entries), b = [data |-> b.data, del_buf |-> b.del_buf],
           NEW x \in Entries, x.stamp <= now, Dated(b)
    PROVE  LET b1 == [b EXCEPT !.data = Append(@, x)] IN
           /\ Dated(b1)
           /\ \A t : Precedes(b, t) /\ (x.url_id = t.url => x.stamp <= t.stamp /\ t.pc # "mark") => Precedes(b1, t)
<1> DEFINE n == Len(b.data)
           b1 == [b EXCEPT !.data = Append(@, x)]
           more == Append(b.data, x)
<1>1. /\ DOMAIN more = 1..(n + 1) /\ DOMAIN b.data = 1..n /\ n \in Nat
      /\ \A k \in 1..n : more[k] = b.data[k]
      /\ more[n + 1] = x
  BY AppendProperties, LenProperties
<1>2. b1.del_buf = b.del_buf /\ b1.data = more
  OBVIOUS
<1> HIDE DEF b1, n, more
<1>3. ASSUME NEW k \in DOMAIN b1.data PROVE b1.data[k] = x \/ (k \in DOMAIN b.data /\ b1.data[k] = b.data[k])
  <2>1. k \in 1..(n + 1)
    BY <1>1, <1>2
  <2>2. k = n + 1 \/ k \in 1..n
    BY <1>1, <2>1
  <2> QED
    BY <1>1, <1>2, <2>2
<1>4. Dated(b1)
  BY <1>2, <1>3 DEF Dated
<1>5. ASSUME NEW t, Precedes(b, t), x.url_id = t.url => x.stamp <= t.stamp /\ t.pc # "mark" PROVE Precedes(b1, t)
  BY <1>2, <1>3, <1>5 DEF Precedes
<1> QED
  BY <1>4, <1>5 DEF b1

\* The command that a thread goes on with is no newer, and what comes to one
\* buffer does not concern the others.
LEMMA OneBufferDated ==
    ASSUME BuffersOK, StampsInv, NEW f \in Files, NEW b, wrd_buf' = [wrd_buf EXCEPT ![f] = b], now' = now,
           Dated(b),
           \A j \in Clients : Storing(j)' =>
               /\ Storing(j) /\ thread'[j].url = thread[j].url /\ thread'[j].stamp = thread[j].stamp
               /\ thread'[j].pc = "mark" => thread[j].pc = "mark"
               /\ Precedes(b, thread[j])
    PROVE  StampsInv'
<1>1. ASSUME NEW g \in Files PROVE wrd_buf'[g] = IF g = f THEN b ELSE wrd_buf[g]
  BY DEF BuffersOK
<1>2. ASSUME NEW g \in Files PROVE Dated(wrd_buf[g])'
  <2>1. CASE g = f
    BY <1>1, <2>1 DEF Dated
  <2>2. CASE g # f
    BY <1>1, <2>2 DEF Dated, StampsInv
  <2> QED
    BY <2>1, <2>2
<1>3. ASSUME NEW j \in Clients, Storing(j)', NEW g \in Files PROVE Precedes(wrd_buf[g], thread[j])'
  <2>1. Precedes(wrd_buf'[g], thread[j])
    BY <1>1, <1>3 DEF StampsInv
  <2> QED
    BY <1>3, <2>1 DEF Precedes
<1>4. ASSUME NEW j \in Clients, Storing(j)' PROVE thread'[j].stamp <= now'
  BY <1>4 DEF StampsInv
<1> QED
  BY <1>2, <1>3, <1>4 DEF StampsInv

\* A command is newer than all that is in the buffers.
LEMMA CommandStamps ==
    ASSUME BuffersOK, ControlOK, InOrderOK(base), StampsInv, NEW i \in Clients, NEW u, NEW d, NEW cmd, NEW pc, NEW step,
           Command(i, cmd, pc, u, d, step), UNCHANGED wrd_buf
    PROVE  StampsInv'
<1>1. now \in Nat /\ now' = now + 1
  BY CachedAssumption DEF ControlOK, Command
<1>2. ASSUME NEW f \in Files, NEW k \in DOMAIN wrd_buf[f].data
      PROVE  wrd_buf[f].data[k].stamp \in Int /\ wrd_buf[f].data[k].stamp < now'
  <2>1. wrd_buf[f].data[k] \in Entries
    BY Numbers, LenProperties, ElementOfSeq
  <2>2. wrd_buf[f].data[k].stamp \in Int
    BY <2>1 DEF Entries
  <2>3. wrd_buf[f].data[k].stamp <= now
    BY DEF StampsInv, Dated
  <2> QED
    BY <1>1, <2>2, <2>3
<1>3. ASSUME NEW f \in Files, NEW k \in DOMAIN wrd_buf[f].del_buf
      PROVE  wrd_buf[f].del_buf[k].stamp \in Int /\ wrd_buf[f].del_buf[k].stamp < now'
  <2>1. wrd_buf[f].del_buf[k].stamp \in Int
    BY Numbers, MarkerNumbers
  <2>2. wrd_buf[f].del_buf[k].stamp <= now
    BY DEF StampsInv, Dated
  <2> QED
    BY <1>1, <2>1, <2>2
<1>4. now' \in Int
  BY <1>1
<1>5. ASSUME NEW f \in Files PROVE Dated(wrd_buf[f])'
  BY <1>2, <1>3, <1>4, <1>5 DEF Dated
<1>6. /\ thread'[i].stamp = now'
      /\ \A j \in Clients \ {i} : thread'[j] = thread[j]
  BY DEF Command, ControlOK
<1>7. ASSUME NEW j \in Clients, Storing(j)', NEW f \in Files
      PROVE  Precedes(wrd_buf[f], thread[j])'
  <2>1. CASE j = i
    BY <1>2, <1>3, <1>4, <1>6, <2>1 DEF Precedes
  <2>2. CASE j # i
    <3>1. Storing(j) /\ thread'[j] = thread[j]
      BY <1>6, <1>7, <2>2 DEF Storing
    <3>2. thread[j].stamp \in Nat /\ thread[j].stamp <= now
      BY <3>1, CachedAssumption DEF ControlOK, StampsInv
    <3> QED
      BY <1>1, <3>1, <3>2 DEF StampsInv, Precedes
  <2> QED
    BY <2>1, <2>2
<1>8. ASSUME NEW j \in Clients, Storing(j)' PROVE thread'[j].stamp <= now'
  <2>1. CASE j = i
    BY <1>4, <1>6, <2>1
  <2>2. CASE j # i
    <3>1. Storing(j) /\ thread'[j] = thread[j]
      BY <1>6, <1>8, <2>2 DEF Storing
    <3>2. thread[j].stamp \in Nat /\ thread[j].stamp <= now
      BY <3>1, CachedAssumption DEF ControlOK, StampsInv
    <3> QED
      BY <1>1, <3>1, <3>2
  <2> QED
    BY <2>1, <2>2
<1> QED
  BY <1>5, <1>7, <1>8 DEF StampsInv
\* A thread that ends its command, or is gone, stores no more.
LEMMA ThreadEnds ==
    ASSUME ControlOK, NEW i \in Clients, Done(i) \/ Leave(i)
    PROVE  /\ ~Storing(i)'
           /\ \A j \in Clients \ {i} : thread'[j] = thread[j]
           /\ thread'[i].pc \in {"idle", "gone"}
<1>1. PICK t \in {Idle, Gone} : thread' = [thread EXCEPT ![i] = t]
  BY DEF Done, Leave
<1>2. thread'[i] = t /\ \A j \in Clients \ {i} : thread'[j] = thread[j]
  BY <1>1 DEF ControlOK
<1> QED
  BY <1>2 DEF Storing, Idle, Gone

LEMMA StampsLater ==
    ASSUME StampsInv, UNCHANGED <<wrd_buf, now>>, \A j \in Clients : Storing(j)' => Storing(j) /\ thread'[j] = thread[j]
    PROVE  StampsInv'
  BY DEF StampsInv, Dated, Precedes

LEMMA MarkStamps ==
    ASSUME BuffersOK, ControlOK, OneStore, InOrderOK(base), StampsInv, NEW i \in Clients, Mark(i)
    PROVE  StampsInv'
<1> DEFINE t == thread[i]
           f == t.at
           full == Len(wrd_buf[f].del_buf) = CacheLogDels
           b == Room(f, full)
           x == LogDel(t.stamp, t.url)
           b1 == [b EXCEPT !.del_buf = Append(@, x)]
<1>1. Storing(i) /\ f \in Files /\ wrd_buf' = [wrd_buf EXCEPT ![f] = b1] /\ now' = now
  BY DEF Mark, Storing, ControlOK
<1>2. t.url \in Int /\ t.stamp \in Int /\ t.stamp <= now
  BY <1>1, RecordsAreNumbers DEF ControlOK, StampsInv
<1>3. x \in Markers /\ x.stamp = t.stamp /\ x.url_id = t.url
  BY <1>2 DEF LogDel, Markers
<1> HIDE DEF full, x
<1>4. /\ b.del_buf \in Seq(Markers) /\ b = [data |-> b.data, del_buf |-> b.del_buf]
      /\ Dated(b) /\ \A j \in Clients : Storing(j) => Precedes(b, thread[j])
  BY <1>1, RoomNumbers, RoomDated
<1> HIDE DEF b
<1>5. /\ Dated(b1)
      /\ \A s : Precedes(b, s) /\ (x.url_id = s.url => x.stamp <= s.stamp) => Precedes(b1, s)
  BY <1>2, <1>3, <1>4, MarkDated
<1> HIDE DEF b1
<1>6. ASSUME NEW j \in Clients, Storing(j) PROVE Precedes(b1, thread[j])
  <2>1. x.url_id = thread[j].url => j = i
    BY <1>1, <1>3, <1>6 DEF OneStore
  <2>2. t.stamp <= t.stamp
    BY <1>2
  <2> QED
    BY <1>3, <1>4, <1>5, <1>6, <2>1, <2>2
<1> QED
  BY <1>1, <1>5, <1>6, ThreadGoesOn, OneBufferDated

LEMMA WordStamps ==
    ASSUME BuffersOK, ControlOK, OneStore, InOrderOK(base), StampsInv, NEW i \in Clients, AddWord(i)
    PROVE  StampsInv'
<1> DEFINE t == thread[i]
           v == Head(t.words)[1]
           c == Head(t.words)[2]
           f == FileOf[v]
           full == Len(wrd_buf[f].data) = CacheLogWords
           b == Room(f, full)
           x == LogWord(t.stamp, t.url, v, c)
           b1 == [b EXCEPT !.data = Append(@, x)]
<1>1. Storing(i) /\ t.pc = "words" /\ wrd_buf' = [wrd_buf EXCEPT ![f] = b1] /\ now' = now
  BY DEF AddWord, Storing
<1>2. v \in Words /\ c \in Nat
  <2>1. t.words \in Seq(Words \X Nat) /\ t.words # <<>>
    BY DEF AddWord, ControlOK, Threads
  <2>2. Head(t.words) \in Words \X Nat
    BY <2>1
  <2> QED
    BY <2>2
<1> HIDE DEF v, c
<1>3. v \in Int /\ f \in Files /\ c \in Int
  BY <1>2, Numbers
<1>4. t.url \in Int /\ t.stamp \in Int /\ t.stamp <= now
  BY <1>1, RecordsAreNumbers DEF ControlOK, StampsInv
<1>5. x \in Entries /\ x.stamp = t.stamp /\ x.url_id = t.url
  BY <1>3, <1>4 DEF LogWord, Entries
<1> HIDE DEF full, x, f
<1>6. /\ b.data \in Seq(Entries) /\ b = [data |-> b.data, del_buf |-> b.del_buf]
      /\ Dated(b) /\ \A j \in Clients : Storing(j) => Precedes(b, thread[j])
  BY <1>3, RoomNumbers, RoomDated
<1> HIDE DEF b
<1>7. /\ Dated(b1)
      /\ \A s : Precedes(b, s) /\ (x.url_id = s.url => x.stamp <= s.stamp /\ s.pc # "mark") => Precedes(b1, s)
  BY <1>4, <1>5, <1>6, WordDated
<1> HIDE DEF b1
<1>8. ASSUME NEW j \in Clients, Storing(j) PROVE Precedes(b1, thread[j])
  <2>1. x.url_id = thread[j].url => j = i
    BY <1>1, <1>5, <1>8 DEF OneStore
  <2>2. t.stamp <= t.stamp
    BY <1>4
  <2> QED
    BY <1>1, <1>5, <1>6, <1>7, <1>8, <2>1, <2>2
<1> QED
  BY <1>1, <1>3, <1>7, <1>8, ThreadGoesOn, OneBufferDated

\* With files that can be written, and a table that is updated, these are the
\* steps that the buffers, the records and the threads take.
LEMMA FaultlessSteps ==
    ASSUME Env = {}, Next
    PROVE  \/ \E i \in Clients : \/ Index(i) \/ Delete(i) \/ URLInfo(i) \/ SaveStatus(i) \/ Forget(i)
                                 \/ Mark(i) \/ AddWord(i) \/ Done(i) \/ Leave(i)
           \/ \E f \in Files : Flush(f)
           \/ Stop \/ Exit
<1>1. ~ExitFails /\ \A f : ~FlushFails(f)
  BY DEF FlushFails, ExitFails
<1>2. \A i : ~SaveFails(i) /\ ~StatusUnsaved(i)
  BY DEF SaveFails, StatusUnsaved
<1> QED
  BY <1>1, <1>2 DEF Next

LEMMA StampsKept ==
    ASSUME Env = {}, BuffersOK, ControlOK, OneStore, InOrderOK(base), StampsInv, [Next]_vars
    PROVE  StampsInv'
<1>1. CASE UNCHANGED <<wrd_buf, thread, now>>
  BY <1>1, StampsLater DEF Storing
<1>2. ASSUME NEW i \in Clients, Index(i) \/ Delete(i)
      PROVE  StampsInv'
  <2>1. UNCHANGED wrd_buf /\ \E cmd, pc, u, d, step : Command(i, cmd, pc, u, d, step)
    BY <1>2 DEF Index, Delete
  <2> QED
    BY <2>1, CommandStamps
<1>3. ASSUME NEW i \in Clients, URLInfo(i) \/ SaveStatus(i) \/ Forget(i)
      PROVE  UNCHANGED <<wrd_buf, thread, now>>
  BY <1>3 DEF URLInfo, SaveStatus, Forget
<1>4. ASSUME NEW i \in Clients, Mark(i) \/ AddWord(i)
      PROVE  StampsInv'
  BY <1>4, MarkStamps, WordStamps
<1>5. ASSUME NEW i \in Clients, Done(i) \/ Leave(i)
      PROVE  StampsInv'
  <2>1. UNCHANGED <<wrd_buf, now>>
    BY <1>5 DEF Done, Leave
  <2>2. \A j \in Clients : Storing(j)' => Storing(j) /\ thread'[j] = thread[j]
    BY <1>5, ThreadEnds DEF Storing
  <2> QED
    BY <2>1, <2>2, StampsLater
<1>6. ASSUME NEW f \in Files, Flush(f)
      PROVE  StampsInv'
  <2>1. wrd_buf' = [wrd_buf EXCEPT ![f] = Empty] /\ UNCHANGED <<thread, now>>
    BY <1>6 DEF Flush
  <2>2. \A j \in Clients : Storing(j)' <=> Storing(j)
    BY <2>1 DEF Storing
  <2> QED
    BY <2>1, <2>2, EmptyDated, OneBufferDated
<1>7. CASE Exit
  <2>1. (\A f \in Files : wrd_buf'[f] = Empty) /\ UNCHANGED <<thread, now>>
    BY <1>7 DEF Exit
  <2> QED
    BY <2>1 DEF StampsInv, Storing, Dated, Precedes, Empty
<1>8. ASSUME Stop
      PROVE  UNCHANGED <<wrd_buf, thread, now>>
  BY <1>8 DEF Stop
<1> QED
  BY <1>1, <1>2, <1>3, <1>4, <1>5, <1>6, <1>7, <1>8, FaultlessSteps DEF vars
-----------------------------------------------------------------------------
(* What a thread still has to do, and what is there when none has. *)

\* The postings of w that the last command for u said.
Said(u, w) == IF wanted[u] = None THEN {} ELSE Of(u, wanted[u], w)

\* A thread that leaves its markers has the whole content before it, and
\* nothing of the url is left in the files it has been to; one that adds words
\* has what is not there yet.
Marking(t) ==
    \A w \in Words : Of(t.url, t.words, w) = Said(t.url, w) /\ (FileOf[w] < t.at => Has(w, t.url) = {})
Adding(t) ==
    \A w \in Words : /\ Of(t.url, t.words, w) \cup Has(w, t.url) = Said(t.url, w)
                     /\ Of(t.url, t.words, w) \cap Has(w, t.url) = {}
Duty(t) ==
    /\ t.cmd = "DELETE" <=> wanted[t.url] = None
    /\ IsInjective(t.words)
    /\ t.pc = "mark" => Marking(t)
    /\ t.pc = "words" => Adding(t)

StoringInv == \A i \in Clients : Storing(i) => Duty(thread[i])

\* With no thread storing for it a url has what the last command said.
Idling(u) == \A i \in Clients : Storing(i) => thread[i].url # u
RestInv == \A u \in Urls : Idling(u) => \A w \in Words : Has(w, u) = Said(u, w)

\* What is there of the other urls, and was said of them, is as it was.
Apart(u) ==
    \A v \in Urls \ {u} : wanted'[v] = wanted[v] /\ \A w \in Words : Has(w, v)' = Has(w, v)

LEMMA DutyApart ==
    ASSUME NEW t, NEW u, Apart(u), t.url \in Urls \ {u}, Duty(t)
    PROVE  /\ t.cmd = "DELETE" <=> wanted'[t.url] = None
           /\ IsInjective(t.words)
           /\ t.pc = "mark" => \A w \in Words : /\ Of(t.url, t.words, w) = Said(t.url, w)'
                                                /\ FileOf[w] < t.at => Has(w, t.url)' = {}
           /\ t.pc = "words" => \A w \in Words : /\ Of(t.url, t.words, w) \cup Has(w, t.url)' = Said(t.url, w)'
                                                 /\ Of(t.url, t.words, w) \cap Has(w, t.url)' = {}
<1>1. wanted'[t.url] = wanted[t.url] /\ \A w \in Words : Has(w, t.url)' = Has(w, t.url)
  BY DEF Apart
<1>2. \A w : Said(t.url, w)' = Said(t.url, w)
  BY <1>1 DEF Said
<1> QED
  BY <1>1, <1>2 DEF Duty, Marking, Adding

\* A step of one thread, for its url.
LEMMA OneDuty ==
    ASSUME ControlOK, OneStore, StoringInv, RestInv, NEW i \in Clients, NEW u, Apart(u),
           Storing(i) => thread[i].url = u,
           \A j \in Clients \ {i} : thread'[j] = thread[j] /\ (Storing(j) => thread[j].url # u),
           Storing(i)' => thread'[i].url = u /\ Duty(thread[i])',
           ~Storing(i)' /\ u \in Urls => \A w \in Words : Has(w, u)' = Said(u, w)'
    PROVE  (StoringInv /\ RestInv)'
<1>1. \A j \in Clients \ {i} : Storing(j)' <=> Storing(j)
  BY DEF Storing
<1>2. ASSUME NEW j \in Clients \ {i}, Storing(j) PROVE Duty(thread[j])'
  <2>1. thread[j].url \in Urls \ {u} /\ Duty(thread[j])
    BY <1>2 DEF ControlOK, StoringInv
  <2>2. thread'[j] = thread[j]
    OBVIOUS
  <2> QED
    BY <2>1, <2>2, DutyApart DEF Duty, Marking, Adding, Has, Content, Buf, Said
<1>3. ASSUME NEW v \in Urls, Idling(v)', NEW w \in Words PROVE Has(w, v)' = Said(v, w)'
  <2>1. CASE v = u
    BY <1>3, <2>1 DEF Idling
  <2>2. CASE v # u
    <3>1. Idling(v)
      BY <1>1, <1>3, <2>2 DEF Idling
    <3>2. Has(w, v) = Said(v, w)
      BY <3>1 DEF RestInv
    <3> QED
      BY <2>2, <3>2 DEF Apart, Said
  <2> QED
    BY <2>1, <2>2
<1> QED
  BY <1>1, <1>2, <1>3 DEF StoringInv, RestInv
\* A command for a url that no thread stores for: what its thread has to do
\* is what the command said.
LEMMA CommandDuty ==
    ASSUME TurnsInv, ContentOK, StoringInv, RestInv,
           NEW i \in Clients, NEW u \in Urls, NEW c, NEW d, NEW cmd, NEW pc \in {"mark", "words"}, NEW step,
           Free(u), status[u] # "deleted", CanSend(i), Command(i, cmd, pc, u, d, step),
           UNCHANGED <<wrd_buf, base>>, wanted' = [wanted EXCEPT ![u] = c],
           cmd = "DELETE" <=> c = None, IsInjective(d), d = IF c = None THEN <<>> ELSE c,
           pc = "words" => wanted[u] = None
    PROVE  (StoringInv /\ RestInv)'
<1> USE DEF TurnsInv
<1>1. \A j \in Clients : Storing(j) => thread[j].url # u
  BY DEF Free, Turns
<1>2. \A w : Content(w)' = Content(w)
  BY DEF Content, Buf
<1>3. \A w, v : Has(w, v)' = Has(w, v)
  BY <1>2 DEF Has
<1>4. wanted'[u] = c /\ \A v \in Urls \ {u} : wanted'[v] = wanted[v]
  BY DEF ContentOK
<1>5. Apart(u)
  BY <1>3, <1>4 DEF Apart
<1>6. /\ thread'[i] = [pc |-> pc, cmd |-> cmd, url |-> u, stamp |-> now', at |-> 1, words |-> d]
      /\ \A j \in Clients \ {i} : thread'[j] = thread[j]
  BY DEF Command, ControlOK
<1>7. ASSUME NEW w PROVE Of(u, d, w) = Said(u, w)'
  <2>1. CASE c = None
    <3>1. d = <<>>
      BY <2>1
    <3>2. ToSet(d) = {}
      BY <3>1 DEF ToSet
    <3>3. Of(u, d, w) = {}
      BY <3>2 DEF Of
    <3> QED
      BY <1>4, <2>1, <3>3 DEF Said
  <2>2. CASE c # None
    BY <1>4, <2>2 DEF Said
  <2> QED
    BY <2>1, <2>2
<1>8. pc = "mark" => Marking(thread[i])'
  <2>1. \A w \in Words : ~(FileOf[w] < 1)
    BY CachedAssumption
  <2> QED
    BY <1>6, <1>7, <2>1 DEF Marking
<1>9. pc = "words" => Adding(thread[i])'
  <2> SUFFICES ASSUME pc = "words", NEW w \in Words PROVE Has(w, u)' = {}
    BY <1>6, <1>7 DEF Adding
  <2>1. Has(w, u) = Said(u, w)
    BY <1>1 DEF RestInv, Idling
  <2> QED
    BY <1>3, <2>1 DEF Said
<1>10. thread'[i].url = u /\ Duty(thread[i])'
  BY <1>4, <1>6, <1>8, <1>9 DEF Duty
<1>11. ~Storing(i) /\ Storing(i)'
  BY <1>6 DEF Storing, CanSend
<1> QED
  BY <1>1, <1>5, <1>6, <1>10, <1>11, OneDuty

\* The marker leaves nothing of the url in its file.
LEMMA MarkDuty ==
    ASSUME TurnsInv, BuffersOK, InOrderOK(base), OnceInv, StampsInv, StoringInv, RestInv, Intact,
           NEW i \in Clients, Mark(i), NEW u, u = thread[i].url, NEW f, f = thread[i].at
    PROVE  (OnceInv /\ StoringInv /\ RestInv)'
<1> USE DEF TurnsInv
<1> DEFINE t == thread[i]
<1>1. /\ OnceInv'
      /\ \A w \in Words : Content(w)' = IF FileOf[w] = f THEN {x \in Content(w) : x.url_id # u} ELSE Content(w)
  BY MarkEffect
<1>2. Storing(i) /\ t.pc = "mark" /\ Duty(t) /\ u \in Urls /\ f \in Files
  BY DEF Mark, Storing, StoringInv, ControlOK
<1>3. wanted' = wanted
  BY DEF Mark
<1>4. \A v, w : Said(v, w)' = Said(v, w)
  BY <1>3 DEF Said
<1>5. ASSUME NEW w \in Words, NEW v, v # u PROVE Has(w, v)' = Has(w, v)
  <2>1. \A x : x \in Has(w, v)' <=> x \in Has(w, v)
    BY <1>1, <1>5 DEF Has
  <2> QED
    BY <2>1
<1>6. ASSUME NEW w \in Words PROVE Has(w, u)' = IF FileOf[w] = f THEN {} ELSE Has(w, u)
  BY <1>1 DEF Has
<1>7. Apart(u)
  BY <1>3, <1>5 DEF Apart
<1>8. thread \in [Clients -> Threads] /\ t \in Threads
  BY DEF ControlOK
<1>9. \A j \in Clients \ {i} : thread'[j] = thread[j] /\ (Storing(j) => thread[j].url # u)
  <2>1. \A j \in Clients \ {i} : thread'[j] = thread[j]
    BY ThreadGoesOn
  <2> QED
    BY <1>2, <2>1 DEF OneStore
<1>10. ASSUME NEW t1, thread'[i] = t1, t1.url = u, t1.cmd = t.cmd, t1.words = t.words,
              \/ t1.pc = "mark" /\ t1.at = f + 1
              \/ t1.pc = "words" /\ f = WrdFiles
       PROVE  Duty(thread[i])'
  <2>1. \A w \in Words : Of(u, t.words, w) = Said(u, w) /\ (FileOf[w] < f => Has(w, u) = {})
    BY <1>2 DEF Duty, Marking
  <2>2. \A w \in Words : FileOf[w] \in 1..WrdFiles
    BY CachedAssumption
  <2>3. WrdFiles \in Nat /\ f \in 1..WrdFiles
    BY <1>2, CachedAssumption DEF Files
  <2> HIDE DEF t
  <2>4. ASSUME NEW w \in Words, FileOf[w] < f + 1 PROVE Has(w, u)' = {}
    <3>1. FileOf[w] < f \/ FileOf[w] = f
      BY <2>2, <2>3, <2>4
    <3> QED
      BY <1>6, <2>1, <3>1
  <2>5. t1.pc = "mark" => Marking(thread[i])'
    BY <1>4, <1>10, <2>1, <2>4 DEF Marking
  <2>6. t1.pc = "words" => Adding(thread[i])'
    <3> SUFFICES ASSUME t1.pc = "words", NEW w \in Words
                 PROVE  Of(u, t.words, w) = Said(u, w)' /\ Has(w, u)' = {}
      BY <1>10 DEF Adding
    <3>1. FileOf[w] < f + 1
      BY <1>10, <2>2, <2>3
    <3> QED
      BY <1>4, <2>1, <2>4, <3>1
  <2>7. IsInjective(t1.words) /\ (t1.cmd = "DELETE" <=> wanted'[u] = None)
    BY <1>2, <1>3, <1>10 DEF Duty, t
  <2> QED
    BY <1>10, <2>5, <2>6, <2>7 DEF Duty
<1>11. Duty(thread[i])' /\ thread'[i].url = u
  <2> DEFINE t1 == IF t.at < WrdFiles THEN [t EXCEPT !.at = @ + 1] ELSE [t EXCEPT !.pc = "words"]
  <2>1. thread' = [thread EXCEPT ![i] = t1]
    BY DEF Mark
  <2>2. thread'[i] = t1
    BY <1>8, <2>1
  <2>3. t = [pc |-> t.pc, cmd |-> t.cmd, url |-> t.url, stamp |-> t.stamp, at |-> t.at, words |-> t.words]
    BY <1>8 DEF Threads
  <2>4. WrdFiles \in Nat /\ f \in 1..WrdFiles
    BY <1>2, CachedAssumption DEF Files
  <2>5. t1.url = u /\ t1.cmd = t.cmd /\ t1.words = t.words
    BY <2>3
  <2>6. CASE f < WrdFiles
    <3>1. t1.pc = "mark" /\ t1.at = f + 1
      BY <1>2, <2>3, <2>6
    <3> HIDE DEF t1
    <3> QED
      BY <1>10, <2>2, <2>5, <3>1
  <2>7. CASE ~(f < WrdFiles)
    <3>1. t1.pc = "words" /\ f = WrdFiles
      BY <2>3, <2>4, <2>7
    <3> HIDE DEF t1
    <3> QED
      BY <1>10, <2>2, <2>5, <3>1
  <2> QED
    BY <2>6, <2>7
<1>12. Storing(i)'
  BY <1>2, ThreadGoesOn
<1> QED
  BY <1>1, <1>2, <1>7, <1>9, <1>11, <1>12, OneDuty
\* A word that is added is one less to add.
LEMMA WordDuty ==
    ASSUME TurnsInv, BuffersOK, InOrderOK(base), OnceInv, StampsInv, StoringInv, RestInv, Intact,
           NEW i \in Clients, AddWord(i), NEW u, u = thread[i].url
    PROVE  (OnceInv /\ StoringInv /\ RestInv)'
<1> USE DEF TurnsInv
<1> DEFINE t == thread[i]
<1>1. PICK v, c : v = Head(t.words)[1] /\ c = Head(t.words)[2]
  OBVIOUS
<1>2. Storing(i) /\ t.pc = "words" /\ Duty(t) /\ u \in Urls
  BY DEF AddWord, Storing, StoringInv, ControlOK
<1>3. t.words \in Seq(Words \X Nat) /\ t.words # <<>> /\ IsInjective(t.words)
  BY <1>2 DEF AddWord, ControlOK, Threads, Duty
<1>4. v \in Words
  <2>1. Head(t.words) \in Words \X Nat
    BY <1>3
  <2> QED
    BY <1>1, <2>1
<1>5. /\ \A w : Of(u, t.words, w) = Of(u, Tail(t.words), w) \cup (IF w = v THEN {Crd(u, c)} ELSE {})
      /\ Crd(u, c) \notin Of(u, Tail(t.words), v)
  <2> DEFINE words == t.words
  <2>1. words \in Seq(Words \X Nat) /\ words # <<>> /\ IsInjective(words) /\ v = Head(words)[1] /\ c = Head(words)[2]
    BY <1>1, <1>3
  <2> HIDE DEF words
  <2>2. /\ \A w : Of(u, words, w) = Of(u, Tail(words), w) \cup (IF w = v THEN {Crd(u, c)} ELSE {})
        /\ Crd(u, c) \notin Of(u, Tail(words), v)
    <3>1. PICK R : words \in Seq(R) /\ \A y \in R : y = <<y[1], y[2]>>
      BY <2>1
    <3> QED
      BY <2>1, <3>1, OfTail
  <2> QED
    BY <2>2 DEF words
<1>6. \A w \in Words : /\ Of(u, t.words, w) \cup Has(w, u) = Said(u, w)
                       /\ Of(u, t.words, w) \cap Has(w, u) = {}
  BY <1>2 DEF Duty, Adding
<1>7. Crd(u, c) \notin Content(v)
  <2>1. Crd(u, c) \in Of(u, t.words, v)
    BY <1>5
  <2>2. Crd(u, c).url_id = u
    BY DEF Crd
  <2> QED
    BY <1>4, <1>6, <2>1, <2>2 DEF Has
<1>8. /\ OnceInv'
      /\ \A w \in Words : Content(w)' = Content(w) \cup (IF w = v THEN {Crd(u, c)} ELSE {})
  <2>1. Crd(thread[i].url, c) \notin Content(v)
    BY <1>7
  <2> QED
    BY <1>1, <2>1, WordEffect
<1>9. wanted' = wanted
  BY DEF AddWord
<1>10. \A x, w : Said(x, w)' = Said(x, w)
  BY <1>9 DEF Said
<1>11. Crd(u, c).url_id = u
  BY DEF Crd
<1>12. ASSUME NEW w \in Words, NEW x PROVE Has(w, x)' = Has(w, x) \cup (IF w = v /\ x = u THEN {Crd(u, c)} ELSE {})
  <2>1. \A y : y \in Has(w, x)' <=> y \in Has(w, x) \/ (w = v /\ x = u /\ y = Crd(u, c))
    BY <1>8, <1>11 DEF Has
  <2> QED
    BY <2>1
<1>13. Apart(u)
  <2>1. ASSUME NEW w \in Words, NEW x, x # u PROVE Has(w, x)' = Has(w, x)
    <3>1. Has(w, x)' = Has(w, x) \cup {}
      BY <1>12, <2>1
    <3> QED
      BY <3>1
  <2> QED
    BY <1>9, <2>1 DEF Apart
<1>14. \A j \in Clients \ {i} : thread'[j] = thread[j] /\ (Storing(j) => thread[j].url # u)
  <2>1. \A j \in Clients \ {i} : thread'[j] = thread[j]
    BY ThreadGoesOn
  <2> QED
    BY <1>2, <2>1 DEF OneStore
<1>15. thread'[i] = [t EXCEPT !.words = Tail(t.words)] /\ t \in Threads
  BY DEF AddWord, ControlOK
<1>16. /\ thread'[i].url = u /\ thread'[i].pc = "words" /\ thread'[i].cmd = t.cmd
       /\ thread'[i].words = Tail(t.words)
  BY <1>2, <1>15 DEF Threads
<1>17. Adding(thread[i])'
  <2> SUFFICES ASSUME NEW w \in Words
               PROVE  /\ Of(u, Tail(t.words), w) \cup Has(w, u)' = Said(u, w)'
                      /\ Of(u, Tail(t.words), w) \cap Has(w, u)' = {}
    BY <1>16 DEF Adding
  <2> HIDE DEF t
  <2>1. CASE w = v
    BY <1>5, <1>6, <1>10, <1>12, <2>1
  <2>2. CASE w # v
    BY <1>5, <1>6, <1>10, <1>12, <2>2
  <2> QED
    BY <2>1, <2>2
<1>18. Duty(thread[i])'
  <2>1. IsInjective(Tail(t.words))
    BY <1>3, HeadAway
  <2>2. t.cmd = "DELETE" <=> wanted'[u] = None
    BY <1>2, <1>9 DEF Duty
  <2> QED
    BY <1>16, <1>17, <2>1, <2>2 DEF Duty
<1>19. Storing(i)'
  BY <1>2, ThreadGoesOn
<1> QED
  BY <1>2, <1>8, <1>13, <1>14, <1>16, <1>18, <1>19, OneDuty
\* A command that is done has left what it said.
LEMMA DoneDuty ==
    ASSUME TurnsInv, OnceInv, StoringInv, RestInv, NEW i \in Clients, Done(i), NEW u, u = thread[i].url
    PROVE  (OnceInv /\ StoringInv /\ RestInv)'
<1> USE DEF TurnsInv
<1>1. UNCHANGED <<wrd_buf, base, wanted>> /\ thread[i].pc = "words" /\ thread[i].words = <<>>
  BY DEF Done
<1>2. Storing(i) /\ Duty(thread[i]) /\ u \in Urls
  BY <1>1 DEF Storing, StoringInv, ControlOK
<1>3. \A w : Content(w)' = Content(w)
  BY <1>1 DEF Content, Buf
<1>4. \A w, v : Has(w, v)' = Has(w, v) /\ Said(v, w)' = Said(v, w)
  BY <1>1, <1>3 DEF Has, Said
<1>5. ASSUME NEW w \in Words PROVE Has(w, u)' = Said(u, w)'
  <2>1. ToSet(thread[i].words) = {}
    BY <1>1 DEF ToSet
  <2>2. Of(u, thread[i].words, w) = {}
    BY <2>1 DEF Of
  <2> QED
    BY <1>1, <1>2, <1>4, <2>2 DEF Duty, Adding
<1>6. Apart(u)
  BY <1>1, <1>4 DEF Apart
<1>7. \A j \in Clients \ {i} : thread'[j] = thread[j] /\ (Storing(j) => thread[j].url # u)
  BY <1>2, ThreadEnds DEF OneStore
<1>8. ~Storing(i)'
  BY ThreadEnds
<1>9. OnceInv'
  BY <1>1 DEF OnceInv, Buf
<1> QED
  BY <1>5, <1>6, <1>7, <1>8, <1>9, OneDuty

\* Nobody's duty changes where no content does.
LEMMA SameDuty ==
    ASSUME StoringInv, RestInv, \A w \in Words : Content(w)' = Content(w), UNCHANGED wanted,
           \A j \in Clients : /\ Storing(j)' <=> Storing(j)
                              /\ Storing(j) => thread'[j] = thread[j]
    PROVE  (StoringInv /\ RestInv)'
<1>1. \A w \in Words : \A v : Has(w, v)' = Has(w, v)
  BY DEF Has
<1>2. \A v, w : Said(v, w)' = Said(v, w)
  BY DEF Said
<1>3. ASSUME NEW j \in Clients, Storing(j)' PROVE Duty(thread[j])'
  <2>1. thread'[j] = thread[j] /\ Duty(thread[j])
    BY <1>3 DEF StoringInv
  <2> DEFINE t == thread[j]
  <2>2. t.pc = "mark" => \A w \in Words : /\ Of(t.url, t.words, w) = Said(t.url, w)
                                          /\ FileOf[w] < t.at => Has(w, t.url) = {}
    BY <2>1 DEF Duty, Marking
  <2>3. t.pc = "words" => \A w \in Words : /\ Of(t.url, t.words, w) \cup Has(w, t.url) = Said(t.url, w)
                                           /\ Of(t.url, t.words, w) \cap Has(w, t.url) = {}
    BY <2>1 DEF Duty, Adding
  <2>4. t.pc = "mark" => Marking(thread[j])'
    BY <1>1, <1>2, <2>1, <2>2 DEF Marking
  <2>5. t.pc = "words" => Adding(thread[j])'
    BY <1>1, <1>2, <2>1, <2>3 DEF Adding
  <2> QED
    BY <2>1, <2>4, <2>5 DEF Duty
<1>4. ASSUME NEW v \in Urls, Idling(v)', NEW w \in Words PROVE Has(w, v)' = Said(v, w)'
  <2>1. Idling(v)
    BY <1>4 DEF Idling
  <2> QED
    BY <1>1, <1>2, <2>1 DEF RestInv
<1> QED
  BY <1>3, <1>4 DEF StoringInv, RestInv

-----------------------------------------------------------------------------
(* What follows a command. *)

\* A url that was never indexed has no content; what an indexer adds the
\* information of has one; and a url has information if its content is not
\* deleted, but for what is to follow; no error has ended a thread.
NewInv == \A u \in Urls : status[u] = "new" /\ Free(u) => wanted[u] = None
ToAdd(u) == \E i \in Clients : indexer[i].step = "info" /\ indexer[i].url = u
ToRemove(u) == \E i \in Clients : Storing(i) /\ thread[i].cmd = "DELETE" /\ thread[i].url = u
InfoInv ==
    /\ \A i \in Clients : indexer[i].step = "info" => wanted[indexer[i].url] # None
    /\ \A u \in Urls : ToAdd(u) \/ ToRemove(u) \/ (u \in info <=> wanted[u] # None)
OpenInv == \A i \in Clients : thread[i].pc # "closed"
AnswersInv == NewInv /\ InfoInv /\ OpenInv

LEMMA CommandAnswers ==
    ASSUME TurnsInv, ContentOK, AnswersInv,
           NEW i \in Clients, NEW u \in Urls, NEW c, NEW d, NEW cmd, NEW pc \in {"mark", "words"}, NEW step,
           Free(u), CanSend(i), Command(i, cmd, pc, u, d, step), UNCHANGED <<info, status>>,
           wanted' = [wanted EXCEPT ![u] = c],
           \/ step = "info" /\ c # None
           \/ step # "info" /\ cmd = "DELETE"
    PROVE  AnswersInv'
<1> USE DEF TurnsInv, AnswersInv
<1>1. indexer[i].step = "next" /\ indexer[i].url = 0 /\ thread[i].pc = "idle" /\ ~Storing(i)
  BY DEF CanSend, Turns, Storing
<1>2. /\ indexer'[i] = [step |-> step, url |-> u]
      /\ thread'[i] = [pc |-> pc, cmd |-> cmd, url |-> u, stamp |-> now', at |-> 1, words |-> d]
      /\ \A j \in Clients \ {i} : indexer'[j] = indexer[j] /\ thread'[j] = thread[j]
  BY DEF Command, ControlOK
<1>3. wanted'[u] = c /\ \A v \in Urls \ {u} : wanted'[v] = wanted[v]
  BY DEF ContentOK
<1>4. OpenInv'
  BY <1>2 DEF OpenInv
<1>5. ASSUME NEW v \in Urls, status'[v] = "new", Free(v)' PROVE wanted'[v] = None
  <2>1. v # u /\ v # 0
    BY <1>2, <1>5, CachedAssumption DEF Free
  <2>2. Free(v)
    BY <1>1, <1>2, <1>5, <2>1 DEF Free
  <2> QED
    BY <1>3, <1>5, <2>1, <2>2 DEF NewInv
<1>6. ASSUME NEW j \in Clients, indexer'[j].step = "info" PROVE wanted'[indexer'[j].url] # None
  <2>1. CASE j = i
    BY <1>2, <1>3, <1>6, <2>1
  <2>2. CASE j # i
    <3>1. indexer'[j] = indexer[j] /\ indexer[j].url \in Urls \ {u}
      BY <1>2, <1>6, <2>2 DEF ControlOK, Free
    <3> QED
      BY <1>3, <1>6, <3>1 DEF InfoInv
  <2> QED
    BY <2>1, <2>2
<1>7. ASSUME NEW v \in Urls PROVE ToAdd(v)' \/ ToRemove(v)' \/ (v \in info' <=> wanted'[v] # None)
  <2>1. CASE v = u
    <3>1. CASE step = "info"
      BY <1>2, <2>1, <3>1 DEF ToAdd
    <3>2. CASE cmd = "DELETE"
      <4>1. Storing(i)' /\ thread'[i].cmd = "DELETE" /\ thread'[i].url = u
        BY <1>2, <3>2 DEF Storing
      <4> QED
        BY <2>1, <4>1 DEF ToRemove
    <3> QED
      BY <3>1, <3>2
  <2>2. CASE v # u
    <3>1. ToAdd(v) => ToAdd(v)'
      BY <1>1, <1>2 DEF ToAdd
    <3>2. ToRemove(v) => ToRemove(v)'
      BY <1>1, <1>2 DEF ToRemove, Storing
    <3> QED
      BY <1>3, <2>2, <3>1, <3>2 DEF InfoInv
  <2> QED
    BY <2>1, <2>2
<1> QED
  BY <1>4, <1>5, <1>6, <1>7 DEF NewInv, InfoInv

LEMMA InfoAnswers ==
    ASSUME Env = {}, TurnsInv, ContentOK, AnswersInv, NEW i \in Clients, URLInfo(i)
    PROVE  AnswersInv'
<1> USE DEF TurnsInv, AnswersInv
<1>1. /\ indexer[i].step = "info" /\ info' = info \cup {indexer[i].url} /\ indexer[i].url \in Urls
      /\ UNCHANGED <<thread, status, wanted>>
  BY DEF URLInfo, OpenInv, ControlOK
<1>2. /\ indexer'[i].step = "status" /\ indexer'[i].url = indexer[i].url
      /\ \A j \in Clients \ {i} : indexer'[j] = indexer[j]
  BY DEF URLInfo, ControlOK
<1>3. OpenInv'
  BY <1>1 DEF OpenInv
<1>4. NewInv'
  <2>1. \A v : Free(v)' => Free(v)
    BY <1>2 DEF Free
  <2> QED
    BY <1>1, <2>1 DEF NewInv
<1>5. \A j \in Clients : indexer'[j].step = "info" => wanted'[indexer'[j].url] # None
  BY <1>1, <1>2 DEF InfoInv
<1>6. ASSUME NEW v \in Urls PROVE ToAdd(v)' \/ ToRemove(v)' \/ (v \in info' <=> wanted'[v] # None)
  <2>1. CASE v = indexer[i].url
    BY <1>1, <2>1 DEF InfoInv
  <2>2. CASE v # indexer[i].url
    <3>1. ToAdd(v) => ToAdd(v)'
      BY <1>2, <2>2 DEF ToAdd
    <3>2. ToRemove(v) => ToRemove(v)'
      BY <1>1 DEF ToRemove, Storing
    <3> QED
      BY <1>1, <2>2, <3>1, <3>2 DEF InfoInv
  <2> QED
    BY <2>1, <2>2
<1> QED
  BY <1>3, <1>4, <1>5, <1>6 DEF InfoInv

LEMMA StatusAnswers ==
    ASSUME TurnsInv, AnswersInv, NEW i \in Clients, SaveStatus(i) \/ Forget(i)
    PROVE  AnswersInv'
<1> USE DEF TurnsInv, AnswersInv
<1>1. /\ indexer[i].step \notin {"next", "info"} /\ indexer[i].url \in Urls
      /\ UNCHANGED <<thread, wanted, info>>
  BY DEF SaveStatus, Forget, ControlOK
<1>2. /\ indexer'[i] = Rest
      /\ \A j \in Clients \ {i} : indexer'[j] = indexer[j]
  BY DEF SaveStatus, Forget, ControlOK
<1>3. /\ status'[indexer[i].url] # "new"
      /\ \A v \in Urls : v # indexer[i].url => status'[v] = status[v]
  BY <1>1 DEF SaveStatus, Forget, ControlOK
<1>4. OpenInv'
  BY <1>1 DEF OpenInv
<1>5. ASSUME NEW v \in Urls, status'[v] = "new", Free(v)' PROVE wanted'[v] = None
  <2>1. v # indexer[i].url
    BY <1>3, <1>5
  <2>2. Free(v)
    BY <1>2, <1>5, <2>1 DEF Free
  <2> QED
    BY <1>1, <1>3, <1>5, <2>1, <2>2 DEF NewInv
<1>6. \A j \in Clients : indexer'[j].step = "info" => wanted'[indexer'[j].url] # None
  BY <1>1, <1>2 DEF InfoInv, Rest
<1>7. ASSUME NEW v \in Urls PROVE ToAdd(v)' \/ ToRemove(v)' \/ (v \in info' <=> wanted'[v] # None)
  <2>1. ToAdd(v) => ToAdd(v)'
    BY <1>1, <1>2 DEF ToAdd
  <2>2. ToRemove(v) => ToRemove(v)'
    BY <1>1 DEF ToRemove, Storing
  <2> QED
    BY <1>1, <2>1, <2>2 DEF InfoInv
<1> QED
  BY <1>4, <1>5, <1>6, <1>7 DEF NewInv, InfoInv

LEMMA DoneAnswers ==
    ASSUME Env = {}, TurnsInv, AnswersInv, StoringInv, NEW i \in Clients, Done(i)
    PROVE  AnswersInv'
<1> USE DEF TurnsInv, AnswersInv
<1> DEFINE t == thread[i]
<1>1. /\ Storing(i) /\ UNCHANGED <<indexer, status, wanted>>
      /\ info' = IF t.cmd = "DELETE" THEN info \ {t.url} ELSE info
  BY DEF Done, Storing
<1>2. t.url \in Urls /\ (t.cmd = "DELETE" <=> wanted[t.url] = None)
  BY <1>1 DEF StoringInv, Duty, ControlOK
<1>3. /\ ~Storing(i)' /\ thread'[i].pc # "closed"
      /\ \A j \in Clients \ {i} : thread'[j] = thread[j]
  BY ThreadEnds
<1>4. OpenInv'
  BY <1>3 DEF OpenInv
<1>5. NewInv'
  BY <1>1 DEF NewInv, Free
<1>6. ASSUME NEW v \in Urls PROVE ToAdd(v)' \/ ToRemove(v)' \/ (v \in info' <=> wanted'[v] # None)
  <2>1. ToAdd(v) => ToAdd(v)'
    BY <1>1 DEF ToAdd
  <2>2. CASE t.cmd = "DELETE" /\ v = t.url
    BY <1>1, <1>2, <2>2
  <2>3. CASE ~(t.cmd = "DELETE" /\ v = t.url)
    <3>1. ToRemove(v) => ToRemove(v)'
      BY <1>3, <2>3 DEF ToRemove, Storing
    <3> QED
      BY <1>1, <2>1, <2>3, <3>1 DEF InfoInv
  <2> QED
    BY <2>2, <2>3
<1> QED
  BY <1>1, <1>4, <1>5, <1>6 DEF InfoInv

\* A thread that goes on, or leaves, and a flush answer nothing.
LEMMA OtherAnswers ==
    ASSUME AnswersInv, UNCHANGED <<info, indexer, status, wanted>>,
           \A j \in Clients : /\ Storing(j)' <=> Storing(j)
                              /\ Storing(j) => thread'[j].url = thread[j].url /\ thread'[j].cmd = thread[j].cmd
                              /\ thread'[j].pc # "closed"
    PROVE  AnswersInv'
<1>1. \A u : (ToAdd(u)' <=> ToAdd(u)) /\ (ToRemove(u)' <=> ToRemove(u))
  BY DEF ToAdd, ToRemove
<1> QED
  BY <1>1 DEF AnswersInv, NewInv, InfoInv, OpenInv, Free
-----------------------------------------------------------------------------
(* The index is what the last commands said. *)

FreshInv ==
    /\ TurnsInv /\ RecordsInv
    /\ OnceInv /\ StampsInv /\ StoringInv /\ RestInv /\ AnswersInv

\* A content gives no word twice at one place, and is not what stands for none.
Contents == None \notin Docs /\ \A d \in Docs : IsInjective(d)

LEMMA FreshInit == Init => FreshInv
<1> SUFFICES ASSUME Init PROVE FreshInv
  OBVIOUS
<1>1. TurnsInv
  BY TurnsInit
<1>2. RecordsInv
  BY RecordsInit
<1>3. ASSUME NEW w \in Words PROVE PostedOnce(base[w], Buf(w), w) /\ Content(w) = {}
  <2>1. base[w] = <<>> /\ Buf(w) = Empty
    BY CachedAssumption DEF Init, Buf, Files
  <2>2. ToSet(<<>>) = {} /\ IsInjective(<<>>)
    BY DEF ToSet, IsInjective
  <2> QED
    BY <2>1, <2>2, Emptied DEF Content
<1>4. OnceInv
  BY <1>3 DEF OnceInv
<1>5. \A i \in Clients : thread[i] = Idle /\ indexer[i] = Rest /\ ~Storing(i)
  BY DEF Init, Storing, Idle
<1>6. StampsInv
  BY <1>5, EmptyDated DEF Init, StampsInv
<1>7. StoringInv /\ RestInv
  BY <1>3, <1>5 DEF Init, StoringInv, RestInv, Has, Said
<1>8. AnswersInv
  BY <1>5 DEF Init, AnswersInv, NewInv, InfoInv, OpenInv, Idle, Rest
<1> QED
  BY <1>1, <1>2, <1>4, <1>6, <1>7, <1>8 DEF FreshInv

\* What a command does to the duties and to what is to follow.
LEMMA IndexFresh ==
    ASSUME Contents, FreshInv, NEW i \in Clients, Index(i)
    PROVE  (OnceInv /\ StoringInv /\ RestInv /\ AnswersInv)'
<1>1. PICK u \in Urls, d \in Docs :
         /\ Free(u) /\ status[u] # "deleted"
         /\ IF status[u] = "indexed" THEN Command(i, "WORD", "mark", u, d, "info")
                                     ELSE Command(i, "NEWORD", "words", u, d, "info")
         /\ wanted' = [wanted EXCEPT ![u] = d]
  BY DEF Index
<1>2. CanSend(i) /\ UNCHANGED <<wrd_buf, base, info, status>>
  BY DEF Index
<1>3. d # None /\ IsInjective(d) /\ d = IF d = None THEN <<>> ELSE d
  BY DEF Contents
<1>4. TurnsInv /\ ContentOK /\ StoringInv /\ RestInv /\ AnswersInv
  BY DEF FreshInv, RecordsInv
<1>5. status[u] # "indexed" => wanted[u] = None
  BY <1>1, <1>4 DEF TurnsInv, ControlOK, AnswersInv, NewInv
<1>6. PICK cmd \in {"WORD", "NEWORD"}, pc \in {"mark", "words"} :
         Command(i, cmd, pc, u, d, "info") /\ (pc = "words" => wanted[u] = None)
  BY <1>1, <1>5
<1>7. cmd = "DELETE" <=> d = None
  BY <1>3, <1>6
<1>8. (StoringInv /\ RestInv)'
  BY <1>1, <1>2, <1>3, <1>4, <1>6, <1>7, CommandDuty
<1>9. AnswersInv'
  BY <1>1, <1>2, <1>3, <1>4, <1>6, CommandAnswers
<1>10. OnceInv'
  BY <1>2 DEF FreshInv, OnceInv, Buf
<1> QED
  BY <1>8, <1>9, <1>10

LEMMA DeleteFresh ==
    ASSUME FreshInv, NEW i \in Clients, Delete(i)
    PROVE  (OnceInv /\ StoringInv /\ RestInv /\ AnswersInv)'
<1>1. PICK u \in Urls :
         /\ Free(u) /\ status[u] # "deleted"
         /\ Command(i, "DELETE", "mark", u, <<>>, "forget")
         /\ wanted' = [wanted EXCEPT ![u] = None]
  BY DEF Delete
<1>2. CanSend(i) /\ UNCHANGED <<wrd_buf, base, info, status>>
  BY DEF Delete
<1>3. IsInjective(<<>>) /\ <<>> = IF None = None THEN <<>> ELSE None
  BY DEF IsInjective
<1>4. TurnsInv /\ ContentOK /\ StoringInv /\ RestInv /\ AnswersInv
  BY DEF FreshInv, RecordsInv
<1>5. (StoringInv /\ RestInv)'
  BY <1>1, <1>2, <1>3, <1>4, CommandDuty
<1>6. AnswersInv'
  BY <1>1, <1>2, <1>4, CommandAnswers
<1>7. OnceInv'
  BY <1>2 DEF FreshInv, OnceInv, Buf
<1> QED
  BY <1>5, <1>6, <1>7

LEMMA StoreFresh ==
    ASSUME Env = {}, FreshInv, Intact, NEW i \in Clients, Mark(i) \/ AddWord(i) \/ Done(i)
    PROVE  (OnceInv /\ StoringInv /\ RestInv /\ AnswersInv)'
<1>1. /\ TurnsInv /\ BuffersOK /\ ControlOK /\ InOrderOK(base)
      /\ OnceInv /\ StampsInv /\ StoringInv /\ RestInv /\ AnswersInv
  BY DEF FreshInv, RecordsInv
<1>2. CASE Mark(i) \/ AddWord(i)
  <2>1. (OnceInv /\ StoringInv /\ RestInv)'
    BY <1>1, <1>2, MarkDuty, WordDuty
  <2>2. UNCHANGED <<info, indexer, status, wanted>>
    BY <1>2 DEF Mark, AddWord
  <2>3. ASSUME NEW j \in Clients PROVE thread'[j].pc # "closed"
    <3>1. CASE Storing(j)
      <4>1. Storing(j)'
        BY <1>1, <1>2, <3>1, ThreadGoesOn
      <4> QED
        BY <4>1 DEF Storing
    <3>2. CASE ~Storing(j)
      <4>1. thread'[j] = thread[j]
        BY <1>1, <1>2, <3>2, ThreadGoesOn
      <4> QED
        BY <1>1, <4>1 DEF AnswersInv, OpenInv
    <3> QED
      BY <3>1, <3>2
  <2>4. AnswersInv'
    BY <1>1, <1>2, <2>2, <2>3, ThreadGoesOn, OtherAnswers
  <2> QED
    BY <2>1, <2>4
<1>3. CASE Done(i)
  BY <1>1, <1>3, DoneDuty, DoneAnswers
<1> QED
  BY <1>2, <1>3

\* The steps that leave the threads with what they have to do.
LEMMA OtherFresh ==
    ASSUME FreshInv, Intact, UNCHANGED wanted,
           \A j \in Clients : /\ Storing(j)' <=> Storing(j)
                              /\ Storing(j) => thread'[j] = thread[j],
           UNCHANGED <<wrd_buf, base>> \/ (\E f \in Files : Flush(f)) \/ Exit
    PROVE  (OnceInv /\ StoringInv /\ RestInv)'
<1>1. BuffersOK /\ InOrderOK(base) /\ OnceInv /\ StoringInv /\ RestInv
  BY DEF FreshInv, RecordsInv
<1>2. OnceInv' /\ \A w \in Words : Content(w)' = Content(w)
  <2>1. CASE UNCHANGED <<wrd_buf, base>>
    BY <1>1, <2>1 DEF OnceInv, Content, Buf
  <2>2. CASE (\E f \in Files : Flush(f)) \/ Exit
    BY <1>1, <2>2, FlushEffect, ExitEffect
  <2> QED
    BY <2>1, <2>2
<1> QED
  BY <1>1, <1>2, SameDuty

LEMMA FreshKept ==
    ASSUME Env = {}, Contents, FreshInv, Intact, [Next]_vars
    PROVE  FreshInv'
<1>1. TurnsInv'
  BY ControlKept, TurnsKept DEF FreshInv, TurnsInv
<1>2. RecordsInv'
  BY RecordsStep DEF FreshInv
<1>3. StampsInv'
  BY StampsKept DEF FreshInv, TurnsInv, RecordsInv
<1>4. ControlOK /\ AnswersInv
  BY DEF FreshInv, TurnsInv
<1> DEFINE Goal == (OnceInv /\ StoringInv /\ RestInv /\ AnswersInv)'
           Same == \A j \in Clients : /\ Storing(j)' <=> Storing(j)
                                      /\ Storing(j) => thread'[j] = thread[j]
<1>5. ASSUME NEW i \in Clients, URLInfo(i) \/ SaveStatus(i) \/ Forget(i)
      PROVE  Goal
  <2>1. UNCHANGED <<wrd_buf, base, thread, wanted>>
    BY <1>5 DEF URLInfo, SaveStatus, Forget
  <2>2. Same
    BY <2>1 DEF Storing
  <2>3. AnswersInv'
    BY <1>5, InfoAnswers, StatusAnswers DEF FreshInv, RecordsInv
  <2> HIDE DEF Same
  <2>4. (OnceInv /\ StoringInv /\ RestInv)'
    BY <2>1, <2>2, OtherFresh DEF Same
  <2> QED
    BY <2>3, <2>4
<1>6. ASSUME UNCHANGED <<info, indexer, status, wanted, thread>>,
             UNCHANGED <<wrd_buf, base>> \/ (\E f \in Files : Flush(f)) \/ Exit
      PROVE  Goal
  <2>1. Same /\ \A j \in Clients : thread'[j].pc # "closed"
    BY <1>4, <1>6 DEF Storing, AnswersInv, OpenInv
  <2>2. AnswersInv'
    BY <1>4, <1>6, <2>1, OtherAnswers
  <2>3. (OnceInv /\ StoringInv /\ RestInv)'
    BY <1>6, <2>1, OtherFresh
  <2> QED
    BY <2>2, <2>3
<1>7. ASSUME NEW i \in Clients, Leave(i)
      PROVE  Goal
  <2>1. UNCHANGED <<wrd_buf, base, info, indexer, status, wanted>> /\ ~Storing(i)
    BY <1>7 DEF Leave, Storing
  <2>2. Same /\ \A j \in Clients : thread'[j].pc # "closed"
    <3>1. /\ ~Storing(i)' /\ thread'[i].pc # "closed"
          /\ \A j \in Clients \ {i} : thread'[j] = thread[j]
      BY <1>4, <1>7, ThreadEnds
    <3> QED
      BY <1>4, <2>1, <3>1 DEF Storing, AnswersInv, OpenInv
  <2>3. AnswersInv'
    BY <1>4, <2>1, <2>2, OtherAnswers
  <2>4. (OnceInv /\ StoringInv /\ RestInv)'
    BY <2>1, <2>2, OtherFresh
  <2> QED
    BY <2>3, <2>4
<1>8. ASSUME NEW i \in Clients, Index(i) \/ Delete(i) \/ Mark(i) \/ AddWord(i) \/ Done(i)
      PROVE  Goal
  BY <1>8, IndexFresh, DeleteFresh, StoreFresh
<1>9. ASSUME (\E f \in Files : Flush(f)) \/ Stop \/ Exit
      PROVE  Goal
  <2>1. UNCHANGED <<info, indexer, status, wanted, thread>>
    BY <1>9 DEF Flush, Stop, Exit
  <2>2. Stop => UNCHANGED <<wrd_buf, base>>
    BY DEF Stop
  <2> QED
    BY <1>6, <1>9, <2>1, <2>2
<1> HIDE DEF Goal
<1>10. ASSUME UNCHANGED vars
       PROVE  Goal
  <2>1. UNCHANGED <<info, indexer, status, wanted, thread>> /\ UNCHANGED <<wrd_buf, base>>
    BY <1>10 DEF vars
  <2> QED
    BY <1>6, <2>1
<1>11. ASSUME Next
       PROVE  Goal
  BY <1>5, <1>7, <1>8, <1>9, <1>11, FaultlessSteps
<1>12. Goal
  BY <1>10, <1>11
<1> QED
  BY <1>1, <1>2, <1>3, <1>12 DEF FreshInv, Goal

\* With nothing left to do the records are what was said.
LEMMA QuietFresh ==
    ASSUME FreshInv
    PROVE  Fresh
<1> SUFFICES ASSUME Quiet
             PROVE  /\ \A w \in Words : Lists(base[w], WantedCrds(w))
                    /\ info = {u \in Urls : wanted[u] # None}
  BY DEF Fresh
<1>1. /\ BuffersOK /\ InOrderOK(base) /\ ContentOK
      /\ OnceInv /\ RestInv /\ AnswersInv
  BY DEF FreshInv, RecordsInv
<1>2. \A i \in Clients : ~Storing(i) /\ indexer[i].step = "next"
  BY DEF Quiet, Storing
<1>3. info = {u \in Urls : wanted[u] # None}
  BY <1>1, <1>2 DEF AnswersInv, InfoInv, ToAdd, ToRemove, ContentOK
<1>4. ASSUME NEW w \in Words PROVE Lists(base[w], WantedCrds(w))
  <2> DEFINE r == base[w]
  <2>1. FileOf[w] \in Files /\ r \in Seq(Crds) /\ Ascending(r)
    BY <1>1, Numbers DEF InOrderOK
  <2>2. Buf(w) = Empty
    BY <2>1 DEF Buf, Quiet
  <2>3. Content(w) = ToSet(r) /\ IsInjective(r)
    BY <1>1, <2>2, Emptied DEF Content, OnceInv
  <2>4. \A k \in DOMAIN r : r[k] \in Crds
    BY <2>1, LenProperties, ElementOfSeq
  <2>5. \A u \in Urls : Has(w, u) = Said(u, w)
    BY <1>1, <1>2 DEF RestInv, Idling
  <2>6. ASSUME NEW x PROVE x \in WantedCrds(w) <=> \E u \in Urls : x \in Said(u, w)
    BY DEF WantedCrds, Said, Of
  <2>7. \A x \in ToSet(r) : x.url_id \in Urls
    BY <2>4 DEF ToSet, Crds
  <2>8. ASSUME NEW x PROVE x \in ToSet(r) <=> \E u \in Urls : x \in Has(w, u)
    BY <2>3, <2>7 DEF Has
  <2>9. ToSet(r) = WantedCrds(w)
    BY <2>5, <2>6, <2>8
  <2>10. r \in Seq(Postings)
    BY <2>1, RecordsAreNumbers
  <2> HIDE DEF r
  <2>11. Lists(r, ToSet(r))
    BY <2>1, <2>3, <2>10, RecordLists
  <2> QED
    BY <2>9, <2>11 DEF r
<1> QED
  BY <1>3, <1>4

\* When the buffers are empty and no command is under way, the index and the
\* information of the urls are what the last commands said, through every
\* interleaving of the threads, the flushes and the indexers: where the files
\* can be written and no save finds both words that are older than a marker
\* and words beyond the last marker, which DpsRemoveOldWords moves by a wrong
\* length (cache.c:953).
THEOREM FreshUnlessMoved ==
    ASSUME Env = {}, Contents
    PROVE  Spec /\ []Intact => []Fresh
<1>1. Init => FreshInv
  BY FreshInit
<1>2. FreshInv /\ Intact /\ [Next]_vars => FreshInv'
  BY FreshKept
<1>3. FreshInv => Fresh
  BY QuietFresh
<1> QED
  BY <1>1, <1>2, <1>3, PTL DEF Spec

\* A buffer of one word, or of the words of one url, has none to move.
LEMMA IntactAlways ==
    ASSUME BuffersOK, InOrderOK(base), CacheLogWords = 1 \/ (\A u, v \in Urls : u = v)
    PROVE  Intact
<1> SUFFICES ASSUME NEW f \in Files PROVE Unmoved(wrd_buf[f])
  BY DEF Intact
<1> DEFINE b == wrd_buf[f]
<1>1. /\ b.data \in Seq(WordRecs) /\ b.del_buf \in Seq(DelRecs) /\ Len(b.data) <= CacheLogWords
  BY DEF BuffersOK
<1>2. \A k \in DOMAIN b.data : b.data[k] \in WordRecs
  BY <1>1, LenProperties, ElementOfSeq
<1>3. \A m \in DOMAIN b.del_buf : b.del_buf[m] \in DelRecs
  BY <1>1, LenProperties, ElementOfSeq
<1>4. \A k \in DOMAIN b.data : b.data[k].url_id \in Urls /\ b.data[k].url_id \in Int
  BY <1>2, RecordsAreNumbers DEF WordRecs
<1>5. \A m \in DOMAIN b.del_buf : b.del_buf[m].url_id \in Urls /\ b.del_buf[m].url_id \in Int
  BY <1>3, RecordsAreNumbers DEF DelRecs
<1>6. \A k, l \in DOMAIN b.data : CacheLogWords = 1 => k = l
  BY <1>1, LenProperties
<1> HIDE DEF b
<1>7. \A k \in DOMAIN b.data : NotOld(b.del_buf, b.data[k]) \/ ~Beyond(b.del_buf, b.data[k])
  <2> SUFFICES ASSUME NEW k \in DOMAIN b.data, Beyond(b.del_buf, b.data[k]) PROVE NotOld(b.del_buf, b.data[k])
    OBVIOUS
  <2>1. \A m \in DOMAIN b.del_buf : b.del_buf[m].url_id # b.data[k].url_id
    BY <1>4, <1>5 DEF Beyond
  <2> QED
    BY <2>1 DEF NotOld
<1>8. CASE CacheLogWords = 1
  BY <1>6, <1>7, <1>8 DEF Unmoved, b
<1>9. CASE \A u, v \in Urls : u = v
  <2>1. CASE DOMAIN b.del_buf = {}
    BY <2>1 DEF Unmoved, NotOld, b
  <2>2. CASE DOMAIN b.del_buf # {}
    <3>1. \A k \in DOMAIN b.data : ~Beyond(b.del_buf, b.data[k])
      BY <1>4, <1>5, <1>9, <2>2 DEF Beyond
    <3> QED
      BY <3>1 DEF Unmoved, b
  <2> QED
    BY <2>1, <2>2
<1> QED
  BY <1>8, <1>9

\* So the index is always right in the setting of the run cached_fresh.
THEOREM FreshOneWord ==
    ASSUME Env = {}, Contents, CacheLogWords = 1 \/ (\A u, v \in Urls : u = v)
    PROVE  Spec => []Fresh
<1>1. RecordsInv => Intact
  BY IntactAlways DEF RecordsInv
<1> QED
  BY <1>1, RecordsInvariant, FreshUnlessMoved, PTL
=============================================================================
