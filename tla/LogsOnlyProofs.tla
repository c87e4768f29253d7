--------------------------- MODULE LogsOnlyProofs ---------------------------
(***************************************************************************)
(* What LogsOnly promises for every number of urls, words and files and    *)
(* every size of the buffers: run-splitter never waits for a file that no  *)
(* flush is going to create, the markers, which all files share, never go  *)
(* past the end of a buffer as long as nothing is sent during a flush, no  *)
(* word is merged twice, every file and record keeps its form, and while   *)
(* the procedure is kept the index becomes what was sent.                  *)
(***************************************************************************)
EXTENDS LogsOnly, LogWordsProofs

-----------------------------------------------------------------------------
(* The flush. *)

Pcs == {"idle", "save", "reset", "rotate", "cut", "create", "dels", "cutdels"}

\* Where the flush is: at one of the files, or nowhere.
FlushOK ==
    /\ flush \in [pc : Pcs, at : 0..WrdFiles]
    /\ flush.pc # "idle" => flush.at \in Files
    /\ asked \in Nat

LEMMA FlushKept ==
    ASSUME FlushOK, [Next]_vars
    PROVE  FlushOK'
<1> USE DEF FlushOK, Pcs, Files
<1>1. CASE UNCHANGED <<asked, flush>>
  BY <1>1
<1>2. CASE UNCHANGED vars \/ Send \/ Mark \/ AddWord \/ Done \/ Start \/ RunBare \/ Take \/ Put
           \/ RemoveDels \/ Die
  <2>1. UNCHANGED <<asked, flush>>
    BY <1>2 DEF vars, control, Send, Mark, AddWord, Done, Start, RunBare, Take, Put, RemoveDels, Die
  <2> QED
    BY <1>1, <2>1
<1>3. CASE Flush \/ Run
  BY <1>3 DEF Flush, Run, AskFlush
<1>4. CASE BeginFlush
  BY <1>4, LogsOnlyAssumption DEF BeginFlush
<1>5. CASE SaveNext \/ Rename \/ Cut
  <2>1. UNCHANGED asked /\ flush.at \in Files
    BY <1>5 DEF SaveNext, Rename, Cut
  <2>2. PICK pc \in Pcs, then \in Pcs : NextFile(pc, then)
    BY <1>5 DEF SaveNext, Rename, Cut
  <2> QED
    BY <2>1, <2>2, LogsOnlyAssumption DEF NextFile
<1>6. CASE ResetDelBuf \/ Copy \/ Create \/ CopyDels
  BY <1>6 DEF ResetDelBuf, Copy, Create, CopyDels
<1>7. CASE CutDels
  BY <1>7, LogsOnlyAssumption DEF CutDels, Resting
<1> QED
  BY <1>2, <1>3, <1>4, <1>5, <1>6, <1>7 DEF Next

-----------------------------------------------------------------------------
(* The script. *)

LEMMA ServedKept ==
    ASSUME FlushOK, Served, [Next]_vars
    PROVE  Served'
<1> USE DEF Served, FlushOK
<1>1. CASE UNCHANGED <<script, del_made, asked, flush>>
  BY <1>1
<1>2. CASE UNCHANGED vars \/ Send \/ Mark \/ AddWord \/ Done \/ Take
  <2>1. UNCHANGED <<script, del_made, asked, flush>>
    BY <1>2 DEF vars, splits, marks, control, Send, Mark, AddWord, Done, Take
  <2> QED
    BY <1>1, <2>1
<1>3. CASE Flush \/ Run
  BY <1>3 DEF Flush, Run, AskFlush, splits, marks
<1>4. CASE BeginFlush
  BY <1>4 DEF BeginFlush
<1>5. CASE SaveNext \/ Rename \/ Cut
  <2>1. UNCHANGED <<script, del_made, asked>>
    BY <1>5 DEF SaveNext, Rename, Cut, splits, marks
  <2>2. flush'.pc \in {"save", "reset", "rotate", "cut", "create"}
    BY <1>5 DEF SaveNext, Rename, Cut, NextFile
  <2> QED
    BY <2>1, <2>2
<1>6. CASE ResetDelBuf \/ Copy
  BY <1>6 DEF ResetDelBuf, Copy, splits, marks
<1>7. CASE Create
  BY <1>7 DEF Create
<1>8. CASE CopyDels \/ CutDels
  BY <1>8 DEF CopyDels, CutDels, splits, marks
<1>9. CASE Start \/ RunBare \/ RemoveDels \/ Die
  BY <1>9 DEF Start, RunBare, RemoveDels, Die
<1>10. CASE Put
  BY <1>10 DEF Put, splits, marks
<1> QED
  BY <1>2, <1>3, <1>4, <1>5, <1>6, <1>7, <1>8, <1>9, <1>10 DEF Next

\* A script that waits for del-split.log waits for a flush of cached that is
\* still on its way to it, or finds it: the wait of run-splitter ends if the
\* flushes do, with splitters that die, are run bare, or overlap with flushes.
THEOREM ScriptServed == Spec => []Served
<1> DEFINE Inv == FlushOK /\ Served
<1>1. Init => Inv
  BY LogsOnlyAssumption DEF Init, Served, FlushOK, Resting, Pcs
<1>2. Inv /\ [Next]_vars => Inv'
  BY FlushKept, ServedKept
<1>3. Inv => Served
  OBVIOUS
<1> HIDE DEF Inv
<1> QED
  BY <1>1, <1>2, <1>3, PTL DEF Spec

-----------------------------------------------------------------------------
(* The buffers. *)

\* The thread has a url and a stamp while it stores.
ThreadOK ==
    /\ now \in 0..MaxCalls
    /\ thread \in [pc : {"idle", "mark", "words"}, url : Urls \cup {0}, stamp : 0..MaxCalls,
                   words : Seq(Words \X Nat)]
    /\ thread.pc # "idle" => thread.url \in Urls /\ thread.stamp \in 1..MaxCalls

LEMMA ThreadKept ==
    ASSUME ThreadOK, [Next]_vars
    PROVE  ThreadOK'
<1> USE DEF ThreadOK
<1>1. CASE UNCHANGED <<now, thread>>
  BY <1>1
<1>2. CASE Send
  <2>1. now' \in 1..MaxCalls
    BY <1>2, LogsOnlyAssumption DEF Send
  <2>2. PICK u \in Urls, d \in Docs \cup {<<>>} :
           thread' = [pc |-> IF status[u] = "indexed" THEN "mark" ELSE "words",
                      url |-> u, stamp |-> now', words |-> d]
    BY <1>2 DEF Send
  <2>3. d \in Seq(Words \X Nat)
    <3>1. <<>> \in Seq(Words \X Nat)
      OBVIOUS
    <3> QED
      BY <3>1, LogsOnlyAssumption
  <2>4. thread'.pc \in {"mark", "words"} /\ thread'.url \in Urls /\ thread'.stamp \in 1..MaxCalls
    BY <2>1, <2>2
  <2>5. thread' \in [pc : {"idle", "mark", "words"}, url : Urls \cup {0}, stamp : 0..MaxCalls,
                     words : Seq(Words \X Nat)]
    BY <2>1, <2>2, <2>3
  <2> QED
    BY <2>1, <2>4, <2>5
<1>3. CASE Mark
  BY <1>3 DEF Mark, sent
<1>4. CASE AddWord
  <2>1. Tail(thread.words) \in Seq(Words \X Nat)
    <3>1. thread.words \in Seq(Words \X Nat) /\ thread.words # <<>>
      BY <1>4 DEF AddWord
    <3> QED
      BY <3>1
  <2> QED
    BY <1>4, <2>1 DEF AddWord, sent
<1>5. CASE Done
  BY <1>5, LogsOnlyAssumption DEF Done, Idle, sent
<1>6. CASE \/ UNCHANGED vars
           \/ Flush \/ BeginFlush \/ SaveNext \/ ResetDelBuf \/ Rename \/ Copy \/ Cut \/ Create
           \/ CopyDels \/ CutDels \/ Run \/ Start \/ RunBare \/ Take \/ Put \/ RemoveDels \/ Die
  <2>1. UNCHANGED <<now, thread>>
    BY <1>6 DEF vars, buffers, sent, Flush, BeginFlush, SaveNext, ResetDelBuf, Rename, Copy, Cut, Create,
       CopyDels, CutDels, Run, Start, RunBare, Take, Put, RemoveDels, Die
  <2> QED
    BY <1>1, <2>1
<1> QED
  BY <1>2, <1>3, <1>4, <1>5, <1>6 DEF Next

\* The records of the buffers, and where the markers go.
BufsOK ==
    /\ wrd_buf \in [Files -> [data : Seq(WordRecs), del_buf : Seq(DelRecs)]]
    /\ cur_del_buf \in Files

\* The buffers behind the one that is being filled have no markers.
Behind == \A f \in Files : f > cur_del_buf => wrd_buf[f].del_buf = <<>>

\* Nothing is stored during a flush, which so leaves empty what it has visited.
Alone == flush.pc # "idle" => thread.pc = "idle"
Visited ==
    /\ flush.pc = "save" => \A f \in Files : f < flush.at => wrd_buf[f].del_buf = <<>>
    /\ flush.pc = "reset" => \A f \in Files : wrd_buf[f].del_buf = <<>>

MarksInv == BufsOK /\ BuffersFit /\ Behind /\ Alone /\ Visited

LEMMA MarkFits ==
    ASSUME ThreadOK, MarksInv, Mark
    PROVE  MarksInv'
<1> USE DEF MarksInv, BufsOK
<1> DEFINE full == Len(wrd_buf[cur_del_buf].del_buf) = CacheLogDels
           next == IF full THEN cur_del_buf + 1 ELSE cur_del_buf
           at == IF next > WrdFiles THEN 1 ELSE next
           room == IF next > WrdFiles THEN [f \in Files |-> [wrd_buf[f] EXCEPT !.del_buf = <<>>]]
                                      ELSE wrd_buf
           x == LogDel(thread.stamp, thread.url)
<1>1. x \in DelRecs
  <2>1. thread.pc # "idle"
    BY DEF Mark
  <2>2. thread.url \in Urls /\ thread.stamp \in 1..MaxCalls
    BY <2>1 DEF ThreadOK
  <2> QED
    BY <2>2 DEF LogDel, DelRecs
<1>2. at \in Files /\ cur_del_buf' = at
  <2>1. cur_del_buf \in 1..WrdFiles /\ WrdFiles \in Nat \ {0}
    BY LogsOnlyAssumption DEF Files
  <2>2. at \in 1..WrdFiles
    BY <2>1
  <2>3. cur_del_buf' = at
    BY DEF Mark
  <2> QED
    BY <2>2, <2>3 DEF Files
<1>3. room \in [Files -> [data : Seq(WordRecs), del_buf : Seq(DelRecs)]]
  <2>1. <<>> \in Seq(DelRecs)
    OBVIOUS
  <2>2. \A f \in Files : [wrd_buf[f] EXCEPT !.del_buf = <<>>] \in [data : Seq(WordRecs), del_buf : Seq(DelRecs)]
    BY <2>1
  <2> QED
    BY <2>2
<1>4. wrd_buf' = [room EXCEPT ![at].del_buf = Append(@, x)]
  BY DEF Mark
<1>5. \A f \in Files : Len(room[f].data) <= CacheLogWords /\ Len(room[f].del_buf) <= CacheLogDels
  BY LogsOnlyAssumption DEF BuffersFit
<1>6. Len(room[at].del_buf) < CacheLogDels
  <2>1. CASE next > WrdFiles
    BY <1>2, <2>1, LogsOnlyAssumption
  <2>2. CASE full /\ next <= WrdFiles
    <3>1. at \in Files /\ at > cur_del_buf /\ room = wrd_buf
      BY <1>2, <2>2, LogsOnlyAssumption DEF Files
    <3> QED
      BY <3>1, LogsOnlyAssumption DEF Behind
  <2>3. CASE ~full
    <3>1. at = cur_del_buf /\ room = wrd_buf
      BY <2>3, LogsOnlyAssumption DEF Files
    <3>2. Len(wrd_buf[at].del_buf) \in Nat /\ Len(wrd_buf[at].del_buf) <= CacheLogDels
      BY <1>2 DEF BuffersFit
    <3> QED
      BY <2>3, <3>1, <3>2, LogsOnlyAssumption
  <2> QED
    BY <1>2, <2>1, <2>2, <2>3, LogsOnlyAssumption DEF Files
<1>7. \A f \in Files : f > at => room[f].del_buf = <<>>
  BY LogsOnlyAssumption DEF Behind, Files
<1> HIDE DEF room, at, x
<1>8. /\ room[at].del_buf \in Seq(DelRecs)
      /\ Append(room[at].del_buf, x) \in Seq(DelRecs)
      /\ Len(Append(room[at].del_buf, x)) = Len(room[at].del_buf) + 1
  BY <1>1, <1>2, <1>3
<1>9. BufsOK'
  BY <1>2, <1>3, <1>4, <1>8
<1>10. BuffersFit'
  BY <1>2, <1>3, <1>4, <1>5, <1>6, <1>8, LogsOnlyAssumption DEF BuffersFit
<1>11. Behind'
  BY <1>2, <1>3, <1>4, <1>7 DEF Behind, Files
<1>12. flush' = flush /\ thread.pc = "mark"
  BY DEF Mark, control
<1>13. Alone' /\ Visited'
  BY <1>12 DEF Alone, Visited
<1> QED
  BY <1>9, <1>10, <1>11, <1>13

LEMMA AddWordFits ==
    ASSUME ThreadOK, MarksInv, AddWord
    PROVE  MarksInv'
<1> USE DEF MarksInv, BufsOK
<1> DEFINE w == Head(thread.words)[1]
           f == FileOf[w]
           x == LogWord(thread.stamp, thread.url, w, Head(thread.words)[2])
<1>1. w \in Words /\ Head(thread.words)[2] \in Nat
  <2>1. Head(thread.words) \in Words \X Nat
    <3>1. thread.words \in Seq(Words \X Nat) /\ thread.words # <<>>
      BY DEF AddWord, ThreadOK
    <3> QED
      BY <3>1
  <2> QED
    BY <2>1
<1>2. f \in Files
  BY <1>1, LogsOnlyAssumption DEF Files
<1>3. x \in WordRecs
  BY <1>1 DEF AddWord, ThreadOK, LogWord, WordRecs
<1>4. \/ wrd_buf' = [wrd_buf EXCEPT ![f] = [Empty EXCEPT !.data = <<x>>]]
      \/ /\ Len(wrd_buf[f].data) # CacheLogWords
         /\ wrd_buf' = [wrd_buf EXCEPT ![f].data = Append(@, x)]
  BY DEF AddWord
<1>5. UNCHANGED <<cur_del_buf, flush>> /\ thread.pc = "words"
  BY DEF AddWord, control
<1> HIDE DEF x, f
<1>6. /\ [Empty EXCEPT !.data = <<x>>] = [data |-> <<x>>, del_buf |-> <<>>]
      /\ <<x>> \in Seq(WordRecs) /\ <<>> \in Seq(DelRecs)
      /\ Append(wrd_buf[f].data, x) \in Seq(WordRecs)
      /\ Len(Append(wrd_buf[f].data, x)) = Len(wrd_buf[f].data) + 1
  BY <1>2, <1>3 DEF Empty
<1>7. BufsOK'
  <2>1. CASE wrd_buf' = [wrd_buf EXCEPT ![f] = [Empty EXCEPT !.data = <<x>>]]
    <3>1. [Empty EXCEPT !.data = <<x>>] \in [data : Seq(WordRecs), del_buf : Seq(DelRecs)]
      BY <1>6
    <3> QED
      BY <1>2, <1>5, <2>1, <3>1
  <2>2. CASE wrd_buf' = [wrd_buf EXCEPT ![f].data = Append(@, x)]
    <3>1. [wrd_buf[f] EXCEPT !.data = Append(@, x)] \in [data : Seq(WordRecs), del_buf : Seq(DelRecs)]
      BY <1>2, <1>6
    <3> QED
      BY <1>2, <1>5, <2>2, <3>1
  <2> QED
    BY <1>4, <2>1, <2>2
<1>8. BuffersFit'
  <2>1. Len(wrd_buf[f].data) \in Nat /\ Len(wrd_buf[f].data) <= CacheLogWords
    BY <1>2 DEF BuffersFit
  <2> QED
    <3>1. CASE wrd_buf' = [wrd_buf EXCEPT ![f] = [Empty EXCEPT !.data = <<x>>]]
      <4>1. wrd_buf'[f].data = <<x>> /\ wrd_buf'[f].del_buf = <<>>
        BY <1>2, <1>6, <3>1
      <4>2. Len(<<x>>) = 1 /\ Len(<<>>) = 0
        OBVIOUS
      <4> QED
        BY <1>2, <3>1, <4>1, <4>2, LogsOnlyAssumption DEF BuffersFit
    <3>2. CASE /\ Len(wrd_buf[f].data) # CacheLogWords
               /\ wrd_buf' = [wrd_buf EXCEPT ![f].data = Append(@, x)]
      <4>1. Len(wrd_buf[f].data) + 1 <= CacheLogWords
        BY <2>1, <3>2, LogsOnlyAssumption
      <4>2. wrd_buf'[f].data = Append(wrd_buf[f].data, x) /\ wrd_buf'[f].del_buf = wrd_buf[f].del_buf
        BY <1>2, <3>2
      <4> QED
        BY <1>2, <1>6, <3>2, <4>1, <4>2 DEF BuffersFit
    <3> QED
      BY <1>4, <3>1, <3>2
<1>9. Behind'
  BY <1>2, <1>4, <1>5, <1>6 DEF Behind
<1>10. Alone' /\ Visited'
  BY <1>5 DEF Alone, Visited
<1> QED
  BY <1>7, <1>8, <1>9, <1>10

LEMMA SaveNextFits ==
    ASSUME FlushOK, MarksInv, SaveNext
    PROVE  MarksInv'
<1> USE DEF MarksInv, BufsOK
<1>1. flush.at \in Files /\ flush.pc = "save"
  BY DEF SaveNext, FlushOK
<1>2. wrd_buf' = [wrd_buf EXCEPT ![flush.at] = Empty] /\ UNCHANGED <<cur_del_buf, thread>>
  BY DEF SaveNext
<1>3. BufsOK' /\ BuffersFit' /\ Behind'
  BY <1>1, <1>2, LogsOnlyAssumption DEF BuffersFit, Behind, Empty
<1>4. \/ flush.at < WrdFiles /\ flush' = [pc |-> "save", at |-> flush.at + 1]
      \/ ~(flush.at < WrdFiles) /\ flush' = [pc |-> "reset", at |-> 1]
  BY DEF SaveNext, NextFile
<1>5. \A f \in Files : f <= flush.at => wrd_buf'[f].del_buf = <<>>
  BY <1>1, <1>2 DEF Visited, Empty, Files
<1>6. Visited'
  BY <1>1, <1>4, <1>5, LogsOnlyAssumption DEF Visited, Files
<1>7. Alone'
  BY <1>1, <1>2 DEF Alone
<1> QED
  BY <1>3, <1>6, <1>7

LEMMA MarksKept ==
    ASSUME "busy" \notin Around, FlushOK, ThreadOK, MarksInv, [Next]_vars
    PROVE  MarksInv'
<1> USE DEF MarksInv, BufsOK
<1>1. ASSUME UNCHANGED <<wrd_buf, cur_del_buf>>, Alone', flush'.pc \notin {"save", "reset"} \/ flush' = flush
      PROVE  MarksInv'
  BY <1>1 DEF BuffersFit, Behind, Visited
<1>2. CASE \/ UNCHANGED vars
           \/ Flush \/ Run \/ Start \/ RunBare \/ Take \/ Put \/ RemoveDels \/ Die
  <2>1. UNCHANGED <<wrd_buf, cur_del_buf, thread, flush>>
    BY <1>2 DEF vars, buffers, control, Flush, Run, Start, RunBare, Take, Put, RemoveDels, Die
  <2> QED
    BY <1>1, <2>1 DEF Alone
<1>3. CASE Rename \/ Copy \/ Cut \/ Create \/ CopyDels \/ CutDels
  <2>1. UNCHANGED <<wrd_buf, cur_del_buf, thread>> /\ flush.pc # "idle"
    BY <1>3 DEF buffers, Rename, Copy, Cut, Create, CopyDels, CutDels
  <2>2. flush'.pc \notin {"save", "reset"}
    <3>1. CASE Rename \/ Cut
      BY <3>1 DEF Rename, Cut, NextFile
    <3>2. CASE Copy \/ Create \/ CopyDels
      BY <3>2 DEF Copy, Create, CopyDels, FlushOK
    <3>3. CASE CutDels
      BY <3>3 DEF CutDels, Resting
    <3> QED
      BY <1>3, <3>1, <3>2, <3>3
  <2> QED
    BY <1>1, <2>1, <2>2 DEF Alone
<1>4. CASE Send \/ Done
  <2>1. UNCHANGED <<wrd_buf, cur_del_buf, flush>>
    BY <1>4 DEF Send, Done, control
  <2>2. Send => flush.pc = "idle"
    BY DEF Send, Careless, Flushing
  <2>3. Done => thread'.pc = "idle"
    BY DEF Done, Idle
  <2> QED
    BY <1>1, <1>4, <2>1, <2>2, <2>3 DEF Alone
<1>5. CASE BeginFlush
  <2>1. UNCHANGED <<wrd_buf, cur_del_buf, thread>> /\ thread.pc = "idle" /\ flush' = [pc |-> "save", at |-> 1]
    BY <1>5 DEF BeginFlush, buffers
  <2>2. Visited' /\ Alone'
    BY <2>1 DEF Visited, Alone, Files
  <2> QED
    BY <2>1, <2>2 DEF BuffersFit, Behind
<1>6. CASE ResetDelBuf
  <2>1. UNCHANGED <<wrd_buf, thread>> /\ cur_del_buf' = 1 /\ flush' = [flush EXCEPT !.pc = "rotate"]
        /\ flush.pc = "reset"
    BY <1>6 DEF ResetDelBuf
  <2>2. flush'.pc = "rotate"
    BY <2>1 DEF FlushOK
  <2>3. Behind'
    BY <2>1 DEF Visited, Behind
  <2> QED
    BY <2>1, <2>2, <2>3, LogsOnlyAssumption DEF BuffersFit, Visited, Alone, Files
<1> QED
  BY <1>2, <1>3, <1>4, <1>5, <1>6, MarkFits, AddWordFits, SaveNextFits DEF Next

\* No buffer of words or markers is filled past its end, for every number and
\* size of buffers and whatever the splitter does, if nothing is sent while
\* buffers are flushed: Mark checks one buffer and may write to another.
THEOREM MarksFit ==
    ASSUME "busy" \notin Around
    PROVE  Spec => []BuffersFit
<1> DEFINE Inv == FlushOK /\ ThreadOK /\ MarksInv
<1>1. Init => Inv
  <2>1. Init => FlushOK
    BY LogsOnlyAssumption DEF Init, FlushOK, Resting, Pcs
  <2>2. Init => ThreadOK
    BY LogsOnlyAssumption DEF Init, ThreadOK, Idle
  <2>3. Init => MarksInv
    BY LogsOnlyAssumption DEF Init, MarksInv, BufsOK, BuffersFit, Behind, Alone, Visited, Empty, Idle, Resting, Files
  <2> QED
    BY <2>1, <2>2, <2>3
<1>2. Inv /\ [Next]_vars => Inv'
  BY FlushKept, ThreadKept, MarksKept
<1>3. Inv => BuffersFit
  BY DEF MarksInv
<1> HIDE DEF Inv
<1> QED
  BY <1>1, <1>2, <1>3, PTL DEF Spec
-----------------------------------------------------------------------------
(* No word is merged twice. *)

Ways == [Places -> Seq(WordRecs)]

\* A word has one place in P, and is not among those of M.
Apart(P, M) ==
    \A p \in Places : \A i \in DOMAIN P[p] :
        /\ \A q \in Places : \A j \in DOMAIN P[q] : P[p][i] = P[q][j] => p = q /\ i = j
        /\ P[p][i] \notin M

Inside(P, M, A) ==
    /\ \A p \in Places : \A i \in DOMAIN P[p] : P[p][i] \in A
    /\ M \subseteq A

\* A place that loses its words.
LEMMA Dropped ==
    ASSUME NEW P \in Ways, NEW Q \in Ways, NEW M, NEW A, Apart(P, M), Inside(P, M, A),
           \A p \in Places : Q[p] = P[p] \/ Q[p] = <<>>
    PROVE  Apart(Q, M) /\ Inside(Q, M, A)
<1>1. \A p \in Places : \A i \in DOMAIN Q[p] : i \in DOMAIN P[p] /\ Q[p][i] = P[p][i]
  OBVIOUS
<1> QED
  BY <1>1 DEF Apart, Inside

\* The first words of place b go behind those of a, and the others of b are lost.
LEMMA Moved ==
    ASSUME NEW P \in Ways, NEW Q \in Ways, NEW M, NEW A, Apart(P, M), Inside(P, M, A),
           NEW a \in Places, NEW b \in Places, a # b,
           NEW c \in Seq(WordRecs), Len(c) <= Len(P[b]), \A i \in 1..Len(c) : c[i] = P[b][i],
           Q[a] = P[a] \o c, Q[b] = <<>>,
           \A p \in Places : p # a /\ p # b => Q[p] = P[p]
    PROVE  Apart(Q, M) /\ Inside(Q, M, A)
<1> DEFINE r(p, i) == IF p = a /\ i > Len(P[a]) THEN b ELSE p
           k(p, i) == IF p = a /\ i > Len(P[a]) THEN i - Len(P[a]) ELSE i
<1>t. /\ P[a] \in Seq(WordRecs) /\ P[b] \in Seq(WordRecs)
      /\ \A p \in Places : DOMAIN Q[p] \subseteq Nat
  BY DEF Ways
<1>1. \A p \in Places : \A i \in DOMAIN Q[p] :
          r(p, i) \in Places /\ k(p, i) \in DOMAIN P[r(p, i)] /\ Q[p][i] = P[r(p, i)][k(p, i)]
  <2> SUFFICES ASSUME NEW p \in Places, NEW i \in DOMAIN Q[p]
               PROVE  r(p, i) \in Places /\ k(p, i) \in DOMAIN P[r(p, i)] /\ Q[p][i] = P[r(p, i)][k(p, i)]
    OBVIOUS
  <2>1. CASE p = a
    <3>1. i \in 1..(Len(P[a]) + Len(c)) /\ Q[a][i] = IF i <= Len(P[a]) THEN P[a][i] ELSE c[i - Len(P[a])]
      BY <1>t, <2>1
    <3>2. CASE i > Len(P[a])
      <4>1. i - Len(P[a]) \in 1..Len(c) /\ 1..Len(c) \subseteq DOMAIN P[b]
        BY <1>t, <3>1, <3>2
      <4>2. Q[a][i] = P[b][i - Len(P[a])]
        BY <1>t, <3>1, <3>2, <4>1
      <4>3. r(p, i) = b /\ k(p, i) = i - Len(P[a])
        BY <2>1, <3>2
      <4> HIDE DEF r, k
      <4> QED
        BY <2>1, <4>1, <4>2, <4>3
    <3>3. CASE ~(i > Len(P[a]))
      BY <1>t, <2>1, <3>1, <3>3
    <3> QED
      BY <3>2, <3>3
  <2>2. CASE p # a
    BY <2>2
  <2> QED
    BY <2>1, <2>2
<1>2. \A p, q \in Places : \A i \in DOMAIN Q[p], j \in DOMAIN Q[q] :
          r(p, i) = r(q, j) /\ k(p, i) = k(q, j) => p = q /\ i = j
  <2>1. \A p \in Places : \A i \in DOMAIN Q[p] : p # b
    OBVIOUS
  <2>2. Len(P[a]) \in Nat
    BY <1>t
  <2> QED
    BY <1>t, <2>1, <2>2
<1> HIDE DEF r, k
<1>3. Inside(Q, M, A)
  BY <1>1 DEF Inside
<1>4. Apart(Q, M)
  <2> SUFFICES ASSUME NEW p \in Places, NEW i \in DOMAIN Q[p]
               PROVE  /\ \A q \in Places : \A j \in DOMAIN Q[q] : Q[p][i] = Q[q][j] => p = q /\ i = j
                      /\ Q[p][i] \notin M
    BY DEF Apart
  <2>0. \A u \in Places : DOMAIN P[u] \subseteq Nat
    BY DEF Ways
  <2>1. PICK u \in Places, m \in Nat : m \in DOMAIN P[u] /\ u = r(p, i) /\ m = k(p, i) /\ Q[p][i] = P[u][m]
    BY <1>1, <2>0
  <2>2. ASSUME NEW q \in Places, NEW j \in DOMAIN Q[q], Q[p][i] = Q[q][j]
        PROVE  p = q /\ i = j
    <3>1. PICK v \in Places, n \in Nat : n \in DOMAIN P[v] /\ v = r(q, j) /\ n = k(q, j) /\ Q[q][j] = P[v][n]
      BY <1>1, <2>0
    <3>2. P[u][m] = P[v][n]
      BY <2>1, <2>2, <3>1
    <3>3. u = v /\ m = n
      BY <2>1, <3>1, <3>2 DEF Apart
    <3>4. r(p, i) = r(q, j) /\ k(p, i) = k(q, j)
      BY <2>1, <3>1, <3>3
    <3> QED
      BY <1>2, <3>4
  <2> QED
    BY <2>1, <2>2 DEF Apart
<1> QED
  BY <1>3, <1>4

\* A word that is not known yet comes to place a.
LEMMA Joined ==
    ASSUME NEW P \in Ways, NEW Q \in Ways, NEW M, NEW A, Apart(P, M), Inside(P, M, A),
           NEW a \in Places, NEW x \in WordRecs, x \notin A, Q[a] = Append(P[a], x),
           \A p \in Places : p # a => Q[p] = P[p]
    PROVE  Apart(Q, M) /\ Inside(Q, M, A \cup {x})
<1>t. P[a] \in Seq(WordRecs)
  BY DEF Ways
<1>1. \A p \in Places : \A i \in DOMAIN Q[p] :
          \/ i \in DOMAIN P[p] /\ Q[p][i] = P[p][i] /\ Q[p][i] \in A
          \/ p = a /\ i = Len(P[a]) + 1 /\ Q[p][i] = x
  <2> SUFFICES ASSUME NEW p \in Places, NEW i \in DOMAIN Q[p]
               PROVE  \/ i \in DOMAIN P[p] /\ Q[p][i] = P[p][i]
                      \/ p = a /\ i = Len(P[a]) + 1 /\ Q[p][i] = x
    BY DEF Inside
  <2>1. CASE p = a
    BY <1>t, <2>1
  <2>2. CASE p # a
    BY <2>2
  <2> QED
    BY <2>1, <2>2
<1> QED
  BY <1>1 DEF Apart, Inside

\* The words of place b are merged.
LEMMA MergedIn ==
    ASSUME NEW P \in Ways, NEW Q \in Ways, NEW M, NEW A, Apart(P, M), Inside(P, M, A),
           NEW b \in Places, Q[b] = <<>>,
           \A p \in Places : p # b => Q[p] = P[p]
    PROVE  Apart(Q, M \cup ToSet(P[b])) /\ Inside(Q, M \cup ToSet(P[b]), A)
<1>1. \A p \in Places : \A i \in DOMAIN Q[p] : p # b /\ i \in DOMAIN P[p] /\ Q[p][i] = P[p][i]
  OBVIOUS
<1>2. \A x \in ToSet(P[b]) : \E j \in DOMAIN P[b] : x = P[b][j]
  BY DEF ToSet
<1> QED
  BY <1>1, <1>2 DEF Apart, Inside

-----------------------------------------------------------------------------

\* The splitter is at a file, and has words from when it takes them to when it puts them.
SplitterOK ==
    /\ splitter = [pc |-> splitter.pc, at |-> splitter.at, words |-> splitter.words, dels |-> splitter.dels]
    /\ splitter.pc \in {"off", "read", "merge"}
    /\ splitter.words \in Seq(WordRecs)
    /\ splitter.pc # "off" => splitter.at \in Files
    /\ splitter.pc # "merge" => splitter.words = <<>>

\* The buffers, the files and the splitter.
WayOK ==
    /\ BufsOK
    /\ log \in [Files -> Seq(WordRecs) \cup {NoFile}]
    /\ split \in [Files -> Seq(WordRecs) \cup {NoFile}]
    /\ SplitterOK

\* The words of the document that are not in a buffer yet.
Coming == {LogWord(thread.stamp, thread.url, thread.words[k][1], thread.words[k][2]) :
               k \in DOMAIN thread.words}

\* The words that may be somewhere.
Past == {x \in WordRecs : x.stamp <= now /\ (thread.pc # "idle" => x \notin Coming)}

Distinct(words) == \A i, j \in DOMAIN words : words[i] = words[j] => i = j

Current == Distinct(thread.words) /\ (thread.pc # "idle" => thread.stamp = now)

OnceInv == WayOK /\ Current /\ Apart(OnTheWay, merged) /\ Inside(OnTheWay, merged, Past)

\* The words at each place.
Shown ==
    /\ OnTheWay \in Ways
    /\ \A f \in Files :
          /\ OnTheWay[<<"data", f>>] = wrd_buf[f].data
          /\ OnTheWay[<<"log", f>>] = IF flush = [pc |-> "cut", at |-> f] THEN <<>> ELSE Read(log[f])
          /\ OnTheWay[<<"split", f>>] = Read(split[f])
          /\ OnTheWay[<<"splitter", f>>] = IF splitter.at = f THEN splitter.words ELSE <<>>

LEMMA ReadTyped ==
    ASSUME NEW file \in Seq(WordRecs) \cup {NoFile}
    PROVE  Read(file) \in Seq(WordRecs)
<1>1. <<>> \in Seq(WordRecs)
  OBVIOUS
<1> QED
  BY <1>1 DEF Read

LEMMA NoSuchFile == NoFile \notin Seq(WordRecs)
<1> DEFINE R == [stamp : Nat, url_id : Urls, wrd_id : Words, coord : Nat]
<1>1. WordRecs \subseteq R
  BY LogsOnlyAssumption DEF WordRecs
<1> HIDE DEF R
<1>2. Seq(WordRecs) \subseteq Seq(R)
  BY <1>1
<1>3. NoFile \notin Seq(R)
  BY LogsOnlyAssumption DEF R
<1> QED
  BY <1>2, <1>3

LEMMA PlaceOf ==
    /\ \A p \in Places : \E f \in Files :
          p = <<"data", f>> \/ p = <<"log", f>> \/ p = <<"split", f>> \/ p = <<"splitter", f>>
    /\ \A f \in Files : /\ <<"data", f>> \in Places /\ <<"log", f>> \in Places
                        /\ <<"split", f>> \in Places /\ <<"splitter", f>> \in Places
BY DEF Places

LEMMA ShownNow ==
    ASSUME WayOK
    PROVE  Shown
<1>1. \A f \in Files :
          /\ OnTheWay[<<"data", f>>] = wrd_buf[f].data
          /\ OnTheWay[<<"log", f>>] = IF flush = [pc |-> "cut", at |-> f] THEN <<>> ELSE Read(log[f])
          /\ OnTheWay[<<"split", f>>] = Read(split[f])
          /\ OnTheWay[<<"splitter", f>>] = IF splitter.at = f THEN splitter.words ELSE <<>>
  BY PlaceOf DEF OnTheWay
<1>2. \A p \in Places : OnTheWay[p] \in Seq(WordRecs)
  <2> SUFFICES ASSUME NEW f \in Files
               PROVE  /\ OnTheWay[<<"data", f>>] \in Seq(WordRecs) /\ OnTheWay[<<"log", f>>] \in Seq(WordRecs)
                      /\ OnTheWay[<<"split", f>>] \in Seq(WordRecs) /\ OnTheWay[<<"splitter", f>>] \in Seq(WordRecs)
    BY PlaceOf
  <2>1. <<>> \in Seq(WordRecs)
    OBVIOUS
  <2>2. wrd_buf[f].data \in Seq(WordRecs) /\ splitter.words \in Seq(WordRecs)
    BY DEF WayOK, BufsOK, SplitterOK
  <2>3. log[f] \in Seq(WordRecs) \cup {NoFile} /\ split[f] \in Seq(WordRecs) \cup {NoFile}
    BY DEF WayOK
  <2>4. Read(log[f]) \in Seq(WordRecs) /\ Read(split[f]) \in Seq(WordRecs)
    BY <2>3, ReadTyped
  <2> QED
    BY <1>1, <2>1, <2>2, <2>4
<1>3. OnTheWay = [p \in Places |-> OnTheWay[p]]
  <2> DEFINE e(p) == CASE p[1] = "data"     -> wrd_buf[p[2]].data
                       [] p[1] = "log"      -> IF flush = [pc |-> "cut", at |-> p[2]] THEN <<>> ELSE Read(log[p[2]])
                       [] p[1] = "split"    -> Read(split[p[2]])
                       [] p[1] = "splitter" -> IF splitter.at = p[2] THEN splitter.words ELSE <<>>
  <2>1. OnTheWay = [p \in Places |-> e(p)]
    BY DEF OnTheWay, Read
  <2> HIDE DEF e
  <2> QED
    BY <2>1
<1> QED
  BY <1>1, <1>2, <1>3 DEF Shown, Ways

LEMMA ShownNext ==
    ASSUME WayOK'
    PROVE  Shown'
<1>1. \A f \in Files :
          /\ OnTheWay'[<<"data", f>>] = wrd_buf'[f].data
          /\ OnTheWay'[<<"log", f>>] = IF flush' = [pc |-> "cut", at |-> f] THEN <<>> ELSE Read(log'[f])
          /\ OnTheWay'[<<"split", f>>] = Read(split'[f])
          /\ OnTheWay'[<<"splitter", f>>] = IF splitter'.at = f THEN splitter'.words ELSE <<>>
  BY PlaceOf DEF OnTheWay, Read
<1>2. \A p \in Places : OnTheWay'[p] \in Seq(WordRecs)
  <2> SUFFICES ASSUME NEW f \in Files
               PROVE  /\ OnTheWay'[<<"data", f>>] \in Seq(WordRecs) /\ OnTheWay'[<<"log", f>>] \in Seq(WordRecs)
                      /\ OnTheWay'[<<"split", f>>] \in Seq(WordRecs) /\ OnTheWay'[<<"splitter", f>>] \in Seq(WordRecs)
    BY PlaceOf
  <2>1. <<>> \in Seq(WordRecs)
    OBVIOUS
  <2>2. wrd_buf'[f].data \in Seq(WordRecs) /\ splitter'.words \in Seq(WordRecs)
    BY DEF WayOK, BufsOK, SplitterOK
  <2>3. log'[f] \in Seq(WordRecs) \cup {NoFile} /\ split'[f] \in Seq(WordRecs) \cup {NoFile}
    BY DEF WayOK
  <2>4. Read(log'[f]) \in Seq(WordRecs) /\ Read(split'[f]) \in Seq(WordRecs)
    BY <2>3, ReadTyped
  <2> QED
    BY <1>1, <2>1, <2>2, <2>4
<1>3. OnTheWay' = [p \in Places |-> OnTheWay'[p]]
  <2> DEFINE e(p) == CASE p[1] = "data"     -> wrd_buf'[p[2]].data
                       [] p[1] = "log"      -> IF flush' = [pc |-> "cut", at |-> p[2]] THEN <<>> ELSE Read(log'[p[2]])
                       [] p[1] = "split"    -> Read(split'[p[2]])
                       [] p[1] = "splitter" -> IF splitter'.at = p[2] THEN splitter'.words ELSE <<>>
  <2>1. OnTheWay' = [p \in Places |-> e(p)]
    BY DEF OnTheWay, Read
  <2> HIDE DEF e
  <2> QED
    BY <2>1
<1> QED
  BY <1>1, <1>2, <1>3 DEF Shown, Ways, Read
\* A marker changes no words.
LEMMA MarkTyped ==
    ASSUME ThreadOK, BufsOK, Mark
    PROVE  BufsOK' /\ \A f \in Files : wrd_buf'[f].data = wrd_buf[f].data
<1> USE DEF BufsOK
<1> DEFINE full == Len(wrd_buf[cur_del_buf].del_buf) = CacheLogDels
           next == IF full THEN cur_del_buf + 1 ELSE cur_del_buf
           at == IF next > WrdFiles THEN 1 ELSE next
           room == IF next > WrdFiles THEN [f \in Files |-> [wrd_buf[f] EXCEPT !.del_buf = <<>>]]
                                      ELSE wrd_buf
           x == LogDel(thread.stamp, thread.url)
<1>1. x \in DelRecs
  BY DEF Mark, ThreadOK, LogDel, DelRecs
<1>2. at \in Files /\ cur_del_buf' = at
  <2>1. cur_del_buf \in 1..WrdFiles /\ WrdFiles \in Nat \ {0}
    BY LogsOnlyAssumption DEF Files
  <2>2. at \in 1..WrdFiles
    BY <2>1
  <2>3. cur_del_buf' = at
    BY DEF Mark
  <2> QED
    BY <2>2, <2>3 DEF Files
<1>3. \A f \in Files : room[f] \in [data : Seq(WordRecs), del_buf : Seq(DelRecs)] /\ room[f].data = wrd_buf[f].data
  <2>1. <<>> \in Seq(DelRecs)
    OBVIOUS
  <2> QED
    BY <2>1
<1>4. room = [f \in Files |-> room[f]]
  OBVIOUS
<1>5. wrd_buf' = [room EXCEPT ![at].del_buf = Append(@, x)]
  BY DEF Mark
<1> HIDE DEF room, at, x
<1>6. Append(room[at].del_buf, x) \in Seq(DelRecs)
  BY <1>1, <1>2, <1>3
<1>7. [room[at] EXCEPT !.del_buf = Append(@, x)] \in [data : Seq(WordRecs), del_buf : Seq(DelRecs)]
  BY <1>2, <1>3, <1>6
<1> QED
  BY <1>2, <1>3, <1>4, <1>5, <1>7

\* The word a thread comes to, and the buffer it goes to.
LEMMA AddWordTyped ==
    ASSUME ThreadOK, AddWord
    PROVE  /\ thread.words \in Seq(Words \X Nat) /\ thread.words # <<>>
           /\ thread.stamp \in 1..MaxCalls /\ thread.pc = "words"
           /\ FileOf[Head(thread.words)[1]] \in Files
           /\ LogWord(thread.stamp, thread.url, Head(thread.words)[1], Head(thread.words)[2]) \in WordRecs
<1>1. thread.words \in Seq(Words \X Nat) /\ thread.words # <<>> /\ thread.pc = "words"
  BY DEF AddWord, ThreadOK
<1>2. Head(thread.words) \in Words \X Nat
  BY <1>1
<1>3. Head(thread.words)[1] \in Words /\ Head(thread.words)[2] \in Nat
  BY <1>2
<1>4. thread.stamp \in 1..MaxCalls /\ thread.url \in Urls
  BY <1>1 DEF ThreadOK
<1> QED
  BY <1>1, <1>3, <1>4, LogsOnlyAssumption DEF Files, LogWord, WordRecs

\* What a buffer holds is appended to its log.
LEMMA SaveBufTyped ==
    ASSUME WayOK, NEW f \in Files, SaveBuf(f)
    PROVE  /\ log' \in [Files -> Seq(WordRecs) \cup {NoFile}]
           /\ \A g \in Files : g # f => log'[g] = log[g]
           /\ Read(log'[f]) = Read(log[f]) \o wrd_buf[f].data
<1>1. /\ wrd_buf[f].data \in Seq(WordRecs) /\ log[f] \in Seq(WordRecs) \cup {NoFile}
      /\ Read(log[f]) \in Seq(WordRecs)
  BY ReadTyped DEF WayOK, BufsOK
<1>2. CASE wrd_buf[f].data = <<>>
  <2>1. log' = [log EXCEPT ![f] = log[f]]
    BY <1>2 DEF SaveBuf
  <2>2. log' = log
    BY <2>1 DEF WayOK
  <2>3. Read(log[f]) \o <<>> = Read(log[f])
    BY <1>1
  <2> QED
    BY <1>2, <2>2, <2>3 DEF WayOK
<1>3. CASE wrd_buf[f].data # <<>>
  <2>1. log' = [log EXCEPT ![f] = Read(log[f]) \o wrd_buf[f].data]
    BY <1>3 DEF SaveBuf
  <2>2. Read(log[f]) \o wrd_buf[f].data \in Seq(WordRecs) /\ Read(log[f]) \o wrd_buf[f].data # <<>>
    BY <1>1, <1>3
  <2>3. Read(Read(log[f]) \o wrd_buf[f].data) = Read(log[f]) \o wrd_buf[f].data
    <3>1. NoFile \notin Seq(WordRecs)
      BY NoSuchFile
    <3> QED
      BY <2>2, <3>1 DEF Read
  <2> QED
    BY <2>1, <2>2, <2>3 DEF WayOK
<1> QED
  BY <1>2, <1>3
\* What DpsRotateDelLog copies are the first words of the log.
LEMMA CopiedTyped ==
    ASSUME NEW file \in Seq(WordRecs)
    PROVE  /\ Copied(file) \in Seq(WordRecs) /\ Len(Copied(file)) <= Len(file)
           /\ \A i \in 1..Len(Copied(file)) : Copied(file)[i] = file[i]
<1> DEFINE n == IF Len(file) < PathMax THEN Len(file) ELSE PathMax
<1>1. n \in Nat /\ n <= Len(file) /\ Len(file) \in Nat
  BY LogsOnlyAssumption
<1>2. Copied(file) = SubSeq(file, 1, n)
  BY DEF Copied
<1> HIDE DEF n
<1> QED
  BY <1>1, <1>2
\* Where the splitter may go.
LEMMA SplitterTyped ==
    ASSUME NEW at, NEW words \in Seq(WordRecs), NEW dels,
           \/ splitter' = Off
           \/ at \in Files /\ splitter' = [pc |-> "read", at |-> at, words |-> <<>>, dels |-> dels]
           \/ at \in Files /\ splitter' = [pc |-> "merge", at |-> at, words |-> words, dels |-> dels]
    PROVE  SplitterOK'
<1>1. <<>> \in Seq(WordRecs)
  OBVIOUS
<1>2. CASE splitter' = Off
  <2>1. splitter'.pc = "off" /\ splitter'.words = <<>>
    BY <1>2 DEF Off
  <2>2. splitter' = [pc |-> splitter'.pc, at |-> splitter'.at, words |-> splitter'.words, dels |-> splitter'.dels]
    BY <1>2 DEF Off
  <2> QED
    BY <1>1, <2>1, <2>2 DEF SplitterOK
<1>3. CASE at \in Files /\ splitter' = [pc |-> "read", at |-> at, words |-> <<>>, dels |-> dels]
  <2>1. splitter'.pc = "read" /\ splitter'.words = <<>> /\ splitter'.at = at /\ splitter'.dels = dels
    BY <1>3
  <2> QED
    BY <1>1, <1>3, <2>1 DEF SplitterOK
<1>4. CASE at \in Files /\ splitter' = [pc |-> "merge", at |-> at, words |-> words, dels |-> dels]
  <2>1. splitter'.pc = "merge" /\ splitter'.words = words /\ splitter'.at = at /\ splitter'.dels = dels
    BY <1>4
  <2> QED
    BY <1>1, <1>4, <2>1 DEF SplitterOK
<1> QED
  BY <1>2, <1>3, <1>4

\* The buffers, the files and the splitter keep their form.
LEMMA WayKept ==
    ASSUME FlushOK, ThreadOK, WayOK, [Next]_vars
    PROVE  WayOK'
<1> USE DEF WayOK
<1>1. CASE UNCHANGED <<wrd_buf, cur_del_buf, logs, split, splitter>>
  BY <1>1 DEF BufsOK, SplitterOK, logs
<1>2. CASE \/ UNCHANGED vars \/ Send \/ Done \/ Flush \/ BeginFlush \/ Create \/ CopyDels \/ Run \/ RemoveDels
  <2>1. UNCHANGED <<wrd_buf, cur_del_buf, logs, split, splitter>>
    BY <1>2 DEF vars, buffers, splits, Send, Done, Flush, BeginFlush, Create, CopyDels, Run, RemoveDels
  <2> QED
    BY <1>1, <2>1
<1>3. CASE Mark
  <2>1. UNCHANGED <<log, split, splitter>>
    BY <1>3 DEF Mark, splits
  <2>2. BufsOK'
    BY <1>3, MarkTyped
  <2> QED
    BY <2>1, <2>2 DEF SplitterOK
<1>4. CASE AddWord
  <2> DEFINE f == FileOf[Head(thread.words)[1]]
             x == LogWord(thread.stamp, thread.url, Head(thread.words)[1], Head(thread.words)[2])
  <2>1. f \in Files /\ x \in WordRecs
    BY <1>4, AddWordTyped
  <2>2. /\ \/ SaveBuf(f) /\ wrd_buf' = [wrd_buf EXCEPT ![f] = [Empty EXCEPT !.data = <<x>>]]
           \/ UNCHANGED logs /\ wrd_buf' = [wrd_buf EXCEPT ![f].data = Append(@, x)]
        /\ UNCHANGED <<cur_del_buf, split, splitter>>
    BY <1>4 DEF AddWord, splits
  <2> HIDE DEF f, x
  <2>3. log' \in [Files -> Seq(WordRecs) \cup {NoFile}]
    BY <2>1, <2>2, SaveBufTyped DEF logs
  <2>4. BufsOK'
    <3>1. <<x>> \in Seq(WordRecs) /\ <<>> \in Seq(DelRecs)
      BY <2>1
    <3>2. [Empty EXCEPT !.data = <<x>>] \in [data : Seq(WordRecs), del_buf : Seq(DelRecs)]
      BY <3>1 DEF Empty
    <3>3. [wrd_buf[f] EXCEPT !.data = Append(@, x)] \in [data : Seq(WordRecs), del_buf : Seq(DelRecs)]
      <4>1. wrd_buf[f] \in [data : Seq(WordRecs), del_buf : Seq(DelRecs)]
        BY <2>1 DEF BufsOK
      <4>2. Append(wrd_buf[f].data, x) \in Seq(WordRecs)
        BY <2>1, <4>1
      <4> QED
        BY <4>1, <4>2
    <3> QED
      BY <2>1, <2>2, <3>2, <3>3 DEF BufsOK
  <2> QED
    BY <2>2, <2>3, <2>4 DEF SplitterOK
<1>5. CASE SaveNext
  <2>1. /\ flush.at \in Files /\ SaveBuf(flush.at)
        /\ wrd_buf' = [wrd_buf EXCEPT ![flush.at] = Empty]
        /\ UNCHANGED <<cur_del_buf, split, splitter>>
    BY <1>5 DEF SaveNext, splits, FlushOK
  <2>2. log' \in [Files -> Seq(WordRecs) \cup {NoFile}]
    BY <2>1, SaveBufTyped
  <2>3. BufsOK'
    <3>1. Empty \in [data : Seq(WordRecs), del_buf : Seq(DelRecs)]
      <4>1. <<>> \in Seq(WordRecs) /\ <<>> \in Seq(DelRecs)
        OBVIOUS
      <4> QED
        BY <4>1 DEF Empty
    <3> QED
      BY <2>1, <3>1 DEF BufsOK
  <2> QED
    BY <2>1, <2>2, <2>3 DEF SplitterOK
<1>6. CASE ResetDelBuf
  BY <1>6, LogsOnlyAssumption DEF ResetDelBuf, BufsOK, SplitterOK, logs, splits, Files
<1>7. CASE Rename \/ Copy \/ Cut
  <2>1. flush.at \in Files /\ UNCHANGED <<wrd_buf, cur_del_buf, splitter>>
    BY <1>7 DEF Rename, Copy, Cut, FlushOK, buffers
  <2>2. Read(log[flush.at]) \in Seq(WordRecs) /\ <<>> \in Seq(WordRecs)
    BY <2>1, ReadTyped
  <2>3. log' \in [Files -> Seq(WordRecs) \cup {NoFile}]
    BY <1>7, <2>1, <2>2 DEF Rename, Copy, Cut
  <2>4. split' \in [Files -> Seq(WordRecs) \cup {NoFile}]
    <3>1. CASE Rename \/ Cut
      BY <2>1, <3>1 DEF Rename, Cut, splits
    <3>2. CASE Copy
      <4>1. split[flush.at] \in Seq(WordRecs)
        BY <2>1, <3>2 DEF Copy
      <4>2. split[flush.at] \o Copied(Read(log[flush.at])) \in Seq(WordRecs)
        BY <2>2, <4>1, CopiedTyped
      <4> QED
        BY <2>1, <3>2, <4>2 DEF Copy
    <3> QED
      BY <1>7, <3>1, <3>2
  <2> QED
    BY <2>1, <2>3, <2>4 DEF BufsOK, SplitterOK
<1>8. CASE CutDels
  BY <1>8 DEF CutDels, buffers, splits, BufsOK, SplitterOK
<1>9. CASE Start \/ RunBare \/ Die
  <2>1. UNCHANGED <<wrd_buf, cur_del_buf, log, split>> /\ (splitter' = Off \/ SplitterOn)
    BY <1>9 DEF Start, RunBare, Die, buffers, logs, splits
  <2>2. <<>> \in Seq(WordRecs) /\ 1 \in Files
    BY LogsOnlyAssumption DEF Files
  <2>3. SplitterOK'
    BY <2>1, <2>2, SplitterTyped DEF SplitterOn
  <2> QED
    BY <2>1, <2>3 DEF BufsOK
<1>10. CASE Take
  <2>1. /\ splitter.pc = "read" /\ splitter.at \in Files
        /\ splitter' = [splitter EXCEPT !.pc = "merge", !.words = Read(split[splitter.at])]
        /\ split' = [split EXCEPT ![splitter.at] = IF Read(@) = <<>> THEN @ ELSE NoFile]
        /\ UNCHANGED <<wrd_buf, cur_del_buf, log>>
    BY <1>10 DEF Take, buffers, logs, SplitterOK
  <2>2. Read(split[splitter.at]) \in Seq(WordRecs)
    BY <2>1, ReadTyped
  <2>3. splitter' = [pc |-> "merge", at |-> splitter.at, words |-> Read(split[splitter.at]), dels |-> splitter.dels]
    BY <2>1 DEF SplitterOK
  <2>4. SplitterOK'
    BY <2>1, <2>2, <2>3, SplitterTyped
  <2> QED
    BY <2>1, <2>4 DEF BufsOK
<1>11. CASE Put
  <2>1. /\ splitter.pc = "merge" /\ splitter.at \in Files
        /\ splitter' = IF splitter.at = WrdFiles THEN Off
                       ELSE [splitter EXCEPT !.pc = "read", !.at = @ + 1, !.words = <<>>]
        /\ UNCHANGED <<wrd_buf, cur_del_buf, log, split>>
    BY <1>11 DEF Put, buffers, logs, splits, SplitterOK
  <2>2. <<>> \in Seq(WordRecs)
    OBVIOUS
  <2>3. \/ splitter' = Off
        \/ /\ splitter' = [pc |-> "read", at |-> splitter.at + 1, words |-> <<>>, dels |-> splitter.dels]
           /\ splitter.at + 1 \in Files
    <3>1. CASE splitter.at = WrdFiles
      BY <2>1, <3>1
    <3>2. CASE splitter.at # WrdFiles
      <4>1. splitter.at + 1 \in Files
        BY <2>1, <3>2, LogsOnlyAssumption DEF Files
      <4>2. splitter' = [splitter EXCEPT !.pc = "read", !.at = splitter.at + 1, !.words = <<>>]
        BY <2>1, <3>2
      <4>3. splitter = [pc |-> splitter.pc, at |-> splitter.at, words |-> splitter.words, dels |-> splitter.dels]
        BY DEF SplitterOK
      <4> QED
        BY <4>1, <4>2, <4>3
    <3> QED
      BY <3>1, <3>2
  <2>4. SplitterOK'
    BY <2>2, <2>3, SplitterTyped
  <2> QED
    BY <2>1, <2>4 DEF BufsOK
<1> QED
  BY <1>2, <1>3, <1>4, <1>5, <1>6, <1>7, <1>8, <1>9, <1>10, <1>11 DEF Next
\* The words at the places of file g before and after a step.
Both(g) ==
    /\ OnTheWay[<<"data", g>>] = wrd_buf[g].data
    /\ OnTheWay'[<<"data", g>>] = wrd_buf'[g].data
    /\ OnTheWay[<<"log", g>>] = IF flush = [pc |-> "cut", at |-> g] THEN <<>> ELSE Read(log[g])
    /\ OnTheWay'[<<"log", g>>] = IF flush' = [pc |-> "cut", at |-> g] THEN <<>> ELSE Read(log'[g])
    /\ OnTheWay[<<"split", g>>] = Read(split[g])
    /\ OnTheWay'[<<"split", g>>] = Read(split'[g])
    /\ OnTheWay[<<"splitter", g>>] = IF splitter.at = g THEN splitter.words ELSE <<>>
    /\ OnTheWay'[<<"splitter", g>>] = IF splitter'.at = g THEN splitter'.words ELSE <<>>

LEMMA Views ==
    ASSUME Shown, Shown', NEW g \in Files
    PROVE  Both(g)
BY DEF Shown, Read, Both

\* The thread as it was, and so the words that may be somewhere.
LEMMA SameThread ==
    ASSUME Current, UNCHANGED <<thread, now>>
    PROVE  Current' /\ Past' = Past
BY DEF Current, Past, Coming, Distinct

LEMMA InsideMore ==
    ASSUME NEW P, NEW M, NEW A, NEW B, Inside(P, M, A), A \subseteq B
    PROVE  Inside(P, M, B)
BY DEF Inside

\* A step in which words stay where they are or are lost.
LEMMA DropKept ==
    ASSUME OnceInv, WayOK', Current', Past \subseteq Past', merged' = merged,
           \A p \in Places : OnTheWay'[p] = OnTheWay[p] \/ OnTheWay'[p] = <<>>
    PROVE  OnceInv'
<1>1. Shown /\ Shown'
  BY ShownNow, ShownNext DEF OnceInv
<1>2. OnTheWay \in Ways /\ OnTheWay' \in Ways
  BY <1>1 DEF Shown, Ways
<1>3. Apart(OnTheWay', merged) /\ Inside(OnTheWay', merged, Past)
  BY <1>2, Dropped DEF OnceInv
<1>4. Inside(OnTheWay', merged, Past')
  BY <1>3, InsideMore
<1>5. Apart(OnTheWay, merged)' /\ Inside(OnTheWay, merged, Past)'
  BY <1>3, <1>4 DEF Apart, Inside
<1> QED
  BY <1>5 DEF OnceInv

\* A step in which the first words of one place go to another.
LEMMA MoveKept ==
    ASSUME OnceInv, WayOK', UNCHANGED <<thread, now, merged>>,
           NEW a \in Places, NEW b \in Places, a # b, NEW c \in Seq(WordRecs),
           Len(c) <= Len(OnTheWay[b]), \A i \in 1..Len(c) : c[i] = OnTheWay[b][i],
           OnTheWay'[a] = OnTheWay[a] \o c, OnTheWay'[b] = <<>>,
           \A p \in Places : p # a /\ p # b => OnTheWay'[p] = OnTheWay[p]
    PROVE  OnceInv'
<1>1. Shown /\ Shown'
  BY ShownNow, ShownNext DEF OnceInv
<1>2. OnTheWay \in Ways /\ OnTheWay' \in Ways
  BY <1>1 DEF Shown, Ways
<1>3. Apart(OnTheWay', merged) /\ Inside(OnTheWay', merged, Past)
  BY <1>2, Moved DEF OnceInv
<1>4. Current' /\ Past' = Past
  BY SameThread DEF OnceInv
<1>5. Apart(OnTheWay, merged)' /\ Inside(OnTheWay, merged, Past)'
  BY <1>3, <1>4 DEF Apart, Inside
<1> QED
  BY <1>4, <1>5 DEF OnceInv

\* The flush and the splitter, except for what they move.
LEMMA StillOnce ==
    ASSUME OnceInv, FlushOK, WayOK',
           \/ UNCHANGED vars \/ Flush \/ BeginFlush \/ ResetDelBuf \/ Create \/ CopyDels \/ CutDels \/ Run
           \/ RemoveDels \/ Cut \/ Start \/ RunBare \/ Die
    PROVE  OnceInv'
<1>1. Shown /\ Shown'
  BY ShownNow, ShownNext DEF OnceInv
<1>2. UNCHANGED <<wrd_buf, split, merged, thread, now>>
  BY DEF vars, buffers, logs, marks, splits, sent, index, Flush, BeginFlush, ResetDelBuf, Create, CopyDels, CutDels,
     Run, RemoveDels, Cut, Start, RunBare, Die
<1>3. splitter' = splitter \/ splitter'.words = <<>>
  <2>1. splitter' = splitter \/ splitter' = Off \/ SplitterOn
    BY DEF vars, Flush, BeginFlush, ResetDelBuf, Create, CopyDels, CutDels, Run, RemoveDels, Cut, Start, RunBare, Die
  <2> QED
    BY <2>1 DEF Off, SplitterOn
<1>4. \/ log' = log /\ (flush' = flush \/ (flush.pc # "cut" /\ flush'.pc # "cut"))
      \/ flush'.pc # "cut" /\ log' = [log EXCEPT ![flush.at] = <<>>]
         /\ flush = [pc |-> "cut", at |-> flush.at]
  <2>1. CASE UNCHANGED vars \/ Flush \/ Run \/ RemoveDels \/ Start \/ RunBare \/ Die
    BY <2>1 DEF vars, logs, control, Flush, Run, RemoveDels, Start, RunBare, Die
  <2>2. CASE BeginFlush \/ CutDels
    BY <2>2 DEF BeginFlush, CutDels, Resting, logs
  <2>3. CASE ResetDelBuf \/ Create \/ CopyDels
    BY <2>3 DEF ResetDelBuf, Create, CopyDels, FlushOK, logs
  <2>4. CASE Cut
    <3>1. flush = [pc |-> "cut", at |-> flush.at]
      BY <2>4 DEF Cut, FlushOK
    <3> QED
      BY <2>4, <3>1 DEF Cut, NextFile
  <2> QED
    BY <2>1, <2>2, <2>3, <2>4
<1>5. \A f \in Files : /\ OnTheWay'[<<"data", f>>] = OnTheWay[<<"data", f>>]
                       /\ OnTheWay'[<<"split", f>>] = OnTheWay[<<"split", f>>]
                       /\ \/ OnTheWay'[<<"splitter", f>>] = OnTheWay[<<"splitter", f>>]
                          \/ OnTheWay'[<<"splitter", f>>] = <<>>
                       /\ \/ OnTheWay'[<<"log", f>>] = OnTheWay[<<"log", f>>]
                          \/ OnTheWay'[<<"log", f>>] = <<>>
  <2> SUFFICES ASSUME NEW f \in Files
               PROVE  /\ OnTheWay'[<<"data", f>>] = OnTheWay[<<"data", f>>]
                      /\ OnTheWay'[<<"split", f>>] = OnTheWay[<<"split", f>>]
                      /\ \/ OnTheWay'[<<"splitter", f>>] = OnTheWay[<<"splitter", f>>]
                         \/ OnTheWay'[<<"splitter", f>>] = <<>>
                      /\ \/ OnTheWay'[<<"log", f>>] = OnTheWay[<<"log", f>>]
                         \/ OnTheWay'[<<"log", f>>] = <<>>
    OBVIOUS
  <2>v. Both(f)
    BY <1>1, Views
  <2>1. OnTheWay'[<<"data", f>>] = OnTheWay[<<"data", f>>] /\ OnTheWay'[<<"split", f>>] = OnTheWay[<<"split", f>>]
    BY <1>2, <2>v DEF Both
  <2>2. \/ OnTheWay'[<<"splitter", f>>] = OnTheWay[<<"splitter", f>>]
        \/ OnTheWay'[<<"splitter", f>>] = <<>>
    BY <1>3, <2>v DEF Both
  <2>3. \/ OnTheWay'[<<"log", f>>] = OnTheWay[<<"log", f>>]
        \/ OnTheWay'[<<"log", f>>] = <<>>
    <3>1. /\ OnTheWay[<<"log", f>>] = IF flush = [pc |-> "cut", at |-> f] THEN <<>> ELSE Read(log[f])
          /\ OnTheWay'[<<"log", f>>] = IF flush' = [pc |-> "cut", at |-> f] THEN <<>> ELSE Read(log'[f])
      BY <2>v DEF Both
    <3>2. CASE log' = log /\ (flush' = flush \/ (flush.pc # "cut" /\ flush'.pc # "cut"))
      BY <3>1, <3>2
    <3>3. CASE /\ flush'.pc # "cut" /\ log' = [log EXCEPT ![flush.at] = <<>>]
               /\ flush = [pc |-> "cut", at |-> flush.at]
      <4>1. log \in [Files -> Seq(WordRecs) \cup {NoFile}]
        BY DEF OnceInv, WayOK
      <4>2. CASE f = flush.at
        <5>1. log'[f] = <<>>
          BY <3>3, <4>1, <4>2
        <5> QED
          BY <3>1, <5>1 DEF Read
      <4>3. CASE f # flush.at
        <5>1. log'[f] = log[f] /\ flush # [pc |-> "cut", at |-> f]
          BY <3>3, <4>1, <4>3
        <5> QED
          BY <3>1, <3>3, <5>1
      <4> QED
        BY <4>2, <4>3
    <3> QED
      BY <1>4, <3>2, <3>3
  <2> QED
    BY <2>1, <2>2, <2>3
<1>6. \A p \in Places : OnTheWay'[p] = OnTheWay[p] \/ OnTheWay'[p] = <<>>
  BY <1>5, PlaceOf
<1>7. Current' /\ Past' = Past
  BY <1>2, SameThread DEF OnceInv
<1> QED
  BY <1>2, <1>6, <1>7, DropKept
\* The words of a document are new when it is sent.
LEMMA SendOnce ==
    ASSUME \A d \in Docs : Distinct(d), ThreadOK, ThreadOK', OnceInv, WayOK', Send
    PROVE  OnceInv'
<1>1. /\ thread.pc = "idle" /\ now' = now + 1 /\ merged' = merged
      /\ UNCHANGED <<wrd_buf, log, split, splitter, flush>>
  BY DEF Send, logs, splits, index, control
<1>2. PICK d \in Docs \cup {<<>>} : thread'.words = d /\ thread'.stamp = now'
  BY DEF Send
<1>3. Current'
  BY <1>2 DEF Current, Distinct
<1>4. Past \subseteq Past'
  <2> SUFFICES ASSUME NEW x \in WordRecs, x.stamp <= now
               PROVE  x.stamp <= now' /\ x \notin Coming'
    BY DEF Past
  <2>1. now \in Nat /\ x.stamp \in Int
    BY LogsOnlyAssumption DEF ThreadOK, WordRecs
  <2>2. \A y \in Coming' : y.stamp = now'
    BY <1>2 DEF Coming, LogWord
  <2> QED
    BY <1>1, <2>1, <2>2
<1>5. OnTheWay' = OnTheWay
  BY <1>1 DEF OnTheWay
<1> QED
  BY <1>1, <1>3, <1>4, <1>5, DropKept

LEMMA MarkOnce ==
    ASSUME ThreadOK, OnceInv, WayOK', Mark \/ Done
    PROVE  OnceInv'
<1>1. UNCHANGED <<log, split, splitter, flush, merged, now>>
  BY DEF Mark, Done, logs, splits, index, control, sent
<1>2. \A f \in Files : wrd_buf'[f].data = wrd_buf[f].data
  BY MarkTyped DEF OnceInv, WayOK, Done
<1>3. Current' /\ Past \subseteq Past'
  <2>1. CASE Mark
    <3>1. thread.pc # "idle" /\ thread'.words = thread.words /\ thread'.url = thread.url /\ thread'.stamp = thread.stamp
      BY <2>1 DEF Mark, ThreadOK
    <3>2. Coming' = Coming
      BY <3>1 DEF Coming
    <3> QED
      BY <1>1, <3>1, <3>2 DEF OnceInv, Current, Past
  <2>2. CASE Done
    BY <1>1, <2>2 DEF Done, Idle, Current, Past, Distinct
  <2> QED
    BY <2>1, <2>2
<1>4. \A p \in Places : OnTheWay'[p] = OnTheWay[p]
  <2>1. Shown /\ Shown'
    BY ShownNow, ShownNext DEF OnceInv
  <2> SUFFICES ASSUME NEW g \in Files
               PROVE  /\ OnTheWay'[<<"data", g>>] = OnTheWay[<<"data", g>>]
                      /\ OnTheWay'[<<"log", g>>] = OnTheWay[<<"log", g>>]
                      /\ OnTheWay'[<<"split", g>>] = OnTheWay[<<"split", g>>]
                      /\ OnTheWay'[<<"splitter", g>>] = OnTheWay[<<"splitter", g>>]
    <3> SUFFICES ASSUME NEW p \in Places
                 PROVE  OnTheWay'[p] = OnTheWay[p]
      OBVIOUS
    <3>1. PICK g \in Files : p = <<"data", g>> \/ p = <<"log", g>> \/ p = <<"split", g>> \/ p = <<"splitter", g>>
      BY PlaceOf
    <3> QED
      BY <3>1
  <2>v. Both(g)
    BY <2>1, Views
  <2> QED
    BY <1>1, <1>2, <2>v DEF Both
<1> QED
  BY <1>1, <1>3, <1>4, DropKept

\* The splitter takes the words of a file.
LEMMA TakeOnce ==
    ASSUME OnceInv, WayOK', Take
    PROVE  OnceInv'
<1> DEFINE f == splitter.at
           a == <<"splitter", f>>
           b == <<"split", f>>
<1>1. Shown /\ Shown'
  BY ShownNow, ShownNext DEF OnceInv
<1>2. /\ f \in Files /\ splitter.words = <<>>
      /\ splitter'.at = f /\ splitter'.words = Read(split[f])
      /\ split' = [split EXCEPT ![f] = IF Read(@) = <<>> THEN @ ELSE NoFile]
      /\ UNCHANGED <<wrd_buf, log, flush, thread, now, merged>>
  BY DEF Take, OnceInv, WayOK, SplitterOK, buffers, logs, sent, index, control
<1>3. Read(split'[f]) = <<>> /\ \A g \in Files : g # f => split'[g] = split[g]
  BY <1>2 DEF OnceInv, WayOK, Read
<1>4. a \in Places /\ b \in Places /\ a # b
  BY <1>2, PlaceOf
<1>5. OnTheWay[a] = <<>> /\ OnTheWay'[a] = OnTheWay[b] /\ OnTheWay'[b] = <<>>
  BY <1>1, <1>2, <1>3 DEF Shown, Read
<1>6. \A p \in Places : p # a /\ p # b => OnTheWay'[p] = OnTheWay[p]
  <2> SUFFICES ASSUME NEW g \in Files
               PROVE  /\ OnTheWay'[<<"data", g>>] = OnTheWay[<<"data", g>>]
                      /\ OnTheWay'[<<"log", g>>] = OnTheWay[<<"log", g>>]
                      /\ g # f => /\ OnTheWay'[<<"split", g>>] = OnTheWay[<<"split", g>>]
                                  /\ OnTheWay'[<<"splitter", g>>] = OnTheWay[<<"splitter", g>>]
    <3> SUFFICES ASSUME NEW p \in Places, p # a, p # b
                 PROVE  OnTheWay'[p] = OnTheWay[p]
      OBVIOUS
    <3>1. PICK g \in Files : p = <<"data", g>> \/ p = <<"log", g>> \/ p = <<"split", g>> \/ p = <<"splitter", g>>
      BY PlaceOf
    <3> QED
      BY <3>1
  <2>v. Both(g)
    BY <1>1, Views
  <2> QED
    BY <1>2, <1>3, <2>v DEF Both
<1>7. OnTheWay[b] \in Seq(WordRecs) /\ Len(OnTheWay[b]) <= Len(OnTheWay[b])
  <2>1. OnTheWay[b] \in Seq(WordRecs)
    BY <1>1, <1>4 DEF Shown, Ways
  <2> QED
    BY <2>1
<1> HIDE DEF a, b, f
<1>8. OnTheWay'[a] = OnTheWay[a] \o OnTheWay[b]
  BY <1>5, <1>7
<1> QED
  BY <1>2, <1>4, <1>5, <1>6, <1>7, <1>8, MoveKept

\* The splitter merges its words, which are in no other place.
LEMMA PutOnce ==
    ASSUME OnceInv, WayOK', Put
    PROVE  OnceInv'
<1> DEFINE f == splitter.at
           b == <<"splitter", f>>
<1>1. Shown /\ Shown'
  BY ShownNow, ShownNext DEF OnceInv
<1>2. /\ f \in Files /\ merged' = merged \cup ToSet(splitter.words)
      /\ UNCHANGED <<wrd_buf, log, split, flush, thread, now>>
  BY DEF Put, OnceInv, WayOK, SplitterOK, buffers, logs, splits, sent
<1>3. splitter'.words = <<>>
  BY DEF Put, OnceInv, WayOK, SplitterOK, Off
<1>4. b \in Places
  BY <1>2, PlaceOf
<1>5. OnTheWay[b] = splitter.words /\ OnTheWay'[b] = <<>>
  BY <1>1, <1>2, <1>3 DEF Shown
<1>6. \A p \in Places : p # b => OnTheWay'[p] = OnTheWay[p]
  <2> SUFFICES ASSUME NEW g \in Files
               PROVE  /\ OnTheWay'[<<"data", g>>] = OnTheWay[<<"data", g>>]
                      /\ OnTheWay'[<<"log", g>>] = OnTheWay[<<"log", g>>]
                      /\ OnTheWay'[<<"split", g>>] = OnTheWay[<<"split", g>>]
                      /\ g # f => OnTheWay'[<<"splitter", g>>] = OnTheWay[<<"splitter", g>>]
    BY PlaceOf
  <2>v. Both(g)
    BY <1>1, Views
  <2> QED
    BY <1>2, <1>3, <2>v DEF Both
<1> HIDE DEF b
<1>7. OnTheWay \in Ways /\ OnTheWay' \in Ways
  BY <1>1 DEF Shown, Ways
<1>8. Apart(OnTheWay', merged') /\ Inside(OnTheWay', merged', Past)
  BY <1>2, <1>4, <1>5, <1>6, <1>7, MergedIn DEF OnceInv
<1>9. Current' /\ Past' = Past
  BY <1>2, SameThread DEF OnceInv
<1>10. Apart(OnTheWay, merged)' /\ Inside(OnTheWay, merged, Past)'
  BY <1>8, <1>9 DEF Apart, Inside
<1> QED
  BY <1>9, <1>10 DEF OnceInv
\* What buffer f leaves behind when it is saved.
Saved(f) == [OnTheWay EXCEPT
    ![<<"data", f>>] = <<>>,
    ![<<"log", f>>] = IF flush = [pc |-> "cut", at |-> f] THEN <<>> ELSE Read(log'[f])]

LEMMA SavedOnce ==
    ASSUME OnceInv, NEW f \in Files, SaveBuf(f)
    PROVE  /\ Saved(f) \in Ways /\ Apart(Saved(f), merged) /\ Inside(Saved(f), merged, Past)
           /\ Saved(f)[<<"data", f>>] = <<>>
           /\ Saved(f)[<<"log", f>>] = IF flush = [pc |-> "cut", at |-> f] THEN <<>> ELSE Read(log'[f])
           /\ \A p \in Places : p # <<"data", f>> /\ p # <<"log", f>> => Saved(f)[p] = OnTheWay[p]
<1> DEFINE a == <<"log", f>>
           b == <<"data", f>>
           L == IF flush = [pc |-> "cut", at |-> f] THEN <<>> ELSE Read(log'[f])
<1>1. a \in Places /\ b \in Places /\ a # b
  BY PlaceOf
<1>2. Shown
  BY ShownNow DEF OnceInv
<1>3. OnTheWay \in Ways
  BY <1>2 DEF Shown
<1>4. OnTheWay[b] = wrd_buf[f].data /\ OnTheWay[b] \in Seq(WordRecs) /\ OnTheWay[a] \in Seq(WordRecs)
  BY <1>1, <1>2, <1>3 DEF Shown, Ways
<1>5. OnTheWay[a] = IF flush = [pc |-> "cut", at |-> f] THEN <<>> ELSE Read(log[f])
  BY <1>2 DEF Shown
<1>6. Read(log'[f]) = Read(log[f]) \o wrd_buf[f].data
  BY SaveBufTyped DEF OnceInv
<1>7. L = <<>> \/ L = OnTheWay[a] \o OnTheWay[b]
  BY <1>4, <1>5, <1>6
<1>8. L \in Seq(WordRecs) /\ <<>> \in Seq(WordRecs)
  <2> HIDE DEF a, b, L
  <2>1. <<>> \in Seq(WordRecs) /\ OnTheWay[a] \o OnTheWay[b] \in Seq(WordRecs)
    BY <1>4
  <2> QED
    BY <1>7, <2>1
<1>9. Saved(f) = [OnTheWay EXCEPT ![b] = <<>>, ![a] = L]
  BY DEF Saved
<1> HIDE DEF a, b, L
<1>10. Saved(f) \in Ways
  BY <1>1, <1>3, <1>8, <1>9 DEF Ways
<1>11. /\ Saved(f)[b] = <<>> /\ Saved(f)[a] = L
       /\ \A p \in Places : p # b /\ p # a => Saved(f)[p] = OnTheWay[p]
  BY <1>1, <1>3, <1>9 DEF Ways
<1>12. Apart(Saved(f), merged) /\ Inside(Saved(f), merged, Past)
  <2>1. CASE L = <<>>
    <3>1. \A p \in Places : Saved(f)[p] = OnTheWay[p] \/ Saved(f)[p] = <<>>
      BY <1>11, <2>1
    <3> QED
      BY <1>3, <1>10, <3>1, Dropped DEF OnceInv
  <2>2. CASE L = OnTheWay[a] \o OnTheWay[b]
    <3>1. PICK c \in Seq(WordRecs) : c = OnTheWay[b]
      BY <1>4
    <3>2. /\ Len(c) <= Len(OnTheWay[b]) /\ \A i \in 1..Len(c) : c[i] = OnTheWay[b][i]
          /\ Saved(f)[a] = OnTheWay[a] \o c /\ Saved(f)[b] = <<>>
      BY <1>11, <2>2, <3>1
    <3>3. Apart(OnTheWay, merged) /\ Inside(OnTheWay, merged, Past)
      BY DEF OnceInv
    <3>4. \A p \in Places : p # a /\ p # b => Saved(f)[p] = OnTheWay[p]
      BY <1>11
    <3> QED
      BY <1>1, <1>3, <1>10, <3>2, <3>3, <3>4, Moved
  <2> QED
    BY <1>7, <2>1, <2>2
<1> QED
  BY <1>10, <1>11, <1>12 DEF a, b, L

\* The words of a buffer go to its log.
LEMMA SaveNextOnce ==
    ASSUME OnceInv, FlushOK, WayOK', SaveNext
    PROVE  OnceInv'
<1> DEFINE f == flush.at
<1>1. Shown /\ Shown'
  BY ShownNow, ShownNext DEF OnceInv
<1>2. /\ f \in Files /\ SaveBuf(f) /\ flush.pc = "save" /\ flush'.pc # "cut"
      /\ wrd_buf' = [wrd_buf EXCEPT ![f] = Empty]
      /\ UNCHANGED <<split, splitter, thread, now, merged>>
  BY DEF SaveNext, FlushOK, NextFile, splits, sent, index
<1>3. /\ wrd_buf'[f].data = <<>> /\ \A g \in Files : g # f => wrd_buf'[g] = wrd_buf[g] /\ log'[g] = log[g]
  BY <1>2, SaveBufTyped DEF OnceInv, WayOK, BufsOK, Empty
<1> HIDE DEF f
<1>4. \A p \in Places : OnTheWay'[p] = Saved(f)[p]
  <2> SUFFICES ASSUME NEW g \in Files
               PROVE  /\ OnTheWay'[<<"data", g>>] = Saved(f)[<<"data", g>>]
                      /\ OnTheWay'[<<"log", g>>] = Saved(f)[<<"log", g>>]
                      /\ OnTheWay'[<<"split", g>>] = Saved(f)[<<"split", g>>]
                      /\ OnTheWay'[<<"splitter", g>>] = Saved(f)[<<"splitter", g>>]
    <3> SUFFICES ASSUME NEW p \in Places
                 PROVE  OnTheWay'[p] = Saved(f)[p]
      OBVIOUS
    <3>1. PICK g \in Files : p = <<"data", g>> \/ p = <<"log", g>> \/ p = <<"split", g>> \/ p = <<"splitter", g>>
      BY PlaceOf
    <3> QED
      BY <3>1
  <2>v. Both(g)
    BY <1>1, Views
  <2>1. \A p \in Places : p # <<"data", f>> /\ p # <<"log", f>> => Saved(f)[p] = OnTheWay[p]
    BY <1>2, SavedOnce
  <2>2. /\ OnTheWay'[<<"split", g>>] = Saved(f)[<<"split", g>>]
        /\ OnTheWay'[<<"splitter", g>>] = Saved(f)[<<"splitter", g>>]
    <3>1. /\ Saved(f)[<<"split", g>>] = OnTheWay[<<"split", g>>]
          /\ Saved(f)[<<"splitter", g>>] = OnTheWay[<<"splitter", g>>]
      BY <2>1, PlaceOf
    <3> QED
      BY <1>2, <2>v, <3>1 DEF Both
  <2>3. CASE g = f
    <3>1. Saved(f)[<<"data", f>>] = <<>> /\ Saved(f)[<<"log", f>>] = Read(log'[f])
      BY <1>2, SavedOnce
    <3> QED
      BY <1>2, <1>3, <2>2, <2>3, <2>v, <3>1 DEF Both
  <2>4. CASE g # f
    <3>1. /\ Saved(f)[<<"data", g>>] = OnTheWay[<<"data", g>>]
          /\ Saved(f)[<<"log", g>>] = OnTheWay[<<"log", g>>]
      BY <2>1, <2>4, PlaceOf
    <3> QED
      BY <1>2, <1>3, <2>2, <2>4, <2>v, <3>1 DEF Both
  <2> QED
    BY <2>3, <2>4
<1>5. OnTheWay' = Saved(f)
  <2>1. OnTheWay' \in Ways /\ Saved(f) \in Ways
    BY <1>1, <1>2, SavedOnce DEF Shown, Ways
  <2> QED
    BY <1>4, <2>1 DEF Ways
<1>6. Apart(OnTheWay', merged) /\ Inside(OnTheWay', merged, Past)
  BY <1>2, <1>5, SavedOnce
<1>7. Current' /\ Past' = Past
  BY <1>2, SameThread DEF OnceInv
<1>8. Apart(OnTheWay, merged)' /\ Inside(OnTheWay, merged, Past)'
  BY <1>2, <1>6, <1>7 DEF Apart, Inside
<1> QED
  BY <1>7, <1>8 DEF OnceInv
\* The log of a file becomes its split file, or goes behind what is there.
LEMMA RotateOnce ==
    ASSUME OnceInv, FlushOK, WayOK', Rename \/ Copy
    PROVE  OnceInv'
<1> DEFINE f == flush.at
           a == <<"split", f>>
           b == <<"log", f>>
           c == IF Copy THEN Copied(Read(log[f])) ELSE Read(log[f])
<1>1. Shown /\ Shown'
  BY ShownNow, ShownNext DEF OnceInv
<1>2. /\ f \in Files /\ flush.pc = "rotate" /\ UNCHANGED <<wrd_buf, splitter, thread, now, merged>>
  BY DEF Rename, Copy, FlushOK, buffers, sent, index
<1>3. /\ log[f] \in Seq(WordRecs) \cup {NoFile} /\ Read(log[f]) \in Seq(WordRecs)
      /\ log \in [Files -> Seq(WordRecs) \cup {NoFile}] /\ split \in [Files -> Seq(WordRecs) \cup {NoFile}]
  BY <1>2, ReadTyped DEF OnceInv, WayOK
<1>4. /\ c \in Seq(WordRecs) /\ Len(c) <= Len(Read(log[f]))
      /\ \A i \in 1..Len(c) : c[i] = Read(log[f])[i]
  <2>1. Len(Read(log[f])) <= Len(Read(log[f]))
    BY <1>3
  <2>2. CASE c = Read(log[f])
    BY <1>3, <2>1, <2>2
  <2>3. CASE c = Copied(Read(log[f]))
    BY <1>3, <2>3, CopiedTyped
  <2> QED
    BY <2>2, <2>3
<1>5. Read(split'[f]) = Read(split[f]) \o c
  <2>1. CASE Copy
    <3>1. split[f] \in Seq(WordRecs) /\ Read(split[f]) = split[f]
      BY <1>2, <1>3, <2>1 DEF Copy, Read
    <3>2. split'[f] = split[f] \o c
      BY <1>2, <1>3, <2>1 DEF Copy
    <3>3. split'[f] # NoFile
      <4>1. split[f] \o c \in Seq(WordRecs)
        BY <1>4, <3>1
      <4> QED
        BY <3>2, <4>1, NoSuchFile
    <3> QED
      BY <3>1, <3>2, <3>3 DEF Read
  <2>2. CASE ~Copy
    <3>1. split[f] = NoFile /\ split'[f] = log[f] /\ c = Read(log[f])
      BY <1>2, <1>3, <2>2 DEF Rename
    <3>2. <<>> \o Read(log[f]) = Read(log[f])
      BY <1>3
    <3> QED
      BY <3>1, <3>2 DEF Read
  <2> QED
    BY <2>1, <2>2
<1>6. \A g \in Files : g # f => split'[g] = split[g] /\ log'[g] = log[g]
  BY <1>3 DEF Rename, Copy
<1>7. \/ flush' = [pc |-> "cut", at |-> f]
      \/ flush'.pc # "cut" /\ Read(log'[f]) = <<>>
  <2>1. CASE Copy
    <3>1. flush' = [flush EXCEPT !.pc = "cut"]
      BY <2>1 DEF Copy
    <3> QED
      BY <3>1 DEF FlushOK
  <2>2. CASE Rename
    BY <1>2, <1>3, <2>2 DEF Rename, NextFile, Read
  <2> QED
    BY <2>1, <2>2
<1>8. flush'.pc # "cut" \/ flush' = [pc |-> "cut", at |-> f]
  BY <1>7
<1>9. a \in Places /\ b \in Places /\ a # b
  BY <1>2, PlaceOf
<1>10. /\ OnTheWay[b] = Read(log[f]) /\ OnTheWay'[b] = <<>>
       /\ OnTheWay[a] = Read(split[f]) /\ OnTheWay'[a] = Read(split'[f])
  <2>v. Both(f)
    BY <1>1, <1>2, Views
  <2> HIDE DEF f
  <2> QED
    BY <1>2, <1>7, <2>v DEF Both
<1>11. ASSUME NEW g \in Files
       PROVE  /\ OnTheWay'[<<"data", g>>] = OnTheWay[<<"data", g>>]
              /\ OnTheWay'[<<"splitter", g>>] = OnTheWay[<<"splitter", g>>]
              /\ g # f => /\ OnTheWay'[<<"log", g>>] = OnTheWay[<<"log", g>>]
                          /\ OnTheWay'[<<"split", g>>] = OnTheWay[<<"split", g>>]
  <2>v. Both(g)
    BY <1>1, Views
  <2>1. /\ OnTheWay'[<<"data", g>>] = OnTheWay[<<"data", g>>]
        /\ OnTheWay'[<<"splitter", g>>] = OnTheWay[<<"splitter", g>>]
    BY <1>2, <2>v DEF Both
  <2>2. ASSUME g # f
        PROVE  /\ OnTheWay'[<<"log", g>>] = OnTheWay[<<"log", g>>]
               /\ OnTheWay'[<<"split", g>>] = OnTheWay[<<"split", g>>]
    <3>1. flush # [pc |-> "cut", at |-> g] /\ flush' # [pc |-> "cut", at |-> g]
      BY <1>2, <1>8, <2>2
    <3>2. split'[g] = split[g] /\ log'[g] = log[g]
      BY <1>6, <2>2
    <3> HIDE DEF f
    <3> QED
      BY <2>v, <3>1, <3>2 DEF Both
  <2> QED
    BY <2>1, <2>2
<1>12. \A p \in Places : p # a /\ p # b => OnTheWay'[p] = OnTheWay[p]
  <2> SUFFICES ASSUME NEW p \in Places, p # a, p # b
               PROVE  OnTheWay'[p] = OnTheWay[p]
    OBVIOUS
  <2>1. PICK g \in Files : p = <<"data", g>> \/ p = <<"log", g>> \/ p = <<"split", g>> \/ p = <<"splitter", g>>
    BY PlaceOf
  <2> QED
    BY <1>11, <2>1
<1> HIDE DEF a, b, c, f
<1>13. OnTheWay'[a] = OnTheWay[a] \o c /\ OnTheWay'[b] = <<>>
  BY <1>5, <1>10
<1>14. c \in Seq(WordRecs) /\ Len(c) <= Len(OnTheWay[b]) /\ \A i \in 1..Len(c) : c[i] = OnTheWay[b][i]
  BY <1>4, <1>10
<1> QED
  BY <1>2, <1>9, <1>12, <1>13, <1>14, MoveKept

\* The next word joins those of its buffer.
LEMMA AddWordOnce ==
    ASSUME ThreadOK, OnceInv, WayOK', AddWord
    PROVE  OnceInv'
<1> DEFINE f == FileOf[Head(thread.words)[1]]
           x == LogWord(thread.stamp, thread.url, Head(thread.words)[1], Head(thread.words)[2])
           a == <<"data", f>>
<1>1. Shown /\ Shown'
  BY ShownNow, ShownNext DEF OnceInv
<1>2. /\ f \in Files /\ x \in WordRecs /\ thread.words \in Seq(Words \X Nat) /\ thread.words # <<>>
      /\ thread.pc = "words" /\ thread.stamp = now /\ now \in Nat
  BY AddWordTyped, LogsOnlyAssumption DEF OnceInv, Current, ThreadOK
<1>3. /\ \/ SaveBuf(f) /\ wrd_buf' = [wrd_buf EXCEPT ![f] = [Empty EXCEPT !.data = <<x>>]]
         \/ UNCHANGED logs /\ wrd_buf' = [wrd_buf EXCEPT ![f].data = Append(@, x)]
      /\ thread' = [thread EXCEPT !.words = Tail(@)]
      /\ UNCHANGED <<split, splitter, flush, now, merged>>
  BY DEF AddWord, splits, sent, index, control
<1>4. /\ thread'.words = Tail(thread.words) /\ thread'.pc = "words"
      /\ thread'.stamp = thread.stamp /\ thread'.url = thread.url
  BY <1>2, <1>3 DEF ThreadOK
<1>5. /\ 1 \in DOMAIN thread.words /\ Head(thread.words) = thread.words[1]
      /\ \A k \in DOMAIN Tail(thread.words) : k + 1 \in DOMAIN thread.words /\ k + 1 # 1
                                              /\ Tail(thread.words)[k] = thread.words[k + 1]
  BY <1>2
<1>6. x \notin Past
  <2>1. x \in Coming
    BY <1>5 DEF Coming
  <2> QED
    BY <1>2, <2>1 DEF Past
<1>7. Current'
  <2>1. Distinct(Tail(thread.words))
    <3>1. \A k \in DOMAIN Tail(thread.words) : k \in Int
      BY <1>2
    <3> QED
      BY <1>5, <3>1 DEF OnceInv, Current, Distinct
  <2> QED
    BY <1>2, <1>3, <1>4, <2>1 DEF Current
<1>8. Past \cup {x} \subseteq Past'
  <2>1. Coming' \subseteq Coming
    BY <1>4, <1>5 DEF Coming
  <2>2. x \notin Coming'
    <3> SUFFICES ASSUME NEW k \in DOMAIN Tail(thread.words),
                        x = LogWord(thread.stamp, thread.url, Tail(thread.words)[k][1], Tail(thread.words)[k][2])
                 PROVE  FALSE
      BY <1>4 DEF Coming
    <3>1. /\ thread.words[1] \in Words \X Nat /\ thread.words[k + 1] \in Words \X Nat
      BY <1>2, <1>5
    <3>2. thread.words[1][1] = thread.words[k + 1][1] /\ thread.words[1][2] = thread.words[k + 1][2]
      BY <1>5 DEF LogWord
    <3>3. thread.words[1] = thread.words[k + 1]
      BY <3>1, <3>2
    <3> QED
      BY <1>5, <3>3 DEF OnceInv, Current, Distinct
  <2>3. x.stamp <= now
    BY <1>2 DEF LogWord
  <2> QED
    BY <1>2, <1>3, <1>4, <2>1, <2>2, <2>3 DEF Past
<1>9. a \in Places
  BY <1>2, PlaceOf
<1>10. OnTheWay \in Ways /\ OnTheWay' \in Ways
  BY <1>1 DEF Shown, Ways
<1>11. wrd_buf[f] \in [data : Seq(WordRecs), del_buf : Seq(DelRecs)] /\ \A g \in Files : g # f => wrd_buf'[g] = wrd_buf[g]
  BY <1>2, <1>3 DEF OnceInv, WayOK, BufsOK
<1>v. Both(f)
  BY <1>1, <1>2, Views
<1> HIDE DEF f, x, a
<1>12. Apart(OnTheWay', merged) /\ Inside(OnTheWay', merged, Past \cup {x})
  <2>1. CASE UNCHANGED logs /\ wrd_buf' = [wrd_buf EXCEPT ![f].data = Append(@, x)]
    <3>1. wrd_buf'[f].data = Append(wrd_buf[f].data, x)
      BY <1>2, <1>11, <2>1 DEF OnceInv, WayOK, BufsOK
    <3>2. OnTheWay'[a] = Append(OnTheWay[a], x)
      BY <3>1, <1>v DEF a, Both
    <3>3. \A p \in Places : p # a => OnTheWay'[p] = OnTheWay[p]
      <4> SUFFICES ASSUME NEW p \in Places, p # a
                   PROVE  OnTheWay'[p] = OnTheWay[p]
        OBVIOUS
      <4>1. PICK g \in Files : p = <<"data", g>> \/ p = <<"log", g>> \/ p = <<"split", g>> \/ p = <<"splitter", g>>
        BY PlaceOf
      <4>v. Both(g)
        BY <1>1, Views
      <4>2. g # f => OnTheWay'[<<"data", g>>] = OnTheWay[<<"data", g>>]
        BY <1>11, <4>v DEF Both
      <4>3. /\ OnTheWay'[<<"log", g>>] = OnTheWay[<<"log", g>>]
            /\ OnTheWay'[<<"split", g>>] = OnTheWay[<<"split", g>>]
            /\ OnTheWay'[<<"splitter", g>>] = OnTheWay[<<"splitter", g>>]
        BY <1>3, <2>1, <4>v DEF logs, Both
      <4> QED
        BY <4>1, <4>2, <4>3 DEF a
    <3> QED
      BY <1>2, <1>6, <1>9, <1>10, <3>2, <3>3, Joined DEF OnceInv
  <2>2. CASE SaveBuf(f) /\ wrd_buf' = [wrd_buf EXCEPT ![f] = [Empty EXCEPT !.data = <<x>>]]
    <3>1. wrd_buf'[f].data = <<x>>
      BY <1>2, <2>2 DEF OnceInv, WayOK, BufsOK, Empty
    <3>2. OnTheWay'[a] = Append(Saved(f)[a], x)
      <4>1. OnTheWay'[a] = <<x>>
        BY <3>1, <1>v DEF a, Both
      <4>2. Saved(f)[a] = <<>>
        BY <1>2, <2>2, SavedOnce DEF a
      <4> QED
        BY <4>1, <4>2
    <3>3. \A p \in Places : p # a => OnTheWay'[p] = Saved(f)[p]
      <4> SUFFICES ASSUME NEW p \in Places, p # a
                   PROVE  OnTheWay'[p] = Saved(f)[p]
        OBVIOUS
      <4>1. PICK g \in Files : p = <<"data", g>> \/ p = <<"log", g>> \/ p = <<"split", g>> \/ p = <<"splitter", g>>
        BY PlaceOf
      <4>v. Both(g)
        BY <1>1, Views
      <4>2. CASE p = <<"log", f>>
        <5>1. Saved(f)[<<"log", f>>] = IF flush = [pc |-> "cut", at |-> f] THEN <<>> ELSE Read(log'[f])
          BY <1>2, <2>2, SavedOnce
        <5> QED
          BY <1>3, <1>v, <4>2, <5>1 DEF Both
      <4>3. CASE p # <<"log", f>>
        <5>1. Saved(f)[p] = OnTheWay[p]
          BY <1>2, <2>2, <4>3, SavedOnce DEF a
        <5>2. g # f => /\ OnTheWay'[<<"data", g>>] = OnTheWay[<<"data", g>>]
                       /\ OnTheWay'[<<"log", g>>] = OnTheWay[<<"log", g>>]
          <6>1. g # f => log'[g] = log[g]
            BY <1>2, <2>2, SaveBufTyped DEF OnceInv
          <6> QED
            BY <1>3, <1>11, <4>v, <6>1 DEF Both
        <5>3. /\ OnTheWay'[<<"split", g>>] = OnTheWay[<<"split", g>>]
              /\ OnTheWay'[<<"splitter", g>>] = OnTheWay[<<"splitter", g>>]
          BY <1>3, <4>v DEF Both
        <5> QED
          BY <4>1, <4>3, <5>1, <5>2, <5>3 DEF a
      <4> QED
        BY <4>2, <4>3
    <3>4. Saved(f) \in Ways /\ Apart(Saved(f), merged) /\ Inside(Saved(f), merged, Past)
      BY <1>2, <2>2, SavedOnce
    <3> QED
      BY <1>2, <1>6, <1>9, <1>10, <3>2, <3>3, <3>4, Joined
  <2> QED
    BY <1>3, <2>1, <2>2 DEF f, x
<1>13. Apart(OnTheWay, merged)' /\ Inside(OnTheWay, merged, Past)'
  BY <1>3, <1>8, <1>12 DEF Apart, Inside
<1> QED
  BY <1>7, <1>13 DEF OnceInv

LEMMA OnceInit ==
    ASSUME Init
    PROVE  FlushOK /\ ThreadOK /\ OnceInv
<1>1. FlushOK /\ ThreadOK
  BY LogsOnlyAssumption DEF Init, FlushOK, Resting, Pcs, ThreadOK, Idle
<1>2. WayOK
  <2>1. <<>> \in Seq(WordRecs) /\ <<>> \in Seq(DelRecs)
    OBVIOUS
  <2>2. BufsOK
    BY <2>1, LogsOnlyAssumption DEF Init, BufsOK, Empty, Files
  <2>3. SplitterOK
    BY <2>1 DEF Init, SplitterOK, Off
  <2> QED
    BY <2>2, <2>3 DEF Init, WayOK
<1>3. Current
  BY DEF Init, Current, Distinct, Idle
<1>4. \A p \in Places : OnTheWay[p] = <<>>
  <2>1. Shown
    BY <1>2, ShownNow
  <2> SUFFICES ASSUME NEW g \in Files
               PROVE  /\ OnTheWay[<<"data", g>>] = <<>> /\ OnTheWay[<<"log", g>>] = <<>>
                      /\ OnTheWay[<<"split", g>>] = <<>> /\ OnTheWay[<<"splitter", g>>] = <<>>
    <3> SUFFICES ASSUME NEW p \in Places
                 PROVE  OnTheWay[p] = <<>>
      OBVIOUS
    <3>1. PICK g \in Files : p = <<"data", g>> \/ p = <<"log", g>> \/ p = <<"split", g>> \/ p = <<"splitter", g>>
      BY PlaceOf
    <3> QED
      BY <3>1
  <2> QED
    BY <2>1 DEF Shown, Init, Empty, Read, Off
<1>5. Apart(OnTheWay, merged) /\ Inside(OnTheWay, merged, Past)
  BY <1>4 DEF Apart, Inside, Init
<1> QED
  BY <1>1, <1>2, <1>3, <1>5 DEF OnceInv

LEMMA OnceKept ==
    ASSUME \A d \in Docs : Distinct(d), FlushOK, ThreadOK, OnceInv, [Next]_vars
    PROVE  FlushOK' /\ ThreadOK' /\ OnceInv'
<1>1. FlushOK' /\ ThreadOK' /\ WayOK'
  BY FlushKept, ThreadKept, WayKept DEF OnceInv
<1>2. OnceInv'
  BY <1>1, SendOnce, MarkOnce, AddWordOnce, SaveNextOnce, RotateOnce, TakeOnce, PutOnce, StillOnce DEF Next
<1> QED
  BY <1>1, <1>2

\* No word gets to two places or is merged a second time, whatever the flushes,
\* the rounds of run-splitter and the splitters that die do to the files: for
\* documents that do not name a word at one place twice.
THEOREM MergedOnce ==
    ASSUME \A d \in Docs : Distinct(d)
    PROVE  Spec => []Once
<1> DEFINE Inv == FlushOK /\ ThreadOK /\ OnceInv
<1>1. Init => Inv
  BY OnceInit
<1>2. Inv /\ [Next]_vars => Inv'
  BY OnceKept
<1>3. Inv => Once
  BY DEF OnceInv, Apart, Once
<1> HIDE DEF Inv
<1> QED
  BY <1>1, <1>2, <1>3, PTL DEF Spec

-----------------------------------------------------------------------------
(* The types of the rest. *)

\* The files of markers, the script, the flushes asked for and not begun, and
\* the records, which are also in order.
Crds == [url_id : Urls, coord : Nat]
RestOK ==
    /\ del_log \in Seq(DelRecs) /\ del_split \in Seq(DelRecs) /\ del_made \in BOOLEAN
    /\ script \in {"idle", "wait", "split", "bare", "rm"}
    /\ flushes \in 0..MaxFlushes /\ asked \in 0..flushes
    /\ base \in [Words -> Seq(Crds)]
    /\ \A w \in Words : Ascending(base[w])

LEMMA AllDelsTyped ==
    ASSUME BufsOK
    PROVE  AllDels(WrdFiles) \in Seq(DelRecs)
<1> DEFINE seqs == [f \in 1..WrdFiles |-> wrd_buf[f].del_buf]
<1>1. WrdFiles \in Nat \ {0}
  BY LogsOnlyAssumption
<1>2. seqs \in [1..WrdFiles -> Seq(DelRecs)]
  BY DEF BufsOK, Files
<1>3. AllDels(WrdFiles) = FlattenSeq(seqs)
  BY DEF AllDels
<1> HIDE DEF seqs
<1>4. Len(seqs) = WrdFiles /\ \A f \in 1..WrdFiles : seqs[f] \in Seq(DelRecs)
  BY <1>1, <1>2, FunctionIsSeq
<1> QED
  BY <1>1, <1>3, <1>4, FlattenTyped

\* What DpsRotateDelLog copies of the markers.
LEMMA CopiedDels ==
    ASSUME NEW file \in Seq(DelRecs)
    PROVE  Copied(file) \in Seq(DelRecs)
<1> DEFINE n == IF Len(file) < PathMax THEN Len(file) ELSE PathMax
<1>1. n \in Nat /\ n <= Len(file) /\ Len(file) \in Nat
  BY LogsOnlyAssumption
<1>2. Copied(file) = SubSeq(file, 1, n)
  BY DEF Copied
<1> HIDE DEF n
<1> QED
  BY <1>1, <1>2

\* A merge of the splitter leaves the records in order.
LEMMA MergingSorts ==
    ASSUME RestOK, NEW f, NEW words \in Seq(WordRecs), NEW dels
    PROVE  /\ Merging(f, words, dels) \in [Words -> Seq(Crds)]
           /\ \A w \in Words : Ascending(Merging(f, words, dels)[w])
<1> DEFINE b == [data |-> words, del_buf |-> dels]
           new == DpsSort(FreshWords(b), Cmplog_wrd)
           r(w) == IF FileOf[w] # f THEN base[w] ELSE Merge(RemoveOldCrds(base[w], dels), Added(new, w))
<1>1. /\ 1..MaxCalls \in SUBSET Int /\ Urls \in SUBSET Int /\ Words \in SUBSET Int /\ Nat \in SUBSET Int
  <2>1. Urls \subseteq Int /\ Words \subseteq Int
    BY LogsOnlyAssumption
  <2>2. 1..MaxCalls \subseteq Int /\ Nat \subseteq Int
    BY LogsOnlyAssumption
  <2> QED
    BY <2>1, <2>2
<1>2. Crds \in SUBSET Postings
  <2> SUFFICES ASSUME NEW x \in Crds PROVE x \in Postings
    OBVIOUS
  <2>1. x.url_id \in Urls /\ x.coord \in Nat /\ x = [url_id |-> x.url_id, coord |-> x.coord]
    BY DEF Crds
  <2>2. x.url_id \in Int /\ x.coord \in Int
    BY <1>1, <2>1
  <2> QED
    BY <2>1, <2>2 DEF Postings
<1>3. \A w : Added(new, w) \in Seq(Crds) /\ Ascending(Added(new, w))
  <2>1. b.data \in Seq([stamp : 1..MaxCalls, url_id : Urls, wrd_id : Words, coord : Nat])
    BY DEF WordRecs
  <2> HIDE DEF b
  <2> QED
    BY <1>1, <2>1, FreshAdded DEF Crds
<1>4. Merging(f, words, dels) = [w \in Words |-> r(w)]
  BY DEF Merging
<1> HIDE DEF b, new
<1>5. ASSUME NEW w \in Words PROVE r(w) \in Seq(Crds) /\ Ascending(r(w))
  <2> DEFINE old == RemoveOldCrds(base[w], dels)
             more == Added(new, w)
  <2>1. base[w] \in Seq(Crds) /\ Ascending(base[w])
    BY DEF RestOK
  <2>2. old \in Seq(Crds) /\ Ascending(old)
    BY <2>1, OldCrdsRemoved
  <2>3. more \in Seq(Crds) /\ Ascending(more)
    BY <1>3
  <2>4. r(w) = IF FileOf[w] # f THEN base[w] ELSE Merge(old, more)
    OBVIOUS
  <2> HIDE DEF old, more, r
  <2>5. Merge(old, more) \in Seq(Crds) /\ Ascending(Merge(old, more))
    BY <1>2, <2>2, <2>3, MergeAscends
  <2> QED
    BY <2>1, <2>4, <2>5
<1> HIDE DEF r
<1> QED
  BY <1>4, <1>5

LEMMA RestKept ==
    ASSUME FlushOK, ThreadOK, WayOK, RestOK, [Next]_vars
    PROVE  RestOK'
<1> DEFINE marked == <<del_log, del_split, del_made>>
           counted == <<script, flushes, asked>>
<1>1. CASE UNCHANGED vars \/ Send \/ Done \/ ResetDelBuf \/ Rename \/ Copy \/ Cut \/ Take
  <2>1. UNCHANGED <<marked, counted, base>>
    BY <1>1 DEF vars, logs, splits, marks, index, control, Send, Done, ResetDelBuf, Rename, Copy, Cut, Take
  <2> QED
    BY <2>1 DEF RestOK
<1>2. CASE Flush \/ Run
  <2>1. UNCHANGED <<marked, base>> /\ script' \in {script, "wait"} /\ AskFlush
    BY <1>2 DEF Flush, Run, logs, splits, marks, index
  <2>2. flushes' \in 0..MaxFlushes /\ asked' \in 0..flushes'
    BY <2>1, LogsOnlyAssumption DEF AskFlush, RestOK
  <2> QED
    BY <2>1, <2>2 DEF RestOK
<1>3. CASE BeginFlush
  <2>1. UNCHANGED <<marked, base, script, flushes>> /\ asked > 0 /\ asked' = asked - 1
    BY <1>3 DEF BeginFlush, logs, splits, marks, index
  <2>2. asked' \in 0..flushes'
    BY <2>1, LogsOnlyAssumption DEF RestOK
  <2> QED
    BY <2>1, <2>2 DEF RestOK
<1>4. CASE Start \/ RunBare \/ Die
  <2>1. UNCHANGED <<marked, base, flushes, asked>> /\ script' \in {"split", "bare", "idle"}
    BY <1>4 DEF Start, RunBare, Die, logs, splits, marks, index
  <2> QED
    BY <2>1 DEF RestOK
<1>5. CASE Mark
  <2>1. UNCHANGED <<del_split, del_made, counted, base>>
    BY <1>5 DEF Mark, splits, marks, index, control
  <2>2. del_log' = del_log \/ del_log' = del_log \o AllDels(WrdFiles)
    BY <1>5 DEF Mark
  <2>3. AllDels(WrdFiles) \in Seq(DelRecs) /\ del_log \in Seq(DelRecs)
    BY AllDelsTyped DEF WayOK, RestOK
  <2>4. del_log \o AllDels(WrdFiles) \in Seq(DelRecs)
    BY <2>3
  <2>5. del_log' \in Seq(DelRecs)
    BY <2>2, <2>3, <2>4
  <2> QED
    BY <2>1, <2>5 DEF RestOK
<1>6. ASSUME NEW f \in Files, del_log' = del_log \o wrd_buf[f].del_buf
      PROVE  del_log' \in Seq(DelRecs)
  <2>1. wrd_buf[f].del_buf \in Seq(DelRecs) /\ del_log \in Seq(DelRecs)
    BY DEF WayOK, BufsOK, RestOK
  <2> QED
    BY <1>6, <2>1
<1>7. CASE AddWord
  <2> DEFINE f == FileOf[Head(thread.words)[1]]
  <2>1. f \in Files
    BY <1>7, AddWordTyped
  <2>2. UNCHANGED <<del_split, del_made, counted, base>>
    BY <1>7 DEF AddWord, splits, marks, index, control
  <2>3. del_log' = del_log \/ del_log' = del_log \o wrd_buf[f].del_buf
    BY <1>7 DEF AddWord, SaveBuf, logs
  <2> HIDE DEF f
  <2>4. del_log' \in Seq(DelRecs)
    BY <1>6, <2>1, <2>3 DEF RestOK
  <2> QED
    BY <2>2, <2>4 DEF RestOK
<1>8. CASE SaveNext
  <2>1. flush.at \in Files /\ UNCHANGED <<del_split, del_made, counted, base>>
    BY <1>8 DEF SaveNext, FlushOK, splits, marks, index
  <2>2. del_log' = del_log \o wrd_buf[flush.at].del_buf
    BY <1>8 DEF SaveNext, SaveBuf
  <2>3. del_log' \in Seq(DelRecs)
    BY <1>6, <2>1, <2>2
  <2> QED
    BY <2>1, <2>3 DEF RestOK
<1>9. CASE Create \/ CopyDels \/ CutDels
  <2>1. UNCHANGED <<counted, base>>
    BY <1>9 DEF Create, CopyDels, CutDels, index
  <2>2. /\ del_log' \in {del_log, <<>>} /\ del_made' \in {del_made, TRUE}
        /\ del_split' \in {del_split, del_split \o Copied(del_log), <<>>}
    BY <1>9 DEF Create, CopyDels, CutDels, logs, splits, marks
  <2>3. Copied(del_log) \in Seq(DelRecs) /\ del_split \in Seq(DelRecs) /\ <<>> \in Seq(DelRecs)
    BY CopiedDels DEF RestOK
  <2>4. del_split \o Copied(del_log) \in Seq(DelRecs)
    BY <2>3
  <2>5. del_log' \in Seq(DelRecs) /\ del_made' \in BOOLEAN /\ del_split' \in Seq(DelRecs)
    BY <2>2, <2>3, <2>4 DEF RestOK
  <2> QED
    BY <2>1, <2>5 DEF RestOK
<1>10. CASE Put
  <2>1. UNCHANGED <<marked, flushes, asked>> /\ script' \in {script, "rm", "idle"}
    BY <1>10 DEF Put, logs, splits, marks
  <2>2. base' = Merging(splitter.at, splitter.words, splitter.dels) /\ splitter.words \in Seq(WordRecs)
    BY <1>10 DEF Put, WayOK, SplitterOK
  <2>3. base' \in [Words -> Seq(Crds)] /\ \A w \in Words : Ascending(base'[w])
    BY <2>2, MergingSorts
  <2> QED
    BY <2>1, <2>3 DEF RestOK
<1>11. CASE RemoveDels
  <2>1. UNCHANGED <<del_log, flushes, asked, base>> /\ script' = "idle" /\ del_made' = FALSE /\ del_split' = <<>>
    BY <1>11 DEF RemoveDels, logs, index
  <2>2. <<>> \in Seq(DelRecs)
    OBVIOUS
  <2> QED
    BY <2>1, <2>2 DEF RestOK
<1> QED
  BY <1>1, <1>2, <1>3, <1>4, <1>5, <1>7, <1>8, <1>9, <1>10, <1>11 DEF Next

LEMMA RestInit ==
    ASSUME Init
    PROVE  RestOK
<1>1. <<>> \in Seq(DelRecs) /\ <<>> \in Seq(Crds) /\ Ascending(<<>>)
  BY DEF Ascending
<1>2. 0 \in 0..MaxFlushes /\ 0 \in 0..0
  BY LogsOnlyAssumption
<1>3. base \in [Words -> Seq(Crds)] /\ \A w \in Words : Ascending(base[w])
  BY <1>1 DEF Init
<1> QED
  BY <1>1, <1>2, <1>3 DEF Init, RestOK

\* Every variable keeps its type in the logs-only mode, whoever dies and
\* whatever overlaps: the markers of all buffers, copied from file to file, and
\* the records that the splitter merges words into after DpsRemoveOldWords has
\* moved them in parts.
THEOREM TypesKept == Spec => []TypeOK
<1> DEFINE Inv == FlushOK /\ ThreadOK /\ WayOK /\ RestOK
<1>1. Init => Inv
  <2> SUFFICES ASSUME Init
               PROVE  Inv
    OBVIOUS
  <2>1. FlushOK /\ ThreadOK
    BY LogsOnlyAssumption DEF Init, FlushOK, Resting, Pcs, ThreadOK, Idle
  <2>2. <<>> \in Seq(WordRecs) /\ <<>> \in Seq(DelRecs) /\ <<>> \in Seq(Crds) /\ Ascending(<<>>)
    BY DEF Ascending
  <2>3. WayOK
    <3>1. BufsOK
      BY <2>2, LogsOnlyAssumption DEF Init, BufsOK, Empty, Files
    <3>2. SplitterOK
      BY <2>2 DEF Init, SplitterOK, Off
    <3> QED
      BY <3>1, <3>2 DEF Init, WayOK
  <2>4. RestOK
    BY RestInit
  <2> QED
    BY <2>1, <2>3, <2>4
<1>2. Inv /\ [Next]_vars => Inv'
  BY FlushKept, ThreadKept, WayKept, RestKept
<1>3. Inv => TypeOK
  <2> SUFFICES ASSUME Inv PROVE TypeOK
    OBVIOUS
  <2>1. asked \in 0..MaxFlushes
    BY LogsOnlyAssumption DEF RestOK
  <2>2. thread.pc \in {"idle", "mark", "words"} /\ splitter.pc \in {"off", "read", "merge"}
    BY DEF ThreadOK, WayOK, SplitterOK
  <2>3. flush.pc \in {"idle", "save", "reset", "rotate", "cut", "create", "dels", "cutdels"}
    BY DEF FlushOK, Pcs
  <2> QED
    BY <2>1, <2>2, <2>3 DEF WayOK, BufsOK, RestOK, Crds, TypeOK
<1> HIDE DEF Inv
<1> QED
  BY <1>1, <1>2, <1>3, PTL DEF Spec
-----------------------------------------------------------------------------
(* The index is what was sent. *)

\* The words of file f that a flush has brought to the splitter, and those that
\* cached still has; the markers likewise, which are for all files.
Early(f) == ToSet(Read(split[f])) \cup (IF splitter.at = f THEN ToSet(splitter.words) ELSE {})
Late(f) == ToSet(Read(log[f])) \cup ToSet(wrd_buf[f].data)
EarlyDels == ToSet(del_split)
BufferDels == UNION {ToSet(wrd_buf[f].del_buf) : f \in Files}
LateDels == ToSet(del_log) \cup BufferDels

\* The splitter is through with file f in its round, for which the markers of
\* the round are no longer to come.
Through(f) == script = "rm" \/ (splitter.pc # "off" /\ f < splitter.at)

\* The words and markers that are still to come to the records of file f.
Data(f) == Early(f) \cup Late(f)
Dels(f) == LateDels \cup (IF Through(f) THEN {} ELSE EarlyDels)

\* The logs fit the buffer of DpsRotateDelLog, and no splitter comes to the
\* wrong dps_memmove of DpsRemoveOldWords.
Fits == Len(del_log) <= PathMax /\ \A f \in Files : Len(Read(log[f])) <= PathMax
Intact == splitter.pc = "merge" => Unmoved([data |-> splitter.words, del_buf |-> splitter.dels])

-----------------------------------------------------------------------------
(* What the steps do to the words and markers. *)

LEMMA SavedMoves ==
    ASSUME WayOK, RestOK, NEW f \in Files, SaveBuf(f), NEW b, b.del_buf = <<>>,
           wrd_buf' = [wrd_buf EXCEPT ![f] = b], UNCHANGED <<split, splitter>>
    PROVE  /\ LateDels' = LateDels
           /\ ToSet(Read(log'[f])) = Late(f)
           /\ \A g \in Files \ {f} : log'[g] = log[g] /\ wrd_buf'[g] = wrd_buf[g] /\ Late(g)' = Late(g)
           /\ wrd_buf'[f] = b
<1>1. wrd_buf \in [Files -> [data : Seq(WordRecs), del_buf : Seq(DelRecs)]]
  BY DEF WayOK, BufsOK
<1>2. /\ wrd_buf'[f] = b /\ \A g \in Files \ {f} : wrd_buf'[g] = wrd_buf[g]
      /\ wrd_buf[f].data \in Seq(WordRecs) /\ wrd_buf[f].del_buf \in Seq(DelRecs)
  BY <1>1
<1>3. /\ \A g \in Files \ {f} : log'[g] = log[g]
      /\ Read(log'[f]) = Read(log[f]) \o wrd_buf[f].data
  BY SaveBufTyped
<1>4. ToSet(Read(log'[f])) = Late(f)
  <2>1. Read(log[f]) \in Seq(WordRecs)
    BY ReadTyped DEF WayOK
  <2> QED
    BY <1>2, <1>3, <2>1, JoinedSet DEF Late
<1>5. ToSet(del_log') = ToSet(del_log) \cup ToSet(wrd_buf[f].del_buf)
  <2>1. del_log' = del_log \o wrd_buf[f].del_buf
    BY DEF SaveBuf
  <2>2. del_log \in Seq(DelRecs)
    BY DEF RestOK
  <2> QED
    BY <1>2, <2>1, <2>2, JoinedSet
<1>6. ToSet(wrd_buf'[f].del_buf) = {}
  BY <1>2 DEF ToSet
<1>7. BufferDels = BufferDels' \cup ToSet(wrd_buf[f].del_buf)
  <2>1. \A g \in Files : ToSet(wrd_buf[g].del_buf) \subseteq BufferDels' \cup ToSet(wrd_buf[f].del_buf)
    BY <1>2 DEF BufferDels
  <2>2. \A g \in Files : ToSet(wrd_buf'[g].del_buf) \subseteq BufferDels
    BY <1>2, <1>6 DEF BufferDels
  <2>3. BufferDels \subseteq BufferDels' \cup ToSet(wrd_buf[f].del_buf)
    BY <2>1 DEF BufferDels
  <2>4. BufferDels' \subseteq BufferDels
    BY <2>2 DEF BufferDels
  <2> QED
    BY <2>3, <2>4 DEF BufferDels
<1>8. LateDels' = LateDels
  BY <1>5, <1>7 DEF LateDels
<1>9. \A g \in Files \ {f} : Late(g)' = Late(g)
  BY <1>2, <1>3 DEF Late, Read
<1> QED
  BY <1>2, <1>3, <1>4, <1>8, <1>9

\* A marker comes, and the others are somewhere still.
LEMMA MarkComes ==
    ASSUME ThreadOK, WayOK, RestOK, Mark
    PROVE  /\ LateDels' = LateDels \cup {LogDel(thread.stamp, thread.url)}
           /\ \A f \in Files : Early(f)' = Early(f) /\ Late(f)' = Late(f)
           /\ EarlyDels' = EarlyDels
<1> DEFINE full == Len(wrd_buf[cur_del_buf].del_buf) = CacheLogDels
           next == IF full THEN cur_del_buf + 1 ELSE cur_del_buf
           at == IF next > WrdFiles THEN 1 ELSE next
           room == IF next > WrdFiles THEN [f \in Files |-> [wrd_buf[f] EXCEPT !.del_buf = <<>>]]
                                      ELSE wrd_buf
           x == LogDel(thread.stamp, thread.url)
<1>1. x \in DelRecs
  BY DEF Mark, ThreadOK, LogDel, DelRecs
<1>2. at \in Files
  <2>1. cur_del_buf \in 1..WrdFiles /\ WrdFiles \in Nat \ {0}
    BY LogsOnlyAssumption DEF Files, WayOK, BufsOK
  <2> QED
    BY <2>1 DEF Files
<1>3. wrd_buf \in [Files -> [data : Seq(WordRecs), del_buf : Seq(DelRecs)]]
  BY DEF WayOK, BufsOK
<1>4. /\ room \in [Files -> [data : Seq(WordRecs), del_buf : Seq(DelRecs)]]
      /\ next > WrdFiles => \A f \in Files : room[f].del_buf = <<>>
      /\ ~(next > WrdFiles) => room = wrd_buf
  <2>1. <<>> \in Seq(DelRecs)
    OBVIOUS
  <2>2. \A f \in Files : [wrd_buf[f] EXCEPT !.del_buf = <<>>] \in [data : Seq(WordRecs), del_buf : Seq(DelRecs)]
    BY <1>3, <2>1
  <2>3. \A f \in Files : [wrd_buf[f] EXCEPT !.del_buf = <<>>].del_buf = <<>>
    BY <1>3
  <2> QED
    BY <1>3, <2>2, <2>3
<1>5. wrd_buf' = [room EXCEPT ![at].del_buf = Append(@, x)]
  BY DEF Mark
<1>6. del_log' = IF next > WrdFiles THEN del_log \o AllDels(WrdFiles) ELSE del_log
  BY DEF Mark
<1> DEFINE last == next > WrdFiles
<1>7. UNCHANGED <<log, split, splitter, del_split>> /\ \A f \in Files : wrd_buf'[f].data = wrd_buf[f].data
  <2>1. BufsOK
    BY DEF WayOK
  <2> QED
    BY <2>1, MarkTyped DEF Mark, splits, marks
<1> HIDE DEF x, at, room, last
<1> USE DEF last
<1>8. /\ room[at].del_buf \in Seq(DelRecs)
      /\ wrd_buf'[at].del_buf = Append(room[at].del_buf, x)
      /\ \A f \in Files \ {at} : wrd_buf'[f].del_buf = room[f].del_buf
  BY <1>2, <1>4, <1>5
<1>9. ToSet(wrd_buf'[at].del_buf) = ToSet(room[at].del_buf) \cup {x}
  BY <1>1, <1>8, OneMore
<1> DEFINE kept == UNION {ToSet(room[f].del_buf) : f \in Files}
<1>10. BufferDels' = kept \cup {x}
  <2>1. \A f \in Files : ToSet(wrd_buf'[f].del_buf) \subseteq kept \cup {x}
    BY <1>2, <1>8, <1>9
  <2>2. \A f \in Files : ToSet(room[f].del_buf) \subseteq ToSet(wrd_buf'[f].del_buf)
    BY <1>2, <1>8, <1>9
  <2>3. x \in BufferDels'
    BY <1>2, <1>9 DEF BufferDels
  <2>4. BufferDels' \subseteq kept \cup {x}
    BY <2>1 DEF BufferDels
  <2>5. kept \subseteq BufferDels'
    BY <2>2 DEF BufferDels
  <2> QED
    BY <2>3, <2>4, <2>5
<1>11. ToSet(del_log') \cup kept = LateDels
  <2>1. CASE last
    <3>1. ToSet(AllDels(WrdFiles)) = BufferDels
      <4> DEFINE seqs == [f \in 1..WrdFiles |-> wrd_buf[f].del_buf]
      <4>1. WrdFiles \in Nat \ {0} /\ Files = 1..WrdFiles
        BY LogsOnlyAssumption DEF Files
      <4>2. seqs \in [1..WrdFiles -> Seq(DelRecs)] /\ \A f \in Files : seqs[f] = wrd_buf[f].del_buf
        BY <1>3, <4>1
      <4>3. AllDels(WrdFiles) = FlattenSeq(seqs)
        BY DEF AllDels
      <4>4. BufferDels = UNION {ToSet(seqs[f]) : f \in 1..WrdFiles}
        BY <4>1, <4>2 DEF BufferDels
      <4> HIDE DEF seqs
      <4>5. Len(seqs) = WrdFiles /\ \A f \in 1..WrdFiles : seqs[f] \in Seq(DelRecs)
        BY <4>1, <4>2, FunctionIsSeq
      <4> QED
        BY <4>1, <4>3, <4>4, <4>5, FlattenedSet
    <3>2. AllDels(WrdFiles) \in Seq(DelRecs) /\ del_log \in Seq(DelRecs)
      BY AllDelsTyped DEF WayOK, RestOK
    <3>3. ToSet(del_log') = ToSet(del_log) \cup ToSet(AllDels(WrdFiles))
      BY <1>6, <2>1, <3>2, JoinedSet
    <3>4. kept = {}
      <4>1. \A f \in Files : ToSet(room[f].del_buf) = {}
        BY <1>4, <2>1 DEF ToSet
      <4> QED
        BY <4>1
    <3> QED
      BY <3>1, <3>3, <3>4 DEF LateDels
  <2>2. CASE ~last
    <3>1. kept = BufferDels
      BY <1>4, <2>2 DEF BufferDels
    <3> QED
      BY <1>6, <2>2, <3>1 DEF LateDels
  <2> QED
    BY <2>1, <2>2
<1> HIDE DEF kept
<1>12. LateDels' = LateDels \cup {x}
  BY <1>10, <1>11 DEF LateDels
<1>13. \A f \in Files : Early(f)' = Early(f) /\ Late(f)' = Late(f)
  BY <1>7 DEF Early, Late, Read
<1> QED
  BY <1>7, <1>12, <1>13 DEF EarlyDels, x
-----------------------------------------------------------------------------
(* The procedure, while it is kept. *)

\* The script has a splitter or removes the markers behind it, with no flush
\* under way, and nothing is sent during a flush.
Procedure ==
    /\ IF script = "split" THEN splitter.pc # "off" ELSE splitter = Off
    /\ script # "bare"
    /\ script \in {"split", "rm"} => flush.pc = "idle"
    /\ Alone

\* The splitter merges all words of a file at once, with the markers that are
\* still in del-split.log.
Round ==
    /\ splitter.pc = "merge" => Read(split[splitter.at]) = <<>>
    /\ splitter.pc # "off" => splitter.dels = SortedDels(del_split)
    /\ \A f \in Files : Through(f) => Early(f) = {}

\* What a flush has done so far.
Rotated ==
    /\ \A f \in Files :
          (flush.pc = "save" /\ f < flush.at) \/ flush.pc \notin {"idle", "save"} => wrd_buf[f] = Empty
    /\ \A f \in Files :
          (flush.pc \in {"rotate", "cut"} /\ f < flush.at) \/ flush.pc \in {"create", "dels", "cutdels"}
              => Read(log[f]) = <<>>
    /\ flush.pc = "reset" => flush.at = 1
    /\ flush.pc = "cut" => ToSet(Read(log[flush.at])) \subseteq ToSet(Read(split[flush.at]))
    /\ flush.pc = "dels" => del_made
    /\ flush.pc = "cutdels" => ToSet(del_log) \subseteq ToSet(del_split)

\* What a step of the procedure is not.
LEMMA CarefulStep ==
    ASSUME [Next]_vars, careful'
    PROVE  /\ careful
           /\ ~RunBare /\ ~Die
           /\ Send => flush.pc = "idle"
           /\ BeginFlush => thread.pc = "idle" /\ splitter = Off /\ script # "rm"
           /\ Start => flush.pc = "idle"
<1>1. ~RunBare /\ ~Die
  BY DEF RunBare, Die
<1>2. Send => flush.pc = "idle" /\ careful
  BY DEF Send, Careless, Flushing
<1>3. Start => flush.pc = "idle" /\ careful
  BY DEF Start, Careless, Flushing
<1>4. BeginFlush => thread.pc = "idle" /\ splitter = Off /\ script # "rm" /\ careful
  BY DEF BeginFlush, Splitting
<1>5. Mark \/ AddWord \/ Done \/ Flush \/ SaveNext \/ ResetDelBuf \/ Rename \/ Copy => careful
  BY DEF Mark, AddWord, Done, Flush, SaveNext, ResetDelBuf, Rename, Copy
<1>6. Cut \/ Create \/ CopyDels \/ CutDels \/ Run \/ Take \/ Put \/ RemoveDels \/ UNCHANGED vars => careful
  BY DEF Cut, Create, CopyDels, CutDels, Run, Take, Put, RemoveDels, vars
<1> QED
  BY <1>1, <1>2, <1>3, <1>4, <1>5, <1>6 DEF Next

LEMMA ProcedureKept ==
    ASSUME FlushOK, WayOK, Procedure, [Next]_vars, careful'
    PROVE  Procedure'
<1> USE DEF Procedure, Alone
<1>1. CASE UNCHANGED <<script, splitter, flush, thread>>
  BY <1>1
<1>2. CASE UNCHANGED vars \/ Flush
  <2>1. UNCHANGED <<script, splitter, flush, thread>>
    BY <1>2 DEF vars, buffers, control, Flush
  <2> QED
    BY <1>1, <2>1
<1>3. CASE Send
  <2>1. UNCHANGED <<script, splitter, flush>> /\ flush.pc = "idle"
    BY <1>3, CarefulStep DEF Send, control
  <2> QED
    BY <2>1
<1>4. CASE Mark \/ AddWord \/ Done
  <2>1. UNCHANGED <<script, splitter, flush>> /\ thread.pc # "idle"
    BY <1>4 DEF Mark, AddWord, Done, control
  <2> QED
    BY <2>1
<1>5. CASE BeginFlush
  <2>1. UNCHANGED <<script, splitter, thread>> /\ thread.pc = "idle" /\ splitter = Off /\ script # "rm"
    BY <1>5, CarefulStep DEF BeginFlush, buffers
  <2>2. script # "split"
    BY <2>1 DEF Off
  <2> QED
    BY <2>1, <2>2
<1>6. CASE SaveNext \/ ResetDelBuf \/ Rename \/ Copy \/ Cut \/ Create \/ CopyDels \/ CutDels
  <2>1. UNCHANGED <<script, splitter, thread>> /\ flush.pc # "idle"
    BY <1>6 DEF SaveNext, ResetDelBuf, Rename, Copy, Cut, Create, CopyDels, CutDels, buffers
  <2> QED
    BY <2>1
<1>7. CASE Run
  <2>1. UNCHANGED <<splitter, flush, thread>> /\ script = "idle" /\ script' = "wait"
    BY <1>7 DEF Run, buffers
  <2> QED
    BY <2>1
<1>8. CASE Start
  <2>1. UNCHANGED <<flush, thread>> /\ flush.pc = "idle" /\ script' = "split" /\ splitter'.pc = "read"
    BY <1>8, CarefulStep DEF Start, SplitterOn, buffers
  <2> QED
    BY <2>1
<1>9. CASE Take
  <2>1. UNCHANGED <<script, flush, thread>> /\ splitter.pc = "read"
    BY <1>9 DEF Take, control, buffers
  <2>2. splitter'.pc = "merge"
    BY <1>9 DEF Take, WayOK, SplitterOK
  <2>3. script = "split"
    BY <2>1 DEF Off
  <2> QED
    BY <2>1, <2>2, <2>3
<1>10. CASE Put
  <2>1. UNCHANGED <<flush, thread>> /\ splitter.pc = "merge"
    BY <1>10 DEF Put, buffers
  <2>2. script = "split"
    BY <2>1 DEF Off
  <2>3. \/ splitter' = Off /\ script' = "rm"
        \/ splitter'.pc = "read" /\ script' = "split"
    BY <1>10, <2>2 DEF Put, WayOK, SplitterOK
  <2> QED
    BY <2>1, <2>2, <2>3
<1>11. CASE RemoveDels
  <2>1. UNCHANGED <<splitter, flush, thread>> /\ script = "rm" /\ script' = "idle"
    BY <1>11 DEF RemoveDels, buffers
  <2> QED
    BY <2>1
<1> QED
  BY <1>2, <1>3, <1>4, <1>5, <1>6, <1>7, <1>8, <1>9, <1>10, <1>11, CarefulStep DEF Next
-----------------------------------------------------------------------------
(* What the other steps do to the words and markers. *)

LEMMA NothingIn == ToSet(<<>>) = {}
BY DEF ToSet

\* The splitter takes the words of a file.
LEMMA TakeMoves ==
    ASSUME WayOK, Take
    PROVE  /\ \A g \in Files : Early(g)' = Early(g)
           /\ splitter'.pc = "merge" /\ splitter'.at = splitter.at /\ splitter'.dels = splitter.dels
           /\ splitter.at \in Files /\ splitter.pc = "read"
           /\ Read(split'[splitter.at]) = <<>>
<1>1. splitter.pc = "read" /\ splitter.at \in Files /\ splitter.words = <<>>
  BY DEF Take, WayOK, SplitterOK
<1>2. /\ splitter'.pc = "merge" /\ splitter'.at = splitter.at /\ splitter'.dels = splitter.dels
      /\ splitter'.words = Read(split[splitter.at])
  BY DEF Take, WayOK, SplitterOK
<1>3. /\ \A g \in Files \ {splitter.at} : split'[g] = split[g]
      /\ Read(split'[splitter.at]) = <<>>
  BY <1>1 DEF Take, WayOK, Read
<1>4. ASSUME NEW g \in Files PROVE Early(g)' = Early(g)
  <2>1. CASE g = splitter.at
    BY <1>1, <1>2, <1>3, <2>1, NothingIn DEF Early, Read
  <2>2. CASE g # splitter.at
    BY <1>2, <1>3, <2>2 DEF Early, Read
  <2> QED
    BY <2>1, <2>2
<1> QED
  BY <1>1, <1>2, <1>3, <1>4

\* Steps that move no word and no marker for what is still to come.
Unseen ==
    /\ base' = base /\ EarlyDels' = EarlyDels /\ LateDels' = LateDels
    /\ \A g \in Files : Early(g)' = Early(g) /\ Late(g)' = Late(g) /\ (Through(g)' <=> Through(g))

LEMMA StepsUnseen ==
    ASSUME WayOK, Procedure, careful',
           UNCHANGED vars \/ Send \/ Done \/ Flush \/ BeginFlush \/ ResetDelBuf \/ Create \/ Run \/ Start \/ Take
    PROVE  Unseen
<1>1. UNCHANGED <<base, wrd_buf, log, del_log, del_split>>
  BY DEF vars, buffers, logs, splits, marks, index,
     Send, Done, Flush, BeginFlush, ResetDelBuf, Create, Run, Start, Take
<1>2. EarlyDels' = EarlyDels /\ LateDels' = LateDels /\ \A g \in Files : Late(g)' = Late(g)
  BY <1>1 DEF EarlyDels, LateDels, BufferDels, Late, Read
<1>3. CASE UNCHANGED vars \/ Send \/ Done \/ Flush \/ BeginFlush \/ ResetDelBuf \/ Create \/ Run
  <2>1. UNCHANGED <<split, splitter>> /\ (script' = "rm" <=> script = "rm")
    BY <1>3 DEF vars, splits, control, Send, Done, Flush, BeginFlush, ResetDelBuf, Create, Run
  <2>2. \A g \in Files : Early(g)' = Early(g) /\ (Through(g)' <=> Through(g))
    BY <2>1 DEF Early, Through, Read
  <2> QED
    BY <1>1, <1>2, <2>2 DEF Unseen
<1>4. CASE Start
  <2>1. /\ UNCHANGED split /\ script = "wait" /\ script' = "split"
        /\ splitter'.words = <<>> /\ splitter'.at = 1 /\ splitter'.pc = "read"
    BY <1>4 DEF Start, SplitterOn, splits
  <2>2. splitter.pc = "off" /\ splitter.words = <<>>
    BY <2>1 DEF Procedure, Off
  <2>3. \A g \in Files : Early(g)' = Early(g)
    BY <2>1, <2>2, NothingIn DEF Early, Read
  <2>4. \A g \in Files : ~Through(g) /\ ~Through(g)'
    BY <2>1, <2>2, LogsOnlyAssumption DEF Through, Files
  <2> QED
    BY <1>1, <1>2, <2>3, <2>4 DEF Unseen
<1>5. CASE Take
  <2>1. UNCHANGED script
    BY <1>5 DEF Take, control
  <2>2. \A g \in Files : Early(g)' = Early(g) /\ (Through(g)' <=> Through(g))
    BY <1>5, <2>1, TakeMoves DEF Through
  <2> QED
    BY <1>1, <1>2, <2>2 DEF Unseen
<1> QED
  BY <1>3, <1>4, <1>5

\* The next word of a document.
LEMMA WordComes ==
    ASSUME ThreadOK, WayOK, RestOK, AddWord,
           NEW h, h = Head(thread.words),
           NEW x, x = LogWord(thread.stamp, thread.url, h[1], h[2])
    PROVE  /\ Late(FileOf[h[1]])' = Late(FileOf[h[1]]) \cup {x}
           /\ \A g \in Files \ {FileOf[h[1]]} : Late(g)' = Late(g)
           /\ \A g \in Files : Early(g)' = Early(g)
           /\ LateDels' = LateDels /\ EarlyDels' = EarlyDels
<1>1. PICK f \in Files : f = FileOf[h[1]]
  BY AddWordTyped
<1>2. x \in WordRecs
  BY AddWordTyped
<1>3. wrd_buf \in [Files -> [data : Seq(WordRecs), del_buf : Seq(DelRecs)]]
  BY DEF WayOK, BufsOK
<1>4. /\ UNCHANGED <<split, splitter, del_split>>
      /\ IF Len(wrd_buf[f].data) = CacheLogWords
         THEN SaveBuf(f) /\ wrd_buf' = [wrd_buf EXCEPT ![f] = [Empty EXCEPT !.data = <<x>>]]
         ELSE UNCHANGED logs /\ wrd_buf' = [wrd_buf EXCEPT ![f].data = Append(@, x)]
  BY <1>1 DEF AddWord, splits, marks
<1>5. EarlyDels' = EarlyDels /\ \A g \in Files : Early(g)' = Early(g)
  BY <1>4 DEF EarlyDels, Early, Read
<1>6. ToSet(<<x>>) = {x}
  BY DEF ToSet
<1>7. CASE Len(wrd_buf[f].data) = CacheLogWords
  <2> DEFINE b == [Empty EXCEPT !.data = <<x>>]
  <2>1. b.del_buf = <<>> /\ b.data = <<x>>
    BY DEF Empty
  <2>2. SaveBuf(f) /\ wrd_buf' = [wrd_buf EXCEPT ![f] = b]
    BY <1>4, <1>7
  <2> HIDE DEF b
  <2>3. /\ LateDels' = LateDels /\ ToSet(Read(log'[f])) = Late(f) /\ wrd_buf'[f] = b
        /\ \A g \in Files \ {f} : Late(g)' = Late(g)
    BY <1>4, <2>1, <2>2, SavedMoves
  <2>4. Late(f)' = Late(f) \cup {x}
    BY <1>6, <2>1, <2>3 DEF Late, Read
  <2> QED
    BY <1>1, <1>5, <2>3, <2>4
<1>8. CASE Len(wrd_buf[f].data) # CacheLogWords
  <2>1. UNCHANGED logs /\ wrd_buf' = [wrd_buf EXCEPT ![f].data = Append(@, x)]
    BY <1>4, <1>8
  <2>2. /\ wrd_buf'[f].data = Append(wrd_buf[f].data, x)
        /\ \A g \in Files \ {f} : wrd_buf'[g] = wrd_buf[g]
        /\ \A g \in Files : wrd_buf'[g].del_buf = wrd_buf[g].del_buf
    BY <1>3, <2>1
  <2>3. ToSet(wrd_buf'[f].data) = ToSet(wrd_buf[f].data) \cup {x}
    <3>1. wrd_buf[f].data \in Seq(WordRecs)
      BY <1>3
    <3> QED
      BY <1>2, <2>2, <3>1, OneMore
  <2>4. Late(f)' = Late(f) \cup {x} /\ \A g \in Files \ {f} : Late(g)' = Late(g)
    BY <2>1, <2>2, <2>3 DEF Late, Read, logs
  <2>5. LateDels' = LateDels
    BY <2>1, <2>2 DEF LateDels, BufferDels, logs
  <2> QED
    BY <1>1, <1>5, <2>4, <2>5
<1> QED
  BY <1>7, <1>8
\* DpsRotateDelLog copies a log that fits its buffer as a whole.
LEMMA CopiedAll ==
    ASSUME NEW R, NEW file \in Seq(R), Len(file) <= PathMax
    PROVE  Copied(file) = file
<1>1. Len(file) \in Nat /\ PathMax \in Nat
  BY LogsOnlyAssumption
<1>2. Copied(file) = SubSeq(file, 1, Len(file))
  BY <1>1 DEF Copied
<1> QED
  BY <1>1, <1>2

\* A flush moves words and markers from the buffers to the splitter's files and
\* loses none of them.
FlushStep == SaveNext \/ Rename \/ Copy \/ Cut \/ CopyDels \/ CutDels

Marked == EarlyDels \cup LateDels

LEMMA NoSplitter ==
    ASSUME Procedure, flush.pc # "idle"
    PROVE  /\ splitter = Off /\ script \notin {"split", "rm"} /\ thread.pc = "idle"
           /\ \A g \in Files : ~Through(g) /\ Early(g) = ToSet(Read(split[g]))
<1>1. splitter = Off /\ script \notin {"split", "rm"} /\ thread.pc = "idle"
  BY DEF Procedure, Alone
<1>2. splitter.words = <<>> /\ splitter.pc = "off"
  BY <1>1 DEF Off
<1> QED
  BY <1>1, <1>2, NothingIn DEF Through, Early

LEMMA FlushMoves ==
    ASSUME FlushOK, WayOK, RestOK, Procedure, Rotated, Fits, FlushStep
    PROVE  /\ \A g \in Files : Data(g)' = Data(g) /\ ~Through(g) /\ ~Through(g)'
           /\ Marked' = Marked
           /\ base' = base
           /\ CutDels => LateDels' = {} /\ \A g \in Files : Late(g)' = {}
           /\ UNCHANGED <<thread, script, splitter>>
<1>1. flush.pc # "idle" /\ UNCHANGED <<base, thread, script, splitter>>
  BY DEF FlushStep, SaveNext, Rename, Copy, Cut, CopyDels, CutDels, buffers, index
<1>2. flush.at \in Files
  BY <1>1 DEF FlushOK
<1>3. /\ splitter = Off /\ script # "rm"
      /\ \A g \in Files : ~Through(g) /\ Early(g) = ToSet(Read(split[g]))
  BY <1>1, NoSplitter
<1>4. splitter'.words = <<>> /\ splitter'.pc = "off" /\ splitter.words = <<>>
  BY <1>1, <1>3 DEF Off
<1>5. \A g \in Files : ~Through(g)' /\ Early(g)' = ToSet(Read(split'[g]))
  BY <1>1, <1>3, <1>4, NothingIn DEF Through, Early, Read
<1> SUFFICES /\ \A g \in Files : Data(g)' = Data(g)
             /\ Marked' = Marked
             /\ CutDels => LateDels' = {} /\ \A g \in Files : Late(g)' = {}
  BY <1>1, <1>3, <1>5
<1>6. /\ log \in [Files -> Seq(WordRecs) \cup {NoFile}]
      /\ split \in [Files -> Seq(WordRecs) \cup {NoFile}]
      /\ \A g \in Files : Read(log[g]) \in Seq(WordRecs)
  BY ReadTyped DEF WayOK
<1>7. \A file \in Seq(WordRecs) : Read(file) = file
  BY NoSuchFile DEF Read
<1>8. NoFile \notin Seq(WordRecs)
  BY NoSuchFile
<1>9. Read(NoFile) = <<>>
  BY DEF Read
<1>10. CASE SaveNext
  <2>0. PICK f \in Files : f = flush.at
    BY <1>2
  <2>1. /\ SaveBuf(f) /\ wrd_buf' = [wrd_buf EXCEPT ![f] = Empty]
        /\ UNCHANGED <<split, splitter, del_split>> /\ ~CutDels
    BY <1>10, <2>0 DEF SaveNext, CutDels, splits, marks
  <2>2. Empty.del_buf = <<>> /\ Empty.data = <<>>
    BY DEF Empty
  <2>4. /\ LateDels' = LateDels /\ ToSet(Read(log'[f])) = Late(f) /\ wrd_buf'[f] = Empty
        /\ \A g \in Files \ {f} : Late(g)' = Late(g)
    BY <2>1, <2>2, SavedMoves
  <2>5. Late(f)' = Late(f)
    BY <2>2, <2>4, NothingIn DEF Late, Read
  <2>6. \A g \in Files : Late(g)' = Late(g) /\ Early(g)' = Early(g)
    BY <1>3, <1>5, <2>1, <2>4, <2>5 DEF Read
  <2> QED
    BY <2>1, <2>4, <2>6 DEF Data, Marked, EarlyDels
<1>11. CASE Rename \/ Copy \/ Cut
  <2>1. UNCHANGED <<wrd_buf, del_log, del_split>> /\ ~CutDels
    BY <1>11 DEF Rename, Copy, Cut, CutDels, buffers, marks, splits
  <2>2. Marked' = Marked
    BY <2>1 DEF Marked, EarlyDels, LateDels, BufferDels
  <2>3. \A g \in Files \ {flush.at} : log'[g] = log[g] /\ split'[g] = split[g]
    BY <1>2, <1>6, <1>11 DEF Rename, Copy, Cut, splits
  <2>4. \A g \in Files \ {flush.at} : Data(g)' = Data(g)
    BY <1>3, <1>5, <2>1, <2>3 DEF Data, Late, Read
  <2>5. ToSet(Read(split'[flush.at])) \cup ToSet(Read(log'[flush.at]))
            = ToSet(Read(split[flush.at])) \cup ToSet(Read(log[flush.at]))
    <3>1. CASE Rename
      <4>1. split'[flush.at] = log[flush.at] /\ log'[flush.at] = NoFile /\ split[flush.at] = NoFile
        BY <1>2, <1>6, <3>1 DEF Rename
      <4> QED
        BY <1>9, <4>1, NothingIn
    <3>2. CASE Copy
      <4> DEFINE file == Read(log[flush.at])
      <4>1. split[flush.at] # NoFile
        BY <3>2 DEF Copy
      <4>2. split[flush.at] \in Seq(WordRecs) /\ file \in Seq(WordRecs)
        BY <1>2, <1>6, <4>1
      <4>3. Len(file) <= PathMax
        BY <1>2 DEF Fits
      <4>4. log'[flush.at] = file /\ split'[flush.at] = split[flush.at] \o Copied(file)
        BY <1>2, <1>6, <3>2 DEF Copy
      <4> HIDE DEF file
      <4>5. split'[flush.at] = split[flush.at] \o file
        BY <4>2, <4>3, <4>4, CopiedAll
      <4>6. split'[flush.at] \in Seq(WordRecs)
        BY <4>2, <4>5
      <4>7. ToSet(split'[flush.at]) = ToSet(split[flush.at]) \cup ToSet(file)
        BY <4>2, <4>5, JoinedSet
      <4>8. Read(split'[flush.at]) = split'[flush.at] /\ Read(split[flush.at]) = split[flush.at] /\ Read(file) = file
        BY <1>7, <4>2, <4>6
      <4> QED
        BY <4>4, <4>7, <4>8 DEF file
    <3>3. CASE Cut
      <4>1. split'[flush.at] = split[flush.at] /\ log'[flush.at] = <<>>
        BY <1>2, <1>6, <3>3 DEF Cut, splits
      <4>2. ToSet(Read(log[flush.at])) \subseteq ToSet(Read(split[flush.at]))
        BY <3>3 DEF Cut, Rotated
      <4>3. Read(<<>>) = <<>>
        BY DEF Read
      <4> QED
        BY <4>1, <4>2, <4>3, NothingIn
    <3> QED
      BY <1>11, <3>1, <3>2, <3>3
  <2>6. \A g \in Files : g = flush.at => Data(g)' = Data(g)
    BY <1>3, <1>5, <2>1, <2>5 DEF Data, Late, Read
  <2> QED
    BY <2>1, <2>2, <2>4, <2>6
<1>12. CASE CopyDels \/ CutDels
  <2>1. UNCHANGED <<wrd_buf, log, split>>
    BY <1>12 DEF CopyDels, CutDels, buffers, splits, logs
  <2>2. \A g \in Files : Data(g)' = Data(g) /\ Late(g)' = Late(g)
    BY <1>3, <1>5, <2>1 DEF Data, Late, Read
  <2>3. BufferDels' = BufferDels
    BY <2>1 DEF BufferDels
  <2>4. CASE CopyDels
    <3>1. del_split' = del_split \o Copied(del_log) /\ del_log' = del_log /\ ~CutDels
      BY <2>4 DEF CopyDels, CutDels, Rotated, logs
    <3>2. del_split \in Seq(DelRecs) /\ del_log \in Seq(DelRecs)
      BY DEF RestOK
    <3>3. Copied(del_log) = del_log
      BY <3>2, CopiedAll DEF Fits
    <3>4. ToSet(del_split') = ToSet(del_split) \cup ToSet(del_log)
      BY <3>1, <3>2, <3>3, JoinedSet
    <3> QED
      BY <2>2, <2>3, <3>1, <3>4 DEF Marked, EarlyDels, LateDels
  <2>5. CASE CutDels
    <3>1. del_split' = del_split /\ del_log' = <<>> /\ flush.pc = "cutdels"
      BY <2>5 DEF CutDels, splits, marks
    <3>2. ToSet(del_log) \subseteq ToSet(del_split)
      BY <3>1 DEF Rotated
    <3>3. \A g \in Files : wrd_buf[g].data = <<>> /\ wrd_buf[g].del_buf = <<>> /\ Read(log[g]) = <<>>
      BY <3>1 DEF Rotated, Empty
    <3>4. BufferDels = {} /\ \A g \in Files : Late(g) = {}
      BY <3>3, NothingIn DEF BufferDels, Late
    <3>5. LateDels' = {}
      BY <2>3, <3>1, <3>4, NothingIn DEF LateDels
    <3> QED
      BY <2>2, <3>1, <3>2, <3>4, <3>5 DEF Marked, EarlyDels, LateDels
  <2> QED
    BY <1>12, <2>4, <2>5
<1> QED
  BY <1>10, <1>11, <1>12 DEF FlushStep
\* The files that a flush has visited.
LEMMA NextFileIs ==
    ASSUME FlushOK, flush.pc # "idle", NEW pc \in Pcs, NEW then \in Pcs, NextFile(pc, then)
    PROVE  /\ flush.at \in Files
           /\ \/ flush'.pc = pc /\ flush'.at \in Files /\ \A f \in Files : f < flush'.at <=> f < flush.at \/ f = flush.at
              \/ flush'.pc = then /\ flush'.at = 1 /\ \A f \in Files : f < flush.at \/ f = flush.at
<1>1. flush.at \in Files /\ Files = 1..WrdFiles /\ WrdFiles \in Nat
  BY LogsOnlyAssumption DEF FlushOK, Files
<1>2. CASE flush.at < WrdFiles
  <2>1. flush'.pc = pc /\ flush'.at = flush.at + 1
    BY <1>2 DEF NextFile
  <2> QED
    BY <1>1, <1>2, <2>1
<1>3. CASE ~(flush.at < WrdFiles)
  <2>1. flush'.pc = then /\ flush'.at = 1
    BY <1>3 DEF NextFile
  <2> QED
    BY <1>1, <1>3, <2>1
<1> QED
  BY <1>1, <1>2, <1>3

LEMMA RotatedKept ==
    ASSUME FlushOK, WayOK, RestOK, Procedure, Rotated, Fits, [Next]_vars, careful'
    PROVE  Rotated'
<1> DEFINE held == <<wrd_buf, log, split, del_log, del_split, del_made>>
<1>1. CASE flush'.pc = "idle"
  BY <1>1 DEF Rotated
<1>2. CASE UNCHANGED <<held, flush>>
  BY <1>2 DEF Rotated, Read
<1>3. CASE Send \/ Start \/ CutDels
  <2>1. flush'.pc = "idle"
    <3>1. CASE Send \/ Start
      <4>1. UNCHANGED flush
        BY <3>1 DEF Send, Start, control
      <4> QED
        BY <3>1, <4>1, CarefulStep
    <3>2. CASE CutDels
      BY <3>2 DEF CutDels, Resting
    <3> QED
      BY <1>3, <3>1, <3>2
  <2> QED
    BY <1>1, <2>1
<1>4. CASE UNCHANGED vars \/ Flush \/ Run
  <2>1. UNCHANGED <<held, flush>>
    BY <1>4 DEF vars, buffers, logs, splits, marks, control, Flush, Run
  <2> QED
    BY <1>2, <2>1
<1>5. CASE Mark \/ AddWord \/ Done \/ Take \/ Put \/ RemoveDels
  <2>1. UNCHANGED flush
    BY <1>5 DEF Mark, AddWord, Done, Take, Put, RemoveDels, control
  <2>2. flush.pc = "idle"
    <3>1. CASE Mark \/ AddWord \/ Done
      <4>1. thread.pc # "idle"
        BY <3>1 DEF Mark, AddWord, Done
      <4> QED
        BY <4>1 DEF Procedure, Alone
    <3>2. CASE Take \/ Put
      <4>1. splitter.pc # "off"
        BY <3>2 DEF Take, Put
      <4> QED
        BY <4>1 DEF Procedure, Off
    <3>3. CASE RemoveDels
      BY <3>3 DEF RemoveDels, Procedure
    <3> QED
      BY <1>5, <3>1, <3>2, <3>3
  <2> QED
    BY <1>1, <2>1, <2>2
<1>6. CASE BeginFlush
  <2>1. flush'.pc = "save" /\ flush'.at = 1
    BY <1>6 DEF BeginFlush
  <2>2. \A f \in Files : ~(f < 1)
    BY LogsOnlyAssumption DEF Files
  <2> QED
    BY <2>1, <2>2 DEF Rotated
<1> USE DEF Pcs
<1>7. CASE SaveNext
  <2>1. flush.pc = "save" /\ NextFile("save", "reset") /\ wrd_buf' = [wrd_buf EXCEPT ![flush.at] = Empty]
    BY <1>7 DEF SaveNext
  <2>2. flush.at \in Files
    BY <2>1, NextFileIs
  <2>3. \A f \in Files : f < flush.at \/ f = flush.at => wrd_buf'[f] = Empty
    BY <2>1, <2>2 DEF Rotated, WayOK, BufsOK
  <2>4. CASE flush'.pc = "save" /\ \A f \in Files : f < flush'.at <=> f < flush.at \/ f = flush.at
    BY <2>3, <2>4 DEF Rotated
  <2>5. CASE flush'.pc = "reset" /\ flush'.at = 1 /\ \A f \in Files : f < flush.at \/ f = flush.at
    BY <2>3, <2>5 DEF Rotated
  <2> QED
    BY <2>1, <2>4, <2>5, NextFileIs
<1>8. CASE ResetDelBuf
  <2>1. /\ flush.pc = "reset" /\ flush'.pc = "rotate" /\ flush'.at = flush.at /\ UNCHANGED wrd_buf
    BY <1>8 DEF ResetDelBuf, FlushOK
  <2>2. flush'.at = 1 /\ \A f \in Files : wrd_buf[f] = Empty
    BY <2>1 DEF Rotated
  <2>3. \A f \in Files : ~(f < 1)
    BY LogsOnlyAssumption DEF Files
  <2> QED
    BY <2>1, <2>2, <2>3 DEF Rotated
<1>9. CASE Rename \/ Cut
  <2>1. /\ flush.pc \in {"rotate", "cut"} /\ NextFile("rotate", "create") /\ UNCHANGED wrd_buf
        /\ \E file \in {NoFile, <<>>} : log' = [log EXCEPT ![flush.at] = file]
    BY <1>9 DEF Rename, Cut, buffers
  <2>2. flush.at \in Files
    BY <2>1, NextFileIs
  <2>3. \A f \in Files : f < flush.at \/ f = flush.at => Read(log'[f]) = <<>>
    <3>1. PICK file \in {NoFile, <<>>} : log' = [log EXCEPT ![flush.at] = file]
      BY <2>1
    <3>2. Read(file) = <<>>
      BY DEF Read
    <3> QED
      BY <2>1, <2>2, <3>1, <3>2 DEF Rotated, WayOK
  <2>4. \A f \in Files : wrd_buf'[f] = Empty
    BY <2>1 DEF Rotated
  <2>5. CASE flush'.pc = "rotate" /\ \A f \in Files : f < flush'.at <=> f < flush.at \/ f = flush.at
    BY <2>3, <2>4, <2>5 DEF Rotated, Read
  <2>6. CASE flush'.pc = "create" /\ \A f \in Files : f < flush.at \/ f = flush.at
    BY <2>3, <2>4, <2>6 DEF Rotated, Read
  <2> QED
    BY <2>1, <2>5, <2>6, NextFileIs
<1>10. CASE Copy
  <2>1. /\ flush.pc = "rotate" /\ flush'.pc = "cut" /\ flush'.at = flush.at /\ UNCHANGED wrd_buf
        /\ split[flush.at] # NoFile /\ flush.at \in Files
        /\ log' = [log EXCEPT ![flush.at] = Read(log[flush.at])]
        /\ split' = [split EXCEPT ![flush.at] = @ \o Copied(Read(log[flush.at]))]
    BY <1>10 DEF Copy, FlushOK, buffers
  <2> DEFINE file == Read(log[flush.at])
             old == split[flush.at]
  <2>2. old \in Seq(WordRecs) /\ file \in Seq(WordRecs)
    BY <2>1, ReadTyped DEF WayOK
  <2>3. Copied(file) = file
    <3>1. Len(file) <= PathMax
      BY <2>1 DEF Fits
    <3> HIDE DEF file
    <3> QED
      BY <2>2, <3>1, CopiedAll
  <2>4. log'[flush.at] = file /\ split'[flush.at] = old \o file
    BY <2>1, <2>3 DEF WayOK
  <2>5. \A f \in Files : f < flush.at => log'[f] = log[f] /\ Read(log[f]) = <<>>
    <3>1. \A f \in Files : f < flush.at => f # flush.at
      BY <2>1, LogsOnlyAssumption DEF Files
    <3> QED
      BY <2>1, <3>1 DEF WayOK, Rotated
  <2> HIDE DEF file, old
  <2>6. old \o file \in Seq(WordRecs)
    BY <2>2
  <2>7. Read(file) = file /\ Read(old \o file) = old \o file
    BY <2>2, <2>6, NoSuchFile DEF Read
  <2>8. ToSet(Read(log'[flush.at])) \subseteq ToSet(Read(split'[flush.at]))
    BY <2>2, <2>4, <2>7, JoinedSet
  <2>9. \A f \in Files : wrd_buf'[f] = Empty
    BY <2>1 DEF Rotated
  <2> QED
    BY <2>1, <2>5, <2>8, <2>9 DEF Rotated, Read
<1>11. CASE Create
  <2>1. flush.pc = "create" /\ flush'.pc = "dels" /\ del_made' /\ UNCHANGED <<wrd_buf, log>>
    BY <1>11 DEF Create, FlushOK, buffers, logs
  <2> QED
    BY <2>1 DEF Rotated, Read
<1>12. CASE CopyDels
  <2>1. /\ flush.pc = "dels" /\ flush'.pc = "cutdels" /\ UNCHANGED <<wrd_buf, log, del_log>>
        /\ del_split' = del_split \o Copied(del_log)
    BY <1>12 DEF CopyDels, FlushOK, Rotated, buffers, logs
  <2>2. del_split \in Seq(DelRecs) /\ del_log \in Seq(DelRecs)
    BY DEF RestOK
  <2>3. Copied(del_log) = del_log
    BY <2>2, CopiedAll DEF Fits
  <2>4. ToSet(del_log) \subseteq ToSet(del_split')
    BY <2>1, <2>2, <2>3, JoinedSet
  <2> QED
    BY <2>1, <2>4 DEF Rotated, Read
<1> QED
  BY <1>3, <1>4, <1>5, <1>6, <1>7, <1>8, <1>9, <1>10, <1>11, <1>12, CarefulStep DEF Next
\* The splitter is through with a file.
LEMMA PutMoves ==
    ASSUME WayOK, Procedure, Round, Put
    PROVE  /\ splitter.at \in Files /\ flush.pc = "idle"
           /\ Early(splitter.at) = ToSet(splitter.words) /\ splitter.dels = SortedDels(del_split)
           /\ \A g \in Files : g = splitter.at => Early(g)' = {} /\ Through(g)' /\ ~Through(g)
           /\ \A g \in Files \ {splitter.at} : Early(g)' = Early(g) /\ (Through(g)' <=> Through(g))
           /\ \A g \in Files : Late(g)' = Late(g)
           /\ EarlyDels' = EarlyDels /\ LateDels' = LateDels
           /\ splitter' = Off \/ (splitter'.pc = "read" /\ splitter'.dels = splitter.dels)
           /\ UNCHANGED <<split, del_split, thread, flush>>
<1>1. splitter.pc = "merge" /\ splitter.at \in Files
  BY DEF Put, WayOK, SplitterOK
<1>2. script = "split" /\ flush.pc = "idle"
  BY <1>1 DEF Procedure, Off
<1>3. UNCHANGED <<wrd_buf, log, split, del_log, del_split, thread, flush>>
  BY DEF Put, buffers, logs, splits, marks
<1>4. Read(split[splitter.at]) = <<>> /\ splitter.dels = SortedDels(del_split)
  BY <1>1 DEF Round
<1>5. EarlyDels' = EarlyDels /\ LateDels' = LateDels /\ \A g \in Files : Late(g)' = Late(g)
  BY <1>3 DEF EarlyDels, LateDels, BufferDels, Late, Read
<1>6. Early(splitter.at) = ToSet(splitter.words)
  BY <1>4, NothingIn DEF Early
<1>7. splitter'.words = <<>>
  BY DEF Put, Off, WayOK, SplitterOK
<1>8. \A g \in Files : Early(g)' = ToSet(Read(split[g]))
  BY <1>3, <1>7, NothingIn DEF Early, Read
<1>9. \A g \in Files \ {splitter.at} : Early(g) = ToSet(Read(split[g]))
  BY DEF Early
<1>10. \A g \in Files : g = splitter.at => Early(g)' = {}
  BY <1>4, <1>8, NothingIn
<1>11. Files = 1..WrdFiles /\ WrdFiles \in Nat
  BY LogsOnlyAssumption DEF Files
<1>12. \A g \in Files : Through(g) <=> g < splitter.at
  BY <1>1, <1>2 DEF Through
<1>13. CASE splitter.at = WrdFiles
  <2>1. script' = "rm" /\ splitter' = Off
    BY <1>2, <1>13 DEF Put
  <2>2. \A g \in Files : Through(g)'
    BY <2>1 DEF Through
  <2>3. /\ \A g \in Files \ {splitter.at} : g < splitter.at
        /\ \A g \in Files : g = splitter.at => ~(g < splitter.at)
    BY <1>1, <1>11, <1>13
  <2>4. /\ \A g \in Files : g = splitter.at => Through(g)' /\ ~Through(g)
        /\ \A g \in Files \ {splitter.at} : Through(g)' <=> Through(g)
    BY <1>12, <2>2, <2>3
  <2> QED
    BY <1>1, <1>2, <1>3, <1>4, <1>5, <1>6, <1>8, <1>9, <1>10, <2>1, <2>4
<1>14. CASE splitter.at # WrdFiles
  <2>1. script' = "split" /\ splitter'.at = splitter.at + 1 /\ splitter'.pc = "read" /\ splitter'.dels = splitter.dels
    BY <1>2, <1>14 DEF Put, WayOK, SplitterOK
  <2>2. \A g \in Files : Through(g)' <=> g < splitter.at + 1
    BY <2>1 DEF Through
  <2>3. \A g \in Files : /\ g < splitter.at + 1 <=> g < splitter.at \/ g = splitter.at
                         /\ g = splitter.at => ~(g < splitter.at)
    BY <1>1, <1>11
  <2> QED
    BY <1>1, <1>2, <1>3, <1>4, <1>5, <1>6, <1>8, <1>9, <1>10, <1>12, <2>1, <2>2, <2>3
<1> QED
  BY <1>13, <1>14

\* run-splitter removes the markers when no word is left that they are for.
LEMMA RemoveMoves ==
    ASSUME Procedure, Round, RemoveDels
    PROVE  /\ EarlyDels' = {} /\ LateDels' = LateDels
           /\ \A g \in Files : /\ Early(g) = {} /\ Early(g)' = {} /\ Late(g)' = Late(g)
                               /\ Through(g) /\ ~Through(g)'
           /\ UNCHANGED <<base, thread, flush, splitter>> /\ splitter = Off /\ flush.pc = "idle"
<1>1. /\ UNCHANGED <<base, thread, flush, splitter, wrd_buf, log, split, del_log>>
      /\ script = "rm" /\ script' = "idle" /\ del_split' = <<>>
  BY DEF RemoveDels, buffers, logs, index
<1>2. splitter = Off /\ splitter.pc = "off" /\ flush.pc = "idle"
  BY <1>1 DEF Procedure, Off
<1>3. EarlyDels' = {} /\ LateDels' = LateDels /\ \A g \in Files : Late(g)' = Late(g)
  BY <1>1, NothingIn DEF EarlyDels, LateDels, BufferDels, Late, Read
<1>4. \A g \in Files : Through(g) /\ ~Through(g)'
  BY <1>1, <1>2 DEF Through
<1>5. \A g \in Files : Early(g) = {}
  BY <1>4 DEF Round
<1>6. \A g \in Files : Early(g)' = Early(g)
  BY <1>1 DEF Early, Read
<1> QED
  BY <1>1, <1>2, <1>3, <1>4, <1>5, <1>6

LEMMA RoundKept ==
    ASSUME FlushOK, WayOK, RestOK, Procedure, Round, Rotated, Fits, [Next]_vars, careful'
    PROVE  Round'
<1>1. CASE UNCHANGED vars \/ Send \/ Mark \/ AddWord \/ Done \/ Flush \/ BeginFlush \/ ResetDelBuf \/ Create \/ Run
  <2>1. UNCHANGED <<split, del_split, splitter>>
    BY <1>1 DEF vars, splits, marks, Send, Mark, AddWord, Done, Flush, BeginFlush, ResetDelBuf, Create, Run
  <2>2. script' = "rm" <=> script = "rm"
    BY <1>1 DEF vars, control, Send, Mark, AddWord, Done, Flush, BeginFlush, ResetDelBuf, Create, Run
  <2> QED
    BY <2>1, <2>2 DEF Round, Through, Early, Read
<1>2. CASE FlushStep
  <2>1. flush.pc # "idle"
    BY <1>2 DEF FlushStep, SaveNext, Rename, Copy, Cut, CopyDels, CutDels
  <2>2. splitter = Off
    BY <2>1, NoSplitter
  <2>3. splitter' = Off /\ \A g \in Files : ~Through(g)'
    BY <1>2, <2>2, FlushMoves
  <2>4. splitter'.pc = "off"
    BY <2>3 DEF Off
  <2> QED
    BY <2>3, <2>4 DEF Round
<1>3. CASE Start
  <2>1. splitter'.pc = "read" /\ splitter'.dels = SortedDels(del_split) /\ del_split' = del_split
    BY <1>3 DEF Start, SplitterOn, splits, marks
  <2>2. Unseen
    BY <1>3, StepsUnseen
  <2> QED
    BY <2>1, <2>2 DEF Round, Unseen
<1>4. CASE Take
  <2>1. del_split' = del_split
    BY <1>4 DEF Take, marks
  <2>2. Unseen
    BY <1>4, StepsUnseen
  <2>3. splitter'.dels = SortedDels(del_split')
    BY <1>4, <2>1, TakeMoves DEF Round
  <2>4. splitter'.at = splitter.at /\ Read(split'[splitter'.at]) = <<>>
    BY <1>4, TakeMoves
  <2> QED
    BY <2>2, <2>3, <2>4 DEF Round, Unseen, Read
<1>5. CASE Put
  <2>1. \A g \in Files : Through(g)' => Early(g)' = {}
    BY <1>5, PutMoves DEF Round
  <2>2. splitter'.pc # "merge" /\ (splitter'.pc # "off" => splitter'.dels = SortedDels(del_split'))
    BY <1>5, PutMoves DEF Off
  <2> QED
    BY <2>1, <2>2 DEF Round
<1>6. CASE RemoveDels
  <2>1. splitter'.pc = "off" /\ \A g \in Files : ~Through(g)'
    BY <1>6, RemoveMoves DEF Off
  <2> QED
    BY <2>1 DEF Round
<1> QED
  BY <1>1, <1>2, <1>3, <1>4, <1>5, <1>6, CarefulStep DEF Next, FlushStep
-----------------------------------------------------------------------------
(* The order of time. *)

\* What a flush has brought to the splitter was sent before what came since,
\* and both before what is being stored.
Timely ==
    /\ \A f \in Files : \A x \in Data(f) : x.stamp <= now
    /\ \A m \in Marked : m.stamp <= now
    /\ flush.pc = "idle" => \A f \in Files :
          /\ \A x \in Early(f) : \A y \in Late(f) \cup LateDels : x.stamp < y.stamp
          /\ \A m \in EarlyDels : \A y \in Late(f) : m.stamp < y.stamp
    /\ thread.pc # "idle" => \A f \in Files : \A x \in Early(f) \cup EarlyDels : x.stamp < thread.stamp
    /\ thread.pc = "mark" => \A f \in Files : \A x \in Late(f) : x.stamp < thread.stamp

LEMMA DataTyped ==
    ASSUME WayOK, RestOK
    PROVE  /\ \A f \in Files : Early(f) \subseteq WordRecs /\ Late(f) \subseteq WordRecs /\ Data(f) \subseteq WordRecs
           /\ EarlyDels \subseteq DelRecs /\ LateDels \subseteq DelRecs
           /\ \A x \in WordRecs \cup DelRecs : x.stamp \in Int
<1>1. ASSUME NEW R, NEW s \in Seq(R) PROVE ToSet(s) \subseteq R
  <2>1. \A k \in DOMAIN s : s[k] \in R
    BY LenProperties, ElementOfSeq
  <2> QED
    BY <2>1 DEF ToSet
<1>2. /\ \A f \in Files : ToSet(Read(split[f])) \subseteq WordRecs /\ ToSet(Read(log[f])) \subseteq WordRecs
      /\ \A f \in Files : ToSet(wrd_buf[f].data) \subseteq WordRecs
      /\ \A f \in Files : ToSet(wrd_buf[f].del_buf) \subseteq DelRecs
      /\ ToSet(splitter.words) \subseteq WordRecs
      /\ ToSet(del_log) \subseteq DelRecs /\ ToSet(del_split) \subseteq DelRecs
  <2>1. \A f \in Files : Read(split[f]) \in Seq(WordRecs) /\ Read(log[f]) \in Seq(WordRecs)
    BY ReadTyped DEF WayOK
  <2>2. \A f \in Files : wrd_buf[f].data \in Seq(WordRecs) /\ wrd_buf[f].del_buf \in Seq(DelRecs)
    BY DEF WayOK, BufsOK
  <2>3. splitter.words \in Seq(WordRecs) /\ del_log \in Seq(DelRecs) /\ del_split \in Seq(DelRecs)
    BY DEF WayOK, SplitterOK, RestOK
  <2> QED
    BY <1>1, <2>1, <2>2, <2>3
<1>3. \A x \in WordRecs \cup DelRecs : x.stamp \in Int
  BY LogsOnlyAssumption DEF WordRecs, DelRecs
<1>4. BufferDels \subseteq DelRecs
  BY <1>2 DEF BufferDels
<1> QED
  BY <1>2, <1>3, <1>4 DEF Early, Late, Data, EarlyDels, LateDels

\* A flush ends when it has cut del.log.
LEMMA FlushEnds ==
    ASSUME FlushOK, [Next]_vars, flush'.pc = "idle"
    PROVE  flush.pc = "idle" \/ CutDels
<1>1. CASE UNCHANGED flush
  BY <1>1
<1>2. CASE UNCHANGED vars \/ Send \/ Mark \/ AddWord \/ Done \/ Flush \/ Run \/ Start \/ RunBare
           \/ Take \/ Put \/ RemoveDels \/ Die
  <2>1. UNCHANGED flush
    BY <1>2 DEF vars, control, Send, Mark, AddWord, Done, Flush, Run, Start, RunBare, Take, Put, RemoveDels, Die
  <2> QED
    BY <1>1, <2>1
<1>3. ~BeginFlush
  BY DEF BeginFlush
<1>4. ~(ResetDelBuf \/ Copy \/ Create \/ CopyDels)
  BY DEF ResetDelBuf, Copy, Create, CopyDels, FlushOK
<1>5. ~(SaveNext \/ Rename \/ Cut)
  <2> SUFFICES ASSUME SaveNext \/ Rename \/ Cut PROVE FALSE
    OBVIOUS
  <2>1. PICK pc \in Pcs \ {"idle"}, then \in Pcs \ {"idle"} : NextFile(pc, then)
    BY DEF SaveNext, Rename, Cut, Pcs
  <2>2. flush.pc # "idle"
    BY DEF SaveNext, Rename, Cut
  <2> QED
    BY <2>1, <2>2, NextFileIs
<1> QED
  BY <1>2, <1>3, <1>4, <1>5 DEF Next

LEMMA TimelyKept ==
    ASSUME FlushOK, ThreadOK, WayOK, RestOK, Current, Procedure, Round, Rotated, Timely, Fits, [Next]_vars, careful'
    PROVE  Timely'
<1> DEFINE Number(x) == x.stamp \in Int
<1>1. /\ now \in Int /\ thread.stamp \in Int /\ (thread.pc # "idle" => thread.stamp = now)
      /\ \A f \in Files : \A x \in Early(f) \cup Late(f) : Number(x)
      /\ \A m \in EarlyDels \cup LateDels : Number(m)
  BY DataTyped, LogsOnlyAssumption DEF ThreadOK, Current
<1>2. ASSUME now' = now, thread' = thread, flush'.pc = "idle" => flush.pc = "idle",
             \A f \in Files : Early(f)' \subseteq Early(f) /\ Late(f)' = Late(f),
             EarlyDels' \subseteq EarlyDels, LateDels' = LateDels
      PROVE  Timely'
  BY <1>2 DEF Timely, Data, Marked
<1>3. CASE UNCHANGED vars \/ Flush \/ BeginFlush \/ ResetDelBuf \/ Create \/ Run \/ Start \/ Take
  <2>1. now' = now /\ thread' = thread
    BY <1>3 DEF vars, buffers, sent, Flush, BeginFlush, ResetDelBuf, Create, Run, Start, Take
  <2>2. flush'.pc = "idle" => flush.pc = "idle"
    <3>1. CASE UNCHANGED vars \/ Flush \/ Run \/ Start \/ Take
      <4>1. UNCHANGED flush
        BY <3>1 DEF vars, control, Flush, Run, Start, Take
      <4> QED
        BY <4>1
    <3>2. CASE BeginFlush
      BY <3>2 DEF BeginFlush
    <3>3. CASE ResetDelBuf \/ Create
      <4>1. flush'.pc # "idle"
        BY <3>3 DEF ResetDelBuf, Create, FlushOK
      <4> QED
        BY <4>1
    <3> QED
      BY <1>3, <3>1, <3>2, <3>3
  <2>3. Unseen
    BY <1>3, StepsUnseen
  <2> QED
    BY <1>2, <2>1, <2>2, <2>3 DEF Unseen
<1>4. CASE Put
  <2>1. now' = now
    BY <1>4 DEF Put, sent
  <2>2. \A f \in Files : Early(f)' \subseteq Early(f)
    BY <1>4, PutMoves
  <2>3. /\ thread' = thread /\ flush' = flush /\ \A f \in Files : Late(f)' = Late(f)
        /\ EarlyDels' = EarlyDels /\ LateDels' = LateDels
    BY <1>4, PutMoves
  <2> QED
    BY <1>2, <2>1, <2>2, <2>3
<1>5. CASE RemoveDels
  <2>1. now' = now
    BY <1>5 DEF RemoveDels, sent
  <2> QED
    BY <1>2, <1>5, <2>1, RemoveMoves
<1>6. CASE Send
  <2>1. now' = now + 1 /\ thread'.stamp = now' /\ flush' = flush
    BY <1>6 DEF Send, control
  <2>2. Unseen
    BY <1>6, StepsUnseen
  <2>3. \A f \in Files : \A x \in Early(f) \cup Late(f) : x.stamp <= now /\ x.stamp < now + 1 /\ x.stamp <= now + 1
    BY <1>1 DEF Timely, Data
  <2>4. \A m \in EarlyDels \cup LateDels : m.stamp <= now /\ m.stamp < now + 1 /\ m.stamp <= now + 1
    BY <1>1 DEF Timely, Marked
  <2> QED
    BY <2>1, <2>2, <2>3, <2>4 DEF Timely, Data, Marked, Unseen
<1>7. CASE Mark
  <2> DEFINE m == LogDel(thread.stamp, thread.url)
  <2>1. /\ UNCHANGED <<now, flush>> /\ thread.pc = "mark" /\ thread'.pc = "words" /\ thread'.stamp = thread.stamp
    BY <1>7 DEF Mark, sent, control, ThreadOK
  <2>2. /\ LateDels' = LateDels \cup {m} /\ EarlyDels' = EarlyDels
        /\ \A f \in Files : Early(f)' = Early(f) /\ Late(f)' = Late(f)
    BY <1>7, MarkComes
  <2>3. m.stamp = thread.stamp
    BY DEF LogDel
  <2> HIDE DEF m
  <2>4. \A f \in Files : \A x \in Early(f) \cup EarlyDels : x.stamp < thread.stamp
    BY <2>1 DEF Timely
  <2>5. m.stamp <= now
    BY <1>1, <2>1, <2>3
  <2> QED
    BY <2>1, <2>2, <2>3, <2>4, <2>5 DEF Timely, Data, Marked
<1>8. CASE AddWord
  <2>1. PICK h, x : h = Head(thread.words) /\ x = LogWord(thread.stamp, thread.url, h[1], h[2])
    OBVIOUS
  <2>2. /\ UNCHANGED <<now, flush>> /\ thread.pc = "words" /\ thread'.pc = "words" /\ thread'.stamp = thread.stamp
    BY <1>8 DEF AddWord, sent, control, ThreadOK
  <2>3. /\ \A f \in Files : Late(f)' \subseteq Late(f) \cup {x}
        /\ \A f \in Files : Early(f)' = Early(f)
        /\ LateDels' = LateDels /\ EarlyDels' = EarlyDels
    BY <1>8, <2>1, WordComes
  <2>4. x.stamp = thread.stamp
    BY <2>1 DEF LogWord
  <2>5. \A f \in Files : \A y \in Early(f) \cup EarlyDels : y.stamp < thread.stamp
    BY <2>2 DEF Timely
  <2>6. x.stamp <= now
    BY <1>1, <2>2, <2>4
  <2> QED
    BY <2>2, <2>3, <2>4, <2>5, <2>6 DEF Timely, Data, Marked
<1>9. CASE Done
  <2>1. UNCHANGED <<now, flush>> /\ thread'.pc = "idle"
    BY <1>9 DEF Done, Idle, sent, control
  <2>2. Unseen
    BY <1>9, StepsUnseen
  <2> QED
    BY <2>1, <2>2 DEF Timely, Data, Marked, Unseen
<1>10. CASE FlushStep
  <2>1. UNCHANGED now /\ flush.pc # "idle" /\ (flush'.pc = "idle" => CutDels)
    <3>1. UNCHANGED now /\ flush.pc # "idle"
      BY <1>10 DEF FlushStep, SaveNext, Rename, Copy, Cut, CopyDels, CutDels, sent
    <3> QED
      BY <3>1, FlushEnds
  <2>2. /\ \A f \in Files : Data(f)' = Data(f)
        /\ Marked' = Marked
        /\ CutDels => LateDels' = {} /\ \A g \in Files : Late(g)' = {}
        /\ thread' = thread
    BY <1>10, FlushMoves
  <2>3. thread.pc = "idle"
    BY <2>1, NoSplitter
  <2> QED
    BY <2>1, <2>2, <2>3 DEF Timely
<1> QED
  BY <1>3, <1>4, <1>5, <1>6, <1>7, <1>8, <1>9, <1>10, CarefulStep DEF Next, FlushStep
-----------------------------------------------------------------------------
(* What the records are going to be. *)

\* The record of w with all that is still to come to it, and that no posting
\* comes twice; the same for what the splitter has only.
Final(w) == Shows(base[w], Data(FileOf[w]), Dels(FileOf[w]), w)
FinalOnce(w) == ShowsOnce(base[w], Data(FileOf[w]), Dels(FileOf[w]), w)
NextOnce(w) == flush.pc = "idle" /\ ~Through(FileOf[w]) => ShowsOnce(base[w], Early(FileOf[w]), EarlyDels, w)

LEMMA AreNumbers ==
    /\ Seq(WordRecs) \subseteq Seq(Entries) /\ Seq(DelRecs) \subseteq Seq(Markers)
    /\ Seq(Crds) \subseteq Seq(Postings) /\ Words \subseteq Int /\ \A w \in Words : FileOf[w] \in Files
<1>0. Urls \subseteq Int /\ Words \subseteq Int /\ 1..MaxCalls \subseteq Int /\ Nat \subseteq Int
  BY LogsOnlyAssumption
<1>1. WordRecs \subseteq Entries
  <2> SUFFICES ASSUME NEW x \in WordRecs PROVE x \in Entries
    OBVIOUS
  <2>1. /\ x = [stamp |-> x.stamp, url_id |-> x.url_id, wrd_id |-> x.wrd_id, coord |-> x.coord]
        /\ x.stamp \in Int /\ x.url_id \in Int /\ x.wrd_id \in Int /\ x.coord \in Int
    BY <1>0 DEF WordRecs
  <2> QED
    BY <2>1 DEF Entries
<1>2. DelRecs \subseteq Markers
  <2> SUFFICES ASSUME NEW x \in DelRecs PROVE x \in Markers
    OBVIOUS
  <2>1. x = [stamp |-> x.stamp, url_id |-> x.url_id] /\ x.stamp \in Int /\ x.url_id \in Int
    BY <1>0 DEF DelRecs
  <2> QED
    BY <2>1 DEF Markers
<1>3. Crds \subseteq Postings
  <2> SUFFICES ASSUME NEW x \in Crds PROVE x \in Postings
    OBVIOUS
  <2>1. x = [url_id |-> x.url_id, coord |-> x.coord] /\ x.url_id \in Int /\ x.coord \in Int
    BY <1>0 DEF Crds
  <2> QED
    BY <2>1 DEF Postings
<1>4. Words \subseteq Int /\ \A w \in Words : FileOf[w] \in Files
  BY LogsOnlyAssumption DEF Files
<1> QED
  BY <1>1, <1>2, <1>3, <1>4

\* A splitter merges the words of a file into the record of w.
LEMMA PutRecord ==
    ASSUME WayOK, RestOK, Procedure, Round, Put, Intact, IsInjective(splitter.words),
           NEW w \in Words, FileOf[w] = splitter.at,
           NEW D, D = Early(splitter.at), NEW M, M = EarlyDels,
           ShowsOnce(base[w], D, M, w)
    PROVE  ToSet(base'[w]) = Shows(base[w], D, M, w) /\ IsInjective(base'[w])
<1> DEFINE b == [data |-> splitter.words, del_buf |-> splitter.dels]
           record == base[w]
           saved == Merge(RemoveOldCrds(record, b.del_buf), Added(DpsSort(FreshWords(b), Cmplog_wrd), w))
<1>1. splitter.words \in Seq(WordRecs) /\ del_split \in Seq(DelRecs) /\ record \in Seq(Crds) /\ Ascending(record)
  BY DEF WayOK, SplitterOK, RestOK
<1>2. b.data \in Seq(Entries) /\ del_split \in Seq(Markers) /\ record \in Seq(Postings) /\ w \in Int
  BY <1>1, AreNumbers
<1>3. D = ToSet(b.data) /\ b.del_buf = SortedDels(del_split) /\ M = ToSet(del_split)
  BY PutMoves DEF EarlyDels
<1>4. base'[w] = saved
  BY DEF Put, Merging
<1>5. Unmoved(b)
  BY DEF Intact, Put
<1>6. LatestOf(b.del_buf, del_split)
  BY <1>2, <1>3, SortedDelsLatest
<1>7. IsInjective(b.data)
  OBVIOUS
<1>8. \A x \in D : x.stamp \in Int /\ x.url_id \in Int
  <2>1. \A k \in DOMAIN b.data : b.data[k] \in Entries
    BY <1>2, LenProperties, ElementOfSeq
  <2> QED
    BY <1>3, <2>1 DEF ToSet, Entries
<1> HIDE DEF b, record, saved
<1> USE DEF record
<1>9. LatestOf(b.del_buf, b.del_buf) /\ b.del_buf \in Seq(Markers)
  <2>1. OnePerUrl(b.del_buf)
    BY <1>6 DEF LatestOf
  <2>2. \A k \in DOMAIN b.del_buf : b.del_buf[k].stamp \in Int
    BY <2>1, MarkerNumbers DEF OnePerUrl
  <2>3. \A k \in DOMAIN b.del_buf : b.del_buf[k].url_id = b.del_buf[k].url_id /\ b.del_buf[k].stamp >= b.del_buf[k].stamp
    BY <2>2
  <2> QED
    BY <2>1, <2>3 DEF LatestOf, OnePerUrl
<1> DEFINE N == ToSet(b.del_buf)
<1>10. Shows(record, D, N, w) = Shows(record, D, M, w) /\ ShowsOnce(record, D, N, w)
  <2>1. ShowsOnce(record, D, M, w)
    OBVIOUS
  <2> HIDE DEF record
  <2>2. /\ Shows(record, D, ToSet(b.del_buf), w) = Shows(record, D, ToSet(del_split), w)
        /\ ShowsOnce(record, D, ToSet(b.del_buf), w) <=> ShowsOnce(record, D, ToSet(del_split), w)
    BY <1>2, <1>6, <1>8, LatestShows
  <2> QED
    BY <1>3, <2>1, <2>2
<1>11. ContentOf(record, b, w) = Shows(record, D, N, w) /\ PostedOnce(record, b, w)
  BY <1>3, <1>7, <1>10, BufferShows
<1>12. ToSet(saved) = OldIn(record, b) \cup NewIn(b, w) /\ IsInjective(saved)
  BY <1>1, <1>2, <1>5, <1>9, <1>11, RecordMerged DEF saved
<1> QED
  BY <1>4, <1>10, <1>11, <1>12 DEF ContentOf
LEMMA SplitterWordsOnce ==
    ASSUME OnceInv, splitter.pc # "off"
    PROVE  IsInjective(splitter.words)
<1>1. WayOK /\ Shown /\ Apart(OnTheWay, merged)
  BY ShownNow DEF OnceInv
<1>2. splitter.at \in Files
  BY <1>1 DEF WayOK, SplitterOK
<1>3. PICK p \in Places : OnTheWay[p] = splitter.words
  BY <1>1, <1>2, PlaceOf DEF Shown
<1> QED
  BY <1>1, <1>3 DEF Apart, IsInjective

\* A merge leaves what the records are going to be.
LEMMA PutFinal ==
    ASSUME OnceInv, RestOK, Procedure, Round, Timely, Put, Intact, NEW w \in Words, FinalOnce(w), NextOnce(w)
    PROVE  Final(w)' = Final(w) /\ FinalOnce(w)'
<1>1. PICK f \in Files : f = FileOf[w]
  BY AreNumbers
<1>2. WayOK
  BY DEF OnceInv
<1>3. /\ LateDels' = LateDels /\ EarlyDels' = EarlyDels /\ Late(f)' = Late(f) /\ flush.pc = "idle"
  BY <1>2, PutMoves
<1>4. CASE f # splitter.at
  <2>1. base'[w] = base[w]
    BY <1>1, <1>4 DEF Put, Merging
  <2>2. Early(f)' = Early(f) /\ (Through(f)' <=> Through(f))
    BY <1>2, <1>4, PutMoves
  <2>3. Data(f)' = Data(f) /\ Dels(f)' = Dels(f)
    BY <1>3, <2>2 DEF Data, Dels
  <2> QED
    BY <1>1, <2>1, <2>3 DEF Final, FinalOnce
<1>5. CASE f = splitter.at
  <2>1. PICK D, M, E, N : D = Early(f) /\ M = EarlyDels /\ E = Late(f) /\ N = LateDels
    OBVIOUS
  <2>2. Early(f)' = {} /\ Through(f)' /\ ~Through(f)
    BY <1>2, <1>5, PutMoves
  <2>3. Data(f) = D \cup E /\ Dels(f) = M \cup N
    BY <2>1, <2>2 DEF Data, Dels
  <2>4. Data(f)' = E /\ Dels(f)' = N
    BY <1>3, <2>1, <2>2 DEF Data, Dels
  <2>5. ShowsOnce(base[w], D \cup E, M \cup N, w)
    BY <1>1, <2>3 DEF FinalOnce
  <2>6. ShowsOnce(base[w], D, M, w)
    BY <1>1, <1>3, <2>1, <2>2 DEF NextOnce
  <2>7. IsInjective(splitter.words)
    BY SplitterWordsOnce DEF Put
  <2>8. ToSet(base'[w]) = Shows(base[w], D, M, w) /\ IsInjective(base'[w])
    BY <1>1, <1>2, <1>5, <2>1, <2>6, <2>7, PutRecord
  <2>9. /\ \A x \in D \cup E : x.stamp \in Int
        /\ \A m \in M \cup N : m.stamp \in Int
    BY <1>2, <2>1, DataTyped
  <2>10. /\ \A x \in D, y \in E : x.stamp < y.stamp
         /\ \A x \in D, m \in N : x.stamp < m.stamp
         /\ \A m \in M, y \in E : m.stamp < y.stamp
    BY <1>3, <2>1 DEF Timely
  <2>11. /\ Shows(base'[w], E, N, w) = Shows(base[w], D \cup E, M \cup N, w)
         /\ ShowsOnce(base'[w], E, N, w)
    BY <2>5, <2>8, <2>9, <2>10, TwoRounds
  <2> QED
    BY <1>1, <2>3, <2>4, <2>11 DEF Final, FinalOnce
<1> QED
  BY <1>4, <1>5

\* Nothing but what a thread stores changes what the records are going to be.
LEMMA FinalSame ==
    ASSUME FlushOK, OnceInv, RestOK, Procedure, Round, Rotated, Timely, Fits, Intact, [Next]_vars, careful',
           ~Mark, ~AddWord,
           NEW w \in Words, FinalOnce(w), NextOnce(w)
    PROVE  Final(w)' = Final(w) /\ FinalOnce(w)'
<1>1. PICK f \in Files : f = FileOf[w]
  BY AreNumbers
<1>2. WayOK
  BY DEF OnceInv
<1>3. ASSUME base' = base, Data(f)' = Data(f), Dels(f)' = Dels(f)
      PROVE  Final(w)' = Final(w) /\ FinalOnce(w)'
  BY <1>1, <1>3 DEF Final, FinalOnce
<1>4. CASE UNCHANGED vars \/ Send \/ Done \/ Flush \/ BeginFlush \/ ResetDelBuf \/ Create \/ Run \/ Start \/ Take
  <2>1. Unseen
    BY <1>2, <1>4, StepsUnseen
  <2>2. Data(f)' = Data(f) /\ Dels(f)' = Dels(f)
    BY <2>1 DEF Unseen, Data, Dels
  <2> QED
    BY <1>3, <2>1, <2>2 DEF Unseen
<1>5. CASE FlushStep
  <2>1. base' = base /\ Data(f)' = Data(f) /\ ~Through(f) /\ ~Through(f)' /\ Marked' = Marked
    BY <1>2, <1>5, FlushMoves
  <2>2. Dels(f) = Marked /\ Dels(f)' = Marked'
    BY <2>1 DEF Dels, Marked
  <2> QED
    BY <1>3, <2>1, <2>2
<1>6. CASE Put
  BY <1>6, PutFinal
<1>7. CASE RemoveDels
  <2>1. /\ base' = base /\ EarlyDels' = {} /\ LateDels' = LateDels /\ Early(f) = {} /\ Early(f)' = {}
        /\ Late(f)' = Late(f) /\ Through(f) /\ ~Through(f)'
    BY <1>7, RemoveMoves
  <2>2. Data(f)' = Data(f) /\ Dels(f)' = Dels(f)
    BY <2>1 DEF Data, Dels
  <2> QED
    BY <1>3, <2>1, <2>2
<1> QED
  BY <1>4, <1>5, <1>6, <1>7, CarefulStep DEF Next, FlushStep

\* What the splitter has says no posting twice as soon as no flush is under way.
LEMMA NextOnceKept ==
    ASSUME FlushOK, ThreadOK, OnceInv, RestOK, Procedure, Round, Rotated, Fits, [Next]_vars, careful',
           NEW w \in Words, FinalOnce(w), NextOnce(w), FinalOnce(w)'
    PROVE  NextOnce(w)'
<1>1. PICK f \in Files : f = FileOf[w]
  BY AreNumbers
<1>2. WayOK
  BY DEF OnceInv
<1>3. CASE flush'.pc # "idle"
  BY <1>3 DEF NextOnce
<1>4. ASSUME base'[w] = base[w], Early(f)' = Early(f), EarlyDels' = EarlyDels, Through(f)' <=> Through(f),
             flush.pc = "idle"
      PROVE  NextOnce(w)'
  BY <1>1, <1>4 DEF NextOnce
<1>5. CASE flush'.pc = "idle" /\ ~CutDels
  <2>1. flush.pc = "idle"
    BY <1>5, FlushEnds
  <2>2. CASE UNCHANGED vars \/ Send \/ Done \/ Flush \/ BeginFlush \/ ResetDelBuf \/ Create \/ Run \/ Start \/ Take
    <3>1. Unseen
      BY <1>2, <2>2, StepsUnseen
    <3> QED
      BY <1>4, <2>1, <3>1 DEF Unseen
  <2>3. CASE Mark
    <3>1. UNCHANGED <<base, script, splitter>>
      BY <2>3 DEF Mark, index, control
    <3>2. Through(f)' <=> Through(f)
      BY <3>1 DEF Through
    <3> QED
      BY <1>2, <1>4, <2>1, <2>3, <3>1, <3>2, MarkComes
  <2>4. CASE AddWord
    <3>1. UNCHANGED <<base, script, splitter>>
      BY <2>4 DEF AddWord, index, control
    <3>2. Through(f)' <=> Through(f)
      BY <3>1 DEF Through
    <3>3. Early(f)' = Early(f) /\ EarlyDels' = EarlyDels
      <4>1. PICK h, x : h = Head(thread.words) /\ x = LogWord(thread.stamp, thread.url, h[1], h[2])
        OBVIOUS
      <4> QED
        BY <1>2, <2>4, <4>1, WordComes
    <3> QED
      BY <1>4, <2>1, <3>1, <3>2, <3>3
  <2>5. CASE Put
    <3>1. CASE f = splitter.at
      <4>1. Through(f)'
        BY <1>2, <2>5, <3>1, PutMoves
      <4> QED
        BY <1>1, <4>1 DEF NextOnce
    <3>2. CASE f # splitter.at
      <4>1. base'[w] = base[w]
        BY <1>1, <2>5, <3>2 DEF Put, Merging
      <4>2. Early(f)' = Early(f) /\ (Through(f)' <=> Through(f)) /\ EarlyDels' = EarlyDels
        BY <1>2, <2>5, <3>2, PutMoves
      <4> QED
        BY <1>4, <2>1, <4>1, <4>2
    <3> QED
      BY <3>1, <3>2
  <2>6. CASE RemoveDels
    <3>1. Early(f)' = {} /\ EarlyDels' = {} /\ base' = base
      BY <2>6, RemoveMoves
    <3>2. IsInjective(base[w])
      BY DEF FinalOnce, ShowsOnce
    <3>3. ShowsOnce(base[w], {}, {}, w)
      BY <3>2, NothingShows
    <3> QED
      BY <1>1, <3>1, <3>3 DEF NextOnce
  <2>7. ~FlushStep
    BY <1>5, <2>1 DEF FlushStep, SaveNext, Rename, Copy, Cut, CopyDels
  <2> QED
    BY <2>2, <2>3, <2>4, <2>5, <2>6, <2>7, CarefulStep DEF Next, FlushStep
<1>6. CASE CutDels
  <2>1. LateDels' = {} /\ Late(f)' = {} /\ ~Through(f)'
    BY <1>2, <1>6, FlushMoves DEF FlushStep
  <2>2. Data(f)' = Early(f)' /\ Dels(f)' = EarlyDels'
    BY <2>1 DEF Data, Dels
  <2> QED
    BY <1>1, <2>2 DEF FinalOnce, NextOnce
<1> QED
  BY <1>3, <1>5, <1>6
\* A marker takes what the record of w says of its url.
LEMMA MarkFinal ==
    ASSUME ThreadOK, WayOK, RestOK, Timely, Mark, NEW w \in Words, FinalOnce(w)
    PROVE  Final(w)' = {c \in Final(w) : c.url_id # thread.url} /\ FinalOnce(w)'
<1>1. PICK f \in Files : f = FileOf[w]
  BY AreNumbers
<1>2. PICK D, M, u, s : D = Data(f) /\ M = Dels(f) /\ u = thread.url /\ s = thread.stamp
  OBVIOUS
<1>3. UNCHANGED <<base, script, splitter>> /\ thread.pc = "mark"
  BY DEF Mark, index, control
<1>4. Through(f)' <=> Through(f)
  BY <1>3 DEF Through
<1>5. /\ LateDels' = LateDels \cup {LogDel(s, u)}
      /\ Early(f)' = Early(f) /\ Late(f)' = Late(f) /\ EarlyDels' = EarlyDels
  BY <1>2, MarkComes
<1>6. Data(f)' = D /\ Dels(f)' = M \cup {LogDel(s, u)}
  BY <1>2, <1>4, <1>5 DEF Data, Dels
<1>7. s \in Int
  BY <1>2, LogsOnlyAssumption DEF ThreadOK
<1>8. \A x \in D : x.stamp \in Int /\ x.stamp < s
  BY <1>2, <1>3, DataTyped DEF Data, Timely
<1>9. ShowsOnce(base[w], D, M, w)
  BY <1>1, <1>2 DEF FinalOnce
<1>10. /\ Shows(base[w], D, M \cup {LogDel(s, u)}, w) = {c \in Shows(base[w], D, M, w) : c.url_id # u}
       /\ ShowsOnce(base[w], D, M \cup {LogDel(s, u)}, w)
  <2>1. PICK record : record = base[w]
    OBVIOUS
  <2> DEFINE N == M \cup {LogDel(s, u)}
  <2>2. /\ Shows(record, D, N, w) = {c \in Shows(record, D, M, w) : c.url_id # u}
        /\ ShowsOnce(record, D, M, w) => ShowsOnce(record, D, N, w)
    BY <1>7, <1>8, MarkerTakes
  <2> QED
    BY <1>9, <2>1, <2>2
<1> QED
  BY <1>1, <1>2, <1>3, <1>6, <1>10 DEF Final, FinalOnce

\* A word of the document comes to what its record says.
LEMMA WordFinal ==
    ASSUME ThreadOK, WayOK, RestOK, Current, Timely, AddWord,
           NEW v, v = Head(thread.words)[1], NEW p, p = Crd(thread.url, Head(thread.words)[2]),
           p \notin Final(v), NEW w \in Words, FinalOnce(w)
    PROVE  /\ Final(w)' = Final(w) \cup (IF w = v THEN {p} ELSE {})
           /\ FinalOnce(w)'
<1>1. PICK f \in Files : f = FileOf[w]
  BY AreNumbers
<1>2. PICK h, x : h = Head(thread.words) /\ x = LogWord(thread.stamp, thread.url, h[1], h[2])
  OBVIOUS
<1>3. PICK D, M : D = Data(f) /\ M = Dels(f)
  OBVIOUS
<1>4. UNCHANGED <<base, script, splitter>> /\ thread.pc = "words"
  BY DEF AddWord, index, control
<1>5. Through(f)' <=> Through(f)
  BY <1>4 DEF Through
<1>6. x.wrd_id = v /\ x.stamp = thread.stamp /\ x.url_id = thread.url /\ PostingOf(x) = p
  BY <1>2 DEF LogWord, PostingOf
<1>7. /\ f = FileOf[v] => Late(f)' = Late(f) \cup {x}
      /\ f # FileOf[v] => Late(f)' = Late(f)
      /\ Early(f)' = Early(f) /\ LateDels' = LateDels /\ EarlyDels' = EarlyDels
  BY <1>2, WordComes
<1>8. Dels(f)' = M
  BY <1>3, <1>5, <1>7 DEF Dels
<1>9. CASE f # FileOf[v]
  <2>1. w # v /\ Data(f)' = D
    BY <1>1, <1>3, <1>7, <1>9 DEF Data
  <2> QED
    BY <1>1, <1>3, <1>4, <1>8, <2>1 DEF Final, FinalOnce
<1>10. CASE f = FileOf[v]
  <2>1. Data(f)' = D \cup {x}
    BY <1>3, <1>7, <1>10 DEF Data
  <2>2. NotBefore(M, x)
    <3>1. thread.stamp = now /\ now \in Int
      BY <1>4, LogsOnlyAssumption DEF Current, ThreadOK
    <3>2. \A m \in M : m.stamp <= now /\ m.stamp \in Int
      BY <1>3, DataTyped DEF Dels, Timely, Marked
    <3> QED
      BY <1>6, <3>1, <3>2 DEF NotBefore
  <2> DEFINE new == IF w = x.wrd_id THEN {PostingOf(x)} ELSE {}
  <2>3. ShowsOnce(base[w], D, M, w) /\ Final(w) = Shows(base[w], D, M, w)
    BY <1>1, <1>3 DEF Final, FinalOnce
  <2>4. Shows(base[w], D, M, w) \cap new = {}
    BY <1>6, <2>3
  <2>5. /\ Shows(base[w], D \cup {x}, M, w) = Shows(base[w], D, M, w) \cup new
        /\ ShowsOnce(base[w], D \cup {x}, M, w)
    BY <2>2, <2>3, <2>4, WordTells
  <2>6. new = IF w = v THEN {p} ELSE {}
    BY <1>6
  <2> HIDE DEF new
  <2>7. Final(w)' = Shows(base[w], D \cup {x}, M, w) /\ FinalOnce(w)'
    BY <1>1, <1>4, <1>8, <2>1, <2>5 DEF Final, FinalOnce
  <2> QED
    BY <2>3, <2>5, <2>6, <2>7
<1> QED
  BY <1>9, <1>10

-----------------------------------------------------------------------------
(* What was sent. *)

\* What the record of w is going to say of url u.
Has(w, u) == {c \in Final(w) : c.url_id = u}

\* Of a url that no thread stores it is what was sent last.  Behind its marker
\* it is what the thread has left of the words it was given.
Said ==
    /\ status \in [Urls -> {"new", "indexed", "deleted"}]
    /\ wanted \in [Urls -> Seq(Words \X Nat)]
    /\ \A u \in Urls : status[u] = "new" => wanted[u] = <<>>
    /\ \A u \in Urls : thread.pc = "idle" \/ u # thread.url =>
          \A w \in Words : Has(w, u) = Of(u, wanted[u], w)
    /\ thread.pc = "mark" => thread.words = wanted[thread.url]
    /\ thread.pc = "words" => \A w \in Words :
          /\ Has(w, thread.url) \cup Of(thread.url, thread.words, w) = Of(thread.url, wanted[thread.url], w)
          /\ Has(w, thread.url) \cap Of(thread.url, thread.words, w) = {}

LEMMA OfNothing == \A u, w : Of(u, <<>>, w) = {}
BY NothingIn DEF Of

\* The next word is not there yet.
LEMMA WordIsNew ==
    ASSUME ThreadOK, Current, Said, AddWord,
           NEW u, u = thread.url, NEW v, v = Head(thread.words)[1], NEW p, p = Crd(u, Head(thread.words)[2])
    PROVE  /\ v \in Words /\ p.url_id = u /\ p \notin Final(v)
           /\ \A w : Of(u, thread.words, w) = Of(u, Tail(thread.words), w) \cup (IF w = v THEN {p} ELSE {})
           /\ p \notin Of(u, Tail(thread.words), v)
<1>1. thread.words \in Seq(Words \X Nat) /\ thread.words # <<>> /\ thread.pc = "words"
  BY DEF AddWord, ThreadOK
<1>2. Head(thread.words) \in Words \X Nat
  BY <1>1
<1>3. PICK R, words, c : /\ words = thread.words /\ c = Head(words)[2]
                         /\ words \in Seq(R) /\ \A y \in R : y = <<y[1], y[2]>>
  BY <1>1
<1>4. v \in Words /\ p.url_id = u /\ p = Crd(u, c)
  BY <1>2, <1>3 DEF Crd
<1>5. IsInjective(words)
  BY <1>3 DEF Current, Distinct, IsInjective
<1>6. words # <<>> /\ v = Head(words)[1]
  BY <1>1, <1>3
<1>7. /\ \A w : Of(u, words, w) = Of(u, Tail(words), w) \cup (IF w = v THEN {Crd(u, c)} ELSE {})
      /\ Crd(u, c) \notin Of(u, Tail(words), v)
  BY <1>3, <1>5, <1>6, OfTail
<1>8. p \in Of(u, thread.words, v)
  BY <1>3, <1>4, <1>7
<1>9. p \notin Final(v)
  BY <1>1, <1>4, <1>8 DEF Said, Has
<1> QED
  BY <1>3, <1>4, <1>7, <1>9
\* What the records are going to be, and that it has no posting twice.
FinalInv == \A w \in Words : FinalOnce(w) /\ NextOnce(w)

\* What holds while the procedure is kept.
KeptInv == Procedure /\ Round /\ Rotated /\ Timely /\ FinalInv /\ Said

LEMMA FinalKept ==
    ASSUME FlushOK, ThreadOK, OnceInv, RestOK, KeptInv, Fits, Intact, [Next]_vars, careful'
    PROVE  FinalInv'
<1>1. Procedure /\ Round /\ Rotated /\ Timely /\ Said /\ WayOK /\ Current
  BY DEF KeptInv, OnceInv
<1>2. \A w \in Words : FinalOnce(w) /\ NextOnce(w)
  BY DEF KeptInv, FinalInv
<1>3. ASSUME NEW w \in Words PROVE FinalOnce(w)'
  <2>1. CASE Mark
    BY <1>1, <1>2, <2>1, MarkFinal
  <2>2. CASE AddWord
    <3>1. PICK u, v, p : u = thread.url /\ v = Head(thread.words)[1] /\ p = Crd(u, Head(thread.words)[2])
      OBVIOUS
    <3>2. p \notin Final(v)
      BY <1>1, <2>2, <3>1, WordIsNew
    <3>3. p = Crd(thread.url, Head(thread.words)[2])
      BY <3>1
    <3> QED
      BY <1>1, <1>2, <2>2, <3>1, <3>2, <3>3, WordFinal
  <2>3. CASE ~Mark /\ ~AddWord
    BY <1>1, <1>2, <2>3, FinalSame
  <2> QED
    BY <2>1, <2>2, <2>3
<1>4. \A w \in Words : NextOnce(w)'
  BY <1>1, <1>2, <1>3, NextOnceKept
<1> QED
  BY <1>3, <1>4 DEF FinalInv

LEMMA SendSaid ==
    ASSUME Said, Send, \A w \in Words : Final(w)' = Final(w)
    PROVE  Said'
<1>1. thread.pc = "idle"
  BY DEF Send
<1>2. PICK u \in Urls, d \in Docs \cup {<<>>} :
          /\ status[u] # "deleted"
          /\ status' = [status EXCEPT ![u] = IF d = <<>> THEN "deleted" ELSE "indexed"]
          /\ wanted' = [wanted EXCEPT ![u] = d]
          /\ thread' = [pc |-> IF status[u] = "indexed" THEN "mark" ELSE "words",
                        url |-> u, stamp |-> now', words |-> d]
  BY DEF Send
<1>3. d \in Seq(Words \X Nat)
  <2>1. <<>> \in Seq(Words \X Nat)
    OBVIOUS
  <2> QED
    BY <2>1, LogsOnlyAssumption
<1>4. status \in [Urls -> {"new", "indexed", "deleted"}] /\ wanted \in [Urls -> Seq(Words \X Nat)]
  BY DEF Said
<1>5. /\ status' \in [Urls -> {"new", "indexed", "deleted"}] /\ wanted' \in [Urls -> Seq(Words \X Nat)]
      /\ status'[u] # "new" /\ wanted'[u] = d
      /\ \A x \in Urls \ {u} : status'[x] = status[x] /\ wanted'[x] = wanted[x]
  BY <1>2, <1>3, <1>4
<1>6. \A x : \A w \in Words : Has(w, x)' = Has(w, x)
  BY DEF Has
<1>7. thread'.url = u /\ thread'.words = d /\ thread'.pc = IF status[u] = "indexed" THEN "mark" ELSE "words"
  BY <1>2
<1>8. \A x \in Urls \ {u} : \A w \in Words : Has(w, x)' = Of(x, wanted'[x], w)
  BY <1>1, <1>5, <1>6 DEF Said
<1>9. ASSUME thread'.pc = "words", NEW w \in Words
      PROVE  Has(w, u)' = {}
  <2>1. status[u] = "new"
    BY <1>2, <1>4, <1>7, <1>9
  <2>2. Has(w, u) = Of(u, <<>>, w)
    BY <1>1, <2>1 DEF Said
  <2> QED
    BY <1>6, <2>2, OfNothing
<1>10. \A x \in Urls : status'[x] = "new" => wanted'[x] = <<>>
  BY <1>5 DEF Said
<1>11. thread'.pc = "words" => \A w \in Words :
          /\ Has(w, u)' \cup Of(u, d, w) = Of(u, wanted'[u], w)
          /\ Has(w, u)' \cap Of(u, d, w) = {}
  BY <1>5, <1>9
<1>12. thread'.pc # "idle"
  BY <1>7
<1>13. \A x \in Urls : thread'.pc = "idle" \/ x # thread'.url => \A w \in Words : Has(w, x)' = Of(x, wanted'[x], w)
  BY <1>7, <1>8, <1>12
<1>14. thread'.pc = "mark" => thread'.words = wanted'[thread'.url]
  BY <1>5, <1>7
<1>15. \A x : x = u => (thread'.pc = "words" => \A w \in Words :
          /\ Has(w, x)' \cup Of(x, thread'.words, w) = Of(x, wanted'[x], w)
          /\ Has(w, x)' \cap Of(x, thread'.words, w) = {})
  BY <1>7, <1>11
<1> QED
  BY <1>5, <1>7, <1>10, <1>13, <1>14, <1>15 DEF Said, Has

LEMMA MarkSaid ==
    ASSUME ThreadOK, Said, Mark, \A w \in Words : Final(w)' = {c \in Final(w) : c.url_id # thread.url}
    PROVE  Said'
<1>1. PICK u, words : u = thread.url /\ words = thread.words
  OBVIOUS
<1>2. UNCHANGED <<status, wanted>> /\ thread.pc = "mark" /\ u \in Urls
  BY <1>1 DEF Mark, sent, ThreadOK
<1>3. thread'.pc = "words" /\ thread'.url = u /\ thread'.words = words
  BY <1>1 DEF Mark, ThreadOK
<1>4. words = wanted[u]
  BY <1>1, <1>2 DEF Said
<1>5. \A x : \A w \in Words : x # u => Has(w, x)' = Has(w, x)
  BY <1>1 DEF Has
<1>6. \A w \in Words : Has(w, u)' = {}
  BY <1>1 DEF Has
<1>7. \A x \in Urls : x # u => \A w \in Words : Has(w, x)' = Of(x, wanted[x], w)
  BY <1>1, <1>5 DEF Said
<1>8. \A w \in Words : /\ Has(w, u)' \cup Of(u, words, w) = Of(u, wanted[u], w)
                       /\ Has(w, u)' \cap Of(u, words, w) = {}
  BY <1>4, <1>6
<1> QED
  BY <1>2, <1>3, <1>7, <1>8 DEF Said, Has

LEMMA AddWordSaid ==
    ASSUME ThreadOK, Said, AddWord,
           NEW u, u = thread.url, NEW v \in Words, NEW p, p.url_id = u, p \notin Final(v),
           \A w : Of(u, thread.words, w) = Of(u, Tail(thread.words), w) \cup (IF w = v THEN {p} ELSE {}),
           p \notin Of(u, Tail(thread.words), v),
           \A w \in Words : Final(w)' = Final(w) \cup (IF w = v THEN {p} ELSE {})
    PROVE  Said'
<1>1. PICK words, rest : words = thread.words /\ rest = Tail(thread.words)
  OBVIOUS
<1>2. UNCHANGED <<status, wanted>> /\ thread.pc = "words" /\ u \in Urls
  BY DEF AddWord, sent, ThreadOK
<1>3. thread'.pc = "words" /\ thread'.url = u /\ thread'.words = rest
  BY <1>1 DEF AddWord, ThreadOK
<1>4. \A x : \A w \in Words : x # u => Has(w, x)' = Has(w, x)
  <2> SUFFICES ASSUME NEW w \in Words, NEW x, x # u PROVE Has(w, x)' = Has(w, x)
    OBVIOUS
  <2>1. Final(w)' = Final(w) \/ Final(w)' = Final(w) \cup {p}
    OBVIOUS
  <2> QED
    BY <2>1 DEF Has
<1>5. /\ Has(v, u)' = Has(v, u) \cup {p}
      /\ \A w \in Words : w # v => Has(w, u)' = Has(w, u)
  BY DEF Has
<1>6. /\ Of(u, words, v) = Of(u, rest, v) \cup {p}
      /\ \A w \in Words : w # v => Of(u, words, w) = Of(u, rest, w)
      /\ p \notin Of(u, rest, v)
  BY <1>1
<1>7. \A x \in Urls : x # u => \A w \in Words : Has(w, x)' = Of(x, wanted[x], w)
  BY <1>4 DEF Said
<1>8. \A w \in Words : /\ Has(w, u) \cup Of(u, words, w) = Of(u, wanted[u], w)
                       /\ Has(w, u) \cap Of(u, words, w) = {}
  BY <1>1, <1>2 DEF Said
<1>9. p \notin Has(v, u)
  BY DEF Has
<1>10. ASSUME NEW w \in Words
       PROVE  /\ Has(w, u)' \cup Of(u, rest, w) = Of(u, wanted[u], w)
              /\ Has(w, u)' \cap Of(u, rest, w) = {}
  <2>1. CASE w = v
    BY <1>5, <1>6, <1>8, <2>1
  <2>2. CASE w # v
    BY <1>5, <1>6, <1>8, <2>2
  <2> QED
    BY <2>1, <2>2
<1> QED
  BY <1>2, <1>3, <1>7, <1>10 DEF Said, Has

LEMMA SaidKept ==
    ASSUME FlushOK, ThreadOK, OnceInv, RestOK, KeptInv, Fits, Intact, [Next]_vars, careful'
    PROVE  Said'
<1>1. Procedure /\ Round /\ Rotated /\ Timely /\ Said /\ WayOK /\ Current
  BY DEF KeptInv, OnceInv
<1>2. \A w \in Words : FinalOnce(w) /\ NextOnce(w)
  BY DEF KeptInv, FinalInv
<1>3. ASSUME ~Mark, ~AddWord, NEW w \in Words PROVE Final(w)' = Final(w)
  BY <1>1, <1>2, <1>3, FinalSame
<1>4. CASE Mark
  <2>1. \A w \in Words : Final(w)' = {c \in Final(w) : c.url_id # thread.url}
    BY <1>1, <1>2, <1>4, MarkFinal
  <2> QED
    BY <1>1, <1>4, <2>1, MarkSaid
<1>5. CASE AddWord
  <2>1. PICK u, v, p : u = thread.url /\ v = Head(thread.words)[1] /\ p = Crd(u, Head(thread.words)[2])
    OBVIOUS
  <2>2. /\ v \in Words /\ p.url_id = u /\ p \notin Final(v)
        /\ \A w : Of(u, thread.words, w) = Of(u, Tail(thread.words), w) \cup (IF w = v THEN {p} ELSE {})
        /\ p \notin Of(u, Tail(thread.words), v)
    BY <1>1, <1>5, <2>1, WordIsNew
  <2>3. p = Crd(thread.url, Head(thread.words)[2])
    BY <2>1
  <2>4. \A w \in Words : Final(w)' = Final(w) \cup (IF w = v THEN {p} ELSE {})
    BY <1>1, <1>2, <1>5, <2>1, <2>2, <2>3, WordFinal
  <2> QED
    BY <1>1, <1>5, <2>1, <2>2, <2>4, AddWordSaid
<1>6. CASE ~Mark /\ ~AddWord /\ Send
  BY <1>1, <1>3, <1>6, SendSaid
<1>7. ASSUME ~Mark, ~AddWord, UNCHANGED <<status, wanted>>,
             \/ thread' = thread
             \/ thread.pc = "words" /\ thread.words = <<>> /\ thread'.pc = "idle"
      PROVE  Said'
  <2>1. \A x : \A w \in Words : Has(w, x)' = Has(w, x)
    BY <1>3, <1>7 DEF Has
  <2>2. CASE thread' = thread
    BY <1>1, <1>7, <2>1, <2>2 DEF Said
  <2>3. CASE thread.pc = "words" /\ thread.words = <<>> /\ thread'.pc = "idle"
    <3>1. \A w \in Words : Has(w, thread.url) = Of(thread.url, wanted[thread.url], w)
      <4>1. \A w \in Words : Has(w, thread.url) \cup Of(thread.url, <<>>, w) = Of(thread.url, wanted[thread.url], w)
        BY <1>1, <2>3 DEF Said
      <4> QED
        BY <4>1, OfNothing
    <3>2. \A x \in Urls, w \in Words : Has(w, x) = Of(x, wanted[x], w)
      BY <1>1, <3>1 DEF Said
    <3> QED
      BY <1>1, <1>7, <2>1, <2>3, <3>2 DEF Said
  <2> QED
    BY <1>7, <2>2, <2>3
<1>8. CASE ~Mark /\ ~AddWord /\ Done
  <2>1. UNCHANGED <<status, wanted>> /\ thread.pc = "words" /\ thread.words = <<>> /\ thread'.pc = "idle"
    BY <1>8 DEF Done, Idle, sent
  <2> QED
    BY <1>7, <1>8, <2>1
<1>9. CASE ~Mark /\ ~AddWord /\ ~Send /\ ~Done
  <2>1. CASE UNCHANGED vars \/ Flush \/ BeginFlush \/ SaveNext \/ ResetDelBuf \/ Rename \/ Copy \/ Cut \/ Create
    <3>1. UNCHANGED <<status, wanted, thread>>
      BY <2>1 DEF vars, sent, buffers, Flush, BeginFlush, SaveNext, ResetDelBuf, Rename, Copy, Cut, Create
    <3> QED
      BY <1>7, <1>9, <3>1
  <2>2. CASE CopyDels \/ CutDels \/ Run \/ Start \/ Take \/ Put \/ RemoveDels
    <3>1. UNCHANGED <<status, wanted, thread>>
      BY <2>2 DEF sent, buffers, CopyDels, CutDels, Run, Start, Take, Put, RemoveDels
    <3> QED
      BY <1>7, <1>9, <3>1
  <2> QED
    BY <1>9, <2>1, <2>2, CarefulStep DEF Next
<1> QED
  BY <1>4, <1>5, <1>6, <1>8, <1>9
LEMMA KeptStep ==
    ASSUME FlushOK, ThreadOK, OnceInv, RestOK, KeptInv, Fits, Intact, [Next]_vars, careful'
    PROVE  KeptInv'
<1>1. Procedure /\ Round /\ Rotated /\ Timely /\ Said /\ WayOK /\ Current
  BY DEF KeptInv, OnceInv
<1>2. Procedure' /\ Round' /\ Rotated' /\ Timely'
  BY <1>1, ProcedureKept, RoundKept, RotatedKept, TimelyKept
<1>3. FinalInv' /\ Said'
  BY FinalKept, SaidKept
<1> QED
  BY <1>2, <1>3 DEF KeptInv

LEMMA KeptInit ==
    ASSUME Init
    PROVE  KeptInv
<1>1. /\ wrd_buf = [f \in Files |-> Empty] /\ thread = Idle /\ flush = Resting /\ splitter = Off /\ script = "idle"
      /\ log = [f \in Files |-> NoFile] /\ split = [f \in Files |-> NoFile] /\ del_log = <<>> /\ del_split = <<>>
      /\ base = [w \in Words |-> <<>>] /\ status = [u \in Urls |-> "new"] /\ wanted = [u \in Urls |-> <<>>]
  BY DEF Init
<1>2. splitter.pc = "off" /\ splitter.words = <<>> /\ thread.pc = "idle" /\ flush.pc = "idle"
  BY <1>1 DEF Off, Idle, Resting
<1>3. \A f \in Files : Read(log[f]) = <<>> /\ Read(split[f]) = <<>> /\ wrd_buf[f].data = <<>> /\ wrd_buf[f].del_buf = <<>>
  BY <1>1 DEF Read, Empty
<1>4. /\ \A f \in Files : Early(f) = {} /\ Late(f) = {} /\ ~Through(f)
      /\ EarlyDels = {} /\ LateDels = {}
  BY <1>1, <1>2, <1>3, NothingIn DEF Early, Late, Through, EarlyDels, LateDels, BufferDels
<1>5. \A f \in Files : Data(f) = {} /\ Dels(f) = {}
  BY <1>4 DEF Data, Dels
<1>6. Procedure /\ Round /\ Rotated
  BY <1>1, <1>2, <1>4 DEF Procedure, Round, Rotated, Alone
<1>7. Timely
  BY <1>2, <1>4, <1>5 DEF Timely, Marked
<1>8. ASSUME NEW w \in Words
      PROVE  FinalOnce(w) /\ NextOnce(w) /\ Final(w) = {}
  <2>1. PICK f \in Files : f = FileOf[w]
    BY AreNumbers
  <2>2. base[w] = <<>> /\ IsInjective(base[w]) /\ ToSet(base[w]) = {}
    BY <1>1, NothingIn DEF IsInjective
  <2>3. Shows(base[w], {}, {}, w) = {} /\ ShowsOnce(base[w], {}, {}, w)
    BY <2>2, NothingShows
  <2> QED
    BY <1>4, <1>5, <2>1, <2>3 DEF Final, FinalOnce, NextOnce
<1>9. Said
  <2>1. \A w \in Words, u \in Urls : Has(w, u) = {} /\ Of(u, wanted[u], w) = {}
    BY <1>1, <1>8, OfNothing DEF Has
  <2>2. <<>> \in Seq(Words \X Nat)
    OBVIOUS
  <2> QED
    BY <1>1, <1>2, <2>1, <2>2 DEF Said
<1> QED
  BY <1>6, <1>7, <1>8, <1>9 DEF KeptInv, FinalInv

\* When all is through, the records are what was sent.
LEMMA QuietKept ==
    ASSUME WayOK, RestOK, KeptInv, Quiet
    PROVE  UpToDate
<1>1. /\ thread.pc = "idle" /\ splitter = Off /\ flush.pc = "idle" /\ script = "idle"
      /\ del_log = <<>> /\ del_split = <<>> /\ \A f \in Files : wrd_buf[f] = Empty
  BY DEF Quiet, Flushing
<1>2. \A f \in Files : /\ Read(log[f]) = <<>> /\ Read(split[f]) = <<>>
                       /\ wrd_buf[f].data = <<>> /\ wrd_buf[f].del_buf = <<>>
  <2> SUFFICES ASSUME NEW f \in Files
               PROVE  Read(log[f]) = <<>> /\ Read(split[f]) = <<>>
    BY <1>1 DEF Empty
  <2>1. Shown
    BY ShownNow
  <2>2. OnTheWay[<<"log", f>>] = <<>> /\ OnTheWay[<<"split", f>>] = <<>>
    BY PlaceOf DEF Quiet
  <2>3. flush # [pc |-> "cut", at |-> f]
    BY <1>1
  <2> QED
    BY <2>1, <2>2, <2>3 DEF Shown
<1>3. splitter.words = <<>>
  BY <1>1 DEF Off
<1>4. /\ \A f \in Files : Early(f) = {} /\ Late(f) = {}
      /\ EarlyDels = {} /\ LateDels = {}
  BY <1>1, <1>2, <1>3, NothingIn DEF Early, Late, EarlyDels, LateDels, BufferDels
<1>5. \A f \in Files : Data(f) = {} /\ Dels(f) = {}
  BY <1>4 DEF Data, Dels
<1> SUFFICES ASSUME NEW w \in Words PROVE Lists(base[w], WantedCrds(w))
  BY DEF UpToDate
<1>6. PICK r : r = base[w]
  OBVIOUS
<1>7. FinalOnce(w) /\ FileOf[w] \in Files
  BY AreNumbers DEF KeptInv, FinalInv
<1>8. Final(w) = ToSet(r) /\ IsInjective(r)
  <2>1. Final(w) = Shows(r, {}, {}, w) /\ ShowsOnce(r, {}, {}, w)
    BY <1>5, <1>6, <1>7 DEF Final, FinalOnce
  <2> QED
    BY <2>1, NothingShows
<1>9. r \in Seq(Crds) /\ Ascending(r)
  BY <1>6 DEF RestOK
<1>10. r \in Seq(Postings)
  BY <1>9, AreNumbers
<1>11. Lists(r, ToSet(r))
  BY <1>8, <1>9, <1>10, RecordLists
<1>12. \A u \in Urls : Has(w, u) = Of(u, wanted[u], w)
  BY <1>1 DEF KeptInv, Said
<1>13. \A x \in ToSet(r) : x.url_id \in Urls
  <2>1. \A k \in DOMAIN r : r[k] \in Crds
    BY <1>9, LenProperties, ElementOfSeq
  <2> QED
    BY <2>1 DEF ToSet, Crds
<1>14. ASSUME NEW x PROVE x \in ToSet(r) <=> \E u \in Urls : x \in Has(w, u)
  BY <1>8, <1>13 DEF Has
<1>15. ASSUME NEW x PROVE x \in WantedCrds(w) <=> \E u \in Urls : x \in Of(u, wanted[u], w)
  BY DEF WantedCrds, Of
<1>16. ToSet(r) = WantedCrds(w)
  BY <1>12, <1>14, <1>15
<1> QED
  BY <1>6, <1>11, <1>16

-----------------------------------------------------------------------------

\* What holds in every state, and while the procedure is kept.
IndexInv == FlushOK /\ ThreadOK /\ OnceInv /\ RestOK /\ (careful => KeptInv)

LEMMA IndexInit ==
    ASSUME Init
    PROVE  IndexInv
<1>1. FlushOK /\ ThreadOK /\ OnceInv
  BY OnceInit
<1>2. RestOK
  BY RestInit
<1> QED
  BY <1>1, <1>2, KeptInit DEF IndexInv

LEMMA IndexKept ==
    ASSUME \A d \in Docs : Distinct(d), IndexInv, careful => Intact, Fits, [Next]_vars
    PROVE  IndexInv'
<1>1. FlushOK /\ ThreadOK /\ OnceInv /\ RestOK /\ WayOK
  BY DEF IndexInv, OnceInv
<1>2. FlushOK' /\ ThreadOK' /\ RestOK'
  BY <1>1, FlushKept, ThreadKept, RestKept
<1>3. OnceInv'
  BY <1>1, OnceKept
<1>4. ASSUME careful' PROVE KeptInv'
  <2>1. careful
    BY <1>4, CarefulStep
  <2> QED
    BY <1>1, <1>4, <2>1, KeptStep DEF IndexInv
<1> QED
  BY <1>2, <1>3, <1>4 DEF IndexInv

LEMMA IndexFresh ==
    ASSUME IndexInv
    PROVE  Fresh
BY QuietKept DEF IndexInv, OnceInv, Fresh

\* In the logs-only mode the index is what was sent, each posting once, when all
\* is through: for all numbers of urls, words, files and commands, however
\* flushes, rounds of run-splitter and documents alternate, as long as the
\* procedure is kept, the logs fit the buffer they are copied with and no
\* splitter comes to the wrong dps_memmove of DpsRemoveOldWords.
THEOREM FreshUnlessCut ==
    ASSUME \A d \in Docs : Distinct(d)
    PROVE  Spec /\ []Intact /\ []Fits => []Fresh
<1>1. Init => IndexInv
  BY IndexInit
<1>2. IndexInv /\ Intact /\ Fits /\ [Next]_vars => IndexInv'
  BY IndexKept
<1>3. IndexInv => Fresh
  BY IndexFresh
<1> QED
  BY <1>1, <1>2, <1>3, PTL DEF Spec

\* The words of one url are never moved in parts.
LEMMA IntactOneUrl ==
    ASSUME \A u, v \in Urls : u = v, WayOK, RestOK, Round
    PROVE  Intact
<1> SUFFICES ASSUME splitter.pc = "merge"
             PROVE  Unmoved([data |-> splitter.words, del_buf |-> splitter.dels])
  BY DEF Intact
<1> DEFINE b == [data |-> splitter.words, del_buf |-> splitter.dels]
<1>1. b.data \in Seq(WordRecs) /\ del_split \in Seq(DelRecs) /\ b.del_buf = SortedDels(del_split)
  BY DEF WayOK, SplitterOK, RestOK, Round
<1>2. LatestOf(b.del_buf, del_split)
  BY <1>1, AreNumbers, SortedDelsLatest
<1>3. \A m \in DOMAIN b.del_buf : b.del_buf[m].url_id \in Urls /\ b.del_buf[m].url_id \in Int
  <2>1. \A m \in DOMAIN del_split : del_split[m] \in DelRecs
    BY <1>1, LenProperties, ElementOfSeq
  <2>2. \A m \in DOMAIN b.del_buf : b.del_buf[m] \in DelRecs
    BY <1>2, <2>1 DEF LatestOf
  <2>3. \A m \in DOMAIN b.del_buf : b.del_buf[m].url_id \in Urls
    BY <2>2 DEF DelRecs
  <2>4. Urls \subseteq Int
    BY LogsOnlyAssumption
  <2> QED
    BY <2>3, <2>4
<1>4. \A k \in DOMAIN b.data : b.data[k].url_id \in Urls
  <2>1. \A k \in DOMAIN b.data : b.data[k] \in WordRecs
    BY <1>1, LenProperties, ElementOfSeq
  <2> QED
    BY <2>1 DEF WordRecs
<1> HIDE DEF b
<1>5. CASE DOMAIN b.del_buf = {}
  BY <1>5 DEF Unmoved, NotOld, b
<1>6. CASE DOMAIN b.del_buf # {}
  <2>1. \A k \in DOMAIN b.data : ~Beyond(b.del_buf, b.data[k])
    BY <1>3, <1>4, <1>6 DEF Beyond
  <2> QED
    BY <2>1 DEF Unmoved, b
<1> QED
  BY <1>5, <1>6

\* So the index is always right in the setting of the run logs.
THEOREM FreshOneUrl ==
    ASSUME \A d \in Docs : Distinct(d), \A u, v \in Urls : u = v
    PROVE  Spec /\ []Fits => []Fresh
<1>1. Init => IndexInv
  BY IndexInit
<1>2. IndexInv => (careful => Intact)
  BY IntactOneUrl DEF IndexInv, OnceInv, KeptInv
<1>3. IndexInv /\ Fits /\ [Next]_vars => IndexInv'
  BY <1>2, IndexKept
<1>4. IndexInv => Fresh
  BY IndexFresh
<1> QED
  BY <1>1, <1>3, <1>4, PTL DEF Spec
=============================================================================
