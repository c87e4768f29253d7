------------------------------ MODULE LogWords ------------------------------
(***************************************************************************)
(* The algorithms of src/src/cache.c that DpsLogdSaveBuf and DpsProcessBuf *)
(* run over a buffer of words and a buffer of deletion markers before the  *)
(* words become postings of the records of the "wrd" files.                *)
(*                                                                         *)
(* rec_ids, stamps and coordinates are numbers, as in the code, because    *)
(* the algorithms sort by them.  A count of array elements is a number and *)
(* position k of a sequence is element k - 1 of the array.                 *)
(***************************************************************************)
EXTENDS Integers, Sequences, TLC, FiniteSets, SequencesExt

\* DPS_LOGWORD, DPS_LOGDEL and DPS_URL_CRD.
LogWord(s, u, w, c) == [stamp |-> s, url_id |-> u, wrd_id |-> w, coord |-> c]
LogDel(s, u) == [stamp |-> s, url_id |-> u]
Crd(u, c) == [url_id |-> u, coord |-> c]

-----------------------------------------------------------------------------
(* DpsSort and its orders.  What is equal in one of them may come in any   *)
(* order and stays in its own here.                                        *)

\* Those elements of s that ahead has a set for: first the one that no index
\* is ahead of, then the one that one is ahead of, and so on.
InOrder(s, ahead) ==
    [k \in 1..Cardinality(DOMAIN ahead) |->
        s[CHOOSE i \in DOMAIN ahead : Cardinality(ahead[i]) = k - 1]]

DpsSort(s, Less(_, _)) ==
    InOrder(s, [i \in DOMAIN s |-> {j \in DOMAIN s : \/ Less(s[j], s[i])
                                                     \/ ~Less(s[i], s[j]) /\ j < i}])

\* By url, the latest first.
Cmplog(x, y) ==
    \/ x.url_id < y.url_id
    \/ x.url_id = y.url_id /\ x.stamp > y.stamp

Cmplog_wrd(x, y) ==
    \/ x.wrd_id < y.wrd_id
    \/ x.wrd_id = y.wrd_id /\ x.url_id < y.url_id
    \/ x.wrd_id = y.wrd_id /\ x.url_id = y.url_id /\ x.coord < y.coord

\* By url, the latest last.
Cmpurldellog(x, y) ==
    \/ x.url_id < y.url_id
    \/ x.url_id = y.url_id /\ x.stamp < y.stamp

-----------------------------------------------------------------------------
(* The deletion markers. *)

\* Mutant of RemoveDelLogDups: the first marker of a url stays, not the last.
RemoveDelLogDupsFirst(dels) ==
    LET firsts == {k \in DOMAIN dels : k = 1 \/ dels[k - 1].url_id # dels[k].url_id}
    IN InOrder(dels, [k \in firsts |-> {l \in firsts : l < k}])

\* Of the markers of one url, which follow each other, the last stays.
RemoveDelLogDups(dels) ==
    LET lasts == {k \in DOMAIN dels : k = Len(dels) \/ dels[k].url_id # dels[k + 1].url_id}
    IN InOrder(dels, [k \in lasts |-> {l \in lasts : l < k}])

SortedDels(dels) == RemoveDelLogDups(DpsSort(dels, Cmpurldellog))

\* The first of the markers from number start on that is not of an earlier
\* url than u; Len(dels) + 1 when there is none.
NextDel(dels, start, u) ==
    CHOOSE s \in start..(Len(dels) + 1) :
        /\ s <= Len(dels) => dels[s].url_id >= u
        /\ \A t \in start..(s - 1) : dels[t].url_id < u

-----------------------------------------------------------------------------
(* The words of the buffer. *)

\* The loop of DpsRemoveOldWords over sorted words: those with no marker of
\* their url, or not older than it, are kept; it ends at the words beyond the
\* url of the last marker, of which there are "tail".
Walk(words, dels) ==
    LET walk[i \in 0..Len(words)] ==
            IF i = 0 THEN [start |-> 1, kept |-> <<>>, tail |-> 0]
            ELSE LET before == walk[i - 1]
                     x == words[i]
                     s == NextDel(dels, before.start, x.url_id)
                 IN IF s > Len(dels)
                    THEN [start |-> s, kept |-> before.kept, tail |-> before.tail + 1]
                    ELSE [start |-> s,
                          kept  |-> IF x.url_id < dels[s].url_id \/ x.stamp >= dels[s].stamp
                                    THEN Append(before.kept, x) ELSE before.kept,
                          tail  |-> before.tail]
    IN walk[Len(words)]

\* A DPS_LOGWORD has three parts as long as a DPS_URL_CRD (8 bytes each where
\* time_t has 8): the stamp, the two ids, the coordinate with its padding.
Parts == 3

\* The first j + t elements of array m after dps_memmove(m + j, m + i, t *
\* sizeof(DPS_URL_CRD)): t parts move, and not t words.
MovedParts(m, i, j, t) ==
    LET Source(p, q) == IF Parts * (p - 1) + q \in (Parts * j)..(Parts * j + t - 1)
                        THEN m[p + i - j] ELSE m[p]
    IN [p \in 1..(j + t) |->
           [stamp  |-> Source(p, 0).stamp,
            url_id |-> Source(p, 1).url_id,
            wrd_id |-> Source(p, 1).wrd_id,
            coord  |-> Source(p, 2).coord]]

RemoveOldWords(words, dels) ==
    LET w == Walk(words, dels)
        j == Len(w.kept)
        i == Len(words) - w.tail
    IN IF dels = <<>> \/ words = <<>> THEN words
       ELSE IF i = j \/ w.tail = 0 THEN w.kept \o SubSeq(words, i + 1, Len(words))
       ELSE MovedParts(w.kept \o SubSeq(words, j + 1, Len(words)), i, j, w.tail)

\* What a buffer of words and one of markers leave of the words.
FreshWords(b) == RemoveOldWords(DpsSort(b.data, Cmplog), SortedDels(b.del_buf))

-----------------------------------------------------------------------------
(* The postings of a record. *)

\* The postings of a url that has a marker go, whatever its stamp.
RemoveOldCrds(crds, dels) ==
    LET walk[i \in 0..Len(crds)] ==
            IF i = 0 THEN [start |-> 1, kept |-> <<>>]
            ELSE LET before == walk[i - 1]
                     x == crds[i]
                     s == NextDel(dels, before.start, x.url_id)
                 IN [start |-> s,
                     kept  |-> IF s <= Len(dels) /\ dels[s].url_id = x.url_id
                               THEN before.kept ELSE Append(before.kept, x)]
    IN walk[Len(crds)].kept

CrdAfter(x, y) == x.url_id > y.url_id \/ (x.url_id = y.url_id /\ x.coord > y.coord)

\* Mutant of Merge: the new postings follow the old ones.
MergeAppend(old, new) == old \o new

\* The merge of DpsProcessBuf, from the end, of sorted postings.
Merge(old, new) ==
    LET merged[p \in (0..Len(old)) \X (0..Len(new))] ==
            LET j == p[1]
                z == p[2]
            IN IF z = 0 THEN SubSeq(old, 1, j)
               ELSE IF j > 0 /\ CrdAfter(old[j], new[z]) THEN Append(merged[<<j - 1, z>>], old[j])
               ELSE Append(merged[<<j, z - 1>>], new[z])
    IN merged[<<Len(old), Len(new)>>]

\* The postings that words of a sorted buffer add to the record of w.
Added(words, w) ==
    LET mine == {i \in DOMAIN words : words[i].wrd_id = w}
        crds == InOrder(words, [i \in mine |-> {j \in mine : j < i}])
    IN [k \in DOMAIN crds |-> Crd(crds[k].url_id, crds[k].coord)]

\* A record of these postings: each once, and in the order of the files.
Lists(record, crds) ==
    /\ ToSet(record) = crds
    /\ \A k, l \in DOMAIN record : k < l => CrdAfter(record[l], record[k])
=============================================================================
