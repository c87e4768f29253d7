-------------------------------- MODULE Base --------------------------------
(***************************************************************************)
(* One file pair of the on-disk hash table of src/src/base.c: the index    *)
(* file (.i), HashPrime head slots followed by the slots appended for      *)
(* colliding records, and the data file (.s), the stored buffers.  The     *)
(* cached daemon keeps word postings, url information and documents in     *)
(* such files.                                                             *)
(*                                                                         *)
(* The model follows the one process that holds the exclusive lock of the  *)
(* pair, taken as given here: a call is a sequence of single reads          *)
(* and writes of the files, the process may die between any two of them,   *)
(* and a write may fail.  A position is a slot number counted from 1, and  *)
(* a buffer a sequence of cells that name their record and version.        *)
(***************************************************************************)
EXTENDS Integers, Sequences

CONSTANTS RecIds,      \* the rec_ids in use, none of them 0
          NoRec,       \* rec_id 0: an empty slot or a deleted record
          HashPrime,   \* DPS_HASH_PRIME, the number of head slots
          Hash,        \* DPS_HASH, as a slot number
          Versions,    \* what tells two buffers of one record apart
          MaxSize,     \* bound: cells in a buffer
          MaxSlots,    \* bound: no write starts on an index file this long
          MaxData,     \* bound: no write starts on a data file this long
          Ops,         \* the calls the callers make, of "read", "write", "delete"
          Faults,      \* what may go wrong, of "crash", "io" and "index"
          KeepOpen     \* do callers make several calls on one open handle?

ASSUME BaseAssumption ==
    /\ NoRec \notin RecIds
    /\ HashPrime \in Nat \ {0}
    /\ Hash \in [RecIds -> 1..HashPrime]
    /\ MaxSize \in Nat /\ MaxSlots \in Nat /\ MaxData \in Nat
    /\ Ops \subseteq {"read", "write", "delete"}
    /\ KeepOpen \in BOOLEAN

VARIABLES idx,             \* the .i file: sequence of items
          dat,             \* the .s file: sequence of cells
          mode,            \* the open mode of the handle P, or "closed"
          op,              \* the call in progress
          pc,              \* its next step
          via,             \* did DpsBaseSeek call DpsBaseOpen?
          Item,            \* P->Item
          CurrentItemPos,  \* P->CurrentItemPos
          mishash,         \* P->mishash
          ret              \* what the last call returned

files  == <<idx, dat>>
cursor == <<Item, CurrentItemPos, mishash>>
vars   == <<idx, dat, mode, op, pc, via, Item, CurrentItemPos, mishash, ret>>

-----------------------------------------------------------------------------
(* The data of the files. *)

Cells == RecIds \X Versions
Buffer(r, v, n) == [k \in 1..n |-> <<r, v>>]
Buffers(r) == {Buffer(r, v, n) : v \in Versions, n \in 1..MaxSize}

Items == [rec_id : RecIds \cup {NoRec}, next : Nat, offset : Nat, size : Nat]
ZeroItem == [rec_id |-> NoRec, next |-> 0, offset |-> 0, size |-> 0]

\* The head slots of a file just created.
HTable == [i \in 1..HashPrime |-> ZeroItem]

\* write() of item x at slot p: a slot skipped over reads back as zeros.
WriteItem(s, p, x) ==
    [i \in 1..(IF p > Len(s) THEN p ELSE Len(s)) |->
        IF i = p THEN x ELSE IF i <= Len(s) THEN s[i] ELSE ZeroItem]

\* write() of buffer b after the first off cells: cells skipped over are a hole.
Hole == <<NoRec, NoRec>>
Overlay(d, off, b) ==
    [k \in 1..(IF off + Len(b) > Len(d) THEN off + Len(b) ELSE Len(d)) |->
        IF k > off /\ k <= off + Len(b) THEN b[k - off] ELSE IF k <= Len(d) THEN d[k] ELSE Hole]

Extent(it) == (it.offset + 1)..(it.offset + it.size)
Readable(it) == it.offset + it.size <= Len(dat)
Content(it) == [k \in 1..it.size |-> dat[it.offset + k]]

NoOp == [kind |-> "none", rec_id |-> NoRec, buf |-> <<>>]
Calls == {c \in [kind : Ops, rec_id : RecIds, buf : UNION {Buffers(r) : r \in RecIds} \cup {<<>>}] :
             IF c.kind = "write" THEN c.buf \in Buffers(c.rec_id) ELSE c.buf = <<>>}

OK    == [status |-> "OK", buf |-> <<>>]
ERROR == [status |-> "ERROR", buf |-> <<>>]
PENDING == [status |-> "PENDING", buf |-> <<>>]
Got(b) == [status |-> "OK", buf |-> b]

-----------------------------------------------------------------------------
\* The file may be new, or what a process that died in DpsBaseOpen left
\* between its creation and the writing of the head slots.
Init ==
    /\ idx \in {HTable, <<>>}
    /\ dat = <<>>
    /\ mode = "closed"
    /\ op = NoOp
    /\ pc = "idle"
    /\ via = "open"
    /\ Item = ZeroItem
    /\ CurrentItemPos = 0
    /\ mishash = FALSE
    /\ ret = OK

\* The call is over: P->Item is not used again before the next seek sets it.
Return(r) ==
    /\ ret' = r
    /\ pc' = "idle"
    /\ op' = NoOp
    /\ via' = "open"
    /\ Item' = ZeroItem
    /\ CurrentItemPos' = 0
    /\ mishash' = FALSE

Needs(kind) == IF kind = "read" THEN "read" ELSE "write"

\* A caller begins DpsBaseRead, DpsBaseWrite or DpsBaseDelete.  DpsBaseSeek
\* opens the pair when it is closed, or open for reading only and the call
\* writes; a handle open for writing serves both.
Start ==
    /\ pc = "idle"
    /\ KeepOpen \/ mode = "closed"
    /\ \E c \in Calls :
          /\ c.kind = "write" => Len(idx) < MaxSlots /\ Len(dat) + Len(c.buf) <= MaxData
          /\ op' = c
          /\ IF mode = "closed" \/ (mode = "read" /\ Needs(c.kind) # mode)
             THEN via' = "open" /\ mode' = Needs(c.kind)
             ELSE via' = "seek" /\ mode' = mode
    /\ pc' = "head"
    /\ ret' = PENDING
    /\ UNCHANGED <<files, cursor>>

\* DpsBaseClose.
Close ==
    /\ pc = "idle"
    /\ mode # "closed"
    /\ mode' = "closed"
    /\ UNCHANGED <<files, op, pc, via, cursor, ret>>

\* The search of a record begins at the head slot of its hash.  In a file cut
\* short DpsBaseOpen takes the slot for an empty one, DpsBaseSeek gives up.
ReadHead ==
    /\ pc = "head"
    /\ LET h == Hash[op.rec_id] IN
       IF h > Len(idx) /\ via = "seek"
       THEN Return(ERROR)
       ELSE /\ Item' = IF h <= Len(idx) THEN idx[h] ELSE ZeroItem
            /\ CurrentItemPos' = h
            /\ mishash' = (Item'.rec_id \notin {op.rec_id, NoRec})
            /\ pc' = "walk"
            /\ UNCHANGED <<op, via, ret>>
    /\ UNCHANGED <<files, mode>>

\* The loop goes on to the next slot of the chain.
Walking == pc = "walk" /\ mishash /\ Item.next # 0 /\ Item.rec_id # op.rec_id
Sought  == pc = "walk" /\ ~(mishash /\ Item.next # 0 /\ Item.rec_id # op.rec_id)

WalkOn ==
    /\ Walking
    /\ Item.next <= Len(idx)
    /\ CurrentItemPos' = Item.next
    /\ Item' = idx[Item.next]
    /\ UNCHANGED <<files, mode, op, pc, via, mishash, ret>>

\* Mutant of WalkRepair: DpsBaseOpen does not search again after the repair.
WalkRepairOnce ==
    /\ Walking
    /\ Item.next > Len(idx)
    /\ LET end == [idx[CurrentItemPos] EXCEPT !.next = 0] IN
       /\ mode = "write"
       /\ idx' = WriteItem(idx, CurrentItemPos, end)
       /\ Item' = end
       /\ CurrentItemPos' = Item.next
    /\ UNCHANGED <<dat, mode, op, pc, via, mishash, ret>>

\* Mutant of WalkRepair: the end of the chain is marked -1.
WalkRepairMinusOne ==
    /\ Walking
    /\ Item.next > Len(idx)
    /\ mode = "write"
    /\ idx' = WriteItem(idx, CurrentItemPos, [idx[CurrentItemPos] EXCEPT !.next = -1])
    /\ pc' = "head"
    /\ UNCHANGED <<dat, mode, op, via, cursor, ret>>

\* The chain goes past the end of the file.  Its last slot is rewritten with
\* next = 0.  DpsBaseOpen then searches again; DpsBaseSeek leaves the loop
\* with the repaired slot in P->Item and P->CurrentItemPos past the end.
WalkRepair ==
    /\ Walking
    /\ Item.next > Len(idx)
    /\ IF mode = "read"   \* write() fails on a descriptor open for reading
       THEN /\ mode' = IF via = "open" THEN "closed" ELSE mode
            /\ Return(ERROR)
            /\ UNCHANGED files
       ELSE LET end == [idx[CurrentItemPos] EXCEPT !.next = 0] IN
            /\ idx' = WriteItem(idx, CurrentItemPos, end)
            /\ Item' = end
            /\ IF via = "open" THEN pc' = "head" /\ UNCHANGED CurrentItemPos
                               ELSE pc' = "walk" /\ CurrentItemPos' = Item.next
            /\ UNCHANGED <<dat, mode, op, via, mishash, ret>>

-----------------------------------------------------------------------------
(* What follows the search. *)

\* DpsBaseRead.
Read ==
    /\ Sought
    /\ op.kind = "read"
    /\ Return(IF Item.rec_id = op.rec_id /\ Readable(Item) THEN Got(Content(Item)) ELSE ERROR)
    /\ UNCHANGED <<files, mode>>

\* DpsBaseDelete: the slot stays in its chain; a record that is not there is no error.
Delete ==
    /\ Sought
    /\ op.kind = "delete"
    /\ IF Item.rec_id = op.rec_id
       THEN idx' = WriteItem(idx, CurrentItemPos, [Item EXCEPT !.rec_id = NoRec])
       ELSE UNCHANGED idx
    /\ Return(OK)
    /\ UNCHANGED <<dat, mode>>

\* Mutant of WriteFound: a longer buffer overwrites the shorter one in place.
WriteFoundInPlace ==
    /\ Sought
    /\ op.kind = "write"
    /\ Item.rec_id = op.rec_id
    /\ pc' = "data"
    /\ UNCHANGED <<files, mode, op, via, cursor, ret>>

\* DpsBaseWrite, the record is there: a longer buffer goes to the end of .s.
WriteFound ==
    /\ Sought
    /\ op.kind = "write"
    /\ Item.rec_id = op.rec_id
    /\ Item' = [Item EXCEPT !.offset = IF Item.size < Len(op.buf) THEN Len(dat) ELSE @]
    /\ pc' = "data"
    /\ UNCHANGED <<files, mode, op, via, CurrentItemPos, mishash, ret>>

\* Mutant of WriteReuse: the slot keeps the offset of the record deleted from it.
WriteReuseOldOffset ==
    /\ Sought
    /\ op.kind = "write"
    /\ Item.rec_id = NoRec
    /\ Item' = [Item EXCEPT !.rec_id = op.rec_id]
    /\ pc' = "data"
    /\ UNCHANGED <<files, mode, op, via, CurrentItemPos, mishash, ret>>

\* "new rec_id added": it takes the empty slot the search ended at ...
WriteReuse ==
    /\ Sought
    /\ op.kind = "write"
    /\ Item.rec_id = NoRec
    /\ Item' = [Item EXCEPT !.rec_id = op.rec_id, !.offset = Len(dat)]
    /\ pc' = "data"
    /\ UNCHANGED <<files, mode, op, via, CurrentItemPos, mishash, ret>>

\* Mutant of WriteLink: the new item keeps the link of the slot before it.
WriteLinkNoReset ==
    /\ Sought
    /\ op.kind = "write"
    /\ Item.rec_id \notin {NoRec, op.rec_id}
    /\ LET NewItemPos == Len(idx) + 1 IN
       /\ idx' = WriteItem(idx, CurrentItemPos, [Item EXCEPT !.next = NewItemPos])
       /\ CurrentItemPos' = NewItemPos
       /\ Item' = [Item EXCEPT !.rec_id = op.rec_id, !.next = NewItemPos, !.offset = Len(dat)]
    /\ pc' = "data"
    /\ UNCHANGED <<dat, mode, op, via, mishash, ret>>

\* ... or a slot at the end of .i, to which the last slot is linked first.
WriteLink ==
    /\ Sought
    /\ op.kind = "write"
    /\ Item.rec_id \notin {NoRec, op.rec_id}
    /\ LET NewItemPos == Len(idx) + 1 IN
       /\ idx' = WriteItem(idx, CurrentItemPos, [Item EXCEPT !.next = NewItemPos])
       /\ CurrentItemPos' = NewItemPos
       /\ Item' = [Item EXCEPT !.rec_id = op.rec_id, !.next = 0, !.offset = Len(dat)]
    /\ pc' = "data"
    /\ UNCHANGED <<dat, mode, op, via, mishash, ret>>

\* Mutant of WriteData: the slot keeps the size of the buffer it replaces.
WriteDataOldSize ==
    /\ pc = "data"
    /\ dat' = Overlay(dat, Item.offset, op.buf)
    /\ pc' = "index"
    /\ UNCHANGED <<idx, mode, op, via, cursor, ret>>

\* The buffer is written to .s; its size goes to P->Item.
WriteData ==
    /\ pc = "data"
    /\ dat' = Overlay(dat, Item.offset, op.buf)
    /\ Item' = [Item EXCEPT !.size = Len(op.buf)]
    /\ pc' = "index"
    /\ UNCHANGED <<idx, mode, op, via, CurrentItemPos, mishash, ret>>

\* The slot of the record is written, and the record is there.
WriteIndex ==
    /\ pc = "index"
    /\ idx' = WriteItem(idx, CurrentItemPos, Item)
    /\ Return(OK)
    /\ UNCHANGED <<dat, mode>>

-----------------------------------------------------------------------------
(* What may go wrong. *)

\* write() of the data fails part of the way.
DataFails ==
    /\ "io" \in Faults
    /\ pc = "data"
    /\ \E n \in 0..(Len(op.buf) - 1) : dat' = Overlay(dat, Item.offset, SubSeq(op.buf, 1, n))
    /\ Return(ERROR)
    /\ UNCHANGED <<idx, mode>>

\* write() of the last slot or of the tombstone fails before anything is written.
LinkFails ==
    /\ "io" \in Faults
    /\ Sought
    /\ \/ op.kind = "write" /\ Item.rec_id \notin {NoRec, op.rec_id}
       \/ op.kind = "delete" /\ Item.rec_id = op.rec_id
    /\ Return(ERROR)
    /\ UNCHANGED <<files, mode>>

\* write() of the record's slot fails: the error is logged and not returned.
IndexFails ==
    /\ "index" \in Faults
    /\ pc = "index"
    /\ Return(OK)
    /\ UNCHANGED <<files, mode>>

\* The process dies, and the kernel closes its descriptors.
Crash ==
    /\ "crash" \in Faults
    /\ pc # "idle"
    /\ mode' = "closed"
    /\ Return(ret)
    /\ UNCHANGED files

Step ==
    \/ ReadHead \/ WalkOn \/ WalkRepair
    \/ Read \/ Delete
    \/ WriteFound \/ WriteReuse \/ WriteLink \/ WriteData \/ WriteIndex

Next ==
    \/ Start \/ Close
    \/ Step
    \/ DataFails \/ LinkFails \/ IndexFails \/ Crash

Spec == Init /\ [][Next]_vars

\* A process in a call goes on with it: nothing in base.c waits once the lock is held.
FairSpec == Spec /\ WF_vars(Step)

-----------------------------------------------------------------------------
(* What a search finds. *)

\* The slot after slot p in a search of r; 0 when the chain has ended (a link
\* past the end of the file ends it, and so does an empty head slot).
Following(r) ==
    [p \in Nat |->
        IF p \notin 1..Len(idx) THEN 0
        ELSE IF idx[p].rec_id = r THEN p
        ELSE IF p = Hash[r] /\ idx[p].rec_id = NoRec THEN 0
        ELSE idx[p].next]

\* The slot a search of r is at after n steps.
SlotAt(r) ==
    LET slot[n \in Nat] == IF n = 0 THEN Hash[r] ELSE Following(r)[slot[n - 1]]
    IN slot

Found(r) ==
    LET p == SlotAt(r)[Len(idx) + 1] IN
    p \in 1..Len(idx) /\ idx[p].rec_id = r /\ Readable(idx[p])

Lookup(r) == Content(idx[SlotAt(r)[Len(idx) + 1]])

\* The dictionary the files stand for: what a search would find, but for the
\* record of a write in progress.  A delete is in progress from its first step.
InWrite == pc \in {"data", "index"}
Change  == IF InWrite \/ op.kind = "delete" THEN [rec_id |-> op.rec_id, buf |-> op.buf] ELSE NoOp
Stored  == [r \in RecIds |->
               IF Found(r) /\ ~(InWrite /\ op.rec_id = r) THEN Lookup(r) ELSE <<>>]

Promise == INSTANCE KeyValue WITH
    Missing <- <<>>,   \* no caller stores an empty buffer
    None    <- NoOp,
    change  <- Change,
    store   <- Stored

-----------------------------------------------------------------------------
(* Properties. *)

\* Every variable keeps its type; in the code, the fields of DPS_BASEITEM and
\* DPS_BASE_PARAM stay what DpsBaseSeek and DpsBaseWrite take them for.
TypeOK ==
    /\ idx \in Seq(Items)
    /\ dat \in Seq(Cells)
    /\ mode \in {"closed", "read", "write"}
    /\ op = NoOp \/ (op.kind \in {"read", "write", "delete"} /\ op.rec_id \in RecIds /\ op.buf \in Seq(Cells))
    /\ pc \in {"idle", "head", "walk", "data", "index"}
    /\ via \in {"open", "seek"}
    /\ Item \in Items
    /\ CurrentItemPos \in Nat
    /\ mishash \in BOOLEAN
    /\ ret.status \in {"OK", "ERROR", "PENDING"}

\* DpsBaseWrite and DpsBaseDelete keep every record of the index on bytes of
\* its own: whatever failed before, a slot in use describes a part of the .s
\* file that exists and that only buffers of that record were written to, so
\* that no read returns the bytes of another record.
Owns(d, it) ==
    /\ it.offset + it.size <= Len(d)
    /\ \A k \in Extent(it) : d[k][1] = it.rec_id
OwnData == \A i \in 1..Len(idx) : idx[i].rec_id # NoRec => Owns(dat, idx[i])

\* A link leads to a slot of the file or to the one the next append fills, and
\* never back to an earlier slot: no chain of DpsBaseWrite is a loop.
LinksForward ==
    \A i \in 1..Len(idx) : idx[i].next # 0 => idx[i].next \in (i + 1)..(Len(idx) + 1)

\* A call that answers tells the truth about the files: a read returns the
\* stored buffer and fails only for a record that is not there, a write
\* answers OK when a later search finds its buffer, a delete when it finds none.
\* (A write also answers OK when the last write() on the index fails.)
Answer(r) ==
    (r = op.rec_id /\ ret = PENDING /\ ret' # PENDING) =>
        CASE op.kind = "read"   -> ret' = IF Found(r) THEN Got(Lookup(r)) ELSE ERROR
          [] op.kind = "write"  -> ret' = OK /\ ("index" \in Faults => idx' # idx) =>
                                       Found(r)' /\ Lookup(r)' = op.buf
          [] op.kind = "delete" -> ret' = OK => ~Found(r)'
Answers == [][\A r \in RecIds : Answer(r)]_vars

\* The files are a dictionary (KeyValue): DpsBaseWrite and DpsBaseDelete change
\* the record they are called for and no other, also when they fail or their
\* process dies between two writes, and DpsBaseRead, a search and the repair of
\* a chain change none.
Dictionary == Promise!Spec

\* Every call ends: the search of DpsBaseSeek leaves its loop.
CallsEnd == pc # "idle" ~> pc = "idle"
=============================================================================
