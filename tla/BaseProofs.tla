----------------------------- MODULE BaseProofs -----------------------------
(***************************************************************************)
(* The hash table file of Base keeps its types, and no slot in use ever    *)
(* describes the bytes of another record, for every set of records, hash,  *)
(* bound, way of use and combination of faults.                            *)
(*                                                                         *)
(* While callers open the file for each call and delete no record, its     *)
(* chains lead forward, its answers are true, and it implements the        *)
(* dictionary of KeyValue.  What a search finds is defined by recursion on *)
(* its steps; the induction it needs is had from the sets of numbers that  *)
(* have a least element.                                                   *)
(***************************************************************************)
EXTENDS Base, SequenceTheorems, WellFoundedInduction, TLAPS

\* Writing one slot keeps the others, and fills the gap with empty slots.
LEMMA WriteItemType ==
    ASSUME NEW s \in Seq(Items), NEW p \in Nat, NEW x \in Items
    PROVE  /\ WriteItem(s, p, x) \in Seq(Items)
           /\ \A i \in 1..Len(WriteItem(s, p, x)) :
                 \/ WriteItem(s, p, x)[i] = x
                 \/ i \in 1..Len(s) /\ WriteItem(s, p, x)[i] = s[i]
                 \/ WriteItem(s, p, x)[i] = ZeroItem
<1> DEFINE n == IF p > Len(s) THEN p ELSE Len(s)
<1>1. n \in Nat
  OBVIOUS
<1>2. ZeroItem \in Items
  BY DEF ZeroItem, Items
<1>3. WriteItem(s, p, x) = [i \in 1..n |-> IF i = p THEN x ELSE IF i <= Len(s) THEN s[i] ELSE ZeroItem]
  BY DEF WriteItem
<1>4. \A i \in 1..n : (IF i = p THEN x ELSE IF i <= Len(s) THEN s[i] ELSE ZeroItem) \in Items
  BY <1>1, <1>2
<1>5. WriteItem(s, p, x) \in Seq(Items) /\ Len(WriteItem(s, p, x)) = n
  BY <1>1, <1>3, <1>4
<1> QED
  BY <1>1, <1>3, <1>5

\* A write of buffer b at off keeps the data a sequence of cells, longer or as
\* long as before; only the cells off+1 .. off+Len(b) may change.
LEMMA OverlayType ==
    ASSUME NEW d \in Seq(Cells), NEW b \in Seq(Cells), NEW off \in Nat, off <= Len(d)
    PROVE  /\ Overlay(d, off, b) \in Seq(Cells)
           /\ Len(Overlay(d, off, b)) >= Len(d)
           /\ Len(Overlay(d, off, b)) >= off + Len(b)
           /\ \A k \in 1..Len(Overlay(d, off, b)) :
                 Overlay(d, off, b)[k] = IF k > off /\ k <= off + Len(b) THEN b[k - off] ELSE d[k]
<1> DEFINE n == IF off + Len(b) > Len(d) THEN off + Len(b) ELSE Len(d)
           e(k) == IF k > off /\ k <= off + Len(b) THEN b[k - off] ELSE IF k <= Len(d) THEN d[k] ELSE Hole
<1>1. n \in Nat /\ n >= Len(d) /\ n >= off + Len(b)
  OBVIOUS
<1>2. Overlay(d, off, b) = [k \in 1..n |-> e(k)]
  BY DEF Overlay
<1>3. \A k \in 1..n : e(k) \in Cells
  OBVIOUS
<1> HIDE DEF n, e
<1>4. Overlay(d, off, b) \in Seq(Cells) /\ Len(Overlay(d, off, b)) = n
  BY <1>1, <1>2, <1>3
<1>5. \A k \in 1..n : Overlay(d, off, b)[k] = e(k)
  BY <1>2
<1>6. \A k \in 1..n : e(k) = IF k > off /\ k <= off + Len(b) THEN b[k - off] ELSE d[k]
  <2>1. \A k \in 1..n : (k > off /\ k <= off + Len(b)) \/ k <= Len(d)
    BY DEF n
  <2> QED
    BY <2>1 DEF e
<1> QED
  BY <1>1, <1>4, <1>5, <1>6

\* The cells of b are r's, and so are those it overwrites.
OwnBuffer(b, r) == \A k \in 1..Len(b) : b[k][1] = r
Overwritable(d, off, n, r) ==
    off <= Len(d) /\ \A k \in (off + 1)..(off + n) : k <= Len(d) => d[k][1] = r

\* A write of a record's own buffer where it may be written takes no slot its data.
LEMMA OverlayKeepsOwners ==
    ASSUME NEW d \in Seq(Cells), NEW b \in Seq(Cells), NEW off \in Nat, NEW r,
           OwnBuffer(b, r), Overwritable(d, off, Len(b), r),
           NEW it \in Items, Owns(d, it)
    PROVE  Owns(Overlay(d, off, b), it)
<1>1. off <= Len(d)
  BY DEF Overwritable
<1>2. it.offset \in Nat /\ it.size \in Nat /\ it.offset + it.size <= Len(d)
  BY DEF Items, Owns
<1>3. it.offset + it.size <= Len(Overlay(d, off, b))
  BY <1>1, <1>2, OverlayType
<1>4. ASSUME NEW k \in Extent(it)
      PROVE  Overlay(d, off, b)[k][1] = it.rec_id
  <2>1. k \in 1..Len(d) /\ k \in 1..Len(Overlay(d, off, b)) /\ d[k][1] = it.rec_id
    BY <1>1, <1>2, <1>4, OverlayType DEF Owns, Extent
  <2>2. CASE k > off /\ k <= off + Len(b)
    <3>1. Overlay(d, off, b)[k] = b[k - off] /\ k - off \in 1..Len(b)
      BY <1>1, <2>1, <2>2, OverlayType
    <3>2. d[k][1] = r /\ b[k - off][1] = r
      BY <2>1, <2>2, <3>1 DEF OwnBuffer, Overwritable
    <3> QED
      BY <2>1, <3>1, <3>2
  <2>3. CASE ~(k > off /\ k <= off + Len(b))
    <3>1. Overlay(d, off, b)[k] = d[k]
      BY <1>1, <2>1, <2>3, OverlayType
    <3> QED
      BY <2>1, <3>1
  <2> QED
    BY <2>2, <2>3
<1> QED
  BY <1>3, <1>4 DEF Owns

\* The buffers a caller passes for r name r in every cell.
LEMMA CallType ==
    ASSUME NEW c \in Calls
    PROVE  /\ c.kind \in {"read", "write", "delete"}
           /\ c.rec_id \in RecIds
           /\ c.buf \in Seq(Cells)
           /\ OwnBuffer(c.buf, c.rec_id)
<1>1. c.kind \in {"read", "write", "delete"} /\ c.rec_id \in RecIds
  BY BaseAssumption DEF Calls
<1>2. CASE c.kind = "write"
  <2>1. PICK v \in Versions, n \in 1..MaxSize : c.buf = Buffer(c.rec_id, v, n)
    BY <1>2 DEF Calls, Buffers
  <2>2. n \in Nat
    BY BaseAssumption
  <2>3. <<c.rec_id, v>> \in Cells
    BY <1>1 DEF Cells
  <2>4. c.buf \in Seq(Cells) /\ Len(c.buf) = n /\ \A k \in 1..n : c.buf[k] = <<c.rec_id, v>>
    BY <2>1, <2>2, <2>3 DEF Buffer
  <2> QED
    BY <1>1, <2>4 DEF OwnBuffer
<1>3. CASE c.kind # "write"
  <2>1. c.buf = <<>>
    BY <1>3 DEF Calls
  <2> QED
    BY <1>1, <2>1 DEF OwnBuffer
<1> QED
  BY <1>2, <1>3

-----------------------------------------------------------------------------
(* The inductive invariant: besides TypeOK and OwnData, what the call in   *)
(* progress knows about the item it holds in memory.                       *)

\* A call in progress is one of the calls.
CallOK == pc # "idle" =>
    /\ op.kind \in {"read", "write", "delete"}
    /\ op.rec_id \in RecIds
    /\ op.buf \in Seq(Cells)
    /\ OwnBuffer(op.buf, op.rec_id)

\* During the search P->Item owns its data, and it was read from the file if it has a link.
WalkOK == pc = "walk" =>
    /\ Item.rec_id # NoRec => Owns(dat, Item)
    /\ Item.next # 0 => CurrentItemPos \in 1..Len(idx)

\* Before the data is written, it may be written where P->Item says.
DataOK == pc = "data" =>
    /\ Item.rec_id = op.rec_id
    /\ Overwritable(dat, Item.offset, Len(op.buf), op.rec_id)

\* Once it is written, P->Item owns it.
IndexOK == pc = "index" => Owns(dat, Item)

IInv == TypeOK /\ OwnData /\ CallOK /\ WalkOK /\ DataOK /\ IndexOK

\* A new file has no slot in use.
LEMMA InitIInv == Init => IInv
<1> SUFFICES ASSUME Init PROVE IInv
  OBVIOUS
<1>1. ZeroItem \in Items /\ ZeroItem.rec_id = NoRec
  BY DEF ZeroItem, Items
<1>2. HTable \in Seq(Items) /\ \A i \in 1..Len(HTable) : HTable[i] = ZeroItem
  BY <1>1, BaseAssumption DEF HTable
<1>3. TypeOK
  <2>1. idx \in Seq(Items)
    <3>1. <<>> \in Seq(Items)
      OBVIOUS
    <3> QED
      BY <1>2, <3>1, Zenon DEF Init
  <2>2. dat \in Seq(Cells)
    BY DEF Init
  <2>3. ret.status = "OK"
    BY DEF Init, OK
  <2> QED
    BY <1>1, <2>1, <2>2, <2>3, Zenon DEF Init, TypeOK
<1>4. OwnData
  BY <1>1, <1>2 DEF Init, OwnData
<1> QED
  BY <1>3, <1>4 DEF Init, IInv, CallOK, WalkOK, DataOK, IndexOK

\* An item with another link is an item, of the same record and data.
LEMMA Relinked ==
    ASSUME NEW it \in Items, NEW n \in Nat
    PROVE  /\ [it EXCEPT !.next = n] \in Items
           /\ [it EXCEPT !.next = n].next = n
           /\ [it EXCEPT !.next = n].rec_id = it.rec_id
           /\ Owns(dat, it) => Owns(dat, [it EXCEPT !.next = n])
<1> DEFINE x == [it EXCEPT !.next = n]
<1>1. x \in Items /\ x.next = n /\ x.rec_id = it.rec_id /\ x.offset = it.offset /\ x.size = it.size
  BY DEF Items
<1> HIDE DEF x
<1>2. Owns(dat, it) => Owns(dat, x)
  BY <1>1 DEF Owns, Extent
<1> QED
  BY <1>1, <1>2 DEF x

\* The files with one more item that owns its data, written anywhere.
LEMMA WriteItemKeeps ==
    ASSUME idx \in Seq(Items), OwnData, NEW p \in Nat, NEW x \in Items,
           x.rec_id # NoRec => Owns(dat, x),
           idx' = WriteItem(idx, p, x), dat' = dat
    PROVE  idx' \in Seq(Items) /\ OwnData'
<1>1. ZeroItem.rec_id = NoRec
  BY DEF ZeroItem
<1>2. \A i \in 1..Len(idx') : \/ idx'[i] = x
                              \/ i \in 1..Len(idx) /\ idx'[i] = idx[i]
                              \/ idx'[i] = ZeroItem
  BY WriteItemType
<1>3. ASSUME NEW i \in 1..Len(idx'), idx'[i].rec_id # NoRec
      PROVE  Owns(dat', idx'[i])
  BY <1>1, <1>2, <1>3 DEF OwnData
<1> QED
  BY <1>3, WriteItemType DEF OwnData

\* The data with one more buffer of the record of the call.
LEMMA WriteDataKeeps ==
    ASSUME IInv, pc = "data", NEW b \in Seq(Cells), OwnBuffer(b, op.rec_id), Len(b) <= Len(op.buf),
           dat' = Overlay(dat, Item.offset, b), idx' = idx
    PROVE  dat' \in Seq(Cells) /\ OwnData'
<1>1. /\ dat \in Seq(Cells) /\ idx \in Seq(Items) /\ op.buf \in Seq(Cells)
      /\ Item.offset \in Nat /\ Item.offset <= Len(dat)
  BY DEF IInv, TypeOK, DataOK, CallOK, Items, Overwritable
<1>2. Overwritable(dat, Item.offset, Len(b), op.rec_id)
  BY <1>1 DEF IInv, DataOK, Overwritable
<1>3. ASSUME NEW i \in 1..Len(idx'), idx'[i].rec_id # NoRec
      PROVE  Owns(dat', idx'[i])
  <2>1. idx[i] \in Items /\ Owns(dat, idx[i])
    BY <1>1, <1>3 DEF IInv, OwnData
  <2> QED
    BY <1>1, <1>2, <2>1, OverlayKeepsOwners
<1> QED
  BY <1>1, <1>3, OverlayType DEF OwnData

\* A call that returns leaves nothing of itself: what is left to show is what it did to the files.
LEMMA ReturnIInv ==
    ASSUME IInv, NEW r, Return(r), r.status \in {"OK", "ERROR", "PENDING"},
           idx' \in Seq(Items), dat' \in Seq(Cells), OwnData',
           mode' \in {"closed", "read", "write"}
    PROVE  IInv'
<1>1. ZeroItem \in Items
  BY DEF ZeroItem, Items
<1>2. pc' = "idle" /\ op' = NoOp /\ via' = "open" /\ Item' = ZeroItem /\ CurrentItemPos' = 0
      /\ mishash' = FALSE /\ ret' = r
  BY DEF Return
<1>3. TypeOK'
  BY <1>1, <1>2, Zenon, 0 \in Nat DEF TypeOK
<1> QED
  BY <1>2, <1>3 DEF IInv, CallOK, WalkOK, DataOK, IndexOK

\* Every step keeps the invariant: one step of the proof for each action.
LEMMA NextIInv == IInv /\ [Next]_vars => IInv'
<1> SUFFICES ASSUME IInv, [Next]_vars PROVE IInv'
  OBVIOUS
<1> USE DEF IInv
<1>1. ASSUME Start PROVE IInv'
  <2>1. PICK c \in Calls : op' = c /\ mode' \in {"closed", "read", "write"} /\ via' \in {"open", "seek"}
    BY <1>1 DEF Start, TypeOK, Needs
  <2>2. c.kind \in {"read", "write", "delete"} /\ c.rec_id \in RecIds /\ c.buf \in Seq(Cells)
        /\ OwnBuffer(c.buf, c.rec_id)
    BY CallType
  <2>3. pc' = "head" /\ UNCHANGED <<idx, dat, Item, CurrentItemPos, mishash>> /\ ret'.status = "PENDING"
    BY <1>1 DEF Start, files, cursor, PENDING
  <2>4. TypeOK'
    BY <2>1, <2>2, <2>3 DEF TypeOK
  <2>5. OwnData'
    BY <2>3 DEF OwnData
  <2> QED
    BY <2>1, <2>2, <2>3, <2>4, <2>5 DEF CallOK, WalkOK, DataOK, IndexOK
<1>2. ASSUME Close PROVE IInv'
  BY <1>2 DEF Close, files, cursor, TypeOK, OwnData, CallOK, WalkOK, DataOK, IndexOK
<1>3. ASSUME ReadHead PROVE IInv'
  <2>1. idx \in Seq(Items) /\ Hash[op.rec_id] \in 1..HashPrime /\ HashPrime \in Nat
    BY <1>3, BaseAssumption DEF ReadHead, TypeOK, CallOK
  <2>2. UNCHANGED <<idx, dat, mode>> /\ OwnData'
    BY <1>3 DEF ReadHead, files, OwnData
  <2>3. CASE Hash[op.rec_id] > Len(idx) /\ via = "seek"
    <3>1. Return(ERROR) /\ ERROR.status = "ERROR"
      BY <1>3, <2>3 DEF ReadHead, ERROR
    <3> QED
      BY <2>2, <3>1, ReturnIInv DEF TypeOK
  <2>4. CASE ~(Hash[op.rec_id] > Len(idx) /\ via = "seek")
    <3>1. /\ Item' = IF Hash[op.rec_id] <= Len(idx) THEN idx[Hash[op.rec_id]] ELSE ZeroItem
          /\ CurrentItemPos' = Hash[op.rec_id]
          /\ mishash' \in BOOLEAN
          /\ pc' = "walk"
          /\ UNCHANGED <<op, via, ret>>
      BY <1>3, <2>4 DEF ReadHead
    <3>2. ZeroItem \in Items /\ ZeroItem.next = 0 /\ ZeroItem.rec_id = NoRec
      BY DEF ZeroItem, Items
    <3>3. Item' \in Items
      BY <2>1, <3>1, <3>2
    <3>4. WalkOK'
      BY <2>1, <2>2, <3>1, <3>2 DEF WalkOK, OwnData
    <3>5. TypeOK'
      BY <2>1, <2>2, <3>1, <3>3 DEF TypeOK
    <3> QED
      BY <1>3, <2>2, <3>1, <3>4, <3>5 DEF ReadHead, CallOK, DataOK, IndexOK
  <2> QED
    BY <2>3, <2>4
<1>4. ASSUME WalkOn PROVE IInv'
  <2>1. UNCHANGED <<idx, dat, mode, op, pc, via, mishash, ret>> /\ pc = "walk"
        /\ CurrentItemPos' = Item.next /\ Item' = idx[Item.next] /\ Item.next \in 1..Len(idx)
    BY <1>4 DEF WalkOn, Walking, files, TypeOK, Items
  <2>2. TypeOK' /\ OwnData'
    BY <2>1 DEF TypeOK, OwnData
  <2> QED
    BY <2>1, <2>2 DEF CallOK, WalkOK, DataOK, IndexOK, OwnData
<1>5. ASSUME WalkRepair PROVE IInv'
  <2>1. pc = "walk" /\ Item.next # 0 /\ Item.next \in Nat /\ idx \in Seq(Items) /\ CurrentItemPos \in 1..Len(idx)
    BY <1>5 DEF WalkRepair, Walking, TypeOK, Items, WalkOK
  <2>2. CASE mode = "read"
    <3>1. UNCHANGED <<idx, dat>> /\ OwnData' /\ mode' \in {"closed", "read", "write"}
      BY <1>5, <2>2 DEF WalkRepair, files, OwnData, TypeOK
    <3>2. Return(ERROR) /\ ERROR.status = "ERROR"
      BY <1>5, <2>2 DEF WalkRepair, ERROR
    <3> QED
      BY <3>1, <3>2, ReturnIInv DEF TypeOK
  <2>3. CASE mode # "read"
    <3> DEFINE end == [idx[CurrentItemPos] EXCEPT !.next = 0]
    <3>1. /\ idx' = WriteItem(idx, CurrentItemPos, end)
          /\ Item' = end
          /\ pc' \in {"head", "walk"}
          /\ CurrentItemPos' \in Nat
          /\ UNCHANGED <<dat, mode, op, via, mishash, ret>>
      BY <1>5, <2>1, <2>3 DEF WalkRepair, TypeOK
    <3>2. end \in Items /\ end.next = 0 /\ (end.rec_id # NoRec => Owns(dat, end))
      <4>1. idx[CurrentItemPos] \in Items
        BY <2>1
      <4>2. idx[CurrentItemPos].rec_id # NoRec => Owns(dat, idx[CurrentItemPos])
        BY <2>1 DEF OwnData
      <4> QED
        BY <4>1, <4>2, Relinked
    <3> HIDE DEF end
    <3>3. idx' \in Seq(Items) /\ OwnData'
      BY <2>1, <3>1, <3>2, WriteItemKeeps
    <3>4. TypeOK'
      BY <2>1, <3>1, <3>2, <3>3 DEF TypeOK
    <3> QED
      BY <2>1, <3>1, <3>2, <3>3, <3>4 DEF CallOK, WalkOK, DataOK, IndexOK
  <2> QED
    BY <2>2, <2>3
<1>6. ASSUME Read PROVE IInv'
  <2>1. UNCHANGED <<idx, dat, mode>> /\ OwnData'
    BY <1>6 DEF Read, files, OwnData
  <2>2. PICK r \in {Got(Content(Item)), ERROR} : Return(r)
    BY <1>6 DEF Read
  <2>3. r.status \in {"OK", "ERROR"}
    BY DEF Got, ERROR
  <2> QED
    BY <2>1, <2>2, <2>3, ReturnIInv DEF TypeOK
<1>7. ASSUME Delete PROVE IInv'
  <2>1. dat' = dat /\ mode' = mode /\ Return(OK) /\ OK.status = "OK"
    BY <1>7 DEF Delete, OK
  <2>2. CASE Item.rec_id = op.rec_id
    <3> DEFINE gone == [Item EXCEPT !.rec_id = NoRec]
    <3>1. idx' = WriteItem(idx, CurrentItemPos, gone) /\ gone \in Items /\ gone.rec_id = NoRec
      BY <1>7, <2>2 DEF Delete, TypeOK, Items
    <3>2. idx' \in Seq(Items) /\ OwnData'
      BY <2>1, <3>1, WriteItemKeeps DEF TypeOK
    <3> QED
      BY <2>1, <3>2, ReturnIInv DEF TypeOK
  <2>3. CASE Item.rec_id # op.rec_id
    <3>1. idx' = idx /\ OwnData'
      BY <1>7, <2>1, <2>3 DEF Delete, OwnData
    <3> QED
      BY <2>1, <3>1, ReturnIInv DEF TypeOK
  <2> QED
    BY <2>2, <2>3
<1>8. ASSUME WriteFound PROVE IInv'
  <2>1. /\ pc = "walk" /\ pc' = "data" /\ Item.rec_id = op.rec_id
        /\ Item' = [Item EXCEPT !.offset = IF Item.size < Len(op.buf) THEN Len(dat) ELSE @]
        /\ UNCHANGED <<idx, dat, mode, op, via, CurrentItemPos, mishash, ret>>
    BY <1>8 DEF WriteFound, Sought, files
  <2>2. Item \in Items /\ dat \in Seq(Cells) /\ op.buf \in Seq(Cells) /\ op.rec_id \in RecIds
    BY <2>1 DEF TypeOK, CallOK
  <2>a. Item' \in Items
    BY <2>1, <2>2 DEF Items
  <2>3. TypeOK' /\ OwnData' /\ CallOK'
    BY <2>1, <2>a DEF TypeOK, OwnData, CallOK
  <2>4. Owns(dat, Item)
    BY <2>1, <2>2, BaseAssumption DEF WalkOK
  <2>5. DataOK'
    BY <2>1, <2>2, <2>4 DEF DataOK, Overwritable, Owns, Extent, Items
  <2> QED
    BY <2>1, <2>3, <2>5 DEF WalkOK, IndexOK
<1>9. ASSUME WriteReuse PROVE IInv'
  <2>1. /\ pc = "walk" /\ pc' = "data"
        /\ Item' = [Item EXCEPT !.rec_id = op.rec_id, !.offset = Len(dat)]
        /\ UNCHANGED <<idx, dat, mode, op, via, CurrentItemPos, mishash, ret>>
    BY <1>9 DEF WriteReuse, Sought, files
  <2>2. Item \in Items /\ dat \in Seq(Cells) /\ op.buf \in Seq(Cells) /\ op.rec_id \in RecIds
    BY <2>1 DEF TypeOK, CallOK
  <2>a. Item' \in Items
    <3>1. Len(dat) \in Nat /\ Item.next \in Nat /\ Item.size \in Nat
      BY <2>2 DEF Items
    <3>2. Item' = [rec_id |-> op.rec_id, next |-> Item.next, offset |-> Len(dat), size |-> Item.size]
      BY <2>1, <2>2 DEF Items
    <3> QED
      BY <2>2, <3>1, <3>2 DEF Items
  <2>3. TypeOK' /\ OwnData' /\ CallOK'
    BY <2>1, <2>a DEF TypeOK, OwnData, CallOK
  <2>4. DataOK'
    BY <2>1, <2>2 DEF DataOK, Overwritable, Items
  <2> QED
    BY <2>1, <2>3, <2>4 DEF WalkOK, IndexOK
<1>10. ASSUME WriteLink PROVE IInv'
  <2> DEFINE last == [Item EXCEPT !.next = Len(idx) + 1]
  <2>1. /\ pc = "walk" /\ pc' = "data" /\ Item.rec_id # NoRec
        /\ idx' = WriteItem(idx, CurrentItemPos, last)
        /\ CurrentItemPos' = Len(idx) + 1
        /\ Item' = [Item EXCEPT !.rec_id = op.rec_id, !.next = 0, !.offset = Len(dat)]
        /\ UNCHANGED <<dat, mode, op, via, mishash, ret>>
    BY <1>10 DEF WriteLink, Sought
  <2>2. /\ Item \in Items /\ dat \in Seq(Cells) /\ idx \in Seq(Items)
        /\ op.buf \in Seq(Cells) /\ op.rec_id \in RecIds /\ CurrentItemPos \in Nat
    BY <2>1 DEF TypeOK, CallOK
  <2>3. last \in Items /\ Owns(dat, last)
    <3>1. Owns(dat, Item) /\ Len(idx) + 1 \in Nat
      BY <2>1, <2>2 DEF WalkOK
    <3> QED
      BY <2>2, <3>1, Relinked
  <2>4. idx' \in Seq(Items) /\ OwnData'
    BY <2>1, <2>2, <2>3, WriteItemKeeps
  <2>5. TypeOK' /\ CallOK'
    <3>1. Len(dat) \in Nat /\ Item.size \in Nat
      BY <2>2 DEF Items
    <3>2. Item' = [rec_id |-> op.rec_id, next |-> 0, offset |-> Len(dat), size |-> Item.size]
      BY <2>1, <2>2 DEF Items
    <3>3. Item' \in Items
      BY <2>2, <3>1, <3>2 DEF Items
    <3> QED
      BY <2>1, <2>2, <2>4, <3>3 DEF TypeOK, CallOK
  <2>6. DataOK'
    BY <2>1, <2>2 DEF DataOK, Overwritable, Items
  <2> QED
    BY <2>1, <2>4, <2>5, <2>6 DEF WalkOK, IndexOK
<1>11. ASSUME WriteData PROVE IInv'
  <2>1. /\ pc = "data" /\ pc' = "index"
        /\ dat' = Overlay(dat, Item.offset, op.buf)
        /\ Item' = [Item EXCEPT !.size = Len(op.buf)]
        /\ UNCHANGED <<idx, mode, op, via, CurrentItemPos, mishash, ret>>
    BY <1>11 DEF WriteData
  <2>2. /\ Item \in Items /\ dat \in Seq(Cells) /\ op.buf \in Seq(Cells)
        /\ OwnBuffer(op.buf, op.rec_id) /\ Item.rec_id = op.rec_id /\ Item.offset <= Len(dat)
    BY <2>1 DEF TypeOK, CallOK, DataOK, Overwritable
  <2>3. dat' \in Seq(Cells) /\ OwnData'
    BY <2>1, <2>2, WriteDataKeeps
  <2>4. TypeOK' /\ CallOK'
    <3>1. Item' \in Items
      BY <2>1, <2>2 DEF Items
    <3> QED
      BY <2>1, <2>2, <2>3, <3>1 DEF TypeOK, CallOK
  <2>5. Item.offset \in Nat /\ Item'.offset = Item.offset /\ Item'.size = Len(op.buf)
        /\ Item'.rec_id = op.rec_id /\ Len(op.buf) \in Nat
    BY <2>1, <2>2 DEF Items
  <2>6. Item'.offset + Item'.size <= Len(dat')
    BY <2>1, <2>2, <2>5, OverlayType
  <2>7. ASSUME NEW k \in (Item.offset + 1)..(Item.offset + Len(op.buf))
        PROVE  dat'[k][1] = op.rec_id
    <3>1. k \in 1..Len(dat') /\ k > Item.offset /\ k <= Item.offset + Len(op.buf) /\ k - Item.offset \in 1..Len(op.buf)
      BY <2>2, <2>3, <2>5, <2>6, <2>7
    <3>2. dat'[k] = op.buf[k - Item.offset]
      BY <2>1, <2>2, <2>5, <3>1, OverlayType
    <3> QED
      BY <2>2, <3>1, <3>2 DEF OwnBuffer
  <2>8. IndexOK'
    BY <2>5, <2>6, <2>7 DEF IndexOK, Owns, Extent
  <2> QED
    BY <2>1, <2>3, <2>4, <2>8 DEF WalkOK, DataOK
<1>12. ASSUME WriteIndex PROVE IInv'
  <2>1. /\ pc = "index" /\ idx' = WriteItem(idx, CurrentItemPos, Item)
        /\ dat' = dat /\ mode' = mode /\ Return(OK) /\ OK.status = "OK"
    BY <1>12 DEF WriteIndex, OK
  <2>2. idx' \in Seq(Items) /\ OwnData'
    BY <2>1, WriteItemKeeps DEF TypeOK, IndexOK
  <2> QED
    BY <2>1, <2>2, ReturnIInv DEF TypeOK
<1>13. ASSUME DataFails PROVE IInv'
  <2>1. /\ pc = "data" /\ idx' = idx /\ mode' = mode /\ Return(ERROR) /\ ERROR.status = "ERROR"
        /\ op.buf \in Seq(Cells) /\ OwnBuffer(op.buf, op.rec_id)
    BY <1>13 DEF DataFails, ERROR, CallOK
  <2>2. PICK n \in 0..(Len(op.buf) - 1) : dat' = Overlay(dat, Item.offset, SubSeq(op.buf, 1, n))
    BY <1>13 DEF DataFails
  <2>3. /\ SubSeq(op.buf, 1, n) \in Seq(Cells) /\ Len(SubSeq(op.buf, 1, n)) = n
        /\ \A k \in 1..n : SubSeq(op.buf, 1, n)[k] = op.buf[k]
    BY <2>1, <2>2
  <2>4. OwnBuffer(SubSeq(op.buf, 1, n), op.rec_id) /\ Len(SubSeq(op.buf, 1, n)) <= Len(op.buf)
    BY <2>1, <2>2, <2>3 DEF OwnBuffer
  <2>5. dat' \in Seq(Cells) /\ OwnData'
    BY <2>1, <2>2, <2>3, <2>4, WriteDataKeeps
  <2> QED
    BY <2>1, <2>5, ReturnIInv DEF TypeOK
<1>14. ASSUME LinkFails \/ IndexFails PROVE IInv'
  <2>1. UNCHANGED <<idx, dat, mode>> /\ OwnData'
    BY <1>14 DEF LinkFails, IndexFails, files, OwnData
  <2>2. PICK r \in {OK, ERROR} : Return(r)
    BY <1>14 DEF LinkFails, IndexFails
  <2>3. r.status \in {"OK", "ERROR"}
    BY DEF OK, ERROR
  <2> QED
    BY <2>1, <2>2, <2>3, ReturnIInv DEF TypeOK
<1>15. ASSUME Crash PROVE IInv'
  <2>1. UNCHANGED <<idx, dat>> /\ OwnData' /\ mode' = "closed" /\ Return(ret)
    BY <1>15 DEF Crash, files, OwnData
  <2> QED
    BY <2>1, ReturnIInv DEF TypeOK
<1>16. ASSUME UNCHANGED vars PROVE IInv'
  BY <1>16 DEF vars, TypeOK, OwnData, CallOK, WalkOK, DataOK, IndexOK
<1> QED
  BY <1>1, <1>2, <1>3, <1>4, <1>5, <1>6, <1>7, <1>8, <1>9, <1>10, <1>11, <1>12, <1>13, <1>14,
     <1>15, <1>16 DEF Next, Step

\* The files and the handle keep their types: DpsBaseSeek never takes a
\* position out of the index file that its callers could not write to.
THEOREM TypeCorrect == Spec => []TypeOK
<1>1. IInv => TypeOK
  BY DEF IInv
<1> QED
  BY <1>1, InitIInv, NextIInv, PTL DEF Spec

\* Whatever fails and whatever collides, a slot of the index in use describes
\* bytes of .s that were written for its own record: no search of DpsBaseSeek
\* leads a reader to another record's data.
THEOREM NoForeignData == Spec => []OwnData
<1>1. IInv => OwnData
  BY DEF IInv
<1> QED
  BY <1>1, InitIInv, NextIInv, PTL DEF Spec
-----------------------------------------------------------------------------
(* Natural numbers. *)

Before == {ss \in Nat \X Nat : ss[1] < ss[2]}

\* A set of numbers with a member has a least one.
LEMMA Least ==
    ASSUME NEW T, T \subseteq Nat, T # {}
    PROVE  \E x \in T : \A y \in T : x <= y
<1>1. IsWellFoundedOn(Before, Nat)
  BY NatLessThanWellFounded DEF Before, OpToRel
<1>2. PICK x \in T : \A y \in T : <<y, x>> \notin Before
  BY <1>1, WFMin
<1>3. ASSUME NEW y \in T PROVE x <= y
  <2>1. x \in Nat /\ y \in Nat /\ <<y, x>> \notin Before
    BY <1>2
  <2>2. ~(<<y, x>>[1] < <<y, x>>[2])
    BY <2>1, Zenon DEF Before
  <2> QED
    BY <2>1, <2>2
<1> QED
  BY <1>3

\* A set of numbers with 0 and the successor of every member has all numbers.
LEMMA Induct ==
    ASSUME NEW S, 0 \in S, \A n \in Nat : n \in S => n + 1 \in S
    PROVE  \A n \in Nat : n \in S
<1> DEFINE T == {n \in Nat : n \notin S}
<1> SUFFICES ASSUME T # {} PROVE FALSE
  OBVIOUS
<1>1. PICK x \in T : \A y \in T : x <= y
  <2>1. T \subseteq Nat
    OBVIOUS
  <2> HIDE DEF T
  <2> QED
    BY <2>1, Least
<1>2. x \in Nat /\ x # 0 /\ x \notin S
  OBVIOUS
<1>3. x - 1 \in Nat /\ x - 1 \in S
  BY <1>1, <1>2
<1> QED
  BY <1>2, <1>3

-----------------------------------------------------------------------------
(* The points F, F[a], F[F[a]], ... *)

Orbit(F, a) ==
    LET slot[n \in Nat] == IF n = 0 THEN a ELSE F[slot[n - 1]]
    IN slot

\* The first n steps of an orbit.
Part(F, a, n, h) == h \in [0..n -> Nat] /\ h[0] = a /\ \A i \in 1..n : h[i] = F[h[i - 1]]

LEMMA PartExists ==
    ASSUME NEW F \in [Nat -> Nat], NEW a \in Nat
    PROVE  \A n \in Nat : \E h : Part(F, a, n, h)
<1> DEFINE Parts == {n \in Nat : \E h : Part(F, a, n, h)}
<1>1. 0 \in Parts
  <2>1. Part(F, a, 0, [i \in 0..0 |-> a])
    BY DEF Part
  <2> QED
    BY <2>1
<1>2. ASSUME NEW n \in Nat, n \in Parts PROVE n + 1 \in Parts
  <2>1. PICK h : Part(F, a, n, h)
    BY <1>2
  <2>a. h \in [0..n -> Nat] /\ h[0] = a
    BY <2>1, Zenon DEF Part
  <2>b. n \in 0..n
    OBVIOUS
  <2>c. h[n] \in Nat
    BY <2>a, <2>b, Zenon
  <2>d. F[h[n]] \in Nat
    BY <2>c, Zenon
  <2>2. h \in [0..n -> Nat] /\ h[0] = a /\ F[h[n]] \in Nat
    BY <2>a, <2>d
  <2> DEFINE k == [i \in 0..(n + 1) |-> IF i = n + 1 THEN F[h[n]] ELSE h[i]]
  <2>e. ASSUME NEW i \in 0..(n + 1), i # n + 1 PROVE h[i] \in Nat
    <3>1. i \in 0..n
      BY <2>e
    <3> QED
      BY <2>a, <3>1, Zenon
  <2>3. k \in [0..(n + 1) -> Nat]
    BY <2>d, <2>e, Zenon
  <2>4. k[n + 1] = F[h[n]] /\ \A i \in 0..n : k[i] = h[i]
    OBVIOUS
  <2> HIDE DEF k
  <2>5. k[0] = a
    <3>1. 0 \in 0..n
      OBVIOUS
    <3> QED
      BY <2>2, <2>4, <3>1
  <2>6. ASSUME NEW i \in 1..(n + 1) PROVE k[i] = F[k[i - 1]]
    <3>1. CASE i = n + 1
      <4>1. i - 1 = n /\ k[n] = h[n]
        BY <2>4, <3>1
      <4> QED
        BY <2>4, <3>1, <4>1
    <3>2. CASE i # n + 1
      <4>1. i \in 1..n /\ i \in 0..n /\ i - 1 \in 0..n
        BY <3>2
      <4> QED
        BY <2>1, <2>4, <4>1 DEF Part
    <3> QED
      BY <3>1, <3>2
  <2>7. Part(F, a, n + 1, k)
    BY <2>3, <2>5, <2>6 DEF Part
  <2> QED
    BY <2>7
<1> HIDE DEF Parts
<1>3. \A n \in Nat : n \in Parts
  BY <1>1, <1>2, Induct
<1> QED
  BY <1>3 DEF Parts

\* A longer part continues a shorter one.
LEMMA PartAgrees ==
    ASSUME NEW F, NEW a, NEW n \in Nat, NEW h, NEW k, Part(F, a, n, h), Part(F, a, n + 1, k)
    PROVE  h[n] = k[n]
<1> DEFINE Same == {i \in Nat : i <= n => h[i] = k[i]}
<1>1. 0 \in Same
  BY DEF Part
<1>2. ASSUME NEW i \in Nat, i \in Same PROVE i + 1 \in Same
  <2> SUFFICES ASSUME i + 1 <= n PROVE h[i + 1] = k[i + 1]
    OBVIOUS
  <2>1. h[i] = k[i]
    BY <1>2
  <2>2. i + 1 \in 1..n /\ i + 1 \in 1..(n + 1) /\ (i + 1) - 1 = i
    OBVIOUS
  <2>3. h[i + 1] = F[h[(i + 1) - 1]] /\ k[i + 1] = F[k[(i + 1) - 1]]
    BY <2>2 DEF Part
  <2> QED
    BY <2>1, <2>2, <2>3
<1>3. n \in Same
  <2> HIDE DEF Same
  <2> QED
    BY <1>1, <1>2, Induct
<1> QED
  BY <1>3

\* f runs from a by F.
Runs(F, a, f) == f \in [Nat -> Nat] /\ f[0] = a /\ \A n \in Nat : f[n + 1] = F[f[n]]

\* The recursion defines a function.
LEMMA OrbitIs ==
    ASSUME NEW F \in [Nat -> Nat], NEW a \in Nat
    PROVE  Runs(F, a, Orbit(F, a))
<1> DEFINE H == [n \in Nat |-> CHOOSE h : Part(F, a, n, h)]
           g == [n \in Nat |-> H[n][n]]
           f == Orbit(F, a)
<1>1. ASSUME NEW n \in Nat PROVE Part(F, a, n, H[n])
  <2>1. \E h : Part(F, a, n, h)
    BY PartExists
  <2> QED
    BY <2>1, Zenon
<1> HIDE DEF H
<1>2. ASSUME NEW n \in Nat PROVE H[n][n] \in Nat
  BY <1>1 DEF Part
<1>3. H[0][0] = a
  BY <1>1 DEF Part
<1>4. ASSUME NEW n \in Nat PROVE H[n + 1][n + 1] = F[H[n][n]]
  <2>1. Part(F, a, n, H[n]) /\ Part(F, a, n + 1, H[n + 1])
    BY <1>1
  <2>2. H[n][n] = H[n + 1][n]
    BY <2>1, PartAgrees
  <2>3. n + 1 \in 1..(n + 1) /\ (n + 1) - 1 = n
    OBVIOUS
  <2>4. H[n + 1][n + 1] = F[H[n + 1][n]]
    BY <2>1, <2>3 DEF Part
  <2> QED
    BY <2>2, <2>4
<1>5. g = [n \in Nat |-> IF n = 0 THEN a ELSE F[g[n - 1]]]
  <2>1. \A n \in Nat : n # 0 => n - 1 \in Nat /\ (n - 1) + 1 = n
    OBVIOUS
  <2>2. \A n \in Nat : n # 0 => H[n][n] = F[H[n - 1][n - 1]]
    BY <1>4, <2>1
  <2> QED
    BY <1>3, <2>1, <2>2
<1> HIDE DEF g
<1>6. f = [n \in Nat |-> IF n = 0 THEN a ELSE F[f[n - 1]]]
  BY <1>5, Zenon DEF Orbit
<1> HIDE DEF f
<1>7. f[0] = a /\ \A n \in Nat : f[n + 1] = F[f[n]]
  <2>1. \A n \in Nat : f[n] = IF n = 0 THEN a ELSE F[f[n - 1]]
    BY <1>6
  <2>2. \A n \in Nat : n + 1 \in Nat /\ n + 1 # 0 /\ (n + 1) - 1 = n
    OBVIOUS
  <2> QED
    BY <2>1, <2>2
<1>8. \A n \in Nat : f[n] \in Nat
  <2> DEFINE Good == {n \in Nat : f[n] \in Nat}
  <2>1. 0 \in Good /\ \A n \in Nat : n \in Good => n + 1 \in Good
    BY <1>7
  <2> HIDE DEF Good
  <2>2. \A n \in Nat : n \in Good
    BY <2>1, Induct
  <2> QED
    BY <2>2 DEF Good
<1>9. f \in [Nat -> Nat]
  BY <1>6, <1>8
<1>10. Runs(F, a, f)
  BY <1>7, <1>9 DEF Runs
<1> QED
  BY <1>10 DEF f

\* Two orbits are one as far as their functions agree on it.
LEMMA OrbitsAgree ==
    ASSUME NEW F \in [Nat -> Nat], NEW G \in [Nat -> Nat], NEW a \in Nat, NEW N \in Nat,
           \A m \in 0..(N - 1) : F[Orbit(F, a)[m]] = G[Orbit(F, a)[m]]
    PROVE  Orbit(G, a)[N] = Orbit(F, a)[N]
<1> DEFINE f == Orbit(F, a)
           g == Orbit(G, a)
           Same == {n \in Nat : n <= N => g[n] = f[n]}
<1>a. Runs(F, a, f) /\ Runs(G, a, g)
  BY OrbitIs, Zenon
<1>2. \A m \in 0..(N - 1) : F[f[m]] = G[f[m]]
  OBVIOUS
<1> HIDE DEF f, g
<1>1. /\ f[0] = a /\ \A n \in Nat : f[n + 1] = F[f[n]]
      /\ g[0] = a /\ \A n \in Nat : g[n + 1] = G[g[n]]
  BY <1>a DEF Runs
<1>3. 0 \in Same
  BY <1>1
<1>4. ASSUME NEW n \in Nat, n \in Same PROVE n + 1 \in Same
  <2> SUFFICES ASSUME n + 1 <= N PROVE g[n + 1] = f[n + 1]
    OBVIOUS
  <2>1. n \in 0..(N - 1) /\ g[n] = f[n]
    BY <1>4
  <2> QED
    BY <1>1, <1>2, <2>1
<1> HIDE DEF Same
<1>5. N \in Same
  BY <1>3, <1>4, Induct
<1> QED
  BY <1>5 DEF Same, f, g

\* Nothing leaves the points D, and F and G differ only there and where both lead there.
SameOutside(F, G, D) ==
    /\ \A p \in D : F[p] \in D /\ G[p] \in D
    /\ \A p \in Nat : p \notin D => F[p] = G[p] \/ (F[p] \in D /\ G[p] \in D)

\* f and g stay one or come to D together.
SameUntil(f, g, D) == \A n \in Nat : f[n] = g[n] \/ (f[n] \in D /\ g[n] \in D)

LEMMA OrbitsEnd ==
    ASSUME NEW F \in [Nat -> Nat], NEW G \in [Nat -> Nat], NEW a \in Nat, NEW D, SameOutside(F, G, D)
    PROVE  SameUntil(Orbit(F, a), Orbit(G, a), D)
<1> DEFINE f == Orbit(F, a)
           g == Orbit(G, a)
           Good == {n \in Nat : f[n] = g[n] \/ (f[n] \in D /\ g[n] \in D)}
<1>a. Runs(F, a, f) /\ Runs(G, a, g)
  BY OrbitIs, Zenon
<1> HIDE DEF f, g
<1>1. /\ f \in [Nat -> Nat] /\ f[0] = a /\ \A n \in Nat : f[n + 1] = F[f[n]]
      /\ g \in [Nat -> Nat] /\ g[0] = a /\ \A n \in Nat : g[n + 1] = G[g[n]]
  BY <1>a DEF Runs
<1>2. 0 \in Good
  BY <1>1
<1>3. ASSUME NEW n \in Nat, n \in Good PROVE n + 1 \in Good
  <2>1. f[n] \in Nat /\ g[n] \in Nat /\ n + 1 \in Nat /\ f[n + 1] = F[f[n]] /\ g[n + 1] = G[g[n]]
    BY <1>1
  <2>2. f[n + 1] = g[n + 1] \/ (f[n + 1] \in D /\ g[n + 1] \in D)
    BY <1>3, <2>1 DEF SameOutside
  <2> QED
    BY <2>1, <2>2
<1> HIDE DEF Good
<1>4. \A n \in Nat : n \in Good
  BY <1>2, <1>3, Induct
<1>5. SameUntil(f, g, D)
  BY <1>4 DEF Good, SameUntil
<1> QED
  BY <1>5 DEF f, g

\* An orbit that comes to a set nothing leaves stays there.
LEMMA OrbitStays ==
    ASSUME NEW F \in [Nat -> Nat], NEW a \in Nat, NEW D, \A p \in D : F[p] \in D,
           NEW n \in Nat, Orbit(F, a)[n] \in D, NEW m \in Nat, m >= n
    PROVE  Orbit(F, a)[m] \in D
<1> DEFINE f == Orbit(F, a)
           Good == {i \in Nat : i >= n => f[i] \in D}
<1>1. \A i \in Nat : f[i + 1] = F[f[i]]
  <2>1. Runs(F, a, f)
    BY OrbitIs, Zenon
  <2> QED
    BY <2>1, Zenon DEF Runs
<1>2. f[n] \in D
  OBVIOUS
<1> HIDE DEF f
<1>3. 0 \in Good
  BY <1>2
<1>4. ASSUME NEW i \in Nat, i \in Good PROVE i + 1 \in Good
  <2> SUFFICES ASSUME i + 1 >= n PROVE f[i + 1] \in D
    OBVIOUS
  <2>1. CASE i + 1 = n
    BY <1>2, <2>1
  <2>2. CASE i >= n
    BY <1>1, <1>4, <2>2
  <2> QED
    BY <2>1, <2>2
<1> HIDE DEF Good
<1>5. m \in Good
  BY <1>3, <1>4, Induct
<1> QED
  BY <1>5 DEF Good, f

-----------------------------------------------------------------------------
(* The search of r in an index file s. *)

Follow(s, r) ==
    [p \in Nat |->
        IF p \notin 1..Len(s) THEN 0
        ELSE IF s[p].rec_id = r THEN p
        ELSE IF p = Hash[r] /\ s[p].rec_id = NoRec THEN 0
        ELSE s[p].next]

Search(s, r) == Orbit(Follow(s, r), Hash[r])

\* The search comes to slot p.
Visits(s, r, p) == \E n \in Nat : Search(s, r)[n] = p

Forward(s) == \A i \in 1..Len(s) : s[i].next # 0 => s[i].next \in (i + 1)..(Len(s) + 1)

\* F leads from slot to slot as a search of r does.
Follows(s, r, F) ==
    /\ F \in [Nat -> Nat]
    /\ Hash[r] \in Nat /\ Hash[r] >= 1
    /\ \A p \in Nat : p \notin 1..Len(s) => F[p] = 0
    /\ \A p \in 1..Len(s) : s[p].rec_id = r => F[p] = p
    /\ \A p \in 1..Len(s) : s[p].rec_id # r => F[p] \in {0, s[p].next}
    /\ \A p \in 1..Len(s) : s[p].rec_id \notin {NoRec, r} => F[p] = s[p].next

LEMMA FollowIs ==
    ASSUME NEW s \in Seq(Items), NEW r \in RecIds
    PROVE  Follows(s, r, Follow(s, r))
<1>1. \A p \in 1..Len(s) : s[p].next \in Nat /\ p \in Nat
  <2>1. \A p \in 1..Len(s) : s[p] \in Items
    OBVIOUS
  <2> QED
    BY <2>1 DEF Items
<1>2. Hash[r] \in Nat /\ Hash[r] >= 1
  BY BaseAssumption
<1> QED
  BY <1>1, <1>2 DEF Follow, Follows

LEMMA SearchIs ==
    ASSUME NEW s \in Seq(Items), NEW r \in RecIds
    PROVE  Runs(Follow(s, r), Hash[r], Search(s, r))
<1>1. Follow(s, r) \in [Nat -> Nat] /\ Hash[r] \in Nat
  BY FollowIs DEF Follows
<1> QED
  BY <1>1, OrbitIs, Zenon DEF Search

\* Where links lead forward, a search that has not ended has passed a slot with every step.
LEMMA SearchAdvances ==
    ASSUME NEW s \in Seq(Items), NEW r \in RecIds, Forward(s)
    PROVE  \A n \in Nat : \/ Search(s, r)[n] = 0
                          \/ Search(s, r)[n] \in 1..Len(s) /\ s[Search(s, r)[n]].rec_id = r
                          \/ Search(s, r)[n] > n
<1> DEFINE F == Follow(s, r)
           f == Search(s, r)
           Ended(p) == p = 0 \/ (p \in 1..Len(s) /\ s[p].rec_id = r)
           Good == {n \in Nat : Ended(f[n]) \/ f[n] > n}
<1>a. Follows(s, r, F)
  BY FollowIs
<1>b. Runs(F, Hash[r], f)
  BY SearchIs
<1>1. f \in [Nat -> Nat] /\ f[0] >= 1 /\ \A n \in Nat : f[n + 1] = F[f[n]]
  <2> HIDE DEF F, f
  <2>1. Hash[r] >= 1
    BY <1>a, Zenon DEF Follows
  <2>2. f \in [Nat -> Nat] /\ f[0] = Hash[r] /\ \A n \in Nat : f[n + 1] = F[f[n]]
    BY <1>b, Zenon DEF Runs
  <2> QED
    BY <2>1, <2>2
<1>2. ASSUME NEW p \in Nat PROVE F[p] \in Nat /\ (Ended(F[p]) \/ (F[p] > p /\ ~Ended(p)))
  <2>1. CASE p \notin 1..Len(s)
    BY <2>1, FollowIs DEF Follows
  <2>2. CASE p \in 1..Len(s) /\ s[p].rec_id = r
    BY <2>2, FollowIs DEF Follows
  <2>3. CASE p \in 1..Len(s) /\ s[p].rec_id # r
    <3>1. F[p] \in Nat /\ F[p] \in {0, s[p].next}
      <4> HIDE DEF F
      <4>1. F \in [Nat -> Nat] /\ F[p] \in {0, s[p].next}
        BY <1>a, <2>3, Zenon DEF Follows
      <4> QED
        BY <4>1, Zenon
    <3>2. F[p] = 0 \/ F[p] > p
      BY <2>3, <3>1 DEF Forward
    <3> QED
      BY <2>3, <3>1, <3>2
  <2> QED
    BY <2>1, <2>2, <2>3
<1> HIDE DEF F, f, Ended
<1>3. 0 \in Good
  BY <1>1
<1>4. ASSUME NEW n \in Nat, n \in Good PROVE n + 1 \in Good
  <2>1. f[n] \in Nat /\ f[n + 1] = F[f[n]] /\ (Ended(f[n]) \/ f[n] > n)
    BY <1>1, <1>4
  <2>2. F[f[n]] \in Nat /\ (Ended(F[f[n]]) \/ (F[f[n]] > f[n] /\ ~Ended(f[n])))
    BY <1>2, <2>1
  <2>3. Ended(f[n + 1]) \/ f[n + 1] > n + 1
    BY <2>1, <2>2
  <2> QED
    BY <2>3
<1> HIDE DEF Good
<1>5. \A n \in Nat : n \in Good
  BY <1>3, <1>4, Induct
<1> QED
  BY <1>5 DEF Good, f, Ended

\* A search that comes to a slot of its record is there after as many steps as the file has slots.
LEMMA SearchEnds ==
    ASSUME NEW s \in Seq(Items), NEW r \in RecIds, Forward(s),
           NEW p \in 1..Len(s), s[p].rec_id = r
    PROVE  Visits(s, r, p) <=> Search(s, r)[Len(s) + 1] = p
<1> DEFINE F == Follow(s, r)
           f == Search(s, r)
           q == f[Len(s) + 1]
<1>1. Len(s) + 1 \in Nat
  OBVIOUS
<1>2. /\ F \in [Nat -> Nat] /\ Hash[r] \in Nat
      /\ \A i \in Nat : i \notin 1..Len(s) => F[i] = 0
      /\ \A i \in 1..Len(s) : s[i].rec_id = r => F[i] = i
  BY FollowIs DEF Follows
<1>3. f \in [Nat -> Nat]
  BY SearchIs DEF Runs
<1>4. ASSUME NEW n \in Nat, f[n] = p PROVE q = p
  <2>1. CASE n <= Len(s) + 1
    <3>1. \A i \in {p} : F[i] \in {p}
      BY <1>2
    <3>2. f[Len(s) + 1] \in {p}
      BY <1>1, <1>2, <1>4, <2>1, <3>1, OrbitStays DEF Search
    <3> QED
      BY <3>2
  <2>2. CASE n >= Len(s) + 1
    <3>1. CASE q \in 1..Len(s)
      <4>1. s[q].rec_id = r
        BY <1>1, <3>1, SearchAdvances
      <4>2. \A i \in {q} : F[i] \in {q}
        BY <1>2, <3>1, <4>1
      <4>3. f[n] \in {q}
        BY <1>1, <1>2, <2>2, <4>2, OrbitStays DEF Search
      <4> QED
        BY <1>4, <4>3
    <3>2. CASE q \notin 1..Len(s)
      <4> DEFINE D == {i \in Nat : i \notin 1..Len(s)}
      <4>a. 0 \in D
        OBVIOUS
      <4>b. ASSUME NEW i \in D PROVE F[i] = 0
        BY <1>2, <4>b, Zenon
      <4>1. \A i \in D : F[i] \in D
        BY <4>a, <4>b, Zenon
      <4>2. q \in D
        BY <1>1, <1>3, <3>2
      <4>3. f[n] \in D
        <5> HIDE DEF D
        <5> QED
          BY <1>1, <1>2, <2>2, <4>1, <4>2, OrbitStays DEF Search
      <4> QED
        BY <1>4, <4>3
    <3> QED
      BY <3>1, <3>2
  <2> QED
    BY <1>1, <2>1, <2>2
<1> QED
  BY <1>1, <1>4 DEF Visits

-----------------------------------------------------------------------------
(* The chains lead forward. *)

\* What a write of item x at slot p makes of the index file.
Wrote(s, p, x, t) ==
    /\ t \in Seq(Items)
    /\ Len(t) = IF p > Len(s) THEN p ELSE Len(s)
    /\ \A i \in 1..Len(t) : t[i] = IF i = p THEN x ELSE IF i <= Len(s) THEN s[i] ELSE ZeroItem

LEMMA WriteItemIs ==
    ASSUME NEW s \in Seq(Items), NEW p \in Nat, NEW x \in Items
    PROVE  Wrote(s, p, x, WriteItem(s, p, x))
<1> DEFINE n == IF p > Len(s) THEN p ELSE Len(s)
           w == [i \in 1..n |-> IF i = p THEN x ELSE IF i <= Len(s) THEN s[i] ELSE ZeroItem]
<1>1. n \in Nat
  OBVIOUS
<1>2. WriteItem(s, p, x) = w
  BY DEF WriteItem
<1>3. Len(w) = n
  <2> HIDE DEF n
  <2> QED
    BY <1>1
<1>4. \A i \in 1..n : w[i] = IF i = p THEN x ELSE IF i <= Len(s) THEN s[i] ELSE ZeroItem
  OBVIOUS
<1>5. WriteItem(s, p, x) \in Seq(Items)
  BY WriteItemType
<1> HIDE DEF w
<1>6. Wrote(s, p, x, w)
  BY <1>2, <1>3, <1>4, <1>5 DEF Wrote
<1> QED
  BY <1>2, <1>6

\* A write of an item that leads forward keeps the other links forward.
LEMMA WriteItemForward ==
    ASSUME NEW s \in Seq(Items), NEW p \in Nat, NEW x \in Items, Forward(s),
           x.next # 0 => p \in 1..Len(s) /\ x.next \in (p + 1)..(Len(s) + 1)
    PROVE  Forward(WriteItem(s, p, x))
<1> DEFINE w == WriteItem(s, p, x)
<1>1. /\ Len(w) = IF p > Len(s) THEN p ELSE Len(s)
      /\ \A i \in 1..Len(w) : w[i] = IF i = p THEN x ELSE IF i <= Len(s) THEN s[i] ELSE ZeroItem
  BY WriteItemIs DEF Wrote
<1>2. Len(w) \in Nat /\ Len(w) >= Len(s) /\ Len(s) \in Nat
  BY <1>1
<1>3. ZeroItem.next = 0
  BY DEF ZeroItem
<1> HIDE DEF w
<1>4. ASSUME NEW i \in 1..Len(w), w[i].next # 0 PROVE w[i].next \in (i + 1)..(Len(w) + 1)
  <2>1. CASE i = p
    <3>1. w[i] = x
      BY <1>1, <2>1
    <3> QED
      BY <1>2, <1>4, <2>1, <3>1
  <2>2. CASE i # p /\ i <= Len(s)
    <3>1. w[i] = s[i] /\ i \in 1..Len(s)
      BY <1>1, <2>2
    <3>2. s[i].next \in (i + 1)..(Len(s) + 1)
      BY <1>4, <3>1 DEF Forward
    <3> QED
      BY <1>2, <3>1, <3>2
  <2>3. CASE i # p /\ ~(i <= Len(s))
    BY <1>1, <1>3, <1>4, <2>3
  <2> QED
    BY <2>1, <2>2, <2>3
<1> QED
  BY <1>4 DEF Forward, w

\* The item in memory is the slot it was read from ...
HeldOK == pc = "walk" =>
    /\ CurrentItemPos >= 1
    /\ Item = IF CurrentItemPos <= Len(idx) THEN idx[CurrentItemPos] ELSE ZeroItem

\* ... and its link, when it comes to be written, still leads forward from its slot.
LinkOK == pc \in {"data", "index"} =>
    /\ CurrentItemPos >= 1
    /\ Item.next # 0 => CurrentItemPos \in 1..Len(idx) /\ Item.next \in (CurrentItemPos + 1)..(Len(idx) + 1)

LInv == LinksForward /\ via = "open" /\ HeldOK /\ LinkOK

\* A new file has no links.
LEMMA InitLInv == Init => LInv
<1> SUFFICES ASSUME Init PROVE LInv
  OBVIOUS
<1>1. \A i \in 1..Len(HTable) : HTable[i].next = 0
  <2>1. \A i \in 1..HashPrime : HTable[i] = ZeroItem
    BY DEF HTable
  <2>2. Len(HTable) = HashPrime
    BY BaseAssumption DEF HTable
  <2> QED
    BY <2>1, <2>2 DEF ZeroItem
<1>2. LinksForward
  <2>1. CASE idx = HTable
    BY <1>1, <2>1 DEF LinksForward
  <2>2. CASE idx = <<>>
    BY <2>2 DEF LinksForward
  <2> QED
    BY <2>1, <2>2 DEF Init
<1> QED
  BY <1>2 DEF Init, LInv, HeldOK, LinkOK

\* A call that returns leaves only its effect on the links.
LEMMA ReturnLInv ==
    ASSUME NEW r, Return(r), LinksForward'
    PROVE  LInv'
BY DEF Return, LInv, HeldOK, LinkOK

\* What the search holds has a forward link, from a slot of the file.
LEMMA HeldForward ==
    ASSUME IInv, LInv, pc = "walk"
    PROVE  /\ idx \in Seq(Items) /\ Item \in Items /\ CurrentItemPos \in Nat /\ CurrentItemPos >= 1
           /\ Forward(idx)
           /\ Item.next # 0 => CurrentItemPos \in 1..Len(idx) /\ Item.next \in (CurrentItemPos + 1)..(Len(idx) + 1)
           /\ Item.rec_id # NoRec => CurrentItemPos \in 1..Len(idx)
           /\ CurrentItemPos \in 1..Len(idx) => Item = idx[CurrentItemPos]
           /\ CurrentItemPos \notin 1..Len(idx) => Item = ZeroItem
<1>1. idx \in Seq(Items) /\ Item \in Items /\ CurrentItemPos \in Nat /\ CurrentItemPos >= 1
  BY DEF IInv, TypeOK, LInv, HeldOK
<1>2. Forward(idx)
  BY DEF LInv, LinksForward, Forward
<1>3. ZeroItem.next = 0 /\ ZeroItem.rec_id = NoRec
  BY DEF ZeroItem
<1>4. CurrentItemPos \in 1..Len(idx) => Item = idx[CurrentItemPos]
  BY <1>1 DEF LInv, HeldOK
<1>5. CurrentItemPos \notin 1..Len(idx) => Item = ZeroItem
  BY <1>1 DEF LInv, HeldOK
<1>6. CurrentItemPos \in 1..Len(idx) /\ Item.next # 0 => Item.next \in (CurrentItemPos + 1)..(Len(idx) + 1)
  BY <1>2, <1>4 DEF Forward
<1> QED
  BY <1>1, <1>2, <1>3, <1>4, <1>5, <1>6

\* Every step keeps the links forward, when each call opens the file.
LEMMA NextLInv == ~KeepOpen /\ IInv /\ LInv /\ [Next]_vars => LInv'
<1> SUFFICES ASSUME ~KeepOpen, IInv, LInv, [Next]_vars PROVE LInv'
  OBVIOUS
<1>1. LinksForward /\ via = "open" /\ HeldOK /\ LinkOK
  BY DEF LInv
<1>2. ASSUME idx' = idx PROVE LinksForward'
  BY <1>1, <1>2 DEF LinksForward
<1>3. ASSUME NEW p, NEW x, idx' = WriteItem(idx, p, x), Forward(WriteItem(idx, p, x)) PROVE LinksForward'
  BY <1>3 DEF LinksForward, Forward
<1>4. ASSUME Start PROVE LInv'
  <2>1. idx' = idx /\ via' = "open" /\ pc' = "head"
    BY <1>4 DEF Start, files
  <2> QED
    BY <1>2, <2>1 DEF LInv, HeldOK, LinkOK
<1>5. ASSUME Close PROVE LInv'
  BY <1>1, <1>2, <1>5 DEF Close, files, cursor, LInv, HeldOK, LinkOK
<1>6. ASSUME ReadHead PROVE LInv'
  <2>1. /\ idx' = idx /\ pc = "head" /\ pc' = "walk" /\ via' = "open"
        /\ CurrentItemPos' = Hash[op.rec_id]
        /\ Item' = IF Hash[op.rec_id] <= Len(idx) THEN idx[Hash[op.rec_id]] ELSE ZeroItem
    BY <1>1, <1>6 DEF ReadHead, files
  <2>2. Hash[op.rec_id] >= 1
    BY <2>1, FollowIs DEF IInv, CallOK, TypeOK, Follows
  <2> QED
    BY <1>2, <2>1, <2>2 DEF LInv, HeldOK, LinkOK
<1>7. ASSUME WalkOn PROVE LInv'
  <2>1. /\ idx' = idx /\ pc = "walk" /\ pc' = "walk" /\ via' = via
        /\ CurrentItemPos' = Item.next /\ Item' = idx[Item.next]
        /\ Item.next # 0 /\ Item.next <= Len(idx)
    BY <1>7 DEF WalkOn, Walking, files
  <2>2. Item.next >= 1
    BY <2>1, HeldForward
  <2> QED
    BY <1>1, <1>2, <2>1, <2>2 DEF LInv, HeldOK, LinkOK
<1>8. ASSUME WalkRepair PROVE LInv'
  <2>1. pc = "walk" /\ Item.next # 0
    BY <1>8 DEF WalkRepair, Walking
  <2>2. CASE mode = "read"
    <3>1. idx' = idx /\ Return(ERROR)
      BY <1>8, <2>2 DEF WalkRepair, files
    <3> QED
      BY <1>2, <3>1, ReturnLInv
  <2>3. CASE mode # "read"
    <3> DEFINE end == [idx[CurrentItemPos] EXCEPT !.next = 0]
    <3>1. idx' = WriteItem(idx, CurrentItemPos, end) /\ pc' = "head" /\ via' = via
      BY <1>1, <1>8, <2>3 DEF WalkRepair
    <3>2. idx \in Seq(Items) /\ CurrentItemPos \in 1..Len(idx) /\ CurrentItemPos \in Nat /\ Forward(idx)
      BY <2>1, HeldForward
    <3>3. end \in Items /\ end.next = 0
      <4>1. idx[CurrentItemPos] \in Items
        BY <3>2
      <4> QED
        BY <4>1, Relinked
    <3> HIDE DEF end
    <3>4. Forward(WriteItem(idx, CurrentItemPos, end))
      BY <3>2, <3>3, WriteItemForward
    <3> QED
      BY <1>1, <1>3, <3>1, <3>4 DEF LInv, HeldOK, LinkOK
  <2> QED
    BY <2>2, <2>3
<1>9. ASSUME Read \/ LinkFails \/ IndexFails \/ DataFails \/ Crash PROVE LInv'
  <2>1. idx' = idx
    BY <1>9 DEF Read, LinkFails, IndexFails, DataFails, Crash, files
  <2>2. \E r : Return(r)
    BY <1>9 DEF Read, LinkFails, IndexFails, DataFails, Crash
  <2> QED
    BY <1>2, <2>1, <2>2, ReturnLInv
<1>10. ASSUME Delete PROVE LInv'
  <2>1. pc = "walk" /\ Return(OK)
    BY <1>10 DEF Delete, Sought
  <2>2. CASE Item.rec_id = op.rec_id
    <3> DEFINE gone == [Item EXCEPT !.rec_id = NoRec]
    <3>1. idx' = WriteItem(idx, CurrentItemPos, gone)
      BY <1>10, <2>2 DEF Delete
    <3>2. gone \in Items /\ gone.next = Item.next
      BY <2>1, HeldForward DEF Items
    <3> HIDE DEF gone
    <3>3. Forward(WriteItem(idx, CurrentItemPos, gone))
      BY <2>1, <3>2, HeldForward, WriteItemForward
    <3> QED
      BY <1>3, <2>1, <3>1, <3>3, ReturnLInv
  <2>3. CASE Item.rec_id # op.rec_id
    <3>1. idx' = idx
      BY <1>10, <2>3 DEF Delete
    <3> QED
      BY <1>2, <2>1, <3>1, ReturnLInv
  <2> QED
    BY <2>2, <2>3
<1>11. ASSUME WriteFound \/ WriteReuse PROVE LInv'
  <2>1. /\ idx' = idx /\ pc = "walk" /\ pc' = "data" /\ via' = via /\ CurrentItemPos' = CurrentItemPos
    BY <1>11 DEF WriteFound, WriteReuse, Sought, files
  <2>2. Item'.next = Item.next
    BY <1>11, <2>1, HeldForward DEF WriteFound, WriteReuse, Items
  <2>3. LinkOK'
    BY <2>1, <2>2, HeldForward DEF LinkOK
  <2> QED
    BY <1>1, <1>2, <2>1, <2>3 DEF LInv, HeldOK
<1>12. ASSUME WriteLink PROVE LInv'
  <2> DEFINE last == [Item EXCEPT !.next = Len(idx) + 1]
  <2>1. /\ pc = "walk" /\ pc' = "data" /\ via' = via /\ Item.rec_id # NoRec
        /\ idx' = WriteItem(idx, CurrentItemPos, last)
        /\ CurrentItemPos' = Len(idx) + 1
        /\ Item' = [Item EXCEPT !.rec_id = op.rec_id, !.next = 0, !.offset = Len(dat)]
    BY <1>12 DEF WriteLink, Sought
  <2>2. /\ idx \in Seq(Items) /\ Item \in Items /\ Forward(idx)
        /\ CurrentItemPos \in 1..Len(idx) /\ CurrentItemPos \in Nat
    BY <2>1, HeldForward
  <2>3. Item'.next = 0
    BY <2>1, <2>2 DEF Items
  <2>4. last \in Items /\ last.next = Len(idx) + 1
    <3>1. Len(idx) + 1 \in Nat
      BY <2>2
    <3> QED
      BY <2>2, <3>1, Relinked
  <2>5. last.next \in (CurrentItemPos + 1)..(Len(idx) + 1) /\ CurrentItemPos' >= 1
    BY <2>1, <2>2, <2>4
  <2> HIDE DEF last
  <2>6. Forward(WriteItem(idx, CurrentItemPos, last))
    BY <2>2, <2>4, <2>5, WriteItemForward
  <2> QED
    BY <1>1, <1>3, <2>1, <2>3, <2>5, <2>6 DEF LInv, HeldOK, LinkOK
<1>13. ASSUME WriteData PROVE LInv'
  <2>1. /\ idx' = idx /\ pc = "data" /\ pc' = "index" /\ via' = via /\ CurrentItemPos' = CurrentItemPos
        /\ Item' = [Item EXCEPT !.size = Len(op.buf)]
    BY <1>13 DEF WriteData
  <2>2. Item'.next = Item.next
    BY <2>1 DEF IInv, TypeOK, Items
  <2>3. LinkOK'
    BY <1>1, <2>1, <2>2 DEF LinkOK
  <2> QED
    BY <1>1, <1>2, <2>1, <2>3 DEF LInv, HeldOK
<1>14. ASSUME WriteIndex PROVE LInv'
  <2>1. pc = "index" /\ idx' = WriteItem(idx, CurrentItemPos, Item) /\ Return(OK)
    BY <1>14 DEF WriteIndex
  <2>2. idx \in Seq(Items) /\ Item \in Items /\ CurrentItemPos \in Nat /\ Forward(idx)
    BY <1>1 DEF IInv, TypeOK, LinksForward, Forward
  <2>3. Forward(WriteItem(idx, CurrentItemPos, Item))
    BY <1>1, <2>1, <2>2, WriteItemForward DEF LinkOK
  <2> QED
    BY <1>3, <2>1, <2>3, ReturnLInv
<1>15. ASSUME UNCHANGED vars PROVE LInv'
  BY <1>1, <1>2, <1>15 DEF vars, LInv, HeldOK, LinkOK
<1> QED
  BY <1>4, <1>5, <1>6, <1>7, <1>8, <1>9, <1>10, <1>11, <1>12, <1>13, <1>14, <1>15 DEF Next, Step

\* Where callers open the file for each call, DpsBaseWrite links a slot only
\* to a later one, also over links that an append that was not finished left.
THEOREM NoLoops ==
    ASSUME ~KeepOpen
    PROVE  Spec => []LinksForward
<1>1. LInv => LinksForward
  BY DEF LInv
<1>2. Init => IInv /\ LInv
  BY InitIInv, InitLInv
<1>3. (IInv /\ LInv) /\ [Next]_vars => (IInv /\ LInv)'
  BY NextIInv, NextLInv
<1> QED
  BY <1>1, <1>2, <1>3, PTL DEF Spec

-----------------------------------------------------------------------------
(* What a write does to the searches. *)

SameBut(F, G, p) == \A q \in Nat : q # p => F[q] = G[q]

\* A search that changes at one point only comes to that point as before.
LEMMA SearchReaches ==
    ASSUME NEW s \in Seq(Items), NEW t \in Seq(Items), NEW r \in RecIds, NEW p,
           SameBut(Follow(s, r), Follow(t, r), p), Visits(s, r, p)
    PROVE  Visits(t, r, p)
<1> DEFINE F == Follow(s, r)
           G == Follow(t, r)
           a == Hash[r]
           f == Orbit(F, a)
           T == {m \in Nat : f[m] = p}
<1>a. F \in [Nat -> Nat] /\ G \in [Nat -> Nat] /\ a \in Nat
  BY FollowIs DEF Follows
<1>b. PICK n \in Nat : f[n] = p
  BY DEF Visits, Search
<1>1. f \in [Nat -> Nat]
  BY <1>a, OrbitIs DEF Runs
<1> HIDE DEF F, G, a
<1>2. PICK m \in T : \A k \in T : m <= k
  <2>1. T \subseteq Nat /\ n \in T
    BY <1>b
  <2> HIDE DEF T
  <2> QED
    BY <2>1, Least
<1>3. m \in Nat /\ f[m] = p
  OBVIOUS
<1>4. ASSUME NEW k \in 0..(m - 1) PROVE F[f[k]] = G[f[k]]
  <2>1. k \in Nat /\ ~(m <= k)
    BY <1>3
  <2>2. f[k] \in Nat /\ f[k] # p
    BY <1>1, <1>2, <2>1
  <2> QED
    BY <2>2 DEF SameBut, F, G
<1>5. Orbit(G, a)[m] = f[m]
  BY <1>a, <1>3, <1>4, OrbitsAgree
<1> QED
  BY <1>3, <1>5 DEF Visits, Search, G, a

\* The slots r has in s and t, with data d and e, are the same, with the same contents.
SameSlots(s, d, t, e, r) ==
    /\ \A p \in 1..Len(s) : s[p].rec_id = r /\ Visits(s, r, p) =>
          /\ p \in 1..Len(t) /\ t[p].rec_id = r /\ Visits(t, r, p)
          /\ t[p].offset = s[p].offset /\ t[p].size = s[p].size
          /\ \A k \in 1..s[p].size : e[s[p].offset + k] = d[s[p].offset + k]
    /\ \A p \in 1..Len(t) : t[p].rec_id = r /\ Visits(t, r, p) =>
          p \in 1..Len(s) /\ s[p].rec_id = r /\ Visits(s, r, p)

\* A link set or cut at the end of a chain, where no slot follows, changes no search.
LEMMA LinkKeeps ==
    ASSUME NEW s \in Seq(Items), NEW d, NEW r \in RecIds, NEW p \in 1..Len(s), NEW n \in Nat,
           s[p].next \notin 1..Len(s), n \notin 1..Len(s)
    PROVE  SameSlots(s, d, WriteItem(s, p, [s[p] EXCEPT !.next = n]), d, r)
<1> DEFINE x == [s[p] EXCEPT !.next = n]
           t == WriteItem(s, p, x)
           F == Follow(s, r)
           G == Follow(t, r)
           D == {i \in Nat : i \notin 1..Len(s)}
<1>1. s[p] \in Items /\ p \in Nat
  OBVIOUS
<1>2. /\ x \in Items /\ x.next = n /\ x.rec_id = s[p].rec_id
      /\ x.offset = s[p].offset /\ x.size = s[p].size
  BY <1>1 DEF Items
<1> HIDE DEF x
<1>3. t \in Seq(Items) /\ Len(t) = Len(s) /\ t[p] = x /\ \A i \in 1..Len(s) : i # p => t[i] = s[i]
  <2>a. Wrote(s, p, x, t)
    BY <1>1, <1>2, WriteItemIs, Zenon
  <2> HIDE DEF t
  <2>1. /\ t \in Seq(Items)
        /\ Len(t) = IF p > Len(s) THEN p ELSE Len(s)
        /\ \A i \in 1..Len(t) : t[i] = IF i = p THEN x ELSE IF i <= Len(s) THEN s[i] ELSE ZeroItem
    BY <2>a, Zenon DEF Wrote
  <2>2. Len(t) = Len(s)
    BY <2>1
  <2> QED
    BY <2>1, <2>2
<1> HIDE DEF t
<1>4. F \in [Nat -> Nat] /\ G \in [Nat -> Nat] /\ Hash[r] \in Nat
  BY <1>3, FollowIs DEF Follows
<1>5. ASSUME NEW i \in D PROVE F[i] \in D /\ G[i] \in D
  <2>1. F[i] = 0 /\ G[i] = 0
    BY <1>3, <1>5, FollowIs DEF Follows
  <2> QED
    BY <2>1
<1>6. ASSUME NEW i \in Nat, i \notin D PROVE F[i] = G[i] \/ (F[i] \in D /\ G[i] \in D)
  <2>1. i \in 1..Len(s)
    BY <1>6
  <2>2. CASE i # p
    BY <1>3, <2>1, <2>2 DEF Follow
  <2>3. CASE i = p /\ s[p].rec_id = r
    <3>1. F[p] = p /\ G[p] = p
      BY <1>2, <1>3, <2>1, <2>3, FollowIs DEF Follows
    <3> QED
      BY <2>3, <3>1
  <2>4. CASE i = p /\ s[p].rec_id # r
    <3>1. F[p] \in {0, s[p].next} /\ G[p] \in {0, n}
      BY <1>2, <1>3, <2>1, <2>4, FollowIs DEF Follows
    <3>2. F[p] \in Nat /\ G[p] \in Nat
      BY <1>1, <1>4
    <3> QED
      BY <2>4, <3>1, <3>2
  <2> QED
    BY <2>2, <2>3, <2>4
<1> HIDE DEF F, G, D
<1>7. SameUntil(Orbit(F, Hash[r]), Orbit(G, Hash[r]), D)
  <2>1. SameOutside(F, G, D)
    BY <1>5, <1>6 DEF SameOutside
  <2> DEFINE a == Hash[r]
  <2>2. F \in [Nat -> Nat] /\ G \in [Nat -> Nat] /\ a \in Nat
    BY <1>4
  <2> HIDE DEF a
  <2>3. SameUntil(Orbit(F, a), Orbit(G, a), D)
    BY <2>1, <2>2, OrbitsEnd, Zenon
  <2> QED
    BY <2>3, Zenon DEF a
<1>8. \A q \in 1..Len(s) : Visits(s, r, q) <=> Visits(t, r, q)
  BY <1>7 DEF D, F, G, Visits, Search, SameUntil
<1>9. \A q \in 1..Len(s) : t[q].rec_id = s[q].rec_id /\ t[q].offset = s[q].offset /\ t[q].size = s[q].size
  BY <1>2, <1>3
<1> QED
  BY <1>3, <1>8, <1>9 DEF SameSlots, t, x

\* A slot written for another record, with the link it had, changes no search of r.
LEMMA SlotKeeps ==
    ASSUME NEW s \in Seq(Items), NEW d, NEW r \in RecIds, NEW p \in Nat, p >= 1, NEW x \in Items,
           x.rec_id \notin {NoRec, r},
           p <= Len(s) => s[p].rec_id # r /\ s[p].next = x.next,
           p <= Len(s) /\ s[p].rec_id = NoRec => s[p].next = 0,
           p > Len(s) => x.next = 0
    PROVE  SameSlots(s, d, WriteItem(s, p, x), d, r)
<1> DEFINE t == WriteItem(s, p, x)
<1>a. Wrote(s, p, x, t)
  BY WriteItemIs, Zenon
<1>2. ZeroItem.next = 0 /\ ZeroItem.rec_id = NoRec /\ NoRec # r
  BY BaseAssumption DEF ZeroItem
<1> HIDE DEF t
<1>1. /\ t \in Seq(Items)
      /\ Len(t) = IF p > Len(s) THEN p ELSE Len(s)
      /\ \A i \in 1..Len(t) : t[i] = IF i = p THEN x ELSE IF i <= Len(s) THEN s[i] ELSE ZeroItem
  BY <1>a, Zenon DEF Wrote
<1>b. Follows(t, r, Follow(t, r))
  BY <1>1, FollowIs, Zenon
<1>3. ASSUME NEW i \in Nat PROVE Follow(t, r)[i] = Follow(s, r)[i]
  <2>1. CASE i \notin 1..Len(t)
    <3>1. i \notin 1..Len(s)
      BY <1>1, <2>1
    <3>2. Follow(t, r)[i] = 0
      BY <1>b, <2>1, Zenon DEF Follows
    <3>3. Follow(s, r)[i] = 0
      BY <3>1, FollowIs DEF Follows
    <3> QED
      BY <3>2, <3>3
  <2>2. CASE i \in 1..Len(t) /\ i \notin 1..Len(s)
    <3>1. t[i].rec_id # r /\ t[i].next = 0
      BY <1>1, <1>2, <2>2
    <3>2. Follow(t, r)[i] = 0
      <4>1. Follow(t, r)[i] \in {0, t[i].next}
        BY <1>1, <2>2, <3>1, FollowIs DEF Follows
      <4> QED
        BY <3>1, <4>1
    <3>3. Follow(s, r)[i] = 0
      BY <2>2, FollowIs DEF Follows
    <3> QED
      BY <3>2, <3>3
  <2>3. CASE i \in 1..Len(s) /\ i # p
    <3>1. i \in 1..Len(t) /\ t[i] = s[i]
      BY <1>1, <2>3
    <3> QED
      BY <2>3, <3>1 DEF Follow
  <2>4. CASE i \in 1..Len(s) /\ i = p
    <3>1. i \in 1..Len(t) /\ t[i] = x
      BY <1>1, <2>4
    <3>2. Follow(t, r)[i] = x.next
      BY <1>1, <3>1, FollowIs DEF Follows
    <3>3. Follow(s, r)[i] = s[p].next
      <4>1. Follow(s, r)[i] \in {0, s[p].next}
        BY <2>4, FollowIs DEF Follows
      <4>2. s[p].rec_id # NoRec => Follow(s, r)[i] = s[p].next
        BY <2>4, FollowIs DEF Follows
      <4> QED
        BY <2>4, <4>1, <4>2
    <3> QED
      BY <2>4, <3>2, <3>3
  <2> QED
    BY <1>1, <2>1, <2>2, <2>3, <2>4
<1>4. Follow(t, r) = Follow(s, r)
  <2>1. Follow(t, r) \in [Nat -> Nat] /\ Follow(s, r) \in [Nat -> Nat]
    BY <1>1, FollowIs DEF Follows
  <2> QED
    BY <1>3, <2>1
<1>5. \A q : Visits(t, r, q) <=> Visits(s, r, q)
  BY <1>4 DEF Visits, Search
<1>6. \A q \in 1..Len(s) : s[q].rec_id = r => q \in 1..Len(t) /\ t[q] = s[q]
  BY <1>1
<1>7. \A q \in 1..Len(t) : t[q].rec_id = r => q \in 1..Len(s) /\ t[q] = s[q]
  BY <1>1, <1>2
<1> QED
  BY <1>5, <1>6, <1>7 DEF SameSlots, t

\* The link to a new slot takes the search of o to it.
LEMMA LinkReaches ==
    ASSUME NEW s \in Seq(Items), NEW o \in RecIds, NEW p \in 1..Len(s),
           s[p].rec_id \notin {NoRec, o}, Visits(s, o, p)
    PROVE  Visits(WriteItem(s, p, [s[p] EXCEPT !.next = Len(s) + 1]), o, Len(s) + 1)
<1> DEFINE x == [s[p] EXCEPT !.next = Len(s) + 1]
           t == WriteItem(s, p, x)
<1>1. s[p] \in Items /\ p \in Nat /\ Len(s) + 1 \in Nat
  OBVIOUS
<1>2. x \in Items /\ x.next = Len(s) + 1 /\ x.rec_id = s[p].rec_id
  BY <1>1 DEF Items
<1> HIDE DEF x
<1>a. Wrote(s, p, x, t)
  BY <1>1, <1>2, WriteItemIs, Zenon
<1> HIDE DEF t
<1>3. /\ t \in Seq(Items)
      /\ Len(t) = IF p > Len(s) THEN p ELSE Len(s)
      /\ \A i \in 1..Len(t) : t[i] = IF i = p THEN x ELSE IF i <= Len(s) THEN s[i] ELSE ZeroItem
  BY <1>a, Zenon DEF Wrote
<1>4. Len(t) = Len(s) /\ t[p] = x /\ \A i \in 1..Len(s) : i # p => t[i] = s[i]
  BY <1>1, <1>3
<1>5. SameBut(Follow(s, o), Follow(t, o), p)
  BY <1>4 DEF Follow, SameBut
<1>6. t \in Seq(Items)
  BY <1>3
<1>7. Visits(t, o, p)
  BY <1>5, <1>6, SearchReaches
<1>8. PICK m \in Nat : Search(t, o)[m] = p
  BY <1>7 DEF Visits
<1>9. Search(t, o)[m + 1] = Follow(t, o)[p]
  <2>1. \A n \in Nat : Search(t, o)[n + 1] = Follow(t, o)[Search(t, o)[n]]
    BY <1>6, SearchIs DEF Runs
  <2> QED
    BY <1>8, <2>1
<1>10. Follow(t, o)[p] = Len(s) + 1
  <2>1. Follows(t, o, Follow(t, o))
    BY <1>6, FollowIs, Zenon
  <2>2. p \in 1..Len(t) /\ t[p].rec_id \notin {NoRec, o}
    BY <1>2, <1>4
  <2>3. Follow(t, o)[p] = t[p].next
    BY <2>1, <2>2, Zenon DEF Follows
  <2> QED
    BY <1>2, <1>4, <2>3
<1>11. m + 1 \in Nat
  OBVIOUS
<1> QED
  BY <1>9, <1>10, <1>11 DEF Visits, t, x

\* The slot written for o is the one the search of o comes to.
LEMMA SlotReaches ==
    ASSUME NEW s \in Seq(Items), NEW o \in RecIds, NEW p \in Nat, p >= 1, NEW x \in Items,
           x.rec_id = o, Visits(s, o, p)
    PROVE  Visits(WriteItem(s, p, x), o, p)
<1> DEFINE t == WriteItem(s, p, x)
<1>a. Wrote(s, p, x, t)
  BY WriteItemIs, Zenon
<1>2. ZeroItem.next = 0 /\ ZeroItem.rec_id = NoRec /\ NoRec # o
  BY BaseAssumption DEF ZeroItem
<1> HIDE DEF t
<1>1. /\ t \in Seq(Items)
      /\ Len(t) = IF p > Len(s) THEN p ELSE Len(s)
      /\ \A i \in 1..Len(t) : t[i] = IF i = p THEN x ELSE IF i <= Len(s) THEN s[i] ELSE ZeroItem
  BY <1>a, Zenon DEF Wrote
<1>3. ASSUME NEW q \in Nat, q # p PROVE Follow(s, o)[q] = Follow(t, o)[q]
  <2>1. CASE q \in 1..Len(s)
    <3>1. q \in 1..Len(t) /\ t[q] = s[q]
      BY <1>1, <1>3, <2>1
    <3> QED
      BY <2>1, <3>1 DEF Follow
  <2>2. CASE q \notin 1..Len(s)
    <3>1. Follow(s, o)[q] = 0
      BY <2>2, FollowIs DEF Follows
    <3>2. CASE q \in 1..Len(t)
      <4>1. t[q] = ZeroItem
        BY <1>1, <1>3, <2>2, <3>2
      <4>2. Follow(t, o)[q] \in {0, t[q].next}
        BY <1>1, <1>2, <3>2, <4>1, FollowIs DEF Follows
      <4> QED
        BY <1>2, <3>1, <4>1, <4>2
    <3>3. CASE q \notin 1..Len(t)
      <4>1. t \in Seq(Items)
        BY <1>1
      <4>2. Follow(t, o)[q] = 0
        BY <3>3, <4>1, FollowIs DEF Follows
      <4> QED
        BY <3>1, <4>2
    <3> QED
      BY <3>2, <3>3
  <2> QED
    BY <2>1, <2>2
<1>4. SameBut(Follow(s, o), Follow(t, o), p)
  BY <1>3 DEF SameBut
<1>5. t \in Seq(Items)
  BY <1>1
<1>6. Visits(t, o, p)
  BY <1>4, <1>5, SearchReaches
<1> QED
  BY <1>6 DEF t

-----------------------------------------------------------------------------
(* What is stored. *)

Sound(s, d) == \A i \in 1..Len(s) : s[i].rec_id # NoRec => Owns(d, s[i])

FoundIn(s, d, r) ==
    LET p == Search(s, r)[Len(s) + 1] IN
    p \in 1..Len(s) /\ s[p].rec_id = r /\ s[p].offset + s[p].size <= Len(d)

Contents(it, d) == [k \in 1..it.size |-> d[it.offset + k]]
LookupIn(s, d, r) == Contents(s[Search(s, r)[Len(s) + 1]], d)

\* A record is found at the slot of its own that its search comes to.
LEMMA FoundThere ==
    ASSUME NEW s \in Seq(Items), NEW d \in Seq(Cells), NEW r \in RecIds, Forward(s), Sound(s, d)
    PROVE  /\ FoundIn(s, d, r) <=> \E p \in 1..Len(s) : s[p].rec_id = r /\ Visits(s, r, p)
           /\ \A p \in 1..Len(s) : s[p].rec_id = r /\ Visits(s, r, p) =>
                 LookupIn(s, d, r) = Contents(s[p], d)
<1> DEFINE q == Search(s, r)[Len(s) + 1]
<1>1. Len(s) + 1 \in Nat /\ r # NoRec
  BY BaseAssumption
<1>2. ASSUME NEW p \in 1..Len(s), s[p].rec_id = r, Visits(s, r, p)
      PROVE  /\ q = p /\ s[p].offset + s[p].size <= Len(d)
             /\ LookupIn(s, d, r) = Contents(s[p], d)
  <2>1. q = p
    BY <1>2, SearchEnds
  <2>2. s[p].offset + s[p].size <= Len(d)
    BY <1>1, <1>2 DEF Sound, Owns
  <2>3. LookupIn(s, d, r) = Contents(s[p], d)
    BY <2>1, Zenon DEF LookupIn
  <2> QED
    BY <2>1, <2>2, <2>3
<1>3. ASSUME FoundIn(s, d, r) PROVE \E p \in 1..Len(s) : s[p].rec_id = r /\ Visits(s, r, p)
  <2>1. q \in 1..Len(s) /\ s[q].rec_id = r
    BY <1>3 DEF FoundIn
  <2>2. Visits(s, r, q)
    BY <1>1 DEF Visits
  <2> QED
    BY <2>1, <2>2
<1>4. ASSUME NEW p \in 1..Len(s), s[p].rec_id = r, Visits(s, r, p) PROVE FoundIn(s, d, r)
  <2>1. q = p /\ s[p].offset + s[p].size <= Len(d)
    BY <1>2, <1>4
  <2> QED
    BY <1>4, <2>1 DEF FoundIn
<1> QED
  BY <1>2, <1>3, <1>4

\* Where r has the same slots, it is found with the same buffer, or not found.
LEMMA SameLookup ==
    ASSUME NEW s \in Seq(Items), NEW d \in Seq(Cells), Forward(s), Sound(s, d),
           NEW t \in Seq(Items), NEW e \in Seq(Cells), Forward(t), Sound(t, e),
           NEW r \in RecIds, SameSlots(s, d, t, e, r)
    PROVE  /\ FoundIn(t, e, r) <=> FoundIn(s, d, r)
           /\ FoundIn(s, d, r) => LookupIn(t, e, r) = LookupIn(s, d, r)
<1>1. FoundIn(t, e, r) <=> FoundIn(s, d, r)
  BY FoundThere DEF SameSlots
<1>2. ASSUME FoundIn(s, d, r) PROVE LookupIn(t, e, r) = LookupIn(s, d, r)
  <2>1. PICK p \in 1..Len(s) : s[p].rec_id = r /\ Visits(s, r, p)
    BY <1>2, FoundThere
  <2>2. /\ p \in 1..Len(t) /\ t[p].rec_id = r /\ Visits(t, r, p)
        /\ t[p].offset = s[p].offset /\ t[p].size = s[p].size
        /\ \A k \in 1..s[p].size : e[s[p].offset + k] = d[s[p].offset + k]
    BY <2>1 DEF SameSlots
  <2>3. LookupIn(s, d, r) = Contents(s[p], d)
    BY <2>1, FoundThere
  <2>4. LookupIn(t, e, r) = Contents(t[p], e)
    BY <2>2, FoundThere
  <2>5. Contents(s[p], d) = Contents(t[p], e)
    BY <2>2 DEF Contents
  <2> QED
    BY <2>3, <2>4, <2>5
<1> QED
  BY <1>1, <1>2

\* e is d with b written at off.
Overlaid(d, off, b, e) ==
    /\ e \in Seq(Cells)
    /\ Len(e) \in Nat /\ Len(e) >= Len(d) /\ Len(e) >= off + Len(b)
    /\ \A k \in 1..Len(e) : e[k] = IF k > off /\ k <= off + Len(b) THEN b[k - off] ELSE d[k]

LEMMA OverlayIs ==
    ASSUME NEW d \in Seq(Cells), NEW b \in Seq(Cells), NEW off \in Nat, off <= Len(d)
    PROVE  Overlaid(d, off, b, Overlay(d, off, b))
<1>1. /\ Overlay(d, off, b) \in Seq(Cells)
      /\ Len(Overlay(d, off, b)) >= Len(d)
      /\ Len(Overlay(d, off, b)) >= off + Len(b)
  BY OverlayType, Zenon
<1>2. \A k \in 1..Len(Overlay(d, off, b)) :
         Overlay(d, off, b)[k] = IF k > off /\ k <= off + Len(b) THEN b[k - off] ELSE d[k]
  BY OverlayType, Zenon
<1>3. Len(Overlay(d, off, b)) \in Nat
  BY <1>1
<1> QED
  BY <1>1, <1>2, <1>3, Zenon DEF Overlaid

\* The buffer of another record, written where it may be, changes no slot's contents.
LEMMA DataKeeps ==
    ASSUME NEW s \in Seq(Items), NEW d \in Seq(Cells), Sound(s, d),
           NEW b \in Seq(Cells), NEW off \in Nat, NEW o, Overwritable(d, off, Len(b), o),
           NEW r \in RecIds, r # o
    PROVE  SameSlots(s, d, s, Overlay(d, off, b), r)
<1>1. r # NoRec
  BY BaseAssumption
<1>2. ASSUME NEW p \in 1..Len(s), s[p].rec_id = r, NEW k \in 1..s[p].size
      PROVE  Overlay(d, off, b)[s[p].offset + k] = d[s[p].offset + k]
  <2> DEFINE i == s[p].offset + k
  <2>1. s[p] \in Items
    OBVIOUS
  <2>2. s[p].offset \in Nat /\ s[p].size \in Nat /\ s[p].offset + s[p].size <= Len(d)
    BY <1>1, <1>2, <2>1 DEF Sound, Owns, Items
  <2>3. i \in Extent(s[p]) /\ i \in 1..Len(d)
    BY <2>2 DEF Extent
  <2>4. d[i][1] = r
    BY <1>1, <1>2, <2>3 DEF Sound, Owns
  <2>5. ~(i > off /\ i <= off + Len(b))
    BY <2>3, <2>4 DEF Overwritable
  <2>6. off <= Len(d)
    BY DEF Overwritable
  <2>7. Overlaid(d, off, b, Overlay(d, off, b))
    BY <2>6, OverlayIs, Zenon
  <2>8. i \in 1..Len(Overlay(d, off, b))
    <3>1. Len(Overlay(d, off, b)) >= Len(d) /\ Len(Overlay(d, off, b)) \in Nat
      BY <2>7, Zenon DEF Overlaid
    <3>2. i \in Nat /\ i >= 1 /\ i <= Len(d) /\ Len(d) \in Nat
      BY <2>3
    <3> HIDE DEF i
    <3> QED
      BY ONLY <3>1, <3>2
  <2> HIDE DEF i
  <2>9. Overlay(d, off, b)[i] = IF i > off /\ i <= off + Len(b) THEN b[i - off] ELSE d[i]
    BY <2>7, <2>8, Zenon DEF Overlaid
  <2>10. Overlay(d, off, b)[i] = d[i]
    BY <2>5, <2>9, Zenon
  <2> QED
    BY <2>10, Zenon DEF i
<1> QED
  BY <1>2 DEF SameSlots

-----------------------------------------------------------------------------
(* What a call knows about the chain it is in. *)

\* A slot never used or given up has no link.
Unlinked(s) == \A i \in 1..Len(s) : s[i].rec_id = NoRec => s[i].next = 0

\* A call in progress is a read, or a write of a buffer of its record.
AskedOK == pc # "idle" =>
    /\ op.kind \in {"read", "write"}
    /\ op.kind = "write" => op.buf \in Buffers(op.rec_id)
    /\ pc \in {"data", "index"} => op.kind = "write"

\* The search has come to the slot it is at, past slots of other records.
SearchOK == pc = "walk" =>
    /\ Visits(idx, op.rec_id, CurrentItemPos)
    /\ Item.rec_id \notin {NoRec, op.rec_id} => mishash

\* The item to be written goes to the slot the search came to, and keeps its link.
PlaceOK == pc \in {"data", "index"} =>
    /\ Visits(idx, op.rec_id, CurrentItemPos)
    /\ Item.rec_id = op.rec_id
    /\ CurrentItemPos \in 1..Len(idx) =>
          idx[CurrentItemPos].rec_id \in {NoRec, op.rec_id} /\ idx[CurrentItemPos].next = Item.next

\* Its data are the buffer of the call.
WrittenOK == pc = "index" =>
    /\ Item.size = Len(op.buf)
    /\ \A k \in 1..Len(op.buf) : dat[Item.offset + k] = op.buf[k]

DInv == Unlinked(idx) /\ AskedOK /\ SearchOK /\ PlaceOK /\ WrittenOK

LEMMA InitDInv == Init => DInv
<1> SUFFICES ASSUME Init PROVE DInv
  OBVIOUS
<1>1. Unlinked(HTable)
  <2>1. \A i \in 1..HashPrime : HTable[i] = ZeroItem
    BY DEF HTable
  <2>2. Len(HTable) = HashPrime
    BY BaseAssumption DEF HTable
  <2> QED
    BY <2>1, <2>2 DEF ZeroItem, Unlinked
<1>2. Unlinked(<<>>)
  BY DEF Unlinked
<1>3. Unlinked(idx)
  BY <1>1, <1>2, Zenon DEF Init
<1> QED
  BY <1>3 DEF Init, DInv, AskedOK, SearchOK, PlaceOK, WrittenOK

LEMMA WriteItemUnlinked ==
    ASSUME NEW s \in Seq(Items), NEW p \in Nat, NEW x \in Items, Unlinked(s),
           x.rec_id = NoRec => x.next = 0
    PROVE  Unlinked(WriteItem(s, p, x))
<1> DEFINE w == WriteItem(s, p, x)
<1>1. /\ Len(w) = IF p > Len(s) THEN p ELSE Len(s)
      /\ \A i \in 1..Len(w) : w[i] = IF i = p THEN x ELSE IF i <= Len(s) THEN s[i] ELSE ZeroItem
  BY WriteItemIs DEF Wrote
<1>2. ZeroItem.next = 0
  BY DEF ZeroItem
<1> HIDE DEF w
<1> QED
  BY <1>1, <1>2 DEF Unlinked, w

LEMMA ReturnDInv ==
    ASSUME NEW r, Return(r), Unlinked(idx')
    PROVE  DInv'
BY DEF Return, DInv, Unlinked, AskedOK, SearchOK, PlaceOK, WrittenOK

\* A search that goes on is not at its record and not at an empty slot.
LEMMA WalkingIs ==
    ASSUME IInv, LInv, DInv, Walking
    PROVE  /\ pc = "walk" /\ op.rec_id \in RecIds
           /\ CurrentItemPos \in 1..Len(idx) /\ Item = idx[CurrentItemPos]
           /\ idx[CurrentItemPos].rec_id \notin {NoRec, op.rec_id}
           /\ idx[CurrentItemPos].next # 0
           /\ idx[CurrentItemPos].next \in Nat
<1>1. pc = "walk" /\ Item.next # 0 /\ Item.rec_id # op.rec_id
  BY DEF Walking
<1>2. op.rec_id \in RecIds
  BY <1>1 DEF IInv, CallOK
<1>3. CurrentItemPos \in 1..Len(idx) /\ Item = idx[CurrentItemPos] /\ Item.next \in Nat
  BY <1>1, HeldForward DEF Items
<1>4. Item.rec_id # NoRec
  BY <1>1, <1>3 DEF DInv, Unlinked
<1> QED
  BY <1>1, <1>2, <1>3, <1>4

\* A search that appends is at the last slot of its chain.
LEMMA AppendIs ==
    ASSUME IInv, LInv, DInv, WriteLink
    PROVE  /\ pc = "walk" /\ op.rec_id \in RecIds
           /\ CurrentItemPos \in 1..Len(idx) /\ Item = idx[CurrentItemPos]
           /\ idx[CurrentItemPos].rec_id \notin {NoRec, op.rec_id}
           /\ idx[CurrentItemPos].next = 0
<1>1. pc = "walk" /\ Item.rec_id \notin {NoRec, op.rec_id} /\ ~(mishash /\ Item.next # 0)
  BY DEF WriteLink, Sought
<1>2. op.rec_id \in RecIds
  BY <1>1 DEF IInv, CallOK
<1>3. CurrentItemPos \in 1..Len(idx) /\ Item = idx[CurrentItemPos]
  BY <1>1, HeldForward
<1>4. mishash
  BY <1>1 DEF DInv, SearchOK
<1> QED
  BY <1>1, <1>2, <1>3, <1>4

\* Every step keeps what the call knows, when no record is deleted.
LEMMA NextDInv == ~KeepOpen /\ "delete" \notin Ops /\ IInv /\ LInv /\ DInv /\ [Next]_vars => DInv'
<1> SUFFICES ASSUME ~KeepOpen, "delete" \notin Ops, IInv, LInv, DInv, [Next]_vars PROVE DInv'
  OBVIOUS
<1>1. /\ Unlinked(idx) /\ AskedOK /\ SearchOK /\ PlaceOK /\ WrittenOK
      /\ idx \in Seq(Items) /\ Item \in Items /\ CurrentItemPos \in Nat
  BY DEF DInv, IInv, TypeOK
<1>2. pc # "idle" => op.rec_id \in RecIds
  BY DEF IInv, CallOK
<1>3. ASSUME Start PROVE DInv'
  <2>1. PICK c \in Calls : op' = c
    BY <1>3 DEF Start
  <2>2. c.kind \in {"read", "write"} /\ (c.kind = "write" => c.buf \in Buffers(c.rec_id))
    BY BaseAssumption DEF Calls
  <2>3. pc' = "head" /\ idx' = idx
    BY <1>3 DEF Start, files
  <2> QED
    BY <1>1, <2>1, <2>2, <2>3 DEF DInv, AskedOK, SearchOK, PlaceOK, WrittenOK
<1>4. ASSUME Close PROVE DInv'
  BY <1>1, <1>4 DEF Close, files, cursor, DInv, AskedOK, SearchOK, PlaceOK, WrittenOK
<1>5. ASSUME ReadHead PROVE DInv'
  <2> DEFINE h == Hash[op.rec_id]
  <2>1. /\ idx' = idx /\ pc = "head" /\ pc' = "walk" /\ op' = op
        /\ CurrentItemPos' = h /\ mishash' = (Item'.rec_id \notin {op.rec_id, NoRec})
    BY <1>5 DEF ReadHead, files, LInv
  <2>2. Visits(idx, op.rec_id, h)
    <3>1. Search(idx, op.rec_id)[0] = h
      BY <1>1, <1>2, <2>1, SearchIs DEF Runs
    <3> QED
      BY <3>1 DEF Visits
  <2>3. AskedOK'
    BY <1>1, <2>1 DEF AskedOK
  <2>4. SearchOK'
    BY <2>1, <2>2 DEF SearchOK
  <2> QED
    BY <1>1, <2>1, <2>3, <2>4 DEF DInv, PlaceOK, WrittenOK
<1>6. ASSUME WalkOn PROVE DInv'
  <2>1. /\ idx' = idx /\ pc' = pc /\ op' = op /\ mishash' = mishash /\ mishash /\ Walking
        /\ CurrentItemPos' = Item.next
    BY <1>6 DEF WalkOn, Walking, files
  <2>2. /\ pc = "walk" /\ op.rec_id \in RecIds
        /\ CurrentItemPos \in 1..Len(idx) /\ Item = idx[CurrentItemPos]
        /\ idx[CurrentItemPos].rec_id \notin {NoRec, op.rec_id}
    BY <2>1, WalkingIs
  <2>3. PICK n \in Nat : Search(idx, op.rec_id)[n] = CurrentItemPos
    BY <1>1, <2>2 DEF SearchOK, Visits
  <2>4. Search(idx, op.rec_id)[n + 1] = Item.next
    <3>a. Runs(Follow(idx, op.rec_id), Hash[op.rec_id], Search(idx, op.rec_id))
      <4>1. idx \in Seq(Items)
        BY <1>1
      <4> QED
        BY <2>2, <4>1, SearchIs, Zenon
    <3>1. Search(idx, op.rec_id)[n + 1] = Follow(idx, op.rec_id)[CurrentItemPos]
      BY <2>3, <3>a, Zenon DEF Runs
    <3>2. Follow(idx, op.rec_id)[CurrentItemPos] = idx[CurrentItemPos].next
      BY <1>1, <2>2, FollowIs DEF Follows
    <3> QED
      BY <2>2, <3>1, <3>2
  <2>5. Visits(idx, op.rec_id, Item.next)
    <3>1. n + 1 \in Nat
      OBVIOUS
    <3> QED
      BY <2>4, <3>1 DEF Visits
  <2>6. AskedOK'
    BY <1>1, <2>1 DEF AskedOK
  <2>7. SearchOK'
    BY <2>1, <2>5 DEF SearchOK
  <2> QED
    BY <1>1, <2>1, <2>2, <2>6, <2>7 DEF DInv, PlaceOK, WrittenOK
<1>7. ASSUME WalkRepair PROVE DInv'
  <2>1. Walking
    BY <1>7 DEF WalkRepair
  <2>2. CASE mode = "read"
    <3>1. idx' = idx /\ Return(ERROR)
      BY <1>7, <2>2 DEF WalkRepair, files
    <3> QED
      BY <1>1, <3>1, ReturnDInv
  <2>3. CASE mode # "read"
    <3> DEFINE end == [idx[CurrentItemPos] EXCEPT !.next = 0]
    <3>1. idx' = WriteItem(idx, CurrentItemPos, end) /\ pc' = "head" /\ op' = op
      BY <1>7, <2>3 DEF WalkRepair, LInv
    <3>2. end \in Items /\ end.next = 0
      <4>1. idx[CurrentItemPos] \in Items
        BY <1>1, <2>1, WalkingIs
      <4> QED
        BY <4>1, Relinked
    <3> HIDE DEF end
    <3>3. Unlinked(idx')
      BY <1>1, <3>1, <3>2, WriteItemUnlinked
    <3>4. AskedOK'
      BY <1>1, <2>1, <3>1 DEF AskedOK, Walking
    <3> QED
      BY <3>1, <3>3, <3>4 DEF DInv, SearchOK, PlaceOK, WrittenOK
  <2> QED
    BY <2>2, <2>3
<1>8. ASSUME Read \/ LinkFails \/ IndexFails \/ DataFails \/ Crash PROVE DInv'
  <2>1. idx' = idx
    BY <1>8 DEF Read, LinkFails, IndexFails, DataFails, Crash, files
  <2>2. PICK r : Return(r)
    BY <1>8 DEF Read, LinkFails, IndexFails, DataFails, Crash
  <2> QED
    BY <1>1, <2>1, <2>2, ReturnDInv
<1>9. ASSUME Delete PROVE DInv'
  BY <1>1, <1>9 DEF Delete, Sought, AskedOK
<1>10. ASSUME WriteFound \/ WriteReuse PROVE DInv'
  <2>1. /\ idx' = idx /\ pc = "walk" /\ pc' = "data" /\ op' = op /\ op.kind = "write"
        /\ CurrentItemPos' = CurrentItemPos /\ Item.rec_id \in {NoRec, op.rec_id}
    BY <1>10 DEF WriteFound, WriteReuse, Sought, files
  <2>2. Item'.next = Item.next /\ Item'.rec_id = op.rec_id
    BY <1>1, <1>10 DEF WriteFound, WriteReuse, Items
  <2>3. CurrentItemPos \in 1..Len(idx) => Item = idx[CurrentItemPos]
    BY <2>1, HeldForward
  <2>4. AskedOK'
    BY <1>1, <2>1 DEF AskedOK
  <2>5. PlaceOK'
    BY <1>1, <2>1, <2>2, <2>3 DEF PlaceOK, SearchOK
  <2> QED
    BY <1>1, <2>1, <2>4, <2>5 DEF DInv, SearchOK, WrittenOK
<1>11. ASSUME WriteLink PROVE DInv'
  <2> DEFINE last == [idx[CurrentItemPos] EXCEPT !.next = Len(idx) + 1]
  <2>1. /\ pc = "walk" /\ op.rec_id \in RecIds
        /\ CurrentItemPos \in 1..Len(idx) /\ Item = idx[CurrentItemPos]
        /\ idx[CurrentItemPos].rec_id \notin {NoRec, op.rec_id}
    BY <1>11, AppendIs
  <2>2. /\ pc' = "data" /\ op' = op /\ op.kind = "write"
        /\ idx' = WriteItem(idx, CurrentItemPos, last)
        /\ CurrentItemPos' = Len(idx) + 1
        /\ Item' = [Item EXCEPT !.rec_id = op.rec_id, !.next = 0, !.offset = Len(dat)]
    BY <1>11, <2>1 DEF WriteLink
  <2>3. Item'.rec_id = op.rec_id
    BY <1>1, <2>2 DEF Items
  <2>4. last \in Items /\ last.next = Len(idx) + 1 /\ last.rec_id = idx[CurrentItemPos].rec_id
    <3>1. Len(idx) + 1 \in Nat /\ idx[CurrentItemPos] \in Items
      BY <1>1, <2>1
    <3> QED
      BY <3>1, Relinked
  <2>5. Visits(idx', op.rec_id, Len(idx) + 1)
    BY <1>1, <2>1, <2>2, LinkReaches DEF SearchOK
  <2> HIDE DEF last
  <2>6. Unlinked(idx')
    BY <1>1, <2>1, <2>2, <2>4, WriteItemUnlinked
  <2>7. Len(idx') = Len(idx)
    BY <1>1, <2>1, <2>2, <2>4, WriteItemIs DEF Wrote
  <2>8. PlaceOK'
    BY <1>1, <2>2, <2>3, <2>5, <2>7 DEF PlaceOK
  <2>9. AskedOK'
    BY <1>1, <2>1, <2>2 DEF AskedOK
  <2> QED
    BY <2>2, <2>6, <2>8, <2>9 DEF DInv, SearchOK, WrittenOK
<1>12. ASSUME WriteData PROVE DInv'
  <2>1. /\ idx' = idx /\ pc = "data" /\ pc' = "index" /\ op' = op /\ CurrentItemPos' = CurrentItemPos
        /\ dat' = Overlay(dat, Item.offset, op.buf)
        /\ Item' = [Item EXCEPT !.size = Len(op.buf)]
    BY <1>12 DEF WriteData
  <2>2. /\ Item'.next = Item.next /\ Item'.rec_id = Item.rec_id
        /\ Item'.offset = Item.offset /\ Item'.size = Len(op.buf)
    BY <1>1, <2>1 DEF Items
  <2>3. /\ dat \in Seq(Cells) /\ op.buf \in Seq(Cells) /\ Item.offset \in Nat /\ Item.offset <= Len(dat)
    BY <1>1, <2>1 DEF IInv, TypeOK, CallOK, DataOK, Overwritable, Items
  <2>4. ASSUME NEW k \in 1..Len(op.buf) PROVE dat'[Item.offset + k] = op.buf[k]
    <3>a. Overlaid(dat, Item.offset, op.buf, dat')
      BY <2>1, <2>3, OverlayIs, Zenon
    <3>1. Item.offset + k \in 1..Len(dat') /\ (Item.offset + k) - Item.offset = k
          /\ Item.offset + k > Item.offset /\ Item.offset + k <= Item.offset + Len(op.buf)
      <4>1. Len(dat') >= Item.offset + Len(op.buf) /\ Len(dat') \in Nat
        BY <3>a, Zenon DEF Overlaid
      <4> QED
        BY <2>3, <4>1
    <3>2. \A i \in 1..Len(dat') : dat'[i] = IF i > Item.offset /\ i <= Item.offset + Len(op.buf)
                                            THEN op.buf[i - Item.offset] ELSE dat[i]
      BY <3>a, Zenon DEF Overlaid
    <3> QED
      BY <3>1, <3>2
  <2>5. WrittenOK'
    BY <2>1, <2>2, <2>4 DEF WrittenOK
  <2>6. PlaceOK'
    BY <1>1, <2>1, <2>2 DEF PlaceOK
  <2>7. AskedOK'
    BY <1>1, <2>1 DEF AskedOK
  <2> QED
    BY <1>1, <2>1, <2>5, <2>6, <2>7 DEF DInv, SearchOK
<1>13. ASSUME WriteIndex PROVE DInv'
  <2>1. pc = "index" /\ idx' = WriteItem(idx, CurrentItemPos, Item) /\ Return(OK)
    BY <1>13 DEF WriteIndex
  <2>2. Item.rec_id # NoRec
    BY <1>1, <1>2, <2>1, BaseAssumption DEF PlaceOK
  <2>3. Unlinked(idx')
    BY <1>1, <2>1, <2>2, WriteItemUnlinked
  <2> QED
    BY <2>1, <2>3, ReturnDInv
<1>14. ASSUME UNCHANGED vars PROVE DInv'
  BY <1>1, <1>14 DEF vars, DInv, AskedOK, SearchOK, PlaceOK, WrittenOK
<1> QED
  BY <1>3, <1>4, <1>5, <1>6, <1>7, <1>8, <1>9, <1>10, <1>11, <1>12, <1>13, <1>14 DEF Next, Step

-----------------------------------------------------------------------------
(* The refinement. *)

\* What a search finds, of the files before and after a step.
LEMMA FilesNow ==
    ASSUME NEW r
    PROVE  (Found(r) <=> FoundIn(idx, dat, r)) /\ Lookup(r) = LookupIn(idx, dat, r)
<1>1. SlotAt(r) = Search(idx, r)
  BY Zenon DEF SlotAt, Search, Orbit, Following, Follow
<1> QED
  BY <1>1 DEF Found, FoundIn, Readable, Lookup, LookupIn, Content, Contents

LEMMA FilesNext ==
    ASSUME NEW r
    PROVE  (Found(r)' <=> FoundIn(idx', dat', r)) /\ Lookup(r)' = LookupIn(idx', dat', r)
<1>1. SlotAt(r)' = Search(idx', r)
  BY Zenon DEF SlotAt, Search, Orbit, Following, Follow
<1> QED
  BY <1>1 DEF Found, FoundIn, Readable, Lookup, LookupIn, Content, Contents

\* What a step leaves as it is.
AsBefore(r) == (Found(r)' <=> Found(r)) /\ (Found(r) => Lookup(r)' = Lookup(r))

LEMMA Untouched ==
    ASSUME idx' = idx, dat' = dat, NEW r
    PROVE  AsBefore(r)
BY FilesNow, FilesNext DEF AsBefore

LEMMA SlotsKept ==
    ASSUME IInv, IInv', LInv, LInv', NEW r \in RecIds, SameSlots(idx, dat, idx', dat', r)
    PROVE  AsBefore(r)
<1>1. /\ idx \in Seq(Items) /\ dat \in Seq(Cells) /\ Forward(idx) /\ Sound(idx, dat)
      /\ idx' \in Seq(Items) /\ dat' \in Seq(Cells) /\ Forward(idx') /\ Sound(idx', dat')
  BY DEF IInv, TypeOK, OwnData, Sound, LInv, LinksForward, Forward
<1> QED
  BY <1>1, SameLookup, FilesNow, FilesNext DEF AsBefore

\* Nobody deletes, so a change of the dictionary is a write.
NoDelete == op.kind # "delete"

LEMMA InitNoDelete == Init => NoDelete
BY DEF Init, NoOp, NoDelete

LEMMA NextNoDelete ==
    ASSUME NoDelete, [Next]_vars, "delete" \notin Ops
    PROVE  NoDelete'
<1>1. ASSUME Start PROVE NoDelete'
  BY <1>1 DEF Start, Calls, NoDelete
<1>2. ASSUME NEW r, Return(r) PROVE NoDelete'
  BY <1>2 DEF Return, NoOp, NoDelete
<1>3. ASSUME op' = op PROVE NoDelete'
  BY <1>3 DEF NoDelete
<1>4. Close \/ WalkOn \/ WriteFound \/ WriteReuse \/ WriteLink \/ WriteData \/ UNCHANGED vars => op' = op
  BY DEF Close, WalkOn, WriteFound, WriteReuse, WriteLink, WriteData, vars
<1>5. ReadHead \/ WalkRepair => op' = op \/ \E r : Return(r)
  BY DEF ReadHead, WalkRepair
<1>6. Read \/ Delete \/ WriteIndex \/ DataFails \/ LinkFails \/ IndexFails \/ Crash => \E r : Return(r)
  BY DEF Read, Delete, WriteIndex, DataFails, LinkFails, IndexFails, Crash
<1> QED
  BY <1>1, <1>2, <1>3, <1>4, <1>5, <1>6 DEF Next, Step

LEMMA ChangeIs ==
    ASSUME NoDelete
    PROVE  Change = IF InWrite THEN [rec_id |-> op.rec_id, buf |-> op.buf] ELSE NoOp
BY DEF Change, NoDelete

LEMMA ChangeNext ==
    ASSUME NoDelete'
    PROVE  Change' = IF InWrite' THEN [rec_id |-> op'.rec_id, buf |-> op'.buf] ELSE NoOp
BY DEF Change, NoDelete

\* The steps of the dictionary, by what happens to the write in progress.
LEMMA Stutters ==
    ASSUME Change' = Change, InWrite' = InWrite, InWrite => op' = op,
           \A r \in RecIds : (InWrite /\ op.rec_id = r) \/ AsBefore(r)
    PROVE  UNCHANGED <<Stored, Change>>
<1>1. Stored' = Stored
  BY DEF Stored, AsBefore
<1> QED
  BY <1>1

LEMMA Begins ==
    ASSUME NoDelete, NoDelete', ~InWrite, InWrite', op' = op, op.rec_id \in RecIds, op.buf \in Buffers(op.rec_id),
           \A r \in RecIds : r # op.rec_id => AsBefore(r)
    PROVE  Promise!Begin(op.rec_id)
<1>1. Change = NoOp /\ Change' = [rec_id |-> op.rec_id, buf |-> op.buf]
  BY ChangeIs, ChangeNext
<1>2. Stored' = [Stored EXCEPT ![op.rec_id] = <<>>]
  BY DEF Stored, AsBefore
<1> QED
  BY <1>1, <1>2 DEF Promise!Begin, Promise!Change

LEMMA Commits ==
    ASSUME NoDelete, NoDelete', InWrite, ~InWrite', NEW o \in RecIds, o = op.rec_id, Found(o)', Lookup(o)' = op.buf,
           \A r \in RecIds : r # o => AsBefore(r)
    PROVE  Promise!Commit(o)
<1>1. Change = [rec_id |-> o, buf |-> op.buf] /\ Change' = NoOp
  BY ChangeIs, ChangeNext
<1>2. Change # NoOp /\ Change.rec_id = o /\ Change.buf = op.buf
  BY <1>1, BaseAssumption DEF NoOp
<1>3. Stored' = [Stored EXCEPT ![o] = op.buf]
  <2>1. Stored' = [r \in RecIds |-> IF Found(r)' THEN Lookup(r)' ELSE <<>>]
    BY DEF Stored
  <2>2. Stored = [r \in RecIds |-> IF Found(r) /\ o # r THEN Lookup(r) ELSE <<>>]
    BY DEF Stored
  <2>3. ASSUME NEW r \in RecIds PROVE Stored'[r] = IF r = o THEN op.buf ELSE Stored[r]
    <3>1. CASE r = o
      BY <2>1, <3>1
    <3>2. CASE r # o
      BY <2>1, <2>2, <3>2 DEF AsBefore
    <3> QED
      BY <3>1, <3>2
  <2> QED
    BY <2>1, <2>2, <2>3
<1> QED
  BY <1>1, <1>2, <1>3 DEF Promise!Commit

LEMMA Spoils ==
    ASSUME NoDelete, NoDelete', InWrite, ~InWrite', op.rec_id \in RecIds, op.buf # <<>>,
           \A r \in RecIds : r # op.rec_id => AsBefore(r)
    PROVE  Promise!Spoil(op.rec_id)
<1>1. Change = [rec_id |-> op.rec_id, buf |-> op.buf] /\ Change' = NoOp
  BY ChangeIs, ChangeNext
<1>2. Change # NoOp /\ Change.rec_id = op.rec_id /\ Change.buf # <<>>
  BY <1>1, BaseAssumption DEF NoOp
<1>3. Stored' = [Stored EXCEPT ![op.rec_id] = Stored'[op.rec_id]]
  BY DEF Stored, AsBefore
<1> QED
  BY <1>1, <1>2, <1>3 DEF Promise!Spoil

\* A write of data, whole or cut short, is seen in no other record.
LEMMA DataUnseen ==
    ASSUME IInv, IInv', LInv, LInv', pc = "data", NEW b \in Seq(Cells), Len(b) <= Len(op.buf),
           dat' = Overlay(dat, Item.offset, b), idx' = idx, NEW r \in RecIds, r # op.rec_id
    PROVE  AsBefore(r)
<1>1. /\ idx \in Seq(Items) /\ dat \in Seq(Cells) /\ Sound(idx, dat) /\ op.buf \in Seq(Cells)
      /\ Item.offset \in Nat /\ Overwritable(dat, Item.offset, Len(op.buf), op.rec_id)
  BY DEF IInv, TypeOK, OwnData, Sound, CallOK, DataOK, Items
<1>2. Overwritable(dat, Item.offset, Len(b), op.rec_id)
  <2>1. Len(b) \in Nat /\ Len(op.buf) \in Nat
    BY <1>1
  <2> DEFINE n == Len(b)
             m == Len(op.buf)
             off == Item.offset
             o == op.rec_id
  <2>2. n \in Nat /\ m \in Nat /\ n <= m /\ off \in Nat
    BY <1>1, <2>1
  <2>3. Overwritable(dat, off, m, o)
    BY <1>1
  <2> HIDE DEF n, m, off, o
  <2>4. Overwritable(dat, off, n, o)
    BY <2>2, <2>3 DEF Overwritable
  <2> QED
    BY <2>4 DEF n, off, o
<1>3. SameSlots(idx, dat, idx', dat', r)
  BY <1>1, <1>2, DataKeeps
<1> QED
  BY <1>3, SlotsKept

\* A step of a call leaves every record as it is, but for the one being written.
LEMMA StepKeeps ==
    ASSUME IInv, IInv', LInv, LInv', DInv, [Next]_vars, ~KeepOpen, "delete" \notin Ops,
           NEW r \in RecIds, ~((InWrite \/ InWrite') /\ op.rec_id = r)
    PROVE  AsBefore(r)
<1>1. /\ idx \in Seq(Items) /\ dat \in Seq(Cells) /\ Item \in Items /\ CurrentItemPos \in Nat
      /\ Unlinked(idx) /\ AskedOK /\ PlaceOK
  BY DEF IInv, TypeOK, DInv
<1>2. ASSUME UNCHANGED <<idx, dat>> PROVE AsBefore(r)
  BY <1>2, Untouched
<1>3. ASSUME Start \/ Close \/ ReadHead \/ WalkOn \/ Read \/ WriteFound \/ WriteReuse
             \/ LinkFails \/ IndexFails \/ Crash \/ UNCHANGED vars
      PROVE  AsBefore(r)
  BY <1>2, <1>3 DEF Start, Close, ReadHead, WalkOn, Read, WriteFound, WriteReuse, LinkFails,
                    IndexFails, Crash, vars, files
<1>4. ASSUME Delete PROVE AsBefore(r)
  BY <1>1, <1>4 DEF Delete, Sought, AskedOK
<1>5. ASSUME WalkRepair PROVE AsBefore(r)
  <2>1. Walking /\ Item.next > Len(idx)
    BY <1>5 DEF WalkRepair
  <2>2. CASE mode = "read"
    BY <1>2, <1>5, <2>2 DEF WalkRepair, files
  <2>3. CASE mode # "read"
    <3>1. idx' = WriteItem(idx, CurrentItemPos, [idx[CurrentItemPos] EXCEPT !.next = 0]) /\ dat' = dat
      BY <1>5, <2>3 DEF WalkRepair
    <3>2. CurrentItemPos \in 1..Len(idx) /\ idx[CurrentItemPos].next \notin 1..Len(idx)
      BY <2>1, WalkingIs
    <3>3. 0 \in Nat /\ 0 \notin 1..Len(idx)
      OBVIOUS
    <3>4. SameSlots(idx, dat, idx', dat', r)
      BY <1>1, <3>1, <3>2, <3>3, LinkKeeps
    <3> QED
      BY <3>4, SlotsKept
  <2> QED
    BY <2>2, <2>3
<1>6. ASSUME WriteLink PROVE AsBefore(r)
  <2>1. CurrentItemPos \in 1..Len(idx) /\ Item = idx[CurrentItemPos] /\ idx[CurrentItemPos].next = 0
    BY <1>6, AppendIs
  <2>2. idx' = WriteItem(idx, CurrentItemPos, [idx[CurrentItemPos] EXCEPT !.next = Len(idx) + 1]) /\ dat' = dat
    BY <1>6, <2>1 DEF WriteLink
  <2>3. Len(idx) + 1 \in Nat /\ Len(idx) + 1 \notin 1..Len(idx) /\ idx[CurrentItemPos].next \notin 1..Len(idx)
    BY <1>1, <2>1
  <2>4. SameSlots(idx, dat, idx', dat', r)
    BY <1>1, <2>1, <2>2, <2>3, LinkKeeps
  <2> QED
    BY <2>4, SlotsKept
<1>7. ASSUME WriteData PROVE AsBefore(r)
  <2>1. pc = "data" /\ idx' = idx /\ dat' = Overlay(dat, Item.offset, op.buf) /\ r # op.rec_id
    BY <1>7 DEF WriteData, InWrite
  <2>2. op.buf \in Seq(Cells) /\ Len(op.buf) <= Len(op.buf)
    BY <2>1 DEF IInv, CallOK
  <2> QED
    BY <2>1, <2>2, DataUnseen
<1>8. ASSUME DataFails PROVE AsBefore(r)
  <2>1. pc = "data" /\ idx' = idx /\ r # op.rec_id /\ op.buf \in Seq(Cells)
    BY <1>8 DEF DataFails, InWrite, IInv, CallOK
  <2>2. PICK n \in 0..(Len(op.buf) - 1) : dat' = Overlay(dat, Item.offset, SubSeq(op.buf, 1, n))
    BY <1>8 DEF DataFails
  <2>3. SubSeq(op.buf, 1, n) \in Seq(Cells) /\ Len(SubSeq(op.buf, 1, n)) <= Len(op.buf)
    BY <2>1, <2>2
  <2> QED
    BY <2>1, <2>2, <2>3, DataUnseen
<1>9. ASSUME WriteIndex PROVE AsBefore(r)
  <2>1. pc = "index" /\ idx' = WriteItem(idx, CurrentItemPos, Item) /\ dat' = dat /\ r # op.rec_id
    BY <1>9 DEF WriteIndex, InWrite
  <2>2. op.rec_id \in RecIds /\ op.rec_id # NoRec /\ r # NoRec
    BY <2>1, BaseAssumption DEF IInv, CallOK
  <2>3. Item.rec_id \notin {NoRec, r} /\ CurrentItemPos >= 1
    BY <1>1, <2>1, <2>2 DEF PlaceOK, LInv, LinkOK
  <2>4. CurrentItemPos <= Len(idx) =>
           idx[CurrentItemPos].rec_id # r /\ idx[CurrentItemPos].next = Item.next
    BY <1>1, <2>1, <2>2, <2>3 DEF PlaceOK
  <2>5. CurrentItemPos <= Len(idx) /\ idx[CurrentItemPos].rec_id = NoRec => idx[CurrentItemPos].next = 0
    BY <1>1, <2>3 DEF Unlinked
  <2>6. CurrentItemPos > Len(idx) => Item.next = 0
    BY <1>1, <2>1 DEF LInv, LinkOK
  <2>7. SameSlots(idx, dat, idx', dat', r)
    BY <1>1, <2>1, <2>3, <2>4, <2>5, <2>6, SlotKeeps
  <2> QED
    BY <2>7, SlotsKept
<1> QED
  BY <1>3, <1>4, <1>5, <1>6, <1>7, <1>8, <1>9 DEF Next, Step

\* The slot written last makes the record found, with the buffer of the call.
LEMMA Written ==
    ASSUME IInv, IInv', LInv, LInv', DInv, pc = "index", NEW o, o = op.rec_id,
           idx' = WriteItem(idx, CurrentItemPos, Item), dat' = dat
    PROVE  Found(o)' /\ Lookup(o)' = op.buf
<1> DEFINE p == CurrentItemPos
<1>1. /\ idx \in Seq(Items) /\ Item \in Items /\ p \in Nat /\ p >= 1
      /\ o \in RecIds /\ op.buf \in Seq(Cells)
      /\ Item.rec_id = o /\ Visits(idx, o, p)
      /\ Item.size = Len(op.buf) /\ \A k \in 1..Len(op.buf) : dat[Item.offset + k] = op.buf[k]
  BY DEF IInv, TypeOK, CallOK, LInv, LinkOK, DInv, PlaceOK, WrittenOK
<1>2. /\ idx' \in Seq(Items) /\ dat' \in Seq(Cells) /\ Forward(idx') /\ Sound(idx', dat')
  BY DEF IInv, TypeOK, OwnData, Sound, LInv, LinksForward, Forward
<1>3. Visits(idx', o, p)
  BY <1>1, SlotReaches
<1>4. p \in 1..Len(idx') /\ idx'[p] = Item
  <2>a. Wrote(idx, p, Item, idx')
    <3>1. idx \in Seq(Items) /\ Item \in Items /\ p \in Nat
      BY <1>1
    <3> QED
      BY <3>1, WriteItemIs, Zenon
  <2>1. Len(idx') = IF p > Len(idx) THEN p ELSE Len(idx)
    BY <2>a, Zenon DEF Wrote
  <2>2. p \in 1..Len(idx')
    BY <1>1, <2>1
  <2> QED
    BY <2>2, <2>a, Zenon DEF Wrote
<1>5. FoundIn(idx', dat', o) /\ LookupIn(idx', dat', o) = Contents(Item, dat)
  BY <1>1, <1>2, <1>3, <1>4, FoundThere
<1>6. Contents(Item, dat) = op.buf
  BY <1>1 DEF Contents
<1> QED
  BY <1>5, <1>6, FilesNext

\* Every step of the file is a step of the dictionary or none.
LEMMA NextPromise ==
    ASSUME IInv, IInv', LInv, LInv', DInv, DInv', NoDelete, NoDelete', [Next]_vars, ~KeepOpen, "delete" \notin Ops
    PROVE  [Promise!Next]_<<Stored, Change>>
<1>1. \A r \in RecIds : ((InWrite \/ InWrite') /\ op.rec_id = r) \/ AsBefore(r)
  BY StepKeeps
<1>2. pc # "idle" => op.rec_id \in RecIds
  BY DEF IInv, CallOK
<1>3. ASSUME ~InWrite, ~InWrite' PROVE UNCHANGED <<Stored, Change>>
  <2>1. Change' = Change
    BY <1>3, ChangeIs, ChangeNext
  <2>2. \A r \in RecIds : (InWrite /\ op.rec_id = r) \/ AsBefore(r)
    BY <1>1, <1>3
  <2>3. InWrite' = InWrite
    BY <1>3 DEF InWrite
  <2> QED
    BY <1>3, <2>1, <2>2, <2>3, Stutters
<1>4. ASSUME InWrite, InWrite', op' = op PROVE UNCHANGED <<Stored, Change>>
  <2>1. Change' = Change
    BY <1>4, ChangeIs, ChangeNext
  <2>2. \A r \in RecIds : (InWrite /\ op.rec_id = r) \/ AsBefore(r)
    BY <1>1, <1>4
  <2> QED
    BY <1>4, <2>1, <2>2, Stutters
<1>5. ASSUME Start \/ Close \/ ReadHead \/ WalkOn \/ WalkRepair \/ Read \/ Delete \/ LinkFails
      PROVE  ~InWrite /\ ~InWrite'
  BY <1>5 DEF Start, Close, ReadHead, WalkOn, WalkRepair, Walking, Sought, Read, Delete, LinkFails,
              InWrite, Return
<1>6. ASSUME WriteFound \/ WriteReuse \/ WriteLink PROVE Promise!Next
  <2>1. pc = "walk" /\ pc' = "data" /\ op' = op /\ op.kind = "write"
    BY <1>6 DEF WriteFound, WriteReuse, WriteLink, Sought
  <2>2. op.rec_id \in RecIds /\ op.buf \in Buffers(op.rec_id)
    BY <1>2, <2>1 DEF DInv, AskedOK
  <2>3. ~InWrite /\ InWrite'
    BY <2>1 DEF InWrite
  <2>4. \A r \in RecIds : r # op.rec_id => AsBefore(r)
    BY <1>1
  <2>5. Promise!Begin(op.rec_id)
    BY <2>1, <2>2, <2>3, <2>4, Begins
  <2> QED
    BY <2>2, <2>5 DEF Promise!Next
<1>7. ASSUME WriteData PROVE UNCHANGED <<Stored, Change>>
  <2>1. InWrite /\ InWrite' /\ op' = op
    BY <1>7 DEF WriteData, InWrite
  <2> QED
    BY <1>4, <2>1
<1>8. ASSUME WriteIndex PROVE Promise!Next
  <2>1. pc = "index" /\ idx' = WriteItem(idx, CurrentItemPos, Item) /\ dat' = dat /\ pc' = "idle"
    BY <1>8 DEF WriteIndex, Return
  <2>2. InWrite /\ ~InWrite' /\ op.rec_id \in RecIds
    BY <1>2, <2>1 DEF InWrite
  <2>3. \A r \in RecIds : r # op.rec_id => AsBefore(r)
    BY <1>1
  <2>4. ASSUME NEW o \in RecIds, o = op.rec_id PROVE Promise!Commit(o)
    <3>1. Found(o)' /\ Lookup(o)' = op.buf
      BY <2>1, <2>4, Written
    <3> QED
      BY <2>2, <2>3, <2>4, <3>1, Commits
  <2> QED
    BY <2>2, <2>4 DEF Promise!Next
<1>9. ASSUME DataFails \/ IndexFails \/ Crash PROVE [Promise!Next]_<<Stored, Change>>
  <2>1. pc' = "idle" /\ ~InWrite'
    BY <1>9 DEF DataFails, IndexFails, Crash, Return, InWrite
  <2>2. CASE ~InWrite
    BY <1>3, <2>1, <2>2
  <2>3. CASE InWrite
    <3>1. op.rec_id \in RecIds /\ op.buf # <<>>
      <4>1. pc # "idle" /\ op.buf \in Buffers(op.rec_id)
        BY <2>3 DEF InWrite, DInv, AskedOK
      <4>2. PICK v \in Versions, n \in 1..MaxSize : op.buf = Buffer(op.rec_id, v, n)
        BY <4>1 DEF Buffers
      <4>3. n \in Nat /\ n >= 1
        BY BaseAssumption
      <4>4. Len(op.buf) = n
        BY <4>2, <4>3 DEF Buffer
      <4> QED
        BY <1>2, <4>1, <4>3, <4>4
    <3>2. \A r \in RecIds : r # op.rec_id => AsBefore(r)
      BY <1>1
    <3>3. Promise!Spoil(op.rec_id)
      BY <2>1, <2>3, <3>1, <3>2, Spoils
    <3> QED
      BY <3>1, <3>3 DEF Promise!Next
  <2> QED
    BY <2>2, <2>3
<1>10. ASSUME UNCHANGED vars PROVE UNCHANGED <<Stored, Change>>
  <2>1. InWrite' = InWrite /\ op' = op
    BY <1>10 DEF vars, InWrite
  <2> QED
    BY <1>3, <1>4, <2>1
<1> QED
  BY <1>3, <1>5, <1>6, <1>7, <1>8, <1>9, <1>10 DEF Next, Step

\* At first nothing is stored.
LEMMA InitPromise == Init => Promise!Init
<1> SUFFICES ASSUME Init PROVE Promise!Init
  OBVIOUS
<1>1. ASSUME NEW p \in 1..Len(idx) PROVE idx[p] = ZeroItem
  <2>1. idx = HTable
    BY <1>1 DEF Init
  <2>2. Len(HTable) = HashPrime
    BY BaseAssumption DEF HTable
  <2> QED
    BY <1>1, <2>1, <2>2 DEF HTable
<1>2. ASSUME NEW r \in RecIds PROVE ~Found(r)
  BY <1>1, <1>2, BaseAssumption DEF Found, ZeroItem
<1>3. Stored = [r \in RecIds |-> <<>>]
  BY <1>2 DEF Stored
<1>4. Change = NoOp
  BY InitNoDelete, ChangeIs DEF Init, InWrite
<1> QED
  BY <1>3, <1>4 DEF Promise!Init

\* The hash table file is a dictionary: a write is seen whole or not at all,
\* and whatever fails or dies, no record but the one a write is about changes.
THEOREM FilesAreDictionary ==
    ASSUME ~KeepOpen, "delete" \notin Ops
    PROVE  Spec => Dictionary
<1> DEFINE Inv == IInv /\ LInv /\ DInv /\ NoDelete
<1>1. Init => Inv
  BY InitIInv, InitLInv, InitDInv, InitNoDelete
<1>2. Inv /\ [Next]_vars => Inv'
  BY NextIInv, NextLInv, NextDInv, NextNoDelete
<1>3. Inv /\ Inv' /\ [Next]_vars => [Promise!Next]_<<Stored, Change>>
  BY NextPromise
<1> HIDE DEF Inv
<1> QED
  BY <1>1, <1>2, <1>3, InitPromise, PTL DEF Spec, Dictionary, Promise!Spec

-----------------------------------------------------------------------------
(* The answers. *)

\* A search that leaves the file has not come to a slot of its record, and will not.
LEMMA SearchFails ==
    ASSUME NEW s \in Seq(Items), NEW r \in RecIds, NEW n \in Nat, Search(s, r)[n] \notin 1..Len(s),
           NEW q \in 1..Len(s), s[q].rec_id = r
    PROVE  ~Visits(s, r, q)
<1> DEFINE F == Follow(s, r)
           f == Search(s, r)
           D == {i \in Nat : i \notin 1..Len(s)}
<1>1. F \in [Nat -> Nat] /\ Hash[r] \in Nat /\ f \in [Nat -> Nat]
  BY FollowIs, SearchIs DEF Follows, Runs
<1>2. \A i \in D : F[i] \in D
  <2>1. 0 \in D /\ \A i \in D : F[i] = 0
    BY FollowIs DEF Follows
  <2> QED
    BY <2>1
<1>3. \A i \in {q} : F[i] \in {q}
  BY FollowIs DEF Follows
<1>4. f[n] \in D /\ q \notin D
  BY <1>1
<1> SUFFICES ASSUME NEW m \in Nat, f[m] = q PROVE FALSE
  BY DEF Visits
<1>5. CASE m >= n
  <2>1. f[m] \in D
    <3> HIDE DEF D
    <3> QED
      BY <1>1, <1>2, <1>4, <1>5, OrbitStays DEF Search
  <2> QED
    BY <1>4, <2>1
<1>6. CASE n >= m
  <2>1. f[n] \in {q}
    BY <1>1, <1>3, <1>6, OrbitStays DEF Search
  <2> QED
    BY <1>4, <2>1
<1> QED
  BY <1>5, <1>6

\* A search that cannot go on from a slot that is not its record's has no record to find.
LEMMA NotThere ==
    ASSUME IInv, LInv, DInv, pc = "walk", Item.rec_id # op.rec_id,
           Item.rec_id = NoRec \/ Item.next \notin 1..Len(idx),
           NEW o, o = op.rec_id
    PROVE  ~Found(o)
<1>1. /\ idx \in Seq(Items) /\ dat \in Seq(Cells) /\ o \in RecIds
      /\ Forward(idx) /\ Sound(idx, dat) /\ Unlinked(idx) /\ Visits(idx, o, CurrentItemPos)
  BY DEF IInv, TypeOK, CallOK, OwnData, Sound, LInv, LinksForward, Forward, DInv, SearchOK
<1>2. PICK n \in Nat : Search(idx, o)[n] = CurrentItemPos
  BY <1>1 DEF Visits
<1>3. \E m \in Nat : Search(idx, o)[m] \notin 1..Len(idx)
  <2>1. CASE CurrentItemPos \notin 1..Len(idx)
    BY <1>2, <2>1
  <2>2. CASE CurrentItemPos \in 1..Len(idx)
    <3>1. Item = idx[CurrentItemPos] /\ Item.rec_id # o
      BY <2>2, HeldForward
    <3>2. Item.next \notin 1..Len(idx)
      BY <1>1, <2>2, <3>1 DEF Unlinked
    <3>3. Search(idx, o)[n + 1] = Follow(idx, o)[CurrentItemPos]
      BY <1>1, <1>2, SearchIs DEF Runs
    <3>4. Follow(idx, o)[CurrentItemPos] \in {0, Item.next}
      BY <1>1, <2>2, <3>1, FollowIs DEF Follows
    <3>5. n + 1 \in Nat /\ Search(idx, o)[n + 1] \notin 1..Len(idx)
      BY <3>2, <3>3, <3>4
    <3> QED
      BY <3>5
  <2> QED
    BY <2>1, <2>2
<1>4. \A p \in 1..Len(idx) : idx[p].rec_id = o => ~Visits(idx, o, p)
  BY <1>1, <1>3, SearchFails
<1>5. ~FoundIn(idx, dat, o)
  BY <1>1, <1>4, FoundThere
<1> QED
  BY <1>5, FilesNow

\* A search that ends at its record has found it, and holds its item.
LEMMA IsThere ==
    ASSUME IInv, LInv, DInv, pc = "walk", NEW o, o = op.rec_id, Item.rec_id = o
    PROVE  Found(o) /\ Lookup(o) = Content(Item) /\ Readable(Item)
<1>1. /\ idx \in Seq(Items) /\ dat \in Seq(Cells) /\ o \in RecIds /\ o # NoRec
      /\ Forward(idx) /\ Sound(idx, dat) /\ Visits(idx, o, CurrentItemPos)
  BY BaseAssumption
     DEF IInv, TypeOK, CallOK, OwnData, Sound, LInv, LinksForward, Forward, DInv, SearchOK
<1>2. CurrentItemPos \in 1..Len(idx) /\ Item = idx[CurrentItemPos]
  BY <1>1, HeldForward
<1>3. FoundIn(idx, dat, o) /\ LookupIn(idx, dat, o) = Contents(Item, dat)
  BY <1>1, <1>2, FoundThere
<1>4. Readable(Item)
  BY <1>1, <1>2 DEF Sound, Owns, Readable
<1>5. Contents(Item, dat) = Content(Item)
  BY DEF Contents, Content
<1> QED
  BY <1>3, <1>4, <1>5, FilesNow

\* The answers of a step are true.
LEMMA NextAnswers ==
    ASSUME IInv, IInv', LInv, LInv', DInv, [Next]_vars, ~KeepOpen, "delete" \notin Ops,
           NEW o \in RecIds
    PROVE  Answer(o)
<1> SUFFICES ASSUME o = op.rec_id, ret = PENDING, ret' # PENDING
             PROVE  CASE op.kind = "read"   -> ret' = IF Found(o) THEN Got(Lookup(o)) ELSE ERROR
                      [] op.kind = "write"  -> ret' = OK /\ ("index" \in Faults => idx' # idx) =>
                                                   Found(o)' /\ Lookup(o)' = op.buf
                      [] op.kind = "delete" -> ret' = OK => ~Found(o)'
  BY DEF Answer
<1>1. AskedOK
  BY DEF DInv
<1>2. OK # ERROR
  BY DEF OK, ERROR
<1>3. ASSUME Read PROVE op.kind = "read" /\ ret' = IF Found(o) THEN Got(Lookup(o)) ELSE ERROR
  <2>1. /\ pc = "walk" /\ op.kind = "read"
        /\ ret' = IF Item.rec_id = op.rec_id /\ Readable(Item) THEN Got(Content(Item)) ELSE ERROR
        /\ ~(mishash /\ Item.next # 0 /\ Item.rec_id # op.rec_id)
    BY <1>3 DEF Read, Sought, Return
  <2>2. CASE Item.rec_id = o
    BY <2>1, <2>2, IsThere
  <2>3. CASE Item.rec_id # o
    <3>1. Item.rec_id = NoRec \/ Item.next = 0
      BY <2>1, <2>3 DEF DInv, SearchOK
    <3>2. Item.rec_id = NoRec \/ Item.next \notin 1..Len(idx)
      BY <3>1
    <3>3. ~Found(o)
      BY <2>1, <2>3, <3>2, NotThere
    <3> QED
      BY <2>1, <2>3, <3>3
  <2> QED
    BY <2>2, <2>3
<1>4. ASSUME WalkRepair PROVE ~Found(o) /\ ret' = ERROR
  <2>1. Walking /\ Item.next > Len(idx)
    BY <1>4 DEF WalkRepair
  <2>2. ret' = ERROR
    BY <1>4 DEF WalkRepair, Return
  <2>3. pc = "walk" /\ Item.rec_id # op.rec_id /\ Item.next \notin 1..Len(idx)
    BY <2>1 DEF Walking
  <2> QED
    BY <2>2, <2>3, NotThere
<1>5. ASSUME DataFails \/ LinkFails PROVE op.kind = "write" /\ ret' = ERROR
  BY <1>1, <1>5 DEF DataFails, LinkFails, Sought, Return, AskedOK
<1>6. ASSUME IndexFails PROVE op.kind = "write" /\ "index" \in Faults /\ idx' = idx
  BY <1>1, <1>6 DEF IndexFails, files, AskedOK
<1>7. ASSUME WriteIndex PROVE op.kind = "write" /\ Found(o)' /\ Lookup(o)' = op.buf
  <2>1. pc = "index" /\ idx' = WriteItem(idx, CurrentItemPos, Item) /\ dat' = dat /\ op.kind = "write"
    BY <1>1, <1>7 DEF WriteIndex, AskedOK
  <2> QED
    BY <2>1, Written
<1>8. ASSUME Delete PROVE FALSE
  BY <1>1, <1>8 DEF Delete, Sought, AskedOK
<1>9. ASSUME Start \/ Close \/ ReadHead \/ WalkOn \/ WriteFound \/ WriteReuse \/ WriteLink \/ WriteData
             \/ Crash \/ UNCHANGED vars
      PROVE FALSE
  BY <1>9 DEF Start, Close, ReadHead, WalkOn, WriteFound, WriteReuse, WriteLink, WriteData, Crash,
              Return, vars, LInv
<1>10. pc # "idle" => op.kind \in {"read", "write"}
  BY <1>1 DEF AskedOK
<1>11. WalkRepair => pc # "idle"
  BY DEF WalkRepair, Walking
<1> QED
  BY <1>2, <1>3, <1>4, <1>5, <1>6, <1>7, <1>8, <1>9, <1>10, <1>11 DEF Next, Step

\* A call that answers tells the truth about the files.
THEOREM AnswersTrue ==
    ASSUME ~KeepOpen, "delete" \notin Ops
    PROVE  Spec => Answers
<1> DEFINE Inv == IInv /\ LInv /\ DInv
<1>1. Init => Inv
  BY InitIInv, InitLInv, InitDInv
<1>2. Inv /\ [Next]_vars => Inv'
  BY NextIInv, NextLInv, NextDInv
<1>3. Inv /\ Inv' /\ [Next]_vars => [\A r \in RecIds : Answer(r)]_vars
  BY NextAnswers
<1> HIDE DEF Inv
<1> QED
  BY <1>1, <1>2, <1>3, PTL DEF Spec, Answers
=============================================================================
