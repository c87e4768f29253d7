---------------------------- MODULE BaseOptimize ----------------------------
(***************************************************************************)
(* DpsBaseOptimize of src/src/base.c beside the calls of Base on one file  *)
(* pair.  It keeps the exclusive lock from its DpsBaseOpen to its          *)
(* DpsBaseClose, so no call runs meanwhile, but its process may die: it    *)
(* moves the buffers together in the data file first, and only then cuts   *)
(* the index file down and builds it anew.                                 *)
(***************************************************************************)
EXTENDS Base, FiniteSets

CONSTANTS OptimizeRatio,  \* percent of the data file that is of no record
          MayDie          \* may the process of DpsBaseOptimize die?

ASSUME OptimizeAssumption == OptimizeRatio \in Nat /\ MayDie \in BOOLEAN

VARIABLE opt

\* What DpsBaseOptimize does next, the slots si it keeps, the number i of the
\* one it is at, the position of the slot it writes, error_cnt; and, for the
\* properties, what the files held before and whether it ever died.
Resting == [pc |-> "none", si |-> <<>>, i |-> 0, pos |-> 0, error_cnt |-> 0, held |-> <<>>, died |-> FALSE]

optvars == <<vars, opt>>
handle == <<mode, op, pc, via, cursor, ret>>

\* What a search of each record finds.
Held == [r \in RecIds |-> IF Found(r) THEN Lookup(r) ELSE <<>>]

-----------------------------------------------------------------------------
(* The slots it keeps. *)

Live(it) == it.rec_id # NoRec /\ it.offset < Len(dat) /\ it.size > 0
Slots == {p \in DOMAIN idx : Live(idx[p])}
ActualSize ==
    LET size == [n \in Nat |-> IF n \in Slots THEN idx[n].size ELSE 0]
        sum[n \in Nat] == IF n = 0 THEN 0 ELSE sum[n - 1] + size[n]
    IN sum[Len(idx)]

\* The waste is more than OptimizeRatio percent.  The sizes are unsigned: when
\* buffers overlap and are more than the file their difference is huge.
Worthwhile ==
    \/ ActualSize > Len(dat)
    \/ idx # <<>> /\ 100 * (Len(dat) - ActualSize) >= OptimizeRatio * (Len(dat) + 1)
    \/ ActualSize = 0 /\ dat # <<>>

\* A buffer as long as all buffers together is taken for a damaged one.
Kept == {p \in Slots : idx[p].size < ActualSize}

\* DpsSort puts them in the order of their buffers, those of one offset in any.
Sorted ==
    LET n == Cardinality(Kept)
    IN {o \in [1..n -> Kept] :
           /\ \A p \in Kept : \E j \in 1..n : o[j] = p
           /\ \A i, j \in 1..n : i < j => o[i] # o[j] /\ idx[o[i]].offset <= idx[o[j]].offset}

-----------------------------------------------------------------------------
(* DpsBaseSeek and DpsBaseOpen. *)

\* Where a search that stops at the records in S ends, from slot h.
EndOfChain(S, h) ==
    LET ends(p) == p \notin DOMAIN idx \/ idx[p].rec_id \in S \/ idx[p].next \notin DOMAIN idx
        step == [p \in Nat |-> IF ends(p) THEN p ELSE idx[p].next]
        walk[n \in Nat] == IF n = 0 THEN h ELSE step[walk[n - 1]]
    IN walk[Len(idx)]

\* The index file when DpsBaseOpen has found the end of the first chain (the
\* rec_id it is given is that of the file) and repaired it.
Opened ==
    IF idx = <<>> \/ idx[1].rec_id = NoRec THEN idx
    ELSE LET p == EndOfChain({}, 1) IN
         IF idx[p].next > Len(idx) THEN WriteItem(idx, p, [idx[p] EXCEPT !.next = 0]) ELSE idx

-----------------------------------------------------------------------------
(* DpsBaseOptimize. *)

\* A round on the file begins: its slots are read, and their waste looked at.
Round(error_cnt) ==
    /\ pc = "idle" /\ mode = "closed"
    /\ idx' = Opened
    /\ IF Worthwhile
       THEN \E o \in Sorted :
               opt' = [opt EXCEPT !.pc = "move", !.si = [j \in DOMAIN o |-> idx[o[j]]], !.i = 1,
                                  !.error_cnt = error_cnt, !.held = Held]
       ELSE opt' = [Resting EXCEPT !.died = opt.died]
    /\ UNCHANGED <<dat, handle>>

Begin == opt.pc = "none" /\ Round(0)

\* Where buffer i goes: behind the one before.
Place(i) == IF i = 1 THEN 0 ELSE opt.si[i - 1].offset + opt.si[i - 1].size

\* The size of buffer i, cut to where the next one begins, and to the file.
Fitting(i) ==
    LET it == opt.si[i]
        gap == IF i = Len(opt.si) THEN it.size ELSE opt.si[i + 1].offset - it.offset
        size == IF it.size > gap THEN gap ELSE it.size
    IN IF it.offset > Place(i) /\ it.offset + size > Len(dat) THEN Len(dat) - it.offset ELSE size

\* The next buffer is copied down; sizes that do not fit are cut, as errors.
Move ==
    /\ opt.pc = "move"
    /\ opt.i <= Len(opt.si)
    /\ LET it == opt.si[opt.i]
           to == Place(opt.i)
           size == Fitting(opt.i)
       IN /\ dat' = IF it.offset > to THEN Overlay(dat, to, SubSeq(dat, it.offset + 1, it.offset + size)) ELSE dat
          /\ opt' = [opt EXCEPT !.si[opt.i] = [it EXCEPT !.offset = to, !.size = size],
                                !.i = @ + 1,
                                !.error_cnt = IF size = it.size THEN @ ELSE 1]
    /\ UNCHANGED <<idx, handle>>

\* The data file ends behind the last buffer, also if it did so before.
CutData ==
    /\ opt.pc = "move"
    /\ opt.i > Len(opt.si)
    /\ dat' = [k \in 1..Place(opt.i) |-> IF k <= Len(dat) THEN dat[k] ELSE Hole]
    /\ opt' = [opt EXCEPT !.pc = "cut"]
    /\ UNCHANGED <<idx, handle>>

\* The index file is cut to nothing ...
CutIndex ==
    /\ opt.pc = "cut"
    /\ idx' = <<>>
    /\ opt' = [opt EXCEPT !.pc = "heads"]
    /\ UNCHANGED <<dat, handle>>

\* ... and gets its head slots again.
WriteHeads ==
    /\ opt.pc = "heads"
    /\ idx' = HTable
    /\ opt' = [opt EXCEPT !.pc = "seek", !.i = 1]
    /\ UNCHANGED <<dat, handle>>

\* Mutant of Seek: a head slot in use is taken for a free one.
SeekTaken ==
    /\ opt.pc = "seek"
    /\ opt.i <= Len(opt.si)
    /\ LET it == opt.si[opt.i]
           p == EndOfChain({it.rec_id}, Hash[it.rec_id])
       IN IF it.size = 0
          THEN opt' = [opt EXCEPT !.i = @ + 1]
          ELSE opt' = [opt EXCEPT !.pc = "write", !.pos = p]
    /\ UNCHANGED <<files, handle>>

\* The next slot gets its place: that of the same record, a head slot that is
\* free, or one at the end, to which the last slot of the chain is linked.
Seek ==
    /\ opt.pc = "seek"
    /\ opt.i <= Len(opt.si)
    /\ LET it == opt.si[opt.i]
           p == EndOfChain({it.rec_id}, Hash[it.rec_id])
           free == idx[p].rec_id \in {it.rec_id, NoRec}
       IN IF it.size = 0
          THEN opt' = [opt EXCEPT !.i = @ + 1] /\ UNCHANGED idx
          ELSE /\ idx' = IF free THEN idx ELSE WriteItem(idx, p, [idx[p] EXCEPT !.next = Len(idx) + 1])
               /\ opt' = [opt EXCEPT !.pc = "write", !.pos = IF free THEN p ELSE Len(idx) + 1]
    /\ UNCHANGED <<dat, handle>>

WriteSlot ==
    /\ opt.pc = "write"
    /\ idx' = WriteItem(idx, opt.pos, [opt.si[opt.i] EXCEPT !.next = 0])
    /\ opt' = [opt EXCEPT !.pc = "seek", !.i = @ + 1]
    /\ UNCHANGED <<dat, handle>>

\* The file is closed; after errors it is optimized once more.
Finish ==
    /\ opt.pc = "seek"
    /\ opt.i > Len(opt.si)
    /\ opt' = [Resting EXCEPT !.died = opt.died,
                              !.pc = IF opt.error_cnt > 0 THEN "again" ELSE "none",
                              !.error_cnt = opt.error_cnt]
    /\ UNCHANGED <<files, handle>>

\* Mutant of Again: the errors of the last round are not forgotten.
AgainCounting == opt.pc = "again" /\ Round(opt.error_cnt)

Again == opt.pc = "again" /\ Round(0)

\* The process dies in DpsBaseOptimize (bound: once).
Die ==
    /\ MayDie
    /\ opt.pc # "none"
    /\ ~opt.died
    /\ opt' = [Resting EXCEPT !.died = TRUE]
    /\ UNCHANGED <<files, handle>>

OptimizeInit == Init /\ opt = Resting

Proceed == Move \/ CutData \/ CutIndex \/ WriteHeads \/ Seek \/ WriteSlot \/ Finish

OptimizeNext ==
    \/ opt.pc \in {"none", "again"} /\ Next /\ UNCHANGED opt
    \/ Begin \/ Again
    \/ Move \/ CutData \/ CutIndex \/ WriteHeads \/ Seek \/ WriteSlot \/ Finish
    \/ Die

OptimizeSpec == OptimizeInit /\ [][OptimizeNext]_optvars

\* A process that has the lock of the file goes on, and so do its callers with
\* a handle they have open; one that waits for the lock gets it when others
\* release it over and over.
OptimizeFairSpec ==
    /\ OptimizeSpec
    /\ WF_optvars(Proceed)
    /\ WF_optvars(opt.pc = "again" /\ (Step \/ Close) /\ UNCHANGED opt)
    /\ SF_optvars(Again)

-----------------------------------------------------------------------------
(* Properties. *)

\* The last step of a round on a file where DpsBaseOptimize never died.
Optimized == opt.pc = "seek" /\ opt'.pc \in {"none", "again"} /\ ~opt'.died

\* A record that a search found before is found after it, with the same buffer.
KeptRecord(r) == opt.held[r] # <<>> => Found(r)' /\ Lookup(r)' = opt.held[r]

Several == \E q, r \in RecIds : q # r /\ opt.held[q] # <<>> /\ opt.held[r] # <<>>

\* With two or more records, each in one slot, every record is kept, whatever
\* calls, collisions, deletions and deaths of writers went before.
OneSlotEach == \A i, j \in DOMAIN opt.si : opt.si[i].rec_id = opt.si[j].rec_id => i = j
RecordsKept == [][Optimized /\ Several /\ OneSlotEach => \A r \in RecIds : KeptRecord(r)]_optvars

\* DpsBaseOptimize ends, also on files where it died half way: what it cuts
\* as an error in one round is none in the next.
OptimizeEnds == opt.pc # "none" ~> opt.pc = "none"
=============================================================================
