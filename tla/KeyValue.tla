------------------------------ MODULE KeyValue ------------------------------
(***************************************************************************)
(* What a hash table file of include/dps_base.h promises to its callers: a *)
(* dictionary from rec_id to the buffer last written for it.  A call that  *)
(* changes the dictionary takes time, and the record it is about is the    *)
(* only one it may change: while a write runs nobody else sees its record, *)
(* and a write that fails, or whose process dies, may leave that record in *)
(* any state; a delete removes its record at one moment, or not at all.    *)
(***************************************************************************)
CONSTANTS RecIds,      \* the record identifiers, urlid_t
          Buffers(_),  \* Buffers(r): the buffers a caller may store for r
          Missing,     \* stands for the buffer of a record that is not stored
          None         \* no call that changes a record

VARIABLES store,       \* what is stored for each record
          change       \* the record of the call in progress, and what it is to become

Change(r, b) == [rec_id |-> r, buf |-> b]

Init ==
    /\ store = [r \in RecIds |-> Missing]
    /\ change = None

\* A write of r begins.
Begin(r) ==
    /\ change = None
    /\ \E b \in Buffers(r) : change' = Change(r, b)
    /\ store' = [store EXCEPT ![r] = Missing]

\* A delete of r begins.
Ask(r) ==
    /\ change = None
    /\ change' = Change(r, Missing)
    /\ UNCHANGED store

\* The record becomes what the call wants it to be.
Commit(r) ==
    /\ change # None
    /\ change.rec_id = r
    /\ change' = None
    /\ store' = [store EXCEPT ![r] = change.buf]

\* A write fails or dies.
Spoil(r) ==
    /\ change # None
    /\ change.rec_id = r
    /\ change.buf # Missing
    /\ change' = None
    /\ store' = [store EXCEPT ![r] = store'[r]]

\* A delete fails or dies.
Withdraw(r) ==
    /\ change = Change(r, Missing)
    /\ change' = None
    /\ UNCHANGED store

Next == \E r \in RecIds : Begin(r) \/ Ask(r) \/ Commit(r) \/ Spoil(r) \/ Withdraw(r)

Spec == Init /\ [][Next]_<<store, change>>
=============================================================================
