----------------------------- MODULE BaseLockMC -----------------------------
(* Three threads in two processes with one file number, and two threads in   *)
(* one process or in two, of which one has records in another file as well.  *)
EXTENDS BaseLock

CONSTANTS t1, t2, t3, p1, p2, p3

Together == [t \in Threads |-> p1]
TwoAndOne == [t \in Threads |-> IF t = t3 THEN p2 ELSE p1]
Apart == [t \in Threads |-> CASE t = t1 -> p1 [] t = t2 -> p2 [] OTHER -> p3]

Same == [t \in Threads |-> {1}]
OneMore == [t \in Threads |-> CASE t = t1 -> {1} [] t = t2 -> {1, 2} [] OTHER -> {}]
TwoSame == [t \in Threads |-> IF t = t3 THEN {} ELSE {1}]

MCInit ==
    /\ Init
    /\ \/ proc = TwoAndOne /\ numbers = Same /\ faults = {"create", "io", "die"}
       \/ proc = Apart /\ numbers = TwoSame /\ faults = {"create", "io", "die"}
       \/ proc \in {Together, Apart} /\ numbers = OneMore /\ faults = {"create"}

MCSpec == MCInit /\ [][Next]_vars /\ Fairness
=============================================================================
