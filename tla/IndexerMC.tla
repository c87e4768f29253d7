------------------------------ MODULE IndexerMC ------------------------------
(* Small instances of Indexer for TLC. *)
EXTENDS Indexer

CONSTANTS t1, t2, t3, p1, p2, u1, u2, u3

\* Threads of one process, or of two.
Together == [t \in Threads |-> p1]
Apart    == [t \in Threads |-> IF t = t1 THEN p1 ELSE p2]

Documents == [limit |-> 1, all |-> 4]

\* What goes on around the threads.
Days == {{"keep"}, {"keep", "limit"}, {"late", "open"}, {"sql", "keep"}, {"sql", "term"},
         {"mark", "die"}, {"hup", "conf"}, {"slow"}}

MCInit == Init /\ proc \in {Together, Apart}

MCSpec == MCInit /\ [][Next]_vars /\ Fairness
=============================================================================
