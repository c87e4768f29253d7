----------------------------- MODULE LogsOnlyMC -----------------------------
(* Small instances of LogsOnly for TLC. *)
EXTENDS LogsOnly

\* Word 1 is in file 1, word 2 in file 2.
TwoWords == [w \in Words |-> w]

\* A word of the one file or of the other: what is new and the words that have
\* to go are in different files.
Versions == {<< <<1, 1>> >>, << <<2, 1>> >>}

\* What may happen around the procedure.
Troubles == {"overlap", "bare", "die"}
Busy == {"busy"}
=============================================================================
