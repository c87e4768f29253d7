------------------------------- MODULE BaseMC -------------------------------
(* Small instances of Base for TLC. *)
EXTENDS Base

CONSTANTS a, b, c, d  \* rec_ids

\* a and b collide at the first head slot, c has the other one to itself.
Colliding == [r \in RecIds |-> IF r = c THEN 2 ELSE 1]
\* All of them collide.
OneChain == [r \in RecIds |-> 1]
\* No two of a, b and c collide.
Apart == [r \in RecIds |-> IF r = a THEN 1 ELSE IF r = b THEN 2 ELSE 3]
=============================================================================
