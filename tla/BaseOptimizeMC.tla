--------------------------- MODULE BaseOptimizeMC ---------------------------
(* Small instances of BaseOptimize for TLC. *)
EXTENDS BaseOptimize

CONSTANTS a, b, c  \* rec_ids

\* a and b collide at the first head slot, c has the other one to itself.
Colliding == [r \in RecIds |-> IF r = c THEN 2 ELSE 1]
=============================================================================
