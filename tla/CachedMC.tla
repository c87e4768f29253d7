------------------------------ MODULE CachedMC ------------------------------
(* Small instances of Cached for TLC. *)
EXTENDS Cached

\* The words 1 and 2 are in file 1, the word 3 in file 2.
ThreeWords == [w \in Words |-> IF w < 3 THEN 1 ELSE 2]

\* Contents that lose a word, move one, or have none left.
Versions == {<< <<1, 1>>, <<2, 2>>, <<3, 3>> >>, << <<2, 1>> >>, <<>>}
\* Two contents with the same words at other places.
Moves == {<< <<1, 1>>, <<2, 2>> >>, << <<1, 2>> >>}
\* Contents with words of two files, one of them moved or missing.
Shifted == {<< <<2, 1>>, <<3, 1>> >>, << <<2, 2>> >>}
\* A content with words of two files.
Apart == {<< <<2, 1>>, <<3, 1>> >>}

\* Indexers differ by nothing but their names.
Indexers == Permutations(Clients)
=============================================================================
