----------------------------- MODULE BooleanMC -----------------------------
(* Small instances of Boolean for TLC. *)
EXTENDS Boolean

Leaves == {Leaf(w) : w \in {"a", "b", "c"}}
Phrases == {InQuotes(ws) : ws \in {<<"a", "b">>, <<"b", "c">>, <<"a", "the", "c">>}}
Atoms == Leaves \cup Phrases

Over(ops, L, R) == {Node(op, l, r) : op \in ops, l \in L, r \in R}
Pairs == Over({"or", "and", "but", "near", "any"}, Leaves, Leaves)
Nested == Over({"or", "and", "but"}, Leaves, Leaves)
Rows == Over({"juxt"}, Atoms, Atoms \cup {Leaf("the")})
Trees == Atoms \cup Pairs \cup Rows
    \cup Over({"or", "and", "but"}, Nested, Nested)
    \cup Over({"or", "and", "but"}, Over({"near", "any"}, Leaves, Leaves), Leaves)
    \cup Over({"or", "and", "but"}, Leaves, Over({"near", "any"}, Leaves, Leaves))
    \cup Over({"or", "and", "but"}, Phrases \cup Rows, Leaves)
    \cup Over({"or", "and", "but"}, Leaves, Phrases \cup Rows)
    \cup Over({"near"}, Over({"or", "and"}, Leaves, Leaves), Leaves)

Expressions == {[tree |-> t, text |-> Text(t), mode |-> "bool"] : t \in Trees}
    \cup {[tree |-> t, text |-> Text(t), mode |-> m] : t \in Rows, m \in {"any", "near"}}
\* The last quote forgotten, operators without an operand, brackets that do not match.
Other == {[tree |-> InQuotes(<<"a", "b">>), text |-> <<"quote", "a", "b">>, mode |-> "bool"],
          [tree |-> Node("juxt", Leaf("c"), InQuotes(<<"a", "b">>)), text |-> <<"c", "quote", "a", "b">>, mode |-> "bool"],
          [tree |-> Leaf("a"), text |-> <<"a", "&", "quote">>, mode |-> "bool"],
          [tree |-> Leaf("a"), text |-> <<"(", "a">>, mode |-> "bool"],
          [tree |-> Leaf("a"), text |-> <<"a", ")">>, mode |-> "bool"]}
    \cup {[tree |-> [op |-> "none"], text |-> s, mode |-> "bool"] :
            s \in {<<"a", "&">>, <<"&", "a">>, <<"~", "a">>, <<"a", "~", "b">>, <<"near", "a", "|">>, <<"&">>, <<"~">>,
                    <<"&", "quote", "a", "b", "quote">>}}
AllQueries == Expressions \cup Other

\* A document is a row of words, "" where a word of no query stands.
Document(u, start, ws) ==
    {<<u, start + k, ws[k]>> : k \in {n \in 1..Len(ws) : ws[n] # ""}}
Gap(n) == [k \in 1..n |-> ""]
Bodies == <<
    <<"a">>, <<"b">>, <<"c", "a">>, <<"a", "b">>, <<"b", "a">>, <<"", "a", "b">>, <<"a", "", "c">>,
    <<"a", "b", "c">>, <<"a">> \o Gap(16) \o <<"b">>, <<"a">> \o Gap(15) \o <<"b">>,
    <<"b">> \o Gap(20) \o <<"a">> \o Gap(9) \o <<"b", "c">>,
    <<"a", "a", "b">>, <<"a", "", "", "", "b", "a", "b">>, <<"a", "b", "a", "b">>,
    <<"a", "", "a", "", "b">>, <<"b", "c">>, <<"a", "c">>, <<"a">> >>
Indexed(apart) == UNION {Document(u, apart * u, Bodies[u]) : u \in 1..Len(Bodies)}
Positions == {Indexed(0), Indexed(100)}
=============================================================================
