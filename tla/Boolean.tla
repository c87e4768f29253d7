------------------------------- MODULE Boolean -------------------------------
(***************************************************************************)
(* A search query from its text to the documents found.  DpsPrepare of     *)
(* src/src/searchtool.c turns the text into a row of items, words and      *)
(* commands; the postings of every word are looked up; DpsCalcBoolItems of *)
(* src/src/boolean.c runs over the items with a stack of commands and a    *)
(* stack of arguments, and perform() does one command on the arguments.    *)
(*                                                                         *)
(* A text is a sequence of tokens, a word stands for itself (its forms,    *)
(* synonyms and acronyms, the sections of a document and limits are left   *)
(* out), and a list of postings, which is sorted wherever it is made, is   *)
(* the set of its coordinates.                                             *)
(***************************************************************************)
EXTENDS Integers, FiniteSets, SequencesExt, TLC

CONSTANTS Words,        \* the words in use
          StopWords,    \* those of the stop list: they are not in the index
          Queries,      \* what is asked: text, mode ("bool", "any" or "near") and meaning
          Collections   \* what is indexed: sets of <<url_id, position, word>>

VARIABLES query,     \* the query
          docs,      \* the collection
          pc,        \* "prepare", "find", "calc" or "done"
          items,     \* Res->items
          i,         \* the item that is next
          reducing,  \* has the item been found to make commands be performed?
          cstack,    \* the commands, the top one last
          astack,    \* the arguments, the top one last
          answer     \* Res->CoordList: the coordinates found

vars == <<query, docs, pc, items, i, reducing, cstack, astack, answer>>

-----------------------------------------------------------------------------
(* Commands and items. *)

BOT == 0
LEFT == 1
RIGHT == 2
PHRASE_LEFT == 3
PHRASE_RIGHT == 4
OR == 5
AND == 6
NEAR == 7
ANYWORD == 8
NOT == 9
WORD == 200
Binary == {OR, AND, NEAR, ANYWORD}

Command == [t \in {"&", "|", "~", "(", ")", "*", "near"} |->
    CASE t = "&" -> AND [] t = "|" -> OR [] t = "~" -> NOT [] t = "(" -> LEFT
      [] t = ")" -> RIGHT [] t = "*" -> ANYWORD [] t = "near" -> NEAR]
add_cmd == [bool |-> AND, any |-> OR, near |-> NEAR][query.mode]

Plain(cmd) == [cmd |-> cmd, word |-> "", order |-> 0, origin |-> {}]
Word(w, order) ==
    [cmd |-> WORD, word |-> w, order |-> order,
     origin |-> IF w \in StopWords THEN {"QUERY", "STOP"} ELSE {"QUERY"}]
Cmd(s) == IF s = <<>> THEN BOT ELSE Last(s).cmd

\* A second operator in a row is dropped, and one is put before a word or a
\* bracket that follows an operand.
DpsAddStackItem(s, it) ==
    IF it.cmd \in Binary /\ Cmd(s) \in Binary THEN s
    ELSE s \o (IF it.cmd = WORD /\ Cmd(s) \in {WORD, RIGHT, PHRASE_RIGHT} THEN <<Plain(OR)>>
               ELSE IF it.cmd = LEFT /\ Cmd(s) \in {RIGHT, PHRASE_RIGHT} THEN <<Plain(add_cmd)>>
               ELSE <<>>)
           \o <<it>>
AddItems(s, its) == FoldLeft(DpsAddStackItem, s, its)

-----------------------------------------------------------------------------
(* DpsPrepare. *)

Juxtaposed(st) == IF st.notfirstword THEN <<Plain(add_cmd)>> ELSE <<>>

Operator(st, t) ==
    [st EXCEPT !.items = DpsAddStackItem(@, Plain(Command[t])), !.notfirstword = FALSE]

Quote(st) ==
    [st EXCEPT
        !.items = AddItems(@, IF st.phrase THEN <<Plain(PHRASE_RIGHT)>>
                              ELSE Juxtaposed(st) \o <<Plain(PHRASE_LEFT)>>),
        !.notfirstword = st.phrase,
        !.phrase = ~@]

QueryWord(st, w) ==
    [st EXCEPT
        !.items = AddItems(@, Juxtaposed(st) \o <<Plain(LEFT), Word(w, st.order), Plain(RIGHT)>>),
        !.order = @ + 1,
        !.notfirstword = TRUE]

Token(st, t) ==
    IF t = "quote" THEN Quote(st)
    ELSE IF t \in DOMAIN Command THEN Operator(st, t)
    ELSE QueryWord(st, t)

\* A phrase left open is closed; an empty one goes, with the operators before it.
CloseQuote(st) ==
    IF ~st.phrase THEN st.items
    ELSE IF Cmd(st.items) # PHRASE_LEFT THEN DpsAddStackItem(st.items, Plain(PHRASE_RIGHT))
    ELSE LET kept == {n \in 1..(Len(st.items) - 1) : st.items[n].cmd \notin {AND, OR, NOT}}
         IN  SubSeq(st.items, 1, IF kept = {} THEN 0 ELSE CHOOSE n \in kept : \A k \in kept : k <= n)

DpsPrepare(text) ==
    CloseQuote(FoldLeft(Token, [items |-> <<>>, order |-> 0, notfirstword |-> FALSE, phrase |-> FALSE], text))

-----------------------------------------------------------------------------
(* Coordinates <<url_id, position, wordnum>> and lists of them. *)

Url(c) == c[1]
Pos(c) == c[2]
Num(c) == c[3]
Urls(l) == {Url(c) : c \in l}
In(l, us) == {c \in l : Url(c) \in us}

\* DpsCmpUrlid
Before(c, d) ==
    \/ Url(c) < Url(d)
    \/ Url(c) = Url(d) /\ Pos(c) < Pos(d)
    \/ Url(c) = Url(d) /\ Pos(c) = Pos(d) /\ Num(c) < Num(d)
Listed(s) == FoldSet(LAMBDA x, l : Append(l, x), <<>>, s)
Sorted(l) == SortSeq(Listed(l), Before)

Postings(w, num) == {<<d[1], d[2], num>> : d \in {e \in docs : e[3] = w}}

\* An argument of the stack: its coordinates, whether a NOT is on it, what it
\* comes from, the orders of the words in it, and the coordinates before its pcur.
Arg(l) == [list |-> l, not |-> FALSE, origin |-> {}, from |-> 0, to |-> 0, upto |-> l]
Least(a, b) == IF a <= b THEN a ELSE b
Greatest(a, b) == IF a >= b THEN a ELSE b
Spanning(x1, x2, l) ==
    [Arg(l) EXCEPT !.from = Least(x1.from, x2.from), !.to = Greatest(x1.to, x2.to)]
Stop(x) == "STOP" \in x.origin
QueryStop(x) == {"QUERY", "STOP"} \subseteq x.origin

-----------------------------------------------------------------------------
(* perform(): what one command may make of its arguments. *)

\* proceedSTOP: the list of x with what stop has before its last word in a document.
proceedSTOP(x, stop) ==
    x.list \cup {c \in stop.list : \E d \in x.list : Url(d) = Url(c) /\ Before(c, d)}

Both(x1, x2) == In(x1.list \cup x2.list, Urls(x1.list) \cap Urls(x2.list))

\* AND with a NOT: x without the documents of n.  Where n ends before x, the
\* coordinate behind the end of n is read, and when it happens to name the
\* next document of x, that is left out too.
Skipped(x, n) ==
    LET last == {u \in Urls(n.list) : \A v \in Urls(n.list) : v <= u}
        left == {u \in Urls(x.list) : \A v \in last : v < u}
    IN  IF last = {} \/ last \subseteq Urls(x.list) THEN {}
        ELSE {u \in left : \A v \in left : u <= v}
Without(x, n) ==
    {In(x.list, (Urls(x.list) \ Urls(n.list)) \ s) : s \in {{}, Skipped(x, n)}}

\* In each document that both have, two places go up, always the one with the
\* smaller coordinate, until a pair fits or one list has no more in the document.
RECURSIVE NearFrom(_, _)
NearFrom(s1, s2) ==
    LET c == Head(s1)  d == Head(s2)
    IN  \/ Pos(c) - Pos(d) \in -16..16
        \/ Before(c, d) /\ Len(s1) > 1 /\ NearFrom(Tail(s1), s2)
        \/ Before(d, c) /\ Len(s2) > 1 /\ NearFrom(s1, Tail(s2))
NearIn(x1, x2) ==
    {u \in Urls(x1.list) \cap Urls(x2.list) :
        NearFrom(Sorted(In(x1.list, {u})), Sorted(In(x2.list, {u})))}

\* ANYWORD knows by flag1 which of the two is the left operand; pos2 is set to
\* the position of the first list when the second one goes up.
RECURSIVE AnyFrom(_, _, _, _)
AnyFrom(s1, s2, pos2, flag1) ==
    LET c == Head(s1)  d == Head(s2)
    IN  \/ IF flag1 THEN Pos(c) + 2 = pos2 ELSE pos2 + 2 = Pos(c)
        \/ Before(c, d) /\ Len(s1) > 1 /\ AnyFrom(Tail(s1), s2, pos2, flag1)
        \/ Before(d, c) /\ Len(s2) > 1 /\ AnyFrom(s1, Tail(s2), Pos(c), flag1)
\* The lists change places whenever the first one is behind.
RECURSIVE AnyIn(_, _, _)
AnyIn(l1, l2, flag1) ==
    IF l1 = {} THEN {}
    ELSE LET u == Url(Head(Sorted(l1)))
             rest == {c \in l2 : Url(c) >= u}
             next(l) == {c \in l : Url(c) > u}
         IN  IF rest = {} THEN {}
             ELSE IF u \notin Urls(rest) THEN AnyIn(rest, l1, ~flag1)
             ELSE AnyIn(next(l1), next(rest), flag1) \cup
                  LET s1 == Sorted(In(l1, {u}))  s2 == Sorted(In(rest, {u}))
                  IN  IF AnyFrom(s1, s2, Pos(Head(s2)), flag1) THEN {u} ELSE {}

\* The documents of both that fit, or with a NOT on one side those that do not.
Fitting(x1, x2, fits) ==
    {In(Both(x1, x2), IF x1.not \/ x2.not THEN Urls(x1.list) \ fits ELSE fits)}

\* Mutant of Matches: which side the NOT is on does not matter.
MatchesUnswapped(com, x1, x2) ==
    IF com = AND THEN (IF x1.not \/ x2.not THEN Without(x1, x2) ELSE {Both(x1, x2)})
    ELSE Fitting(x1, x2, NearIn(x1, x2))

Matches(com, x1, x2) ==
    IF com = AND THEN (IF x1.not THEN Without(x2, x1)
                       ELSE IF x2.not THEN Without(x1, x2) ELSE {Both(x1, x2)})
    ELSE IF com = NEAR THEN Fitting(x1, x2, NearIn(x1, x2))
    ELSE Fitting(x1, x2, IF x1.not THEN AnyIn(x2.list, x1.list, TRUE)
                         ELSE AnyIn(x1.list, x2.list, FALSE))

\* AND, NEAR and ANYWORD take a stop word as one that every document has.
Conjoined(com, x1, x2) ==
    IF Stop(x1) /\ Stop(x2)
    THEN {[Spanning(x1, x2, x1.list \cup x2.list) EXCEPT !.origin = {"STOP"}]}
    ELSE {Spanning(x1, x2, l) : l \in
            IF Stop(x2) THEN {proceedSTOP(x1, x2)}
            ELSE IF Stop(x1) THEN {proceedSTOP(x2, x1)}
            ELSE IF x1.not /\ x2.not THEN {{}}
            ELSE Matches(com, x1, x2)}

\* OR does not look at a NOT.
Disjoined(x1, x2) ==
    LET l == x1.list \cup x2.list
    IN  [Spanning(x1, x2, l) EXCEPT !.origin =
            IF QueryStop(x1) THEN x1.origin
            ELSE IF QueryStop(x2) THEN x2.origin
            ELSE IF (Stop(x1) /\ Stop(x2)) \/ (l = {} /\ (Stop(x1) \/ Stop(x2))) THEN {"STOP"}
            ELSE {}]

\* PHRASE_LEFT.  The list is read in runs of equal positions; a run takes in
\* the start of the next document when that has the same position.
OrderOf(c) == items[Num(c)].order
Runs(l) ==
    LET s == Sorted(l)
        starts == SelectSeq([k \in 1..Len(s) |-> k], LAMBDA k : k = 1 \/ Pos(s[k]) # Pos(s[k - 1]))
        next == Append(Tail(starts), Len(s) + 1)
    IN  [n \in 1..Len(starts) |->
            [first |-> s[starts[n]], all |-> {s[k] : k \in starts[n]..(next[n] - 1)}]]

StopOrder(o) == \E n \in 1..Len(items) :
    items[n].cmd = WORD /\ items[n].order = o /\ "STOP" \in items[n].origin
\* order_ideal: the orders of the words of the phrase that are not stop words.
Ideal(x) == SelectSeq([k \in 1..(x.to - x.from + 1) |-> x.from + k - 1], LAMBDA o : ~StopOrder(o))
\* gap_ahead: from one of them to the next, or from the last over the stop words behind it.
GapAhead(x, t) ==
    LET o == Ideal(x)[t]
    IN  IF t < Len(Ideal(x)) THEN Ideal(x)[t + 1] - o
        ELSE IF o = x.to THEN 0 ELSE x.to - o + 1

\* Do the runs up to the k-th of a document make the phrase?  Behind the last
\* one the check may look at a slot of the ring that was not filled: luck.
Phrased(x, w, k, luck) ==
    LET m == Len(Ideal(x))
        n == x.to - x.from + 1
        at(t) == w[k - m + t].first
    IN  \A t \in 1..m :
            /\ OrderOf(at(t)) = Ideal(x)[t]
            /\ (GapAhead(x, t) # 0 /\ t - 1 + GapAhead(x, t) < n) =>
                  IF t = m THEN luck ELSE Pos(at(t)) + GapAhead(x, t) = Pos(at(t + 1))

\* Of a document, the run that completes the phrase goes to the result, and of
\* the first possible place all of its runs.
PhraseIn(x, runs, u, luck) ==
    LET w == SelectSeq(runs, LAMBDA r : Url(r.first) = u)
        m == Len(Ideal(x))
    IN  UNION {w[n].all : n \in
            UNION {IF k = m THEN 1..m ELSE {k} : k \in {k \in m..Len(w) : Phrased(x, w, k, luck)}}}

NotFilled(x) ==
    LET m == Len(Ideal(x)) IN GapAhead(x, m) # 0 /\ m - 1 + GapAhead(x, m) < x.to - x.from + 1
\* The result is written over the list; pcur is left at the end of the latter.
Overwritten(l, found) == found \cup ToSet(SubSeq(Sorted(l), Cardinality(found) + 1, Cardinality(l)))
Phrase(x) ==
    IF x.from = x.to THEN {x}
    ELSE IF Ideal(x) = <<>> THEN {[x EXCEPT !.list = {}, !.upto = {}]}
    ELSE LET runs == Runs(x.list)
             found(lucky) == UNION {PhraseIn(x, runs, u, u \in lucky) : u \in Urls(x.list)}
         IN  {[x EXCEPT !.list = found(lucky), !.upto = Overwritten(x.list, found(lucky))] :
                lucky \in IF NotFilled(x) THEN SUBSET Urls(x.list) ELSE {{}}}

Popped(n) == SubSeq(astack, 1, Len(astack) - n)
\* An operator with one argument leaves it; AND, NEAR and ANYWORD then count its
\* coordinates up to pcur, which is still at the start of the list of a word.
Alone(com, x) == IF com = OR THEN x ELSE [x EXCEPT !.list = x.upto]

perform(com) ==
    LET n == Len(astack)
        x1 == astack[n]
        x2 == astack[n - 1]
    IN  IF com = LEFT \/ (com = NOT /\ n = 0) THEN {astack}
        ELSE IF n = 0 THEN {<<Arg({})>>}
        ELSE IF com = NOT THEN {[astack EXCEPT ![n].not = ~@]}
        ELSE IF com = PHRASE_LEFT THEN {Append(Popped(1), x) : x \in Phrase(x1)}
        ELSE IF n = 1 THEN {<<Alone(com, x1)>>}
        ELSE IF com = OR THEN {Append(Popped(2), Disjoined(x1, x2))}
        ELSE {Append(Popped(2), x) : x \in Conjoined(com, x1, x2)}

-----------------------------------------------------------------------------
(* The steps: DpsFindWordsCache prepares the query and finds the postings,     *)
(* DpsCalcBoolItems takes the items one by one.                                *)

Init ==
    /\ query \in Queries
    /\ docs \in Collections
    /\ pc = "prepare"
    /\ items = <<>>
    /\ i = 1
    /\ reducing = FALSE
    /\ cstack = <<>>
    /\ astack = <<>>
    /\ answer = {}

Prepare ==
    /\ pc = "prepare"
    /\ items' = DpsPrepare(query.text)
    /\ pc' = "find"
    /\ UNCHANGED <<query, docs, i, reducing, cstack, astack, answer>>

\* Nothing is computed when no word has postings.
FindWords ==
    /\ pc = "find"
    /\ pc' = IF \E n \in 1..Len(items) : items[n].cmd = WORD /\ Postings(items[n].word, n) # {}
             THEN "calc" ELSE "done"
    /\ UNCHANGED <<query, docs, items, i, reducing, cstack, astack, answer>>

TOPCMD == IF cstack = <<>> THEN BOT ELSE Last(cstack)
AtEnd == i > Len(items)
Item == items[i]

\* Mutant of Reducible: a command of higher priority does not go first.
ReducibleLate ==
    IF AtEnd THEN TOPCMD # BOT
    ELSE \/ Item.cmd = RIGHT /\ TOPCMD \notin {LEFT, BOT}
         \/ Item.cmd = PHRASE_RIGHT /\ TOPCMD \notin {PHRASE_LEFT, BOT}
         \/ Item.cmd \in Binary /\ Len(astack) > 1 /\ Item.cmd = TOPCMD

\* Is the top command to be performed before the next item is taken?
Reducible ==
    IF AtEnd THEN TOPCMD # BOT
    ELSE \/ Item.cmd = RIGHT /\ TOPCMD \notin {LEFT, BOT}
         \/ Item.cmd = PHRASE_RIGHT /\ TOPCMD \notin {PHRASE_LEFT, BOT}
         \/ /\ Item.cmd \in Binary
            /\ Len(astack) > 1 \/ reducing
            /\ Item.cmd <= TOPCMD

Reduce ==
    /\ pc = "calc"
    /\ Reducible
    /\ astack' \in perform(TOPCMD)
    /\ cstack' = Front(cstack)
    /\ reducing' = TRUE
    /\ UNCHANGED <<query, docs, pc, items, i, answer>>

Advance ==
    /\ pc = "calc" /\ ~AtEnd /\ ~Reducible
    /\ i' = i + 1
    /\ reducing' = FALSE
    /\ UNCHANGED <<query, docs, pc, items, answer>>

PushCommand ==
    /\ Advance
    /\ Item.cmd \in Binary \cup {LEFT, PHRASE_LEFT, NOT}
    /\ cstack' = Append(cstack, Item.cmd)
    /\ UNCHANGED astack

PushWord ==
    /\ Advance
    /\ Item.cmd = WORD
    /\ astack' = Append(astack, [Arg(Postings(Item.word, i)) EXCEPT
            !.origin = Item.origin, !.from = Item.order, !.to = Item.order, !.upto = {}])
    /\ UNCHANGED cstack

CloseBracket ==
    /\ Advance
    /\ Item.cmd = RIGHT
    /\ cstack' = IF TOPCMD = LEFT THEN Front(cstack) ELSE cstack
    /\ UNCHANGED astack

ClosePhrase ==
    /\ Advance
    /\ Item.cmd = PHRASE_RIGHT
    /\ IF TOPCMD = PHRASE_LEFT
       THEN astack' \in perform(PHRASE_LEFT) /\ cstack' = Front(cstack)
       ELSE UNCHANGED <<astack, cstack>>

Finish ==
    /\ pc = "calc" /\ AtEnd /\ ~Reducible
    /\ answer' = IF astack = <<>> THEN {} ELSE Last(astack).list
    /\ pc' = "done"
    /\ UNCHANGED <<query, docs, items, i, reducing, cstack, astack>>

Next == Prepare \/ FindWords \/ Reduce \/ PushCommand \/ PushWord
            \/ CloseBracket \/ ClosePhrase \/ Finish
Spec == Init /\ [][Next]_vars

-----------------------------------------------------------------------------
(* What a query means.  A query has a tree, "none" for a text that is not a    *)
(* Boolean expression, and its text is that of the tree.                       *)

Leaf(w) == [op |-> "word", word |-> w]
InQuotes(ws) == [op |-> "phrase", words |-> ws]
Node(op, l, r) == [op |-> op, l |-> l, r |-> r]
IsNode(t) == t.op \notin {"word", "phrase"}

Precedence == [juxt |-> 0, or |-> 1, and |-> 2, but |-> 2, near |-> 3, any |-> 4, word |-> 5, phrase |-> 5]
Sign == [juxt |-> <<>>, or |-> <<"|">>, and |-> <<"&">>, but |-> <<"&", "~">>, near |-> <<"near">>, any |-> <<"*">>]

RECURSIVE Text(_)
Text(t) ==
    LET text(s, p) == IF Precedence[s.op] < p THEN <<"(">> \o Text(s) \o <<")">> ELSE Text(s)
        p == Precedence[t.op]
    IN  IF t.op = "word" THEN <<t.word>>
        ELSE IF t.op = "phrase" THEN <<"quote">> \o t.words \o <<"quote">>
        ELSE text(t.l, p) \o Sign[t.op] \o text(t.r, IF t.op = "but" THEN 5 ELSE p)

\* Does every document have it, as far as the index can tell?
RECURSIVE Always(_)
Always(t) == CASE t.op = "word" -> t.word \in StopWords
               [] t.op = "phrase" -> FALSE
               [] t.op = "or" \/ (t.op = "juxt" /\ query.mode = "any") -> Always(t.l) \/ Always(t.r)
               [] OTHER -> Always(t.l) /\ Always(t.r)

Close(c, d) == Url(c) = Url(d) /\ Pos(c) - Pos(d) \in -16..16
PhraseAt(ws, c) ==
    \A k \in 1..Len(ws) : ws[k] \in StopWords \/ <<Url(c), Pos(c) + k - 1, ws[k]>> \in docs

\* The words of a tree in the documents it asks for.
RECURSIVE Meaning(_)
Meaning(t) ==
    LET l == Meaning(t.l)
        r == Meaning(t.r)
        op == IF t.op = "juxt" THEN [bool |-> "and", any |-> "or", near |-> "near"][query.mode] ELSE t.op
        both(us) == In(l \cup r, us)
    IN  CASE op = "word" -> {d \in docs : d[3] = t.word}
          [] op = "phrase" -> In({d \in docs : d[3] \in ToSet(t.words)},
                                 {Url(c) : c \in {d \in docs : PhraseAt(t.words, d)}})
          [] op = "or" -> l \cup r
          [] op = "but" -> In(l, Urls(l) \ Urls(r))
          [] OTHER ->
               IF Always(t.l) /\ Always(t.r) THEN l \cup r
               ELSE IF Always(t.r) THEN l
               ELSE IF Always(t.l) THEN r
               ELSE CASE op = "and" -> both(Urls(l) \cap Urls(r))
                      [] op = "near" -> both({Url(c) : c \in {x \in l : \E d \in r : Close(x, d)}})
                      [] op = "any" -> both({Url(c) : c \in {x \in l :
                                            \E d \in r : Url(d) = Url(x) /\ Pos(d) = Pos(x) + 2}})

RECURSIVE Ops(_)
Ops(t) == {t.op} \cup IF IsNode(t) THEN Ops(t.l) \cup Ops(t.r) ELSE {}
RECURSIVE Nots(_)
Nots(t) == IF IsNode(t) THEN Nots(t.l) + Nots(t.r) + (IF t.op = "but" THEN 1 ELSE 0) ELSE 0
\* Is nothing negated twice?
RECURSIVE Single(_)
Single(t) == IsNode(t) => Single(t.l) /\ Single(t.r) /\ (t.op = "but" => Nots(t.r) = 0)

\* No position is used in two documents.
Spread == \A d, e \in docs : Pos(d) = Pos(e) => Url(d) = Url(e)
\* Every word is at most once in the document.
Once(u) == \A d, e \in In(docs, {u}) : d[3] = e[3] => d = e

Ended == pc = "done" /\ query.tree.op # "none" /\ ("phrase" \in Ops(query.tree) => Spread)
Wanted == Urls(Meaning(query.tree))
Got == Urls(answer)

-----------------------------------------------------------------------------
(* Properties. *)

\* DpsPrepare and DpsCalcBoolItems together understand a query without a NOT as
\* the Boolean expression it is: whatever brackets are written, left out or
\* nested, in each search mode, the documents found are those that its words,
\* phrases and operators ask for.  For ANYWORD this is said of documents that
\* have each word once, for phrases when no two documents share a position.
Found ==
    Ended /\ Nots(query.tree) = 0 =>
        \A u \in Urls(docs) :
            ("any" \in Ops(query.tree) => Once(u)) => (u \in Got <=> u \in Wanted)

\* perform(AND) with a NOT never lets a document through that has what the
\* query excludes, and the read behind the end of the shorter list costs at
\* most one document for each NOT.
Excluded ==
    Ended /\ Single(query.tree) /\ "any" \notin Ops(query.tree) =>
        Got \subseteq Wanted /\ Cardinality(Wanted \ Got) <= Nots(query.tree)
=============================================================================
