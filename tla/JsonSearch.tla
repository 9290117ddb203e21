----------------------------- MODULE JsonSearch -----------------------------
(***************************************************************************)
(* JSON_Search and JSON_Iterate against the tree a document is written     *)
(* from.  A behaviour builds a tree from the top, one value at a time; the *)
(* finished tree is written out, and what the reader finds in the bytes is *)
(* compared with what a walk down the tree finds.                          *)
(***************************************************************************)
EXTENDS CoreJson

CONSTANTS MaxItems,  \* items of a collection
          MaxNest    \* collections within one another

VARIABLES tree, gap

vars == <<tree, gap>>

\* ------------------------------------------------------ documents and queries

A == <<LowerA>>
AB == <<LowerA, LowerB>>

Keys == {A, AB}

\* A bracket in a string is no bracket.
Scalars == {<<Quote, SquareClose, LowerA, Quote>>}

\* White space written around every token of a document.
Gaps == {<<Space, NewLine>>}

Step(kind, key, index) == [kind |-> kind, key |-> key, index |-> index]

Steps == {Step("key", A, 0), Step("key", AB, 0), Step("index", <<>>, 0),
          Step("index", <<>>, 1), Step("index", <<>>, 20)}

Queries == UNION {TupleOf(Steps, n) : n \in 1..2}

Leaf(s) == [kind |-> "scalar", text |-> s, names |-> <<>>, items |-> <<>>]

Hole == [kind |-> "hole", text |-> <<>>, names |-> <<>>, items |-> <<>>]

Collection(kind, names, n) ==
    [kind |-> kind, text |-> <<>>, names |-> names, items |-> [k \in 1..n |-> Hole]]

\* The values that can stand where a hole is.
Shapes(nest) ==
    {Leaf(s) : s \in Scalars} \cup
    (IF nest = 0 THEN {}
     ELSE {Collection("array", <<>>, n) : n \in 0..MaxItems} \cup
          {Collection("object", names, Len(names)) : names \in BoundedSeq(Keys, MaxItems)})

RECURSIVE HasHole(_)
HasHole(t) == t.kind = "hole" \/ \E k \in DOMAIN t.items : HasHole(t.items[k])

\* The trees that come of filling the first hole of t.
RECURSIVE Filled(_, _)
Filled(t, nest) ==
    IF t.kind = "hole" THEN Shapes(nest)
    ELSE LET k == Min({j \in DOMAIN t.items : HasHole(t.items[j])})
         IN  {[t EXCEPT !.items[k] = u] : u \in Filled(t.items[k], nest - 1)}

Init == tree = Hole /\ gap \in Gaps

Fill == HasHole(tree) /\ tree' \in Filled(tree, MaxNest) /\ UNCHANGED gap

Next == Fill

Spec == Init /\ [][Next]_vars

\* ------------------------------------------------------- writing a document

Token(c) == gap \o <<c>> \o gap

Between(parts) ==
    FoldLeftDomain(LAMBDA s, k : (IF k = 1 THEN <<>> ELSE s \o Token(Comma)) \o parts[k],
                   <<>>, parts)

RECURSIVE Text(_)
Text(t) ==
    CASE t.kind = "scalar" -> t.text
      [] t.kind = "array" ->
            Token(SquareOpen) \o Between([k \in DOMAIN t.items |-> Text(t.items[k])])
            \o gap \o <<SquareClose>>
      [] OTHER ->
            Token(CurlyOpen)
            \o Between([k \in DOMAIN t.items |->
                           <<Quote>> \o t.names[k] \o <<Quote>> \o Token(Colon) \o Text(t.items[k])])
            \o gap \o <<CurlyClose>>

\* What the reader outputs for a value: a string without its quotes.
Output(t) ==
    LET s == Text(t)
    IN  IF t.kind = "scalar" /\ s[1] = Quote THEN SubSeq(s, 2, Len(s) - 1)
        ELSE SubSeq(s, IF t.kind = "scalar" THEN 1 ELSE Len(gap) + 1, Len(s))

\* ---------------------------------------------------------------- references

\* The value a path of steps leads to: the first member of that name, or the item
\* at that index; Hole where there is none.
RECURSIVE Walk(_, _)
Walk(t, path) ==
    IF path = <<>> THEN t
    ELSE LET step == Head(path)
             hits == IF step.kind = "key"
                     THEN {k \in DOMAIN t.items : t.kind = "object" /\ t.names[k] = step.key}
                     ELSE {k \in DOMAIN t.items : t.kind = "array" /\ k = step.index + 1}
         IN  IF hits = {} THEN Hole ELSE Walk(t.items[Min(hits)], Tail(path))

Expected(there) ==
    IF there.kind = "hole" THEN [ret |-> "JSONNotFound", out |-> <<>>]
    ELSE [ret |-> "JSONSuccess", out |-> Output(there)]

Digit(n) == <<Zero + n>>

Number(n) == IF n < 10 THEN Digit(n) ELSE Digit(n \div 10) \o Digit(n % 10)

\* A path as the text of a query: key.key[index].
QueryText(path) ==
    FoldLeftDomain(LAMBDA s, k :
                      s \o (IF path[k].kind = "key"
                            THEN (IF k = 1 THEN <<>> ELSE <<Dot>>) \o path[k].key
                            ELSE <<SquareOpen>> \o Number(path[k].index) \o <<SquareClose>>),
                   <<>>, path)

TooLarge(path) ==
    \E k \in DOMAIN path : path[k].kind = "index" /\ path[k].index > MAX_INDEX_VALUE

\* The calls of a caller that iterates over the collection in b, from the given
\* positions, until the status is not JSONSuccess.
RECURSIVE Calls(_, _, _)
Calls(b, start, next) ==
    LET Then(r) ==
            IF r.ret # "JSONSuccess" THEN <<r>> ELSE <<r>> \o Calls(b, r.start, r.next)
    IN  Then(JSON_Iterate(b, start, next))

\* ---------------------------------------------------------------- properties

\* A search of a complete document finds the value the path leads to in its tree,
\* the first of two members with one name, and nothing where the tree has nothing
\* (JSON_SearchConst, multiSearch, objectSearch, arraySearch).
SearchFinds ==
    ~HasHole(tree) =>
        \A path \in Queries :
            ~TooLarge(path) =>
                JSON_SearchConst(Text(tree), QueryText(path)) = Expected(Walk(tree, path))

\* An index the reader cannot hold is refused where the search comes to it, never
\* taken for another one (skipDigits, multiSearch).
LargeIndexRefused ==
    ~HasHole(tree) =>
        \A path \in Queries :
            TooLarge(path) =>
                LET large == Min({k \in DOMAIN path : TooLarge(<<path[k]>>)})
                    before == Walk(tree, SubSeq(path, 1, large - 1))
                IN  JSON_SearchConst(Text(tree), QueryText(path)).ret
                        = IF before.kind = "hole" THEN "JSONNotFound" ELSE "JSONBadParameter"

\* Iterating over a collection gives its items in order, each once, and then
\* JSONNotFound (JSON_Iterate, iterate, nextKeyValuePair).
IterateGivesAll ==
    (~HasHole(tree) /\ tree.kind # "scalar") =>
        LET GivesAll(calls) ==
                /\ Len(calls) = Len(tree.items) + 1
                /\ calls[Len(calls)].ret = "JSONNotFound"
                /\ \A k \in DOMAIN tree.items :
                      /\ calls[k].val = Output(tree.items[k])
                      /\ tree.kind = "object" => calls[k].key = tree.names[k]
        IN  GivesAll(Calls(Text(tree), 0, 0))

\* A query that ends in a separator is refused: core_json.h:130 says JSON_Search
\* returns JSONBadParameter "if the query is empty, or the portion after a
\* separator is empty".
EmptyPartRefused ==
    ~HasHole(tree) =>
        \A path \in Queries :
            Walk(tree, path).kind # "hole" =>
                JSON_SearchConst(Text(tree), QueryText(path) \o <<Dot>>).ret = "JSONBadParameter"
=============================================================================
