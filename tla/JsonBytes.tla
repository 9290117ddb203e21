----------------------------- MODULE JsonBytes ------------------------------
(***************************************************************************)
(* JSON_Validate against the grammar of JSON.  A buffer arrives in pieces; *)
(* what the reader says of each is compared with a definition of JSON that *)
(* splits the buffer instead of scanning it (ECMA-404, and the table of    *)
(* well-formed UTF-8 sequences of the Unicode standard).                   *)
(***************************************************************************)
EXTENDS CoreJson

CONSTANT MaxPieces   \* bound: pieces of a number or a document

VARIABLES family, buf, left

vars == <<family, buf, left>>

\* -------------------------------------------------------- families of buffers

Bytes(S) == {<<c>> : c \in S}

\* A first piece, what may follow, and how often.
Family(start, pieces, len) == [start |-> start, pieces |-> pieces, len |-> len]

Hex(a, b, c, d) == <<BackSlash, LowerU, a, b, c, d>>

\* Digits, signs, points and exponents in every order.
Numbers == Family(<<>>, Bytes({Minus, Plus, Zero, Zero + 1, Dot, LowerE, Space}), MaxPieces)

\* A string with bytes at the ends of the ranges UTF-8 tells apart.
Utf8(lead) ==
    Family(<<Quote, lead>>,
           Bytes({Quote, LowerA, 127, 128, 143, 144, 159, 160, 191, 192}), IF lead < 240 THEN 3 ELSE 4)

\* Escapes at the ends of the surrogate ranges, whole and cut short.
Escapes ==
    Family(<<Quote>>,
           {<<Quote>>, <<BackSlash>>, <<LowerU>>, <<BackSlash, LowerN>>,
            <<BackSlash, NewLine>>, <<BackSlash, LowerA>>, <<NewLine>>,
            Hex(Zero, Zero, Zero, Zero), Hex(Zero, Zero, Zero, LowerF),
            Hex(68, 55, 70, 70), Hex(68, 56, Zero, Zero), Hex(100, 98, 102, 102),
            Hex(68, 67, Zero, Zero), Hex(68, 70, 70, 70), Hex(69, Zero, Zero, Zero),
            Hex(Zero, 71, Zero, Zero)}, 3)

Key == <<Quote, LowerA, Quote>>

\* Brackets, commas, colons and scalars in every order.
Structure ==
    Family(<<>>, {<<CurlyOpen>>, <<CurlyClose>>, <<SquareOpen>>, <<SquareClose>>,
                  <<Comma>>, <<Colon>>, <<Space>>, <<Zero>>, Key}, MaxPieces)

\* The same inside an object whose first pair is there already, and a literal.
Inside ==
    Family(<<CurlyOpen>> \o Key \o <<Colon>>,
           {<<CurlyOpen>>, <<CurlyClose>>, <<SquareOpen>>, <<SquareClose>>,
            <<Comma>>, <<Comma>> \o Key \o <<Colon>>, <<Space>>, True}, MaxPieces)

Families == {Numbers, Escapes, Structure, Inside}
            \cup {Utf8(l) : l \in {193, 194, 224, 237, 240, 244, 245}}

\* Messages come from the server's WebSocket: any bytes, in any order.
Init ==
    \E f \in Families :
        /\ family = f
        /\ buf = f.start
        /\ left = f.len

More ==
    /\ left > 0
    /\ \E p \in family.pieces : buf' = buf \o p
    /\ left' = left - 1
    /\ UNCHANGED family

Next == More

Spec == Init /\ [][Next]_vars

\* -------------------------------------------------------- the grammar of JSON

Spaces(s) == \A k \in DOMAIN s : isspace(s[k])

\* s without the white space around it.
Trim(s) ==
    IF Spaces(s) THEN <<>>
    ELSE LET solid == {k \in DOMAIN s : ~isspace(s[k])}
         IN  SubSeq(s, Min(solid), Max(solid))

Digits(s) == s # <<>> /\ \A k \in DOMAIN s : s[k] \in Zero..Nine

Integral(s) ==
    LET m == IF s # <<>> /\ s[1] = Minus THEN Tail(s) ELSE s
    IN  Digits(m) /\ (m[1] = Zero => Len(m) = 1)

Fraction(s) == s = <<>> \/ (s[1] = Dot /\ Digits(Tail(s)))

Exponent(s) ==
    \/ s = <<>>
    \/ /\ s[1] \in {LowerE, UpperE}
       /\ \/ Digits(Tail(s))
          \/ Len(s) > 1 /\ s[2] \in {Plus, Minus} /\ Digits(Tail(Tail(s)))

IsNumber(s) ==
    \E i, j \in 0..Len(s) :
        /\ i <= j
        /\ Integral(SubSeq(s, 1, i))
        /\ Fraction(SubSeq(s, i + 1, j))
        /\ Exponent(SubSeq(s, j + 1, Len(s)))

\* The well-formed byte sequences of one code point above U+007F.
WellFormed(u) ==
    \E row \in {<<194..223, 128..191>>, <<{224}, 160..191, 128..191>>,
                <<225..236, 128..191, 128..191>>, <<{237}, 128..159, 128..191>>,
                <<238..239, 128..191, 128..191>>,
                <<{240}, 144..191, 128..191, 128..191>>,
                <<241..243, 128..191, 128..191, 128..191>>,
                <<{244}, 128..143, 128..191, 128..191>>} :
        Len(row) = Len(u) /\ \A k \in DOMAIN u : u[k] \in row[k]

HexOf(u) ==
    ((hexToInt(u[3]) * 16 + hexToInt(u[4])) * 16 + hexToInt(u[5])) * 16 + hexToInt(u[6])

IsHex(u) ==
    /\ Len(u) = 6 /\ u[1] = BackSlash /\ u[2] = LowerU
    /\ \A k \in 3..6 : hexToInt(u[k]) < 16

\* What stands for one character between the quotes.  Two choices of the code are
\* part of it: \u0000 is refused, and a control character may be escaped.
IsUnit(u) ==
    \/ Len(u) = 1 /\ u[1] \in 32..127 \ {Quote, BackSlash}
    \/ WellFormed(u)
    \/ Len(u) = 2 /\ u[1] = BackSlash /\ u[2] \in Escapable \cup 1..31
    \/ IsHex(u) /\ HexOf(u) # 0 /\ HexOf(u) \notin 55296..57343
    \/ /\ Len(u) = 12
       /\ IsHex(SubSeq(u, 1, 6)) /\ HexOf(SubSeq(u, 1, 6)) \in 55296..56319
       /\ IsHex(SubSeq(u, 7, 12)) /\ HexOf(SubSeq(u, 7, 12)) \in 56320..57343

RECURSIVE IsText(_)
IsText(s) ==
    \/ s = <<>>
    \/ \E n \in {1, 2, 3, 4, 6, 12} :
          /\ n <= Len(s)
          /\ IsUnit(SubSeq(s, 1, n))
          /\ IsText(SubSeq(s, n + 1, Len(s)))

IsString(s) ==
    /\ Len(s) >= 2 /\ s[1] = Quote /\ s[Len(s)] = Quote
    /\ IsText(SubSeq(s, 2, Len(s) - 1))

IsScalar(s) == s \in {True, False, Null} \/ IsNumber(s) \/ IsString(s)

\* A value without white space around it; the inside of a collection is empty or
\* a list of items between commas.
RECURSIVE IsValue(_), IsMember(_), IsList(_, _)
IsValue(s) ==
    \/ IsScalar(s)
    \/ /\ Len(s) >= 2
       /\ isMatchingBracket(s[1], s[Len(s)])
       /\ LET inside == SubSeq(s, 2, Len(s) - 1)
          IN  Spaces(inside) \/ IsList(inside, s[1])

IsMember(s) ==
    \E k \in DOMAIN s :
        /\ s[k] = Colon
        /\ IsString(Trim(SubSeq(s, 1, k - 1)))
        /\ IsValue(Trim(SubSeq(s, k + 1, Len(s))))

IsList(s, open) ==
    LET Item(t) == IF open = SquareOpen THEN IsValue(Trim(t)) ELSE IsMember(t)
    IN  \/ Item(s)
        \/ \E k \in DOMAIN s :
              /\ s[k] = Comma
              /\ Item(SubSeq(s, 1, k - 1))
              /\ IsList(SubSeq(s, k + 1, Len(s)), open)

IsDocument(s) == IsValue(Trim(s))

\* How many brackets of s are open at most.
Depth(s) ==
    LET Open(n) == Len(SelectSeq(SubSeq(s, 1, n), isOpenBracket))
                   - Len(SelectSeq(SubSeq(s, 1, n), isCloseBracket))
    IN  Max({Open(n) : n \in 0..Len(s)})

IsCollection(s) == s # <<>> /\ isOpenBracket(s[1])

\* ---------------------------------------------------------------- properties

\* The reader takes a string, a number or a literal exactly when it is one: UTF-8
\* in its shortest form, surrogates in pairs, no superfluous zero (skipString,
\* skipNumber, skipAnyLiteral, JSON_Validate).
ScalarsExact ==
    ~IsCollection(Trim(buf)) =>
        (JSON_Validate(buf) = "JSONSuccess" <=> IsScalar(Trim(buf)))

\* Every JSON document is taken, unless its brackets nest too deep, and then that
\* is what the reader says (skipCollection).
DocumentsTaken ==
    IsDocument(buf) =>
        JSON_Validate(buf) = IF Depth(buf) > JSON_MAX_DEPTH
                             THEN "JSONMaxDepthExceeded" ELSE "JSONSuccess"

\* A collection that is complete is final: what follows it does not turn it into
\* another document, and only white space leaves it a document (the end of
\* JSON_Validate).
CompleteIsFinal ==
    \A k \in DOMAIN buf :
        (isCloseBracket(buf[k]) /\ JSON_Validate(SubSeq(buf, 1, k)) = "JSONSuccess") =>
            (JSON_Validate(buf) = "JSONSuccess" <=> Spaces(SubSeq(buf, k + 1, Len(buf))))

\* Only JSON is taken: core_json.h:68 says JSON_Validate returns JSONSuccess "if
\* the buffer contents are valid JSON" and JSONIllegalDocument if they "are NOT
\* valid JSON".
OnlyDocumentsTaken == JSON_Validate(buf) = "JSONSuccess" => IsDocument(buf)

\* What is called illegal cannot be completed: core_json.h:73 says JSONPartial is
\* returned "if the buffer contents are potentially valid but incomplete".
IllegalIsFinal ==
    [][JSON_Validate(buf) = "JSONIllegalDocument" => ~IsDocument(buf')]_vars
=============================================================================
