------------------------------ MODULE CoreJson ------------------------------
(***************************************************************************)
(* The coreJSON reader of barertc (barertc/src/brtc/core_json.c), through  *)
(* which RTCConnection.c reads every answer and event of the Janus server. *)
(* The functions are pure, so each one is an operator on a buffer b, a     *)
(* sequence of byte values; the C parameter max is Len(b), and a position  *)
(* is counted from 0 as in the code.  A function that advances *start      *)
(* returns the new position, or Fail where the code returns false and      *)
(* leaves *start alone.                                                    *)
(***************************************************************************)
EXTENDS Integers, Sequences, SequencesExt

CONSTANTS JSON_MAX_DEPTH,   \* brackets that may be open at once
          MAX_INDEX_VALUE   \* the largest index of a query, 2^31 - 9: the code
                            \* relies on its last digit being 9

Fail == -1

\* The bytes the reader tells apart.
Tab == 9
NewLine == 10
Return == 13
Space == 32
Quote == 34
Plus == 43
Comma == 44
Minus == 45
Dot == 46
Slash == 47
Zero == 48
Nine == 57
Colon == 58
UpperA == 65
UpperE == 69
SquareOpen == 91
BackSlash == 92
SquareClose == 93
LowerA == 97
LowerB == 98
LowerE == 101
LowerF == 102
LowerL == 108
LowerN == 110
LowerR == 114
LowerS == 115
LowerT == 116
LowerU == 117
CurlyOpen == 123
CurlyClose == 125

True == <<LowerT, LowerR, LowerU, LowerE>>

False == <<LowerF, LowerA, LowerL, LowerS, LowerE>>

Null == <<LowerN, LowerU, LowerL, LowerL>>

At(b, i) == b[i + 1]

Has(b, i, c) == i < Len(b) /\ At(b, i) = c

isascii(c) == c < 128

iscntrl(c) == c < Space

isdigit(c) == c \in Zero..Nine

isspace(c) == c \in {Space, Tab, NewLine, Return}

isOpenBracket(c) == c \in {CurlyOpen, SquareOpen}

isCloseBracket(c) == c \in {CurlyClose, SquareClose}

isMatchingBracket(x, y) ==
    <<x, y>> \in {<<CurlyOpen, CurlyClose>>, <<SquareOpen, SquareClose>>}

\* The first position from i on whose byte fails Test; the end if there is none.
Beyond(b, i, Test(_)) ==
    CHOOSE j \in i..Len(b) :
        /\ j < Len(b) => ~Test(At(b, j))
        /\ \A k \in i..(j - 1) : Test(At(b, k))

skipSpace(b, i) == IF i >= Len(b) THEN i ELSE Beyond(b, i, isspace)

\* --------------------------------------------------------------- strings

countHighBits(c) ==
    CHOOSE n \in 0..8 :
        /\ c \div 2^(8 - n) = 2^n - 1
        /\ n < 8 => (c \div 2^(7 - n)) % 2 = 0

shortestUTF8(length, value) ==
    /\ value \in CASE length = 2 -> 2^7..(2^11 - 1)
                   [] length = 3 -> 2^11..(2^16 - 1)
                   [] OTHER      -> 2^16..1114111
    /\ value \notin 55296..57343

skipUTF8MultiByte(b, i) ==
    LET Sequence(c, n, rest) ==
            IF /\ c > 193 /\ c < 245
               /\ i + n <= Len(b)
               /\ \A k \in 1..(n - 1) : rest[k] \in 128..191
               /\ shortestUTF8(n, FoldLeft(LAMBDA v, d : (v * 64) + (d % 64),
                                           c % 2^(7 - n), rest))
            THEN i + n ELSE Fail
        Lead(c, n) == Sequence(c, n, SubSeq(b, i + 2, i + n))
    IN  Lead(At(b, i), countHighBits(At(b, i)))

skipUTF8(b, i) ==
    IF i >= Len(b) THEN Fail
    ELSE IF isascii(At(b, i)) THEN i + 1
    ELSE skipUTF8MultiByte(b, i)

NOT_A_HEX_CHAR == 16

hexToInt(c) ==
    CASE c \in LowerA..LowerF -> c - LowerA + 10
      [] c \in UpperA..(UpperA + 5) -> c - UpperA + 10
      [] isdigit(c) -> c - Zero
      [] OTHER -> NOT_A_HEX_CHAR

\* One \uXXXX: its four digits, or the empty sequence where there is none.
\* The test end < max asks for one byte more than the escape.
hexDigits(b, i) ==
    IF /\ i + 6 < Len(b)
       /\ At(b, i) = BackSlash /\ At(b, i + 1) = LowerU
       /\ \A k \in 2..5 : hexToInt(At(b, i + k)) # NOT_A_HEX_CHAR
    THEN [k \in 1..4 |-> hexToInt(At(b, i + 1 + k))]
    ELSE <<>>

\* The value of a \uXXXX, 0 for one that is refused: \u0000 is.
skipOneHexEscape(b, i) ==
    FoldLeft(LAMBDA v, n : ((v * 16) + n) % 2^16, 0, hexDigits(b, i))

isHighSurrogate(x) == x \in 55296..56319

isLowSurrogate(x) == x \in 56320..57343

skipHexEscape(b, i) ==
    LET After(value, second) ==
            CASE value = 0 -> Fail
              [] isHighSurrogate(value) -> IF isLowSurrogate(second) THEN i + 12 ELSE Fail
              [] isLowSurrogate(value) -> Fail
              [] OTHER -> i + 6
    IN  After(skipOneHexEscape(b, i), skipOneHexEscape(b, i + 6))

Escapable == {Quote, BackSlash, Slash, LowerB, LowerF, LowerN, LowerR, LowerT}

\* A backslash may also stand before a control character other than NUL.
skipEscape(b, i) ==
    IF i + 1 >= Len(b) \/ At(b, i) # BackSlash THEN Fail
    ELSE LET c == At(b, i + 1)
         IN  CASE c = 0 -> Fail
               [] c = LowerU -> skipHexEscape(b, i)
               [] c \in Escapable \/ iscntrl(c) -> i + 2
               [] OTHER -> Fail

\* The body of a string from position i: beyond its closing quote, or Fail.
RECURSIVE skipChars(_, _)
skipChars(b, i) ==
    IF i >= Len(b) THEN Fail
    ELSE IF At(b, i) = Quote THEN i + 1
    ELSE LET Rest(j) == IF j = Fail THEN Fail ELSE skipChars(b, j)
         IN  Rest(CASE At(b, i) = BackSlash -> skipEscape(b, i)
                    [] iscntrl(At(b, i)) -> Fail
                    [] OTHER -> skipUTF8(b, i))

skipString(b, i) == IF Has(b, i, Quote) THEN skipChars(b, i + 1) ELSE Fail

\* ------------------------------------------------- literals and numbers

skipLiteral(b, i, literal) ==
    IF i + Len(literal) <= Len(b) /\ SubSeq(b, i + 1, i + Len(literal)) = literal
    THEN i + Len(literal) ELSE Fail

skipAnyLiteral(b, i) ==
    Max({skipLiteral(b, i, l) : l \in {True, False, Null}})

skipDigits(b, i) ==
    IF i >= Len(b) \/ ~isdigit(At(b, i)) THEN Fail ELSE Beyond(b, i, isdigit)

\* The value skipDigits outputs for the digits from i to j: -1 once it passed
\* the largest index.
digitsValue(b, i, j) ==
    FoldLeft(LAMBDA v, c :
                CASE v <= -1 -> v
                  [] v <= MAX_INDEX_VALUE \div 10 -> v * 10 + hexToInt(c)
                  [] OTHER -> -1,
             0, SubSeq(b, i + 1, j))

skipDecimals(b, i) ==
    LET j == skipDigits(b, i + 1)
    IN  IF Has(b, i, Dot) /\ j # Fail THEN j ELSE i

skipExponent(b, i) ==
    LET k == IF Has(b, i + 1, Minus) \/ Has(b, i + 1, Plus) THEN i + 2 ELSE i + 1
        j == skipDigits(b, k)
    IN  IF (Has(b, i, LowerE) \/ Has(b, i, UpperE)) /\ j # Fail THEN j ELSE i

skipNumber(b, i) ==
    LET s == IF Has(b, i, Minus) THEN i + 1 ELSE i
        j == IF Has(b, s, Zero) THEN s + 1 ELSE skipDigits(b, s)
    IN  IF j = Fail THEN Fail ELSE skipExponent(b, skipDecimals(b, j))

\* The first byte decides which of the three can succeed; Fail is less than any
\* position.
skipAnyScalar(b, i) == Max({skipString(b, i), skipAnyLiteral(b, i), skipNumber(b, i)})

\* ------------------------------------------------------------ collections

\* White space is skipped whether or not a comma follows.
skipSpaceAndComma(b, i) ==
    LET s == skipSpace(b, i)
        j == skipSpace(b, s + 1)
    IN  IF Has(b, s, Comma) /\ j < Len(b) /\ ~isCloseBracket(At(b, j))
        THEN [comma |-> TRUE, i |-> j]
        ELSE [comma |-> FALSE, i |-> s]

\* The item that began at i ended at j: Rest reads on behind a comma.
afterItem(b, i, j, Rest(_, _)) ==
    LET n == skipSpaceAndComma(b, j)
    IN  IF j = Fail THEN i ELSE IF n.comma THEN Rest(b, n.i) ELSE n.i

RECURSIVE skipArrayScalars(_, _)
skipArrayScalars(b, i) ==
    IF i >= Len(b) THEN i ELSE afterItem(b, i, skipAnyScalar(b, i), skipArrayScalars)

\* *start only moves to a value that opens a bracket, or beyond a whole pair.
RECURSIVE skipObjectScalars(_, _)

\* The key of the pair at i ended at k.
afterKey(b, i, k) ==
    LET s == skipSpace(b, k)
        v == skipSpace(b, s + 1)
    IN  IF k = Fail \/ (s < Len(b) /\ At(b, s) # Colon) THEN i
        ELSE IF v < Len(b) /\ isOpenBracket(At(b, v)) THEN v
        ELSE afterItem(b, i, skipAnyScalar(b, v), skipObjectScalars)

skipObjectScalars(b, i) ==
    IF i >= Len(b) THEN i ELSE afterKey(b, i, skipString(b, i))

skipScalars(b, i, mode) ==
    LET s == skipSpace(b, i)
    IN  IF mode = SquareOpen THEN skipArrayScalars(b, s) ELSE skipObjectScalars(b, s)

RECURSIVE collection(_, _, _)

\* Mutant: after a nested collection the enclosing one is read as an array.
collection_Array(b, i, stack) ==
    LET c == At(b, i)
        depth == Len(stack) - 1
        n == skipSpaceAndComma(b, i + 1)
    IN  CASE i >= Len(b) -> [ret |-> "JSONPartial", i |-> i]
          [] i < Len(b) /\ isOpenBracket(c) ->
                IF Len(stack) = JSON_MAX_DEPTH
                THEN [ret |-> "JSONMaxDepthExceeded", i |-> i]
                ELSE collection(b, skipScalars(b, i + 1, c), Append(stack, c))
          [] i < Len(b) /\ isCloseBracket(c) ->
                IF depth > 0 /\ isMatchingBracket(Last(stack), c)
                THEN collection(b, IF n.comma THEN skipScalars(b, n.i, SquareOpen)
                                   ELSE n.i, Front(stack))
                ELSE [ret |-> IF depth = 0 THEN "JSONSuccess" ELSE "JSONIllegalDocument",
                      i |-> i + 1]
          [] OTHER -> [ret |-> "JSONIllegalDocument", i |-> i]

\* The loop of skipCollection at position i with the brackets of stack open.
collection(b, i, stack) ==
    LET c == At(b, i)
        depth == Len(stack) - 1
        n == skipSpaceAndComma(b, i + 1)
        outer == Front(stack)
    IN  CASE i >= Len(b) -> [ret |-> "JSONPartial", i |-> i]
          [] i < Len(b) /\ isOpenBracket(c) ->
                IF Len(stack) = JSON_MAX_DEPTH
                THEN [ret |-> "JSONMaxDepthExceeded", i |-> i]
                ELSE collection(b, skipScalars(b, i + 1, c), Append(stack, c))
          [] i < Len(b) /\ isCloseBracket(c) ->
                IF depth > 0 /\ isMatchingBracket(Last(stack), c)
                THEN collection(b, IF n.comma THEN skipScalars(b, n.i, Last(outer))
                                   ELSE n.i, outer)
                ELSE [ret |-> IF depth = 0 THEN "JSONSuccess" ELSE "JSONIllegalDocument",
                      i |-> i + 1]
          [] OTHER -> [ret |-> "JSONIllegalDocument", i |-> i]

skipCollection(b, i) == collection(b, i, <<>>)

\* The value read ended as r says: only white space may follow it.
validated(b, r) ==
    IF r.ret = "JSONSuccess" /\ skipSpace(b, r.i) # Len(b) THEN "JSONIllegalDocument"
    ELSE r.ret

scalarOrCollection(b, i, j) ==
    IF j # Fail THEN [ret |-> "JSONSuccess", i |-> j] ELSE skipCollection(b, i)

anyValue(b, i) == scalarOrCollection(b, i, skipAnyScalar(b, i))

JSON_Validate(b) ==
    IF b = <<>> THEN "JSONBadParameter" ELSE validated(b, anyValue(b, skipSpace(b, 0)))

\* ----------------------------------------------------- search and iterate

\* A span [v, n] is n bytes from position v; NoSpan stands for false.
NoSpan == [v |-> Fail, n |-> 0]

\* The value at i, a scalar or a collection.
nextValue(b, i) ==
    LET Span(r) == IF r.ret = "JSONSuccess" THEN [v |-> i, n |-> r.i - i] ELSE NoSpan
    IN  Span(anyValue(b, i))

\* The pair at i: the span of its key without the quotes, and of its value.
nextKeyValuePair(b, i) ==
    LET Pair(k, s) ==
            IF k = Fail THEN [key |-> NoSpan, val |-> NoSpan]
            ELSE [key |-> [v |-> i + 1, n |-> k - i - 2],
                  val |-> IF Has(b, s, Colon) THEN nextValue(b, skipSpace(b, s + 1))
                          ELSE NoSpan]
        KeyEnd(k) == Pair(k, skipSpace(b, k))
    IN  KeyEnd(skipString(b, i))

RECURSIVE pairFrom(_, _, _)

\* The loop of objectSearch from the pair at position i.
pairFrom(b, i, key) ==
    LET Look(p) ==
            LET n == skipSpaceAndComma(b, p.val.v + p.val.n)
            IN  IF p.val = NoSpan THEN NoSpan
                ELSE IF SubSeq(b, p.key.v + 1, p.key.v + p.key.n) = key THEN p.val
                ELSE IF n.comma THEN pairFrom(b, n.i, key) ELSE NoSpan
    IN  IF i >= Len(b) THEN NoSpan ELSE Look(nextKeyValuePair(b, i))

objectSearch(b, key) ==
    LET s == skipSpace(b, 0)
    IN  IF Has(b, s, CurlyOpen) THEN pairFrom(b, skipSpace(b, s + 1), key) ELSE NoSpan

\* The loop of arraySearch from the value at position i, left of them to skip.
RECURSIVE valueFrom(_, _, _)
valueFrom(b, i, left) ==
    LET Look(p) ==
            LET n == skipSpaceAndComma(b, p.v + p.n)
            IN  IF p = NoSpan \/ left = 0 THEN p
                ELSE IF n.comma THEN valueFrom(b, n.i, left - 1) ELSE NoSpan
    IN  IF i >= Len(b) THEN NoSpan ELSE Look(nextValue(b, i))

arraySearch(b, queryIndex) ==
    LET s == skipSpace(b, 0)
    IN  IF Has(b, s, SquareOpen)
        THEN valueFrom(b, skipSpace(b, s + 1), queryIndex) ELSE NoSpan

isSeparator(c) == c = Dot

inQueryPart(c) == ~isSeparator(c) /\ c # SquareOpen

\* The loop of multiSearch: query from i on, in the n bytes of b from v on.
RECURSIVE searchFrom(_, _, _, _)
searchFrom(b, at, query, i) ==
    LET square == Has(query, i, SquareOpen)
        d == skipDigits(query, i + 1)
        queryIndex == IF d = Fail THEN -1 ELSE digitsValue(query, i + 1, d)
        part == Beyond(query, i, inQueryPart)
        bad == IF square THEN queryIndex < 0 \/ ~Has(query, d, SquareClose)
               ELSE part = i \/ part = Len(query) - 1
        next == IF square THEN d + 1 ELSE part
        here == SubSeq(b, at.v + 1, at.v + at.n)
        Into(found) ==
            IF found = NoSpan THEN [ret |-> "JSONNotFound", at |-> NoSpan]
            ELSE searchFrom(b, [v |-> at.v + found.v, n |-> found.n], query,
                            IF Has(query, next, Dot) THEN next + 1 ELSE next)
    IN  IF i >= Len(query) THEN [ret |-> "JSONSuccess", at |-> at]
        ELSE IF bad THEN [ret |-> "JSONBadParameter", at |-> NoSpan]
        ELSE Into(IF square THEN arraySearch(here, queryIndex)
                  ELSE objectSearch(here, SubSeq(query, i + 1, part)))

multiSearch(b, query) == searchFrom(b, [v |-> 0, n |-> Len(b)], query, 0)

\* A string is output without its quotes.
Stripped(b, at) ==
    IF At(b, at.v) = Quote THEN [v |-> at.v + 1, n |-> at.n - 2] ELSE at

\* The status and, on success, the bytes *outValue points to.
JSON_SearchConst(b, query) ==
    LET Result(r) ==
            LET out == Stripped(b, r.at)
            IN  [ret |-> r.ret,
                 out |-> IF r.ret = "JSONSuccess"
                         THEN SubSeq(b, out.v + 1, out.v + out.n) ELSE <<>>]
    IN  IF b = <<>> \/ query = <<>> THEN [ret |-> "JSONBadParameter", out |-> <<>>]
        ELSE Result(multiSearch(b, query))

\* One call of JSON_Iterate: the status, the bytes of key and value, and the
\* caller's start and next afterwards.
iterate(b, start, next) ==
    LET Failed(ret) ==
            [ret |-> ret, start |-> start, next |-> next, key |-> <<>>, val |-> <<>>]
        Found(p) ==
            LET out == Stripped(b, p.val)
            IN  IF p.val = NoSpan THEN Failed("JSONNotFound")
                ELSE [ret |-> "JSONSuccess", start |-> start,
                      next |-> skipSpaceAndComma(b, p.val.v + p.val.n).i,
                      key |-> SubSeq(b, p.key.v + 1, p.key.v + p.key.n),
                      val |-> SubSeq(b, out.v + 1, out.v + out.n)]
    IN  IF start >= Len(b) THEN Failed("JSONNotFound")
        ELSE IF ~isOpenBracket(At(b, start)) THEN Failed("JSONIllegalDocument")
        ELSE Found(IF At(b, start) = SquareOpen
                   THEN [key |-> [v |-> 0, n |-> 0], val |-> nextValue(b, next)]
                   ELSE nextKeyValuePair(b, next))

JSON_Iterate(b, start, next) ==
    LET s == skipSpace(b, start)
    IN  IF b = <<>> \/ start >= Len(b) \/ next > Len(b)
        THEN [ret |-> "JSONBadParameter", start |-> start, next |-> next,
              key |-> <<>>, val |-> <<>>]
        ELSE iterate(b, s, IF next <= s THEN skipSpace(b, s + 1) ELSE next)
=============================================================================
