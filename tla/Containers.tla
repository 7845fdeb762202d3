----------------------------- MODULE Containers -----------------------------
(***************************************************************************)
(* Values made of other values, and the rows of a COPY: arrays             *)
(* (psycopg/types/array.py and psycopg_c/types/array.pyx), composites      *)
(* (composite.py), ranges and multiranges (range.py, multirange.py),       *)
(* hstore (hstore.py), rows (psycopg/_copy_base.py and                     *)
(* psycopg_c/_psycopg/copy.pyx).                                           *)
(*                                                                         *)
(* The items are texts already; what is modelled is how they are quoted,   *)
(* escaped and separated, and how they are found again.  A text is a       *)
(* sequence of characters; a word that means something ("NULL", "empty",   *)
(* "=>") is one character.  The client dumps an object, the server reads   *)
(* it and writes it in its own way, the client loads it.                   *)
(***************************************************************************)
EXTENDS Integers, Sequences, SequencesExt, FiniteSetsExt

CONSTANTS
    Alphabet,       \* the characters of the items of each type
    MaxLen,         \* how many in an item
    Besides,        \* the items that are next to another
    Delimiters      \* the delimiters of arrays

ASSUME ContainersAssumption == MaxLen \in Nat /\ "," \in Delimiters

VARIABLE cont       \* the object on its way: see ContInit

Null == <<"(null)">>
Broken == <<"(error)">>    \* an exception

Texts(type) == UNION {[1..n -> Alphabet[type]] : n \in 0..MaxLen}
Items(type) == Texts(type) \cup {Null}

ContInit ==
    cont = [at |-> "start", type |-> "", obj |-> <<>>, how |-> "", stored |-> <<>>,
            back |-> <<>>]

\* A text without its first n characters, and without a comma at its start
From(s, n) == SubSeq(s, n + 1, Len(s))
SkipComma(s) == IF s # <<>> /\ s[1] = "," THEN Tail(s) ELSE s

\* How many characters come before the first of a set
Prefix(s, stops) == Min({Len(s)} \cup {i - 1 : i \in {j \in DOMAIN s : s[j] \in stops}})

Has(s, chars) == \E i \in DOMAIN s : s[i] \in chars

Escapes == {"\"", "\\"}

\* re.sub() of a quote or backslash with itself after a backslash, or doubled
Escaped(s) == FlattenSeq([i \in DOMAIN s |->
                            IF s[i] \in Escapes THEN <<"\\", s[i]>> ELSE <<s[i]>>])
Doubled(s) == FlattenSeq([i \in DOMAIN s |->
                            IF s[i] \in Escapes THEN <<s[i], s[i]>> ELSE <<s[i]>>])
InQuotes(s) == <<"\"">> \o s \o <<"\"">>

\* Their inverses
RECURSIVE Unescape(_)
Unescape(s) ==
    IF s = <<>> THEN <<>>
    ELSE IF s[1] = "\\" /\ Len(s) > 1 THEN <<s[2]>> \o Unescape(From(s, 2))
    ELSE <<s[1]>> \o Unescape(Tail(s))

RECURSIVE Undouble(_)
Undouble(s) ==
    IF s = <<>> THEN <<>>
    ELSE IF s[1] \in Escapes /\ Len(s) > 1 /\ s[2] = s[1]
         THEN <<s[1]>> \o Undouble(From(s, 2))
    ELSE <<s[1]>> \o Undouble(Tail(s))

\* Where the quote that closes a string is, from i; 0 if nowhere
RECURSIVE CloseEscaped(_, _)
CloseEscaped(s, i) ==
    CASE i > Len(s) -> 0
      [] s[i] = "\\" -> CloseEscaped(s, i + 2)
      [] s[i] = "\"" -> i
      [] OTHER -> CloseEscaped(s, i + 1)

RECURSIVE CloseDoubled(_, _)
CloseDoubled(s, i) ==
    CASE i > Len(s) -> 0
      [] s[i] = "\"" -> IF i < Len(s) /\ s[i + 1] = "\"" THEN CloseDoubled(s, i + 2) ELSE i
      [] OTHER -> CloseDoubled(s, i + 1)

-----------------------------------------------------------------------------
(***************************************************************************)
(* Arrays.  A list is a node, an item a leaf.                              *)
(***************************************************************************)
Node(kids) == [list |-> TRUE, text |-> <<>>, kids |-> kids]
Leaf(v) == [list |-> FALSE, text |-> v, kids |-> <<>>]
NullWords == {<<"NULL">>, <<"null">>}

\* _get_needs_quotes_regexp()
NeedsQuotes(s, delim) ==
    s = <<>> \/ s \in NullWords \/ Has(s, {"\"", "{", "}", "\\", " ", "\t", "\n", delim})

DumpItem(v, delim) ==
    IF v = Null THEN <<"NULL">>
    ELSE IF NeedsQuotes(v, delim) THEN InQuotes(Escaped(v)) ELSE v

\* ListDumper.dump()
RECURSIVE DumpList(_, _)
DumpList(node, delim) ==
    IF node.kids = <<>> THEN <<"{", "}">>
    ELSE LET dumped(kid) == IF kid.list THEN DumpList(kid, delim) ELSE DumpItem(kid.text, delim)
         IN  <<"{">> \o Front(FlattenSeq([i \in DOMAIN node.kids |->
                                            Append(dumped(node.kids[i]), delim)])) \o <<"}">>

\* The tokens of an array: brackets, items, or "error"
Bracket(c) == <<[kind |-> c, value |-> <<>>]>>
Item(v) == <<[kind |-> "item", value |-> v]>>

\* _get_array_parse_regexp(): what it does not match is skipped; the comma after
\* a token is skipped whatever the delimiter.
RECURSIVE Tokens(_, _)
Tokens(s, delim) ==
    IF s = <<>> THEN <<>>
    ELSE CASE s[1] \in {"{", "}"} -> Bracket(s[1]) \o Tokens(SkipComma(Tail(s)), delim)
           [] s[1] = "\"" /\ CloseEscaped(s, 2) > 0 ->
                LET n == CloseEscaped(s, 2)
                IN  Item(Unescape(SubSeq(s, 2, n - 1))) \o Tokens(SkipComma(From(s, n)), delim)
           [] s[1] \notin {"\"", "\\", delim} ->
                LET n == Prefix(s, {"\"", "{", "}", delim, "\\"})
                    t == SubSeq(s, 1, n)
                IN  Item(IF t = <<"NULL">> THEN Null ELSE t)
                      \o Tokens(SkipComma(From(s, n)), delim)
           [] OTHER -> Tokens(Tail(s), delim)

Escaping(c, escaped) == c = "\\" /\ ~escaped

\* _parse_token(): the delimiter or bracket that ends a token in C
RECURSIVE TokenEnd(_, _, _, _, _)
TokenEnd(s, i, delim, quoted, escaped) ==
    CASE i > Len(s) -> 0
      [] s[i] \in {delim, "}"} /\ ~quoted -> i
      [] Escaping(s[i], escaped) -> TokenEnd(s, i + 1, delim, quoted, TRUE)
      [] OTHER -> TokenEnd(s, i + 1, delim, quoted /\ (s[i] # "\"" \/ escaped), FALSE)

RECURSIVE TokensC(_, _)
TokensC(s, delim) ==
    IF s = <<>> THEN <<>>
    ELSE CASE s[1] \in {"{", "}"} -> Bracket(s[1]) \o TokensC(Tail(s), delim)
           [] s[1] = delim -> TokensC(Tail(s), delim)
           [] OTHER ->
                LET quotes == IF s[1] = "\"" THEN 1 ELSE 0
                    end == TokenEnd(s, 1 + quotes, delim, quotes = 1, FALSE)
                    t == SubSeq(s, 1 + quotes, end - 1 - quotes)
                IN  IF end = 0 THEN Bracket("error")
                    ELSE Item(IF quotes = 0 /\ t = <<"NULL">> THEN Null ELSE Unescape(t))
                           \o TokensC(From(s, end - 1), delim)

\* The loop over the tokens, with the stack of the lists that are open
Malformed == [stack |-> <<>>, rv |-> Leaf(Broken), bad |-> TRUE]

Added(stack, node) == [stack EXCEPT ![Len(stack)] = Append(@, node)]

Push(acc, token) ==
    CASE acc.bad \/ token.kind = "error" -> Malformed
      [] token.kind = "{" -> [acc EXCEPT !.stack = Append(@, <<>>)]
      [] acc.stack = <<>> -> Malformed
      [] token.kind = "}" ->
           LET node == Node(Last(acc.stack))
               rest == Front(acc.stack)
           IN  [acc EXCEPT !.stack = IF rest = <<>> THEN rest ELSE Added(rest, node),
                           !.rv = node]
      [] OTHER -> [acc EXCEPT !.stack = Added(@, Leaf(token.value))]

Built(tokens) ==
    FoldLeft(Push, [stack |-> <<>>, rv |-> Node(<<>>), bad |-> FALSE], tokens).rv

\* The dimensions that the server writes before an array not indexed from 1
NoDims(s) == IF s[1] = "[" THEN From(s, Prefix(s, {"="}) + 1) ELSE s

LoadArray(s, delim) == Built(Tokens(NoDims(s), delim))
LoadArrayC(s, delim) == Built(TokensC(NoDims(s), delim))

\* array_in() and array_out() of the server
RECURSIVE ServerTokens(_, _)
ServerTokens(s, delim) ==
    IF s = <<>> THEN <<>>
    ELSE CASE s[1] \in {"{", "}"} -> Bracket(s[1]) \o ServerTokens(Tail(s), delim)
           [] s[1] \in {delim, " "} -> ServerTokens(Tail(s), delim)
           [] s[1] = "\"" ->
                LET n == CloseEscaped(s, 2)
                IN  Item(Unescape(SubSeq(s, 2, n - 1))) \o ServerTokens(From(s, n), delim)
           [] OTHER ->
                LET n == Prefix(s, {"\"", "{", "}", delim, " "})
                    t == SubSeq(s, 1, n)
                IN  Item(IF t \in NullWords THEN Null ELSE Unescape(t))
                      \o ServerTokens(From(s, n), delim)

ArrayIn(s, delim) == Built(ServerTokens(s, delim))

RECURSIVE ArrayOut(_, _)
ArrayOut(node, delim) ==
    LET plain(v) == v # <<>> /\ v \notin NullWords
                    /\ ~Has(v, {"{", "}", "\"", "\\", delim, " ", "\t", "\n"})
        out(kid) == IF kid.list THEN ArrayOut(kid, delim)
                    ELSE IF kid.text = Null THEN <<"NULL">>
                    ELSE IF plain(kid.text) THEN kid.text
                    ELSE InQuotes(Escaped(kid.text))
    IN  IF node.kids = <<>> THEN <<"{", "}">>
        ELSE <<"{">> \o Front(FlattenSeq([i \in DOMAIN node.kids |->
                                            Append(out(node.kids[i]), delim)])) \o <<"}">>

\* ListBinaryDumper.dump(): the dimensions are those of the first items; an item
\* that does not agree with them is an error.
RECURSIVE CalcDims(_)
CalcDims(node) ==
    CASE ~node.list -> <<>>
      [] node.kids = <<>> -> <<0>>
      [] OTHER -> <<Len(node.kids)>> \o CalcDims(node.kids[1])

WrongLength(node, n) == n = 0 \/ Len(node.kids) # n

RECURSIVE FlatItems(_, _, _)
FlatItems(node, dims, dim) ==
    IF WrongLength(node, dims[dim]) THEN <<Broken>>
    ELSE IF dim = Len(dims)
    THEN [i \in DOMAIN node.kids |-> IF node.kids[i].list THEN Broken ELSE node.kids[i].text]
    ELSE FlattenSeq([i \in DOMAIN node.kids |->
           IF node.kids[i].list THEN FlatItems(node.kids[i], dims, dim + 1) ELSE <<Broken>>])

DumpArrayBinary(node) ==
    IF node.kids = <<>> THEN [dims |-> <<>>, items |-> <<>>]
    ELSE [dims |-> CalcDims(node), items |-> FlatItems(node, CalcDims(node), 1)]

\* _load_binary(): the items are gathered from the last dimension to the second
RECURSIVE Gather(_, _)
Gather(nodes, dims) ==
    IF Len(dims) = 1 THEN nodes
    ELSE LET d == Last(dims)
         IN  Gather([i \in 1..(Len(nodes) \div d) |->
                       Node(SubSeq(nodes, (i - 1) * d + 1, i * d))], Front(dims))

LoadArrayBinary(wire) ==
    IF wire.dims = <<>> THEN Node(<<>>)
    ELSE Node(Gather([i \in DOMAIN wire.items |-> Leaf(wire.items[i])], wire.dims))

\* _array_load_binary_rec(): from the first to the last
Size(dims) == FoldLeft(LAMBDA a, b : a * b, 1, dims)

RECURSIVE LoadArrayRec(_, _)
LoadArrayRec(dims, items) ==
    LET each == Size(Tail(dims))
    IN  Node([i \in 1..dims[1] |->
                IF Len(dims) = 1 THEN Leaf(items[i])
                ELSE LoadArrayRec(Tail(dims), SubSeq(items, (i - 1) * each + 1, i * each))])

LoadArrayBinaryC(wire) ==
    IF wire.dims = <<>> THEN Node(<<>>) ELSE LoadArrayRec(wire.dims, wire.items)

-----------------------------------------------------------------------------
(***************************************************************************)
(* Composites: sequences of items                                          *)
(***************************************************************************)
RecordChars == {"\"", ",", "\\", " ", "\t", "\n", "(", ")"}

DumpField(v, chars) ==
    CASE v = Null -> <<>>
      [] v = <<>> -> <<"\"", "\"">>
      [] Has(v, chars) -> InQuotes(Doubled(v))
      [] OTHER -> v

\* _dump_text_sequence()
DumpRecord(seq) ==
    IF seq = <<>> THEN <<"(", ")">>
    ELSE <<"(">> \o Front(FlattenSeq([i \in DOMAIN seq |->
                                        Append(DumpField(seq[i], RecordChars), ",")])) \o <<")">>

\* MUTANT of FinalNull: what follows the last comma is forgotten.
FinalNull_Never(comma) == <<>>

FinalNull(comma) == IF comma THEN <<Null>> ELSE <<>>

\* _parse_text_record(): the matches of _re_tokenize, and a NULL at the end if the
\* last one ended with a comma
RECURSIVE Matches(_, _)
Matches(s, comma) ==
    IF s = <<>> THEN FinalNull(comma)
    ELSE CASE s[1] = "," -> <<Null>> \o Matches(Tail(s), TRUE)
           [] s[1] = "\"" /\ CloseDoubled(s, 2) > 0 ->
                LET n == CloseDoubled(s, 2)
                    rest == From(s, n)
                IN  <<Undouble(SubSeq(s, 2, n - 1))>>
                      \o Matches(SkipComma(rest), rest # SkipComma(rest))
           [] s[1] \in {"\"", ")"} -> Matches(Tail(s), comma)
           [] OTHER ->
                LET n == Prefix(s, {"\"", ",", ")"})
                    rest == From(s, n)
                IN  <<SubSeq(s, 1, n)>> \o Matches(SkipComma(rest), rest # SkipComma(rest))

LoadRecord(s) ==
    IF s = <<"(", ")">> THEN <<>> ELSE Matches(SubSeq(s, 2, Len(s) - 1), FALSE)

\* record_in() and record_out() of the server. A record of one column that is NULL
\* is written as one of no columns; the number of columns is known.
RECURSIVE ServerFields(_)
ServerFields(s) ==
    LET n == IF s # <<>> /\ s[1] = "\"" THEN CloseDoubled(s, 2) ELSE Prefix(s, {","})
        v == CASE n = 0 -> Null
               [] s[1] = "\"" -> Undouble(SubSeq(s, 2, n - 1))
               [] OTHER -> SubSeq(s, 1, n)
    IN  IF n < Len(s) THEN <<v>> \o ServerFields(From(s, n + 1)) ELSE <<v>>

RecordIn(s, columns) ==
    IF columns = 0 THEN <<>> ELSE ServerFields(SubSeq(s, 2, Len(s) - 1))

FieldOut(v, chars) ==
    IF v = Null THEN <<>>
    ELSE IF v = <<>> \/ Has(v, chars) THEN InQuotes(Doubled(v)) ELSE v

RecordOut(seq) ==
    IF seq = <<>> THEN <<"(", ")">>
    ELSE <<"(">> \o Front(FlattenSeq([i \in DOMAIN seq |->
           Append(FieldOut(seq[i], {"\"", "\\", "(", ")", ",", " ", "\t", "\n"}), ",")])) \o <<")">>

-----------------------------------------------------------------------------
(***************************************************************************)
(* Ranges.  NewRange is Range.__init__(): a bound that is missing is never *)
(* included.                                                               *)
(***************************************************************************)
EmptyRange == [lower |-> Null, upper |-> Null, lb |-> "", ub |-> ""]

NewRange(lower, upper, lb, ub) ==
    [lower |-> lower, upper |-> upper,
     lb |-> IF lower = Null THEN "(" ELSE lb, ub |-> IF upper = Null THEN ")" ELSE ub]

IsEmpty(r) == r.lb = ""

RangeChars == RecordChars \cup {"[", "]"}

\* dump_range_text()
DumpRange(r) ==
    IF IsEmpty(r) THEN <<"empty">>
    ELSE <<r.lb>> \o DumpField(r.lower, RangeChars) \o <<",">>
           \o DumpField(r.upper, RangeChars) \o <<r.ub>>

\* One of the bounds in _re_range: a quoted string, an unquoted one up to a stop,
\* or nothing
Bound(s, stops) ==
    IF s # <<>> /\ s[1] = "\"" /\ CloseDoubled(s, 2) > 0
    THEN [value |-> Undouble(SubSeq(s, 2, CloseDoubled(s, 2) - 1)),
          rest |-> From(s, CloseDoubled(s, 2))]
    ELSE LET n == Prefix(s, stops)
         IN  [value |-> IF n = 0 THEN Null ELSE SubSeq(s, 1, n), rest |-> From(s, n)]

\* load_range_text(): the range, and what follows it
LoadRange(s) ==
    IF s = <<"empty">> THEN [range |-> EmptyRange, rest |-> <<>>]
    ELSE LET lower == Bound(Tail(s), {"\"", ","})
             upper == Bound(From(lower.rest, 1), {"\"", ")", "]"})
         IN  IF s[1] \notin {"(", "["} \/ lower.rest = <<>> \/ lower.rest[1] # ","
                \/ upper.rest = <<>> \/ upper.rest[1] \notin {")", "]"}
             THEN [range |-> Broken, rest |-> <<>>]
             ELSE [range |-> NewRange(lower.value, upper.value, s[1], upper.rest[1]),
                   rest |-> Tail(upper.rest)]

\* MultirangeDumper.dump() and MultirangeLoader.load()
DumpMultirange(ranges) ==
    IF ranges = <<>> THEN <<"{", "}">>
    ELSE <<"{">> \o Front(FlattenSeq([i \in DOMAIN ranges |->
                                         Append(DumpRange(ranges[i]), ",")])) \o <<"}">>

RECURSIVE LoadRanges(_)
LoadRanges(s) ==
    LET r == LoadRange(s)
    IN  CASE r.rest = <<>> -> <<Broken>>
          [] r.rest[1] = "," -> <<r.range>> \o LoadRanges(Tail(r.rest))
          [] r.rest = <<"}">> -> <<r.range>>
          [] OTHER -> <<Broken>>

LoadMultirange(s) == IF s = <<"{", "}">> THEN <<>> ELSE LoadRanges(Tail(s))

\* dump_range_binary() and load_range_binary(): the flags of the head, and the
\* bounds that are there
DumpRangeBinary(r) ==
    IF IsEmpty(r) THEN [head |-> {"EMPTY"}, data |-> <<>>]
    ELSE [head |-> {f \in {"LB_INC", "UB_INC", "LB_INF", "UB_INF"} :
                      CASE f = "LB_INC" -> r.lb = "[" /\ r.lower # Null
                        [] f = "UB_INC" -> r.ub = "]" /\ r.upper # Null
                        [] f = "LB_INF" -> r.lower = Null
                        [] f = "UB_INF" -> r.upper = Null},
          data |-> SelectSeq(<<r.lower, r.upper>>, LAMBDA v : v # Null)]

LoadRangeBinary(w) ==
    IF "EMPTY" \in w.head THEN EmptyRange
    ELSE NewRange(IF "LB_INF" \in w.head THEN Null ELSE w.data[1],
                  IF "UB_INF" \in w.head THEN Null ELSE Last(w.data),
                  IF "LB_INC" \in w.head THEN "[" ELSE "(",
                  IF "UB_INC" \in w.head THEN "]" ELSE ")")

\* range_in() and range_out() of the server: a range that contains nothing is empty
ServerRange(r) ==
    IF ~IsEmpty(r) /\ r.lower = r.upper /\ r.lower # Null /\ <<r.lb, r.ub>> # <<"[", "]">>
    THEN EmptyRange ELSE r

RangeIn(s) ==
    IF s = <<"empty">> THEN EmptyRange
    ELSE LET body == SubSeq(s, 2, Len(s) - 1)
             fields == ServerFields(body)
         IN  ServerRange(NewRange(fields[1], fields[2], s[1], Last(s)))

RangeOut(r) ==
    IF IsEmpty(r) THEN <<"empty">>
    ELSE <<r.lb>> \o FieldOut(r.lower, RangeChars) \o <<",">>
           \o FieldOut(r.upper, RangeChars) \o <<r.ub>>

\* multirange_in() and multirange_out() of the server
RECURSIVE RangeEnd(_, _, _)
RangeEnd(s, i, quoted) ==
    IF s[i] \in {")", "]"} /\ ~quoted THEN i ELSE RangeEnd(s, i + 1, quoted # (s[i] = "\""))

RECURSIVE MultirangeIn(_)
MultirangeIn(s) ==
    IF s[1] \in {"{", ","} /\ s[2] # "}"
    THEN LET n == RangeEnd(s, 2, FALSE)
         IN  <<RangeIn(SubSeq(s, 2, n))>> \o MultirangeIn(From(s, n))
    ELSE <<>>

MultirangeOut(ranges) ==
    IF ranges = <<>> THEN <<"{", "}">>
    ELSE <<"{">> \o Front(FlattenSeq([i \in DOMAIN ranges |->
                                         Append(RangeOut(ranges[i]), ",")])) \o <<"}">>

-----------------------------------------------------------------------------
(***************************************************************************)
(* hstore: a dictionary is a sequence of pairs, with different keys        *)
(***************************************************************************)
\* BaseHstoreDumper.dump()
DumpHstore(pairs) ==
    IF pairs = <<>> THEN <<>>
    ELSE Front(FlattenSeq([i \in DOMAIN pairs |->
           LET v == pairs[i][2]
           IN  InQuotes(Escaped(pairs[i][1])) \o <<"=>">>
                 \o (IF v = Null THEN <<"NULL">> ELSE InQuotes(Escaped(v))) \o <<",">>]))

\* HstoreLoader.load(): _re_hstore matches a pair, from where the last one ended
NoBlanks(s) == From(s, Cardinality({i \in DOMAIN s : \A j \in 1..i : s[j] = " "}))

RECURSIVE LoadHstore(_)
LoadHstore(s) ==
    IF s = <<>> THEN <<>>
    ELSE LET key == CloseEscaped(s, 2)
             value == NoBlanks(From(NoBlanks(From(s, key)), 1))
             null == value # <<>> /\ value[1] = "NULL"
             end == IF null THEN 1 ELSE CloseEscaped(value, 2)
             rest == NoBlanks(From(value, end))
         IN  IF s[1] # "\"" \/ key = 0 \/ value = <<>> \/ end = 0
                \/ (~null /\ value[1] # "\"") \/ (rest # <<>> /\ rest[1] # ",")
             THEN <<<<Broken, Broken>>>>
             ELSE <<<<Unescape(SubSeq(s, 2, key - 1)),
                      IF null THEN Null ELSE Unescape(SubSeq(value, 2, end - 1))>>>>
                    \o LoadHstore(NoBlanks(SkipComma(rest)))

\* BaseHstoreBinaryDumper and HstoreBinaryLoader: counts and lengths are of four
\* bytes; less than twelve bytes are no pair.
HstoreBytes(pairs) ==
    FoldLeft(LAMBDA n, p : n + 8 + Len(p[1]) + (IF p[2] = Null THEN 0 ELSE Len(p[2])), 4, pairs)

TooShort(n) == n < 12

LoadHstoreBinary(pairs) == IF TooShort(HstoreBytes(pairs)) THEN <<>> ELSE pairs

\* hstore_out() of the server (its order is not modelled)
HstoreOut(pairs) ==
    IF pairs = <<>> THEN <<>>
    ELSE LET text(v) == IF v = Null THEN <<"NULL">> ELSE InQuotes(Escaped(v))
         IN  Front(Front(FlattenSeq([i \in DOMAIN pairs |->
               text(pairs[i][1]) \o <<"=>">> \o text(pairs[i][2]) \o <<",", " ">>])))

RECURSIVE HstoreIn(_)
HstoreIn(s) ==
    IF s = <<>> THEN <<>>
    ELSE LET key == CloseEscaped(s, 2)
             value == From(s, key + 1)
             end == IF value[1] = "NULL" THEN 1 ELSE CloseEscaped(value, 2)
         IN  <<<<Unescape(SubSeq(s, 2, key - 1)),
                 IF end = 1 THEN Null ELSE Unescape(SubSeq(value, 2, end - 1))>>>>
               \o HstoreIn(From(value, end + 1))

-----------------------------------------------------------------------------
(***************************************************************************)
(* The rows of COPY in text format                                         *)
(***************************************************************************)
NullField == <<"\\", "N">>

\* _dump_repl: the letter a character is escaped with ("" if it is not)
Letter(c) == CASE c = "\t" -> "t" [] c = "\n" -> "n" [] c = "\\" -> "\\" [] OTHER -> ""

CopyEscaped(s) ==
    FlattenSeq([i \in DOMAIN s |-> IF Letter(s[i]) = "" THEN <<s[i]>> ELSE <<"\\", Letter(s[i])>>])

Line(fields) == Append(Front(FlattenSeq([i \in DOMAIN fields |-> Append(fields[i], "\t")])), "\n")

\* _format_row_text()
FormatRow(row) ==
    Line([i \in DOMAIN row |-> IF row[i] = Null THEN NullField ELSE CopyEscaped(row[i])])

Stop(nesc) == nesc <= 0

\* format_row_text() of C walks the buffer backwards, in place: what is at j moves
\* forward by the escapes still to write.
RECURSIVE Spread(_, _, _)
Spread(buf, j, nesc) ==
    IF j = 0 \/ Stop(nesc) THEN buf
    ELSE IF Letter(buf[j]) # ""
         THEN Spread([buf EXCEPT ![j + nesc] = Letter(buf[j]), ![j + nesc - 1] = "\\"],
                     j - 1, nesc - 1)
         ELSE Spread([buf EXCEPT ![j + nesc] = buf[j]], j - 1, nesc)

FormatRowC(row) ==
    LET nesc(s) == Cardinality({i \in DOMAIN s : Letter(s[i]) # ""})
        field(s) == Spread(s \o [i \in 1..nesc(s) |-> ""], Len(s), nesc(s))
    IN  Line([i \in DOMAIN row |-> IF row[i] = Null THEN NullField ELSE field(row[i])])

\* The character that a letter stands for after a backslash
Unletter(c) == CASE c = "t" -> "\t" [] c = "n" -> "\n" [] OTHER -> c

\* _parse_row_text(): split at the tabs, then _load_re, which matches the letters
\* of the escapes only
RECURSIVE Split(_)
Split(s) ==
    LET n == Prefix(s, {"\t"})
    IN  IF n = Len(s) THEN <<s>> ELSE <<SubSeq(s, 1, n)>> \o Split(From(s, n + 1))

RECURSIVE LoadSub(_)
LoadSub(s) ==
    IF s = <<>> THEN <<>>
    ELSE IF s[1] = "\\" /\ Len(s) > 1 /\ s[2] \in {"t", "n", "\\"}
         THEN <<Unletter(s[2])>> \o LoadSub(From(s, 2))
    ELSE <<s[1]>> \o LoadSub(Tail(s))

ParseRow(line) ==
    LET fields == Split(Front(line))
    IN  [i \in DOMAIN fields |-> IF fields[i] = NullField THEN Null ELSE LoadSub(fields[i])]

\* parse_row_text() of C: a backslash hides the next character from the scan; the
\* number of fields is that of the result
RECURSIVE FieldEnd(_, _)
FieldEnd(s, i) ==
    IF i > Len(s) \/ s[i] \in {"\t", "\n"} THEN i
    ELSE FieldEnd(s, IF s[i] = "\\" THEN i + 2 ELSE i + 1)

RECURSIVE Unletters(_)
Unletters(s) ==
    IF s = <<>> THEN <<>>
    ELSE IF s[1] = "\\" THEN <<Unletter(s[2])>> \o Unletters(From(s, 2))
    ELSE <<s[1]>> \o Unletters(Tail(s))

RECURSIVE ParseRowC(_, _)
ParseRowC(s, nfields) ==
    IF nfields = 0 THEN <<>>
    ELSE LET end == FieldEnd(s, 1)
             field == SubSeq(s, 1, end - 1)
         IN  IF end > Len(s) \/ s[end] # (IF nfields = 1 THEN "\n" ELSE "\t") THEN <<Broken>>
             ELSE <<IF field = NullField THEN Null ELSE Unletters(field)>>
                    \o ParseRowC(From(s, end), nfields - 1)

\* COPY FROM of the server, that takes an unknown escape for its letter, and COPY TO
CopyFrom(line) ==
    LET fields == Split(Front(line))
    IN  [i \in DOMAIN fields |-> IF fields[i] = NullField THEN Null ELSE Unletters(fields[i])]

CopyTo(row) ==
    Line([i \in DOMAIN row |->
            IF row[i] = Null THEN <<"\\", "N">>
            ELSE FlattenSeq([j \in DOMAIN row[i] |->
                   CASE row[i][j] = "\t" -> <<"\\", "t">> [] row[i][j] = "\n" -> <<"\\", "n">>
                     [] row[i][j] = "\\" -> <<"\\", "\\">> [] OTHER -> <<row[i][j]>>])])

-----------------------------------------------------------------------------
(***************************************************************************)
(* An object is dumped and stored; what is stored is sent and loaded.      *)
(***************************************************************************)
Store(type, obj, how, stored) ==
    /\ cont.at = "start"
    /\ cont' = [cont EXCEPT !.at = "stored", !.type = type, !.obj = obj, !.how = how,
                            !.stored = stored]

Load(type, backs) ==
    /\ cont.at = "stored" /\ cont.type = type
    /\ \E b \in backs : cont' = [cont EXCEPT !.at = "loaded", !.back = b]

\* A row: an item alone, or one beside another
Rows(type) ==
    {<<v>> : v \in Items(type)}
      \cup {<<v, w>> : v \in Items(type), w \in Besides}
      \cup {<<w, v>> : v \in Items(type), w \in Besides}

Leaves(seq) == Node([i \in DOMAIN seq |-> Leaf(seq[i])])

Lists ==
    {Node(<<>>)} \cup {Leaves(row) : row \in Rows("array")}
      \cup {Node(<<Leaves(<<v, w>>), Leaves(<<w, v>>)>>) : v, w \in Besides}

\* An item that starts with a comma is lost by the Python loader if the delimiter
\* is another, which for the types of the server never happens.
Ambiguous(node, delim) ==
    LET kids == ToSet(node.kids)
        leaves == kids \cup UNION {ToSet(kid.kids) : kid \in kids}
    IN  delim # "," /\ \E kid \in leaves : kid.text # <<>> /\ kid.text[1] = ","

StoreArray ==
    /\ cont.at = "start"
    /\ \E node \in Lists, delim \in Delimiters :
          /\ ~Ambiguous(node, delim)
          /\ Store("array", node, delim, ArrayIn(DumpList(node, delim), delim))

\* The dimensions are written if the array is not indexed from 1
LoadArrays ==
    /\ cont.type = "array"
    /\ \E prefix \in {<<>>, <<"[", "0", "]", "=">>} :
          LET out == prefix \o ArrayOut(cont.stored, cont.how)
          IN  Load("array", {LoadArray(out, cont.how), LoadArrayC(out, cont.how)})

\* Lists of lists, of the same length and depth or not
Deep ==
    LET leaves == {Leaf(v) : v \in Besides}
        one == {Node(s) : s \in [1..1 -> leaves] \cup [1..2 -> leaves]}
        some == {Leaves(<<v, w>>) : v, w \in Besides}
    IN  {Node(<<x, y>>) : x, y \in one \cup leaves} \cup {Node(<<>>)}
          \cup {Node(<<Node(<<x, y, x>>), Node(<<y, x, y>>)>>) : x, y \in some}
          \cup {Node(<<Node(<<x>>), Node(<<y>>)>>) : x, y \in some}

StoreArrayBinary ==
    /\ cont.at = "start"
    /\ \E node \in Deep : Store("array_binary", node, "", DumpArrayBinary(node))

LoadArraysBinary ==
    /\ cont.type = "array_binary" /\ Broken \notin ToSet(cont.stored.items)
    /\ Load("array_binary", {LoadArrayBinary(cont.stored), LoadArrayBinaryC(cont.stored)})

StoreRecord ==
    /\ cont.at = "start"
    /\ \E seq \in Rows("record") \cup {<<>>} :
          Store("record", seq, "", RecordIn(DumpRecord(seq), Len(seq)))

LoadRecords == cont.type = "record" /\ Load("record", {LoadRecord(RecordOut(cont.stored))})

Ranges ==
    {EmptyRange}
      \cup {NewRange(row[1], row[2], lb, ub) :
              row \in {r \in Rows("range") : Len(r) = 2}, lb \in {"(", "["}, ub \in {")", "]"}}

StoreRange ==
    /\ cont.at = "start"
    /\ \E r \in Ranges : \/ Store("range", r, "", RangeIn(DumpRange(r)))
                         \/ Store("range", r, "", LoadRangeBinary(DumpRangeBinary(ServerRange(r))))

LoadRangeText == cont.type = "range" /\ Load("range", {LoadRange(RangeOut(cont.stored)).range})

\* Ranges that the server neither merges nor drops, in its order: none or two
Multiranges ==
    {<<>>} \cup {<<NewRange(w, v, "[", ")"), NewRange(v, w, "(", "]")>> :
                   v \in Items("range") \ Besides, w \in Besides}

StoreMultirange ==
    /\ cont.at = "start"
    /\ \E m \in Multiranges : Store("multirange", m, "", MultirangeIn(DumpMultirange(m)))

LoadMultiranges ==
    cont.type = "multirange" /\ Load("multirange", {LoadMultirange(MultirangeOut(cont.stored))})

Dicts ==
    {<<>>} \cup {<<<<k, v>>>> : k \in Texts("hstore"), v \in Besides}
      \cup {<<<<<<"a">>, v>>, <<<<>>, w>>>> : v \in Items("hstore"), w \in Besides}

StoreHstore ==
    /\ cont.at = "start"
    /\ \E d \in Dicts : Store("hstore", d, "", HstoreIn(DumpHstore(d)))

LoadHstores ==
    /\ cont.type = "hstore"
    /\ Load("hstore", {LoadHstore(HstoreOut(cont.stored)), LoadHstoreBinary(cont.stored)})

StoreRow ==
    /\ cont.at = "start"
    /\ \E row \in Rows("row") : \/ Store("row", row, "", CopyFrom(FormatRow(row)))
                                \/ Store("row", row, "", CopyFrom(FormatRowC(row)))

LoadRow ==
    /\ cont.type = "row"
    /\ LET line == CopyTo(cont.stored)
       IN  Load("row", {ParseRow(line), ParseRowC(line, Len(cont.stored))})

ContNext ==
    \/ StoreArray \/ LoadArrays \/ StoreArrayBinary \/ LoadArraysBinary
    \/ StoreRecord \/ LoadRecords \/ StoreRange \/ LoadRangeText
    \/ StoreMultirange \/ LoadMultiranges \/ StoreHstore \/ LoadHstores
    \/ StoreRow \/ LoadRow

-----------------------------------------------------------------------------
\* What the server has and what is loaded are the object.
Kept(type, obj) ==
    cont.type = type => /\ cont.stored = obj
                        /\ cont.at = "loaded" => cont.back = obj

(***************************************************************************)
(* An array as text is stored as it is in Python and comes back, loaded by *)
(* Python or by C: items that look like NULL, brackets, delimiters, quotes *)
(* or nothing at all are items, and NULL is NULL.                          *)
(***************************************************************************)
ArrayKept == Kept("array", cont.obj)

(***************************************************************************)
(* A list is dumped in binary only if all the lists in it have the same    *)
(* length and depth; then it comes back with the same nesting, gathered    *)
(* from the last dimension (Python) or from the first (C).                 *)
(***************************************************************************)
RECURSIVE Regular(_, _)
Regular(node, dims) ==
    IF dims = <<>> THEN ~node.list
    ELSE node.list /\ Len(node.kids) = dims[1]
           /\ \A i \in DOMAIN node.kids : Regular(node.kids[i], Tail(dims))

ArrayRegular ==
    cont.type = "array_binary" =>
        /\ cont.obj.kids # <<>> =>
              (Broken \notin ToSet(cont.stored.items) <=> Regular(cont.obj, cont.stored.dims))
        /\ cont.at = "loaded" => cont.back = cont.obj

(***************************************************************************)
(* A composite comes back with all its fields, NULL or empty, also the     *)
(* last one.  One field that is NULL is the exception: the server writes   *)
(* it as no fields, and so it is loaded.                                   *)
(***************************************************************************)
RecordKept ==
    cont.type = "record" =>
        /\ cont.stored = cont.obj
        /\ cont.at = "loaded" => cont.back = (IF cont.obj = <<Null>> THEN <<>> ELSE cont.obj)

(***************************************************************************)
(* A range comes back with its bounds, as text, in binary and among others *)
(* in a multirange; one with nothing in it is the empty range.             *)
(***************************************************************************)
RangeKept ==
    /\ Kept("range", ServerRange(cont.obj))
    /\ Kept("multirange", cont.obj)

(***************************************************************************)
(* A dictionary comes back from hstore, whatever is in its keys and        *)
(* values, also in the smallest binary form there is.                      *)
(***************************************************************************)
HstoreKept == Kept("hstore", cont.obj)

(***************************************************************************)
(* A row copied to the server, formatted by Python or by C, and copied     *)
(* back is the same row: NULL is not the text \N, and the text is not NULL. *)
(***************************************************************************)
RowKept == Kept("row", cont.obj)

(***************************************************************************)
(* What is put together of other values comes apart into the same ones:    *)
(* NULL is not its own name, quotes and escapes are undone where they were *)
(* done (array.py, composite.py, range.py, multirange.py, hstore.py,       *)
(* _copy_base.py).                                                         *)
(***************************************************************************)
ContainersKept ==
    /\ ArrayKept
    /\ ArrayRegular
    /\ RecordKept
    /\ RangeKept
    /\ HstoreKept
    /\ RowKept
=============================================================================
