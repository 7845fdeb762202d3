------------------------------ MODULE Numerics ------------------------------
(***************************************************************************)
(* The adapters of the numbers, in Python (psycopg/types/numeric.py) and   *)
(* in C (psycopg_c/types/numeric.pyx, numutils.c): a number is dumped by   *)
(* one of the two, the server stores it and sends it back, one of the two  *)
(* loads it.                                                               *)
(*                                                                         *)
(* A Decimal is a sign, its decimal digits and an exponent, what           *)
(* as_tuple() returns.  A numeric of the server is made of digits in base  *)
(* 10000: it is the sum of digits[i] * 10000^(weight - i + 1).  Numbers    *)
(* are handled as sequences of decimal digits, so that no bound of the     *)
(* model checker's integers is in the way.                                 *)
(***************************************************************************)
EXTENDS Integers, Sequences, SequencesExt, FiniteSetsExt

CONSTANTS
    Coefficients,   \* the digits of the Decimals: sequences of decimal digits
    Exps,           \* the exponents
    ShortBits,      \* the width of the fields of a numeric: 16
    Bits2, Bits4, Bits8,    \* the widths of int2, int4, int8: 16, 32, 64 in the server
    LongLong,       \* the width of a long long: 64
    Groups,         \* how many digits a round of pg_ulltoa_n() writes: 8
    Ints            \* the integers dumped as text and as numeric

ASSUME NumericsAssumption ==
    /\ Coefficients \subseteq Seq(0..9) /\ Exps \subseteq Int
    /\ Bits2 < Bits4 /\ Bits4 < Bits8
    /\ Groups \subseteq {4, 8}

VARIABLE num        \* the number on its way: see NumInit

NumInit ==
    num = [at |-> "start", type |-> "", by |-> "", obj |-> 0, wire |-> <<>>, back |-> 0]

Specials == {"NaN", "sNaN", "Infinity", "-Infinity"}
Decimals == [neg : BOOLEAN, digits : Coefficients, exp : Exps]

Zeros(n) == [i \in 1..n |-> 0]

\* The digits without the zeros on the left
Strip(s) ==
    LET nz == {i \in DOMAIN s : s[i] # 0}
    IN  IF nz = {} THEN <<0>> ELSE SubSeq(s, Min(nz), Len(s))

\* The decimal digits of a number, and those of a digit in base 10000
RECURSIVE DigitsOf(_)
DigitsOf(n) == IF n < 10 THEN <<n>> ELSE Append(DigitsOf(n \div 10), n % 10)
Four(d) == <<d \div 1000, (d \div 100) % 10, (d \div 10) % 10, d % 10>>

DEC_DIGITS == 4

-----------------------------------------------------------------------------
(***************************************************************************)
(* dump_decimal_to_numeric_binary()                                        *)
(***************************************************************************)
\* The digits without the zeros on the right: how many
NzDigits(digits) == Max({0} \cup {i \in DOMAIN digits : digits[i] # 0})

\* Digits are gathered by four, starting at position wi of the first group; the
\* last group may be partial
Weights == <<1000, 100, 10, 1>>
Gathered(digits, wi0) ==
    LET Add(g, d) ==
            LET pgdigit == g.pgdigit + Weights[g.wi + 1] * d
            IN  IF g.wi + 1 >= DEC_DIGITS
                THEN [out |-> Append(g.out, pgdigit), pgdigit |-> 0, wi |-> 0]
                ELSE [g EXCEPT !.pgdigit = pgdigit, !.wi = @ + 1]
        g == FoldLeft(Add, [out |-> <<>>, pgdigit |-> 0, wi |-> wi0], digits)
    IN  IF g.pgdigit # 0 THEN Append(g.out, g.pgdigit) ELSE g.out

Special(name) ==
    [ndigits |-> 0, weight |-> 0, dscale |-> 0, digits |-> <<>>,
     sign |-> CASE name \in {"NaN", "sNaN"} -> "NAN" [] name = "Infinity" -> "PINF"
                [] name = "-Infinity" -> "NINF"]

\* The conversions of C to uint16_t and int16_t
UShort(n) == n % 2^ShortBits
Short(n) == LET u == UShort(n) IN IF u >= 2^(ShortBits-1) THEN u - 2^ShortBits ELSE u

\* The fields are packed as "!HhHH": struct.error is raised for the ones that do not fit
Refused == [special |-> "refused"]
Packed(pg) ==
    IF UShort(pg.ndigits) = pg.ndigits /\ Short(pg.weight) = pg.weight
        /\ UShort(pg.dscale) = pg.dscale
    THEN pg ELSE Refused

DecimalToNumeric(d) ==
    LET nz == NzDigits(d.digits)
        dscale == IF d.exp <= 0 THEN -d.exp ELSE 0
        ndigits == Len(d.digits) + (IF d.exp <= 0 THEN 0 ELSE d.exp % DEC_DIGITS)
        mod == (ndigits - dscale) % DEC_DIGITS
        wi == IF mod = 0 THEN 0 ELSE DEC_DIGITS - mod
        tmp == nz + wi
    IN  Packed(
        IF nz = 0
        THEN [ndigits |-> 0, weight |-> 0, sign |-> "POS", dscale |-> dscale, digits |-> <<>>]
        ELSE [ndigits |-> tmp \div DEC_DIGITS + (IF tmp % DEC_DIGITS # 0 THEN 1 ELSE 0),
              weight |-> (ndigits + wi + d.exp) \div DEC_DIGITS - 1,
              sign |-> IF d.neg THEN "NEG" ELSE "POS", dscale |-> dscale,
              digits |-> Gathered(SubSeq(d.digits, 1, nz), wi)])

\* The division of C rounds towards 0 and its remainder has the sign of a
CDiv(a, b) == IF a >= 0 THEN a \div b ELSE -((-a) \div b)
CMod(a, b) == a - b * CDiv(a, b)

\* The same, in C: the remainder is made positive, the weight is the quotient of a
\* C division, and the number of the digits, the scale and the weight are cut to
\* their 16 bits: only the digits that are counted are looked at
DecimalToNumericC(d) ==
    LET len == UShort(Len(d.digits))
        nz == NzDigits(SubSeq(d.digits, 1, len))
        dscale == IF d.exp <= 0 THEN UShort(-d.exp) ELSE 0
        ndigits == IF d.exp <= 0 THEN len ELSE UShort(len + CMod(d.exp, DEC_DIGITS))
        rem == CMod(ndigits - dscale, DEC_DIGITS)
        mod == IF rem < 0 THEN rem + 4 ELSE rem
        wi == IF mod # 0 THEN DEC_DIGITS - mod ELSE 0
        pgdigits == CDiv(nz + wi, DEC_DIGITS)
                        + (IF CMod(nz + wi, DEC_DIGITS) # 0 THEN 1 ELSE 0)
    IN  IF nz = 0
        THEN [ndigits |-> 0, weight |-> 0, sign |-> "POS", dscale |-> dscale, digits |-> <<>>]
        ELSE [ndigits |-> UShort(pgdigits),
              weight |-> Short(CDiv(UShort(ndigits + wi) + d.exp, DEC_DIGITS) - 1),
              sign |-> IF d.neg THEN "NEG" ELSE "POS", dscale |-> dscale,
              digits |-> Gathered(SubSeq(d.digits, 1, nz), wi)]

-----------------------------------------------------------------------------
(***************************************************************************)
(* dump_int_to_numeric_binary(): the length is estimated from the bits     *)
(***************************************************************************)
BitLength(n) == IF n = 0 THEN 0 ELSE Max({k \in 0..30 : 2^k <= n}) + 1

\* int(bit_length * 0.07525749...) + 1
NumericDigits(bits) == (bits * 7525749) \div 100000000 + 1

RECURSIVE Remainders(_)
Remainders(n) == IF n = 0 THEN <<>> ELSE Append(Remainders(n \div 10000), n % 10000)

\* The digits are written from the last place to the left; the rest is 0. More
\* of them than the places would fall on the head.
IntToNumeric(n) ==
    LET abs == IF n < 0 THEN -n ELSE n
        ndigits == NumericDigits(BitLength(abs))
        digits == Remainders(abs)
    IN  [ndigits |-> IF Len(digits) > ndigits THEN -1 ELSE ndigits,
         weight |-> ndigits - 1, sign |-> IF n < 0 THEN "NEG" ELSE "POS", dscale |-> 0,
         digits |-> Zeros(ndigits - Len(digits)) \o digits]

\* The server: numeric_recv() drops the zeros around, numeric_send() sends the
\* rest; the digits announced are the ones that come
Stored(pg) ==
    LET nz == {i \in DOMAIN pg.digits : pg.digits[i] # 0}
        kept == SubSeq(pg.digits, Min(nz), Max(nz))
    IN  IF pg.sign \notin {"POS", "NEG"} THEN pg
        ELSE IF pg.ndigits # Len(pg.digits) \/ ~(\A i \in DOMAIN pg.digits : pg.digits[i] \in 0..9999)
        THEN [pg EXCEPT !.sign = "invalid"]
        ELSE IF nz = {} THEN [pg EXCEPT !.ndigits = 0, !.weight = 0, !.sign = "POS", !.digits = <<>>]
        ELSE [pg EXCEPT !.digits = kept, !.ndigits = Len(kept), !.weight = @ - Min(nz) + 1]

-----------------------------------------------------------------------------
(***************************************************************************)
(* NumericBinaryLoader.load()                                              *)
(***************************************************************************)
\* mutant: always the default context
Precision_Default(key) == 28

\* The contexts by precision: the default one for the small ones
Precision(key) == IF key < 28 THEN 28 ELSE key

\* Decimal.shift(): only the rightmost digits that fit are kept; a shift larger
\* than the precision is an error
Shifted(s, shift, prec) ==
    LET t == IF shift < 0 THEN SubSeq(s, 1, Max({0, Len(s) + shift})) ELSE s \o Zeros(shift)
    IN  SubSeq(t, Max({1, Len(t) - prec + 1}), Len(t))

LoadNumeric(pg) ==
    IF pg.sign \notin {"POS", "NEG"} THEN [special |-> pg.sign]
    ELSE LET val == Strip(FlattenSeq([i \in DOMAIN pg.digits |-> Four(pg.digits[i])]))
             shift == pg.dscale - (pg.ndigits - pg.weight - 1) * DEC_DIGITS
             prec == Precision((pg.weight + 2) * DEC_DIGITS + pg.dscale)
         IN  IF Len(val) > prec \/ shift > prec \/ -shift > prec THEN [special |-> "error"]
             ELSE [neg |-> pg.sign = "NEG", exp |-> -pg.dscale,
                   digits |-> Strip(Shifted(val, shift, prec))]

-----------------------------------------------------------------------------
(***************************************************************************)
(* The integers: the type is chosen by the value                           *)
(***************************************************************************)

\* IntDumper.upgrade()
Upgrade(n) ==
    IF -(2^(Bits4-1)) <= n /\ n < 2^(Bits4-1)
    THEN IF -(2^(Bits2-1)) <= n /\ n < 2^(Bits2-1) THEN "int2" ELSE "int4"
    ELSE IF -(2^(Bits8-1)) <= n /\ n < 2^(Bits8-1) THEN "int8" ELSE "numeric"

\* In C a number that overflows a long long is a numeric; get_key() agrees
UpgradeC(n) ==
    LET fits(bits) == -(2^(bits-1)) <= n /\ n <= 2^(bits-1) - 1
    IN  IF ~fits(Bits8) THEN "numeric"
        ELSE IF fits(Bits4) THEN IF fits(Bits2) THEN "int2" ELSE "int4"
        ELSE "int8"

Width(type) == CASE type = "int2" -> Bits2 [] type = "int4" -> Bits4 [] type = "int8" -> Bits8

\* pack_int*(), a cast in C, and back, with the sign
PackInt(n, type) == n % 2^Width(type)
UnpackInt(u, type) == IF u >= 2^(Width(type)-1) THEN u - 2^Width(type) ELSE u

\* numutils.c: the length from the bits, then eight digits at a time, four, two
DecimalLength(v) ==
    LET t == (BitLength(v) * 1233) \div 4096
    IN  t + IF v >= 10^t THEN 1 ELSE 0

\* pg_ulltoa_n(): what it writes, from the right end: groups of eight digits as long
\* as there are that many, then four, two, and two or one. The last one alone is
\* put on the left end, wherever the others are; NotWritten is where nothing is put.
NotWritten == -1
Pair(n) == <<(n \div 10) % 10, n % 10>>

RECURSIVE Rounds(_, _, _)
Rounds(v, group, text) ==
    IF v < 10^group THEN [value |-> v, text |-> text]
    ELSE LET low == v % 10^group
         IN  Rounds(v \div 10^group, group,
                    (IF group = 8 THEN Four(low \div 10000) ELSE <<>>) \o Four(low % 10000) \o text)

Ulltoa(v, group) ==
    LET rounds == Rounds(v, group, <<>>)
        v1 == rounds.value
        v2 == IF v1 >= 10000 THEN v1 \div 10000 ELSE v1
        v3 == IF v2 >= 100 THEN v2 \div 100 ELSE v2
        text == (IF v3 >= 10 THEN Pair(v3) ELSE <<>>)
                \o (IF v2 >= 100 THEN Pair(v2 % 100) ELSE <<>>)
                \o (IF v1 >= 10000 THEN Four(v1 % 10000) ELSE <<>>) \o rounds.text
        olength == DecimalLength(v)
    IN  IF v = 0 THEN <<0>>
        ELSE [i \in 1..olength |->
                IF i = 1 /\ v3 < 10 THEN v3
                ELSE IF i > olength - Len(text) THEN text[i - olength + Len(text)] ELSE NotWritten]

\* pg_lltoa(): the opposite of a negative value is taken as unsigned, where the
\* least one has it too
Lltoa(value, group) ==
    LET uvalue == value % 2^LongLong
    IN  [neg |-> value < 0,
         digits |-> Ulltoa(IF value < 0 THEN (0 - uvalue) % 2^LongLong ELSE uvalue, group)]

\* dump_int_to_text(): the ones that overflow a long long are left to str()
IntToText(n, group) ==
    IF -(2^(LongLong-1)) <= n /\ n <= 2^(LongLong-1) - 1 THEN Lltoa(n, group)
    ELSE [neg |-> n < 0, digits |-> DigitsOf(IF n < 0 THEN -n ELSE n)]

-----------------------------------------------------------------------------
(***************************************************************************)
(* quote(): a negative number is preceded by a space, a special value is a *)
(* string with a cast                                                      *)
(***************************************************************************)
\* [neg, zero] are the sign that is written and whether the number is 0: -0.0 >= 0
QuoteNumber(special, neg, zero) ==
    IF special THEN <<"quote", "cast">>
    ELSE IF ~neg \/ zero THEN IF neg THEN <<"minus", "digits">> ELSE <<"digits">>
    ELSE <<"space", "minus", "digits">>

-----------------------------------------------------------------------------
Impls == {"py", "c"}

DumpDecimal ==
    /\ num.at = "start"
    /\ \E d \in Decimals, impl \in Impls :
          LET wire == IF impl = "py" THEN DecimalToNumeric(d) ELSE DecimalToNumericC(d)
          IN  num' = [num EXCEPT !.at = IF wire = Refused THEN "loaded" ELSE "wire",
                        !.type = "numeric", !.by = impl, !.obj = d, !.wire = wire,
                        !.back = wire]

DumpSpecial ==
    /\ num.at = "start"
    /\ \E s \in Specials :
          num' = [num EXCEPT !.at = "wire", !.type = "special", !.obj = s, !.wire = Special(s)]

DumpInt ==
    /\ num.at = "start"
    /\ \E n \in Ints :
          num' = [num EXCEPT !.at = "wire", !.type = "int", !.obj = n, !.wire = IntToNumeric(n)]

\* The server has the number, and a loader reads what it sends
LoadBack ==
    /\ num.at = "wire" /\ num.type \in {"numeric", "special", "int"}
    /\ num' = [num EXCEPT !.at = "loaded", !.back = LoadNumeric(Stored(num.wire))]

\* An int in binary format, in the type of its size
IntTrip ==
    /\ num.at = "start"
    /\ \E n \in -(2^Bits8)..(2^Bits8), impl \in Impls :
          LET type == IF impl = "py" THEN Upgrade(n) ELSE UpgradeC(n)
          IN  num' = [num EXCEPT !.at = "loaded", !.type = "intn", !.obj = n,
                        !.wire = <<type>>,
                        !.back = IF type = "numeric" THEN n
                                 ELSE UnpackInt(PackInt(n, type), type)]

\* An int as text, by the C function
IntText ==
    /\ num.at = "start"
    /\ \E n \in Ints, group \in Groups :
          num' = [num EXCEPT !.at = "loaded", !.type = "text", !.obj = n,
                     !.back = IntToText(n, group)]

\* A number composed in the text of a query
QuoteIt ==
    /\ num.at = "start"
    /\ \E special, neg, zero \in BOOLEAN :
          num' = [num EXCEPT !.at = "loaded", !.type = "quote", !.obj = <<neg, zero>>,
                     !.back = QuoteNumber(special, neg, zero)]

NumNext ==
    DumpDecimal \/ DumpSpecial \/ DumpInt \/ LoadBack \/ IntTrip \/ IntText \/ QuoteIt

-----------------------------------------------------------------------------
\* The Decimal with exponent 0 or less and no zeros on the left
Canonical(d) ==
    LET digits == Strip(d.digits \o Zeros(Max({0, d.exp})))
    IN  [neg |-> d.neg /\ digits # <<0>>, digits |-> digits, exp |-> Min({0, d.exp})]

\* The weight of the first digit of the number, in the base of the server
Weight(d) == (Len(d.digits) + d.exp - 1) \div DEC_DIGITS

\* The number has room in the format: its scale and its weight (0 has none), and, in
\* C, the digits as they are counted
Fits(d, impl) ==
    /\ -d.exp < 2^ShortBits
    /\ NzDigits(d.digits) > 0 => Weight(d) \in -(2^(ShortBits-1)) .. 2^(ShortBits-1) - 1
    /\ impl = "c" => Len(d.digits) + 2 * (DEC_DIGITS - 1) < 2^ShortBits

(***************************************************************************)
(* A Decimal dumped in binary, by Python or by C, stored by the server and *)
(* loaded is the same number, with all its decimal places: whatever the    *)
(* alignment of its digits to the ones of the server, and with more digits *)
(* than the default precision.  One that has no room in the 16 bits of the *)
(* fields is refused by Python (struct.error).  C does not promise as      *)
(* much: it cuts the fields (numeric.pyx:659, 666, 699), and the number.   *)
(***************************************************************************)
DecimalTrip ==
    num.at = "loaded" /\ num.type = "numeric" =>
        IF Fits(num.obj, num.by) THEN num.back = Canonical(num.obj)
        ELSE num.by = "py" => num.back = Refused

(***************************************************************************)
(* So is an int dumped as numeric: the digits estimated from its bits are  *)
(* always enough, and what is not written is 0.                            *)
(***************************************************************************)
IntNumericTrip ==
    num.at = "loaded" /\ num.type = "int" =>
        num.back = [neg |-> num.obj < 0, exp |-> 0,
                    digits |-> DigitsOf(IF num.obj < 0 THEN -num.obj ELSE num.obj)]

(***************************************************************************)
(* An int in the type chosen for it comes back, at the bounds too: it is   *)
(* never cut, and Python and C choose the same type.                       *)
(***************************************************************************)
IntFits ==
    num.at = "loaded" /\ num.type = "intn" =>
        /\ num.back = num.obj
        /\ Upgrade(num.obj) = UpgradeC(num.obj)

(***************************************************************************)
(* The C function writes the sign and the digits of the number, in the     *)
(* length computed from its bits: no digit is missing, nothing is written  *)
(* before, the least of the long long and the rounds of the loop included. *)
(***************************************************************************)
TextDigits ==
    num.at = "loaded" /\ num.type = "text" =>
        num.back = [neg |-> num.obj < 0,
                    digits |-> DigitsOf(IF num.obj < 0 THEN -num.obj ELSE num.obj)]

(***************************************************************************)
(* A number may follow a minus in a query (tests/types/test_numeric.py:578 *)
(* test_minus_minus_quote): it never starts with another.  The -0.0 of a   *)
(* float does: it is not less than 0 (numeric.py:75).                      *)
(***************************************************************************)
NoComment ==
    num.at = "loaded" /\ num.type = "quote" /\ num.obj # <<TRUE, TRUE>> =>
        Head(num.back) # "minus"

(***************************************************************************)
(* A number comes back from the server equal to itself, whatever type was  *)
(* chosen for it, in text and in binary, from Python and from C            *)
(* (numeric.py, numeric.pyx, numutils.c), but for the Decimals without     *)
(* room in the format (see DecimalTrip); quoted, it starts no comment.     *)
(***************************************************************************)
NumbersKept ==
    /\ DecimalTrip
    /\ IntNumericTrip
    /\ IntFits
    /\ TextDigits
    /\ NoComment
=============================================================================
