------------------------------ MODULE MCCodecs ------------------------------
(* The values that Numerics, Datetimes and Containers convert, for TLC. *)
EXTENDS Numerics, Datetimes, Containers

CONSTANT Focus  \* the modules to check

VARIABLE focus

MCInts ==
    LET marks == {10 ^ k : k \in 0 .. 9} \cup {2 ^ k : k \in 0 .. 30}
    IN  marks \cup {n - 1 : n \in marks} \cup {-n : n \in marks} \cup {2147483647, -(2^29) - 1}

\* All of 5 digits, and the ones as long as a field of ShortBits may count
MCCoefficients ==
    UNION {[1..n -> {0, 7}] : n \in 1..5} \cup {[i \in 1..n |-> 7] : n \in {24, 25, 28, 31, 32, 33, 36}}

MCExps == (-9 .. 6) \cup {-36, -33, -32, -31, -20, 24, 25, 27, 28, 29, 30, 31, 59, 60, 61, 64, 70}

MCMarks == {-110, -101, -100, -99, -20, -1, 0, 1, 10, 20, 99, 100, 101, 110, 210,
            790, 1599, 1600, 1601, 1610, 1650}
MCMonths == {-144, -72, -25, -12, -1, 0, 1, 12, 25, 32, 67, 72, 144}
MCOffsets == {-3, -1, 0, 3}

\* The characters that mean something to a type, and one that does not
MCAlphabet ==
    [array |-> {"a", "\"", "\\", ",", ";", "{", "}", " ", "NULL", "null"},
     record |-> {"a", "\"", "\\", ",", " ", "(", ")"},
     range |-> {"a", "\"", "\\", ",", " ", "(", ")", "[", "]"},
     hstore |-> {"a", "\"", "\\", ",", " ", "=>", "NULL"},
     row |-> {"a", "\t", "\n", "\\", "t", "N"}]

MCBesides == {Null, <<>>, <<"a">>, <<",">>}

Init == focus \in Focus /\ NumInit /\ DtInit /\ ContInit

Next ==
    \/ focus = "numerics" /\ NumNext /\ UNCHANGED <<dt, cont, focus>>
    \/ focus = "datetimes" /\ DtNext /\ UNCHANGED <<num, cont, focus>>
    \/ focus = "containers" /\ ContNext /\ UNCHANGED <<num, dt, focus>>

Spec == Init /\ [][Next]_<<num, dt, cont, focus>>
=============================================================================
