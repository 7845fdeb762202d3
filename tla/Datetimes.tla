----------------------------- MODULE Datetimes ------------------------------
(***************************************************************************)
(* The adapters of dates, times and intervals, in Python                   *)
(* (psycopg/types/datetime.py, psycopg/_tz.py) and in C                    *)
(* (psycopg_c/types/datetime.pyx).  The server keeps a date as days, a     *)
(* time and a timestamp as microseconds, an interval as months, days and   *)
(* microseconds; Python knows fewer dates than the server.                 *)
(*                                                                         *)
(* The units are parameters: a second has 10^Frac microseconds, a minute   *)
(* Sixty seconds, an hour Sixty minutes, a day Hours hours, and the years  *)
(* are short.  The arithmetic is the one of the code.                      *)
(***************************************************************************)
EXTENDS Integers, Sequences, SequencesExt, FiniteSetsExt

CONSTANTS
    Frac,           \* the digits of the fraction of a second: 6
    Sixty, Hours,   \* seconds in a minute, minutes in an hour; hours in a day
    Epoch,          \* the day of 2000-01-01, counting from date.min
    MaxDay,         \* the day of date.max
    Marks,          \* the microseconds, around the start of a day, that are used
    Offsets,        \* the offsets of the timezones, in seconds
    Months,         \* the months of the intervals of the server
    FloatBits,      \* the bits of a float: 53
    IntBits,        \* the bits of an int of C: 32
    MaxDelta        \* the days of timedelta.max: 999999999

ASSUME DatetimesAssumption ==
    Frac \in Nat \ {0} /\ 0 < Epoch /\ Epoch < MaxDay /\ MaxDelta < 2^(IntBits-1)

VARIABLE dt         \* the value on its way: see DtInit

DtInit ==
    dt = [at |-> "start", type |-> "", impl |-> "", obj |-> 0, wire |-> 0, back |-> 0]

Us == 10^Frac
DaySecs == Sixty * Sixty * Hours
DayUs == DaySecs * Us

\* What Python can hold, in days and in microseconds from the epoch
Dates == (-Epoch)..(MaxDay - Epoch)
MinUs == (-Epoch) * DayUs
MaxUs == (MaxDay - Epoch + 1) * DayUs - 1
InRange(us) == MinUs <= us /\ us <= MaxUs

\* The values of the server: before and after them too, and the infinities
Infinity == 4 * MaxDay * DayUs
ServerDays == (-Epoch - 2)..(MaxDay - Epoch + 2) \cup {Infinity, -Infinity}
Instants ==
    {d * DayUs + m : d \in (-Epoch - 1)..(MaxDay - Epoch + 2), m \in Marks}
        \cup {Infinity, -Infinity}

TooLarge == [error |-> "too large"]
TooSmall == [error |-> "too small"]
Bad == [error |-> "can't parse"]
Ok(x) == [value |-> x]

\* A timedelta: its parts are normalised by Python
Timedelta(us) ==
    [days |-> us \div DayUs, seconds |-> (us % DayUs) \div Us, microseconds |-> us % Us]
CDiv2(a, b) == IF a >= 0 THEN a \div b ELSE -((-a) \div b)

-----------------------------------------------------------------------------
(***************************************************************************)
(* The text of the server                                                  *)
(***************************************************************************)
\* A year of four days, two months of two days
YMD(day) ==
    [y |-> (day + Epoch) \div 4, m |-> ((day + Epoch) % 4) \div 2, d |-> (day + Epoch) % 2]
DayOf(y, m, d) == 4 * y + 2 * m + d - Epoch

DateStyles == {<<"ISO", "DMY">>, <<"German", "DMY">>, <<"SQL", "DMY">>, <<"SQL", "MDY">>,
               <<"Postgres", "DMY">>, <<"Postgres", "MDY">>}
DateText(day, style) ==
    LET x == YMD(day)
    IN  [fields |-> CASE style[1] = "ISO" -> <<x.y, x.m, x.d>>
                      [] style[1] # "ISO" /\ style[2] = "DMY" -> <<x.d, x.m, x.y>>
                      [] OTHER -> <<x.m, x.d, x.y>>,
         infinity |-> IF day = Infinity THEN 1 ELSE IF day = -Infinity THEN -1 ELSE 0,
         bc |-> day < -Epoch, long |-> day > MaxDay - Epoch]

\* The fraction of a second has no zeros on the right
RECURSIVE FracText(_, _)
FracText(us, n) ==
    IF us = 0 THEN <<>>
    ELSE IF us % 10 = 0 THEN FracText(us \div 10, n - 1)
    ELSE [i \in 1..n |-> (us \div 10^(n - i)) % 10]
TimeText(us) ==
    [h |-> us \div (Sixty * Sixty * Us), m |-> (us \div (Sixty * Us)) % Sixty,
     s |-> (us \div Us) % Sixty, fr |-> FracText(us % Us, Frac)]
OffsetText(off) ==
    LET a == IF off < 0 THEN -off ELSE off
    IN  [neg |-> off < 0, h |-> a \div (Sixty * Sixty), m |-> (a \div Sixty) % Sixty, s |-> a % Sixty]

-----------------------------------------------------------------------------
(***************************************************************************)
(* Dates                                                                   *)
(***************************************************************************)

\* DateLoader.__init__(), TimestampLoader.__init__()
DateOrder(style) ==
    CASE style[1] = "ISO" -> "YMD" [] style[1] = "German" -> "DMY"
      [] style[1] \in {"SQL", "Postgres"} -> IF style[2] = "DMY" THEN "DMY" ELSE "MDY"

\* The errors: the year is too long for the first token, or there is "BC"
DateError(text) ==
    IF text.infinity = 1 \/ text.long THEN TooLarge
    ELSE IF text.infinity = -1 \/ text.bc THEN TooSmall ELSE Bad

LoadDateText(text, style) ==
    IF text.infinity # 0 \/ text.bc \/ text.long THEN DateError(text)
    ELSE LET f == text.fields IN
         CASE DateOrder(style) = "YMD" -> Ok(DayOf(f[1], f[2], f[3]))
           [] DateOrder(style) = "DMY" -> Ok(DayOf(f[3], f[2], f[1]))
           [] OTHER -> Ok(DayOf(f[3], f[1], f[2]))

\* DateBinaryLoader: the days are counted from date.min
LoadDateBinary(days) ==
    IF days \in Dates THEN Ok(days)
    ELSE IF days + Epoch < 0 THEN TooSmall ELSE TooLarge

\* In C they are compared as they come, from the epoch
LoadDateBinaryC(days) ==
    IF days \in Dates THEN Ok(days)
    ELSE IF days < 1 THEN TooSmall ELSE TooLarge

-----------------------------------------------------------------------------
(***************************************************************************)
(* Times                                                                   *)
(***************************************************************************)

\* _uspad
UsPad(n) == IF n = 0 THEN 0 ELSE 10^(Frac - n)

Digits2Int(s) == FoldLeft(LAMBDA a, d : 10 * a + d, 0, s)

Micros(fr) == IF fr = <<>> THEN 0
              ELSE Digits2Int(fr) * IF Len(fr) < Frac THEN UsPad(Len(fr)) ELSE 1

\* In C the digits are summed up as they come
MicrosC(fr) ==
    LET us == Digits2Int(fr)
    IN  IF us # 0 /\ Len(fr) < Frac THEN us * UsPad(Len(fr)) ELSE us

\* time(): 24:00 is a time of the server only
PyTime(h, m, s, us) ==
    IF h \in 0..(Hours - 1) THEN Ok(us + Us * (s + Sixty * (m + Sixty * h))) ELSE Bad

LoadTimeText(t) == PyTime(t.h, t.m, t.s, Micros(t.fr))
LoadTimeTextC(t) == PyTime(t.h, t.m, t.s, MicrosC(t.fr))

\* TimeBinaryLoader: divmod(), three times
LoadTimeBinary(val) ==
    PyTime(((val \div Us) \div Sixty) \div Sixty, ((val \div Us) \div Sixty) % Sixty,
           (val \div Us) % Sixty, val % Us)

\* TimeBinaryDumper
DumpTime(us) ==
    LET t == TimeText(us) IN (us % Us) + Us * (t.s + Sixty * (t.m + Sixty * t.h))

\* Times with a timezone: the server counts the offset to the west
DumpTimetz(us, off) == [us |-> DumpTime(us), off |-> -off]

LoadOffset(o) ==
    LET a == Sixty * (Sixty * o.h + o.m) + o.s IN IF o.neg THEN -a ELSE a

WithOffset(t, off) == IF t = Bad THEN Bad ELSE Ok([us |-> t.value, off |-> off])
LoadTimetzBinary(w) == WithOffset(LoadTimeBinary(w.us), -w.off)
LoadTimetzText(w) == WithOffset(LoadTimeText(TimeText(w.us)), LoadOffset(OffsetText(-w.off)))

-----------------------------------------------------------------------------
(***************************************************************************)
(* Timestamps                                                              *)
(***************************************************************************)
\* DatetimeBinaryDumper, DatetimeNoTzBinaryDumper: the delta from the epoch
DumpTimestamp(us) ==
    LET delta == Timedelta(us)
    IN  delta.microseconds + Us * (DaySecs * delta.days + delta.seconds)

TimestampError(us) == IF us <= 0 THEN TooSmall ELSE TooLarge

LoadTimestampBinary(us) == IF InRange(us) THEN Ok(us) ELSE TimestampError(us)

\* The parts of the absolute value are added or subtracted
GroupedC(val) ==
    LET aval == IF val >= 0 THEN val ELSE -val
        secs == CDiv2(aval, Us)
        delta == DayUs * CDiv2(secs, DaySecs) + Us * (secs % DaySecs) + (aval % Us)
    IN  IF val > 0 THEN delta ELSE -delta
LoadTimestampBinaryC(val) ==
    IF InRange(GroupedC(val)) THEN Ok(GroupedC(val)) ELSE TimestampError(val)

\* TimestampLoader: the date in the order of the style, then the time
LoadTimestampText(us, style) ==
    IF us \in {Infinity, -Infinity}
    THEN DateError(DateText(us, style))
    ELSE LET day == LoadDateText(DateText(us \div DayUs, style), style)
             t == LoadTimeText(TimeText(us % DayUs))
         IN  IF "error" \in DOMAIN day THEN day ELSE Ok(day.value * DayUs + t.value)

\* A datetime with a timezone is what the clock says and its offset. The loader
\* has the zone the connection had when it was created.
Aware(local, off) == [local |-> local, off |-> off]

\* mutant: out of the range of UTC the offset is not added
OutOfUtc_Plain(us, zone) ==
    IF InRange(us) THEN Aware(us, zone) ELSE TimestampError(us)

\* Out of the range of UTC: the value is shifted by the offset of the zone
OutOfUtc(us, zone) ==
    IF zone # 0 /\ InRange(us + Us * zone) THEN Aware(us + Us * zone, zone)
    ELSE TimestampError(us)

\* TimestamptzBinaryLoader: in UTC first, then in the timezone
LoadTimestamptzBinary(us, zone) ==
    IF InRange(us) /\ InRange(us + Us * zone) THEN Aware(us + Us * zone, zone)
    ELSE OutOfUtc(us, zone)

\* TimestamptzLoader: what is printed, with offset off, is moved to UTC, then to
\* the zone; if it can't, it stays as it was printed
LoadTimestamptzText(us, off, zone) ==
    LET printed == us + Us * off
    IN  IF us \in {Infinity, -Infinity} \/ ~InRange(printed) THEN TimestampError(us)
        ELSE IF ~InRange(us) THEN Aware(printed, off)
        ELSE IF ~InRange(us + Us * zone) THEN Aware(printed, off)
        ELSE Aware(us + Us * zone, zone)

\* In C the value that stays has already been moved to UTC
LoadTimestamptzTextC(us, off, zone) ==
    LET printed == us + Us * off
    IN  IF us \in {Infinity, -Infinity} \/ ~InRange(printed) THEN TimestampError(us)
        ELSE IF ~InRange(us) THEN Aware(printed, off)
        ELSE IF ~InRange(us + Us * zone) THEN Aware(us, off)
        ELSE Aware(us + Us * zone, zone)

-----------------------------------------------------------------------------
(***************************************************************************)
(* Intervals                                                               *)
(***************************************************************************)
\* The text in the style "postgres": years and months have the sign of the
\* months, days and time their own
IntervalText(i) ==
    LET a == IF i.us < 0 THEN -i.us ELSE i.us
    IN  [years |-> CDiv2(i.months, 12), months |-> i.months - 12 * CDiv2(i.months, 12),
         days |-> i.days, neg |-> i.us < 0, time |-> TimeText(a)]

\* timedelta(): OverflowError, and a DataError, with more days than it can hold
PyDelta(us) ==
    IF us \div DayUs \in -MaxDelta..MaxDelta THEN Ok(us) ELSE [error |-> "overflow"]

\* A float of Python: n / 2^k, with n of no more than FloatBits bits, the nearest to
\* a / b; one with fewer bits after the point. Half way, the even one is taken.
Nearest(a, b) ==
    LET q == a \div b  r == a % b
    IN  IF 2 * r > b \/ (2 * r = b /\ q % 2 = 1) THEN q + 1 ELSE q
Float(a, b) ==
    LET k == Max({j \in 0..(FloatBits + 4 * Frac) : a * 2^j < b * 2^FloatBits})
    IN  [n |-> Nearest(a * 2^k, b), k |-> k]
Rounded(f) ==
    LET k == Max({j \in 0..f.k : f.n \div 2^(f.k - j) < 2^FloatBits})
    IN  [n |-> Nearest(f.n, 2^(f.k - k)), k |-> k]

\* IntervalLoader: the seconds are a float, the sum of an integer and float(se); the
\* timedelta takes the microsecond that is nearest to it
Seconds(time) ==
    LET se == Float(Us * time.s + Micros(time.fr), Us)
    IN  Rounded([se EXCEPT !.n = @ + Sixty * (time.m + Sixty * time.h) * 2^se.k])

LoadIntervalText(t) ==
    LET days == 365 * t.years + 30 * t.months + t.days
        f == Seconds(t.time)
        us == Us * (f.n \div 2^f.k) + Nearest((f.n % 2^f.k) * Us, 2^f.k)
    IN  PyDelta(days * DayUs + IF t.neg THEN -us ELSE us)

\* An int of C: what does not fit wraps around
CInt(n) == LET u == n % 2^IntBits IN IF u >= 2^(IntBits-1) THEN u - 2^IntBits ELSE u

\* In C the days in the time are moved to the days, with its sign; the days are an
\* int, after each sum
LoadIntervalTextC(t) ==
    LET secs == t.time.s + Sixty * (t.time.m + Sixty * t.time.h)
        carry == IF secs > DaySecs THEN secs \div DaySecs ELSE 0
        rest == Us * (IF secs > DaySecs THEN secs % DaySecs ELSE secs) + MicrosC(t.time.fr)
        days == CInt(CInt(CInt(365 * t.years) + 30 * t.months) + t.days)
    IN  IF t.neg THEN PyDelta(CInt(days - carry) * DayUs - rest)
        ELSE PyDelta(CInt(days + carry) * DayUs + rest)

\* IntervalBinaryLoader: the months are divided without their sign
LoadIntervalBinary(i) ==
    LET m == IF i.months < 0 THEN -i.months ELSE i.months
        extra == 30 * (m % 12) + 365 * (m \div 12)
    IN  PyDelta((i.days + IF i.months < 0 THEN -extra ELSE extra) * DayUs + i.us)

\* In C the microseconds are grouped too; months and days stay in 32 bits, and so
\* does the sum of the days that is passed to timedelta_new()
LoadIntervalBinaryC(i) ==
    LET m == IF i.months < 0 THEN CInt(-i.months) ELSE i.months
        extra == CInt(30 * (m - 12 * CDiv2(m, 12)) + 365 * CDiv2(m, 12))
        days == CInt(IF i.months < 0 THEN i.days - extra ELSE i.days + extra)
        us == GroupedC(i.us)
        usdays == CDiv2(us, DayUs)
    IN  PyDelta(CInt(days + usdays) * DayUs + us - usdays * DayUs)

IntervalStyles == {"postgres", "sql_standard", "iso_8601"}

\* A part of an interval given to the server: a number, its sign written or not
Part(n, plus) == [n |-> n, signed |-> plus \/ n < 0]

\* TimedeltaDumper: with explicit signs for sql_standard
DumpInterval(td, style) ==
    IF style = "sql_standard"
    THEN <<Part(td.days, TRUE), Part(td.seconds * Us, TRUE), Part(td.microseconds, TRUE)>>
    ELSE <<Part(td.days, FALSE), Part(td.seconds * Us + td.microseconds, FALSE)>>

\* The server: in sql_standard a minus before the first part, when no other has
\* a sign, is the sign of them all
StoreInterval(parts, style) ==
    LET all == style = "sql_standard" /\ parts[1].n < 0
               /\ \A i \in DOMAIN parts : i > 1 => ~parts[i].signed
    IN  [months |-> 0, days |-> parts[1].n,
         us |-> (IF all THEN -1 ELSE 1)
                * FoldLeft(LAMBDA a, p : a + p.n, 0, Tail(parts))]

-----------------------------------------------------------------------------
Set(type, impl, obj, wire, back) ==
    dt' = [at |-> "loaded", type |-> type, impl |-> impl, obj |-> obj, wire |-> wire, back |-> back]

Impls2 == {"py", "c"}
By(impl, py, c) == IF impl = "py" THEN py ELSE c

DateStep ==
    /\ dt.at = "start"
    /\ \E day \in ServerDays, impl \in Impls2 :
          \/ \E style \in DateStyles :
                Set("date", impl, day, "text", LoadDateText(DateText(day, style), style))
          \/ Set("date", impl, day, "binary",
                 By(impl, LoadDateBinary(day), LoadDateBinaryC(day)))

TimeStep ==
    /\ dt.at = "start"
    /\ \E us \in (Marks \cap 0..DayUs) \cup {DayUs, DayUs - 1}, impl \in Impls2 :
          \/ Set("time", impl, us, "text",
                 By(impl, LoadTimeText(TimeText(us)), LoadTimeTextC(TimeText(us))))
          \/ Set("time", impl, us, "binary", LoadTimeBinary(DumpTime(us)))

TimetzStep ==
    /\ dt.at = "start"
    /\ \E us \in Marks \cap 0..(DayUs - 1), off \in Offsets :
          \/ Set("timetz", "py", Aware(us, off), "text", LoadTimetzText(DumpTimetz(us, off)))
          \/ Set("timetz", "py", Aware(us, off), "binary", LoadTimetzBinary(DumpTimetz(us, off)))

TimestampStep ==
    /\ dt.at = "start"
    /\ \E us \in Instants, impl \in Impls2 :
          \/ \E style \in DateStyles :
                Set("timestamp", impl, us, "text", LoadTimestampText(us, style))
          \/ Set("timestamp", impl, us, "binary",
                 By(impl, LoadTimestampBinary(us), LoadTimestampBinaryC(us)))
          \/ /\ InRange(us)
             /\ Set("timestamp", impl, us, "dump", Ok(DumpTimestamp(us)))

\* The zone of the session may have changed since the loader was created
TimestamptzStep ==
    /\ dt.at = "start"
    /\ \E us \in Instants, off, zone \in Offsets, impl \in Impls2 :
          \/ Set("timestamptz", impl, us, <<"text", off, zone>>,
                 By(impl, LoadTimestamptzText(us, off, zone),
                          LoadTimestamptzTextC(us, off, zone)))
          \/ Set("timestamptz", impl, us, <<"binary", zone, zone>>,
                 LoadTimestamptzBinary(us, zone))

IntervalStep ==
    /\ dt.at = "start"
    /\ \E months \in Months, days \in -1..1, us \in Marks \cup {-m : m \in Marks}, impl \in Impls2 :
          LET i == [months |-> months, days |-> days, us |-> us]
          IN  \/ Set("interval", impl, i, "text",
                     By(impl, LoadIntervalText(IntervalText(i)),
                              LoadIntervalTextC(IntervalText(i))))
              \/ Set("interval", impl, i, "binary",
                     By(impl, LoadIntervalBinary(i), LoadIntervalBinaryC(i)))

TimedeltaStep ==
    /\ dt.at = "start"
    /\ \E us \in Instants, style \in IntervalStyles :
          Set("timedelta", "py", us, style,
              LoadIntervalBinary(StoreInterval(DumpInterval(Timedelta(us), style), style)))

DtNext ==
    DateStep \/ TimeStep \/ TimetzStep \/ TimestampStep \/ TimestamptzStep
        \/ IntervalStep \/ TimedeltaStep

-----------------------------------------------------------------------------
Loaded(type) == dt.at = "loaded" /\ dt.type = type

(***************************************************************************)
(* A date is the one of the server, in every DateStyle, from text and from *)
(* binary, or an error that says on which side it is out of the range of   *)
(* Python.                                                                 *)
(***************************************************************************)
DateKept ==
    Loaded("date") =>
        dt.back = IF dt.obj \in Dates THEN Ok(dt.obj)
                  ELSE IF dt.obj < 0 THEN TooSmall ELSE TooLarge

(***************************************************************************)
(* A time is the one of the server, with a fraction of any length; with a  *)
(* timezone, it has the offset it had, through the one counted to the west *)
(* of the server.  24:00 is an error.                                      *)
(***************************************************************************)
TimeKept ==
    /\ Loaded("time") => dt.back = IF dt.obj < DayUs THEN Ok(dt.obj) ELSE Bad
    /\ Loaded("timetz") => dt.back = Ok([us |-> dt.obj.local, off |-> dt.obj.off])

(***************************************************************************)
(* A timestamp is the one of the server, before and after the epoch, from  *)
(* text in every DateStyle and from binary, by Python and by C.            *)
(***************************************************************************)
TimestampKept ==
    Loaded("timestamp") =>
        dt.back = IF InRange(dt.obj) THEN Ok(dt.obj)
                  ELSE IF dt.obj < 0 THEN TooSmall ELSE TooLarge

\* The zone of the loader is the one that was printed
SameZone == dt.wire[2] = dt.wire[3]

(***************************************************************************)
(* A timestamp with timezone is the same instant, and it is loaded when    *)
(* it can be written in the timezone of the connection, even if it is out  *)
(* of the range of Python in UTC.  (Not so in C, from text, if the         *)
(* timezone has changed since the loader was created: see InstantKeptC.)   *)
(***************************************************************************)
InstantKept ==
    Loaded("timestamptz") /\ (dt.impl = "py" \/ SameZone) =>
        /\ "local" \in DOMAIN dt.back => dt.back.local - Us * dt.back.off = dt.obj
        /\ "error" \in DOMAIN dt.back => ~InRange(dt.obj + Us * dt.wire[2])

(***************************************************************************)
(* The same, whatever the timezone (datetime.pyx:785-787, "In this case    *)
(* return the datetime in a fixed offset timezone").                       *)
(***************************************************************************)
InstantKeptC ==
    Loaded("timestamptz") /\ "local" \in DOMAIN dt.back =>
        dt.back.local - Us * dt.back.off = dt.obj

\* The days of an interval, as they are summed up; what it lasts
IntervalYears(i) == CDiv2(i.months, 12)
IntervalDays(i) == 365 * IntervalYears(i) + 30 * (i.months - 12 * IntervalYears(i)) + i.days
IntervalUs(i) == IntervalDays(i) * DayUs + i.us

\* No sum of the days overflows an int
DaysFit(i) ==
    \A days \in {365 * IntervalYears(i), IntervalDays(i) - i.days, IntervalDays(i),
                 IntervalDays(i) + CDiv2(i.us, DayUs)} :
        days \in -(2^(IntBits-1)) .. 2^(IntBits-1) - 1

\* A float of that many seconds tells two microseconds apart (up to 2^33 seconds)
FloatTells(us) == \E k \in 0..FloatBits : us < 2^(FloatBits - k) * Us /\ Us < 2^k

(***************************************************************************)
(* An interval is the same timedelta from text and from binary, by Python  *)
(* and by C, with parts of any sign and a time longer than a day, or an    *)
(* error if a timedelta can't hold it.  Two cases are not so: in Python a  *)
(* time of more than 2^33 seconds, parsed as a float from text, is only    *)
(* less than a second away (datetime.py:616-626); and C promises nothing   *)
(* if the days overflow an int (datetime.pyx:886, 990-1003): they wrap,    *)
(* and what is left may be loaded without an error.                        *)
(***************************************************************************)
IntervalKept ==
    Loaded("interval") =>
        LET us == IntervalUs(dt.obj)
            time == IF dt.obj.us < 0 THEN -dt.obj.us ELSE dt.obj.us
        IN  IF dt.impl = "py" /\ dt.wire = "text" /\ ~FloatTells(time)
            THEN "value" \in DOMAIN dt.back => dt.back.value \in (us - Us + 1)..(us + Us - 1)
            ELSE dt.impl = "py" \/ DaysFit(dt.obj) => dt.back = PyDelta(us)

(***************************************************************************)
(* A timedelta is stored as it is in every IntervalStyle: the sign of its  *)
(* days is not taken for the one of its seconds.                           *)
(***************************************************************************)
TimedeltaKept == Loaded("timedelta") => dt.back = Ok(dt.obj)

(***************************************************************************)
(* A date, a time, an instant or an interval is loaded as it was dumped or *)
(* refused, at the ends of what Python can represent, for every order of   *)
(* fields and style of intervals (datetime.py, datetime.pyx), but for the  *)
(* intervals that IntervalKept leaves out.                                 *)
(***************************************************************************)
TimesKept ==
    /\ DateKept
    /\ TimeKept
    /\ TimestampKept
    /\ InstantKept
    /\ IntervalKept
    /\ TimedeltaKept
=============================================================================
