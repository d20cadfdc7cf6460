------------------------------- MODULE SqlTime -------------------------------
(***************************************************************************)
(* The time conversions of src/src/sql_value.cpp: sql_time::to_string      *)
(* (strftime over gmtime of value_), helper::parse_time (three strptime    *)
(* attempts on one uninitialized struct tm, then stoul, then timegm) and   *)
(* sql_value::to_time.  Pure operators, no state.                          *)
(*                                                                         *)
(* A time_t is a record [days, secs] with secs in 0..86399: the value is   *)
(* days * 86400 + secs, kept as two parts so that dates far from 1970 stay *)
(* inside TLC's integers.  Text is a sequence of tokens: a run of digits   *)
(* [k |-> "num", v, w] (its value and its number of digits) or one         *)
(* character [k |-> c].  strftime's zero-padded fields are such runs, and  *)
(* glibc's strptime reads digits from a run, so it is modelled digit by    *)
(* digit.  A struct tm is a function from the six fields timegm reads to   *)
(* their int values (tm_year counts from 1900, tm_mon from 0).             *)
(***************************************************************************)
EXTENDS Integers, Sequences, TLC

TmFields == {"year", "mon", "mday", "hour", "min", "sec"}

Time(d, s) == [days |-> d + s \div 86400, secs |-> s % 86400]

\* A non-negative count of seconds as a time_t.
Seconds(n) == Time(0, n)

Num(v, w) == [k |-> "num", v |-> v, w |-> w]
Chr(c) == [k |-> c, v |-> 0, w |-> 0]

-----------------------------------------------------------------------------
(* The civil calendar of gmtime and timegm (proleptic Gregorian, UTC):     *)
(* day numbers relative to 1970-01-01.  \div is floor division.            *)
days_from_civil(y, m, d) ==
  LET y2  == IF m <= 2 THEN y - 1 ELSE y
      era == y2 \div 400
      yoe == y2 - era * 400
      doy == (153 * (IF m > 2 THEN m - 3 ELSE m + 9) + 2) \div 5 + d - 1
      doe == yoe * 365 + yoe \div 4 - yoe \div 100 + doy
  IN era * 146097 + doe - 719468

civil_from_days(z0) ==
  LET z   == z0 + 719468
      era == z \div 146097
      doe == z - era * 146097
      yoe == (doe - doe \div 1460 + doe \div 36524 - doe \div 146096) \div 365
      doy == doe - (365 * yoe + yoe \div 4 - yoe \div 100)
      mp  == (5 * doy + 2) \div 153
      m   == IF mp < 10 THEN mp + 3 ELSE mp - 9
  IN [y |-> yoe + era * 400 + (IF m <= 2 THEN 1 ELSE 0), m |-> m,
      d |-> doy - (153 * mp + 2) \div 5 + 1]

\* gmtime(&value_): the broken-down UTC time of a time_t.
GmTime(t) ==
  LET c == civil_from_days(t.days) IN
  [year |-> c.y - 1900, mon |-> c.m - 1, mday |-> c.d,
   hour |-> t.secs \div 3600, min |-> (t.secs % 3600) \div 60, sec |-> t.secs % 60]

\* timegm(&tp): every field may be out of range and is normalized.
TimeGm(tm) ==
  Time(days_from_civil(tm.year + 1900 + tm.mon \div 12, (tm.mon % 12) + 1, 1)
         + tm.mday - 1,
       tm.hour * 3600 + tm.min * 60 + tm.sec)

-----------------------------------------------------------------------------
(* Conversion specifiers: the tm field, glibc strptime's get_number        *)
(* (from, to, n) and the offset it subtracts; strftime prints the field    *)
(* plus the offset zero-padded to n digits (the years modelled have 4).    *)
Conv ==
  ("%Y" :> [field |-> "year", from |-> 0, to |-> 9999, n |-> 4, off |-> 1900]) @@
  ("%m" :> [field |-> "mon",  from |-> 1, to |-> 12,   n |-> 2, off |-> 1])    @@
  ("%d" :> [field |-> "mday", from |-> 1, to |-> 31,   n |-> 2, off |-> 0])    @@
  ("%H" :> [field |-> "hour", from |-> 0, to |-> 23,   n |-> 2, off |-> 0])    @@
  ("%M" :> [field |-> "min",  from |-> 0, to |-> 59,   n |-> 2, off |-> 0])    @@
  ("%S" :> [field |-> "sec",  from |-> 0, to |-> 61,   n |-> 2, off |-> 0])

FmtDate == <<"%Y", "-", "%m", "-", "%d">>
FmtTime == <<"%H", ":", "%M", ":", "%S">>
FmtTimestamp == FmtDate \o <<" ">> \o FmtTime

Strftime(fmt, tm) ==
  [i \in 1..Len(fmt) |->
     IF fmt[i] \in DOMAIN Conv
     THEN Num(tm[Conv[fmt[i]].field] + Conv[fmt[i]].off, Conv[fmt[i]].n)
     ELSE Chr(fmt[i])]

(* sql_time::to_string: the format's pattern over gmtime(&value_).  The   *)
(* switch covers the four enumerators and has no return after it.          *)
to_string(t) ==
  Strftime(CASE t.format = "DATE" -> FmtDate
             [] t.format = "TIME" -> FmtTime
             [] t.format \in {"TIMESTAMP", "DATETIME"} -> FmtTimestamp,
           GmTime(t.value))

-----------------------------------------------------------------------------
(* The sql_time accessors of the coercion table's Time row (spec 4.1).    *)
(* time_t is a 64-bit long on the LP64 build, so size() is 8 and         *)
(* to_llong() is value_ unchanged.                                         *)
size == 8

format(t) == t.format

to_llong(t) == t.value

\* to_bool(): value_ > 0.
to_bool(t) == t.value.days > 0 \/ (t.value.days = 0 /\ t.value.secs > 0)

\* 2^32 seconds as a time_t: 49710 days and 23296 seconds.
Wrap32 == Time(49710, 23296)

Below(a, b) == a.days < b.days \/ (a.days = b.days /\ a.secs < b.secs)

(* to_uint(): the conversion of value_ to a 32-bit unsigned int, value_   *)
(* modulo 2^32, kept as a time_t record in 0 .. 2^32 - 1.                  *)
RECURSIVE to_uint(_)
to_uint(v) ==
  IF Below(v, Time(0, 0)) THEN to_uint(Time(v.days + Wrap32.days, v.secs + Wrap32.secs))
  ELSE IF Below(v, Wrap32) THEN v
  ELSE to_uint(Time(v.days - Wrap32.days, v.secs - Wrap32.secs))

(* sql_time::to_wstring: the switch of to_string through wcsftime.  Its   *)
(* maxsize is sizeof(buf), 2000, for a buffer of 500 wchar_t; the longest *)
(* text the patterns print has 19 characters, so the bound is never       *)
(* reached and the wide text has the characters of to_string.             *)
to_wstring(t) == to_string(t)

-----------------------------------------------------------------------------
(* glibc strptime.  get_number skips white space, needs a digit, then     *)
(* reads digits while fewer than n are read and val * 10 <= to; a value   *)
(* outside from..to fails before the field is written.  A blank in the    *)
(* format skips any blanks; another character must match.  Fields are    *)
(* written as they are parsed, so a failed attempt leaves the ones it      *)
(* parsed, and success does not need the whole input.                      *)
Digit(tok, i) == (tok.v \div 10^(tok.w - i)) % 10

RECURSIVE get_number(_, _, _, _)
get_number(tok, c, i, val) ==
  IF i < c.n /\ i < tok.w /\ val * 10 <= c.to
  THEN get_number(tok, c, i + 1, val * 10 + Digit(tok, i + 1))
  ELSE [val |-> val, used |-> i]

RECURSIVE SkipBlanks(_)
SkipBlanks(in) == IF in # <<>> /\ Head(in).k = " " THEN SkipBlanks(Tail(in)) ELSE in

\* The input left after the first used digits of its leading run.
Consume(in, used) ==
  IF used = Head(in).w THEN Tail(in)
  ELSE <<Num(Head(in).v % 10^(Head(in).w - used), Head(in).w - used)>> \o Tail(in)

RECURSIVE strptime(_, _, _)
strptime(in, fmt, tm) ==
  IF fmt = <<>> THEN [ok |-> TRUE, tm |-> tm]
  ELSE LET it == Head(fmt) IN
  IF it = " " THEN strptime(SkipBlanks(in), Tail(fmt), tm)
  ELSE IF it \notin DOMAIN Conv
  THEN IF in # <<>> /\ Head(in) = Chr(it)
       THEN strptime(Tail(in), Tail(fmt), tm)
       ELSE [ok |-> FALSE, tm |-> tm]
  ELSE LET c  == Conv[it]
           rp == SkipBlanks(in)
           r  == get_number(Head(rp), c, 1, Digit(Head(rp), 1))
       IN IF rp = <<>> \/ Head(rp).k # "num" \/ r.val < c.from \/ r.val > c.to
          THEN [ok |-> FALSE, tm |-> tm]
          ELSE strptime(Consume(rp, r.used), Tail(fmt),
                        [tm EXCEPT ![c.field] = r.val - c.off])

\* std::stoul: skips blanks and reads the leading digits; throws (caught,
\* giving 0) when there are none.
stoul(in) ==
  LET rp == SkipBlanks(in) IN
  IF rp # <<>> /\ Head(rp).k = "num" THEN Head(rp).v ELSE 0

(* helper::parse_time(value): tp is the uninitialized struct tm, and one  *)
(* tm is shared by the three attempts.                                     *)
parse_time(in, tp) ==
  LET a == strptime(in, FmtTimestamp, tp)
      b == strptime(in, FmtDate, a.tm)
      c == strptime(in, FmtTime, b.tm)
  IN CASE a.ok -> TimeGm(a.tm)
       [] b.ok -> TimeGm(b.tm)
       [] c.ok -> TimeGm(c.tm)
       [] OTHER -> Seconds(stoul(in))

=============================================================================
