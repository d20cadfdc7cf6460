--------------------------- MODULE MCTimeRoundTrip ---------------------------
(***************************************************************************)
(* TLC instance of TimeRoundTrip.  The epochs are the midnights of        *)
(* 2020-01-02, 1970-01-01 and 1969-12-31 (a negative time_t), which every *)
(* format but TIME prints without loss, and 2020-01-02 10:20:30 in the    *)
(* formats that print it whole.  TIME text has no date, so no parser could *)
(* give back the epoch of a time of day; it is left out.  The              *)
(* calendar operators are checked against a day-by-day count over the     *)
(* years the instance meets, and gmtime against timegm over the epochs.   *)
(***************************************************************************)
EXTENDS TimeRoundTrip

MCEpochs == {Time(18263, 0), Time(0, 0), Time(-1, 0), Time(18263, 37230)}

\* The sql_times whose text under their format names their epoch exactly.
MCTimes == {t \in [value : MCEpochs, format : {"DATE", "TIMESTAMP", "DATETIME"}] :
              t.format = "DATE" => t.value.secs = 0}

LeapYear(y) == (y % 4 = 0 /\ y % 100 # 0) \/ y % 400 = 0
MonthDays(y, m) ==
  CASE m = 2 -> IF LeapYear(y) THEN 29 ELSE 28
    [] m \in {4, 6, 9, 11} -> 30
    [] OTHER -> 31

YearDays(y) == IF LeapYear(y) THEN 366 ELSE 365

\* Reference: the day number of January 1, counted year by year from
\* 1970 forwards and backwards, and of the first of a month, counted month
\* by month from January.
RECURSIVE NewYear(_)
NewYear(y) ==
  CASE y = 1970 -> 0
    [] y > 1970 -> NewYear(y - 1) + YearDays(y - 1)
    [] OTHER    -> NewYear(y + 1) - YearDays(y)

RECURSIVE FirstOfMonth(_, _)
FirstOfMonth(y, m) ==
  IF m = 1 THEN NewYear(y) ELSE FirstOfMonth(y, m - 1) + MonthDays(y, m - 1)

ASSUME \A y \in {1968, 1969, 1970, 1971, 2019, 2020, 2021}, m \in 1..12 :
         /\ days_from_civil(y, m, 1) = FirstOfMonth(y, m)
         /\ civil_from_days(FirstOfMonth(y, m) + MonthDays(y, m) - 1)
              = [y |-> y, m |-> m, d |-> MonthDays(y, m)]

ASSUME \A e \in MCEpochs : TimeGm(GmTime(e)) = e
\* Reference for to_uint: the value in 0 .. 2^32 - 1 that differs from the
\* time_t by a multiple of 2^32, over epochs around 0 and around 2^32.
UintEpochs == {Time(d, s) : d \in {-49711, -1, 0, 18263, 49709, 49710, 99420},
                            s \in {0, 23295, 23296, 86399}}

ASSUME \A e \in UintEpochs :
         LET u == to_uint(e) IN
         /\ ~Below(u, Time(0, 0)) /\ Below(u, Wrap32)
         /\ \E k \in -2..2 : Time(u.days + k * Wrap32.days, u.secs + k * Wrap32.secs) = e

\* to_bool against the coercion table's Time row, epoch > 0, over epochs
\* whose seconds fit TLC's integers.
ASSUME \A e \in MCEpochs \cup {Time(0, 1), Time(-1, 86399)} :
         to_bool([value |-> e, format |-> "DATE"]) <=> (e.days * 86400 + e.secs > 0)
====
