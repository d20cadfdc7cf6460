---------------------------- MODULE TimeRoundTrip ----------------------------
(***************************************************************************)
(* A sql_time stored through the PostgreSQL binding and read back (spec   *)
(* section 8, property 1).  The application makes a sql_time; binding it  *)
(* goes through bindable::bind_value, whose COMPLEX case calls            *)
(* bind(index, value.to_time()), and postgres::binding::bind(sql_time),   *)
(* which sends strdup(value.to_string()) typed TEXTOID.  An INSERT stores *)
(* it in a column; a SELECT returns the column's text with the column's   *)
(* Oid, data_mapper::to_value turns it into a sql_value, and              *)
(* sql_value::to_time turns that back into a sql_time.                    *)
(*                                                                         *)
(* The server is the environment.  A text column keeps the text.  A       *)
(* timestamp column (INSERT ... VALUES ($1::timestamp)) parses a date or  *)
(* a date and time, rejects a time of day, and returns ISO text           *)
(* "YYYY-MM-DD HH:MM:SS" with TIMESTAMPOID.                               *)
(***************************************************************************)
EXTENDS SqlTime

CONSTANTS
  Times,      \* the sql_times [value, format] the application makes
  Columns,    \* column types: subset of {"text", "timestamp"}
  Garbage     \* values an uninitialized int of struct tm can hold

ASSUME \A t \in Times : t.format \in {"DATE", "TIME", "TIMESTAMP", "DATETIME"}
ASSUME Columns \subseteq {"text", "timestamp"}

VARIABLES
  app,        \* the application's sql_time [value, format], or NoTime
  row,        \* the stored row: [col, text, of] (of: the sql_time bound), or NoRow
  back        \* the last read: [got, want] time_t values, or NoRead (history)

vars == <<app, row, back>>

NoTime == [value |-> Seconds(0), format |-> "none"]
NoRow  == [col |-> "none", text |-> <<>>, of |-> NoTime]
NoRead == [got |-> Seconds(0), want |-> Seconds(0), n |-> 0]

\* sql_value kinds met on this path: a string, a number, a complex sql_time.
SqlString(t) == [kind |-> "string", text |-> t, n |-> 0, time |-> NoTime]
SqlNumber(n) == [kind |-> "number", text |-> <<>>, n |-> n, time |-> NoTime]
SqlComplex(t) == [kind |-> "complex", text |-> <<>>, n |-> 0, time |-> t]

\* sql_value::is_time: a complex value whose pointer casts to sql_time.
is_time(v) == v.kind = "complex" /\ v.time # NoTime

(* sql_value::to_time, as the time_t of the sql_time it returns: a string *)
(* through parse_time (tp: the uninitialized struct tm), a number through *)
(* to_uint(), modulo 2^32, and a sql_time as it is.                      *)
to_time(v, tp) ==
  CASE v.kind = "string"  -> parse_time(v.text, tp)
    [] v.kind = "number"  -> to_uint(Seconds(v.n))
    [] is_time(v)         -> v.time.value

(* postgres::binding::bind(index, sql_time): the parameter is the text    *)
(* of to_string(), typed TEXTOID.                                          *)
bind_time(t) == [oid |-> "TEXTOID", text |-> to_string(t)]

(* bindable::bind_value, case COMPLEX: a time binds value.to_time(), any  *)
(* other complex value throws binding_error (oid "throw").                 *)
bind_value(v) ==
  IF is_time(v) THEN bind_time(v.time) ELSE [oid |-> "throw", text |-> <<>>]

OidOf(col) == IF col = "text" THEN "TEXTOID" ELSE "TIMESTAMPOID"

(* data_mapper::to_value(type, value, len) for the column Oids modelled:  *)
(* TIMESTAMPOID is in the group converted by stol, TEXTOID is returned as *)
(* the string.  stol reads the leading digits as stoul does.              *)
to_value(oid, text) ==
  IF oid = "TIMESTAMPOID" THEN SqlNumber(stoul(text)) ELSE SqlString(text)

(* What the server stores from the text parameter p of the sql_time t in  *)
(* a column: the set of texts a later SELECT returns ({} when the INSERT  *)
(* is rejected).  The text of a timestamp is decided by t's value and the *)
(* format p was printed in.                                                *)
Stored(col, p, t) ==
  IF col = "text" THEN {p.text}
  ELSE IF t.format = "TIME" THEN {}
  ELSE {to_string([value |-> IF t.format = "DATE" THEN Time(t.value.days, 0)
                                                  ELSE t.value,
                   format |-> "TIMESTAMP"])}

-----------------------------------------------------------------------------
\* sql_time(value, format); its copies and moves copy both fields.
Construct(t) ==
  /\ app' = t
  /\ UNCHANGED <<row, back>>

(* bind_value(1, sql_value(app)) then execute the INSERT into a column of *)
(* type col.  A rejected INSERT throws and stores nothing.                 *)
Insert(col) ==
  LET p == bind_value(SqlComplex(app)) IN
  /\ app # NoTime
  /\ p.oid # "throw"
  /\ \E text \in Stored(col, p, app) :
       row' = [col |-> col, text |-> text, of |-> app]
  /\ UNCHANGED <<app, back>>

(* SELECT the row: column(...).to_value() then to_time().                 *)
Select ==
  /\ row # NoRow
  /\ \E tp \in [TmFields -> Garbage] :
       back' = [got  |-> to_time(to_value(OidOf(row.col), row.text), tp),
                want |-> row.of.value, n |-> 1 - back.n]
  /\ UNCHANGED <<app, row>>

Init ==
  /\ app = NoTime
  /\ row = NoRow
  /\ back = NoRead

Next ==
  \/ \E t \in Times : Construct(t)
  \/ \E col \in Columns : Insert(col)
  \/ Select

Spec == Init /\ [][Next]_vars

-----------------------------------------------------------------------------
(* Spec section 8, property 1: a sql_time stored into a column and read   *)
(* back with to_time() has the epoch seconds it was stored with.  It is   *)
(* about parse_time's three strptime attempts on one uninitialized tm and *)
(* data_mapper::to_value's conversion of a TIMESTAMPOID column by stol.   *)
RoundTrip == back.got = back.want

=============================================================================
