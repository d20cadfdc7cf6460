---------------------------- MODULE MysqlResultset ----------------------------
(***************************************************************************)
(* The MySQL text-protocol resultset, class mysql::resultset               *)
(* (src/src/mysql/resultset.cpp, lines 31-101).  It holds a MYSQL_RES      *)
(* (res_), the current row (row_) and the session (db_).  next() fetches   *)
(* the next row of res_; when res_ is exhausted and the connection reports *)
(* no further result set it asks mysql_use_result for one and, getting     *)
(* none, drops res_.  reset() seeks res_ back to row 0.                    *)
(*                                                                         *)
(* The query's result sets are Results, a sequence of row counts; the      *)
(* first is stored client-side (mysql_store_result, by session::query, so  *)
(* mysql_data_seek applies to it).  The model keeps, per object, which     *)
(* result set res_ is (0 for nullptr) and the row row_ holds; the MYSQL_RES *)
(* data cursor of each result set; whether the session is open.  The build *)
(* is a release build: the asserts on db_ are compiled out.                *)
(***************************************************************************)
EXTENDS Naturals, Sequences

CONSTANTS
  Objects,    \* storage for resultset objects
  First,      \* the object session::query() returned
  Results     \* row counts of the result sets the query produced, in order

ASSUME First \in Objects
ASSUME Results \in Seq(Nat) /\ Len(Results) >= 1

VARIABLES
  alive,      \* constructed objects
  rs,         \* rs[r] = [res, row]: res_ (0: nullptr) and row_ (0: nullptr)
  cursor,     \* cursor[k]: rows of result set k already fetched (its data cursor)
  open,       \* the session's connection is open
  crashed,    \* the process died on a null dereference
  last,       \* last[r]: r's last call and its outcome (history)
  seen        \* seen[r]: last row next() reported to r since creation or reset (history)

vars == <<alive, rs, cursor, open, crashed, last, seen>>

Sets == 1..Len(Results)
MaxRows == Results[1]

NoCall == [call |-> "none", ret |-> "none", row |-> 0, n |-> 0]

(* The record of a call on r; n alternates, so that two calls in a row     *)
(* with the same outcome are still two steps.                              *)
Called(r, call, ret, row) ==
  [call |-> call, ret |-> ret, row |-> row, n |-> 1 - last[r].n]

CalledOn(r) == last'[r].n # last[r].n

\* mysql_more_results: the query has result sets after the one being read.
more_results == Len(Results) > 1

-----------------------------------------------------------------------------
\* Mutant: fetches one row past the end of the result set.
Next_pastEnd(r) ==
  LET c == rs[r] IN
  /\ r \in alive /\ ~crashed
  /\ IF c.res = 0 \/ ~open
     THEN /\ last' = [last EXCEPT ![r] = Called(r, "next", "false", 0)]
          /\ UNCHANGED <<rs, cursor, seen>>
     ELSE IF cursor[c.res] <= Results[c.res]
     THEN LET row == cursor[c.res] + 1 IN
          /\ cursor' = [cursor EXCEPT ![c.res] = row]
          /\ rs' = [rs EXCEPT ![r].row = row]
          /\ last' = [last EXCEPT ![r] = Called(r, "next", "row", row)]
          /\ seen' = [seen EXCEPT ![r] = row]
     ELSE /\ rs' = [rs EXCEPT ![r] = [res |-> IF more_results THEN c.res ELSE 0,
                                      row |-> 0]]
          /\ last' = [last EXCEPT ![r] = Called(r, "next", "false", 0)]
          /\ UNCHANGED <<cursor, seen>>
  /\ UNCHANGED <<alive, open, crashed>>

(* next(): false when res_ is null or the session closed; else             *)
(* mysql_fetch_row; on no row with no further result set, res_ is          *)
(* replaced by mysql_use_result, which returns null because no result is   *)
(* pending on the connection (nothing called mysql_next_result).           *)
Next(r) ==
  LET c == rs[r] IN
  /\ r \in alive /\ ~crashed
  /\ IF c.res = 0 \/ ~open
     THEN /\ last' = [last EXCEPT ![r] = Called(r, "next", "false", 0)]
          /\ UNCHANGED <<rs, cursor, seen>>
     ELSE IF cursor[c.res] < Results[c.res]
     THEN LET row == cursor[c.res] + 1 IN
          /\ cursor' = [cursor EXCEPT ![c.res] = row]
          /\ rs' = [rs EXCEPT ![r].row = row]
          /\ last' = [last EXCEPT ![r] = Called(r, "next", "row", row)]
          /\ seen' = [seen EXCEPT ![r] = row]
     ELSE /\ rs' = [rs EXCEPT ![r] = [res |-> IF more_results THEN c.res ELSE 0,
                                      row |-> 0]]
          /\ last' = [last EXCEPT ![r] = Called(r, "next", "false", 0)]
          /\ UNCHANGED <<cursor, seen>>
  /\ UNCHANGED <<alive, open, crashed>>

(* reset(): mysql_data_seek(res_, 0), with no check that res_ is set: on a *)
(* null res_ the seek dereferences it.  row_ is left as it was.            *)
Reset(r) ==
  /\ r \in alive /\ ~crashed
  /\ IF rs[r].res = 0
     THEN /\ crashed' = TRUE
          /\ UNCHANGED <<cursor, last, seen>>
     ELSE /\ cursor' = [cursor EXCEPT ![rs[r].res] = 0]
          /\ last' = [last EXCEPT ![r] = Called(r, "reset", "ok", 0)]
          /\ seen' = [seen EXCEPT ![r] = 0]
          /\ UNCHANGED crashed
  /\ UNCHANGED <<alive, rs, open>>

\* Mutant: the move constructor leaves other.res_ set.
MoveConstruct_keepsSource(dst, src) ==
  /\ dst \notin alive /\ src \in alive /\ ~crashed
  /\ alive' = alive \cup {dst}
  /\ rs' = [rs EXCEPT ![dst] = rs[src]]
  /\ last' = [last EXCEPT ![dst] = Called(dst, "move", "ok", 0)]
  /\ seen' = [seen EXCEPT ![dst] = seen[src]]
  /\ UNCHANGED <<cursor, open, crashed>>

\* resultset(resultset&&): take res_, row_ and db_, null other's.
MoveConstruct(dst, src) ==
  /\ dst \notin alive /\ src \in alive /\ ~crashed
  /\ alive' = alive \cup {dst}
  /\ rs' = [rs EXCEPT ![dst] = rs[src], ![src] = [res |-> 0, row |-> 0]]
  /\ last' = [last EXCEPT ![dst] = Called(dst, "move", "ok", 0)]
  /\ seen' = [seen EXCEPT ![dst] = seen[src]]
  /\ UNCHANGED <<cursor, open, crashed>>

\* operator=(resultset&&): the same, over a constructed object.
MoveAssign(dst, src) ==
  /\ {dst, src} \subseteq alive /\ dst # src /\ ~crashed
  /\ rs' = [rs EXCEPT ![dst] = rs[src], ![src] = [res |-> 0, row |-> 0]]
  /\ last' = [last EXCEPT ![dst] = Called(dst, "move", "ok", 0)]
  /\ seen' = [seen EXCEPT ![dst] = seen[src]]
  /\ UNCHANGED <<alive, cursor, open, crashed>>

\* session::close() and session::open(), on the resultset's session.
Close ==
  /\ open /\ ~crashed
  /\ open' = FALSE
  /\ UNCHANGED <<alive, rs, cursor, crashed, last, seen>>

Open ==
  /\ ~open /\ ~crashed
  /\ open' = TRUE
  /\ UNCHANGED <<alive, rs, cursor, crashed, last, seen>>

-----------------------------------------------------------------------------
Init ==
  /\ alive = {First}
  /\ rs = [r \in Objects |-> [res |-> IF r = First THEN 1 ELSE 0, row |-> 0]]
  /\ cursor = [k \in Sets |-> 0]
  /\ open = TRUE
  /\ crashed = FALSE
  /\ last = [r \in Objects |-> NoCall]
  /\ seen = [r \in Objects |-> 0]

Step ==
  \/ \E r \in Objects : Next(r) \/ Reset(r)
  \/ \E d, s \in Objects : MoveConstruct(d, s) \/ MoveAssign(d, s)
  \/ Close \/ Open

Spec == Init /\ [][Step]_vars

-----------------------------------------------------------------------------
(* Properties                                                              *)

TypeOK ==
  /\ alive \subseteq Objects
  /\ rs \in [Objects -> [res : 0..Len(Results), row : 0..MaxRows]]
  /\ cursor \in [Sets -> 0..MaxRows]
  /\ open \in BOOLEAN /\ crashed \in BOOLEAN
  /\ last \in [Objects -> [call : {"none", "next", "reset", "move"},
                           ret : {"none", "row", "false", "ok"},
                           row : 0..MaxRows, n : {0, 1}]]
  /\ seen \in [Objects -> 0..MaxRows]

(* Rows reach a resultset in order: a next() that reports a row reports    *)
(* the row after the last one it reported since it was made or reset,     *)
(* across moves and a close and reopen of the session.                     *)
RowsInOrder ==
  [][\A r \in Objects :
       (CalledOn(r) /\ last'[r].call = "next" /\ last'[r].ret = "row")
         => last'[r].row = seen[r] + 1]_vars

(* Spec section 8, property 4: after reset() the next next() returns the   *)
(* first row, or false if the result is empty; so reset() never crashes    *)
(* the process, whatever next() calls came before it.                      *)
ResetSafe == ~crashed

(* Spec 4.2: a query may be a multi-statement script; next() reports       *)
(* false only once no result set of the query is left unread.              *)
AllResultsRead ==
  \A r \in Objects :
    last[r].ret = "false" /\ open => rs[r].res = 0 \/ rs[r].res = Len(Results)

=============================================================================
