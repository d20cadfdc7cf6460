-------------------------- MODULE MysqlStmtResultset --------------------------
(***************************************************************************)
(* The MySQL prepared-statement resultset, class mysql::stmt_resultset     *)
(* (src/src/mysql/resultset.cpp, lines 104-222).  A resultset shares the   *)
(* MYSQL_STMT handle of its statement.  Its first next() runs              *)
(* prepare_results(), which executes the statement, binds a result buffer  *)
(* (bindings_) and stores the result client-side; every next() then calls *)
(* mysql_stmt_fetch.  reset() calls mysql_stmt_reset and sets status_ back *)
(* to -1.                                                                  *)
(*                                                                         *)
(* Per object the model keeps whether stmt_ is non-null, whether bindings_ *)
(* is non-null, and status_ (-1 not executed, 0 executed, 1 execute        *)
(* failed).  db_ and metadata_ are read only by current_row(), which is    *)
(* not modelled.  The client library's statement is srv: its state         *)
(* (MYSQL_STMT_PREPARE_DONE or EXECUTE_DONE), whether a stored result can  *)
(* be read, the row cursor, and whether the statement has result metadata *)
(* (meta) at all.                                                          *)
(***************************************************************************)
EXTENDS Integers

CONSTANTS
  Objects,    \* storage for stmt_resultset objects; the first holds the query
  First,      \* the object statement::query() returned
  NRows,      \* rows of the statement's result
  Shapes,     \* subset of BOOLEAN: FALSE, the statement returns no result set (an INSERT)
  Faults      \* TRUE: execute, store_result and stmt_reset may fail

ASSUME First \in Objects /\ NRows \in Nat
ASSUME Shapes \subseteq BOOLEAN /\ Shapes # {} /\ Faults \in BOOLEAN

VARIABLES
  alive,      \* constructed objects
  rs,         \* rs[r] = [stmt, bindings, status]
  srv,        \* the shared MYSQL_STMT: [meta, state, stored, pos]
  last,       \* last[r]: r's last call and its outcome (history)
  seen,       \* seen[r]: last row next() reported to r since creation or reset (history)
  stale       \* a resultset was reset and no execute has run since (history)

vars == <<alive, rs, srv, last, seen, stale>>

Calls == {"none", "next", "reset", "move"}
Rets  == {"none", "row", "false", "throw", "ok"}

NoCall == [call |-> "none", ret |-> "none", row |-> 0, fetchOn |-> "none", n |-> 0]

(* The record of a call on r; n alternates, so that two calls in a row     *)
(* with the same outcome are still two steps.                              *)
Called(r, call, ret, row, fetchOn) ==
  [call |-> call, ret |-> ret, row |-> row, fetchOn |-> fetchOn, n |-> 1 - last[r].n]

\* r is the object the step called.
CalledOn(r) == last'[r].n # last[r].n

Nulled == [stmt |-> FALSE, bindings |-> FALSE, status |-> -1]

(* stmt_resultset(db, stmt): status_ -1, no bindings.                     *)
Fresh == [stmt |-> TRUE, bindings |-> FALSE, status |-> -1]

\* Mutant: a row is read even when the cursor is at the last row.
Fetch_pastEnd(s) ==
  IF s.state # "executed" \/ ~s.stored THEN [s |-> s, ret |-> "throw"]
  ELSE IF s.pos <= NRows THEN [s |-> [s EXCEPT !.pos = @ + 1], ret |-> "row"]
  ELSE [s |-> s, ret |-> "false"]

(* mysql_stmt_fetch: CR_NO_RESULT_SET before an execute, an error         *)
(* when no result is stored, MYSQL_NO_DATA at the end, else the next row.  *)
Fetch(s) ==
  IF s.state # "executed" \/ ~s.stored THEN [s |-> s, ret |-> "throw"]
  ELSE IF s.pos < NRows THEN [s |-> [s EXCEPT !.pos = @ + 1], ret |-> "row"]
  ELSE [s |-> s, ret |-> "false"]

(* prepare_results(): the outcomes [c, s, thrown] it can have.  It returns *)
(* at once when bindings_ is set or status_ is not -1; otherwise           *)
(* mysql_stmt_execute (which first drops a stored result) may fail,        *)
(* leaving status_ 1; a statement without result metadata throws "No       *)
(* result data found" with status_ 0; else bindings_ is made and bound and *)
(* mysql_stmt_store_result may fail.                                       *)
prepare_results(c, s) ==
  IF ~c.stmt \/ c.bindings \/ c.status # -1
  THEN {[c |-> c, s |-> s, thrown |-> FALSE, ran |-> FALSE]}
  ELSE LET ex == [s EXCEPT !.state = "executed", !.stored = FALSE, !.pos = 0]
           ok == [c EXCEPT !.status = 0]
           bound == [ok EXCEPT !.bindings = TRUE]
       IN (IF Faults
           THEN {[c |-> [c EXCEPT !.status = 1],
                  s |-> [s EXCEPT !.state = "prepared", !.stored = FALSE],
                  thrown |-> TRUE, ran |-> FALSE]}
           ELSE {})
          \cup
          (IF ~s.meta THEN {[c |-> ok, s |-> ex, thrown |-> TRUE, ran |-> TRUE]}
           ELSE {[c |-> bound, s |-> [ex EXCEPT !.stored = TRUE],
                   thrown |-> FALSE, ran |-> TRUE]}
                \cup (IF Faults THEN {[c |-> bound, s |-> ex, thrown |-> TRUE, ran |-> TRUE]} ELSE {}))

-----------------------------------------------------------------------------
(* next(): false when stmt_ is null; prepare_results() when status_ is -1, *)
(* and false if status_ is still -1 after it; then one fetch: an error     *)
(* throws, MYSQL_NO_DATA is false, anything else is a row.                 *)
Next(r) ==
  LET c == rs[r] IN
  /\ r \in alive
  /\ IF ~c.stmt
     THEN /\ last' = [last EXCEPT ![r] = Called(r, "next", "false", 0, "none")]
          /\ UNCHANGED <<rs, srv, seen, stale>>
     ELSE \E o \in (IF c.status = -1 THEN prepare_results(c, srv)
                    ELSE {[c |-> c, s |-> srv, thrown |-> FALSE, ran |-> FALSE]}) :
            LET f == Fetch(o.s)
                fetches == ~o.thrown /\ o.c.status # -1
                ret == IF o.thrown THEN "throw" ELSE IF ~fetches THEN "false" ELSE f.ret
            IN /\ rs' = [rs EXCEPT ![r] = o.c]
               /\ srv' = IF fetches THEN f.s ELSE o.s
               /\ last' = [last EXCEPT ![r] =
                             Called(r, "next", ret, IF ret = "row" THEN f.s.pos ELSE 0,
                                    IF fetches THEN o.s.state ELSE "none")]
               /\ seen' = IF ret = "row" THEN [seen EXCEPT ![r] = f.s.pos] ELSE seen
               /\ stale' = (stale /\ ~o.ran)
  /\ UNCHANGED alive

\* Mutant: reset() without the mysql_stmt_reset call.
Reset_noStmtReset(r) ==
  /\ r \in alive
  /\ IF ~rs[r].stmt
     THEN /\ last' = [last EXCEPT ![r] = Called(r, "reset", "ok", 0, "none")]
          /\ UNCHANGED <<rs, srv, seen, stale>>
     ELSE /\ rs' = [rs EXCEPT ![r].status = -1]
          /\ last' = [last EXCEPT ![r] = Called(r, "reset", "ok", 0, "none")]
          /\ seen' = [seen EXCEPT ![r] = 0]
          /\ stale' = TRUE
          /\ UNCHANGED srv
  /\ UNCHANGED alive

(* reset(): nothing when stmt_ is null; mysql_stmt_reset (which returns    *)
(* the statement to PREPARE_DONE and stops reading the stored result) and  *)
(* status_ = -1; when the reset fails it throws, having already detached   *)
(* the stored result.                                                      *)
Reset(r) ==
  /\ r \in alive
  /\ IF ~rs[r].stmt
     THEN /\ last' = [last EXCEPT ![r] = Called(r, "reset", "ok", 0, "none")]
          /\ UNCHANGED <<rs, srv, seen, stale>>
     ELSE \/ /\ srv' = [srv EXCEPT !.state = "prepared", !.stored = FALSE]
             /\ rs' = [rs EXCEPT ![r].status = -1]
             /\ last' = [last EXCEPT ![r] = Called(r, "reset", "ok", 0, "none")]
             /\ seen' = [seen EXCEPT ![r] = 0]
             /\ stale' = TRUE
          \/ /\ Faults
             /\ srv' = [srv EXCEPT !.stored = FALSE]
             /\ last' = [last EXCEPT ![r] = Called(r, "reset", "throw", 0, "none")]
             /\ UNCHANGED <<rs, seen, stale>>
  /\ UNCHANGED alive

(* stmt_resultset(stmt_resultset&&): take every field, null other's        *)
(* db_, stmt_, bindings_ and metadata_.                                    *)
MoveConstruct(dst, src) ==
  /\ dst \notin alive /\ src \in alive
  /\ alive' = alive \cup {dst}
  /\ rs' = [rs EXCEPT ![dst] = rs[src],
                      ![src] = [rs[src] EXCEPT !.stmt = FALSE, !.bindings = FALSE]]
  /\ seen' = [seen EXCEPT ![dst] = seen[src]]
  /\ last' = [last EXCEPT ![dst] = Called(dst, "move", "ok", 0, "none")]
  /\ UNCHANGED <<srv, stale>>

(* operator=(stmt_resultset&&): take every field, null other's db_,        *)
(* bindings_ and metadata_; other.stmt_ is left as it was.                 *)
MoveAssign(dst, src) ==
  /\ {dst, src} \subseteq alive /\ dst # src
  /\ rs' = [rs EXCEPT ![dst] = rs[src], ![src] = [rs[src] EXCEPT !.bindings = FALSE]]
  /\ seen' = [seen EXCEPT ![dst] = seen[src]]
  /\ last' = [last EXCEPT ![dst] = Called(dst, "move", "ok", 0, "none")]
  /\ UNCHANGED <<alive, srv, stale>>

-----------------------------------------------------------------------------
Init ==
  /\ alive = {First}
  /\ rs = [r \in Objects |-> IF r = First THEN Fresh ELSE Nulled]
  /\ srv \in [meta : Shapes, state : {"prepared"}, stored : {FALSE}, pos : {0}]
  /\ last = [r \in Objects |-> NoCall]
  /\ seen = [r \in Objects |-> 0]
  /\ stale = FALSE

Step ==
  \/ \E r \in Objects : Next(r) \/ Reset(r)
  \/ \E d, s \in Objects : MoveConstruct(d, s) \/ MoveAssign(d, s)

Spec == Init /\ [][Step]_vars

-----------------------------------------------------------------------------
(* Properties                                                              *)

TypeOK ==
  /\ alive \subseteq Objects
  /\ rs \in [Objects -> [stmt : BOOLEAN, bindings : BOOLEAN, status : {-1, 0, 1}]]
  /\ srv \in [meta : Shapes, state : {"prepared", "executed"}, stored : BOOLEAN,
              pos : 0..NRows]
  /\ last \in [Objects -> [call : Calls, ret : Rets, row : 0..NRows,
                           fetchOn : {"none", "prepared", "executed"}, n : {0, 1}]]
  /\ seen \in [Objects -> 0..NRows]
  /\ stale \in BOOLEAN

(* next() never calls mysql_stmt_fetch on a statement that has not been    *)
(* executed since its last mysql_stmt_reset (the client library would      *)
(* answer CR_NO_RESULT_SET): reset() and prepare_results() keep            *)
(* status_ and the statement's state in step.                              *)
NoFetchOutOfSync ==
  \A r \in Objects : last[r].fetchOn # "prepared"

(* Rows reach a resultset in order: a next() that reports a row reports    *)
(* the row after the last one this resultset reported since it was made   *)
(* or reset, so no row is skipped or repeated, whatever next() did         *)
(* internally (executing, storing) on the way.                             *)
RowsInOrder ==
  [][\A r \in Objects :
       (CalledOn(r) /\ last'[r].call = "next" /\ last'[r].ret = "row")
         => last'[r].row = seen[r] + 1]_vars

(* Once reset() has returned on any resultset of the statement, no next()  *)
(* on any resultset sharing it reports a row of the result that was        *)
(* current before the reset: a row only comes from an execute run after    *)
(* the last reset.  A resultset that still holds the statement after a     *)
(* move must not keep reading the old result.                              *)
ResetDiscardsOldRows ==
  [][\A r \in Objects :
       (CalledOn(r) /\ last'[r].ret = "row") => ~stale']_vars

(* Spec section 8, property 4, and scenario S6: after reset() returns      *)
(* normally, the next next() on that resultset reports the first row again *)
(* (unless it throws or the result is empty).                              *)
ResetRestarts ==
  [][\A r \in Objects :
       (last[r].call = "reset" /\ last[r].ret = "ok" /\ rs[r].stmt
        /\ CalledOn(r) /\ last'[r].call = "next" /\ srv.meta /\ NRows > 0)
         => last'[r].ret \in {"row", "throw"} /\ last'[r].row \in {0, 1}]_vars

=============================================================================
