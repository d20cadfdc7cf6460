---------------------------- MODULE PgTransaction ----------------------------
(***************************************************************************)
(* postgres::transaction::start() (src/src/postgres/transaction.cpp).      *)
(* start() renders its mode as a START TRANSACTION statement, clause by    *)
(* clause, runs it with PQexec, and throws a transaction_exception unless  *)
(* the result is PGRES_COMMAND_OK.  The statement is modelled by the       *)
(* sequence of clauses the code appends; the server accepts it when every  *)
(* clause is one of PostgreSQL's transaction modes.  The connection's      *)
(* transaction status (PQtransactionStatus) is idle, in a transaction, or  *)
(* in a failed transaction; COMMIT, ROLLBACK and failing statements are    *)
(* issued through the session (outside src/) and move between these.      *)
(***************************************************************************)
EXTENDS Integers, Sequences

CONSTANTS
  Isolations,   \* isolation levels a mode may carry
  Types,        \* access modes a mode may carry
  Deferrables   \* values of mode.deferrable (0: unset)

VARIABLES
  status,       \* PQtransactionStatus: "idle", "intrans" or "inerror"
  last          \* the last start(): [mode, sql, from, ret] (history)

vars == <<status, last>>

Modes == [isolation : Isolations, type : Types, deferrable : Deferrables]

(* The transaction modes PostgreSQL's START TRANSACTION accepts.            *)
Grammar == {"ISOLATION LEVEL SERIALIZABLE", "ISOLATION LEVEL REPEATABLE READ",
            "ISOLATION LEVEL READ COMMITTED", "ISOLATION LEVEL READ UNCOMMITTED",
            "READ WRITE", "READ ONLY", "DEFERRABLE", "NOT DEFERRABLE"}

IsolationClause == [serializable |-> "ISOLATION LEVEL SERIALIZABLE",
                    repeatable_read |-> "ISOLATION LEVEL REPEATABLE READ",
                    read_commited |-> "ISOLATION LEVEL READ COMMITTED",
                    read_uncommited |-> "ISOLATION LEVEL READ UNCOMMITTED"]

TypeClause == [read_write |-> "READ WRITE", read_only |-> "READ ONLY"]

(* The clauses start() appends after "START TRANSACTION": an isolation      *)
(* clause unless none, an access clause unless none, and a deferrable      *)
(* clause only for a set flag under serializable read-only; the flag 1 is  *)
(* spelled " DEFERABLE", any other set value " NOT DEFERABLE".             *)
Clauses(m) ==
  (IF m.isolation \in DOMAIN IsolationClause THEN <<IsolationClause[m.isolation]>> ELSE <<>>)
  \o (IF m.type \in DOMAIN TypeClause THEN <<TypeClause[m.type]>> ELSE <<>>)
  \o (IF m.deferrable # 0 /\ m.isolation = "serializable" /\ m.type = "read_only"
      THEN <<IF m.deferrable = 1 THEN "DEFERABLE" ELSE "NOT DEFERABLE">>
      ELSE <<>>)

Accepted(sql) == \A i \in DOMAIN sql : sql[i] \in Grammar

(* start(): PQexec of the statement.  A statement the parser accepts      *)
(* opens a transaction when idle and only warns inside one; in a failed   *)
(* transaction every statement errors.  A syntax error fails a            *)
(* transaction in progress.  Anything but COMMAND_OK throws.              *)
Start(m) ==
  LET sql == Clauses(m)
      ok  == status # "inerror" /\ Accepted(sql)
  IN /\ status' = IF ok THEN "intrans" ELSE IF status = "idle" THEN "idle" ELSE "inerror"
     /\ last' = [mode |-> m, sql |-> sql, from |-> status,
                 ret |-> IF ok THEN "ok" ELSE "throw"]

\* COMMIT or ROLLBACK through the session: the connection is idle again.
End ==
  /\ status # "idle"
  /\ status' = "idle"
  /\ UNCHANGED last

\* A statement of the transaction fails: the transaction is aborted.
Fail ==
  /\ status = "intrans"
  /\ status' = "inerror"
  /\ UNCHANGED last

Init ==
  /\ status = "idle"
  /\ last = [mode |-> CHOOSE m \in Modes : TRUE, sql |-> <<>>, from |-> "idle", ret |-> "none"]

Next == (\E m \in Modes : Start(m)) \/ End \/ Fail

Spec == Init /\ [][Next]_vars

TypeOK ==
  /\ status \in {"idle", "intrans", "inerror"}
  /\ last.mode \in Modes /\ last.ret \in {"none", "ok", "throw"}

(* Spec 4.7: start() concatenates only qualifiers legal for the backend,  *)
(* so on an idle connection start() succeeds for every mode the API       *)
(* accepts, the deferrable flag under serializable read-only included.    *)
StartSucceedsWhenIdle ==
  last.from = "idle" => last.ret # "throw"
=============================================================================
