# TLA+ models of the db access library

This directory holds TLA+ models of the stateful parts of the library under
`src/src`, and the TLC configurations that check them. Every definition is
translated from the C++ source. `PROJECT.json` maps each definition to the
lines it models and lists the runs, mutants, findings and hazards.

## 1. The system and its parts

The library gives one interface to SQLite, MySQL and PostgreSQL: sessions,
statements with bound parameters, resultsets, transactions and query builders.
`src/src` contains the following slice of it:

| Part | Source | State | Operations |
|---|---|---|---|
| PostgreSQL parameter binding | `postgres/binding.cpp` | four parallel C arrays (`values_` strdup'd strings, `types_` Oids, `lengths_`, `formats_`) and `size_` | constructors, copy and move construction and assignment, destructor, `reset`, `bind(index, x)` for ten types, `reallocate_value`, `clear_value`, `to_value` |
| Generic binding dispatch | `bindable.cpp`, `bindable.h` | none | `bind_value` picks an overload from a `sql_value` (a `sql_time` binds `to_time()`, another complex value throws); `bind(vector, start = 1)`, `bind_list` and `bind_all` bind consecutive indexes |
| MySQL text resultset | `mysql/resultset.cpp` 31-101 | `res_` (a `MYSQL_RES`), `row_`, `db_` | `next`, `reset`, moves, `current_row`, `size` |
| MySQL prepared-statement resultset | `mysql/resultset.cpp` 104-222 | `stmt_` (shared `MYSQL_STMT`), `bindings_`, `metadata_`, `status_` | `next` (runs `prepare_results` on first use), `reset`, moves, `current_row`, `size` |
| MySQL session | `mysql/session.h` | `db_` (declarations only) | `open`, `close`, `query`, ... |
| PostgreSQL transaction | `postgres/transaction.cpp` | `db_`, `mode_` | `start`, `is_active` |
| Time values | `sql_value.cpp` | `sql_time`: `value_` (a `time_t`) and `format_` | `sql_time::to_string` and `to_wstring` (strftime/wcsftime over gmtime), the accessors `size`, `format`, `to_bool`, `to_llong`, `to_uint`, `helper::parse_time` (strptime, stoul, timegm), `sql_value::to_time`, `is_time` |
| Delete query builder | `delete_query.h` | where clause, bindings | `where(value, args...)` |
| Exceptions | `exception.h` | none | none |

How the parts interact:
- A session's query returns a text resultset. Its `next()` reads `db_->is_open()`, so closing the session changes what the resultset reports.
- A prepared statement hands its `MYSQL_STMT` to a `stmt_resultset`. Every object moved from it shares that handle, and the client library's statement state (prepared or executed, stored result, cursor) is shared with them.
- Statements and query builders bind through `bindable`, which dispatches onto the backend's `binding`.
- A `sql_time` is bound as the text of `to_string()`, typed TEXTOID. Read back, the column's text becomes a `sql_value` through `data_mapper::to_value`, and `to_time()` parses it with `parse_time`.
- A transaction runs its `START TRANSACTION` through the session's connection, and its state is the connection's transaction status.

The behaviours that are hard to test:
- ownership of heap strings across copies, moves, self-assignment and rebinding;
- several resultset objects sharing one statement handle after moves;
- failures of execute, store or reset in the middle of a call;
- reset after the rows are exhausted;
- multi-statement results;
- a session closed under a live resultset;
- a time parsed into a `struct tm` that nobody initialized.

Correctness properties per part:
- **Binding:** each string has exactly one owner; nothing leaks; and the binding behaves as the parameter map the spec describes (4.3/4.4, 8.2).
- **Resultsets:** rows arrive in order; reset restarts from the first row (8.4, S6); a moved-from object is invalid (8.6); no fetch reaches a statement that was not executed; all result sets of a query are read (4.2).
- **Transaction:** `start()` succeeds for every legal mode (4.7).
- **Time values:** storing a time and reading it back gives the same epoch seconds (8.1).

## 2. Modules

| Module | Models | Variables ↔ code |
|---|---|---|
| `AbstractParams` | what a parameter store promises (spec 4.3/4.4) | `live`, `params[o][i]`, `op` (last call) |
| `PgBinding` | `postgres::binding` | `alive`; `slots[o]` = the sequence of (`values_[i]` pointer, `types_[i]` Oid), whose length is `size_`; `mem` = the heap of strdup'd strings; `op` |
| `MCPgBinding` | TLC instance of `PgBinding` | the overloads exercised, the `sql_value` types and lists bound through `bindable`, and symmetry |
| `MysqlStmtResultset` | `mysql::stmt_resultset` plus the client library's `MYSQL_STMT` | `rs[r]` = (`stmt_` non-null, `bindings_` non-null, `status_`); `srv` = statement state, stored result, cursor, metadata present; `last`, `seen`, `stale` are history |
| `MysqlResultset` | `mysql::resultset` plus the session's open flag | `rs[r]` = (which result set `res_` is, `row_`); `cursor[k]` = the data cursor of result set k; `open`; `crashed` |
| `MCMysqlResultset` | TLC instances of `MysqlResultset` | the result shapes |
| `SqlTime` | `sql_time::to_string`, `helper::parse_time` | operators only: a `time_t` is `[days, secs]`; text is a sequence of digit runs `[v, w]` and characters; a `struct tm` is a function of its six fields |
| `TimeRoundTrip` | a `sql_time` bound by `bind_value`/`binding::bind(sql_time)`, stored, and read back by `data_mapper::to_value` and `to_time` | `app` = the application's `sql_time`; `row` = the stored column (type, text, the time bound); `back` = the last read, got and wanted (history) |
| `MCTimeRoundTrip` | TLC instance of `TimeRoundTrip` | the times; the calendar checked against a day count |
| `PgTransaction` | `postgres::transaction::start` | `status` = PQtransactionStatus; `last` = the last start's mode, clauses, starting status and outcome |

**Actions.** Each action is a whole member function, with its early returns as guards or branches.
- A call that throws is the outcome `"throw"` in `last`.
- A client-library call that can fail is a nondeterministic choice, enabled by the `Faults` constant.

**`PgBinding`.** `Bind(o, index, k, v)` covers every value overload:
- `reallocate_value` frees the slot's old string or grows the arrays;
- a fresh address is then allocated for the strdup.

`BindNull` is the `sql_null` overload. Both go through `bind_at`, the set of outcomes of one overload call.

`PgBinding` also composes `bindable` with the binding:
- `bind_value(t)` is the overload `bindable::bind_value` dispatches a `sql_value` of type `t` to: the 32-bit overload when `size() <= sizeof(int)`, `long long` otherwise, `long long` for every `UNUMBER`, `"null"`, or `"throw"` for a complex value that is not a `sql_time`;
- `bind_list` is the recursion of `bindable::bind_list` and the loop of `bind(vector, start)`: each value goes through `bind_value` and `bind_at` at the next index, and a `binding_error` stops the list with the earlier values bound;
- `BindList(o, start, items)` is `bind(vector, start)`, and `BindAll(o, items)` is `bind_all`, which is `bind_list(1, ...)`.

`strdup` returns one free address rather than any: free addresses hold nothing and nothing refers to them, so every choice gives the same state up to renaming addresses, which the run declares symmetric. `copy_value` is shared by the copy constructor and copy assignment, and it clears `*this` before it reads `other`, exactly as the code does.

**`SqlTime`.** glibc's `strptime` is modelled digit by digit:
- `get_number` skips blanks, needs a digit, and reads while fewer than n digits are read and `val * 10 <= to`;
- a field is written as soon as it is parsed, so a failed attempt leaves the fields it parsed;
- success does not need the whole input.

`parse_time` makes its three attempts on one `struct tm`, whose initial fields are a nondeterministic choice from `Garbage`: reading an uninitialized int is undefined behaviour, and any value the stack holds is an outcome the build can produce. `timegm` and `gmtime` are Hinnant's civil-calendar formulas, which normalize out-of-range fields as `timegm` does. `MCTimeRoundTrip` checks them against a year-by-year and month-by-month day count (`ASSUME`s TLC evaluates at start-up).

The accessors of the coercion table's Time row (spec 4.1) are operators of `SqlTime`. `to_uint` converts `value_` to a 32-bit unsigned int: it is kept as a `[days, secs]` record reduced into 0 .. 2^32 - 1, because 2^32 itself is beyond TLC's integers. `MCTimeRoundTrip` checks it against its reference (the value in range that differs by a multiple of 2^32) over epochs around 0 and 2^32, and `to_bool` against `epoch > 0`. `to_time` reads a number through `to_uint`. `to_wstring` passes `sizeof(buf)`, 2000, as the maxsize of a 500-`wchar_t` buffer, but no pattern prints more than 19 characters, so its text is that of `to_string`.

**`TimeRoundTrip`.** `Insert` is `bind_value` on `sql_value(app)` followed by the INSERT. `Select` is `to_value` on the column's text, then `to_time`. The server is the environment:
- a text column keeps the text;
- a timestamp column (`$1::timestamp`) returns ISO text with TIMESTAMPOID.

**Refinement.** `PgBinding` implements `AbstractParams` under this refinement mapping:
- `live <- alive`;
- `params[o][i] <- to_value(o, i-1)`, the value `binding::to_value` would return.

`AbstractParams` has a step for a list bound from a start index (`BindList`) and one for `bind_all` (`BindAll`, from index 1). `op` records the call's arguments, not its outcome: each item is the value `to_value` would read back, or `Rejected` when `bind_value` throws on it. The abstract step then binds the arguments before the first `Rejected` and nothing after it, so a list that stops early without an error, or goes on past one, does not refine. The spec promises no rollback of the values bound before the error, and the code does none.

**History variables.** The `n` field of `last` alternates, so two identical calls in a row are still two steps. `op` tells a self copy-assign apart from a reset.

**Build assumptions.**
- The build is LP64, which decides the Oids of the integer overloads.
- The asserts on `db_` are compiled out, as in a release build.

## 3. Runs

There are 12 runs: 3 pass runs and 9 violation runs.

| Run (cfg) | Expect | Properties | What it shows |
|---|---|---|---|
| `pg_binding` (`MCPgBinding.cfg`) | pass | `TypeOK`, `OwnershipUnique`, `ParamsSpec` | Across every bind (direct, through a two-value list from index 0 or through `bind_all`), copy, move, reset and destroy on two objects, no string is shared or read after free, and the binding refines the abstract store, a list that throws halfway included. About 3 minutes, 45k states. |
| `pg_binding_leak` (`MCPgBindingLeak.cfg`) | violation | `NoLeak` | Move assignment leaks the target's strings. |
| `pg_binding_self_assign` (`MCPgBindingSelfAssign.cfg`) | violation | `ParamsSpec` | `b = b` empties `b`. |
| `stmt_rs_moves` (`MCStmtRsMoves.cfg`) | pass | `TypeOK`, `ResetDiscardsOldRows` | Even with two objects on one statement, no row of a result is reported after a reset. |
| `stmt_rs_reset` (`MCStmtRsReset.cfg`) | violation | `ResetRestarts` | After reset, `next()` returns false forever. |
| `stmt_rs_exec_fail` (`MCStmtRsExecFail.cfg`) | violation | `NoFetchOutOfSync` | After a failed execute, a later `next()` fetches from a statement that was never executed (`CR_NO_RESULT_SET`). |
| `stmt_rs_move_shares` (`MCStmtRsMoveShares.cfg`) | violation | `RowsInOrder` | Move assignment keeps the source on the statement, so rows repeat. |
| `text_rs` (`MCRsText.cfg`) | pass | `TypeOK`, `RowsInOrder` | Rows arrive in order across moves and session reconnection. |
| `text_rs_reset_null` (`MCRsTextReset.cfg`) | violation | `ResetSafe` | Reset after exhaustion dereferences a null result. |
| `text_rs_multi` (`MCRsTextMulti.cfg`) | violation | `AllResultsRead` | The second result set of a script is never read. |
| `pg_tx_deferrable` (`MCPgTxDeferrable.cfg`) | violation | `StartSucceedsWhenIdle` | The misspelled DEFERABLE makes `start()` fail. |
| `time_round_trip` (`MCTimeRoundTrip.cfg`) | violation | `RoundTrip` | A DATE read back from a text column gets the garbage of the uninitialized `struct tm` as its time of day. |

**Mutants.** Each property of a pass run also has a mutant in `PROJECT.json`: a plausible bug in a mapped definition that TLC catches under that run's cfg. Examples are a move constructor that does not null its source, a copy that drops the Oids, a reset without `mysql_stmt_reset`, and a list bind that ends one value early without an error.

**Bounds, and why they are enough.**
- **Binding.** Two objects and indexes 0..2 give:
  - the refused index 0;
  - growing past `size_`;
  - rebinding within `size_`;
  - copies and moves between distinct objects.

  The lists bound through `bindable` have two values: a 32-bit NUMBER, then another NUMBER payload or a complex value that throws. Such a list is either bound whole or stops after its first value, and from start 0 its first value is refused. `bind(vector, 1)` has the effect of `bind_all`, so start 1 is enumerated only as `bind_all`. A one-value list is a plain bind, and one with its throw first changes nothing.

  Four addresses hold every string two full objects can own. Two overloads with different Oid categories are enough to see an Oid lost in a copy, and two payloads are enough to see a value replaced. Addresses, objects and payloads are symmetric.
- **Prepared-statement resultset.** Two rows and two objects: the fewest that can share a statement and show a row after a reset.
- **Text resultset.** Three rows and two objects show order across a move, and `<<1, 1>>` is the smallest multi-statement result.
- **Time values.** The times are the midnights of 2020-01-02, 1970-01-01 and 1969-12-31 (a negative `time_t`) in DATE, TIMESTAMP and DATETIME format, and 2020-01-02 10:20:30 in the two formats that print it whole. These are exactly the values whose text names their epoch, so a failed round trip is the reader's fault. TIME text has no date, so no parser can return the epoch of a time of day; TIME is left out of the run. `Garbage = {0, 7}`: 0 is what a zeroed struct would hold. With `Garbage = {0}` the same run passes (980 states), so 7 alone causes the violation.
- **Transaction.** Every isolation level and access mode is enumerated, with the deferrable flag unset, 1 and another set value.

**Deadlock.** `text_rs` and `text_rs_reset_null` disable the deadlock check. The only state with no successor is the process killed by the null dereference in `reset()`, and there the program really stops.

**Fairness.** No liveness property is checked yet, so no fairness is assumed. The library is single-threaded and makes no progress on its own: every step is a call by the application.

## 4. Findings

These are the violation runs above:
- move-assign leak, `binding.cpp:182`;
- self-assignment empties, `binding.cpp:138`;
- reset then next returns false, `resultset.cpp:143`;
- fetch from an unexecuted statement after a failed execute, `resultset.cpp:178` (the first `next()` throws the execute error; later ones report `CR_NO_RESULT_SET`; `reset()` then `next()` re-executes);
- move-assign shares the statement, `resultset.cpp:129`;
- null `mysql_data_seek` after exhaustion, `resultset.cpp:90`;
- inverted multi-result test, `resultset.cpp:75`;
- `DEFERABLE`, `transaction.cpp:60`;
- uninitialized `struct tm` in `parse_time`, `sql_value.cpp:20`.

## 5. Not modelled, and the plan

These parts are left out:
- **`bind(map)`, `delete_query::where`, and the numeric conversions of `bind_value`.** `bind(map)` calls the pure virtual `bind(name, value)`, which no class under `src/` implements. `where(value, args...)` is `where(value)` (its `where_clause` and `modify_query` are not under `src/`) followed by `bind_all`, which `PgBinding` models. That `where` binds its arguments from index 1, where spec 4.6 says the first free slot, is a disagreement that needs a violation run of its own. Every run slot (12) is in use. Payloads are model values, so the wrap of an `UNUMBER` above `LLONG_MAX` in `to_llong` is not represented.
- **Timestamp columns.** `TimeRoundTrip` models them, and with `Columns = {"text", "timestamp"}` TLC also finds that `data_mapper::to_value` reads a TIMESTAMPOID column with `stol`, giving the year as a number of seconds (`binding.cpp:52`). No run slot is left for that second counterexample of `RoundTrip`.
- **`to_ulong`, `to_ullong`, `hashcode` and `to_localtime` of `sql_time`.** The first two reduce `value_` modulo 2^64, which for a negative time is beyond TLC's integers. `hashcode` hashes the `formats` enumerator, whose values are declared in `sql_value.h`, outside `src/`. `to_localtime` depends on the environment's time zone. The missing return after `to_string`'s switch (`sql_value.cpp:134`) is reached only by a `format_` outside the four enumerators, which no constructor produces.
- **`to_time` of a wrapped integer (`sql_value.cpp:175`).** `to_time` models the reduction modulo 2^32, but no run reaches a number outside 0 .. 2^32 - 1: a `sql_time` is bound as text, and a timestamp column read by `stol` gives a year. Showing the wrap would need an integer column read as a time, and a run of its own.
- **Session.** Only declarations are in `src/`. `open` and `close` are spec-modelled in `MysqlResultset`.
- **`current_row()` and `size()`.** They only read. The stale `row_` after `reset()` is listed as a hazard.
- **Blob byte contents.** Payloads are model values. The strdup truncation at NUL is listed as a hazard.
- **`binding::sql_type(index)` and `binding::size()`.** They only read. `sql_type` indexes `types_` from 0 while `bind` counts from 1; nothing under `src/` calls it.
- **Exceptions (`exception.h`).** Declarations made by macros, with no state. Every throw is the `"throw"` outcome of the call that raises it.

What is left is checking, not modelling. Every state-changing operation under `src/` that TLC can represent is an action or operator of a module above. These disagreements were met while modelling and have no run:
- the stale `row_` after `reset()` (`resultset.cpp:90`);
- the stuck state after a failed `mysql_stmt_store_result` (`resultset.cpp:164`);
- the timestamp column read by `stol`;
- the wrapped integer in `to_time`;
- `delete_query::where` binding from index 1.

Each would be a violation run of its own, and the project keeps its twelve runs for the findings in section 4 and the three passing runs. No liveness property is stated. The library has no threads and no background work: every step is an application call, so no fairness condition is justified by the code.
