--------------------------- MODULE MCMysqlResultset ---------------------------
(* Instances of MysqlResultset for TLC: the query's result sets.           *)
EXTENDS MysqlResultset

\* One stored result set of three rows.
MCResultsOne == <<3>>

\* A multi-statement query: two result sets of one row each.
MCResultsMulti == <<1, 1>>
=============================================================================
