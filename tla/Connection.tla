----------------------------- MODULE Connection -----------------------------
(***************************************************************************)
(* IDatabaseConnection: the operations of the four drivers, and those that  *)
(* the base class supplies (src/core/idatabase_connection.cpp).             *)
(***************************************************************************)
EXTENDS MysqlDriver, PostgresDriver, OdbcDriver, OracleDriver

\* A virtual call.
Of(c, mysql, postgres, odbc, oracle) ==
  CASE c.kind = "mysql" -> mysql [] c.kind = "postgres" -> postgres
    [] c.kind = "odbc" -> odbc [] c.kind = "oracle" -> oracle

Connect(c) == Of(c, MysqlConnect(c), PgConnect(c), OdbcConnect(c), OraConnect(c))
Close(c) == Of(c, {MysqlClose(c)}, {PgClose(c)}, {OdbcClose(c)}, OraClose(c))
Ping(c) == Of(c, MysqlPing(c), PgPing(c), OdbcPing(c), OraPing(c))
Begin(c) == Of(c, MysqlBegin(c), PgBegin(c), OdbcBegin(c), OraBegin(c))
Commit(c) == Of(c, MysqlCommit(c), PgCommit(c), OdbcCommit(c), OraCommit(c))
Rollback(c) == Of(c, MysqlRollback(c), PgRollback(c), OdbcRollback(c), OraRollback(c))
Savepoint(c) == Of(c, MysqlSavepoint(c), PgSavepoint(c), OdbcSavepoint(c), OraSavepoint(c))
OpenCursor(c) == Of(c, MysqlOpenCursor(c), PgOpenCursor(c), OdbcOpenCursor(c), OraOpenCursor(c))
Fetch(c) == Of(c, MysqlFetch(c), PgFetch(c), OdbcFetch(c), OraFetch(c))
CloseCursor(c) ==
  Of(c, MysqlCloseCursor(c), PgCloseCursor(c), OdbcCloseCursor(c), OraCloseCursor(c))
Prepare(c, k) == Of(c, MysqlPrepare(c, k), PgPrepare(c, k), OdbcPrepare(c, k), OraPrepare(c, k))
QueryPrepared(c, id) ==
  Of(c, MysqlQueryPrepared(c, id), PgQueryPrepared(c, id), OdbcQueryPrepared(c, id),
     OraQueryPrepared(c, id))
ExecutePrepared(c, id, W) ==
  Of(c, MysqlExecutePrepared(c, id, W), PgExecutePrepared(c, id, W),
     OdbcExecutePrepared(c, id, W), OraExecutePrepared(c, id, W))

\* query and execute, with parameters and without, and execute with generated
\* keys.
Query(c) ==
  Of(c, MysqlQuery(c) \cup MysqlQueryParams(c), PgQuery(c), OdbcQuery(c) \cup OdbcQueryParams(c),
     OraQuery(c))
ExecuteKeys(c, W) ==
  Of(c, MysqlExecuteKeys(c, W), PgExecuteKeys(c, W), OdbcExecuteKeys(c, W), OraExecuteKeys(c, W))
Execute(c, W) ==
  Of(c, MysqlExecute(c, W) \cup MysqlExecuteParams(c, W), PgExecute(c, W),
     OdbcExecute(c, W) \cup OdbcExecuteParams(c, W), OraExecute(c, W)) \cup ExecuteKeys(c, W)

\* Streams as parameters are read into values, which may fail, before S.
Materialized(c, S) == Refused(c) \cup S

\* queryAll of the base class is one query.
QueryAll(c) == Of(c, MysqlQueryAll(c), PgQuery(c), Query(c), OraQueryAll(c))
QueryEach(c) == Of(c, MysqlQueryEach(c), PgQueryEach(c), OdbcQueryEach(c), OraQueryEach(c))

\* call of the base class is not supported.
Call(c, W) == Of(c, Refused(c), Refused(c), Refused(c), OraCall(c, W))

\* Mutant: no transaction around the rows.
DefaultBatchBare(c, V, W) == Then(ExecuteKeys(c, V), LAMBDA e : ExecuteKeys(e, W))

\* executeBatch of the base class, for two rows: a transaction of its own
\* unless there is one, and no second attempt when rolling back fails.
DefaultBatch(c, V, W) ==
  LET own == ~ c.flag
      run(d) == Then(ExecuteKeys(d, V), LAMBDA e : ExecuteKeys(e, W))
  IN IF own THEN Then(Begin(c), LAMBDA d : Then(OnFailure(run(d), Rollback), Commit))
     ELSE run(c)

\* Oracle has an array interface, for rows that fit it.
Batch(c, V, W) ==
  Of(c, DefaultBatch(c, V, W), PgBatch(c, V, W), DefaultBatch(c, V, W),
     OraBatch(c, V \cup W) \cup DefaultBatch(c, V, W))

\* runPreparedQuery and runPreparedExec of Session: prepare and execute, or
\* execute without when preparing fails.
PreparedPath(c, k, W) ==
  UNION {IF r.st # "ok" THEN (IF W = {} THEN Query(r.c) ELSE Execute(r.c, W))
         ELSE IF W = {} THEN QueryPrepared(r.c, IdOf(r.c, k))
         ELSE ExecutePrepared(r.c, IdOf(r.c, k), W) : r \in Prepare(c, k)}

\* Which operations register a statement for cancel.
Registers(c, op) == op \in Of(c, MysqlRegisters, PgRegisters, OdbcRegisters, OraRegisters)
=============================================================================
