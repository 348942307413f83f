----------------------------- MODULE OdbcDriver -----------------------------
(***************************************************************************)
(* OdbcConnection (src/driver/odbc_driver.cpp).  A transaction is the       *)
(* autocommit attribute turned off; the ODBC driver behind opens one with   *)
(* the next statement, and turning the attribute on again commits.          *)
(***************************************************************************)
EXTENDS DriverCommon

\* SQLSetConnectAttr(SQL_ATTR_AUTOCOMMIT).
OdbcSetAuto(c, on) ==
  IF c.up THEN {Res([IF on THEN Committed(c) ELSE c EXCEPT !.auto = on], "ok"), Res(c, "error")}
  ELSE {Res(c, LostStatus(c))}

\* close: an open transaction is rolled back before the disconnect.
OdbcClose(c) ==
  [Gone(NothingPrepared(c)) EXCEPT !.open = FALSE, !.flag = FALSE, !.auto = TRUE]

OdbcConnect(c) ==
  LET d == OdbcClose(c)
  IN {Res(d, "error"), Res([d EXCEPT !.open = TRUE, !.up = TRUE], "ok")}

\* ping asks the driver manager first, which may not have noticed yet.
OdbcPing(c) == Ok(c) \cup Sent(c, Ok(c))

\* newStatement: a handle of its own for a statement, freed by StmtGuard.
OdbcNewStatement(c) == Ok(c) \cup Refused(c)

\* bindParameters, and prepareAndBind, which prepares on the server or not.
OdbcBind(c) == Ok(c) \cup Refused(c)
OdbcPrepareAndBind(c) == Then(OdbcNewStatement(c), LAMBDA d : Then(Ok(d) \cup Sent(d, Ok(d)), OdbcBind))

\* fetchRowsInternal; there is no limit on the rows.
OdbcRows(c) == Sent(c, Ok(c))

\* query and execute of a text, and with parameters.  SQLRowCount may fail after
\* the statement has run.
OdbcRowCount(c) == Ok(c) \cup Refused(c)
OdbcQuery(c) == Then(Then(OdbcNewStatement(c), LAMBDA d : Statement(d, {})), OdbcRows)
OdbcExecute(c, W) == Then(Then(OdbcNewStatement(c), LAMBDA d : Statement(d, W)), OdbcRowCount)
OdbcQueryParams(c) == Then(Then(OdbcPrepareAndBind(c), LAMBDA d : Statement(d, {})), OdbcRows)
OdbcExecuteParams(c, W) == Then(Then(OdbcPrepareAndBind(c), LAMBDA d : Statement(d, W)), OdbcRowCount)

\* queryEach: fetchEach, which the callback may stop.
OdbcQueryEach(c) == Then(Then(OdbcPrepareAndBind(c), LAMBDA d : Statement(d, {})), OdbcRows)

\* execute with generated keys reads what the statement returns.
OdbcExecuteKeys(c, W) ==
  Then(Then(Then(OdbcPrepareAndBind(c), LAMBDA d : Statement(d, W)), OdbcRows), OdbcRowCount)

OdbcPrepare(c, k) ==
  IF Cached(c, k) THEN Ok(Touched(c, k))
  ELSE Then(OdbcNewStatement(c), LAMBDA d : Sent(d, Ok(Trimmed(Inserted(d, k)))))

\* executePrepared of both kinds; PreparedStmtReset leaves no open cursor on the
\* handle.
OdbcRunPrepared(c, id, W) ==
  IF Resolves(c, id) THEN Then(OdbcBind(c), LAMBDA d : Statement(d, W)) ELSE Refused(c)
OdbcQueryPrepared(c, id) == Then(OdbcRunPrepared(c, id, {}), OdbcRows)
OdbcExecutePrepared(c, id, W) == Then(OdbcRunPrepared(c, id, W), OdbcRowCount)

\* openCursor and OdbcCursor, on a handle of their own.
OdbcSetupResult(c) == Ok([c EXCEPT !.cursor = "open"]) \cup Refused(c)
OdbcOpenCursor(c) == Then(Then(OdbcPrepareAndBind(c), LAMBDA d : Statement(d, {})), OdbcSetupResult)
OdbcFetch(c) ==
  IF c.cursor = "end" THEN Ok(c) ELSE Sent(c, {Res(c, "ok"), Res([c EXCEPT !.cursor = "end"], "ok")})
OdbcCloseCursor(c) == Ok([c EXCEPT !.cursor = "none"])

\* begin and begin(options).
OdbcBegin(c) ==
  IF c.flag THEN Refused(c)
  ELSE Then(OdbcSetAuto(c, FALSE), LAMBDA d : Ok([d EXCEPT !.flag = TRUE]))

\* commit and rollback: SQLEndTran, then autocommit again, whatever came of it,
\* and txOpen_ is cleared.
OdbcEnd(c, S) ==
  IF ~ c.flag THEN Refused(c)
  ELSE UNION {{Res([a.c EXCEPT !.flag = FALSE], IF r.st = "ok" THEN a.st ELSE r.st) :
                 a \in OdbcSetAuto(r.c, TRUE)} : r \in S}
OdbcCommit(c) == OdbcEnd(c, ServerCommit(c))
OdbcRollback(c) == OdbcEnd(c, ServerRollback(c))

\* The savepoint operations call execute.
OdbcSavepoint(c) == IF c.flag THEN OdbcExecute(c, {}) ELSE Refused(c)

\* cancel takes the statement out of the slot under the lock, and cancels it
\* after the lock (module Session).
OdbcTakeStatement(c) == [c EXCEPT !.slot = FALSE]
OdbcCancel(c) == Ok(c) \cup Sent(c, Ok(c))

\* ActiveStatement: what can be cancelled.
OdbcRegisters == {"execute", "read", "batch", "openCursor", "executePrepared", "prepared", "savepoint"}
=============================================================================
