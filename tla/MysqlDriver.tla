----------------------------- MODULE MysqlDriver -----------------------------
(***************************************************************************)
(* MySQLConnection (src/driver/mysql_driver.cpp).  Results that have not    *)
(* been read to the end stay on the wire, and until then the client library *)
(* refuses every other command as out of sync.                              *)
(***************************************************************************)
EXTENDS DriverCommon

\* mysql_query, mysql_real_query, mysql_stmt_prepare, mysql_ping.
MysqlSend(c, done) == IF c.wire # Nothing THEN Refused(c) ELSE Sent(c, done)

\* close, and with it the destructor.
MysqlClose(c) ==
  [Gone(NothingPrepared(c)) EXCEPT !.open = FALSE, !.flag = FALSE, !.wire = Nothing]

MysqlConnect(c) ==
  LET d == MysqlClose(c)
  IN {Res(d, "error"), Res([d EXCEPT !.open = TRUE, !.up = TRUE], "ok")}

MysqlPing(c) == MysqlSend(c, Ok(c))

\* fillResultSet: a result set over max_result_rows is an error, which leaves
\* the result sets behind it, if there are any, unread.
MysqlFill(c) == {Res(c, "ok"), Res(c, "error"), Res([c EXCEPT !.wire = TextResults], "error")}

\* drainRemainingResults: extra result sets are read and dropped.
MysqlDrain(c) == Sent(c, Ok(c))

\* query and queryAll of a text.
MysqlQuery(c) ==
  IF c.wire # Nothing THEN Refused(c) ELSE Then(Then(Statement(c, {}), MysqlFill), MysqlDrain)
MysqlQueryAll(c) ==
  IF c.wire # Nothing THEN Refused(c)
  ELSE Then(Statement(c, {}), LAMBDA d : MysqlFill(d) \cup Sent(d, Ok(d)))

\* execute of a text: if it returns rows, reading the next result is out of sync.
MysqlExecute(c, W) ==
  IF c.wire # Nothing THEN Refused(c)
  ELSE Then(Statement(c, W),
            LAMBDA d : IF W = {} THEN {Res(d, "ok"), Res([d EXCEPT !.wire = TextResults], "error")}
                       ELSE MysqlDrain(d))

\* prepareAndBind: a statement of its own, which is closed, and its results
\* with it, on every way out.  Binding fails when parameters do not fit.
MysqlPrepareAndBind(c) == MysqlSend(c, Ok(c)) \cup Refused(c)
MysqlStmtExecute(c, W) == Then(MysqlPrepareAndBind(c), LAMBDA d : Statement(d, W))

\* fetchPreparedInternal: reading can fail, or find more rows than allowed.
MysqlRows(c) == Sent(c, Ok(c)) \cup Refused(c)

\* query, execute, and execute with generated keys, with parameters.
MysqlQueryParams(c) == Then(MysqlStmtExecute(c, {}), MysqlRows)
MysqlExecuteParams(c, W) == MysqlStmtExecute(c, W)
MysqlExecuteKeys(c, W) == MysqlStmtExecute(c, W)

\* queryEach: the callback may stop early; closing the statement drops the rest.
MysqlQueryEach(c) == Then(MysqlStmtExecute(c, {}), LAMBDA d : Sent(d, Ok(d)))

MysqlPrepare(c, k) ==
  IF Cached(c, k) THEN Ok(Touched(c, k))
  ELSE MysqlSend(c, Ok(Trimmed(Inserted(c, k))))

\* executePrepared: executing a statement drops what is left of its own last
\* result.  A reader that stops at the row limit leaves its rows on the wire.
MysqlRunPrepared(c, id, W) ==
  IF ~ Resolves(c, id) \/ c.wire \notin {Nothing, ResultsOf(id)} THEN Refused(c)
  ELSE Refused(c) \cup Statement([c EXCEPT !.wire = Nothing], W)
MysqlQueryPrepared(c, id) ==
  Then(MysqlRunPrepared(c, id, {}),
       LAMBDA d : MysqlRows(d) \cup {Res([d EXCEPT !.wire = ResultsOf(id)], "error")})
\* What returns rows is executed, and nobody reads them.
MysqlExecutePrepared(c, id, W) ==
  Then(MysqlRunPrepared(c, id, W),
       LAMBDA d : Ok(d) \cup (IF W = {} THEN Ok([d EXCEPT !.wire = ResultsOf(id)]) ELSE {}))

\* setupResult, then the rows stay on the wire while the cursor is open.
MysqlSetupResult(c) ==
  {Res([c EXCEPT !.cursor = "open", !.wire = CursorRows], "ok"),
   Res([c EXCEPT !.cursor = "end"], "ok"), Res(c, "error")}
MysqlOpenCursor(c) == Then(MysqlStmtExecute(c, {}), MysqlSetupResult)

\* MyCursor::fetch: rows, the end, or an error, after which it is still open.
MysqlFetch(c) ==
  IF c.cursor = "end" THEN Ok(c)
  ELSE Sent(c, {Res(c, "ok"), Res([c EXCEPT !.cursor = "end", !.wire = Nothing], "ok")})

\* MyCursor::close and the destructor: reset closes the statement.
MysqlCloseCursor(c) ==
  Ok([c EXCEPT !.cursor = "none", !.wire = IF @ = CursorRows THEN Nothing ELSE @])

\* begin and begin(options): options are statements in front of START TRANSACTION.
MysqlBegin(c) ==
  IF c.flag THEN Refused(c)
  ELSE MysqlSend(c, {Res([c EXCEPT !.tx = "open", !.flag = TRUE], "ok")})

\* COMMIT and ROLLBACK are sent whatever txOpen_ says, and a failure leaves it.
MysqlEnd(c, S) ==
  IF c.wire # Nothing THEN Refused(c)
  ELSE Then(S, LAMBDA d : Ok([d EXCEPT !.flag = FALSE]))
MysqlCommit(c) == MysqlEnd(c, ServerCommit(c))
MysqlRollback(c) == MysqlEnd(c, ServerRollback(c))

\* savepoint, releaseSavepoint, rollbackToSavepoint (which keeps the rows here).
MysqlSavepoint(c) == IF c.flag THEN MysqlSend(c, Ok(c)) ELSE Refused(c)

\* cancel holds operationMtx_, under which a statement is registered and
\* deregistered: a control connection kills the session.
MysqlCancel(c) ==
  IF c.open /\ c.slot THEN {Res(c, "error"), Res(Gone(c), "ok")} ELSE Refused(c)

\* ActiveMysqlOperation: what can be cancelled.
MysqlRegisters == {"execute", "read", "batch", "openCursor", "fetch", "executePrepared", "prepared"}
=============================================================================
