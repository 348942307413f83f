---------------------------- MODULE OracleDriver ----------------------------
(***************************************************************************)
(* OracleConnection (src/driver/oracle_driver.cpp).  OCI opens a            *)
(* transaction with the first change and every statement is executed with   *)
(* OCI_DEFAULT, so nothing is committed but by commit.                      *)
(***************************************************************************)
EXTENDS DriverCommon

\* close: txOpen_ decides whether to roll back; logging off with a
\* transaction open ends it one way or the other.
OraClose(c) ==
  {[Gone(NothingPrepared(d)) EXCEPT !.open = FALSE, !.flag = FALSE, !.slot = FALSE] :
     d \in IF c.flag \/ ~ c.up THEN {Undone(c)} ELSE {Undone(c), Committed(c)}}

\* connect, with the statements that set up the session.
OraConnect(c) ==
  UNION {{Res(d, "error"), Res([d EXCEPT !.open = TRUE, !.up = TRUE, !.auto = FALSE], "ok")} :
           d \in OraClose(c)}

\* The three parts of runStatement.  Preparing and binding: LOBs are made on the
\* server.
OraBind(c) == Sent(c, Ok(c)) \cup Refused(c)
\* OCIStmtExecute.  A read opens no transaction; nothing that follows a write fails.
OraSend(c, W) == IF W = {} THEN Sent(c, Ok(c)) ELSE Statement(c, W)
\* The rows: max_result_rows and lob_max_bytes are limits.
OraRows(c) == Sent(c, Ok(c)) \cup Refused(c)
OraRun(c, W) ==
  Then(Then(OraBind(c), LAMBDA d : OraSend(d, W)), LAMBDA d : IF W = {} THEN OraRows(d) ELSE Ok(d))

OraPing(c) == OraRun(c, {})

\* query, execute, execute with generated keys, and queryEach.
OraQuery(c) == OraRun(c, {})
OraExecute(c, W) == OraRun(c, W)
OraExecuteKeys(c, W) == OraRun(c, W)
OraQueryEach(c) == OraRun(c, {})

\* bindOracleInputs and OracleResultReader, which the other operations use.
OraInputs(c) == Sent(c, Ok(c)) \cup Refused(c)
OraReader(c) == Sent(c, Ok(c)) \cup Refused(c)

\* queryAll reads every result that a block returns.
OraQueryAll(c) == Then(Then(OraInputs(c), LAMBDA d : OraSend(d, {})), OraReader)

\* call: checking and binding the parameters, running the block, and reading
\* cursors and output parameters, any of which may fail when the block has run.
\* txOpen_ is set at the very end.
OraCallInputs(c) == Refused(c) \cup Sent(c, Ok(c))
OraCallOutput(c) == Ok([c EXCEPT !.flag = TRUE]) \cup Refused(c) \cup Sent(c, {})
OraCall(c, W) == Then(Then(OraCallInputs(c), LAMBDA d : Statement(d, W)), OraCallOutput)

\* The statement is parsed under a cache key and released to the cache of OCI.
OraPrepare(c, k) ==
  IF Cached(c, k) THEN Ok(Touched(c, k))
  ELSE Refused(c) \cup Sent([c EXCEPT !.seq = @ + 1], Ok(Trimmed(Inserted(c, k))))

\* executePrepared of both kinds, by the text that was prepared.
OraKnown(c, id) == \E p \in c.names : p[1] = id
OraQueryPrepared(c, id) == IF OraKnown(c, id) THEN OraRun(c, {}) ELSE Refused(c)
OraExecutePrepared(c, id, W) == IF OraKnown(c, id) THEN OraRun(c, W) ELSE Refused(c)

\* openCursor and OracleCursor.
OraOpenCursor(c) ==
  Then(Then(OraInputs(c), LAMBDA d : OraSend(d, {})),
       LAMBDA d : Ok([d EXCEPT !.cursor = "open"]) \cup Refused(d))
OraFetch(c) ==
  IF c.cursor = "end" THEN Ok(c) ELSE Sent(c, {Res(c, "ok"), Res([c EXCEPT !.cursor = "end"], "ok")})
OraCloseCursor(c) ==
  {Res([c EXCEPT !.cursor = "none"], "ok"), Res([c EXCEPT !.cursor = "none"], "error")}

\* begin only sets the flag; begin(options) sends SET TRANSACTION first.  It
\* does not look whether there is a transaction.
OraBegin(c) ==
  {Res([c EXCEPT !.flag = TRUE], "ok")} \cup
  Sent(c, {Res([c EXCEPT !.flag = TRUE, !.tx = "open"], "ok")}) \cup Refused(c)

\* commit and rollback clear the flag whatever came of it.
OraEnd(S) == {Res([r.c EXCEPT !.flag = FALSE], r.st) : r \in S}
OraCommit(c) == OraEnd(ServerCommit(c))
OraRollback(c) == OraEnd(ServerRollback(c))

\* executeBatch: array DML; without a transaction of the caller OCI goes on
\* after a row that fails, and everything is rolled back.
OraBatch(c, W) ==
  LET own == ~ c.flag
      run(d) == Statement(d, W) \cup
                UNION {{Res(r.c, "error") : r \in Statement(d, V)} : V \in SUBSET W}
  IN IF own THEN Then(OnFailure(run([c EXCEPT !.flag = TRUE]), OraRollback), OraCommit)
     ELSE run(c)

\* The savepoint operations; releaseSavepoint does nothing.
OraSavepoint(c) == IF c.flag THEN Ok(c) \cup Sent(c, Ok(c)) ELSE Refused(c)

\* cancel: OCIBreak, whether or not something is running.
OraCancel(c) == IF c.open THEN Ok(c) \cup Sent(c, Ok(c)) ELSE Refused(c)

\* ActiveOperation; cancel does not ask for it.
OraRegisters == {"execute", "read", "batch", "call", "openCursor", "fetch", "executePrepared", "prepared",
                 "commit", "rollback"}
=============================================================================
