--------------------------- MODULE PostgresDriver ---------------------------
(***************************************************************************)
(* PostgresConnection (src/driver/postgres_driver.cpp).  Outside a          *)
(* transaction of the caller (tx_) every operation opens one of its own and *)
(* commits it; the library allows one at a time, so while a cursor holds    *)
(* its own transaction (cursor "own") everything else is refused.           *)
(***************************************************************************)
EXTENDS DriverCommon

CONSTANT SwallowedFail   \* commands whose failure the driver swallows may fail: loading
                         \* the types, DEALLOCATE

\* close: tx_ is aborted, the connection and what was prepared on it go.
PgClose(c) == [Gone(NothingPrepared(c)) EXCEPT !.open = FALSE, !.flag = FALSE]

PgConnect(c) ==
  LET d == PgClose(c)
  IN {Res(d, "error"), Res([d EXCEPT !.open = TRUE, !.up = TRUE], "ok")}

\* A transaction object cannot be made while there is another.
PgBusy(c) == c.flag \/ c.cursor \in {"own", "ownEnd"}

\* ping makes one, so it fails inside a transaction.
PgPing(c) == IF PgBusy(c) THEN Refused(c) ELSE Sent(c, Ok(c))

\* What every operation runs in: tx_, or a transaction of its own, which is
\* committed, and rolled back by its destructor on every other way out.
PgIn(c, run(_)) ==
  IF c.flag THEN run(c)
  ELSE IF PgBusy(c) THEN Refused(c)
  ELSE {Res(Undone(r.c), r.st) :
          r \in Then(Then(Sent(c, Ok([c EXCEPT !.tx = "open"])), run), ServerCommit)}

\* PgTypeCache::load: whatever fails is swallowed, but aborts the transaction.
PgLoadTypes(c) == IF SwallowedFail THEN {Res(r.c, "ok") : r \in Sent(c, Ok(c))} ELSE Ok(c)

\* fillResultSet loads the types once; a result set over max_result_rows is an
\* error of the reader that does not abort the transaction.
PgFill(c) == Then(PgLoadTypes(c), LAMBDA d : Ok(d) \cup Refused(d))

\* query and execute, with parameters (whose number may not fit) and without.
PgQuery(c) == Refused(c) \cup PgIn(c, LAMBDA d : Then(Statement(d, {}), PgFill))
PgExecute(c, W) == Refused(c) \cup PgIn(c, LAMBDA d : Statement(d, W))

\* execute with generated keys: RETURNING.
PgExecuteKeys(c, W) == Refused(c) \cup PgIn(c, LAMBDA d : Then(Statement(d, W), PgLoadTypes))

\* queryEach: streamRows declares a cursor, fetches and closes it; the callback
\* may throw.
PgStreamRows(c) == Then(Statement(c, {}), LAMBDA d : Refused(d) \cup Statement(d, {}))
PgQueryEach(c) == Refused(c) \cup PgIn(c, PgStreamRows)

\* executeBatch, of two rows: stops at the first failure.
PgBatchRow(c, W) == Refused(c) \cup Then(Statement(c, W), PgLoadTypes)
PgBatch(c, V, W) == PgIn(c, LAMBDA d : Then(PgBatchRow(d, V), LAMBDA e : PgBatchRow(e, W)))

\* DEALLOCATE of a statement put out of the cache fails, and nobody is told: it
\* stays on the server, and an open transaction is aborted.
PgUnreleased(c, d) == Errored([d EXCEPT !.stmts = @ \cup c.stmts])

\* The statement is prepared; DEALLOCATE, if one is put out, works, loses the
\* session or fails.
PgPrepared(c, d) ==
  Ok(d) \cup (IF Cardinality(d.cache) > Cardinality(c.cache) THEN {} ELSE Ok(Gone(d)))
        \cup (IF Cardinality(d.cache) > Cardinality(c.cache) \/ ~ SwallowedFail THEN {}
              ELSE Ok(PgUnreleased(c, d)))

\* Preparing needs no transaction; in an aborted one it fails.
PgPrepare(c, k) ==
  LET d == Trimmed(Inserted(c, k))
      q == [c EXCEPT !.seq = @ + 1]
  IN IF Cached(c, k) THEN Ok(Touched(c, k))
     ELSE Refused(c) \cup Sent(q, IF c.tx = "aborted" THEN {} ELSE PgPrepared(c, d))

\* executePrepared of both kinds, by the name of the statement.
PgNamed(c, id) == \E p \in c.names : p[1] = id
PgQueryPrepared(c, id) ==
  IF PgNamed(c, id) THEN PgIn(c, LAMBDA d : Then(Statement(d, {}), PgFill)) ELSE Refused(c)
PgExecutePrepared(c, id, W) ==
  IF PgNamed(c, id) THEN PgIn(c, LAMBDA d : Statement(d, W)) ELSE Refused(c)

\* PgCursor::open: in tx_, or in a transaction of the cursor, which rollbackOwned
\* ends when DECLARE fails.
PgCursorOpen(c) ==
  IF c.flag THEN Then(Statement(c, {}), LAMBDA d : Ok([d EXCEPT !.cursor = "open"]))
  ELSE IF PgBusy(c) THEN Refused(c)
  ELSE Sent(c, Ok([c EXCEPT !.cursor = "own", !.tx = "open"]))
PgOpenCursor(c) == Refused(c) \cup PgCursorOpen(c)

\* PgCursor::fetch: an empty batch or an error ends the cursor, and with it
\* open_, so that close will do nothing.
PgFetch(c) ==
  LET end == IF c.cursor = "own" THEN "ownEnd" ELSE "end"
      ended == {Res([r.c EXCEPT !.cursor = end], r.st) : r \in {x \in Statement(c, {}) : x.st # "ok"}}
  IN IF c.cursor \in {"end", "ownEnd"} THEN Ok(c)
     ELSE ended \cup {r \in Statement(c, {}) : r.st = "ok"}
                \cup {Res([r.c EXCEPT !.cursor = end], "ok") : r \in {x \in Statement(c, {}) : x.st = "ok"}}

\* Mutant: the cursor's transaction outlives it.
PgCloseCursorKept(c) == Ok([c EXCEPT !.cursor = "none"])

\* Cursor::close: PgCursor::close commits a transaction of its own after CLOSE;
\* one that has ended is dropped by the destructor, which rolls back.
PgCloseCursor(c) ==
  LET freed == [c EXCEPT !.cursor = "none"]
  IN CASE c.cursor = "open"   -> Statement(freed, {})
       [] c.cursor = "end"    -> Ok(freed)
       [] c.cursor = "own"    -> {Res(Undone(r.c), r.st) : r \in Statement(freed, {})}
       [] c.cursor = "ownEnd" -> Ok(Undone(freed))

\* begin and begin(options): SET TRANSACTION may fail after BEGIN, and the
\* transaction object is dropped again.
PgBegin(c) ==
  IF PgBusy(c) THEN Refused(c)
  ELSE Sent(c, Ok([c EXCEPT !.tx = "open", !.flag = TRUE]))

\* commit and rollback drop tx_ on every way out, and what it dropped is
\* rolled back.
PgEnd(c, S) ==
  IF ~ c.flag THEN Refused(c)
  ELSE {Res(IF r.st = "ok" THEN [r.c EXCEPT !.flag = FALSE]
            ELSE [Undone(r.c) EXCEPT !.flag = FALSE], r.st) : r \in S}
PgCommit(c) == PgEnd(c, ServerCommit(c))
PgRollback(c) == PgEnd(c, ServerRollback(c))

\* The savepoint operations; ROLLBACK TO works in an aborted transaction.  The
\* savepoint is taken to be just in front of the statement that failed.
PgSavepoint(c) ==
  IF ~ c.flag THEN Refused(c)
  ELSE Statement(c, {}) \cup Sent(c, Ok([c EXCEPT !.tx = IF @ = "none" THEN @ ELSE "open"]))

\* cancel under operationMtx_: the server interrupts what runs, which then
\* may fail as it always may.
PgCancel(c) == IF c.open /\ c.slot THEN {Res(c, "ok"), Res(c, "error")} ELSE Refused(c)

\* ActiveOperation: what can be cancelled, and so nothing that was prepared.
PgRegisters == {"execute", "read", "batch", "openCursor", "fetch", "closeCursor"}
=============================================================================
