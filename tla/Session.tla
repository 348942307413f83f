------------------------------ MODULE Session ------------------------------
(***************************************************************************)
(* Session, Cursor and the operations of DataSource that hand them out      *)
(* (withSession, transaction, openCursor, executeBatch), over one           *)
(* connection of the pool and the driver behind it.  The callback of the    *)
(* caller is a sequence of operations; the thread that watches the deadline *)
(* of a transaction runs beside it.  Observation is left out; interceptors  *)
(* and the audit of statements may refuse a call.                           *)
(***************************************************************************)
EXTENDS Connection

CONSTANTS
  Used,         \* kinds of drivers to look at
  Modes,        \* how connections are borrowed
  Ops,          \* what callbacks call
  MaxSessions,  \* bound on borrowings
  MaxCalls,     \* bound on the calls of a callback
  Careful       \* a callback returns the failure of a statement

\* The drivers, the calls that the operations below model, and the bounds.
ASSUME SessionAssumption ==
  /\ MaxSessions \in Nat /\ MaxCalls \in Nat
  /\ Used \subseteq Kinds /\ Modes \subseteq {"session", "transaction", "cursor"}
  /\ Ops \subseteq {"execute", "read", "call", "batch", "savepoint", "begin", "commit", "rollback",
                   "openCursor", "fetch", "closeCursor", "prepare", "executePrepared", "prepared"}

VARIABLES
  c,         \* the connection
  made,      \* the number of connections the pool has made
  pc,        \* where the borrower is
  s,         \* the session
  op,        \* the driver operation in progress
  depth,     \* gTxDepth of the thread
  watcher,   \* the watcher of the transaction
  timedOut,
  canc,      \* the statement handle that cancel holds
  held,      \* prepared handles given to callers, with key and connection
  acked,     \* rows every session was told are written
  outcome,   \* what its caller was told
  stained,   \* ending a transaction failed, and the connection was kept
  batches    \* rows of every batch outside a transaction, unless stained

vars == <<c, made, pc, s, op, depth, watcher, timedOut, canc, held, acked, outcome,
          stained, batches>>
histories == <<held, acked, outcome, stained, batches>>
watching == <<watcher, timedOut, canc>>

Sessions == 1..MaxSessions
NoSession == [n |-> 0, mode |-> "none", tx |-> FALSE, bad |-> FALSE, calls |-> 0, failed |-> FALSE]

\* Two rows can be written by one call.
Row(i) == <<s.n, s.calls, i>>
Rows == Sessions \X (1..MaxCalls) \X (1..2)

Init ==
  /\ c \in {Closed(kind) : kind \in Used}
  /\ made = 0 /\ pc = "idle" /\ s = NoSession /\ op = "none" /\ depth = 0
  /\ watcher = "none" /\ timedOut = FALSE /\ canc = "none"
  /\ held = {} /\ acked = [n \in Sessions |-> {}] /\ outcome = [n \in Sessions |-> "none"]
  /\ stained = FALSE /\ batches = {}

-----------------------------------------------------------------------------
(* Borrowing and giving back. *)

\* The pool makes a connection object; what was committed stays.
Fresh == [Closed(c.kind) EXCEPT !.stored = c.stored]

\* A connection of the pool is handed out as it is, or after a ping.
Reused == IF c.open THEN {c} \cup {r.c : r \in {x \in Ping(c) : x.st = "ok"}} ELSE {}

\* borrowSession.
Borrow(mode) ==
  /\ pc = "idle" /\ s.n < MaxSessions
  /\ \/ c' \in Reused /\ UNCHANGED <<made, stained>>
     \/ /\ ~ c.open \/ \E r \in Ping(c) : r.st # "ok"
        /\ c' \in {r.c : r \in {x \in Connect(Fresh) : x.st = "ok"}}
        /\ made' = made + 1 /\ stained' = FALSE
  /\ s' = [NoSession EXCEPT !.n = s.n + 1, !.mode = mode]
  /\ outcome' = [outcome EXCEPT ![s.n + 1] = "running"]
  /\ pc' = CASE mode = "transaction" -> "begin" [] mode = "session" -> "body"
             [] mode = "cursor" -> "openCursor"
  /\ UNCHANGED <<op, depth, held, acked, batches>> /\ UNCHANGED watching

\* Mutant: an open transaction is left as it is.
CleanedUpNot == {Res(c, "ok")}

\* cleanupOpenTransaction: a transaction that is still open is rolled back.
CleanedUp == IF s.tx THEN Rollback(c) ELSE Ok(c)

\* The session and its handle go; the pool keeps the connection unless it was
\* invalidated.
Release ==
  /\ pc = "release"
  /\ \E r \in CleanedUp :
       IF s.bad \/ (s.tx /\ r.st # "ok")
       THEN \E d \in Close(r.c) : c' = d
       ELSE c' = r.c
  /\ depth' = IF s.tx THEN depth - 1 ELSE depth
  /\ s' = [NoSession EXCEPT !.n = s.n]
  /\ pc' = "idle" /\ watcher' = "none" /\ timedOut' = FALSE
  /\ UNCHANGED <<made, op, canc>> /\ UNCHANGED histories

-----------------------------------------------------------------------------
(* The operations of a callback.  An operation starts, with its statement    *)
(* registered for cancel, and returns.                                       *)

\* auditStatement, or an interceptor: a statement that is refused never reaches
\* the driver.
Audited(S) == Refused(c) \cup S

\* The methods of Session.  Those that read:
SessionQuery == Audited(Query(c))
SessionStreamQuery == Audited(Materialized(c, Query(c)))
SessionQueryAll == Audited(QueryAll(c))
SessionQueryEach == Audited(QueryEach(c) \cup {Res(r.c, "error") : r \in QueryEach(c)})

\* Those that write; some with the keys that were generated.
SessionExecute == Audited(Execute(c, {Row(1)}))
SessionExecuteKeys == Audited(ExecuteKeys(c, {Row(1)}))
SessionStreamExecute == Audited(Materialized(c, ExecuteKeys(c, {Row(1)})))
SessionCall == Audited(Call(c, {Row(1)}))
SessionBatch == Audited(Batch(c, {Row(1)}, {Row(2)}))
SessionStreamBatch == Audited(Materialized(c, Batch(c, {Row(1)}, {Row(2)})))

\* Those that nobody audits, but for opening a cursor.
SessionBegin == Begin(c)
SessionCommit == Commit(c)
SessionRollback == Rollback(c)
SessionSavepoint == Savepoint(c)
SessionOpenCursor == Audited(OpenCursor(c))

Outcome(o) ==
  CASE o = "execute"    -> SessionExecute \cup SessionExecuteKeys \cup SessionStreamExecute
    [] o = "read"       -> SessionQuery \cup SessionStreamQuery \cup SessionQueryAll \cup SessionQueryEach
    [] o = "call"       -> SessionCall
    [] o = "batch"      -> SessionBatch \cup SessionStreamBatch
    [] o = "savepoint"  -> SessionSavepoint
    [] o = "begin"      -> SessionBegin
    [] o = "commit"     -> SessionCommit
    [] o = "rollback"   -> SessionRollback
    [] o = "openCursor" -> SessionOpenCursor
    [] o = "fetch"      -> Fetch(c)
    [] o = "closeCursor" -> CloseCursor(c)

\* The rows that are written.
Writes(o) ==
  CASE o \in {"execute", "call"} -> {Row(1)} [] o = "batch" -> {Row(1), Row(2)} [] OTHER -> {}

\* A callback closes its cursors before it ends the transaction they run in,
\* and opens one at a time.
MayCall(o) ==
  CASE o \in {"fetch", "closeCursor"} -> c.cursor # "none"
    [] o \in {"openCursor", "commit", "rollback"} -> c.cursor = "none"
    [] o = "executePrepared" -> held # {}
    [] OTHER -> TRUE

Start(o) ==
  /\ op = "none" /\ MayCall(o)
  /\ op' = o
  /\ c' = [c EXCEPT !.slot = Registers(c, o)]
  /\ UNCHANGED <<made, pc, depth>> /\ UNCHANGED histories /\ UNCHANGED watching

CallOp(o) ==
  /\ pc = "body"
  /\ (s.calls < MaxCalls /\ ~ (Careful /\ s.failed)) \/ o = "closeCursor"
  /\ Start(o)
  /\ s' = IF o = "closeCursor" THEN s ELSE [s EXCEPT !.calls = @ + 1]

\* begin counts the transaction, commit and rollback forget it.
TxAfter(o, st) == (o = "begin" /\ st = "ok") \/ (s.tx /\ o \notin {"commit", "rollback"})

\* Mutant: only a commit that succeeds counts down.
DepthAfterCommitted(o, st) ==
  CASE o = "begin" /\ st = "ok" /\ ~ s.tx -> depth + 1
    [] o \in {"commit", "rollback"} /\ st = "ok" /\ s.tx -> depth - 1
    [] OTHER -> depth
DepthAfter(o, st) ==
  CASE o = "begin" /\ st = "ok" /\ ~ s.tx -> depth + 1
    [] o \in {"commit", "rollback"} /\ s.tx -> depth - 1
    [] OTHER -> depth

\* A broken connection is given up, but not when preparing or reading a cursor.
BadAfter(o, st) == s.bad \/ (st = "broken" /\ o \notin {"prepare", "openCursor", "fetch", "closeCursor"})

\* ODBC frees the handle of a statement that was not prepared by the caller.
HandleAfter(o) == IF canc = "live" /\ o \in {"execute", "read", "batch", "savepoint"} THEN "freed" ELSE canc

\* Ending a transaction failed: the caller's, or that of a batch.
Stains(o, r) ==
  \/ o \in {"commit", "rollback"} /\ r.st # "ok"
  \/ /\ o = "batch" /\ ~ s.tx /\ r.st # "ok"
     /\ r.c.tx # "none" \/ r.c.flag \/ (r.c.kind = "odbc" /\ ~ r.c.auto)

\* Operation o, which writes W, returns r.
Return(o, W, r) ==
  /\ c' = [r.c EXCEPT !.slot = FALSE]
  /\ op' = "none"
  /\ s' = [s EXCEPT !.tx = TxAfter(o, r.st), !.bad = BadAfter(o, r.st),
                    !.failed = @ \/ r.st # "ok"]
  /\ depth' = DepthAfter(o, r.st)
  /\ canc' = HandleAfter(o)
  /\ acked' = IF r.st = "ok" THEN [acked EXCEPT ![s.n] = @ \cup W] ELSE acked
  /\ stained' = (stained \/ Stains(o, r))
  /\ batches' = IF o = "batch" /\ ~ s.tx /\ ~ stained' THEN batches \cup {{Row(1), Row(2)}} ELSE batches
  /\ UNCHANGED <<made, pc, outcome, watcher, timedOut>>

ReturnOp ==
  /\ pc = "body" /\ op \notin {"none", "prepare", "executePrepared", "prepared"}
  /\ \E r \in Outcome(op) : Return(op, Writes(op), r)
  /\ UNCHANGED held

\* prepare gives the caller a handle.
ReturnPrepare ==
  /\ pc = "body" /\ op = "prepare"
  /\ \E k \in Keys : \E r \in Audited(Prepare(c, k)) :
       /\ Return(op, {}, r)
       /\ held' = IF r.st = "ok" THEN held \cup {<<IdOf(r.c, k), k, made>>} ELSE held

ReturnExecutePrepared ==
  /\ pc = "body" /\ op = "executePrepared"
  /\ \E h \in held :
       \/ \E r \in QueryPrepared(c, h[1]) : Return(op, {}, r)
       \/ \E W \in {{}, {Row(1)}} : \E r \in ExecutePrepared(c, h[1], W) : Return(op, W, r)
  /\ UNCHANGED held

\* query and execute with parameters, through the cache.
ReturnPrepared ==
  /\ pc = "body" /\ op = "prepared"
  /\ \E k \in Keys, W \in {{}, {Row(1)}} : \E r \in Audited(PreparedPath(c, k, W)) : Return(op, W, r)
  /\ UNCHANGED held

-----------------------------------------------------------------------------
(* transactionInternal. *)

\* begin, then the watcher if there is a deadline.
TxBegin ==
  /\ pc = "begin"
  /\ \E r \in Begin(c) :
       /\ c' = r.c
       /\ s' = [s EXCEPT !.tx = (r.st = "ok"), !.bad = (r.st = "broken")]
       /\ depth' = IF r.st = "ok" THEN depth + 1 ELSE depth
       /\ pc' = IF r.st = "ok" THEN "body" ELSE "release"
       /\ outcome' = IF r.st = "ok" THEN outcome ELSE [outcome EXCEPT ![s.n] = "failed"]
       /\ watcher' \in (IF r.st = "ok" THEN {"none", "waiting"} ELSE {"none"})
  /\ UNCHANGED <<made, op, timedOut, canc, held, acked, stained, batches>>

\* The callback ends: with a failure of its own or of a statement, an exception
\* that runGuarded catches, or success.
CallbackEnds ==
  /\ pc = "body" /\ op = "none" /\ c.cursor = "none"
  /\ \E failed \in BOOLEAN :
       /\ Careful /\ s.failed => failed
       /\ s' = [s EXCEPT !.failed = failed]
  /\ IF s.mode = "transaction"
     THEN /\ pc' = "join"
          /\ timedOut' \in (IF watcher = "none" THEN {FALSE} ELSE {timedOut, TRUE})
          /\ UNCHANGED outcome
     ELSE /\ pc' = "release"
          /\ outcome' = [outcome EXCEPT ![s.n] = IF s'.failed THEN "failed" ELSE "ok"]
          /\ UNCHANGED timedOut
  /\ UNCHANGED <<c, made, op, depth, watcher, canc, held, acked, stained, batches>>

\* Mutant: the watcher is left to itself.
JoinableNot == TRUE

\* finished is set and signalled: a watcher that waits ends, and join waits for
\* one that cancels.
Joinable == watcher # "cancelling"
Join ==
  /\ pc = "join" /\ Joinable
  /\ pc' = "finish"
  /\ watcher' = IF watcher = "waiting" THEN "done" ELSE watcher
  /\ UNCHANGED <<c, made, s, op, depth, timedOut, canc>> /\ UNCHANGED histories

\* Mutant: a timeout is reported, and not rolled back.
TxEndLate == IF s.failed THEN Rollback(c) ELSE IF s.tx THEN Commit(c) ELSE Ok(c)

\* Rolled back after a failure or a timeout; committed if the callback has not
\* ended the transaction.
TxEnd == IF s.failed \/ timedOut THEN Rollback(c) ELSE IF s.tx THEN Commit(c) ELSE Ok(c)
Told(st) ==
  IF s.failed \/ timedOut THEN "failed" ELSE IF st = "ok" THEN "ok" ELSE "doubt"
TxFinish ==
  /\ pc = "finish"
  /\ \E r \in TxEnd :
       /\ c' = r.c
       /\ s' = [s EXCEPT !.tx = FALSE, !.bad = @ \/ r.st = "broken"]
       /\ depth' = IF s.tx THEN depth - 1 ELSE depth
       /\ outcome' = [outcome EXCEPT ![s.n] = Told(r.st)]
       /\ stained' = (stained \/ r.st # "ok")
  /\ pc' = "release"
  /\ UNCHANGED <<made, op, held, acked, batches>> /\ UNCHANGED watching

-----------------------------------------------------------------------------
(* The watcher: Session::cancel when the deadline passes. *)

WatcherTimeout ==
  /\ watcher = "waiting" /\ pc \in {"body", "join"}
  /\ watcher' = "cancelling" /\ timedOut' = TRUE
  /\ UNCHANGED <<c, made, pc, s, op, depth, canc>> /\ UNCHANGED histories

DriverCancel == Of(c, MysqlCancel(c), PgCancel(c), OdbcCancel(c), OraCancel(c))
\* A connection that turns out to be broken is given up.
Cancelled(r) == c' = r.c /\ s' = [s EXCEPT !.bad = @ \/ r.st = "broken"]

\* The drivers but ODBC cancel under the lock of the registration.
WatcherCancels ==
  /\ watcher = "cancelling" /\ c.kind # "odbc"
  /\ \E r \in DriverCancel : Cancelled(r)
  /\ watcher' = "done"
  /\ UNCHANGED <<made, pc, op, depth, timedOut, canc>> /\ UNCHANGED histories

\* ODBC takes the statement out under the lock, and cancels it after it.
WatcherTakes ==
  /\ watcher = "cancelling" /\ c.kind = "odbc" /\ canc = "none"
  /\ IF c.slot THEN canc' = "live" /\ UNCHANGED watcher ELSE watcher' = "done" /\ UNCHANGED canc
  /\ c' = OdbcTakeStatement(c)
  /\ UNCHANGED <<made, pc, s, op, depth, timedOut>> /\ UNCHANGED histories
WatcherCancelsTaken ==
  /\ watcher = "cancelling" /\ canc # "none"
  /\ \E r \in DriverCancel : Cancelled(r)
  /\ watcher' = "done" /\ canc' = "none"
  /\ UNCHANGED <<made, pc, op, depth, timedOut>> /\ UNCHANGED histories

-----------------------------------------------------------------------------
(* DataSource::openCursor: a cursor that owns the handle, and no session. *)

CursorOpen ==
  /\ pc = "openCursor"
  /\ \E r \in OpenCursor(c) :
       /\ c' = r.c
       /\ pc' = IF r.st = "ok" THEN "cursor" ELSE "release"
       /\ outcome' = [outcome EXCEPT ![s.n] = IF r.st = "ok" THEN "ok" ELSE "failed"]
  /\ UNCHANGED <<made, s, op, depth, held, acked, stained, batches>> /\ UNCHANGED watching

CursorFetch ==
  /\ pc = "cursor" /\ s.calls < MaxCalls
  /\ \E r \in Fetch(c) : c' = r.c
  /\ s' = [s EXCEPT !.calls = @ + 1]
  /\ UNCHANGED <<made, pc, op, depth>> /\ UNCHANGED histories /\ UNCHANGED watching

\* Cursor::close and ~Cursor: the driver's cursor first, then the handle.
CursorClose ==
  /\ pc = "cursor"
  /\ \E r \in CloseCursor(c) : c' = r.c
  /\ pc' = "release"
  /\ UNCHANGED <<made, s, op, depth>> /\ UNCHANGED histories /\ UNCHANGED watching

-----------------------------------------------------------------------------
Next ==
  \/ \E mode \in Modes : Borrow(mode)
  \/ \E o \in Ops : CallOp(o)
  \/ ReturnOp \/ ReturnPrepare \/ ReturnExecutePrepared \/ ReturnPrepared
  \/ TxBegin \/ CallbackEnds \/ Join \/ TxFinish \/ Release
  \/ WatcherTimeout \/ WatcherCancels \/ WatcherTakes \/ WatcherCancelsTaken
  \/ CursorOpen \/ CursorFetch \/ CursorClose

Spec == Init /\ [][Next]_vars

-----------------------------------------------------------------------------
(* Properties. *)

\* The variables have their types.
TypeOK ==
  /\ c.kind \in Used /\ made \in 0..MaxSessions /\ depth \in 0..1
  /\ {c.open, c.flag, c.slot, c.up, c.auto, timedOut, stained} \subseteq BOOLEAN
  /\ c.cursor \in {"none", "open", "end", "own", "ownEnd"}
  /\ c.tx \in {"none", "open", "aborted"}
  /\ c.rows \cup c.stored \subseteq Rows
  /\ pc \in {"idle", "begin", "body", "join", "finish", "release", "openCursor", "cursor"}
  /\ s.n \in 0..MaxSessions /\ s.calls \in 0..MaxCalls
  /\ watcher \in {"none", "waiting", "cancelling", "done"}
  /\ canc \in {"none", "live", "freed"}
  /\ outcome \in [Sessions -> {"none", "running", "ok", "failed", "doubt"}]

\* A connection goes back to the pool without a transaction, an open cursor or
\* a registered statement, unless ending a transaction failed on it (see
\* session_leaked_tx) or, with Oracle, nobody asked for one: whoever borrows it
\* next is not inside the work of somebody else (DM cleanupOpenTransaction,
\* Cursor::close).
CleanWhenPooled ==
  pc = "idle" /\ c.open =>
    /\ c.cursor = "none" /\ ~ c.slot
    /\ ~ stained /\ c.up /\ c.kind # "oracle" => c.tx = "none" /\ c.auto /\ ~ c.flag

\* With MySQL and PostgreSQL inTransaction tells the truth: the server has no
\* transaction that the connection does not know of, through every failure of
\* begin, commit, rollback, a batch or a cursor.
NoHiddenTx ==
  c.kind \in {"mysql", "postgres"} /\ c.tx # "none" => c.flag \/ c.cursor \in {"own", "ownEnd"}

\* currentTransactionDepth, which CREATE INDEX CONCURRENTLY asks, is the number
\* of transactions the thread has open, whatever has failed.
DepthCounts == depth = IF s.tx THEN 1 ELSE 0

\* The indexes of the prepared statements agree with each other and keep the
\* limit, and the server holds what they name, so that no released statement can
\* be reached, and nothing else, unless a DEALLOCATE of PostgreSQL has failed; and
\* a handle given out by this connection is refused or runs the statement it was
\* prepared for, after evictions too (prepare, executePrepared, closeAllPrepared
\* of every driver).
PreparedInStep ==
  /\ c.names = {<<p[2], p[1]>> : p \in c.cache}
  /\ {c.lru[i] : i \in DOMAIN c.lru} = {p[1] : p \in c.cache}
  /\ Len(c.lru) = Cardinality(c.cache)
  /\ Limit > 0 => Cardinality(c.cache) <= Limit
  /\ c.up => {p[2] : p \in c.cache} \subseteq c.stmts
  /\ c.up /\ ~ (c.kind = "postgres" /\ SwallowedFail) => {p[2] : p \in c.cache} = c.stmts
  /\ \A h \in held, p \in c.names : h[3] = made /\ p[1] = h[1] => p[2] = h[2]

\* The watcher uses the session only while the callback or join keeps it alive.
WatcherInside == watcher = "cancelling" => pc \in {"body", "join"}

\* A batch outside a transaction is stored as a whole or not at all, unless
\* rolling it back failed, with every driver but ODBC (which turns autocommit on
\* after a rollback that failed, and so commits: see session_odbc).
BatchAtomic ==
  c.kind # "odbc" => \A b \in batches : b \subseteq c.stored \/ b \cap c.stored = {}

\* With MySQL and PostgreSQL transaction implements module Transactions: what
\* commits, when and what the caller is told agree, through lost connections,
\* failing statements, batches and rollbacks, and the watcher.  Nothing is claimed
\* of the others (session_odbc), nor of a PostgreSQL transaction that a swallowed
\* failure has aborted (SwallowedFail, session_pg_swallowed).
Claimed(x, nothing) == IF c.kind \in {"mysql", "postgres"} THEN x ELSE nothing
Abstract == INSTANCE Transactions
              WITH stored <- Claimed(c.stored, {}),
                   work <- Claimed(acked, [n \in Sessions |-> {}]),
                   outcome <- Claimed(outcome, [n \in Sessions |-> "none"])
Implements == Abstract!Spec

-----------------------------------------------------------------------------
(* What the documentation promises and the code does not keep. *)

\* guide_en.md: a failure returned by the callback rolls back.  So the connection
\* that goes back to the pool with results of the callback unread, which no
\* failure of the server explains, holds no transaction.
NoLeakedTx == pc = "idle" /\ c.open /\ c.wire # Nothing => c.tx = "none"

\* guide_en.md: the index validates that a handle belongs to this connection.
NoForeignHandle == \A h \in held, p \in c.names : p[1] = h[1] => p[2] = h[2]

\* guide_en.md: batch execution is atomic across all four drivers.
BatchAtomicEverywhere == \A b \in batches : b \subseteq c.stored \/ b \cap c.stored = {}

\* guide_en.md: a failure returned by the callback rolls back, with every driver.
Everywhere == INSTANCE Transactions WITH stored <- c.stored, work <- acked
ImplementsEverywhere == Everywhere!Spec

\* cancel uses a statement handle only while it exists.
NoFreedHandle == canc # "freed"
=============================================================================
