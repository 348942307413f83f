# A TLA+ model of sqlconduit

sqlconduit (repository `dbmw`) is a C++ database middleware: a `Client` owns a
`DatabaseManager`, which owns data sources and groups of data sources; each data
source has a connection pool, a circuit breaker and a retry policy, each group
routes reads and writes over its members and may buffer writes while no primary
can take them. This directory holds TLA+ modules translated from the source, the
TLC runs that check them and the proofs that TLAPS checks.
`PROJECT.json` lists the components, the runs, the source lines behind every
definition, what was found, the hazards the properties are aimed at, and the
theorems.

Paths below are relative to the repository root.

## 1. Inventory

| Component | State | Operations | Hard behaviour | What makes it correct |
|---|---|---|---|---|
| `ConnectionPool` (`src/core/connection_pool.cpp`) | idle queue, `total`, `borrowed`, created/closed counters, `closed`, queue of asynchronous waiters | `borrow`, `borrowAsync`, `Handle` return, `healthCheck`, `shutdown`, destructor | every operation drops the mutex to ping, connect or close and takes it again; deadlines; shutdown in the middle | slots and handles conserved, `max` kept, no grant after close, nobody left waiting, wake-ups not lost, borrow and shutdown return |
| Circuit breaker of `DataSource` (`src/core/database_manager.cpp:1118-1157`) | three atomics | `beforeAttempt`, `afterAttempt`, called by every entry point | no lock: late completions of old attempts, half-open probe, paths that skip `afterAttempt` | the half-open flag is released, the circuit opens at the threshold, closes when the database is back |
| Group writes (`database_manager.cpp:1047-1116`, `1392-1429`) | candidates, shadow, status of an attempt | `dispatchWrite`, `writeTargets`, `executeUngated` | a statement may have been committed although it failed; circuit and pools change between two attempts | no blind replay, truthful status, shadow writes stay on the shadow |
| `WriteBuffer` (`src/core/write_buffer.cpp`) | queue, worker thread, `running_`, `stop_` | `enqueue`, `start`, `stop`, `run` | enqueue during a pass and during the final pass; put-back against the bound | nothing lost, doubled or stranded; bound and order kept; every write settled |
| Executor and futures (`src/async/executor.cpp`, `src/client.cpp`) | task queue, delayed tasks, threads | `tryPost`, `postAfter`, `shutdown`, loops; `submitAsync`, `configureAsync`, `stopAsync` | lazily started threads against shutdown | each accepted task runs once, shutdown drains and returns, every future becomes ready |
| `HeartbeatManager`, statistics reporter (`src/core/heartbeat_manager.cpp`, `stats_reporter.cpp`) | list of weak pools, threads, flags | `start`, `stop`, `addPool`, loops | notification without the mutex; pools that vanish; the reporter needs the registry's mutex | `stop` returns, every registered pool is checked |
| `DatabaseManager`, `Client` life cycle (`database_manager.cpp`, `src/client.cpp`) | maps of pools, sources, groups, write buffers | `init`, `reload`, `addDataSource`, `addGroup`, `remove…`, `shutdown` | operations against reload; a reload that fails half-way | references stay resolvable, nothing leaked, every call returns |
| `QueryCache` (`src/core/query_cache.cpp`) | LRU list and map, byte count | `get`, `put`, `invalidate`, `configure` | results of changing size; a result read before a write and stored after its invalidation | books balance, limits kept, nothing of a shadow request cached |
| `Session`, transactions, cursors (`database_manager.cpp`) | transaction flag, depth, watcher thread, prepared handles | `withSession`, `transaction`, `openCursor`, every method of `Session` and `Cursor` | deadline watcher against completion; failing rollback and commit; lost connections | a connection goes back clean, the caller is told the truth, batches are atomic |
| Drivers (`src/driver`) | transaction flag, prepared-statement cache, unread results, statement registered for cancel | the operations of `IDatabaseConnection` | the order of calls into the client library, and each of them failing | flags agree with the server, cache indexes agree with each other and with the server |
| Read routing, context, interceptors (`database_manager.cpp`, `src/common/context.cpp`, `src/core/interceptor.cpp`) | thread-local context stack, last write, cursor budget | `readTarget`, `markWrite`, scopes, hooks, cursor leases | frames of nested operations, lagging replicas, races for the last cursor | a request reads what it wrote, frames balanced, limit kept |
| `RateLimiter` | token buckets | `tryAcquire` | – | rate bound |
| Observer | subscribers, counters, slow-SQL table | `emit`, `subscribe` | – | bounded table |
| SQL analysis, auditor, configuration, YAML | none (pure) | parse, classify, validate | corner cases of input | classification against a reference |
| Type conversions, mapping templates, exporters | none | formatting | – | – |

How they interact: callers go `Client` → `DatabaseManager` (lookup) →
`DataSource`; a leaf data source passes its circuit breaker, borrows from its
pool, runs the statement on a `Session`, which calls the driver's connection, and
reports the status to the breaker; a group calls the same functions of its members
one after another. The heartbeat thread calls `healthCheck` of every pool, the
worker of a group's write buffer calls the primary, executor threads run whatever
was posted, the watcher of a transaction calls `cancel` of its connection. Pools,
buffers, caches and executors each have one mutex and call nothing of the others
while holding it, so their lock sections are the atomic steps. The registry's mutex
is held across a wait only when a failed reload destroys what it has built.

## 2. Modules

| Module | What it models |
|---|---|
| `ConnectionPool` | the pool, with its borrowers, asynchronous requests, heartbeat and shutdown thread |
| `CircuitBreaker` | the breaker at the grain of single atomic operations |
| `WriteBuffer` | the buffer and its worker; what a task does is left open |
| `GroupWrite` | `dispatchWrite` over the candidates, composed with `WriteBuffer` (it extends it and gives the tasks their meaning) |
| `Executor` | the executor, `submitAsync` and the ways the client retires it |
| `Background` | the heartbeat and the reporter: threads, flags, lists |
| `Registry` | `DatabaseManager` and the life cycle of `Client`, composed with `Background` |
| `DriverCommon` | a connection as a record, the server and client library (external), and the prepared-statement cache |
| `MysqlDriver`, `PostgresDriver`, `OdbcDriver`, `OracleDriver` | the operations of each connection class |
| `Connection` | `IDatabaseConnection`: virtual calls, and what the base class supplies |
| `Session` | sessions, transactions with their watcher and cursors, over one connection |
| `Transactions` | abstract: what `DataSource::transaction` promises; `Session` implements it |
| `QueryCache` | the operations of the cache on its list |
| `Reads` | contexts, interceptors, read routing, `markWrite`, the cursor budget, composed with `QueryCache` |
| `ConnectionPoolProofs`, `CircuitBreakerProofs`, `WriteBufferProofs`, `GroupWriteProofs`, `ExecutorProofs`, `RegistryProofs`, `SessionProofs`, `ReadsProofs` | theorems about the module each is named after |
| `MC…` | model values, sequences and symmetry for TLC |

Definitions whose comment starts with "Mutant" are plausible mistakes in the
code; no specification uses them. For each property one of them is put in place
of the definition it follows to see that the property notices.

### ConnectionPool

`idle`, `total`, `borrowed` and `closed` are the fields of `State`; `net` is
`connectionsCreated - connectionsClosed`; `asyncWaiters` is the queue. `pc` says
where each thread stands between two sections under `State::mtx`; `hcLeft`,
`hcNeed` and `grace` are the locals of `healthCheck` and `shutdown` that live
across an unlock. Connections are indistinguishable, so the idle queue is its
length, and whether a connection is past its lifetime, is broken or answers a
ping is chosen each time the code looks.

- `borrow`: `Borrow`, then `BorrowLoop` (one pass of the loop under the mutex:
  closed, pop an idle connection, reserve a slot, or sleep), `ProbeAlive` and
  `ProbeDead` (ping without the mutex, then the second section), `CreateOk` and
  `CreateFail`, `Resume`, `BorrowTimeout`; `BorrowUnpooled` for `pool.enabled =
  false`.
- `returnConn`: `ReturnClose`, `ReturnHandoff`, `ReturnIdle`, then
  `ReturnNotify`; `ReturnOrphan` when the pool is gone.
- `borrowAsync` and its tasks: `AsyncBorrow`, `AsyncEnter` (an idle connection that
  needs no ping is granted at once), `AsyncPing`, `AsyncDrop`, `AsyncCreate`;
  `ExpireWaiters` is the sweep several operations begin with.
- `healthCheck`: `HealthExpire` … `HealthFill`, one action per section.
- `shutdown` and the destructor: `Shutdown`, `ShutdownClosed`, `ShutdownResume`,
  `ShutdownTimeout`, `ShutdownDeliver`, `Destroy`.

`notify_one` wakes one sleeper of the condition variable, which borrowers and
shutdown share; wake-ups may be spurious.

### CircuitBreaker

`openUntil`, `halfOpen` and `fails` are the three atomics; a time is what the
code can tell of it: zero, in the future, in the past. `Load` and `Probe` are
the two steps of `beforeAttempt`; `ResetFails`, `ReleaseProbe`, `Close`,
`Count`, `Open` the stores of `afterAttempt`, in the order of each of its three
paths. `Succeed`, `Fault`, `Benign` are what an attempt ends with. The entry
points differ in how they call the two: most call `afterAttempt` once for every
attempt (`call`), `openCursor` not after success (`cursor`), a transaction after
its callback and again after a failed commit (`tx`). `fails` and the history
`streak` saturate at the threshold: no comparison tells larger values apart.
The database goes down and comes back at any time (`Outage`).

### WriteBuffer and GroupWrite

A write is its name. `q`, `batch` and `retry` are the queue, the batch the
worker swapped out and what it will put back. `accepted` and `fate` are history:
which writes were accepted, in which order, and what became of each. `Take`,
`NextItem`, `TaskReturns`, `EndPass` and `Finish` are `run`; a second `start`
before `stop` has returned is excluded, as the group code does.

`GroupWrite` adds the callers. A candidate is its link (up, down, or gone when
its pool has been destroyed) and its circuit (open or closed, changing at any
time: `CircuitBreaker` has the details). `Dispatch` is `dispatchWrite` up to the
loop, `Attempt` one round of the leaf's `executeUngated` with everything that
follows from its status, `Buffer` the end of `dispatchWrite`, `Replay` one round
of a buffered task on the primary. Statuses are the classes that
`safeToFailoverWrite`, the retry loop and the worker tell apart. `sent` is
history: the candidates that may have executed the write; an interrupted
statement may or may not have been executed. `markWrite` does not influence any
of this and is in `Reads`.

### Executor

One executor from its creation to its destructor. `op` follows each operation
from `submitAsync` to a ready future. The copy of the executor pointer that
`submitAsync` takes under `asyncMutex` is the state `ref`: while one exists the
destructor cannot run. `Release` is `stopAsync` or `configureAsync` with
`enabled = false`; `Shutdown` and `Joined` are the two halves of `shutdown`.
The order of deadlines of delayed tasks is open, so `delayed` is a set.

### Background and Registry

A plain data source and its pool are made and registered together and have one
identity, a name with a generation; so have a group and its write buffer. `maps`
are the tables under `DatabaseManager::mtx_`; `next` and `old` are the tables that
`reload` builds and keeps for its rollback. `init`, `reload` and `shutdown` are
serialised by `Client::lifecycleMutex` and are one thread, whose position is
`owner`: `Build`, `Swap`, `Resolve` or `Rollback` and `Unwound`, `StopReporter`,
`StartReporter`; `Shutdown`, `TakeOut`, `StopBeat`, `Retire`. `addDataSource`,
`removeDataSource`, `addGroup` and `removeGroup` are not serialised: every admin
takes them section by section. `addDataSource` attaches its pool to the heartbeat
only if `attach_heartbeat` is set; the history `silent` of the tables names the data
sources that were added without. Heartbeat and reporter sleep in timed waits, so the
notification that `stop` sends without the mutex may be lost and costs an interval,
not the join. What a health check does to a pool is in `ConnectionPool`.

### The drivers and Connection

A connection is a record: the members of the class (`open`, `flag`, the cursor, the
three indexes of prepared statements, the statement registered for `cancel`) and
what is on the other side of it (`up`, the server's transaction, rows written and
rows stored, results the client library has not read, statements the server holds).
An operation of a driver is an operator from a connection to the set of its
outcomes, a new connection and a status (`ok`, `error`, or `broken`, an error with
`connectionBroken`); `Then` and `OnFailure` are the two ways in which the code goes
on. Every call into a client library may succeed, fail, or lose the server session,
before or after it took effect. Only classes 08 of SQLSTATE are `broken`
(`Status::databaseError`), and the client libraries of MySQL and PostgreSQL report a
lost connection without one: their sessions keep it. What differs between the
drivers is kept: MySQL's unread results refuse every other command, a failed
statement aborts a PostgreSQL transaction, ODBC has an autocommit attribute, Oracle
opens transactions implicitly and batches with arrays. The PostgreSQL driver
swallows the failure of two commands, loading the types of a connection
(`PgLoadTypes`) and the DEALLOCATE of an evicted statement (`PgPrepared`), although
either aborts an open transaction; the constant `SwallowedFail` says whether they may
fail. Parameters, types and rows
are left out; that binding or reading them may fail is not.

### Session and Transactions

One thread borrows one connection again and again, as a session, a transaction or a
cursor (`Borrow`, with the pool's ping or a new connection; `Release` with
`cleanupOpenTransaction`). `CallOp` starts a call of the callback and `ReturnOp`,
`ReturnPrepare`, `ReturnPrepared`, `ReturnExecutePrepared` end it, so that the
watcher may cancel in between: `WatcherTimeout`, `WatcherCancels`, and, for ODBC,
which fetches the statement handle under a mutex and uses it after the unlock,
`WatcherTakes` and `WatcherCancelsTaken`. `TxBegin`, `CallbackEnds`, `Join`,
`TxFinish` are the rest of `transaction`. Histories: the rows a caller was told are
written (`acked`), what it was told in the end (`outcome`), prepared handles with
the connection and statement they were made for (`held`), the rows of each batch
(`batches`), and whether ending a transaction has failed on a connection that was
kept (`stained`).

`Transactions` has three variables, the stored rows, the work and the outcome of
every transaction: the work is stored as a whole or not at all, it is stored if the
caller was told `ok`, it is not, then or later, if it was told `failed`, and only a
COMMIT that failed leaves it in doubt. `Implements` maps `c.stored`, `acked` and
`outcome` of `Session` to them, for MySQL and PostgreSQL.

### QueryCache and Reads

The list and the map of the cache are one sequence of entries; `totalBytes_` is
kept beside it as the code does, which is what can go wrong. In `Reads` a database
is the number of its last write and a replica follows the primary at any distance.
`stack` holds the context frames of every thread, those of the caller
(`EnterScope`, `LeaveScope`) and those that operations push; `Begin`, `Get`,
`Attempt`, `PutResult` and `End` are a read, `Write`, `MarkLeaf`, `MarkGroup` and
`MarkReplicas` a write with its invalidations one data source at a time,
`BudgetLoad` and `BudgetCas` the compare-and-swap loop of the cursor budget.

## 3. Runs

| Run | Instance | Shows |
|---|---|---|
| `pool_core` | 2 borrowers, 2 requests, heartbeat, shutdown, min 1, max 2 | counters, handles, metrics, waiter queue and closing are consistent in every interleaving |
| `pool_unpooled` | 2 borrowers, 2 requests, pooling off | `total` is the number of handles, through shutdown until the pool is destroyed |
| `pool_wakeup` | 4 borrowers, one with timeout 0, max 2, no heartbeat | no wake-up among synchronous borrowers is lost |
| `pool_live` | 2 borrowers, heartbeat, shutdown, min and max 2 | every borrow returns, unless it meets dead connections for ever, and every shutdown returns |
| `breaker` | 2 callers, calls and transactions, threshold 2 | the half-open flag is never left behind; the circuit recovers once the database is back and opens while it stays down |
| `group_failover` | a write and a shadow write, 2 candidates, buffer of 1 | no blind replay, truthful status, shadow isolation |
| `group_buffer` | 3 writes, 1 candidate, buffer of 2, TTL, 2 attempts | bound, order and completeness of the buffer; every buffered write is settled |
| `executor` | 3 operations, 1 delayed task, 2 workers, queue of 1 | drain, run once; futures become ready, shutdown returns |
| `registry` | 2 data sources, a group with a shadow, 2 generations, 1 admin, 2 heartbeats, a valid and an invalid configuration | groups refer to what is registered, no pool or flush thread is leaked, the heartbeat covers every pool that was to be attached, every life-cycle call returns |
| `session` | each driver, 2 borrowings of any kind, 2 calls each; loading the types of PostgreSQL may fail unnoticed | what goes back to the pool is clean, flags and depth tell the truth, the watcher stays inside the session, batches are atomic |
| `transactions` | each driver, 2 transactions, 2 calls each, 2 statements, cache of 1, no swallowed failure | the prepared-statement indexes stay in step; `transaction` implements `Transactions` with MySQL and PostgreSQL |
| `reads` | 2 threads, 1 write, 2 queries, cache of 2 entries and 2 bytes with `cache_on_replica_only`, no nested scopes, 1 cursor | a request reads what it wrote, only production reads are cached, books balance, cursors are counted |

**Further disagreements.** The following configurations check what the
documentation, a comment or a test says of the program and the code does not keep.
They are not among the runs of `PROJECT.json`; TLC refutes each property in seconds
(`tlc -config X.cfg MC…` with the MC module of the component; where a configuration
has several properties, add `-continue` or keep one of them).

| Configuration | Property | The code |
|---|---|---|
| `pool_lost_completion` | `NoLostCompletion` | `connection_pool.cpp:100`: a waiter found expired just before a handoff is never completed; its future stays pending (`docs/guide_en.md:1869`) |
| `pool_documented` | `ForceCloseOnTimeout` | after its grace `shutdown` leaves borrowed connections open |
| | `FailedBorrowReleasesSlot` | a connecting borrow gives its slot back after `shutdown` has reset `total`: -1 |
| | `EstablishedWithinMax` | a returned connection frees its slot before it is closed: more than `max` are established |
| | `RetireKeepsMin` | the heartbeat retires on a decision that is stale after the ping: below `min` |
| `pool_live` | `BorrowInTime` in place of `BorrowReturns` | `connection_pool.cpp:292`: a borrower that meets one dead idle connection after another goes around its loop without looking at its deadline (`docs/guide_en.md:1869`) |
| `breaker_cursor` | `Recovers` | `database_manager.cpp:1836`: a successful cursor as half-open probe keeps the circuit half-open for ever (compare `tests/sqlconduit_core_test.cpp:774`) |
| `breaker_documented` | `ThresholdOpens` | transactions that fail at commit never open the circuit |
| | `NoAttemptWhileOpen` | a caller passes the gate after the circuit has opened again |
| `group_documented` | `NoBlindReplay` | `database_manager.cpp:1412`: a retry refused by the circuit hides an interrupted first attempt, and the write goes on to another candidate (`docs/guide.md:491`) |
| | `ConnectFailureSwitches` | a failed connect does not switch candidates |
| | `ReplayedAfterRecovery` | a buffered write is dropped because the primary's circuit is open |
| | `ShadowIsolated` | a failover candidate is accepted as the group's shadow |
| `executor_late_post` | `NoThreadLeft` | `executor.cpp:35`: a first post after shutdown starts threads that nobody joins (`docs/guide_en.md:935`) |
| `registry_documented` | `ClosedHasNoPools` | an `addDataSource` that passed the check of the state registers its pool after `shutdown` has taken the tables (`docs/guide_en.md:935`) |
| | `BuffersFlush` | an `addGroup` fails while a reload is about to be rolled back: it is undone in the new tables, and the old ones come back with a group whose buffer has no thread |
| | `VisibleIsResolved` | a group can be looked up before its shadow is resolved (`docs/guide_en.md:824`) |
| | `DefaultRegistered` | a reload that is rolled back restores the tables but not `defaultName_`, which then names nothing (`docs/guide_en.md:438`, "atomically") |
| `registry_replica_flag` | `ReplicaFlagsExact` | an `addGroup` that fails after it is published leaves `readReplica_` set on its members |
| `session_leaked_tx` | `NoLeakedTx` | MySQL: a result over `max_result_rows` stays unread, ROLLBACK is refused as out of sync, and the connection goes back with its transaction (`docs/guide_en.md:170`) |
| `session_foreign_handle` | `NoForeignHandle` | a handle is a number, and another connection accepts it for another statement (`docs/guide_en.md:669`) |
| `session_odbc` | `BatchAtomicEverywhere` | ODBC: autocommit is turned on again after a rollback that failed, which commits (`docs/guide_en.md:348`) |
| | `ImplementsEverywhere` | the same in a transaction (`docs/guide_en.md:170`) |
| | `NoFreedHandle` | `odbc_driver.cpp:1196`: `cancel` uses a statement handle that was freed after the unlock |
| `session_pg_swallowed` | `Implements` | `PgTypeCache::load`, and `prepare` when it evicts (`postgres_driver.cpp:1049`), swallow a failure that has aborted the transaction: a COMMIT that the server turns into a rollback is reported as success. `PreparedInStep`, in the same configuration, holds |
| `reads_nested` | `ReadYourWrites` | a write in an inner context is not seen by the outer one |
| `reads_stale_store` | `NoStaleHit` | a result read before a write is stored after the write has invalidated the cache (`docs/guide_en.md:638`) |

Met while modelling, without a configuration: a MySQL batch whose COMMIT fails
leaves `txOpen_` set, so the next batch on the connection has no transaction of its
own; `DataSource::call` does not call `markWrite`; `queryAll` and `call` on a group,
and `withSession` and `transaction` in a shadow request, do not use the shadow; ODBC
`begin` with `read_only` leaves `SQL_ATTR_ACCESS_MODE` set on the connection
(`odbc_driver.cpp:1063`); MySQL's `SET TRANSACTION` stays in force when the `START
TRANSACTION` behind it fails; `cacheKey` writes some typed arrays and composites of
different values the same way.

**Bounds.** Two borrowers and two requests are the fewest with which a handoff,
an expired waiter and a queue behind it exist at once; max 2 with min 1 lets the
heartbeat retire, refill and reserve while both slots are contended. Four
borrowers on two slots are needed for a notification to go astray. Two
callers give the breaker a probe and a late attempt of the closed era, which may
end between the probe's load and its exchange; for any number of callers its flag
is covered by a theorem. A buffer of two with three writes overflows when a pass
puts back what enqueue has refilled, and keeps of them an older and a younger write
to order. `group_buffer` compares states by the `View` of its MC module, which leaves
out `status` and `sent`: no guard, no other variable and no property of that run
reads them. In `pool_live` two connections are what a borrower that drops a dead one
needs to find another while both are refilled. A queue of one and two workers make the executor
refuse, queue and run at the same time. Each write, operation and delayed task
happens once, which bounds the histories; borrowers and callers repeat for ever.
In the registry two data sources are what a group with a shadow needs, two
generations and two heartbeats are what a reload has at a time (identities nothing
refers to are used again), and one admin beside the owner gives every pair of
sections. Two borrowings are needed for what the first leaves behind to meet the
second, and two calls for a statement in a transaction that the caller began or
that the call before it has broken. Two statements and a cache of one evict. One
write and a cache of two bytes, with results that grow with the write, replace,
evict and refuse entries; one cursor and two threads race for it.
Symmetry is used only in runs that check invariants or action properties.

**Deadlock** is checked but in `registry`, `session` and `transactions`: a closed
client stays closed, and a caller that has made the calls the bound allows is done.
`Finished` of the pool and the executor stand for the end of the program.

**Fairness.** Threads that can run do (weak fairness of their steps): the code
uses mutexes and condition variables of the standard library and nothing that
could starve a thread for ever. Deadlines pass, because the waits are timed.
Nothing is assumed of the database: idle connections may all be dead, always. The
loop of `borrow` looks at its deadline only when it finds nothing to try, so it can
go around for ever while dead connections keep coming; `BorrowReturns` says that this
is the only way in which a borrow does not return, and `BorrowInTime`, without the
exception, is refuted. Nobody is
assumed to return a handle, to call shutdown, or to close a client.
`breaker` assumes that callers keep calling (weak fairness of `Load`),
because only calls move the breaker; the property says nothing of a data source
that nobody uses; `Trips` is about attempts that reach the database, so there
`BenignWhileDown` is false. `registry` has weak fairness of the owner, the admins,
the heartbeats and the reporter: timed waits end and threads run on; nobody is
assumed to call anything. `group_buffer` assumes that tasks return and that time passes
for buffered writes, not that the primary ever comes back.

## 4. Proofs

For every value of the constants allowed by the named assumptions:

- `ConnectionPoolProofs`: `TypeOK`, `DrainedStaysEmpty`,
  `NobodyWaitsOnClosedPool`, `SlotsConserved`, `CapRespected`, `BorrowedExact`,
  `MetricsConserved`, `NoGrantAfterClose`. Assumptions: finite disjoint sets of
  threads, `0 <= MinConn <= MaxConn`, `MaxConn > 0`, as the constructor clamps.
  `SlotsConserved` is exact while the pool is open; while shutdown drains, which
  leaves the slots of what it closes in `total` until the end, it is the inequality
  that no slot is freed twice; after `total` is set to `borrowed` it is an upper
  bound, because a borrow that was connecting still gives its slot back
  (`pool_documented`).
  `ShutdownInv` (types, closed exactly when shutdown has begun, drained stays
  empty, nobody waits) is inductive by itself. The counters need `PoolInv`: it
  adds that an unpooled data source uses only some thread states, and that the
  slots the heartbeat reserved are within `max` (`RefillReserved`), without which
  `CapRespected` is not preserved by the refill. Counting lemmas (`CountMove` and
  its consequences) say how the number of threads in a set of states changes when
  one thread moves, and each action is then an equation between integers.
  `NoLostWakeup` is proved under `PlainBorrowers` (no asynchronous requests, no
  heartbeat, no wait that times out), on top of `PoolInv`, by counting the
  borrowers that are on their way. TLC refutes it in a few states if any of the
  three is dropped: a request that gives up its slot and a heartbeat that puts a
  connection back notify nobody, and a notified borrower may leave by its deadline.
- `CircuitBreakerProofs`: `TypeOK`, and `ProbeOutstanding` if no cursors are
  opened; the two together are inductive. The condition is necessary:
  `breaker_cursor` is the counterexample without it.
- `GroupWriteProofs`: `NoBlindReplay` and `StatusTruthful` if a data source makes
  one attempt per write (the default, and every write declared `NonIdempotent`);
  `group_documented` is the counterexample without it. The invariant `DispatchInv`
  says that no candidate has executed the write until its caller is done, and
  then only with the statuses that admit it. `ShadowIsolated` holds for any number
  of attempts if the shadow is no candidate; `ShadowInv` adds that a shadow
  write's only target is the shadow and that no queue of the buffer holds one.
- `WriteBufferProofs`: `PendingInOrder` and `NothingStranded`, for any writes and
  any bound. `BufferInv` adds to the types where worker and stopper are and which
  queues are empty there (`ControlInv`), that a write is queued exactly if it is
  in one of the three queues `retry`, `batch`, `q`, and there once (`ContentInv`),
  and that older writes come first within and across the three (`OrderInv`): the
  put-back at the end of a pass is ordered only because nothing in `q` is older
  than what the pass took.
- `ExecutorProofs`: `RunOnce` and `Drained`, for any operations, workers and queue
  bound. `ExecutorInv` adds where each task is (`TaskInv`: queued, delayed or
  held by one thread), what shutdown has seen at each of its positions (`StopInv`,
  `StartInv`) and what a thread that has left, or that sleeps, knew when it did
  (`ExitInv`, `IdleInv`). The only assumption is that `NoTask` is no operation.
- `RegistryProofs`: `TypeOK`, `RefsRegistered`, `NothingLeaked` and
  `HeartbeatCovers`, for any names, admins and identities. `RegistryInv` carries
  the references of all three sets of tables (the current ones, those a reload
  builds, those it may restore), what an admin holds at each position, that a pool
  is in one set of tables or held by one admin (`OwnInv`), which objects are open,
  and whose list each heartbeat has (`BeatInv`): every pool of the tables it belongs
  to but those added without `attach_heartbeat`. Assumption: no name is both a data
  source and a group, which `init` and `add…` refuse.
- `SessionProofs`: everything the runs `session` and `transactions` check. For any
  of the four drivers, any number of borrowings, calls and statements:
  `DepthCounts`, `WatcherInside`, `NoHiddenTx`, `CleanWhenPooled`,
  `PreparedInStep` and `BatchAtomic`; and, for MySQL and PostgreSQL, `Implements`.
  - First, driver by driver, lemmas say what an operation of
    `IDatabaseConnection` may do to the transaction: keep it, begin one, end it, or
    break the connection. `SessionInv` then says that the driver's flag tells the
    truth about the server (`Known`, per driver), that the depth counts the calls
    that are inside (`Counted`), that the watcher and a cancel are inside the session
    (`Inside`), where the thread is (`Placed`), and that, unless ending a transaction
    has failed on a connection that was kept, connection and session agree about it
    and ODBC's autocommit is off exactly inside one (`Agreed`). One lemma per action.
  - `PreparedInStep` follows from `PreparedInv`. The property is not inductive: it
    needs that no key and no number is twice in the cache and every number is at most
    the last one given out (`Filed`), that the list of keys names each key once
    (`Listed`), so that one insertion and one eviction keep its length, and that a
    handle of this connection is at most the last number too (`HeldOk`), so that a
    statement prepared later never gets its number. That the server holds what the
    cache names is `Served`; with `SwallowedFail` a PostgreSQL server may hold more.
  - `BatchAtomic` follows from `RowInv`. A batch must be whole in what is stored and
    also in what waits for COMMIT, or the commit would split it; and rows carry the
    session and call that wrote them (`Old`), so that an operation writes none that
    is already there. `AllOrNone` of a batch is proved for the base class,
    `executeBatch` of PostgreSQL and the array interface of Oracle; it needs what each
    operation does to the rows a transaction holds (`Does`), what COMMIT and ROLLBACK
    store (`Stores`), and that a connection which is in a transaction when the
    session is not is one whose server session is gone, or stained.
  - `Implements` is proved under `Disciplined`, the conditions of the run
    `transactions`: callbacks return the failure of a statement and leave begin,
    commit and rollback to `transaction`, and no command fails whose failure the
    PostgreSQL driver swallows (`session_pg_swallowed` is the counterexample without
    the last; TLC finds one without each of the others too).
    Calls may be any others, cursors included. `TxInv` says that nothing of the
    session is stored while it runs, and that until a statement fails or the
    connection is lost the server holds exactly the rows the callback was told of, in
    a transaction that is not aborted. Borrowing is `Start`, an operation that returns
    success is `Write`, a begin that fails and the end of the transaction are
    `Finish`; every other step, the watcher's too, is a stutter. The other two drivers
    map to a constant.

  `SessionAssumption` only says that the constants name drivers, modes and calls
  the module has, and that the bounds are numbers.
- `ReadsProofs`: `CursorsCounted`, `OnlyProductionCached` and `CacheBooks`, for any
  threads, queries and limits (`ReadsInv`: positions and frames of the threads, the
  cache, the cursor budget). The byte count of the cache is a fold over its
  entries; what insertion, removal and replacement do to it is proved from the
  least index at which a claim would fail, because the library's induction
  theorems cannot be instantiated. `ReadYourWrites` is proved under `Pinning`: the
  primary's results are not cached and a caller does not nest scopes, as in the
  run `reads`. `reads_stale_store` and `reads_nested` are the counterexamples
  without the one and without the other. `BoundInv` ties what a request must see to
  the frame that pins it to the primary.

Only model-checked: everything under fairness (the prover does not treat
liveness): `BorrowReturns`, `ShutdownReturns`, `Recovers`, `Trips`, `Settles`,
`FuturesReady` and `LifecycleReturns`; and the refuted properties. Every other
property of a run is a theorem.

## 5. Plan

Done: every component that has state of its own and several actors, and the proofs
above, which cover all safety properties and the refinement.

Further abstract specifications worth stating: a lease service that
`ConnectionPool` implements, and an at-most-once write that `GroupWrite` implements
with one attempt.

## 6. Not modelled

- `RateLimiter`: a token bucket in floating point behind one mutex; a refused call
  changes nothing.
- Observer: counters and the dispatch of events behind one mutex; no operation
  depends on them. What the reporter writes is formatting.
- SQL analysis and auditor, configuration and YAML, types and conversions: pure
  functions on text and values, character by character. What the rest of the
  program takes from them is a choice: a statement may be refused, binding may
  fail, a configuration may be invalid.
- Mapping and utility templates, the Prometheus text, the vendored JSON library: no
  state, or not the program's own logic.
- Of the drivers: value conversions, TLS and connection strings, the registry of
  drivers, transaction options; of the base class the interpolation of literals,
  which no driver uses. The lines that bind parameters and read columns (`OraBind`,
  `OraRows`, `OdbcBind`, `MysqlRows`) are modelled as a step that may fail, and by
  nothing else.
- The limit of the prepared-statement cache is a constant, and `Trimmed` evicts at
  most one statement. The code sets the limit from the data source's configuration at
  every borrow (`database_manager.cpp:1188`) and evicts in a loop
  (`mysql_driver.cpp:899`): a limit that a connection sees become smaller, so that
  one insertion evicts several, is left out.
- The undoing of a failed addition is one step of an admin (`GroupUndo`, and the
  failing branch of `AddRegister`). The code joins the flush thread of the group
  (`database_manager.cpp:2695-2715`), and shuts the unused pool down with no grace
  (`:2571`), while it holds `mtx_`; the thread it joins calls the primary and never
  takes `mtx_`, so the step ends, and what is left out is only that others wait for
  it.
- Within the modelled components: statistics other than `net`, logging, error
  texts, the sizes of timeouts, a breaker with threshold 0, a buffer that is not
  enabled, the depth limit of the context stack, the transformation of rows by
  interceptors, two threads that share one session, and a task that shuts down the
  client it runs on.
