---------------------------- MODULE DriverCommon ----------------------------
(***************************************************************************)
(* What the four drivers (src/driver) have in common.  A connection is a    *)
(* record, an operation of a driver is an operator from the connection to   *)
(* the set of its possible outcomes, and the database server and its client *)
(* library, which are external, are the operators of the first section.     *)
(* Values, types, column binding and error texts are left out.              *)
(***************************************************************************)
EXTENDS Naturals, Sequences, FiniteSets

CONSTANTS
  Keys,    \* statements to prepare: SQL with its parameter types
  Limit    \* prepared_cache.max_per_connection; 0 means no limit

ASSUME DriverAssumption == Limit \in Nat

Kinds == {"mysql", "postgres", "odbc", "oracle"}

\* What wire is: nothing, the results of a text, of a cursor, or of the prepared
\* statement id.
Nothing == 0
TextResults == 1
CursorRows == 2
ResultsOf(id) == id + 2

\* A connection of a driver.
\*   open     open_
\*   flag     inTransaction(): txOpen_, or whether tx_ is set
\*   slot     the statement registered for cancel
\*   cursor   the driver's cursor, and tx the transaction it runs in
\*   cache, names, lru, seq   the prepared statements: preparedCache_,
\*            preparedKeys_ (or preparedNames_, preparedSql_), preparedLru_,
\*            preparedSeq_
\* and the other side of it:
\*   up       the server session is alive
\*   tx       the server's transaction
\*   auto     the autocommit attribute of ODBC
\*   rows     rows written in that transaction
\*   stored   committed rows
\*   wire     whose results the client library still has to read
\*   stmts    prepared statements that have not been released
Closed(kind) ==
  [kind |-> kind, open |-> FALSE, flag |-> FALSE, slot |-> FALSE, cursor |-> "none",
   cache |-> {}, names |-> {}, lru |-> <<>>, seq |-> 0,
   up |-> FALSE, tx |-> "none", auto |-> TRUE, rows |-> {}, stored |-> {},
   wire |-> Nothing, stmts |-> {}]

-----------------------------------------------------------------------------
(* Outcomes. *)

\* The status is "ok", "error", or "broken": an error with connectionBroken.
Res(c, st) == [c |-> c, st |-> st]
Ok(c) == {Res(c, "ok")}
Refused(c) == {Res(c, "error")}

\* f after a success; the failures as they are.
Then(S, f(_)) ==
  {r \in S : r.st # "ok"} \cup UNION {f(r.c) : r \in {x \in S : x.st = "ok"}}

\* f after a failure, whose status is the one returned.
OnFailure(S, f(_)) ==
  {r \in S : r.st = "ok"} \cup
  UNION {{Res(d.c, r.st) : d \in f(r.c)} : r \in {x \in S : x.st # "ok"}}

\* Status::databaseError takes only SQLSTATE class 08 for a broken connection.
\* The client libraries of MySQL and PostgreSQL report a lost one without it.
LostStatus(c) == IF c.kind \in {"odbc", "oracle"} THEN "broken" ELSE "error"

-----------------------------------------------------------------------------
(* The server. *)

\* The session ends: the server rolls back.
Gone(c) == [c EXCEPT !.up = FALSE, !.tx = "none", !.rows = {}, !.stmts = {}]

\* A failed statement aborts a PostgreSQL transaction.
Errored(c) == IF c.kind = "postgres" /\ c.tx = "open" THEN [c EXCEPT !.tx = "aborted"] ELSE c

\* A command is sent: it does what done says, it fails, or the session is lost.
Sent(c, done) ==
  IF c.up THEN done \cup {Res(Errored(c), "error"), Res(Gone(c), LostStatus(c))}
  ELSE {Res(c, LostStatus(c))}

\* Committed and rolled back.
Committed(c) == [c EXCEPT !.tx = "none", !.stored = @ \cup c.rows, !.rows = {}]
Undone(c) == [c EXCEPT !.tx = "none", !.rows = {}]

\* A statement that writes the rows W, or reads, in the current transaction,
\* in an implicit one, or by itself.
Wrote(c, W) ==
  IF c.tx = "open" THEN [c EXCEPT !.rows = @ \cup W]
  ELSE IF c.auto THEN [c EXCEPT !.stored = @ \cup W]
  ELSE [c EXCEPT !.tx = "open", !.rows = W]

\* Outside a transaction a lost answer leaves open whether W was stored.
Statement(c, W) ==
  IF c.tx = "aborted" THEN Sent(c, {})
  ELSE Sent(c, Ok(Wrote(c, W)) \cup
              (IF c.tx = "none" /\ c.auto THEN {Res(Gone(Wrote(c, W)), LostStatus(c))} ELSE {}))

\* COMMIT of an aborted transaction rolls back; the library may not tell.  When
\* COMMIT fails the server has rolled back, has done nothing, or, if the
\* answer was lost, may have committed.
ServerCommit(c) ==
  IF c.tx = "aborted" THEN Sent(c, {Res(Undone(c), "ok"), Res(Undone(c), "error")})
  ELSE Sent(c, {Res(Committed(c), "ok"), Res(Undone(c), "error"),
                Res(Gone(Committed(c)), LostStatus(c))})
ServerRollback(c) == Sent(c, Ok(Undone(c)))

-----------------------------------------------------------------------------
(* The cache of prepared statements, which the drivers keep alike. *)

IdOf(c, k) == (CHOOSE p \in c.cache : p[1] = k)[2]
Cached(c, k) == \E p \in c.cache : p[1] = k

\* A hit moves the key, which is in the list once, to its end.
Touched(c, k) ==
  LET i == CHOOSE j \in DOMAIN c.lru : c.lru[j] = k
  IN [c EXCEPT !.lru = Append(SubSeq(@, 1, i - 1) \o SubSeq(@, i + 1, Len(@)), k)]

\* Mutant: an evicted statement keeps its handle.
EvictedNotForgotten(c, k) ==
  [c EXCEPT !.lru = Tail(@), !.cache = {p \in @ : p[1] # k}, !.stmts = @ \ {IdOf(c, k)}]

\* The statement of key k, the first of the list, goes out and is released.
Evicted(c, k) ==
  [c EXCEPT !.lru = Tail(@),
            !.cache = {p \in @ : p[1] # k},
            !.names = {p \in @ : p[1] # IdOf(c, k)},
            !.stmts = @ \ {IdOf(c, k)}]

\* The statement is prepared and cached under the next number.
Inserted(c, k) ==
  [c EXCEPT !.seq = @ + 1,
            !.cache = @ \cup {<<k, c.seq + 1>>},
            !.names = @ \cup {<<c.seq + 1, k>>},
            !.lru = Append(@, k),
            !.stmts = @ \cup {c.seq + 1}]

\* Then the cache is cut to its limit: one insertion, one eviction at most.
Trimmed(c) ==
  IF Limit > 0 /\ Cardinality(c.cache) > Limit THEN Evicted(c, Head(c.lru)) ELSE c

\* A handle is looked up by its number.
Resolves(c, id) == \E p \in c.names : p[1] = id /\ <<p[2], id>> \in c.cache

\* closeAllPrepared.
NothingPrepared(c) == [c EXCEPT !.cache = {}, !.names = {}, !.lru = <<>>, !.stmts = {}]
=============================================================================
