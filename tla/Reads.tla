------------------------------- MODULE Reads -------------------------------
(***************************************************************************)
(* Reads and writes of a group from several threads: the context of a       *)
(* request (src/common/context.cpp), interceptors (src/core/interceptor.cpp)*)
(* and the routing of DataSource: readTarget, the query cache, fallback to  *)
(* the primary, markWrite and the budget of cursors.  A database is the     *)
(* number of its last write; the replica follows the primary.  Which write  *)
(* goes where when a primary fails is in GroupWrite, the circuit breaker in *)
(* CircuitBreaker; here a replica may be passed over at any time and an     *)
(* attempt may fail.  A call that the auditor, the rate limiter or an       *)
(* interceptor refuses changes nothing.                                     *)
(***************************************************************************)
EXTENDS QueryCache, FiniteSets

CONSTANTS
  Threads,
  Keys,          \* queries with their parameters: values of cacheKey
  Bytes,         \* approxBytes of a result, which grows with what was written
  Cached,        \* the data sources whose queries are cached: all, or with
                 \* cache_on_replica_only those that are a replica of some group
  Fallback,      \* fallback_to_primary
  CursorLimit,   \* max_open_cursors; 0 means no limit
  Calls,         \* what each thread calls
  MaxScopes,     \* bound on the ContextScopes that each thread opens, one in another
  MaxWrites      \* bound on writes

ASSUME ReadsAssumption ==
  /\ CursorLimit \in Nat /\ MaxWrites \in Nat
  /\ MaxScopes \in [Threads -> Nat] /\ Bytes \in [0..MaxWrites -> Nat]
  /\ Calls \in [Threads -> SUBSET {"read", "stream", "cursor", "write", "session"}]

VARIABLES
  ver,      \* the last write on the primary
  rep,      \* the last write the replica has
  cache,    \* QueryCacheState
  enabled,  \* enabled_ of the interceptors
  stack,    \* the contexts of each thread; must: the last write acknowledged in it
  user,     \* how many of them are ContextScopes of the caller
  w,        \* the operation of each thread
  budget    \* cursorBudget_: open, and the leases held

vars == <<ver, rep, cache, enabled, stack, user, w, budget>>
db == <<ver, rep, enabled>>

Sources == {"p", "r", "s"}   \* primary, replica, shadow

\* A frame of the context stack.
Frame(shadow) == [shadow |-> shadow, wrote |-> FALSE, must |-> 0]
NoFrame == Frame(FALSE)

\* The operation of a thread: where it is, what it has seen.
NoOp == [pc |-> "idle", op |-> "none", key |-> 0, src |-> "p", pushed |-> FALSE,
         v |-> 0, seen |-> 0, status |-> "none"]
Goto(t, pc) == w' = [w EXCEPT ![t].pc = pc]
\* It ends, with a value or an error.  Only what End and the properties look at
\* is kept.
Done(t, status, v) ==
  w' = [w EXCEPT ![t] = [NoOp EXCEPT !.pc = "done", !.op = w[t].op, !.pushed = w[t].pushed,
                                     !.src = w[t].src, !.status = status, !.v = v]]
Error(t) == w' = [w EXCEPT ![t] = [NoOp EXCEPT !.pc = "done", !.pushed = w[t].pushed]]

Init ==
  /\ ver = 0 /\ rep = 0 /\ cache = Empty
  /\ enabled \in BOOLEAN
  /\ stack = [t \in Threads |-> <<>>] /\ user = [t \in Threads |-> 0]
  /\ w = [t \in Threads |-> NoOp]
  /\ budget = [open |-> [x \in Sources |-> 0], leases |-> {}]

-----------------------------------------------------------------------------
(* Contexts. *)

\* ContextScope::current.
Current(t) == IF stack[t] = <<>> THEN NoFrame ELSE Last(stack[t])

\* The caller opens and closes a ContextScope around its operations.
EnterScope(t) ==
  /\ w[t].pc = "idle" /\ user[t] < MaxScopes[t]
  /\ \E shadow \in BOOLEAN : stack' = [stack EXCEPT ![t] = Append(@, Frame(shadow))]
  /\ user' = [user EXCEPT ![t] = @ + 1]
  /\ UNCHANGED <<cache, w, budget>> /\ UNCHANGED db
LeaveScope(t) ==
  /\ w[t].pc = "idle" /\ user[t] > 0
  /\ stack' = [stack EXCEPT ![t] = Front(@)]
  /\ user' = [user EXCEPT ![t] = @ - 1]
  /\ UNCHANGED <<cache, w, budget>> /\ UNCHANGED db

\* Mutant: the frame on top is pinned, whoever has pushed it.
PinnedTop(s) == IF s = <<>> THEN s ELSE [s EXCEPT ![Len(s)].wrote = TRUE]

\* pinRequestWrite: the frame below the top, which is the caller's if an
\* interceptor frame lies on it.
Pinned(s) ==
  IF s = <<>> THEN s
  ELSE [s EXCEPT ![IF Len(s) >= 2 THEN Len(s) - 1 ELSE Len(s)].wrote = TRUE]

-----------------------------------------------------------------------------
(* An operation begins and ends. *)

\* readTarget.  The primary is also read within read_after_write_ms of a write,
\* and when no replica has a closed circuit.
ReadTargets(f) == IF f.shadow THEN {"s"} ELSE IF f.wrote THEN {"p"} ELSE {"p", "r"}

\* Mutant: shadow reads are cached like others.
CachingShadow(f, op, src) == op = "read" /\ src \in Cached

\* Whether the data source looks into the cache, and later stores into it.
Caching(f, op, src) == op = "read" /\ src \in Cached /\ ~ f.shadow

\* Where an operation starts on a data source.
First(f, op, src) ==
  CASE op \in {"write", "session"} -> "write"
    [] op = "cursor" -> "load"
    [] Caching(f, op, src) -> "get"
    [] OTHER -> "attempt"

\* query, execute, openCursor: runWithInterceptors, which with interceptors
\* pushes the context as runOnRoute has left it, then the choice of a target.
Begin(t, op, k) ==
  /\ w[t].pc = "idle"
  /\ op = "cursor" => ~ \E l \in budget.leases : l.t = t
  /\ \E shadow \in IF enabled THEN BOOLEAN ELSE {Current(t).shadow} :
       LET f == [Current(t) EXCEPT !.shadow = shadow]
       IN /\ stack' = IF enabled THEN [stack EXCEPT ![t] = Append(@, f)] ELSE stack
          /\ \E src \in IF op \in {"write", "session"} THEN {"p"} ELSE ReadTargets(f) :
               w' = [w EXCEPT ![t] = [NoOp EXCEPT !.pc = First(f, op, src), !.op = op, !.key = k,
                                                  !.src = src, !.pushed = enabled]]
  /\ UNCHANGED <<cache, user, budget>> /\ UNCHANGED db

\* ~ContextScope.
Unwound(t) == IF w[t].pushed THEN Front(stack[t]) ELSE stack[t]

\* afterExecution sees the result, onCompletion runs in every case; a write
\* that was acknowledged binds the caller's frame.
End(t) ==
  /\ w[t].pc = "done"
  /\ LET s == Unwound(t)
         acked == w[t].op \in {"write", "session"} /\ w[t].status = "ok" /\ w[t].src = "p"
     IN stack' = [stack EXCEPT ![t] =
                    IF acked /\ s # <<>> THEN [s EXCEPT ![Len(s)].must = w[t].v] ELSE s]
  /\ w' = [w EXCEPT ![t] = NoOp]
  /\ UNCHANGED <<cache, user, budget>> /\ UNCHANGED db

-----------------------------------------------------------------------------
(* Reading: queryUngated of the data source. *)

\* QueryCache::get: a hit, a miss, or an entry that has expired.
Get(t) ==
  /\ w[t].pc = "get"
  /\ LET src == w[t].src
         k == w[t].key
     IN \/ /\ Hit(cache, src, k)
           /\ cache' = Touch(cache, src, k)
           /\ Done(t, "hit", Entry(cache, src, k).v)
        \/ /\ Hit(cache, src, k)
           /\ cache' = Erase(cache, src, k) /\ Goto(t, "attempt")
        \/ /\ ~ Hit(cache, src, k)
           /\ Goto(t, "attempt") /\ UNCHANGED cache
  /\ UNCHANGED <<stack, user, budget>> /\ UNCHANGED db

\* What a data source holds.
Version(src) == CASE src = "p" -> ver [] src = "r" -> rep [] src = "s" -> 0

\* A failure: the primary may be asked instead.
Fail(t) ==
  \/ Error(t)
  \/ /\ w[t].src # "p" /\ Fallback
     /\ w' = [w EXCEPT ![t] = [@ EXCEPT !.src = "p", !.pc = First(Current(t), w[t].op, "p")]]

\* An attempt, or several.  A row that a stream has delivered rules out the
\* primary.
Attempt(t) ==
  /\ w[t].pc = "attempt"
  /\ LET v == Version(w[t].src)
         caching == Caching(Current(t), w[t].op, w[t].src)
     IN \/ caching /\ w' = [w EXCEPT ![t] = [@ EXCEPT !.pc = "put", !.v = v]]
        \/ ~ caching /\ Done(t, "ok", v)
        \/ Fail(t)
  /\ UNCHANGED <<cache, stack, user, budget>> /\ UNCHANGED db

\* QueryCache::put, after the result has been read.
PutResult(t) ==
  /\ w[t].pc = "put"
  /\ cache' = Put(cache, [src |-> w[t].src, key |-> w[t].key, v |-> w[t].v,
                          bytes |-> Bytes[w[t].v], shadow |-> Current(t).shadow])
  /\ Done(t, "ok", w[t].v)
  /\ UNCHANGED <<stack, user, budget>> /\ UNCHANGED db

-----------------------------------------------------------------------------
(* Writing. *)

\* A statement on the primary, or on the shadow.  It may fail, with its effect or
\* without.  executeUngated runs inside the frame of the interceptors; a session
\* does not (there the frames of its statements have gone), and knows no shadow.
Write(t) ==
  /\ w[t].pc = "write"
  /\ LET shadow == Current(t).shadow /\ w[t].op = "write"
     IN \/ /\ ~ shadow /\ ver < MaxWrites
           /\ ver' = ver + 1
           /\ \/ w' = [w EXCEPT ![t] = [@ EXCEPT !.v = ver + 1, !.pc = "mark"]]
              \/ Error(t)
        \/ /\ shadow /\ UNCHANGED ver
           /\ w' = [w EXCEPT ![t] = [@ EXCEPT !.src = "s", !.pc = "mark"]]
        \/ UNCHANGED ver /\ Error(t)
  /\ UNCHANGED <<rep, enabled, cache, stack, user, budget>>

\* markWrite of the data source.  A session has ended the frame that its
\* statements ran in, and marks what it has written when it then fails, too.
MarkLeaf(t) ==
  /\ w[t].pc = "mark"
  /\ cache' = Invalidate(cache, w[t].src)
  /\ LET s == IF w[t].op = "session" THEN Unwound(t) ELSE stack[t]
     IN stack' = [stack EXCEPT ![t] = Pinned(s)]
  /\ w' = [w EXCEPT ![t] = [@ EXCEPT !.pc = "group",
                                     !.pushed = w[t].pushed /\ w[t].op # "session"]]
  /\ UNCHANGED <<user, budget>> /\ UNCHANGED db

\* markWrite of the group invalidates the data sources one by one; after a shadow
\* write it is not called.
MarkGroup(t) ==
  /\ w[t].pc = "group"
  /\ IF w[t].src = "s"
     THEN Done(t, "ok", 0) /\ UNCHANGED cache
     ELSE cache' = Invalidate(cache, "p") /\ Goto(t, "replicas")
  /\ UNCHANGED <<stack, user, budget>> /\ UNCHANGED db
MarkReplicas(t) ==
  /\ w[t].pc = "replicas"
  /\ cache' = Invalidate(cache, "r")
  /\ Done(t, "ok", w[t].v) \/ (w[t].op = "session" /\ Error(t))
  /\ UNCHANGED <<stack, user, budget>> /\ UNCHANGED db

-----------------------------------------------------------------------------
(* Cursors. *)

\* cursorBudgetAcquire: the count is read, and raised if it has not changed.
BudgetLoad(t) ==
  /\ w[t].pc = "load"
  /\ w' = [w EXCEPT ![t] = [@ EXCEPT !.pc = IF CursorLimit = 0 THEN "open" ELSE "cas",
                                     !.seen = budget.open[w[t].src]]]
  /\ UNCHANGED <<cache, stack, user, budget>> /\ UNCHANGED db

\* Mutant: the count is stored whatever has happened to it.
ExchangedBlindly(t) == TRUE
\* compare_exchange succeeds; a weak one may fail anyway.
Exchanged(t) == budget.open[w[t].src] = w[t].seen

BudgetCas(t) ==
  /\ w[t].pc = "cas"
  /\ \/ /\ w[t].seen >= CursorLimit
        /\ Error(t) /\ UNCHANGED budget
     \/ /\ w[t].seen < CursorLimit /\ Exchanged(t)
        /\ budget' = [open |-> [budget.open EXCEPT ![w[t].src] = w[t].seen + 1],
                      leases |-> budget.leases \cup {[t |-> t, src |-> w[t].src]}]
        /\ w' = [w EXCEPT ![t] = [@ EXCEPT !.pc = "open", !.seen = 0]]
     \/ /\ w[t].seen < CursorLimit
        /\ Goto(t, "load") /\ UNCHANGED budget
  /\ UNCHANGED <<cache, stack, user>> /\ UNCHANGED db

\* A lease ends.
Released(l) ==
  [open |-> [budget.open EXCEPT ![l.src] = @ - 1], leases |-> budget.leases \ {l}]

\* openCursorUngated after that: the cursor takes the lease, or it ends with the
\* failure.
OpenCursor(t) ==
  /\ w[t].pc = "open"
  /\ LET mine == {l \in budget.leases : l.t = t}
     IN \/ Done(t, "ok", Version(w[t].src)) /\ UNCHANGED budget
        \/ /\ Fail(t)
           /\ budget' \in (IF mine = {} THEN {budget} ELSE {Released(l) : l \in mine})
  /\ UNCHANGED <<cache, stack, user>> /\ UNCHANGED db

\* Cursor::close or ~Cursor, by the thread that has it, or another.
CloseCursor(l) ==
  /\ w[l.t].pc = "idle"
  /\ budget' = Released(l)
  /\ UNCHANGED <<cache, stack, user, w>> /\ UNCHANGED db

-----------------------------------------------------------------------------
(* The world. *)

Replicate ==
  /\ rep < ver /\ rep' = rep + 1
  /\ UNCHANGED <<ver, enabled, cache, stack, user, w, budget>>
SetEnabled ==
  /\ enabled' = ~ enabled
  /\ UNCHANGED <<ver, rep, cache, stack, user, w, budget>>

\* configure, on a reload: the cache starts anew.
Configure ==
  /\ cache # Empty /\ cache' = Empty
  /\ UNCHANGED <<stack, user, w, budget>> /\ UNCHANGED db

-----------------------------------------------------------------------------
Step(t) ==
  \/ EnterScope(t) \/ LeaveScope(t)
  \/ \E op \in Calls[t] : \E k \in IF op = "read" THEN Keys ELSE {0} : Begin(t, op, k)
  \/ Get(t) \/ Attempt(t) \/ PutResult(t)
  \/ Write(t) \/ MarkLeaf(t) \/ MarkGroup(t) \/ MarkReplicas(t)
  \/ BudgetLoad(t) \/ BudgetCas(t) \/ OpenCursor(t)
  \/ End(t)

Next ==
  \/ \E t \in Threads : Step(t)
  \/ \E l \in budget.leases : CloseCursor(l)
  \/ Replicate \/ SetEnabled \/ Configure

Spec == Init /\ [][Next]_vars

-----------------------------------------------------------------------------
(* Properties. *)

\* A read through the group sees every write that was acknowledged in its
\* ContextScope, however far the replica is behind, with interceptors or without
\* (DataSource::readTarget, pinRequestWrite).  This is claimed where the primary's
\* results are not cached (cache_on_replica_only) and the caller does not nest
\* scopes: reads_stale_store and reads_nested are the cases without.
ReadYourWrites ==
  \A t \in Threads :
    /\ w[t].pc = "done" /\ w[t].op \in {"read", "stream", "cursor"}
    /\ w[t].status \in {"ok", "hit"} /\ ~ Current(t).shadow
    => w[t].v >= Current(t).must

\* What is cached was read by no shadow request, whoever made it one, the caller
\* or an interceptor, and with cache_on_replica_only from no primary
\* (DataSource::queryUngated).
OnlyProductionCached ==
  \A i \in DOMAIN cache.entries :
    ~ cache.entries[i].shadow /\ cache.entries[i].src \in Cached

\* The books of the query cache balance (QueryCacheState), between reads that
\* store results of changing size, writes that invalidate and reloads.
CacheBooks == BooksBalance(cache)

\* The budget of cursors counts those that are open, or being opened, and keeps
\* the limit, when threads race for the last one (DM cursorBudgetAcquire).
CursorsCounted ==
  \A x \in Sources :
    /\ budget.open[x] = Cardinality({l \in budget.leases : l.src = x})
    /\ CursorLimit > 0 => budget.open[x] <= CursorLimit

-----------------------------------------------------------------------------
(* What the documentation promises and the code does not keep. *)

\* guide_en.md: invalidation on write avoids that a read after it hits a stale
\* result.  A result read before the write may be put into the cache after it.
NoStaleHit ==
  \A t \in Threads :
    w[t].status = "hit" /\ w[t].src = "p" /\ ~ Current(t).shadow => w[t].v >= Current(t).must
=============================================================================
