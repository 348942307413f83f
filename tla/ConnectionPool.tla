--------------------------- MODULE ConnectionPool ---------------------------
(***************************************************************************)
(* The connection pool of one data source: sqlconduit::core::ConnectionPool *)
(* (src/core/connection_pool.cpp).  Every section of the code that runs     *)
(* under State::mtx is one action; the calls made with the mutex released   *)
(* (ping, connect, close, cv.notify_one after the unlock) separate actions. *)
(*                                                                          *)
(* Threads are the callers of borrow (Clients), the asynchronous requests   *)
(* of borrowAsync (Requests), the heartbeat thread (Beat) and the thread    *)
(* that calls shutdown (Reaper).  Connections are indistinguishable, so the *)
(* idle queue is its length; whether one has exceeded its lifetime or       *)
(* answers a ping is a choice made each time the code looks.                *)
(***************************************************************************)
EXTENDS Integers, Sequences, FiniteSets

CONSTANTS
  Clients,      \* threads that call borrow
  Requests,     \* outstanding calls of borrowAsync
  Beat,         \* the heartbeat thread
  Reaper,       \* the thread that calls shutdown, then destroys the pool
  MinConn,      \* minConn_, after the constructor's clamping
  MaxConn,      \* maxConn_, after the constructor's clamping
  Pooled,       \* pool.enabled
  Heartbeat,    \* the pool is attached to the heartbeat manager
  ZeroWait,     \* clients that borrow with timeout 0
  NoDeadline,   \* clients whose borrow timeout outlasts the behaviour
  Graces        \* the grace arguments of shutdown: TRUE for a positive one

Threads == Clients \cup Requests \cup {Beat, Reaper}

ASSUME SizesAssumption ==
  /\ MaxConn \in Nat \ {0}
  /\ MinConn \in 0..MaxConn
  /\ Pooled \in BOOLEAN
  /\ Heartbeat \in BOOLEAN
  /\ Graces \subseteq BOOLEAN

ASSUME ThreadsAssumption ==
  /\ IsFiniteSet(Clients)
  /\ IsFiniteSet(Requests)
  /\ Clients \cap Requests = {}
  /\ {Beat, Reaper} \cap (Clients \cup Requests) = {}
  /\ Beat # Reaper
  /\ ZeroWait \subseteq Clients
  /\ NoDeadline \subseteq Clients

VARIABLES
  idle,          \* idle.size()
  total,         \* total: slots in use, reservations included
  borrowed,      \* borrowed: handles outstanding
  net,           \* connectionsCreated - connectionsClosed
  closed,        \* closed
  asyncWaiters,  \* asyncWaiters, oldest first
  pc,            \* where each thread stands between two lock sections
  hcLeft,        \* healthCheck: iterations left of the snapshot loop
  hcNeed,        \* healthCheck: slots reserved for the refill
  grace          \* shutdown: its grace argument is positive

counters == <<idle, total, borrowed, net>>
locals == <<hcLeft, hcNeed, grace>>
vars == <<counters, closed, asyncWaiters, pc, locals>>

(***************************************************************************)
(* Where a thread can stand.                                                *)
(*   probe    holds a connection popped from idle, pinging it               *)
(*   create   holds a reserved slot, connecting                             *)
(*   waiting  in cv.wait_until; woken: notified, mutex not yet reacquired   *)
(*   holding  owns a Handle                                                 *)
(*   closing  owns a connection without a slot, about to close it           *)
(*   notify   has returned a connection, about to call cv.notify_one        *)
(* requests: enter (past expireWaiters), ping and drop (validating task),   *)
(*   reclose (about to close and start over), queued, collected (taken off  *)
(*   the queue by shutdown), lost (taken off the queue, never completed)    *)
(* heartbeat: snap, take, probe, retire, reserve, fill                      *)
(* shutdown: closing, waiting, woken, deliver, done, gone                   *)
(***************************************************************************)
ClientStates == {"idle", "probe", "create", "waiting", "woken", "holding",
                 "closing", "notify"}
RequestStates == {"idle", "enter", "ping", "drop", "reclose", "create",
                  "queued", "collected", "lost", "holding", "closing",
                  "notify"}
BeatStates == {"idle", "snap", "take", "probe", "retire", "reserve", "fill"}
ReaperStates == {"idle", "closing", "waiting", "woken", "deliver", "done",
                 "gone"}

At(p, S) == {t \in Threads : p[t] \in S}
Holders == At(pc, {"holding"})
Queued == {r \in Requests : pc[r] = "queued"}

Clamp(x) == IF x < 0 THEN 0 ELSE x
Dec(x) == IF x > 0 THEN x - 1 ELSE x

\* Mutant of HasRoom: the limit is compared with <=.
HasRoomOffByOne(n) == n <= MaxConn

\* Another slot may be reserved.
HasRoom(n) == n < MaxConn

\* The pool object still exists.
Exists == pc[Reaper] # "gone"

-----------------------------------------------------------------------------
(* The constructor: it warms up to MinConn connections and stops at the     *)
(* first one that fails.                                                    *)
Init ==
  /\ idle \in 0..(IF Pooled THEN MinConn ELSE 0)
  /\ total = idle
  /\ borrowed = 0
  /\ net = idle
  /\ closed = FALSE
  /\ asyncWaiters = <<>>
  /\ pc = [t \in Threads |-> "idle"]
  /\ hcLeft = 0
  /\ hcNeed = 0
  /\ grace = FALSE

-----------------------------------------------------------------------------
(* The condition variable, shared by borrowers and by shutdown.             *)

Sleepers(p) == {t \in Clients \cup {Reaper} : p[t] = "waiting"}

\* Mutants: the notification is forgotten.
NotifyOneForgotten(p) == {p}
NotifyAllForgotten(p) == p

\* cv.notify_one: one sleeper, whichever the scheduler picks, if there is one.
NotifyOne(p) ==
  IF Sleepers(p) = {} THEN {p}
  ELSE {[p EXCEPT ![t] = "woken"] : t \in Sleepers(p)}

NotifyAll(p) ==
  [t \in Threads |-> IF t \in Sleepers(p) THEN "woken" ELSE p[t]]

\* wait_until is called without a predicate and may return spuriously.
SpuriousWakeup(t) ==
  /\ t \in Sleepers(pc)
  /\ pc' = [pc EXCEPT ![t] = "woken"]
  /\ UNCHANGED <<counters, closed, asyncWaiters, locals>>

-----------------------------------------------------------------------------
(* borrow                                                                   *)

\* One pass of the loop of borrow, from a state in which the threads stand at
\* p, total is n and net is m; c still owns the mutex.
BorrowLoop(c, p, n, m) ==
  /\ net' = m
  /\ \/ /\ closed                                    \* PoolClosed
        /\ pc' = [p EXCEPT ![c] = "idle"]
        /\ total' = n
        /\ UNCHANGED idle
     \/ /\ ~closed
        /\ idle > 0
        /\ idle' = idle - 1
        /\ pc' = [p EXCEPT ![c] = "probe"]
        /\ total' = n
     \/ /\ ~closed
        /\ idle = 0
        /\ HasRoom(n)
        /\ total' = n + 1
        /\ pc' = [p EXCEPT ![c] = "create"]
        /\ UNCHANGED idle
     \/ /\ ~closed
        /\ idle = 0
        /\ ~HasRoom(n)
        /\ pc' = [p EXCEPT ![c] = IF c \in ZeroWait THEN "idle"   \* PoolExhausted
                                                    ELSE "waiting"]
        /\ total' = n
        /\ UNCHANGED idle
  /\ UNCHANGED <<borrowed, closed, asyncWaiters, locals>>

\* A call of borrow, up to its first unlock.
Borrow(c) ==
  /\ Pooled
  /\ Exists
  /\ pc[c] = "idle"
  /\ BorrowLoop(c, pc, total, net)

\* wait_until returned no_timeout: the loop starts over.
Resume(c) ==
  /\ pc[c] = "woken"
  /\ BorrowLoop(c, pc, total, net)

\* Mutant: a wait that times out starts over.
BorrowTimeoutRetries(c) ==
  /\ pc[c] = "waiting"
  /\ pc' = [pc EXCEPT ![c] = "woken"]
  /\ UNCHANGED <<counters, closed, asyncWaiters, locals>>

\* wait_until returned timeout, which it also does for a thread that was
\* notified but ran after its deadline; nothing is looked at again.
BorrowTimeout(c) ==
  /\ pc[c] \in {"waiting", "woken"}
  /\ c \notin NoDeadline
  /\ pc' = [pc EXCEPT ![c] = "idle"]                 \* PoolExhausted
  /\ UNCHANGED <<counters, closed, asyncWaiters, locals>>

\* Mutant: closed is not looked at again after the ping.
ProbeAliveNoRecheck(c) ==
  /\ pc[c] = "probe"
  /\ pc' = [pc EXCEPT ![c] = "holding"]
  /\ borrowed' = borrowed + 1
  /\ UNCHANGED <<idle, total, net, closed, asyncWaiters, locals>>

\* The popped connection is within its lifetime and answers the ping.
ProbeAlive(c) ==
  /\ pc[c] = "probe"
  /\ IF closed                       \* closed here, neither total nor metric
     THEN pc' = [pc EXCEPT ![c] = "idle"] /\ UNCHANGED borrowed
     ELSE pc' = [pc EXCEPT ![c] = "holding"] /\ borrowed' = borrowed + 1
  /\ UNCHANGED <<idle, total, net, closed, asyncWaiters, locals>>

\* It is too old or dead: it was closed before the mutex was taken again, its
\* slot is released, one sleeper is notified and the loop goes on.
ProbeDead(c) ==
  /\ pc[c] = "probe"
  /\ \E p \in NotifyOne(pc) : BorrowLoop(c, p, Clamp(total - 1), net - 1)

\* A data source without a pool connects for every borrow.
BorrowUnpooled(c) ==
  /\ ~Pooled
  /\ Exists
  /\ pc[c] = "idle"
  /\ ~closed
  /\ pc' = [pc EXCEPT ![c] = "create"]
  /\ UNCHANGED <<counters, closed, asyncWaiters, locals>>

\* createConnection succeeded.
CreateOk(c) ==
  /\ pc[c] = "create"
  /\ IF closed
     THEN /\ pc' = [pc EXCEPT ![c] = "idle"]
          /\ total' = IF Pooled THEN total - 1 ELSE total
          /\ UNCHANGED <<borrowed, net>>
     ELSE /\ pc' = [pc EXCEPT ![c] = "holding"]
          /\ total' = IF Pooled THEN total ELSE total + 1
          /\ borrowed' = borrowed + 1
          /\ net' = net + 1
  /\ UNCHANGED <<idle, closed, asyncWaiters, locals>>

\* Mutant: a failed connect keeps the slot it reserved.
CreateFailLeaks(c) ==
  /\ pc[c] = "create"
  /\ pc' = [pc EXCEPT ![c] = "idle"]
  /\ UNCHANGED <<counters, closed, asyncWaiters, locals>>

\* createConnection failed: the slot is released and one sleeper notified.
CreateFail(c) ==
  /\ pc[c] = "create"
  /\ IF Pooled
     THEN /\ total' = Clamp(total - 1)
          /\ \E p \in NotifyOne(pc) : pc' = [p EXCEPT ![c] = "idle"]
     ELSE /\ pc' = [pc EXCEPT ![c] = "idle"]
          /\ UNCHANGED total
  /\ UNCHANGED <<idle, borrowed, net, closed, asyncWaiters, locals>>

-----------------------------------------------------------------------------
(* ~Handle and State::returnConn, for the holder of any Handle              *)

\* The queue once the waiters in late, whose deadline has passed, are removed.
Unexpired(late) == SelectSeq(asyncWaiters, LAMBDA r : r \notin late)

\* Mutants: one of the two counters is not decremented.
ReturnCloseKeepsBorrowed(t) ==
  /\ Exists
  /\ pc[t] = "holding"
  /\ total' = Dec(total)
  /\ net' = net - 1
  /\ pc' = [pc EXCEPT ![t] = "closing"]
  /\ UNCHANGED <<idle, borrowed, closed, asyncWaiters, locals>>

ReturnCloseKeepsTotal(t) ==
  /\ Exists
  /\ pc[t] = "holding"
  /\ borrowed' = Dec(borrowed)
  /\ net' = net - 1
  /\ pc' = [pc EXCEPT ![t] = "closing"]
  /\ UNCHANGED <<idle, total, closed, asyncWaiters, locals>>

\* closed, past its lifetime, invalidated or not pooled: the slot is free as
\* soon as the mutex is, the connection is closed afterwards.
ReturnClose(t) ==
  /\ Exists
  /\ pc[t] = "holding"
  /\ borrowed' = Dec(borrowed)
  /\ total' = Dec(total)
  /\ net' = net - 1
  /\ pc' = [pc EXCEPT ![t] = "closing"]
  /\ UNCHANGED <<idle, closed, asyncWaiters, locals>>

\* The connection goes to the oldest unexpired waiter.  The early return skips
\* the completions of the waiters found expired, and notify_one.
ReturnHandoff(t) ==
  /\ Exists
  /\ pc[t] = "holding"
  /\ ~closed
  /\ Pooled
  /\ \E late \in SUBSET Queued : \E r \in Queued \ late :
        /\ r = Head(Unexpired(late))
        /\ asyncWaiters' = Tail(Unexpired(late))
        /\ pc' = [u \in Threads |-> IF u = t THEN "idle"
                                    ELSE IF u = r THEN "holding"
                                    ELSE IF u \in late THEN "lost"
                                    ELSE pc[u]]
  /\ borrowed' = Dec(borrowed) + 1
  /\ UNCHANGED <<idle, total, net, closed, locals>>

\* No waiter is left: the connection becomes idle.
ReturnIdle(t) ==
  /\ Exists
  /\ pc[t] = "holding"
  /\ ~closed
  /\ Pooled
  /\ asyncWaiters' = <<>>
  /\ pc' = [u \in Threads |-> IF u = t THEN "notify"
                              ELSE IF u \in Queued THEN "idle"    \* PoolExhausted
                              ELSE pc[u]]
  /\ idle' = idle + 1
  /\ borrowed' = Dec(borrowed)
  /\ UNCHANGED <<total, net, closed, locals>>

\* The end of returnConn, outside the mutex: close if need be, notify_one.
ReturnNotify(t) ==
  /\ pc[t] \in {"closing", "notify"}
  /\ \E p \in NotifyOne(pc) : pc' = [p EXCEPT ![t] = "idle"]
  /\ UNCHANGED <<counters, closed, asyncWaiters, locals>>

\* A Handle that outlives the pool closes its connection itself.
ReturnOrphan(t) ==
  /\ ~Exists
  /\ pc[t] = "holding"
  /\ pc' = [pc EXCEPT ![t] = "idle"]
  /\ UNCHANGED <<counters, closed, asyncWaiters, locals>>

-----------------------------------------------------------------------------
(* borrowAsync                                                              *)

\* expireWaiters, run by t, which goes on to next: every waiter past its
\* deadline is removed and completed with PoolExhausted.
ExpireWaiters(t, next) ==
  \E late \in SUBSET Queued :
    /\ asyncWaiters' = Unexpired(late)
    /\ pc' = [u \in Threads |-> IF u = t THEN next
                                ELSE IF u \in late THEN "idle" ELSE pc[u]]

\* A call of borrowAsync, or the call it makes to itself after closing a
\* connection that turned out too old or dead.
AsyncBorrow(r) ==
  /\ \/ pc[r] = "idle" /\ Exists
     \/ pc[r] = "reclose"
  /\ ExpireWaiters(r, "enter")
  /\ UNCHANGED <<counters, closed, locals>>

\* The second lock section of borrowAsync, with the mutex and no conditions
\* left to wait for: refuse, connect, grant, validate, reserve or queue.
AsyncEnter(r) ==
  /\ pc[r] = "enter"
  /\ \/ /\ closed                                    \* PoolClosed
        /\ pc' = [pc EXCEPT ![r] = "idle"]
        /\ UNCHANGED <<idle, total, borrowed, net, asyncWaiters>>
     \/ /\ ~closed
        /\ ~Pooled
        /\ pc' = [pc EXCEPT ![r] = "create"]
        /\ UNCHANGED <<idle, total, borrowed, net, asyncWaiters>>
     \/ /\ ~closed
        /\ Pooled
        /\ idle > 0
        /\ idle' = idle - 1
        /\ \/ /\ total' = Clamp(total - 1)           \* past its lifetime
              /\ net' = net - 1
              /\ pc' = [pc EXCEPT ![r] = "reclose"]
              /\ UNCHANGED borrowed
           \/ /\ borrowed' = borrowed + 1             \* validated recently
              /\ pc' = [pc EXCEPT ![r] = "holding"]
              /\ UNCHANGED <<total, net>>
           \/ /\ pc' = [pc EXCEPT ![r] = "ping"]
              /\ UNCHANGED <<total, borrowed, net>>
        /\ UNCHANGED asyncWaiters
     \/ /\ ~closed
        /\ Pooled
        /\ idle = 0
        /\ HasRoom(total)
        /\ total' = total + 1
        /\ pc' = [pc EXCEPT ![r] = "create"]
        /\ UNCHANGED <<idle, borrowed, net, asyncWaiters>>
     \/ /\ ~closed
        /\ Pooled
        /\ idle = 0
        /\ ~HasRoom(total)
        /\ \/ /\ pc' = [pc EXCEPT ![r] = "idle"]     \* timeout 0: PoolExhausted
              /\ UNCHANGED asyncWaiters
           \/ /\ pc' = [pc EXCEPT ![r] = "queued"]
              /\ asyncWaiters' = Append(asyncWaiters, r)
        /\ UNCHANGED <<idle, total, borrowed, net>>
  /\ UNCHANGED <<closed, locals>>

\* The posted task has pinged the connection and holds the mutex.
AsyncPing(r) ==
  /\ pc[r] = "ping"
  /\ \/ /\ closed                                    \* PoolClosed
        /\ pc' = [pc EXCEPT ![r] = "idle"]
        /\ UNCHANGED borrowed
     \/ /\ ~closed                                   \* alive
        /\ pc' = [pc EXCEPT ![r] = "holding"]
        /\ borrowed' = borrowed + 1
     \/ /\ ~closed                                   \* dead
        /\ pc' = [pc EXCEPT ![r] = "drop"]
        /\ UNCHANGED borrowed
  /\ UNCHANGED <<idle, total, net, closed, asyncWaiters, locals>>

\* Mutant: the connection dropped is not counted as closed.
AsyncDropUncounted(r) ==
  /\ pc[r] = "drop"
  /\ total' = Clamp(total - 1)
  /\ pc' = [pc EXCEPT ![r] = "reclose"]
  /\ UNCHANGED <<idle, borrowed, net, closed, asyncWaiters, locals>>

\* A second lock section releases the slot of the dead connection.
AsyncDrop(r) ==
  /\ pc[r] = "drop"
  /\ total' = Clamp(total - 1)
  /\ net' = net - 1
  /\ pc' = [pc EXCEPT ![r] = "reclose"]
  /\ UNCHANGED <<idle, borrowed, closed, asyncWaiters, locals>>

\* The task of postCreateTask, its createConnection done.  A freed slot wakes
\* nobody, neither a sleeper on cv nor a queued waiter.
AsyncCreate(r) ==
  /\ pc[r] = "create"
  /\ \/ /\ closed                                    \* PoolClosed
        /\ pc' = [pc EXCEPT ![r] = "idle"]
        /\ total' = IF Pooled THEN Dec(total) ELSE total
        /\ UNCHANGED <<borrowed, net>>
     \/ /\ ~closed                                   \* could not connect
        /\ pc' = [pc EXCEPT ![r] = "idle"]
        /\ total' = IF Pooled THEN Clamp(total - 1) ELSE total
        /\ UNCHANGED <<borrowed, net>>
     \/ /\ ~closed
        /\ pc' = [pc EXCEPT ![r] = "holding"]
        /\ total' = IF Pooled THEN total ELSE total + 1
        /\ borrowed' = borrowed + 1
        /\ net' = net + 1
  /\ UNCHANGED <<idle, closed, asyncWaiters, locals>>

-----------------------------------------------------------------------------
(* healthCheck, called by the heartbeat thread                              *)

HealthExpire ==
  /\ Heartbeat
  /\ Pooled
  /\ Exists
  /\ pc[Beat] = "idle"
  /\ ExpireWaiters(Beat, "snap")
  /\ UNCHANGED <<counters, closed, locals>>

HealthSnapshot ==
  /\ pc[Beat] = "snap"
  /\ hcLeft' = idle
  /\ pc' = [pc EXCEPT ![Beat] = "take"]
  /\ UNCHANGED <<counters, closed, asyncWaiters, hcNeed, grace>>

\* Mutant: the snapshot is trusted, idle.empty() is not checked again.
HealthTakeUnchecked ==
  /\ pc[Beat] = "take"
  /\ hcLeft > 0
  /\ ~closed
  /\ idle' = idle - 1
  /\ pc' = [pc EXCEPT ![Beat] = "probe"]
  /\ hcLeft' = hcLeft - 1
  /\ UNCHANGED <<total, borrowed, net, closed, asyncWaiters, hcNeed, grace>>

\* One iteration pops a connection; it may retire it for idleness only while
\* the pool is above MinConn.
HealthTake ==
  /\ pc[Beat] = "take"
  /\ hcLeft > 0
  /\ ~closed
  /\ idle > 0
  /\ idle' = idle - 1
  /\ \/ pc' = [pc EXCEPT ![Beat] = "probe"]
     \/ total > MinConn /\ pc' = [pc EXCEPT ![Beat] = "retire"]
  /\ hcLeft' = hcLeft - 1
  /\ UNCHANGED <<total, borrowed, net, closed, asyncWaiters, hcNeed, grace>>

HealthBreak ==
  /\ pc[Beat] = "take"
  /\ hcLeft = 0 \/ closed \/ idle = 0
  /\ pc' = [pc EXCEPT ![Beat] = "reserve"]
  /\ hcLeft' = 0
  /\ UNCHANGED <<counters, closed, asyncWaiters, hcNeed, grace>>

\* Mutant: closed is not looked at again after the ping.
HealthKeepNoRecheck ==
  /\ pc[Beat] = "probe"
  /\ idle' = idle + 1
  /\ pc' = [pc EXCEPT ![Beat] = "take"]
  /\ UNCHANGED <<total, borrowed, net, closed, asyncWaiters, locals>>

\* The connection is alive: back to idle, and nobody is notified.
HealthKeep ==
  /\ pc[Beat] = "probe"
  /\ ~closed
  /\ idle' = idle + 1
  /\ pc' = [pc EXCEPT ![Beat] = "take"]
  /\ UNCHANGED <<total, borrowed, net, closed, asyncWaiters, locals>>

\* It is retired, too old, dead, or the pool is closed.
HealthEvict ==
  /\ pc[Beat] \in {"probe", "retire"}
  /\ total' = Clamp(total - 1)
  /\ net' = net - 1
  /\ pc' = [pc EXCEPT ![Beat] = "take"]
  /\ UNCHANGED <<idle, borrowed, closed, asyncWaiters, locals>>

\* Reserve the slots that are missing to MinConn.
HealthReserve ==
  /\ pc[Beat] = "reserve"
  /\ IF closed
     THEN /\ pc' = [pc EXCEPT ![Beat] = "idle"]
          /\ UNCHANGED <<total, hcNeed>>
     ELSE /\ hcNeed' = Clamp(MinConn - total)
          /\ total' = total + hcNeed'
          /\ pc' = [pc EXCEPT ![Beat] = "fill"]
  /\ UNCHANGED <<idle, borrowed, net, closed, asyncWaiters, hcLeft, grace>>

\* n of the connections could be made; the other reservations are given back.
HealthFill ==
  /\ pc[Beat] = "fill"
  /\ \E n \in 0..hcNeed :
        /\ total' = Clamp(total - (hcNeed - n))
        /\ net' = net + n
        /\ idle' = IF closed THEN idle ELSE idle + n
        /\ pc' = [(IF n > 0 THEN NotifyAll(pc) ELSE pc) EXCEPT ![Beat] = "idle"]
  /\ hcNeed' = 0
  /\ UNCHANGED <<borrowed, closed, asyncWaiters, hcLeft, grace>>

-----------------------------------------------------------------------------
(* shutdown and ~ConnectionPool                                             *)

\* From here to its next unlock shutdown owns the mutex, the threads standing
\* at p: it pops the next idle connection, or waits for the borrowed ones if g,
\* or gives up the slots of everything that is not borrowed.
ShutdownGoOn(p, g) ==
  \/ /\ idle > 0
     /\ idle' = idle - 1
     /\ pc' = [p EXCEPT ![Reaper] = "closing"]
     /\ UNCHANGED total
  \/ /\ idle = 0
     /\ g
     /\ borrowed > 0
     /\ pc' = [p EXCEPT ![Reaper] = "waiting"]
     /\ UNCHANGED <<idle, total>>
  \/ /\ idle = 0
     /\ ~g \/ borrowed = 0
     /\ total' = borrowed
     /\ pc' = [p EXCEPT ![Reaper] = "deliver"]
     /\ UNCHANGED idle

\* shutdown(grace): mark closed, wake every sleeper, take over the waiters.
Shutdown ==
  /\ pc[Reaper] = "idle"
  /\ closed' = TRUE
  /\ asyncWaiters' = <<>>
  /\ grace' \in Graces
  /\ ShutdownGoOn([t \in Threads |-> IF t \in Queued THEN "collected"
                                     ELSE NotifyAll(pc)[t]], grace')
  /\ UNCHANGED <<borrowed, net, hcLeft, hcNeed>>

ShutdownClosed ==
  /\ pc[Reaper] = "closing"
  /\ net' = net - 1
  /\ ShutdownGoOn(pc, grace)
  /\ UNCHANGED <<borrowed, closed, asyncWaiters, locals>>

ShutdownResume ==
  /\ pc[Reaper] = "woken"
  /\ ShutdownGoOn(pc, grace)
  /\ UNCHANGED <<borrowed, net, closed, asyncWaiters, locals>>

\* Mutant: the wait of shutdown has no deadline.
ShutdownWaitsForever ==
  /\ pc[Reaper] = "woken"
  /\ pc' = [pc EXCEPT ![Reaper] = "waiting"]
  /\ UNCHANGED <<counters, closed, asyncWaiters, locals>>

ShutdownTimeout ==
  /\ pc[Reaper] \in {"waiting", "woken"}
  /\ total' = borrowed
  /\ pc' = [pc EXCEPT ![Reaper] = "deliver"]
  /\ UNCHANGED <<idle, borrowed, net, closed, asyncWaiters, locals>>

\* Outside the mutex: complete the collected waiters with PoolClosed.
ShutdownDeliver ==
  /\ pc[Reaper] = "deliver"
  /\ pc' = [t \in Threads |-> IF t = Reaper THEN "done"
                              ELSE IF pc[t] = "collected" THEN "idle"
                              ELSE pc[t]]
  /\ UNCHANGED <<counters, closed, asyncWaiters, locals>>

\* ~ConnectionPool, once no thread or task is inside the pool: its shutdown(0)
\* finds the pool drained.  Handles may survive it.
Destroy ==
  /\ pc[Reaper] = "done"
  /\ \A t \in Threads \ {Reaper} : pc[t] \in {"idle", "holding", "lost"}
  /\ total' = borrowed
  /\ pc' = [pc EXCEPT ![Reaper] = "gone"]
  /\ UNCHANGED <<idle, borrowed, net, closed, asyncWaiters, locals>>

\* The pool is gone and so are its handles.
Finished ==
  /\ ~Exists
  /\ Holders = {}
  /\ UNCHANGED vars

-----------------------------------------------------------------------------
ClientStep(c) ==
  \/ Borrow(c) \/ Resume(c) \/ BorrowTimeout(c) \/ ProbeAlive(c)
  \/ ProbeDead(c) \/ BorrowUnpooled(c) \/ CreateOk(c) \/ CreateFail(c)

RequestStep(r) ==
  \/ AsyncBorrow(r) \/ AsyncEnter(r) \/ AsyncPing(r) \/ AsyncDrop(r)
  \/ AsyncCreate(r)

ReturnStep(t) ==
  \/ ReturnClose(t) \/ ReturnHandoff(t) \/ ReturnIdle(t) \/ ReturnNotify(t)
  \/ ReturnOrphan(t)

HealthStep ==
  \/ HealthExpire \/ HealthSnapshot \/ HealthTake \/ HealthBreak
  \/ HealthKeep \/ HealthEvict \/ HealthReserve \/ HealthFill

ShutdownStep ==
  \/ Shutdown \/ ShutdownClosed \/ ShutdownResume \/ ShutdownTimeout
  \/ ShutdownDeliver \/ Destroy

Next ==
  \/ \E c \in Clients : ClientStep(c)
  \/ \E r \in Requests : RequestStep(r)
  \/ \E t \in Clients \cup Requests : ReturnStep(t)
  \/ HealthStep
  \/ ShutdownStep
  \/ \E t \in Clients \cup {Reaper} : SpuriousWakeup(t)
  \/ Finished

Spec == Init /\ [][Next]_vars

-----------------------------------------------------------------------------
(* Properties                                                               *)

\* Every thread stands where its code can be, and the sizes of the idle queue
\* and of the two healthCheck counters never go below zero: no lock section
\* pops a queue that another one emptied since it looked.
TypeOK ==
  /\ idle \in Nat
  /\ total \in Int
  /\ borrowed \in Nat
  /\ net \in Int
  /\ closed \in BOOLEAN
  /\ hcLeft \in Nat
  /\ hcNeed \in Nat
  /\ grace \in BOOLEAN
  /\ pc \in [Threads -> ClientStates \cup RequestStates \cup BeatStates
                        \cup ReaperStates]
  /\ \A c \in Clients : pc[c] \in ClientStates
  /\ \A r \in Requests : pc[r] \in RequestStates
  /\ pc[Beat] \in BeatStates
  /\ pc[Reaper] \in ReaperStates

\* Threads that own a physical connection together with its slot, and those
\* that own a slot.
OwnerStates == {"probe", "retire", "ping", "drop", "holding"}
SlotStates == OwnerStates \cup {"create"}

\* shutdown has closed the pool and not yet set total.
DrainStates == {"closing", "waiting", "woken"}

\* Slots are neither leaked nor freed twice.  While the pool is open, total is
\* the idle connections, the connections and reservations of every thread
\* between two lock sections, and the slots reserved for the refill.  While
\* shutdown drains it, and leaves the slots of what it closes in total, total
\* is at least that, so that no thread that ends meanwhile frees a slot twice;
\* once shutdown has set total to borrowed it never counts more than the
\* handles.  An unpooled data source counts its handles and not its connects,
\* until it is destroyed.  (The ++total/--total of borrow, returnConn,
\* borrowAsync, postCreateTask and healthCheck.)
SlotsConserved ==
  LET slots == idle + Cardinality(At(pc, SlotStates)) + hcNeed IN
    IF Pooled
    THEN /\ ~closed => total = slots
         /\ pc[Reaper] \in DrainStates => total >= slots
         /\ pc[Reaper] \in {"deliver", "done"} => total <= borrowed
    ELSE Exists => total = Cardinality(Holders)

\* At no time are more than maxConn_ slots in use or handles outstanding,
\* whatever borrow, borrowAsync, the refill and shutdown do concurrently.
CapRespected ==
  Pooled => total <= MaxConn /\ borrowed <= MaxConn

\* borrowed counts exactly the Handles alive, so the wait of shutdown ends
\* when the last one is returned and the clamp in returnConn never hides an
\* error.
BorrowedExact ==
  Exists => borrowed = Cardinality(Holders)

\* connectionsCreated - connectionsClosed is the number of established
\* connections as long as the pool is open.
MetricsConserved ==
  ~closed => net = idle + Cardinality(At(pc, OwnerStates))

\* Once shutdown has drained the idle queue no thread that was between two
\* lock sections puts a connection back into it.
DrainedStaysEmpty ==
  pc[Reaper] \in {"waiting", "woken", "deliver", "done", "gone"} => idle = 0

\* No borrower sleeps, and no asynchronous request is queued, on a pool that is
\* closed: nobody would ever wake it.
NobodyWaitsOnClosedPool ==
  closed => (\A c \in Clients : pc[c] # "waiting") /\ Queued = {}

\* A closed pool hands out nothing: a borrow that was pinging or connecting
\* when shutdown ran looks at closed again before it makes a Handle.
NoGrantAfterClose ==
  [][closed => borrowed' <= borrowed]_vars

\* Wake-ups are not lost among synchronous borrowers: while one of them sleeps,
\* each idle connection or free slot has a borrower on its way to it, already
\* woken or about to be by the thread that freed it.
NoLostWakeup ==
  (~closed /\ \E c \in Clients : pc[c] = "waiting") =>
     idle + (MaxConn - total)
        <= Cardinality(At(pc, {"woken", "closing", "notify"}))

-----------------------------------------------------------------------------
(* What the documentation and the tests say and the code does not keep.     *)

\* docs/guide_en.md:712, of shutdown's grace: "wait for in-flight connections
\* to return, force-close on timeout".
ForceCloseOnTimeout ==
  pc[Reaper] = "done" => Holders = {}

\* tests/sqlconduit_core_test.cpp:1085 and :279: a borrow that fails gives its
\* slot back; with nothing in flight totalCount() is what is idle or borrowed.
FailedBorrowReleasesSlot ==
  (\A t \in Threads \ {Reaper} : pc[t] \in {"idle", "holding"}) /\ Exists
     /\ pc[Reaper] \in {"idle", "done"}
     => total = idle + borrowed

\* docs/guide_en.md:1868: pool.max is the maximum of connections of a source.
EstablishedWithinMax ==
  Pooled => idle + Cardinality(At(pc, OwnerStates \cup {"closing", "reclose"}))
              <= MaxConn

\* docs/guide_en.md:1870: idle connections are reclaimed "to `min`".
RetireKeepsMin ==
  [][pc[Beat] = "retire" /\ pc'[Beat] # "retire" /\ ~closed
       => total' >= MinConn]_vars

\* docs/guide_en.md:1869: a borrow whose wait times out returns PoolExhausted;
\* a request taken off the queue is completed.
NoLostCompletion ==
  \A r \in Requests : pc[r] # "lost"

-----------------------------------------------------------------------------
(* Liveness                                                                 *)

\* Threads keep running and deadlines pass.  Nothing is asked of the database,
\* nobody has to return a handle or to call shutdown.
Fairness ==
  /\ \A c \in Clients :
        /\ WF_vars(Resume(c) \/ BorrowTimeout(c))
        /\ WF_vars(BorrowTimeout(c))
        /\ WF_vars(ProbeAlive(c) \/ ProbeDead(c))
        /\ WF_vars(CreateOk(c) \/ CreateFail(c))
  /\ \A t \in Clients \cup Requests : WF_vars(ReturnNotify(t))
  /\ WF_vars(ShutdownClosed) /\ WF_vars(ShutdownResume)
  /\ WF_vars(ShutdownTimeout) /\ WF_vars(ShutdownDeliver)

FairSpec == Spec /\ Fairness

\* A call of borrow is in progress; it has returned.
Borrowing(c) == pc[c] \in {"probe", "create", "waiting", "woken"}
Returned(c) == pc[c] \in {"idle", "holding"}

\* tests/sqlconduit_core_test.cpp:247: every borrow returns, with a handle or
\* an error, however the pool is contended and whether or not it is shut down.
\* The one way not to is to meet dead idle connections for ever, as the loop of
\* borrow goes from one to the next without looking at its deadline.
BorrowReturns ==
  \A c \in Clients :
    []<><<ProbeDead(c)>>_vars \/ (Borrowing(c) ~> Returned(c))

\* docs/guide_en.md:1869: borrow waits for at most borrow_timeout_ms.  Not kept
\* by a borrower that meets one dead connection after another.
BorrowInTime ==
  \A c \in Clients : Borrowing(c) ~> Returned(c)

\* shutdown returns even if some handle never comes back.
ShutdownReturns ==
  closed ~> pc[Reaper] \in {"done", "gone"}
=============================================================================
