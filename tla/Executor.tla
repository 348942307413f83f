------------------------------ MODULE Executor ------------------------------
(***************************************************************************)
(* The executor of a Client's futures: ThreadPoolExecutor                   *)
(* (src/async/executor.cpp), the calls of Client::submitAsync that post to  *)
(* it and the ones of Client::shutdown and Client::reload that retire it    *)
(* (src/client.cpp).  One executor, from its creation to its destructor.    *)
(* Sections under mtx_ are actions; a thread blocked in a condition         *)
(* variable is in "wait" until it is notified.                              *)
(***************************************************************************)
EXTENDS Integers, Sequences, FiniteSets

CONSTANTS
  Ops,         \* asynchronous operations of the client, each submitted once
  Delays,      \* tasks given to postAfter, each once
  Workers,     \* the worker threads, threadCount_ of them
  Timer,       \* the timer thread
  QueueLimit   \* queueLimit_, at least 1

Threads == Workers \cup {Timer}

NoTask == "no task"

ASSUME ExecutorAssumption ==
  /\ Ops \cap Delays = {} /\ NoTask \notin Ops
  /\ Workers # {} /\ IsFiniteSet(Workers) /\ Timer \notin Workers
  /\ QueueLimit \in Nat \ {0}

VARIABLES
  started,    \* threadsStarted_
  stopping,   \* stopping_
  queue,      \* queue_
  delayed,    \* delayed_: the tasks, the order of whose deadlines is open
  owned,      \* workers_ and timerThread_ hold threads
  joining,    \* shutdown has taken them over
  thread,     \* where each thread stands
  task,       \* the operation each worker runs
  op,         \* how far each operation is
  later,      \* how far each task of postAfter is
  running,    \* the client's state is Running
  closer,     \* where the thread that retires the executor stands
  terminated  \* the destructor found a joinable thread: std::terminate

queues == <<queue, delayed>>
lifecycle == <<started, stopping, owned, joining>>
clientVars == <<running, closer, terminated>>
vars == <<queues, lifecycle, thread, task, op, later, clientVars>>

\* new; resolved: the data source was found; ref: holds the executor; queued;
\* active; then the future is ready: completed by the task, or refused.
OpStates == {"new", "resolved", "ref", "queued", "active", "completed", "refused"}
LaterStates == {"new", "pending", "active", "completed", "dropped", "refused"}
ThreadStates == {"unborn", "loop", "wait", "timed", "run", "exited"}
CloserStates == {"idle", "closed", "released", "join", "done", "destroyed"}

Init ==
  /\ started = FALSE
  /\ stopping = FALSE
  /\ queue = <<>>
  /\ delayed = {}
  /\ owned = FALSE
  /\ joining = FALSE
  /\ thread = [t \in Threads |-> "unborn"]
  /\ task = [w \in Workers |-> NoTask]
  /\ op = [o \in Ops |-> "new"]
  /\ later = [d \in Delays |-> "new"]
  /\ running = TRUE
  /\ closer = "idle"
  /\ terminated = FALSE

-----------------------------------------------------------------------------
\* ensureStartedLocked: the threads, the first time.
Spawned == IF started THEN thread ELSE [t \in Threads |-> "loop"]

EnsureStarted ==
  /\ started' = TRUE
  /\ owned' = (owned \/ ~started)

\* Mutant: the notification is forgotten.
NotifyOneForgotten(th, S) == {th}

\* notify_one on the condition variable the threads in S wait for.
NotifyOne(th, S) ==
  LET asleep == {t \in S : th[t] \in {"wait", "timed"}}
  IN IF asleep = {} THEN {th} ELSE {[th EXCEPT ![t] = "loop"] : t \in asleep}

NotifyAll(th) ==
  [t \in Threads |-> IF th[t] \in {"wait", "timed"} THEN "loop" ELSE th[t]]

-----------------------------------------------------------------------------
(* Client::submitAsync                                                      *)

\* resolve: ClientClosed unless the client is running.
Resolve(o) ==
  /\ op[o] = "new"
  /\ op' = [op EXCEPT ![o] = IF running THEN "resolved" ELSE "refused"]
  /\ UNCHANGED <<queues, lifecycle, thread, task, later, clientVars>>

\* A copy of asyncExecutor, or ConfigError if the client gave it up.
GetExecutor(o) ==
  /\ op[o] = "resolved"
  /\ op' = [op EXCEPT ![o] = IF closer \in {"idle", "closed"} THEN "ref"
                                                              ELSE "refused"]
  /\ UNCHANGED <<queues, lifecycle, thread, task, later, clientVars>>

\* tryPost, then the copy is dropped: Overloaded if it is refused.
TryPost(o) ==
  /\ op[o] = "ref"
  /\ EnsureStarted
  /\ IF stopping \/ Len(queue) >= QueueLimit
     THEN /\ op' = [op EXCEPT ![o] = "refused"]
          /\ thread' = Spawned
          /\ UNCHANGED queue
     ELSE /\ op' = [op EXCEPT ![o] = "queued"]
          /\ queue' = Append(queue, o)
          /\ thread' \in NotifyOne(Spawned, Workers)
  /\ UNCHANGED <<delayed, stopping, joining, task, later, clientVars>>

\* postAfter, for whoever still holds the executor.
PostAfter(d) ==
  /\ later[d] = "new"
  /\ closer # "destroyed"
  /\ EnsureStarted
  /\ IF stopping
     THEN /\ later' = [later EXCEPT ![d] = "refused"]
          /\ thread' = Spawned
          /\ UNCHANGED delayed
     ELSE /\ later' = [later EXCEPT ![d] = "pending"]
          /\ delayed' = delayed \cup {d}
          /\ thread' \in NotifyOne(Spawned, {Timer})
  /\ UNCHANGED <<queue, stopping, joining, task, op, clientVars>>

-----------------------------------------------------------------------------
(* workerLoop                                                               *)

\* The predicate does not hold: wait.
WorkerWait(w) ==
  /\ thread[w] = "loop"
  /\ queue = <<>> /\ ~stopping
  /\ thread' = [thread EXCEPT ![w] = "wait"]
  /\ UNCHANGED <<queues, lifecycle, task, op, later, clientVars>>

\* Mutant: the task is copied, not popped.
WorkerTakeCopies(w) ==
  /\ thread[w] = "loop"
  /\ queue # <<>>
  /\ task' = [task EXCEPT ![w] = Head(queue)]
  /\ op' = [op EXCEPT ![Head(queue)] = "active"]
  /\ thread' = [thread EXCEPT ![w] = "run"]
  /\ UNCHANGED <<queues, lifecycle, later, clientVars>>

\* The oldest task, whether or not the executor is stopping.
WorkerTake(w) ==
  /\ thread[w] = "loop"
  /\ queue # <<>>
  /\ queue' = Tail(queue)
  /\ task' = [task EXCEPT ![w] = Head(queue)]
  /\ op' = [op EXCEPT ![Head(queue)] = "active"]
  /\ thread' = [thread EXCEPT ![w] = "run"]
  /\ UNCHANGED <<delayed, lifecycle, later, clientVars>>

\* runGuarded returned: the task has set its promise, even if it threw.
WorkerDone(w) ==
  /\ thread[w] = "run"
  /\ op' = [op EXCEPT ![task[w]] = "completed"]
  /\ task' = [task EXCEPT ![w] = NoTask]
  /\ thread' = [thread EXCEPT ![w] = "loop"]
  /\ UNCHANGED <<queues, lifecycle, later, clientVars>>

\* Mutant: a worker leaves as soon as the executor stops.
WorkerExitEarly(w) ==
  /\ thread[w] = "loop"
  /\ stopping
  /\ thread' = [thread EXCEPT ![w] = "exited"]
  /\ UNCHANGED <<queues, lifecycle, task, op, later, clientVars>>

WorkerExit(w) ==
  /\ thread[w] = "loop"
  /\ queue = <<>> /\ stopping
  /\ thread' = [thread EXCEPT ![w] = "exited"]
  /\ UNCHANGED <<queues, lifecycle, task, op, later, clientVars>>

-----------------------------------------------------------------------------
(* timerLoop                                                                *)

\* Nothing is delayed: wait; something is: wait for the first deadline.
TimerWait ==
  /\ thread[Timer] = "loop"
  /\ delayed # {} \/ ~stopping
  /\ thread' = [thread EXCEPT ![Timer] = IF delayed = {} THEN "wait" ELSE "timed"]
  /\ UNCHANGED <<queues, lifecycle, task, op, later, clientVars>>

\* The deadline of d passed first; its task runs on the timer thread.
TimerTake(d) ==
  /\ thread[Timer] = "timed"
  /\ d \in delayed
  /\ delayed' = delayed \ {d}
  /\ later' = [later EXCEPT ![d] = "active"]
  /\ thread' = [thread EXCEPT ![Timer] = "run"]
  /\ UNCHANGED <<queue, lifecycle, task, op, clientVars>>

TimerDone ==
  /\ thread[Timer] = "run"
  /\ later' = [d \in Delays |-> IF later[d] = "active" THEN "completed" ELSE later[d]]
  /\ thread' = [thread EXCEPT ![Timer] = "loop"]
  /\ UNCHANGED <<queues, lifecycle, task, op, clientVars>>

TimerExit ==
  /\ thread[Timer] = "loop"
  /\ delayed = {} /\ stopping
  /\ thread' = [thread EXCEPT ![Timer] = "exited"]
  /\ UNCHANGED <<queues, lifecycle, task, op, later, clientVars>>

-----------------------------------------------------------------------------
(* Client::shutdown and Client::reload, ThreadPoolExecutor::shutdown        *)

\* Client::shutdown stores Closed.
CloseClient ==
  /\ closer = "idle"
  /\ running' = FALSE
  /\ closer' = "closed"
  /\ UNCHANGED <<queues, lifecycle, thread, task, op, later, terminated>>

\* stopAsync, or configureAsync when a reload disables async: asyncExecutor is
\* moved out of the client.
Release ==
  /\ closer \in {"idle", "closed"}
  /\ closer' = "released"
  /\ UNCHANGED <<queues, lifecycle, thread, task, op, later, running, terminated>>

\* Mutant: the waiting threads are not notified.
ShutdownSilent ==
  /\ closer = "released"
  /\ stopping' = TRUE
  /\ delayed' = {}
  /\ later' = [d \in Delays |-> IF d \in delayed THEN "dropped" ELSE later[d]]
  /\ joining' = owned
  /\ owned' = FALSE
  /\ closer' = "join"
  /\ UNCHANGED <<queue, started, thread, task, op, running, terminated>>

\* The lock section of shutdown: delayed tasks are dropped, queued ones stay.
Shutdown ==
  /\ closer = "released"
  /\ stopping' = TRUE
  /\ delayed' = {}
  /\ later' = [d \in Delays |-> IF d \in delayed THEN "dropped" ELSE later[d]]
  /\ thread' = NotifyAll(thread)
  /\ joining' = owned
  /\ owned' = FALSE
  /\ closer' = "join"
  /\ UNCHANGED <<queue, started, task, op, running, terminated>>

\* Every thread it took over has ended; the client drops the executor.
Joined ==
  /\ closer = "join"
  /\ joining => \A t \in Threads : thread[t] = "exited"
  /\ joining' = FALSE
  /\ closer' = "done"
  /\ UNCHANGED <<queues, started, stopping, owned, thread, task, op, later,
                 running, terminated>>

\* The last reference is gone.  The destructor has nothing to shut down, but
\* the destructor of a joinable std::thread ends the program.
Destroy ==
  /\ closer = "done"
  /\ \A o \in Ops : op[o] # "ref"
  /\ closer' = "destroyed"
  /\ terminated' = owned
  /\ UNCHANGED <<queues, lifecycle, thread, task, op, later, running>>

\* The executor is gone, every future is ready and every thread has ended.
Finished ==
  /\ closer = "destroyed"
  /\ \A o \in Ops : op[o] \in {"completed", "refused"}
  /\ \A t \in Threads : thread[t] \in {"unborn", "exited"}
  /\ UNCHANGED vars

-----------------------------------------------------------------------------
OpStep(o) == Resolve(o) \/ GetExecutor(o) \/ TryPost(o)
WorkerStep(w) == WorkerWait(w) \/ WorkerTake(w) \/ WorkerDone(w) \/ WorkerExit(w)
TimerStep == TimerWait \/ (\E d \in Delays : TimerTake(d)) \/ TimerDone \/ TimerExit
CloserStep == Shutdown \/ Joined \/ Destroy

Next ==
  \/ \E o \in Ops : OpStep(o)
  \/ \E d \in Delays : PostAfter(d)
  \/ \E w \in Workers : WorkerStep(w)
  \/ TimerStep
  \/ CloseClient \/ Release \/ CloserStep
  \/ Finished

Spec == Init /\ [][Next]_vars

\* Threads keep running, tasks return, and a deadline that is waited for passes.
FairSpec ==
  /\ Spec
  /\ \A o \in Ops : WF_vars(GetExecutor(o)) /\ WF_vars(TryPost(o))
  /\ \A w \in Workers : WF_vars(WorkerStep(w))
  /\ WF_vars(TimerStep)
  /\ WF_vars(CloserStep)

-----------------------------------------------------------------------------
(* Properties                                                               *)

\* Each piece of state keeps to its values, and a worker that runs has a task.
TypeOK ==
  /\ started \in BOOLEAN /\ stopping \in BOOLEAN
  /\ owned \in BOOLEAN /\ joining \in BOOLEAN
  /\ queue \in Seq(Ops)
  /\ delayed \subseteq Delays
  /\ thread \in [Threads -> ThreadStates]
  /\ task \in [Workers -> Ops \cup {NoTask}]
  /\ op \in [Ops -> OpStates]
  /\ later \in [Delays -> LaterStates]
  /\ running \in BOOLEAN
  /\ closer \in CloserStates
  /\ terminated \in BOOLEAN
  /\ \A w \in Workers : thread[w] = "run" => task[w] \in Ops

\* docs/guide_en.md:935: shutdown "drains submitted work": once it has returned,
\* no accepted operation is left queued or running, and none is accepted later.
Drained ==
  closer \in {"done", "destroyed"} =>
     queue = <<>> /\ \A o \in Ops : op[o] \notin {"queued", "active"}

\* An operation is run by one worker, once: what is queued is in the queue and
\* what is active is the task of exactly one worker.
RunOnce ==
  \A o \in Ops :
    /\ op[o] = "queued" <=> \E i \in DOMAIN queue : queue[i] = o
    /\ op[o] = "active" <=> \E w \in Workers : thread[w] = "run" /\ task[w] = o
    /\ \A i, j \in DOMAIN queue : queue[i] = o /\ queue[j] = o => i = j
    /\ \A v, w \in Workers : task[v] = o /\ task[w] = o => v = w

\* Every future a caller obtained becomes ready: its operation is completed or
\* refused, whatever shutdown or reload does meanwhile.
FuturesReady ==
  \A o \in Ops : op[o] # "new" ~> op[o] \in {"completed", "refused"}

\* Shutting down returns, and the executor is destroyed.
ShutdownReturns == closer = "released" ~> closer = "destroyed"

\* docs/guide_en.md:935: shutdown "rejects new operations, drains submitted
\* work, then closes this client's executor": no thread of it is left for the
\* destructor to find.
NoThreadLeft == ~terminated
=============================================================================
