--------------------------- MODULE ExecutorProofs ---------------------------
(***************************************************************************)
(* Proofs about Executor: an accepted operation is run by one worker, once, *)
(* and shutdown drains what was accepted, for any number of operations,     *)
(* delayed tasks and workers and any queue limit.                           *)
(***************************************************************************)
EXTENDS Executor, SequenceTheorems, TLAPS

\* A worker has a task exactly while it runs one.
TaskInv == \A w \in Workers : thread[w] = "run" <=> task[w] \in Ops

\* stopping_ is set by shutdown, and only by it.
StopInv == stopping <=> closer \in {"join", "done", "destroyed"}

\* Before the first post there are no threads and nothing is queued; until
\* shutdown takes them over the executor owns the threads it has started.
StartInv ==
  /\ ~ started => queue = <<>> /\ \A t \in Threads : thread[t] = "unborn"
  /\ ~ stopping => owned = started

\* A worker leaves only an executor that is stopping and has nothing queued.
ExitInv == \A w \in Workers : thread[w] = "exited" => stopping /\ queue = <<>>

\* Nothing is queued and nobody runs anything.
Idle == queue = <<>> /\ \A w \in Workers : thread[w] # "run"

\* Shutdown waits for threads, or there was nothing to wait for.
IdleInv ==
  /\ closer = "join" /\ ~ joining => Idle
  /\ closer \in {"done", "destroyed"} => Idle

\* The inductive invariant.
ExecutorInv == TypeOK /\ RunOnce /\ TaskInv /\ StopInv /\ StartInv /\ ExitInv /\ IdleInv

-----------------------------------------------------------------------------
\* The parts of the invariant that speak of operations and their workers: a step
\* that changes none of queue, op and task, and neither starts nor ends a run,
\* keeps them (the waits, the exits, shutdown, the timer).
LEMMA RunsUntouched ==
  ASSUME RunOnce, TaskInv, UNCHANGED <<queue, task, op>>,
         \A w \in Workers : thread'[w] = "run" <=> thread[w] = "run"
  PROVE  RunOnce' /\ TaskInv'
  BY DEF RunOnce, TaskInv

\* Spawning threads and notifying one moves nobody into or out of a run, and
\* nobody exits.
LEMMA SpawnedType ==
  ASSUME TypeOK, StartInv
  PROVE  /\ Spawned \in [Threads -> ThreadStates]
         /\ \A t \in Threads : Spawned[t] = "run" <=> thread[t] = "run"
         /\ \A t \in Threads : Spawned[t] = "exited" <=> thread[t] = "exited"
  BY DEF TypeOK, StartInv, Spawned, ThreadStates

\* Notifying moves waiting threads back to their loop and nobody else.
LEMMA NotifiedType ==
  ASSUME NEW th \in [Threads -> ThreadStates], NEW S \in SUBSET Threads,
         NEW p \in NotifyOne(th, S) \cup {NotifyAll(th)}
  PROVE  /\ p \in [Threads -> ThreadStates]
         /\ \A t \in Threads : p[t] = "run" <=> th[t] = "run"
         /\ \A t \in Threads : p[t] = "exited" <=> th[t] = "exited"
         /\ \A t \in Threads : p[t] = "unborn" <=> th[t] = "unborn"
  BY DEF NotifyOne, NotifyAll, ThreadStates

\* The flags of the type invariant, and the rest of it.
FlagType ==
  /\ started \in BOOLEAN /\ stopping \in BOOLEAN /\ owned \in BOOLEAN
  /\ joining \in BOOLEAN /\ running \in BOOLEAN /\ terminated \in BOOLEAN

DataType ==
  /\ queue \in Seq(Ops)
  /\ delayed \subseteq Delays
  /\ thread \in [Threads -> ThreadStates]
  /\ task \in [Workers -> Ops \cup {NoTask}]
  /\ op \in [Ops -> OpStates]
  /\ later \in [Delays -> LaterStates]
  /\ closer \in CloserStates

\* The type invariant is its flags, its data and that a running worker has a task.
LEMMA TypeSplit == TypeOK <=> /\ FlagType /\ DataType
                              /\ \A w \in Workers : thread[w] = "run" => task[w] \in Ops
  BY DEF TypeOK, FlagType, DataType

\* The initial state satisfies the invariant.
LEMMA ExecutorInit == Init => ExecutorInv
<1> SUFFICES ASSUME Init PROVE ExecutorInv
  OBVIOUS
<1>1. FlagType
  BY Zenon DEF Init, FlagType
<1>2. DataType
  BY DEF Init, DataType, ThreadStates, OpStates, LaterStates, CloserStates, Threads
<1>3. RunOnce
  BY ExecutorAssumption DEF Init, RunOnce, Threads
<1>4. TaskInv
  BY ExecutorAssumption DEF Init, TaskInv, Threads
<1>5. StopInv /\ StartInv /\ ExitInv /\ IdleInv
  BY DEF Init, StopInv, StartInv, ExitInv, IdleInv, Idle, Threads
<1> QED
  BY <1>1, <1>2, <1>3, <1>4, <1>5, TypeSplit DEF ExecutorInv, TaskInv

-----------------------------------------------------------------------------
(* The steps. *)

\* Every step keeps the flags flags.
LEMMA FlagStep == FlagType /\ [Next]_vars => FlagType'
<1> SUFFICES ASSUME FlagType, [Next]_vars PROVE FlagType'
  OBVIOUS
<1>1. CASE UNCHANGED vars
  BY <1>1 DEF FlagType, vars, lifecycle, clientVars
<1>2. ASSUME NEW o \in Ops, OpStep(o) PROVE FlagType'
  BY <1>2, Zenon DEF OpStep, Resolve, GetExecutor, TryPost, EnsureStarted, FlagType, lifecycle, clientVars
<1>3. ASSUME NEW d \in Delays, PostAfter(d) PROVE FlagType'
  BY <1>3, Zenon DEF PostAfter, EnsureStarted, FlagType, lifecycle, clientVars
<1>4. ASSUME NEW w \in Workers, WorkerStep(w) PROVE FlagType'
  BY <1>4, Zenon DEF WorkerStep, WorkerWait, WorkerTake, WorkerDone, WorkerExit, FlagType,
     lifecycle, clientVars
<1>5. CASE TimerStep
  BY <1>5, Zenon DEF TimerStep, TimerWait, TimerTake, TimerDone, TimerExit, FlagType,
     lifecycle, clientVars
<1>6. CASE CloseClient \/ Release
  BY <1>6, Zenon DEF CloseClient, Release, FlagType, lifecycle, clientVars
<1>7. CASE CloserStep
  BY <1>7, Zenon DEF CloserStep, Shutdown, Joined, Destroy, FlagType, lifecycle, clientVars
<1>8. CASE Finished
  BY <1>8 DEF Finished, FlagType, vars, lifecycle, clientVars
<1> QED
  BY <1>1, <1>2, <1>3, <1>4, <1>5, <1>6, <1>7, <1>8 DEF Next

\* The invariant but for the flags.
CoreInv == DataType /\ RunOnce /\ TaskInv /\ StopInv /\ StartInv /\ ExitInv /\ IdleInv

\* The invariant is the flags and the rest.
LEMMA CoreSplit == ExecutorInv <=> FlagType /\ CoreInv
  BY TypeSplit DEF ExecutorInv, CoreInv, TaskInv

\* resolve and GetExecutor only say how far the operation is.
LEMMA EnterStep ==
  ASSUME CoreInv, NEW o \in Ops, Resolve(o) \/ GetExecutor(o)
  PROVE  CoreInv'
<1>1. /\ UNCHANGED <<queues, lifecycle, thread, task, later, clientVars>>
      /\ op[o] \notin {"queued", "active"}
      /\ \E x \in {"resolved", "ref", "refused"} : op' = [op EXCEPT ![o] = x]
  BY DEF Resolve, GetExecutor
<1>2. DataType'
  BY <1>1 DEF CoreInv, DataType, OpStates, queues, clientVars
<1>3. RunOnce'
  BY <1>1 DEF CoreInv, DataType, RunOnce, queues
<1>4. TaskInv' /\ StopInv' /\ StartInv' /\ ExitInv' /\ IdleInv'
  BY <1>1 DEF CoreInv, TaskInv, StopInv, StartInv, ExitInv, IdleInv, Idle, queues, lifecycle, clientVars
<1> QED
  BY <1>2, <1>3, <1>4 DEF CoreInv

\* Once there are threads, StartInv asks that they are owned until shutdown.
LEMMA StartedStep ==
  ASSUME FlagType, StartInv, EnsureStarted, stopping' = stopping
  PROVE  StartInv'
<1>1. started'
  BY DEF EnsureStarted
<1>2. ASSUME ~ stopping PROVE owned' = started'
  <2>1. owned = started
    BY <1>2 DEF StartInv
  <2>2. owned \/ ~ started
    BY <2>1, Zenon DEF FlagType
  <2> QED
    BY <2>2, Zenon DEF EnsureStarted
<1> QED
  BY <1>1, <1>2 DEF StartInv

\* tryPost appends the operation or refuses it.
LEMMA PostStep ==
  ASSUME FlagType, CoreInv, NEW o \in Ops, TryPost(o)
  PROVE  CoreInv'
<1>0. /\ Spawned \in [Threads -> ThreadStates]
      /\ \A t \in Threads : Spawned[t] = "run" <=> thread[t] = "run"
      /\ \A t \in Threads : Spawned[t] = "exited" <=> thread[t] = "exited"
  BY CoreSplit, SpawnedType DEF CoreInv, ExecutorInv
<1>1. /\ thread' \in [Threads -> ThreadStates]
      /\ \A t \in Threads : thread'[t] = "run" <=> thread[t] = "run"
      /\ \A t \in Threads : thread'[t] = "exited" <=> thread[t] = "exited"
  <2>1. thread' = Spawned \/ thread' \in NotifyOne(Spawned, Workers)
    BY DEF TryPost
  <2>2. Workers \in SUBSET Threads
    BY DEF Threads
  <2> QED
    BY <1>0, <2>1, <2>2, NotifiedType
<1>2. CASE stopping \/ Len(queue) >= QueueLimit
  <2>1. /\ op' = [op EXCEPT ![o] = "refused"] /\ op[o] = "ref"
        /\ UNCHANGED <<queue, task, later, closer, delayed, stopping, joining>>
    BY <1>2 DEF TryPost, clientVars
  <2>2. DataType'
    BY <1>1, <2>1 DEF CoreInv, DataType, OpStates
  <2>3. RunOnce' /\ TaskInv'
    BY <1>1, <2>1 DEF CoreInv, DataType, RunOnce, TaskInv, Threads
  <2>4. StopInv' /\ ExitInv' /\ IdleInv'
    BY <1>1, <2>1 DEF CoreInv, StopInv, ExitInv, IdleInv, Idle, Threads
  <2>5. StartInv'
    BY <2>1, StartedStep DEF TryPost, CoreInv
  <2> QED
    BY <2>2, <2>3, <2>4, <2>5 DEF CoreInv
<1>3. CASE ~ (stopping \/ Len(queue) >= QueueLimit)
  <2>1. /\ op' = [op EXCEPT ![o] = "queued"] /\ op[o] = "ref"
        /\ queue' = Append(queue, o) /\ ~ stopping
        /\ UNCHANGED <<task, later, closer, delayed, stopping, joining>>
    BY <1>3 DEF TryPost, clientVars
  <2>2. DataType'
    BY <1>1, <2>1 DEF CoreInv, DataType, OpStates
  <2>3. /\ DOMAIN queue' = 1..(Len(queue) + 1) /\ DOMAIN queue = 1..Len(queue)
        /\ Len(queue) \in Nat /\ queue'[Len(queue) + 1] = o
        /\ \A i \in 1..Len(queue) : queue'[i] = queue[i]
    BY <2>1, AppendProperties DEF CoreInv, DataType
  <2>4. RunOnce'
    BY <1>1, <2>1, <2>3 DEF CoreInv, DataType, RunOnce, Threads
  <2>5. TaskInv'
    BY <1>1, <2>1 DEF CoreInv, TaskInv, Threads
  <2>6. StopInv' /\ ExitInv' /\ IdleInv'
    BY <1>1, <2>1 DEF CoreInv, StopInv, ExitInv, IdleInv, Idle, Threads
  <2>7. StartInv'
    BY <2>1, StartedStep DEF TryPost, CoreInv
  <2> QED
    BY <2>2, <2>4, <2>5, <2>6, <2>7 DEF CoreInv
<1> QED
  BY <1>2, <1>3

\* postAfter leaves the operations alone.
LEMMA PostAfterStep ==
  ASSUME FlagType, CoreInv, NEW d \in Delays, PostAfter(d)
  PROVE  CoreInv'
<1>0. /\ Spawned \in [Threads -> ThreadStates]
      /\ \A t \in Threads : Spawned[t] = "run" <=> thread[t] = "run"
      /\ \A t \in Threads : Spawned[t] = "exited" <=> thread[t] = "exited"
  BY CoreSplit, SpawnedType DEF CoreInv, ExecutorInv
<1>1. /\ thread' \in [Threads -> ThreadStates]
      /\ \A t \in Threads : thread'[t] = "run" <=> thread[t] = "run"
      /\ \A t \in Threads : thread'[t] = "exited" <=> thread[t] = "exited"
  <2>1. thread' = Spawned \/ thread' \in NotifyOne(Spawned, {Timer})
    BY DEF PostAfter
  <2>2. {Timer} \in SUBSET Threads
    BY DEF Threads
  <2> QED
    BY <1>0, <2>1, <2>2, NotifiedType
<1>2. UNCHANGED <<queue, task, op, closer, stopping, joining>>
  BY DEF PostAfter, clientVars
<1>3. DataType'
  BY <1>1, <1>2 DEF PostAfter, CoreInv, DataType, LaterStates
<1>4. RunOnce' /\ TaskInv'
  BY <1>1, <1>2, RunsUntouched DEF CoreInv, Threads
<1>5. StopInv' /\ ExitInv' /\ IdleInv'
  BY <1>1, <1>2 DEF CoreInv, StopInv, ExitInv, IdleInv, Idle, Threads
<1>6. StartInv'
  BY <1>2, StartedStep DEF PostAfter, CoreInv
<1> QED
  BY <1>3, <1>4, <1>5, <1>6 DEF CoreInv

\* A thread that goes to sleep, wakes up or leaves: nothing else changes.
LEMMA MoveStep ==
  ASSUME CoreInv, NEW t \in Threads, NEW x \in ThreadStates \ {"run"},
         thread[t] \notin {"run", "unborn"}, thread' = [thread EXCEPT ![t] = x],
         x = "exited" /\ t \in Workers => stopping /\ queue = <<>>,
         UNCHANGED <<queues, lifecycle, task, op, later, clientVars>>
  PROVE  CoreInv'
<1>1. DataType'
  BY DEF CoreInv, DataType, queues, clientVars
<1>2. \A w \in Workers : thread'[w] = "run" <=> thread[w] = "run"
  BY DEF CoreInv, DataType, Threads
<1>3. RunOnce' /\ TaskInv'
  BY <1>2, RunsUntouched DEF CoreInv, queues
<1>4. StopInv' /\ StartInv' /\ ExitInv' /\ IdleInv'
  BY <1>2 DEF CoreInv, DataType, StopInv, StartInv, ExitInv, IdleInv, Idle, Threads,
     queues, lifecycle, clientVars
<1> QED
  BY <1>1, <1>3, <1>4 DEF CoreInv

\* A worker takes the oldest operation.
LEMMA TakeStep ==
  ASSUME CoreInv, NEW w \in Workers, WorkerTake(w)
  PROVE  CoreInv'
<1> DEFINE o == Head(queue)
<1>1. /\ o \in Ops /\ queue' = Tail(queue) /\ queue' \in Seq(Ops)
      /\ Len(queue) \in Nat \ {0} /\ DOMAIN queue = 1..Len(queue) /\ queue[1] = o
      /\ Len(queue') = Len(queue) - 1 /\ DOMAIN queue' = 1..(Len(queue) - 1)
      /\ \A i \in 1..(Len(queue) - 1) : queue'[i] = queue[i + 1]
  BY HeadTailProperties DEF WorkerTake, CoreInv, DataType
<1>2. op[o] = "queued"
  BY <1>1 DEF CoreInv, RunOnce
<1>3. /\ op' = [op EXCEPT ![o] = "active"] /\ task' = [task EXCEPT ![w] = o]
      /\ thread' = [thread EXCEPT ![w] = "run"] /\ thread[w] = "loop" /\ queue # <<>>
      /\ UNCHANGED <<delayed, lifecycle, later, clientVars>>
  BY DEF WorkerTake
<1>4. task[w] \notin Ops
  BY <1>3 DEF CoreInv, TaskInv
<1>5. DataType'
  BY <1>1, <1>3 DEF CoreInv, DataType, OpStates, ThreadStates, Threads, clientVars
<1>6. TaskInv'
  BY <1>1, <1>3 DEF CoreInv, DataType, TaskInv, Threads
<1>7. ASSUME NEW x \in Ops PROVE op'[x] = "queued" <=> \E i \in DOMAIN queue' : queue'[i] = x
  <2>1. CASE x = o
    <3>1. \A i \in DOMAIN queue' : queue[i + 1] # o
      BY <1>1 DEF CoreInv, RunOnce
    <3> QED
      BY <1>1, <1>3, <2>1, <3>1 DEF CoreInv, DataType
  <2>2. CASE x # o
    <3>1. op'[x] = op[x]
      BY <1>3, <2>2 DEF CoreInv, DataType
    <3>2. op[x] = "queued" <=> \E i \in DOMAIN queue : queue[i] = x
      BY DEF CoreInv, RunOnce
    <3>3. ASSUME NEW i \in DOMAIN queue, queue[i] = x PROVE \E j \in DOMAIN queue' : queue'[j] = x
      <4>1. i # 1 /\ i - 1 \in 1..(Len(queue) - 1) /\ queue'[i - 1] = queue[(i - 1) + 1]
        BY <1>1, <2>2, <3>3
      <4> QED
        BY <1>1, <3>3, <4>1
    <3>4. ASSUME NEW j \in DOMAIN queue', queue'[j] = x PROVE \E i \in DOMAIN queue : queue[i] = x
      BY <1>1, <3>4
    <3> QED
      BY <3>1, <3>2, <3>3, <3>4
  <2> QED
    BY <2>1, <2>2
<1>8. ASSUME NEW x \in Ops
      PROVE  op'[x] = "active" <=> \E v \in Workers : thread'[v] = "run" /\ task'[v] = x
  <2>1. op[x] = "active" <=> \E v \in Workers : thread[v] = "run" /\ task[v] = x
    BY DEF CoreInv, RunOnce
  <2> QED
    BY <1>1, <1>2, <1>3, <1>4, <2>1 DEF CoreInv, DataType, Threads
<1>9. ASSUME NEW i \in DOMAIN queue', NEW j \in DOMAIN queue', queue'[i] = queue'[j]
      PROVE  i = j
  <2>1. i + 1 \in DOMAIN queue /\ j + 1 \in DOMAIN queue /\ queue[i + 1] = queue[j + 1]
    BY <1>1, <1>9
  <2>2. queue[i + 1] \in Ops
    BY <2>1, <1>1 DEF CoreInv, DataType
  <2>3. i + 1 = j + 1
    BY <2>1, <2>2 DEF CoreInv, RunOnce
  <2> QED
    BY <1>1, <2>3
<1>10. ASSUME NEW u \in Workers, NEW v \in Workers, task'[u] = task'[v], task'[u] \in Ops
       PROVE  u = v
  <2>1. \A z \in Workers : task[z] # o
    <3> SUFFICES ASSUME NEW z \in Workers, task[z] = o PROVE FALSE
      OBVIOUS
    <3>1. thread[z] = "run"
      BY <1>1 DEF CoreInv, TaskInv
    <3> QED
      BY <3>1, <1>1, <1>2 DEF CoreInv, RunOnce
  <2> QED
    BY <1>3, <1>10, <2>1 DEF CoreInv, DataType, RunOnce
<1>11. RunOnce'
  BY <1>7, <1>8, <1>9, <1>10 DEF RunOnce
<1>12. StopInv' /\ StartInv' /\ ExitInv' /\ IdleInv'
  BY <1>1, <1>3 DEF CoreInv, DataType, StopInv, StartInv, ExitInv, IdleInv, Idle, Threads,
     lifecycle, clientVars
<1> QED
  BY <1>5, <1>6, <1>11, <1>12 DEF CoreInv

\* The task of a worker returns.
LEMMA DoneStep ==
  ASSUME CoreInv, NEW w \in Workers, WorkerDone(w)
  PROVE  CoreInv'
<1> DEFINE o == task[w]
<1>1. /\ o \in Ops /\ thread[w] = "run" /\ op[o] = "active"
  BY DEF WorkerDone, CoreInv, TaskInv, RunOnce
<1>2. /\ op' = [op EXCEPT ![o] = "completed"] /\ task' = [task EXCEPT ![w] = NoTask]
      /\ thread' = [thread EXCEPT ![w] = "loop"]
      /\ UNCHANGED <<queues, lifecycle, later, clientVars>>
  BY DEF WorkerDone
<1>3. DataType'
  BY <1>1, <1>2 DEF CoreInv, DataType, OpStates, ThreadStates, Threads, queues, clientVars
<1>4. TaskInv'
  BY <1>2, ExecutorAssumption DEF CoreInv, DataType, TaskInv, Threads
<1>5. ASSUME NEW v \in Workers, task[v] = o PROVE v = w
  BY <1>1, <1>5 DEF CoreInv, RunOnce
<1>6. RunOnce'
  <2>1. ASSUME NEW x \in Ops PROVE op'[x] = "queued" <=> \E i \in DOMAIN queue' : queue'[i] = x
    BY <1>1, <1>2 DEF CoreInv, DataType, RunOnce, queues
  <2>2. ASSUME NEW x \in Ops
        PROVE  op'[x] = "active" <=> \E v \in Workers : thread'[v] = "run" /\ task'[v] = x
    <3>1. op[x] = "active" <=> \E v \in Workers : thread[v] = "run" /\ task[v] = x
      BY DEF CoreInv, RunOnce
    <3> QED
      BY <1>1, <1>2, <1>5, <3>1 DEF CoreInv, DataType, Threads
  <2>3. ASSUME NEW x \in Ops
        PROVE  \A i, j \in DOMAIN queue' : queue'[i] = x /\ queue'[j] = x => i = j
    BY <1>2 DEF CoreInv, RunOnce, queues
  <2>4. ASSUME NEW x \in Ops
        PROVE  \A u, v \in Workers : task'[u] = x /\ task'[v] = x => u = v
    BY <1>2, ExecutorAssumption DEF CoreInv, DataType, RunOnce
  <2> QED
    BY <2>1, <2>2, <2>3, <2>4 DEF RunOnce
<1>7. StopInv' /\ StartInv' /\ ExitInv' /\ IdleInv'
  BY <1>1, <1>2 DEF CoreInv, DataType, StopInv, StartInv, ExitInv, IdleInv, Idle, Threads,
     queues, lifecycle, clientVars
<1> QED
  BY <1>3, <1>4, <1>6, <1>7 DEF CoreInv

\* A worker waits, takes a task, finishes it or leaves.
LEMMA WorkerKeeps ==
  ASSUME CoreInv, NEW w \in Workers, WorkerStep(w)
  PROVE  CoreInv'
<1> w \in Threads
  BY DEF Threads
<1>1. CASE WorkerWait(w)
  BY <1>1, MoveStep DEF WorkerWait, ThreadStates
<1>2. CASE WorkerExit(w)
  BY <1>2, MoveStep DEF WorkerExit, ThreadStates
<1> QED
  BY <1>1, <1>2, TakeStep, DoneStep DEF WorkerStep

\* The timer thread runs its own tasks.
LEMMA TimerKeeps ==
  ASSUME CoreInv, TimerStep
  PROVE  CoreInv'
<1> Timer \in Threads /\ Timer \notin Workers
  BY ExecutorAssumption DEF Threads
<1>1. CASE TimerWait
  BY <1>1, MoveStep DEF TimerWait, ThreadStates
<1>2. CASE TimerExit
  BY <1>2, MoveStep DEF TimerExit, ThreadStates
<1>3. CASE TimerDone \/ \E d \in Delays : TimerTake(d)
  <2>1. /\ \E x \in {"run", "loop"} : thread' = [thread EXCEPT ![Timer] = x]
        /\ thread[Timer] # "unborn"
        /\ delayed' \subseteq delayed /\ later' \in [Delays -> LaterStates]
        /\ UNCHANGED <<queue, lifecycle, task, op, clientVars>>
    BY <1>3 DEF TimerDone, TimerTake, CoreInv, DataType, LaterStates, queues
  <2>2. DataType'
    BY <2>1 DEF CoreInv, DataType, ThreadStates, clientVars
  <2>3. \A w \in Workers : thread'[w] = thread[w]
    BY <2>1 DEF CoreInv, DataType, Threads
  <2>4. RunOnce' /\ TaskInv'
    BY <2>1, <2>3, RunsUntouched DEF CoreInv
  <2>5. StopInv' /\ StartInv' /\ ExitInv' /\ IdleInv'
    BY <2>1, <2>3 DEF CoreInv, StopInv, StartInv, ExitInv, IdleInv, Idle, lifecycle, clientVars
  <2> QED
    BY <2>2, <2>4, <2>5 DEF CoreInv
<1> QED
  BY <1>1, <1>2, <1>3 DEF TimerStep

\* The client closes or gives the executor up.
LEMMA ReleaseKeeps ==
  ASSUME CoreInv, CloseClient \/ Release
  PROVE  CoreInv'
<1>1. /\ closer \in {"idle", "closed"} /\ closer' \in {"closed", "released"}
      /\ UNCHANGED <<queues, lifecycle, thread, task, op, later>>
  BY DEF CloseClient, Release
<1>2. DataType'
  BY <1>1 DEF CoreInv, DataType, CloserStates, queues
<1>3. RunOnce' /\ TaskInv'
  BY <1>1, RunsUntouched DEF CoreInv, queues
<1>4. StopInv' /\ StartInv' /\ ExitInv' /\ IdleInv'
  BY <1>1 DEF CoreInv, StopInv, StartInv, ExitInv, IdleInv, Idle, queues, lifecycle
<1> QED
  BY <1>2, <1>3, <1>4 DEF CoreInv

\* shutdown takes over the threads there are, waits for them and lets go.
LEMMA ShutdownKeeps ==
  ASSUME FlagType, CoreInv, Shutdown
  PROVE  CoreInv'
<1>1. /\ thread' = NotifyAll(thread) /\ stopping' /\ ~ stopping /\ closer' = "join"
      /\ joining' = owned /\ owned = started
      /\ UNCHANGED <<queue, started, task, op>>
  BY DEF Shutdown, CoreInv, StopInv, StartInv
<1>2. /\ thread' \in [Threads -> ThreadStates]
      /\ \A t \in Threads : thread'[t] = "run" <=> thread[t] = "run"
      /\ \A t \in Threads : thread'[t] = "exited" <=> thread[t] = "exited"
      /\ \A t \in Threads : thread'[t] = "unborn" <=> thread[t] = "unborn"
  <2>1. thread \in [Threads -> ThreadStates] /\ {} \in SUBSET Threads
    BY DEF CoreInv, DataType
  <2>2. thread' \in NotifyOne(thread, {}) \cup {NotifyAll(thread)}
    BY <1>1
  <2> QED
    BY <2>1, <2>2, NotifiedType
<1>3. DataType'
  BY <1>2 DEF Shutdown, CoreInv, DataType, LaterStates, CloserStates
<1>4. RunOnce' /\ TaskInv'
  BY <1>1, <1>2, RunsUntouched DEF CoreInv, Threads
<1>5. StopInv' /\ ExitInv' /\ StartInv'
  BY <1>1, <1>2 DEF CoreInv, StopInv, ExitInv, StartInv, Threads
<1>6. IdleInv'
  <2>1. ASSUME ~ started PROVE Idle'
    BY <1>1, <1>2, <2>1 DEF CoreInv, StartInv, Idle, Threads
  <2>2. ~ joining' => ~ started
    BY <1>1
  <2> QED
    BY <1>1, <2>1, <2>2 DEF IdleInv
<1> QED
  BY <1>3, <1>4, <1>5, <1>6 DEF CoreInv

\* Once the threads shutdown took over have ended, the client lets the executor go.
LEMMA JoinedKeeps ==
  ASSUME FlagType, CoreInv, Joined \/ Destroy
  PROVE  CoreInv'
<1>1. /\ closer' \in {"done", "destroyed"} /\ closer \in {"join", "done"}
      /\ UNCHANGED <<queues, started, stopping, owned, thread, task, op, later>>
  BY DEF Joined, Destroy, lifecycle
<1>2. DataType'
  BY <1>1 DEF CoreInv, DataType, CloserStates, queues
<1>3. RunOnce' /\ TaskInv'
  BY <1>1, RunsUntouched DEF CoreInv, queues
<1>4. StopInv' /\ StartInv' /\ ExitInv'
  BY <1>1 DEF CoreInv, StopInv, StartInv, ExitInv, queues
<1>5. Idle
  <2>1. CASE Joined /\ joining
    BY <2>1, ExecutorAssumption DEF Joined, CoreInv, ExitInv, Idle, Threads
  <2>2. CASE Joined /\ ~ joining
    BY <2>2 DEF Joined, CoreInv, IdleInv
  <2>3. CASE Destroy
    BY <2>3 DEF Destroy, CoreInv, IdleInv
  <2> QED
    BY <2>1, <2>2, <2>3
<1>6. IdleInv'
  BY <1>1, <1>5 DEF IdleInv, Idle, queues
<1> QED
  BY <1>2, <1>3, <1>4, <1>6 DEF CoreInv

-----------------------------------------------------------------------------
\* The invariant is inductive.
LEMMA ExecutorStep == ExecutorInv /\ [Next]_vars => ExecutorInv'
<1> SUFFICES ASSUME ExecutorInv, [Next]_vars PROVE ExecutorInv'
  OBVIOUS
<1>1. FlagType /\ CoreInv
  BY CoreSplit
<1>2. FlagType'
  BY <1>1, FlagStep
<1>3. CoreInv'
  <2>1. CASE UNCHANGED vars
    BY <1>1, <2>1 DEF CoreInv, DataType, RunOnce, TaskInv, StopInv, StartInv, ExitInv, IdleInv,
       Idle, vars, queues, lifecycle, clientVars
  <2>2. CASE Finished
    BY <1>1, <2>1, <2>2 DEF Finished
  <2> QED
    BY <1>1, <2>1, <2>2, EnterStep, PostStep, PostAfterStep, WorkerKeeps, TimerKeeps,
       ReleaseKeeps, ShutdownKeeps, JoinedKeeps
    DEF Next, OpStep, CloserStep
<1>4. (FlagType /\ CoreInv)' <=> ExecutorInv'
  BY TypeSplit DEF ExecutorInv, CoreInv, TaskInv, TypeOK, FlagType, DataType
<1> QED
  BY <1>2, <1>3, <1>4

\* The invariant holds in every reachable state.
LEMMA ExecutorInvariant == Spec => []ExecutorInv
  BY ExecutorInit, ExecutorStep, PTL DEF Spec

\* Every accepted operation is in the queue once or is the task of exactly one
\* worker (tryPost, workerLoop).
THEOREM ExecutorRunOnce == Spec => []RunOnce
<1>1. ExecutorInv => RunOnce
  BY DEF ExecutorInv
<1> QED
  BY <1>1, ExecutorInvariant, PTL

\* Once shutdown has returned nothing that was accepted is queued or running, and
\* nothing is accepted any more, although threads may be started afterwards.
THEOREM ExecutorDrained == Spec => []Drained
<1>1. ExecutorInv => Drained
  <2> SUFFICES ASSUME ExecutorInv, closer \in {"done", "destroyed"}
               PROVE  queue = <<>> /\ \A o \in Ops : op[o] \notin {"queued", "active"}
    BY DEF Drained
  <2>1. Idle
    BY DEF ExecutorInv, IdleInv
  <2>2. DOMAIN queue = {}
    BY <2>1, EmptySeq DEF Idle
  <2> QED
    BY <2>1, <2>2 DEF Idle, ExecutorInv, RunOnce
<1> QED
  BY <1>1, ExecutorInvariant, PTL
=============================================================================
