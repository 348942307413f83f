---------------------------- MODULE WriteBuffer ----------------------------
(***************************************************************************)
(* The write buffer of a group: sqlconduit::core::WriteBuffer               *)
(* (src/core/write_buffer.cpp).  Writers put accepted writes into a bounded *)
(* queue; the worker thread swaps the queue out, replays it write by write  *)
(* without the mutex, and puts back what may be tried again; stop makes the *)
(* worker do a final pass and joins it.                                     *)
(*                                                                          *)
(* A write is its name.  What its task does is left to the module that      *)
(* composes the buffer with the data sources: GroupWrite.                   *)
(***************************************************************************)
EXTENDS Integers, FiniteSets, SequencesExt

CONSTANTS
  Writes,      \* the writes the group's callers may buffer, each once
  MaxQueue,    \* max_queue, clamped to at least 1 by the constructor
  TtlEnabled   \* ttl_ms > 0

ASSUME BufferAssumption ==
  /\ MaxQueue \in Nat \ {0}
  /\ TtlEnabled \in BOOLEAN

VARIABLES
  q,           \* q_
  batch,       \* run: what this pass still has to replay
  retry,       \* run: what this pass will put back
  running,     \* running_
  stop,        \* stop_
  finalPass,   \* run: this pass is the last
  worker,      \* where the worker thread stands
  stopper,     \* where the thread inside stop() stands
  old,         \* writes that have been buffered for longer than ttl_ms
  accepted,    \* history: the writes enqueue accepted, in order
  fate         \* history: what became of each write

queues == <<q, batch, retry>>
control == <<running, stop, finalPass, worker, stopper>>
history == <<accepted, fate>>
bufferVars == <<queues, control, old, history>>

\* top: about to wait; replay: between two writes of the batch; task: running
\* the task of one; finish: past the final pass.
WorkerStates == {"none", "top", "replay", "task", "finish", "exited"}
StopperStates == {"idle", "join"}

\* queued: accepted and not settled; applied: replayed with success; failed:
\* dropped because the replay failed; expired; overflow: dropped when the pass
\* put back more than the queue holds; abandoned: dropped by the final pass.
Dropped == {"failed", "expired", "overflow", "abandoned"}
Fates == {"new", "queued", "refused", "applied"} \cup Dropped

Smaller(a, b) == IF a < b THEN a ELSE b

BufferInit ==
  /\ q = <<>>
  /\ batch = <<>>
  /\ retry = <<>>
  /\ running = FALSE
  /\ stop = FALSE
  /\ finalPass = FALSE
  /\ worker = "none"
  /\ stopper = "idle"
  /\ old = {}
  /\ accepted = <<>>
  /\ fate = [w \in Writes |-> "new"]

-----------------------------------------------------------------------------
(* enqueue, start, stop                                                     *)

\* Mutant: a buffer that is stopping still accepts.
AcceptsWhileStopping == running /\ Len(q) < MaxQueue

\* The conditions under which enqueue returns true.
Accepts == running /\ ~stop /\ Len(q) < MaxQueue

Enqueue(w) ==
  /\ fate[w] = "new"
  /\ IF Accepts
     THEN /\ q' = Append(q, w)
          /\ accepted' = Append(accepted, w)
          /\ fate' = [fate EXCEPT ![w] = "queued"]
     ELSE /\ fate' = [fate EXCEPT ![w] = "refused"]
          /\ UNCHANGED <<q, accepted>>
  /\ UNCHANGED <<batch, retry, control, old>>

Start ==
  /\ ~running
  /\ stopper = "idle"
  /\ running' = TRUE
  /\ stop' = FALSE
  /\ worker' = "top"
  /\ UNCHANGED <<queues, finalPass, stopper, old, history>>

StopBegin ==
  /\ running
  /\ stopper = "idle"
  /\ stop' = TRUE
  /\ stopper' = "join"
  /\ UNCHANGED <<queues, running, finalPass, worker, old, history>>

\* The join returns and running_ is reset.
StopEnd ==
  /\ stopper = "join"
  /\ worker = "exited"
  /\ running' = FALSE
  /\ stopper' = "idle"
  /\ UNCHANGED <<queues, stop, finalPass, worker, old, history>>

\* ttl_ms passes for a buffered write.
Age(w) ==
  /\ TtlEnabled
  /\ fate[w] = "queued"
  /\ w \notin old
  /\ old' = old \cup {w}
  /\ UNCHANGED <<queues, control, history>>

-----------------------------------------------------------------------------
(* run                                                                      *)

\* wait_for returned, by its timeout or because of stop: swap the queue out.
Take ==
  /\ worker = "top"
  /\ batch' = q
  /\ q' = <<>>
  /\ retry' = <<>>
  /\ finalPass' = stop
  /\ worker' = "replay"
  /\ UNCHANGED <<running, stop, stopper, old, history>>

\* Mutant: the age of a write is not looked at.
NextItemAnyAge ==
  /\ worker = "replay"
  /\ batch # <<>>
  /\ worker' = "task"
  /\ UNCHANGED <<queues, running, stop, finalPass, stopper, old, history>>

\* The next write of the batch is too old, or its task is called.
NextItem ==
  /\ worker = "replay"
  /\ batch # <<>>
  /\ IF Head(batch) \in old
     THEN /\ batch' = Tail(batch)
          /\ fate' = [fate EXCEPT ![Head(batch)] = "expired"]
          /\ UNCHANGED worker
     ELSE worker' = "task" /\ UNCHANGED <<batch, fate>>
  /\ UNCHANGED <<q, retry, running, stop, finalPass, stopper, old, accepted>>

\* The task returned ok, again (its status is retryable or says that the
\* connection broke) or error.
TaskReturns(outcome) ==
  /\ worker = "task"
  /\ batch' = Tail(batch)
  /\ LET w == Head(batch) IN
       IF outcome = "again" /\ ~finalPass
       THEN retry' = Append(retry, w) /\ UNCHANGED fate
       ELSE /\ fate' = [fate EXCEPT ![w] = IF outcome = "ok" THEN "applied"
                                                            ELSE "failed"]
            /\ UNCHANGED retry
  /\ worker' = "replay"
  /\ UNCHANGED <<q, running, stop, finalPass, stopper, old, accepted>>

\* Mutant: the writes put back go behind the ones accepted meanwhile.
MergedBehind == q \o retry

\* The writes put back come before the ones accepted meanwhile.
Merged == retry \o q

\* What the queue holds after the pass; the newest writes are dropped.
Kept == SubSeq(Merged, 1, Smaller(MaxQueue, Len(Merged)))

\* The end of a pass.
EndPass ==
  /\ worker = "replay"
  /\ batch = <<>>
  /\ IF retry = <<>>
     THEN UNCHANGED <<q, fate>>
     ELSE /\ q' = Kept
          /\ fate' = [w \in Writes |->
                        IF w \in ToSet(Merged) \ ToSet(Kept) THEN "overflow"
                                                             ELSE fate[w]]
  /\ retry' = <<>>
  /\ worker' = IF finalPass THEN "finish" ELSE "top"
  /\ UNCHANGED <<batch, running, stop, finalPass, stopper, old, accepted>>

\* After the final pass what was accepted too late is abandoned.
Finish ==
  /\ worker = "finish"
  /\ q' = <<>>
  /\ fate' = [w \in Writes |-> IF w \in ToSet(q) THEN "abandoned" ELSE fate[w]]
  /\ worker' = "exited"
  /\ UNCHANGED <<batch, retry, running, stop, finalPass, stopper, old, accepted>>

-----------------------------------------------------------------------------
\* What the worker does besides running a task.
WorkerStep == Take \/ NextItem \/ EndPass \/ Finish

BufferStep ==
  \/ Start \/ StopBegin \/ StopEnd
  \/ \E w \in Writes : Age(w)
  \/ WorkerStep

-----------------------------------------------------------------------------
(* Properties                                                               *)

\* Each piece of state keeps to its values.
BufferTypeOK ==
  /\ q \in Seq(Writes) /\ batch \in Seq(Writes) /\ retry \in Seq(Writes)
  /\ running \in BOOLEAN /\ stop \in BOOLEAN /\ finalPass \in BOOLEAN
  /\ worker \in WorkerStates
  /\ stopper \in StopperStates
  /\ old \subseteq Writes
  /\ accepted \in Seq(Writes)
  /\ fate \in [Writes -> Fates]

\* What the buffer owes: what a pass will put back, has not reached yet, and
\* what was accepted since.
Pending == retry \o batch \o q

\* v was accepted before w.
Earlier(v, w) ==
  \E k, l \in DOMAIN accepted : k < l /\ accepted[k] = v /\ accepted[l] = w

\* The buffer owes exactly the accepted writes that are not settled, each once
\* and oldest first: a pass loses none, doubles none, and puts writes back
\* ahead of the ones accepted while it ran, within the bound of the queue.
PendingInOrder ==
  /\ ToSet(Pending) = {w \in Writes : fate[w] = "queued"}
  /\ \A i, j \in DOMAIN Pending :
       i < j => Pending[i] # Pending[j] /\ Earlier(Pending[i], Pending[j])
  /\ Len(q) <= MaxQueue

\* Once stop() has returned nothing accepted is left behind unsettled: enqueue
\* refuses from the moment the worker may take its last look.
NothingStranded ==
  ~running => \A w \in Writes : fate[w] # "queued"
============================================================================
