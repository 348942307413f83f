-------------------------- MODULE GroupWriteProofs --------------------------
(***************************************************************************)
(* With one attempt per data source, a write is never executed on two       *)
(* candidates and every status dispatchWrite returns tells the truth about  *)
(* whether a database was reached: for any number of writes and candidates, *)
(* any buffer, and links and circuits that change at any time.  A shadow    *)
(* write, with any number of attempts, reaches the shadow only.             *)
(***************************************************************************)
EXTENDS GroupWrite, FiniteSetTheorems, TLAPS

\* The functions dispatchWrite works on keep their domains.
DispatchTypeOK ==
  /\ writer \in [Writes -> {"idle", "leaf", "buffer", "done"}]
  /\ attempt \in [Writes -> 0..1]
  /\ status \in [Writes -> Statuses]
  /\ DOMAIN sent = Writes

\* What an attempt leaves behind: at most one candidate can have executed the
\* write, and only with a status that says so.
Settled(s, nodes) ==
  \/ nodes = {} /\ s # "ok"
  \/ s \in {"ok", "interrupted"} /\ Cardinality(nodes) = 1

\* Until the caller is done no candidate has executed the write.
WriteInv(w) ==
  /\ writer[w] # "done" => sent[w] = {}
  /\ writer[w] = "leaf" => attempt[w] = 1
  /\ writer[w] = "done" => Settled(status[w], sent[w])
  /\ writer[w] = "buffer" => status[w] # "ok"
  /\ status[w] = "buffered" => writer[w] = "done"

\* The inductive invariant of dispatchWrite.
DispatchInv == DispatchTypeOK /\ \A w \in Writes : WriteInv(w)

\* One attempt on a write that nobody executed leaves it settled, and unless the
\* status allows to go on no candidate executed it (AttemptStatuses, SentAfter).
LEMMA AttemptSettles ==
  ASSUME NEW n, NEW s \in AttemptStatuses(n), NEW nodes \in SentAfter(n, s, {})
  PROVE  /\ s \in Statuses \ {"none", "buffered"}
         /\ Settled(s, nodes)
         /\ SafeToFailoverWrite(s) => nodes = {} /\ s # "ok"
<1>1. s \in Statuses \ {"none", "buffered"}
  BY DEF AttemptStatuses, Statuses
<1>2. CASE s = "ok"
  <2>1. nodes = {n} BY <1>2 DEF SentAfter
  <2>2. Cardinality(nodes) = 1 BY <2>1, FS_Singleton
  <2> QED BY <1>1, <1>2, <2>2 DEF Settled, SafeToFailoverWrite
<1>3. CASE s = "interrupted"
  <2>1. nodes = {} \/ nodes = {n} BY <1>3 DEF SentAfter
  <2>2. nodes = {} \/ Cardinality(nodes) = 1 BY <2>1, FS_Singleton
  <2> QED BY <1>1, <1>3, <2>2 DEF Settled, SafeToFailoverWrite
<1>4. CASE s \notin {"ok", "interrupted"}
  <2>1. nodes = {} BY <1>4 DEF SentAfter
  <2> QED BY <1>1, <1>4, <2>1 DEF Settled
<1> QED BY <1>2, <1>3, <1>4

\* A step that touches none of the callers' state keeps the invariant (the
\* worker, stop, the links and the circuits).
LEMMA CallersUntouched ==
  ASSUME DispatchInv, UNCHANGED <<writer, attempt, status, sent>>
  PROVE  DispatchInv'
BY DEF DispatchInv, DispatchTypeOK, WriteInv, Settled

\* A step of the caller of w touches no other write.
LEMMA OneCaller ==
  ASSUME DispatchInv, DispatchTypeOK', NEW w \in Writes, WriteInv(w)',
         \A v \in Writes \ {w} :
            /\ writer'[v] = writer[v] /\ attempt'[v] = attempt[v]
            /\ status'[v] = status[v] /\ sent'[v] = sent[v]
  PROVE  DispatchInv'
BY DEF DispatchInv, WriteInv, Settled

\* dispatchWrite's first step, one attempt and the hand-over to the buffer keep
\* the invariant when a data source makes one attempt only.
LEMMA DispatchStep ==
  ASSUME DispatchInv, MaxAttempts = 1, NEW w \in Writes,
         Dispatch(w) \/ Attempt(w) \/ Buffer(w)
  PROVE  DispatchInv'
<1>1. CASE Dispatch(w)
  <2>1. DispatchTypeOK'
    BY <1>1 DEF Dispatch, DispatchInv, DispatchTypeOK, Statuses
  <2>2. WriteInv(w)'
    BY <1>1 DEF Dispatch, DispatchInv, DispatchTypeOK, WriteInv
  <2> QED BY <1>1, <2>1, <2>2, OneCaller DEF Dispatch, DispatchInv, DispatchTypeOK
<1>2. CASE Attempt(w)
  <2> DEFINE n == Head(targets[w])
  <2>1. sent[w] = {} /\ attempt[w] = 1
    BY <1>2 DEF Attempt, DispatchInv, WriteInv
  <2> DEFINE Effect(s, nodes) ==
          /\ status' = [status EXCEPT ![w] = s]
          /\ sent' = [sent EXCEPT ![w] = nodes]
          /\ attempt' = [attempt EXCEPT ![w] = 1]
          /\ \/ writer' = [writer EXCEPT ![w] = "done"]
             \/ /\ SafeToFailoverWrite(s)
                /\ \E l \in {"buffer", "leaf"} : writer' = [writer EXCEPT ![w] = l]
  <2>s. PICK s \in AttemptStatuses(n) :
          /\ status' = [status EXCEPT ![w] = s]
          /\ \E nodes \in SentAfter(n, s, sent[w]) : sent' = [sent EXCEPT ![w] = nodes]
          /\ \/ s \in Retryable /\ attempt[w] < MaxAttempts
             \/ /\ IF GoesOn(w, s)
                   THEN writer' = [writer EXCEPT ![w] =
                                     IF Tail(targets[w]) = <<>> THEN "buffer"
                                                                ELSE "leaf"]
                   ELSE writer' = [writer EXCEPT ![w] = "done"]
                /\ attempt' = [attempt EXCEPT ![w] = 1]
    BY <1>2, Zenon DEF Attempt
  <2>2. PICK nodes \in SentAfter(n, s, {}) : Effect(s, nodes)
    <3>1. PICK nodes \in SentAfter(n, s, {}) : sent' = [sent EXCEPT ![w] = nodes]
      BY <2>s, <2>1
    <3>2. ~(attempt[w] < MaxAttempts)
      BY <2>1
    <3>3. GoesOn(w, s) => SafeToFailoverWrite(s)
      BY DEF GoesOn
    <3> QED BY <2>s, <3>1, <3>2, <3>3
  <2>3. /\ s \in Statuses \ {"none", "buffered"}
        /\ Settled(s, nodes)
        /\ SafeToFailoverWrite(s) => nodes = {} /\ s # "ok"
    BY <2>2, AttemptSettles
  <2>4. DispatchTypeOK'
    BY <2>2, <2>3 DEF DispatchInv, DispatchTypeOK
  <2>5. /\ status'[w] = s /\ sent'[w] = nodes /\ attempt'[w] = 1
        /\ \/ writer'[w] = "done"
           \/ SafeToFailoverWrite(s) /\ writer'[w] \in {"buffer", "leaf"}
    <3>1. /\ w \in DOMAIN status /\ w \in DOMAIN sent
          /\ w \in DOMAIN attempt /\ w \in DOMAIN writer
      BY DEF DispatchInv, DispatchTypeOK
    <3>2. status'[w] = s /\ sent'[w] = nodes /\ attempt'[w] = 1
      BY <2>2, <3>1
    <3>3. CASE writer' = [writer EXCEPT ![w] = "done"]
      <4>1. writer'[w] = "done" BY <3>3, <3>1
      <4> QED BY <4>1, <3>2, Zenon
    <3>4. CASE /\ SafeToFailoverWrite(s)
               /\ \E l \in {"buffer", "leaf"} : writer' = [writer EXCEPT ![w] = l]
      <4>1. PICK l \in {"buffer", "leaf"} : writer' = [writer EXCEPT ![w] = l]
        BY <3>4
      <4>2. writer'[w] = l BY <4>1, <3>1
      <4> QED BY <4>2, <3>2, <3>4, Zenon
    <3> QED BY <2>2, <3>3, <3>4
  <2>6. WriteInv(w)'
    BY <2>3, <2>5 DEF WriteInv
  <2> QED BY <2>2, <2>4, <2>6, OneCaller DEF DispatchInv, DispatchTypeOK
<1>3. CASE Buffer(w)
  <2>1. sent[w] = {} /\ status[w] # "ok"
    BY <1>3 DEF Buffer, DispatchInv, WriteInv
  <2>2. DispatchTypeOK'
    BY <1>3 DEF Buffer, DispatchInv, DispatchTypeOK, Statuses
  <2>3. /\ writer'[w] = "done" /\ sent'[w] = {}
        /\ status'[w] \in {"buffered", status[w]}
    BY <1>3, <2>1 DEF Buffer, DispatchInv, DispatchTypeOK
  <2>4. WriteInv(w)'
    BY <2>1, <2>3 DEF WriteInv, Settled
  <2> QED BY <1>3, <2>2, <2>4, OneCaller DEF Buffer, DispatchInv, DispatchTypeOK
<1> QED BY <1>1, <1>2, <1>3

\* Every step of the group keeps the invariant.
LEMMA DispatchInvStep ==
  ASSUME DispatchInv, MaxAttempts = 1, [Next]_vars
  PROVE  DispatchInv'
<1>1. ASSUME NEW w \in Writes, Dispatch(w) \/ Attempt(w) \/ Buffer(w)
      PROVE  DispatchInv'
  BY <1>1, DispatchStep
<1>2. CASE Replay BY <1>2, CallersUntouched DEF Replay
<1>3. CASE BufferStep /\ UNCHANGED groupVars
  BY <1>3, CallersUntouched DEF groupVars
<1>4. ASSUME NEW n \in Nodes, LinkChange(n) PROVE DispatchInv'
  BY <1>4, CallersUntouched DEF LinkChange
<1>5. ASSUME NEW n \in Nodes, CircuitChange(n) PROVE DispatchInv'
  BY <1>5, CallersUntouched DEF CircuitChange
<1>6. ASSUME NEW n \in Nodes, PoolGone(n) PROVE DispatchInv'
  BY <1>6, CallersUntouched DEF PoolGone
<1>7. CASE UNCHANGED vars
  BY <1>7, CallersUntouched DEF vars, groupVars
<1> QED BY <1>1, <1>2, <1>3, <1>4, <1>5, <1>6, <1>7 DEF Next

\* Initially no caller has begun.
LEMMA DispatchInvInit == Init => DispatchInv
BY DEF Init, DispatchInv, DispatchTypeOK, WriteInv, Statuses

\* The invariant contains the two properties.
LEMMA DispatchInvImplies == DispatchInv => NoBlindReplay /\ StatusTruthful
<1> SUFFICES ASSUME DispatchInv, NEW w \in Writes
             PROVE  /\ Cardinality(sent[w]) <= 1
                    /\ writer[w] = "buffer" \/ status[w] = "buffered" => sent[w] = {}
                    /\ writer[w] = "done" =>
                         /\ status[w] \in {"circuit_open", "unborrowed", "buffered"}
                              => sent[w] = {}
                         /\ status[w] = "ok" => sent[w] # {}
  BY DEF NoBlindReplay, StatusTruthful
<1>1. Cardinality({}) = 0 BY FS_EmptySet
<1>2. WriteInv(w) /\ writer[w] \in {"idle", "leaf", "buffer", "done"}
  BY DEF DispatchInv, DispatchTypeOK
<1>3. CASE writer[w] # "done"
  BY <1>1, <1>2, <1>3 DEF WriteInv
<1>4. CASE writer[w] = "done"
  BY <1>1, <1>2, <1>4 DEF WriteInv, Settled
<1> QED BY <1>3, <1>4

\* If a data source makes one attempt per write (the default, and every write
\* declared NonIdempotent), dispatchWrite never sends a write that a candidate
\* may have executed to another one or to the buffer.
THEOREM GroupNoBlindReplay ==
  ASSUME MaxAttempts = 1
  PROVE  Spec => []NoBlindReplay
<1>1. DispatchInv /\ [Next]_vars => DispatchInv'
  BY DispatchInvStep
<1> QED BY <1>1, DispatchInvInit, DispatchInvImplies, PTL DEF Spec

\* Under the same condition CircuitOpen, a pool error or Buffered means that no
\* candidate executed the write, and success that one did.
THEOREM GroupStatusTruthful ==
  ASSUME MaxAttempts = 1
  PROVE  Spec => []StatusTruthful
<1>1. DispatchInv /\ [Next]_vars => DispatchInv'
  BY DispatchInvStep
<1> QED BY <1>1, DispatchInvInit, DispatchInvImplies, PTL DEF Spec

-----------------------------------------------------------------------------
(* Shadow writes, for any number of attempts                                *)

\* No shadow write is in a queue.
Clean(s) == s \in Seq(Writes) /\ \A i \in 1..Len(s) : s[i] \notin ShadowWrites

\* A shadow write has the shadow for its only target and is not on its way to
\* the buffer.
ShadowWriteInv(w) ==
  /\ writer[w] # "buffer"
  /\ writer[w] = "leaf" => targets[w] = <<Shadow>>
  /\ sent[w] \subseteq {Shadow}
  /\ fate[w] = "new"

\* The inductive invariant: the property, the targets and the queues.
ShadowInv ==
  /\ Clean(q) /\ Clean(batch) /\ Clean(retry)
  /\ worker = "task" => batch # <<>>
  /\ DOMAIN writer = Writes /\ DOMAIN targets = Writes
  /\ DOMAIN sent = Writes /\ DOMAIN fate = Writes
  /\ \A w \in ShadowWrites : ShadowWriteInv(w)

\* What enqueue and the worker do to a queue keeps it clean.
LEMMA CleanQueues ==
  ASSUME NEW s, NEW t, Clean(s), Clean(t)
  PROVE  /\ Clean(<<>>)
         /\ Clean(s \o t)
         /\ s # <<>> => Clean(Tail(s)) /\ Head(s) \in Writes \ ShadowWrites
         /\ \A w \in Writes \ ShadowWrites : Clean(Append(s, w))
         /\ \A k \in 0..Len(s) : Clean(SubSeq(s, 1, k))
         /\ \A w \in ShadowWrites : w \notin ToSet(s)
<1>1. Clean(<<>>)
  BY DEF Clean
<1>2. Clean(s \o t)
  <2>1. s \o t \in Seq(Writes) BY DEF Clean
  <2>2. ASSUME NEW i \in 1..Len(s \o t) PROVE (s \o t)[i] \notin ShadowWrites
    BY DEF Clean
  <2> QED BY <2>1, <2>2 DEF Clean
<1>3. s # <<>> => Clean(Tail(s)) /\ Head(s) \in Writes \ ShadowWrites
  BY DEF Clean
<1>4. \A w \in Writes \ ShadowWrites : Clean(Append(s, w))
  BY DEF Clean
<1>5. \A k \in 0..Len(s) : Clean(SubSeq(s, 1, k))
  BY DEF Clean
<1>6. \A w \in ShadowWrites : w \notin ToSet(s)
  BY DEF Clean, ToSet
<1> QED BY <1>1, <1>2, <1>3, <1>4, <1>5, <1>6

\* A step that leaves the callers alone, keeps the queues clean and settles no
\* shadow write keeps the invariant.
LEMMA QueuesOnly ==
  ASSUME ShadowInv, Clean(q'), Clean(batch'), Clean(retry'),
         worker' = "task" => batch' # <<>>,
         UNCHANGED <<writer, targets, sent>>,
         DOMAIN fate' = Writes, \A w \in ShadowWrites : fate'[w] = fate[w]
  PROVE  ShadowInv'
BY DEF ShadowInv, ShadowWriteInv

\* The buffer's own steps.
LEMMA ShadowBufferStep ==
  ASSUME ShadowInv, BufferStep, UNCHANGED groupVars
  PROVE  ShadowInv'
<1> USE GroupAssumption
<1>1. CASE Start \/ StopBegin \/ StopEnd \/ \E w \in Writes : Age(w)
  <2>1. UNCHANGED <<queues, history, writer, targets, sent>>
    BY <1>1 DEF Start, StopBegin, StopEnd, Age, groupVars
  <2>2. worker' = "task" => worker = "task"
    BY <1>1 DEF Start, StopBegin, StopEnd, Age, control
  <2> QED BY <2>1, <2>2, QueuesOnly DEF queues, history, ShadowInv
<1>2. CASE Take
  BY <1>2, QueuesOnly, CleanQueues DEF Take, ShadowInv, groupVars, history
<1>3. CASE NextItem
  BY <1>3, QueuesOnly, CleanQueues DEF NextItem, ShadowInv, groupVars
<1>4. CASE EndPass
  <2>1. Clean(Merged) BY CleanQueues DEF ShadowInv, Merged
  <2>2. Smaller(MaxQueue, Len(Merged)) \in 0..Len(Merged)
    BY <2>1, BufferAssumption DEF Smaller, Clean
  <2>3. Clean(Kept) BY <2>1, <2>2, CleanQueues DEF Kept
  <2>4. \A w \in ShadowWrites : w \notin ToSet(Merged)
    BY <2>1, CleanQueues
  <2>5. Clean(q') /\ Clean(batch') /\ Clean(retry')
    BY <1>4, <2>3, CleanQueues DEF EndPass, ShadowInv
  <2>6. DOMAIN fate' = Writes /\ \A w \in ShadowWrites : fate'[w] = fate[w]
    BY <1>4, <2>4 DEF EndPass, ShadowInv
  <2> QED BY <1>4, <2>5, <2>6, QueuesOnly DEF EndPass, groupVars
<1>5. CASE Finish
  <2>1. \A w \in ShadowWrites : w \notin ToSet(q)
    BY CleanQueues DEF ShadowInv
  <2>2. DOMAIN fate' = Writes /\ \A w \in ShadowWrites : fate'[w] = fate[w]
    BY <1>5, <2>1 DEF Finish
  <2> QED BY <1>5, <2>2, QueuesOnly, CleanQueues DEF Finish, ShadowInv, groupVars
<1> QED BY <1>1, <1>2, <1>3, <1>4, <1>5 DEF BufferStep, WorkerStep

\* A replay works on a write of the batch, which is no shadow write.
LEMMA ShadowReplay ==
  ASSUME ShadowInv, Replay
  PROVE  ShadowInv'
<1>1. CASE UNCHANGED bufferVars
  BY <1>1, QueuesOnly DEF Replay, bufferVars, queues, control, history, ShadowInv
<1>2. ASSUME NEW o, TaskReturns(o) PROVE ShadowInv'
  <2>1. worker = "task" /\ batch # <<>> BY <1>2 DEF TaskReturns, ShadowInv
  <2>2. Head(batch) \in Writes \ ShadowWrites /\ Clean(Tail(batch))
    BY <2>1, CleanQueues DEF ShadowInv
  <2>3. Clean(q') /\ Clean(batch') /\ Clean(retry')
    BY <1>2, <2>2, CleanQueues DEF TaskReturns, ShadowInv
  <2>4. DOMAIN fate' = Writes /\ \A w \in ShadowWrites : fate'[w] = fate[w]
    BY <1>2, <2>2, GroupAssumption DEF TaskReturns, ShadowInv
  <2> QED BY <1>2, <2>3, <2>4, QueuesOnly DEF TaskReturns, Replay
<1> QED BY <1>1, <1>2 DEF Replay

\* The steps of a caller: a shadow write ends with its attempt on the shadow.
LEMMA ShadowCaller ==
  ASSUME ShadowInv, NEW w \in Writes, Dispatch(w) \/ Attempt(w) \/ Buffer(w)
  PROVE  ShadowInv'
<1>1. CASE Dispatch(w)
  <2>1. ASSUME NEW v \in ShadowWrites PROVE ShadowWriteInv(v)'
    BY <1>1, <2>1, GroupAssumption DEF Dispatch, ShadowInv, ShadowWriteInv, WriteTargets,
       bufferVars, history
  <2> QED BY <1>1, <2>1 DEF Dispatch, ShadowInv, bufferVars, queues, control, history
<1>2. CASE Attempt(w)
  <2>1. ASSUME NEW v \in ShadowWrites PROVE ShadowWriteInv(v)'
    <3>1. CASE v # w
      BY <1>2, <2>1, <3>1, GroupAssumption DEF Attempt, ShadowInv, ShadowWriteInv,
         bufferVars, history
    <3>2. CASE v = w
      <4>1. targets[w] = <<Shadow>> /\ Head(targets[w]) = Shadow
        BY <1>2, <2>1, <3>2 DEF Attempt, ShadowInv, ShadowWriteInv
      <4>2. PICK s \in AttemptStatuses(Shadow) :
              /\ \E nodes \in SentAfter(Shadow, s, sent[w]) :
                    sent' = [sent EXCEPT ![w] = nodes]
              /\ \/ UNCHANGED <<writer, targets>>
                 \/ /\ IF GoesOn(w, s) THEN TRUE
                       ELSE /\ writer' = [writer EXCEPT ![w] = "done"]
                            /\ UNCHANGED targets
        BY <1>2, <4>1 DEF Attempt
      <4>3. ~GoesOn(w, s) BY <2>1, <3>2 DEF GoesOn
      <4>4. sent'[w] \subseteq {Shadow}
        BY <2>1, <3>2, <4>2 DEF SentAfter, ShadowInv, ShadowWriteInv
      <4>5. /\ writer'[w] # "buffer"
            /\ writer'[w] = "leaf" => targets'[w] = <<Shadow>>
        BY <1>2, <2>1, <3>2, <4>1, <4>2, <4>3 DEF ShadowInv, ShadowWriteInv
      <4>6. fate' = fate BY <1>2 DEF Attempt, bufferVars, history
      <4> QED BY <2>1, <3>2, <4>4, <4>5, <4>6 DEF ShadowInv, ShadowWriteInv
    <3> QED BY <3>1, <3>2
  <2>2. DOMAIN writer' = Writes /\ DOMAIN targets' = Writes /\ DOMAIN sent' = Writes
    BY <1>2 DEF Attempt, ShadowInv
  <2> QED BY <1>2, <2>1, <2>2 DEF Attempt, ShadowInv, bufferVars, queues, control,
          history
<1>3. CASE Buffer(w)
  <2>1. w \notin ShadowWrites
    BY <1>3 DEF Buffer, ShadowInv, ShadowWriteInv
  <2>2. Clean(q') /\ Clean(batch') /\ Clean(retry')
    <3>1. Clean(Append(q, w)) /\ Clean(q) /\ Clean(batch) /\ Clean(retry)
      BY <2>1, CleanQueues DEF ShadowInv
    <3>2. (q' = q \/ q' = Append(q, w)) /\ batch' = batch /\ retry' = retry
      BY <1>3 DEF Buffer, Enqueue
    <3> QED BY <3>1, <3>2
  <2>3. ASSUME NEW v \in ShadowWrites PROVE ShadowWriteInv(v)'
    BY <1>3, <2>1, <2>3, GroupAssumption DEF Buffer, Enqueue, ShadowInv, ShadowWriteInv
  <2> QED BY <1>3, <2>2, <2>3 DEF Buffer, Enqueue, ShadowInv, control
<1> QED BY <1>1, <1>2, <1>3

\* Every step keeps the invariant.
LEMMA ShadowInvStep == ShadowInv /\ [Next]_vars => ShadowInv'
<1> SUFFICES ASSUME ShadowInv, [Next]_vars PROVE ShadowInv'
  OBVIOUS
<1>1. ASSUME NEW w \in Writes, Dispatch(w) \/ Attempt(w) \/ Buffer(w) PROVE ShadowInv'
  BY <1>1, ShadowCaller
<1>2. CASE Replay BY <1>2, ShadowReplay
<1>3. CASE BufferStep /\ UNCHANGED groupVars BY <1>3, ShadowBufferStep
<1>4. CASE UNCHANGED <<bufferVars, writer, targets, sent>>
  BY <1>4, QueuesOnly DEF bufferVars, queues, control, history, ShadowInv
<1>5. ASSUME NEW n \in Nodes, LinkChange(n) \/ PoolGone(n) \/ CircuitChange(n)
      PROVE  ShadowInv'
  BY <1>4, <1>5 DEF LinkChange, PoolGone, CircuitChange
<1>6. CASE UNCHANGED vars
  BY <1>4, <1>6 DEF vars, groupVars
<1> QED BY <1>1, <1>2, <1>3, <1>5, <1>6 DEF Next

\* docs/guide_en.md:812-814, for any number of writes, attempts and candidates:
\* if the shadow is no candidate of the group, a write in shadow mode is executed
\* on no candidate and never enters the buffer (the short-circuit of
\* dispatchWrite).
THEOREM GroupShadowIsolated ==
  ASSUME Shadow \notin ToSet(Candidates)
  PROVE  Spec => []ShadowIsolated
<1>1. Init => ShadowInv
  BY GroupAssumption DEF Init, BufferInit, ShadowInv, ShadowWriteInv, Clean
<1>2. ShadowInv => ShadowIsolated
  BY DEF ShadowInv, ShadowWriteInv, ShadowIsolated
<1> QED BY <1>1, <1>2, ShadowInvStep, PTL DEF Spec
=============================================================================
