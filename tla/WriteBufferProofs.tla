------------------------- MODULE WriteBufferProofs -------------------------
(***************************************************************************)
(* Proofs about WriteBuffer, as GroupWrite composes it: the buffer owes     *)
(* exactly the accepted writes that are not settled, each once and oldest   *)
(* first, within its bound, and leaves none behind when it is stopped, for  *)
(* any number of writes and any bound of the queue.                         *)
(***************************************************************************)
EXTENDS GroupWrite, SequenceTheorems, TLAPS

\* The flags, and the rest of the buffer's type.
FlagType == running \in BOOLEAN /\ stop \in BOOLEAN /\ finalPass \in BOOLEAN
DataType ==
  /\ q \in Seq(Writes) /\ batch \in Seq(Writes) /\ retry \in Seq(Writes)
  /\ worker \in WorkerStates /\ stopper \in StopperStates
  /\ accepted \in Seq(Writes)
  /\ fate \in [Writes -> Fates]

\* The worker and the thread in stop: the worker is past its final pass only
\* after stop_ was set, from which moment nothing is accepted; outside a pass
\* nothing is in it; before its first and after its last pass nothing is queued.
ControlInv ==
  /\ ~ running => worker \in {"none", "exited"}
  /\ worker \in {"finish", "exited"} => stop
  /\ worker \in {"replay", "task"} /\ finalPass => stop
  /\ worker = "none" => ~ running
  /\ worker \notin {"replay", "task"} => batch = <<>> /\ retry = <<>>
  /\ worker \in {"none", "exited"} => q = <<>>
  /\ worker = "task" => batch # <<>>

In(w, s) == \E i \in DOMAIN s : s[i] = w

\* What is queued is in one of the three queues, and was accepted once.
ContentInv ==
  /\ \A w \in Writes : fate[w] = "queued" <=> In(w, retry) \/ In(w, batch) \/ In(w, q)
  /\ \A w \in Writes : fate[w] = "queued" => In(w, accepted)
  /\ \A k \in DOMAIN accepted : fate[accepted[k]] # "new"
  /\ \A k, l \in DOMAIN accepted : accepted[k] = accepted[l] => k = l

\* Within a queue, and from one queue to another, the older comes first.
Ascending(s) == \A i, j \in DOMAIN s : i < j => Earlier(s[i], s[j])
Precedes(s, u) == \A i \in DOMAIN s, j \in DOMAIN u : Earlier(s[i], u[j])
OrderInv ==
  /\ Ascending(retry) /\ Ascending(batch) /\ Ascending(q)
  /\ Precedes(retry, batch) /\ Precedes(retry, q) /\ Precedes(batch, q)

\* The inductive invariant.
CoreInv == DataType /\ ControlInv /\ ContentInv /\ OrderInv /\ Len(q) <= MaxQueue
BufferInv == FlagType /\ CoreInv

-----------------------------------------------------------------------------
(* Sequences of writes. *)

\* Append adds an index with the new element.
LEMMA Appended ==
  ASSUME NEW s \in Seq(Writes), NEW w \in Writes
  PROVE  /\ Append(s, w) \in Seq(Writes) /\ Len(Append(s, w)) = Len(s) + 1
         /\ DOMAIN Append(s, w) = 1..(Len(s) + 1) /\ DOMAIN s = 1..Len(s) /\ Len(s) \in Nat
         /\ \A i \in DOMAIN s : Append(s, w)[i] = s[i]
         /\ Append(s, w)[Len(s) + 1] = w
  BY AppendProperties, LenProperties

\* Tail drops the first index.
LEMMA Dropped1 ==
  ASSUME NEW s \in Seq(Writes), s # <<>>
  PROVE  /\ Tail(s) \in Seq(Writes) /\ Head(s) \in Writes /\ Head(s) = s[1]
         /\ Len(s) \in Nat /\ Len(s) > 0 /\ DOMAIN s = 1..Len(s)
         /\ DOMAIN Tail(s) = 1..(Len(s) - 1)
         /\ \A i \in 1..(Len(s) - 1) : Tail(s)[i] = s[i + 1]
<1>1. Tail(s) \in Seq(Writes) /\ Head(s) \in Writes /\ Len(Tail(s)) = Len(s) - 1
      /\ \A i \in 1..Len(Tail(s)) : Tail(s)[i] = s[i + 1]
  BY HeadTailProperties
<1>2. Len(s) \in Nat \ {0} /\ DOMAIN s = 1..Len(s)
  BY EmptySeq, LenProperties
<1>3. DOMAIN Tail(s) = 1..Len(Tail(s))
  BY <1>1, LenProperties
<1>4. Head(s) = s[1]
  OBVIOUS
<1> QED
  BY <1>1, <1>2, <1>3, <1>4

\* Nothing is in the empty queue.
LEMMA EmptyQueue == DOMAIN <<>> = {} /\ <<>> \in Seq(Writes) /\ Len(<<>>) = 0
  BY EmptySeq

\* A write is not earlier than itself.
LEMMA EarlierIsStrict ==
  ASSUME DataType, ContentInv, NEW v, NEW w, Earlier(v, w)
  PROVE  v # w
<1>1. DOMAIN accepted \subseteq Int
  BY LenProperties DEF DataType
<1> QED
  BY <1>1 DEF Earlier, ContentInv

\* Two queues one after the other.
LEMMA Joined ==
  ASSUME NEW s \in Seq(Writes), NEW u \in Seq(Writes)
  PROVE  /\ s \o u \in Seq(Writes) /\ Len(s) \in Nat /\ Len(u) \in Nat
         /\ Len(s \o u) = Len(s) + Len(u)
         /\ DOMAIN s = 1..Len(s) /\ DOMAIN u = 1..Len(u)
         /\ DOMAIN (s \o u) = 1..(Len(s) + Len(u))
         /\ \A i \in 1..(Len(s) + Len(u)) :
              (s \o u)[i] = IF i <= Len(s) THEN s[i] ELSE u[i - Len(s)]
<1>1. /\ s \o u \in Seq(Writes) /\ Len(s \o u) = Len(s) + Len(u)
      /\ \A i \in 1..(Len(s) + Len(u)) :
           (s \o u)[i] = IF i <= Len(s) THEN s[i] ELSE u[i - Len(s)]
  BY ConcatProperties
<1>2. /\ Len(s) \in Nat /\ DOMAIN s = 1..Len(s) /\ Len(u) \in Nat /\ DOMAIN u = 1..Len(u)
      /\ DOMAIN (s \o u) = 1..Len(s \o u)
  BY <1>1, LenProperties
<1> QED
  BY <1>1, <1>2

\* They hold the writes of both.
LEMMA InJoined ==
  ASSUME NEW s \in Seq(Writes), NEW u \in Seq(Writes), NEW v
  PROVE  In(v, s \o u) <=> In(v, s) \/ In(v, u)
<1>1. ASSUME In(v, s \o u) PROVE In(v, s) \/ In(v, u)
  <2>1. PICK i \in DOMAIN (s \o u) : (s \o u)[i] = v
    BY <1>1 DEF In
  <2>2. i \in 1..(Len(s) + Len(u)) /\ (i <= Len(s) => i \in DOMAIN s)
        /\ (~ i <= Len(s) => i - Len(s) \in DOMAIN u)
    BY <2>1, Joined
  <2>3. v = IF i <= Len(s) THEN s[i] ELSE u[i - Len(s)]
    BY <2>1, <2>2, Joined
  <2> QED
    BY <2>2, <2>3 DEF In
<1>2. ASSUME In(v, s) PROVE In(v, s \o u)
  <2>1. PICK i \in DOMAIN s : s[i] = v
    BY <1>2 DEF In
  <2>2. i \in DOMAIN (s \o u) /\ (s \o u)[i] = v
    BY <2>1, Joined
  <2> QED
    BY <2>2 DEF In
<1>3. ASSUME In(v, u) PROVE In(v, s \o u)
  <2>1. PICK i \in DOMAIN u : u[i] = v
    BY <1>3 DEF In
  <2>2. Len(s) + i \in DOMAIN (s \o u) /\ (s \o u)[Len(s) + i] = v
    BY <2>1, Joined
  <2> QED
    BY <2>2 DEF In
<1> QED
  BY <1>1, <1>2, <1>3

\* They are ascending if each is and the one precedes the other.
LEMMA JoinedAscending ==
  ASSUME NEW s \in Seq(Writes), NEW u \in Seq(Writes), Ascending(s), Ascending(u), Precedes(s, u)
  PROVE  Ascending(s \o u)
<1> SUFFICES ASSUME NEW i \in DOMAIN (s \o u), NEW j \in DOMAIN (s \o u), i < j
             PROVE  Earlier((s \o u)[i], (s \o u)[j])
  BY DEF Ascending
<1>1. /\ i \in 1..(Len(s) + Len(u)) /\ j \in 1..(Len(s) + Len(u))
      /\ Len(s) \in Nat /\ Len(u) \in Nat /\ DOMAIN s = 1..Len(s) /\ DOMAIN u = 1..Len(u)
      /\ (s \o u)[i] = IF i <= Len(s) THEN s[i] ELSE u[i - Len(s)]
      /\ (s \o u)[j] = IF j <= Len(s) THEN s[j] ELSE u[j - Len(s)]
  BY Joined
<1>2. CASE j <= Len(s)
  BY <1>1, <1>2 DEF Ascending
<1>3. CASE i <= Len(s) /\ ~ j <= Len(s)
  <2>1. i \in DOMAIN s /\ j - Len(s) \in DOMAIN u
    BY <1>1, <1>3
  <2> QED
    BY <1>1, <1>3, <2>1 DEF Precedes
<1>4. CASE ~ i <= Len(s)
  <2>1. i - Len(s) \in DOMAIN u /\ j - Len(s) \in DOMAIN u /\ i - Len(s) < j - Len(s)
        /\ ~ j <= Len(s)
    BY <1>1, <1>4
  <2> QED
    BY <1>1, <1>4, <2>1 DEF Ascending
<1> QED
  BY <1>1, <1>2, <1>3, <1>4

-----------------------------------------------------------------------------
(* The steps. *)

\* The flags stay flags.
LEMMA FlagStep == FlagType /\ [Next]_vars => FlagType'
<1> SUFFICES ASSUME FlagType, [Next]_vars PROVE FlagType'
  OBVIOUS
<1>1. CASE UNCHANGED <<running, stop, finalPass>>
  BY <1>1 DEF FlagType
<1>2. CASE BufferStep
  BY <1>2, Zenon DEF BufferStep, Start, StopBegin, StopEnd, Age, WorkerStep, Take, NextItem, EndPass,
     Finish, control, FlagType
<1>3. CASE Replay
  BY <1>3, Zenon DEF Replay, TaskReturns, bufferVars, control, FlagType
<1> QED
  BY <1>1, <1>2, <1>3 DEF Next, Dispatch, Attempt, Buffer, Enqueue, LinkChange, PoolGone,
     CircuitChange, vars, bufferVars, control

\* A step that leaves the buffer alone.
LEMMA Untouched ==
  ASSUME CoreInv, UNCHANGED <<queues, control, history>>
  PROVE  CoreInv'
  BY DEF CoreInv, DataType, ControlInv, ContentInv, OrderInv, Ascending, Precedes, Earlier, In,
     queues, control, history

\* A write is accepted, and is the newest; or it is refused.
LEMMA EnqueueKeeps ==
  ASSUME FlagType, CoreInv, NEW w \in Writes, Enqueue(w)
  PROVE  CoreInv'
<1>1. UNCHANGED <<batch, retry, running, stop, finalPass, worker, stopper>> /\ fate[w] = "new"
  BY DEF Enqueue, control
<1>2. CASE Accepts
  <2>1. /\ q' = Append(q, w) /\ accepted' = Append(accepted, w)
        /\ fate' = [fate EXCEPT ![w] = "queued"] /\ running /\ ~ stop /\ Len(q) < MaxQueue
    BY <1>2 DEF Enqueue, Accepts
  <2>2. DataType'
    BY <1>1, <2>1, Appended DEF CoreInv, DataType, Fates
  <2>3. ControlInv'
    BY <1>1, <2>1 DEF CoreInv, ControlInv
  <2>4. /\ accepted \in Seq(Writes) /\ q \in Seq(Writes)
        /\ \A k \in DOMAIN accepted : accepted[k] # w
    BY <1>1 DEF CoreInv, DataType, ContentInv
  <2>5. /\ DOMAIN accepted' = 1..(Len(accepted) + 1) /\ DOMAIN accepted = 1..Len(accepted)
        /\ \A k \in DOMAIN accepted : accepted'[k] = accepted[k]
        /\ accepted'[Len(accepted) + 1] = w /\ Len(accepted) \in Nat
    BY <2>1, <2>4, Appended
  <2>6. /\ DOMAIN q' = 1..(Len(q) + 1) /\ DOMAIN q = 1..Len(q) /\ Len(q) \in Nat
        /\ \A k \in DOMAIN q : q'[k] = q[k]
        /\ q'[Len(q) + 1] = w /\ Len(q') = Len(q) + 1
    BY <2>1, <2>4, Appended
  <2>7. \A v, u : Earlier(v, u) => Earlier(v, u)'
    BY <2>5 DEF Earlier
  <2>8. \A v \in Writes : In(v, accepted) => Earlier(v, w)'
    BY <2>5 DEF Earlier, In
  <2>9. \A v \in Writes : In(v, retry) \/ In(v, batch) \/ In(v, q) => Earlier(v, w)'
    BY <2>8 DEF CoreInv, ContentInv
  <2>10. ContentInv'
    <3>1. \A v : In(v, q)' <=> In(v, q) \/ v = w
      BY <2>6 DEF In
    <3>2. \A v : In(v, accepted)' <=> In(v, accepted) \/ v = w
      BY <2>5 DEF In
    <3>3. \A v \in Writes : fate'[v] = IF v = w THEN "queued" ELSE fate[v]
      BY <2>1 DEF CoreInv, DataType
    <3>4. \A v \in Writes : fate'[v] = "queued" <=> In(v, retry)' \/ In(v, batch)' \/ In(v, q)'
      BY <1>1, <3>1, <3>3 DEF CoreInv, ContentInv, In
    <3>5. \A v \in Writes : fate'[v] = "queued" => In(v, accepted)'
      BY <3>2, <3>3 DEF CoreInv, ContentInv
    <3>6. \A k \in DOMAIN accepted' : accepted'[k] \in Writes /\ fate'[accepted'[k]] # "new"
      BY <2>4, <2>5, <3>3 DEF CoreInv, ContentInv, DataType
    <3>7. \A k, l \in DOMAIN accepted' : accepted'[k] = accepted'[l] => k = l
      BY <2>4, <2>5 DEF CoreInv, ContentInv
    <3> QED
      BY <3>4, <3>5, <3>6, <3>7 DEF ContentInv
  <2>11. OrderInv'
    <3>1. \A i \in DOMAIN retry : retry[i] \in Writes /\ In(retry[i], retry)
      BY DEF In, CoreInv, DataType
    <3>2. \A i \in DOMAIN batch : batch[i] \in Writes /\ In(batch[i], batch)
      BY DEF In, CoreInv, DataType
    <3>3. \A i \in DOMAIN q : q[i] \in Writes /\ In(q[i], q)
      BY DEF In, CoreInv, DataType
    <3>4. Ascending(retry)' /\ Ascending(batch)' /\ Precedes(retry, batch)'
      BY <1>1, <2>7 DEF CoreInv, OrderInv, Ascending, Precedes
    <3>5. Ascending(q)'
      BY <2>6, <2>7, <2>9, <3>3 DEF CoreInv, OrderInv, Ascending
    <3>6. Precedes(retry, q)' /\ Precedes(batch, q)'
      BY <1>1, <2>6, <2>7, <2>9, <3>1, <3>2 DEF CoreInv, OrderInv, Precedes
    <3> QED
      BY <3>4, <3>5, <3>6 DEF OrderInv
  <2> QED
    BY <2>1, <2>2, <2>3, <2>6, <2>10, <2>11, BufferAssumption DEF CoreInv
<1>3. CASE ~ Accepts
  <2>1. fate' = [fate EXCEPT ![w] = "refused"] /\ UNCHANGED <<q, accepted>>
    BY <1>3 DEF Enqueue
  <2>2. DataType'
    BY <1>1, <2>1 DEF CoreInv, DataType, Fates
  <2>3. ControlInv' /\ OrderInv'
    BY <1>1, <2>1 DEF CoreInv, ControlInv, OrderInv, Ascending, Precedes, Earlier
  <2>4. ContentInv'
    <3>1. \A v \in Writes : fate'[v] = IF v = w THEN "refused" ELSE fate[v]
      BY <2>1 DEF CoreInv, DataType
    <3>2. \A k \in DOMAIN accepted : accepted[k] \in Writes
      BY DEF CoreInv, DataType
    <3> QED
      BY <1>1, <2>1, <3>1, <3>2 DEF CoreInv, ContentInv, In
  <2> QED
    BY <2>1, <2>2, <2>3, <2>4 DEF CoreInv
<1> QED
  BY <1>2, <1>3

\* start, stop and the join move the control alone.
LEMMA ControlKeeps ==
  ASSUME FlagType, CoreInv, Start \/ StopBegin \/ StopEnd
  PROVE  CoreInv'
<1>1. UNCHANGED <<queues, history>>
  BY DEF Start, StopBegin, StopEnd
<1>2. UNCHANGED <<q, batch, retry, accepted, fate>>
  BY <1>1 DEF queues, history
<1>3. ContentInv' /\ OrderInv' /\ Len(q') <= MaxQueue
  BY <1>2 DEF CoreInv, ContentInv, OrderInv, Ascending, Precedes, Earlier, In
<1>4. DataType'
  BY <1>2 DEF CoreInv, DataType, Start, StopBegin, StopEnd, WorkerStates, StopperStates
<1>5. ControlInv'
  <2>1. CASE Start
    BY <1>2, <2>1 DEF CoreInv, ControlInv, Start
  <2>2. CASE StopBegin
    BY <1>2, <2>2 DEF CoreInv, ControlInv, StopBegin
  <2>3. CASE StopEnd
    BY <1>2, <2>3 DEF CoreInv, ControlInv, StopEnd
  <2> QED
    BY <2>1, <2>2, <2>3
<1> QED
  BY <1>3, <1>4, <1>5 DEF CoreInv

\* The queue becomes the batch of the pass.
LEMMA TakeKeeps ==
  ASSUME FlagType, CoreInv, Take
  PROVE  CoreInv'
<1>1. /\ batch = <<>> /\ retry = <<>> /\ batch' = q /\ q' = <<>> /\ retry' = <<>>
      /\ worker = "top" /\ worker' = "replay" /\ finalPass' = stop
      /\ UNCHANGED <<running, stop, stopper, accepted, fate>>
  BY DEF Take, CoreInv, ControlInv, history
<1>2. DataType'
  BY <1>1, EmptyQueue DEF CoreInv, DataType, WorkerStates
<1>3. ControlInv'
  BY <1>1 DEF CoreInv, ControlInv
<1>4. \A v : In(v, retry)' \/ In(v, batch)' \/ In(v, q)' <=> In(v, retry) \/ In(v, batch) \/ In(v, q)
  BY <1>1, EmptyQueue DEF In
<1>5. ContentInv'
  <2>1. \A v : In(v, accepted)' <=> In(v, accepted)
    BY <1>1 DEF In
  <2> QED
    BY <1>1, <1>4, <2>1 DEF CoreInv, ContentInv
<1>6. OrderInv'
  BY <1>1, EmptyQueue DEF CoreInv, OrderInv, Ascending, Precedes, Earlier
<1>7. Len(q') <= MaxQueue
  BY <1>1, EmptyQueue, BufferAssumption
<1> QED
  BY <1>2, <1>3, <1>5, <1>6, <1>7 DEF CoreInv

\* The oldest write of the batch is settled: no other queue holds it.
LEMMA Settled ==
  ASSUME CoreInv, batch # <<>>, NEW f \in Fates \ {"new", "queued"},
         worker \in {"replay", "task"}, worker' = "replay", batch' = Tail(batch),
         fate' = [fate EXCEPT ![Head(batch)] = f],
         UNCHANGED <<q, retry, running, stop, finalPass, stopper, accepted>>
  PROVE  CoreInv'
<1> DEFINE h == Head(batch)
<1>1. /\ batch \in Seq(Writes) /\ retry \in Seq(Writes) /\ q \in Seq(Writes)
      /\ accepted \in Seq(Writes) /\ fate \in [Writes -> Fates]
  BY DEF CoreInv, DataType
<1>2. /\ h \in Writes /\ h = batch[1] /\ Len(batch) \in Nat /\ Len(batch) > 0
      /\ DOMAIN batch = 1..Len(batch) /\ DOMAIN batch' = 1..(Len(batch) - 1)
      /\ \A i \in DOMAIN batch' : batch'[i] = batch[i + 1]
      /\ batch' \in Seq(Writes)
  BY <1>1, Dropped1
<1>3. \A v \in Writes : fate'[v] = IF v = h THEN f ELSE fate[v]
  BY <1>1
<1>4. DataType'
  BY <1>1, <1>2 DEF CoreInv, DataType, WorkerStates
<1>5. ControlInv'
  BY DEF CoreInv, ControlInv
<1>6. ~ In(h, retry) /\ ~ In(h, q) /\ ~ In(h, batch')
  <2>1. DataType /\ ContentInv /\ OrderInv
    BY DEF CoreInv
  <2>2. \A i \in DOMAIN retry : Earlier(retry[i], h)
    BY <1>2, <2>1 DEF OrderInv, Precedes
  <2>3. \A i \in DOMAIN q : Earlier(h, q[i])
    BY <1>2, <2>1 DEF OrderInv, Precedes
  <2>4. \A i \in DOMAIN batch' : Earlier(h, batch[i + 1])
    BY <1>2, <2>1 DEF OrderInv, Ascending
  <2> QED
    BY <1>2, <2>1, <2>2, <2>3, <2>4, EarlierIsStrict DEF In
<1>7. \A v : In(v, batch) <=> In(v, batch)' \/ v = h
  <2>1. ASSUME NEW v, In(v, batch) PROVE In(v, batch)' \/ v = h
    <3>1. PICK i \in DOMAIN batch : batch[i] = v
      BY <2>1 DEF In
    <3>2. CASE i = 1
      BY <1>2, <3>1, <3>2
    <3>3. CASE i # 1
      <4>1. i - 1 \in DOMAIN batch' /\ batch'[i - 1] = v
        BY <1>2, <3>1, <3>3
      <4> QED
        BY <4>1 DEF In
    <3> QED
      BY <3>2, <3>3
  <2>2. ASSUME NEW v, In(v, batch)' \/ v = h PROVE In(v, batch)
    BY <1>2, <2>2 DEF In
  <2> QED
    BY <2>1, <2>2
<1>8. ContentInv'
  <2> HIDE DEF h
  <2>1. \A v : (In(v, retry)' <=> In(v, retry)) /\ (In(v, q)' <=> In(v, q))
               /\ (In(v, accepted)' <=> In(v, accepted))
    BY DEF In
  <2>2. \A v \in Writes : fate'[v] = "queued" <=> In(v, retry)' \/ In(v, batch)' \/ In(v, q)'
    BY <1>3, <1>6, <1>7, <2>1 DEF CoreInv, ContentInv
  <2>3. \A v \in Writes : fate'[v] = "queued" => In(v, accepted)'
    BY <1>3, <2>1 DEF CoreInv, ContentInv
  <2>4. \A k \in DOMAIN accepted : accepted[k] \in Writes /\ fate'[accepted[k]] # "new"
    BY <1>1, <1>3 DEF CoreInv, ContentInv
  <2> QED
    BY <2>2, <2>3, <2>4 DEF CoreInv, ContentInv
<1>9. OrderInv'
  <2> HIDE DEF h
  <2>1. \A v, u : Earlier(v, u)' <=> Earlier(v, u)
    BY DEF Earlier
  <2>2. \A i \in DOMAIN batch' : i + 1 \in DOMAIN batch /\ i \in Int
    BY <1>2
  <2> QED
    BY <1>2, <2>1, <2>2 DEF CoreInv, OrderInv, Ascending, Precedes
<1> QED
  BY <1>4, <1>5, <1>8, <1>9 DEF CoreInv

\* The next write is too old and dropped, or its task is called.
LEMMA NextItemKeeps ==
  ASSUME FlagType, CoreInv, NextItem
  PROVE  CoreInv'
<1>1. CASE Head(batch) \in old
  <2>1. /\ batch # <<>> /\ worker = "replay" /\ worker' = "replay" /\ batch' = Tail(batch)
        /\ fate' = [fate EXCEPT ![Head(batch)] = "expired"]
        /\ UNCHANGED <<q, retry, running, stop, finalPass, stopper, accepted>>
    BY <1>1 DEF NextItem
  <2> QED
    BY <2>1, Settled DEF Fates, Dropped
<1>2. CASE Head(batch) \notin old
  <2>1. /\ batch # <<>> /\ worker = "replay" /\ worker' = "task"
        /\ UNCHANGED <<batch, fate, q, retry, running, stop, finalPass, stopper, accepted>>
    BY <1>2 DEF NextItem
  <2>2. DataType' /\ ControlInv'
    BY <2>1 DEF CoreInv, DataType, ControlInv, WorkerStates
  <2>3. ContentInv' /\ OrderInv' /\ Len(q') <= MaxQueue
    BY <2>1 DEF CoreInv, ContentInv, OrderInv, Ascending, Precedes, Earlier, In
  <2> QED
    BY <2>2, <2>3 DEF CoreInv
<1> QED
  BY <1>1, <1>2

\* The task of the oldest write of the batch returned: it is settled, or goes
\* behind the writes that this pass puts back already.
LEMMA TaskReturnsKeeps ==
  ASSUME FlagType, CoreInv, NEW outcome, TaskReturns(outcome)
  PROVE  CoreInv'
<1> DEFINE h == Head(batch)
<1>1. /\ batch # <<>> /\ worker = "task" /\ worker' = "replay" /\ batch' = Tail(batch)
      /\ UNCHANGED <<q, running, stop, finalPass, stopper, accepted>>
  BY DEF TaskReturns, CoreInv, ControlInv
<1>2. CASE ~ (outcome = "again" /\ ~ finalPass)
  <2>1. /\ UNCHANGED retry
        /\ fate' = [fate EXCEPT ![Head(batch)] = IF outcome = "ok" THEN "applied" ELSE "failed"]
    BY <1>2 DEF TaskReturns
  <2>2. CASE outcome = "ok"
    <3>1. fate' = [fate EXCEPT ![Head(batch)] = "applied"] /\ "applied" \in Fates \ {"new", "queued"}
      BY <2>1, <2>2 DEF Fates
    <3> QED
      BY <1>1, <2>1, <3>1, Settled
  <2>3. CASE outcome # "ok"
    <3>1. fate' = [fate EXCEPT ![Head(batch)] = "failed"] /\ "failed" \in Fates \ {"new", "queued"}
      BY <2>1, <2>3 DEF Fates, Dropped
    <3> QED
      BY <1>1, <2>1, <3>1, Settled
  <2> QED
    BY <2>2, <2>3
<1>3. CASE outcome = "again" /\ ~ finalPass
  <2>1. retry' = Append(retry, h) /\ UNCHANGED fate
    BY <1>3 DEF TaskReturns
  <2>2. batch \in Seq(Writes) /\ retry \in Seq(Writes)
    BY DEF CoreInv, DataType
  <2>3. /\ h \in Writes /\ h = batch[1] /\ Len(batch) \in Nat /\ Len(batch) > 0
        /\ DOMAIN batch = 1..Len(batch) /\ DOMAIN batch' = 1..(Len(batch) - 1)
        /\ \A i \in DOMAIN batch' : batch'[i] = batch[i + 1]
        /\ batch' \in Seq(Writes)
    BY <1>1, <2>2, Dropped1
  <2>4. /\ retry' \in Seq(Writes) /\ DOMAIN retry' = 1..(Len(retry) + 1)
        /\ DOMAIN retry = 1..Len(retry) /\ Len(retry) \in Nat
        /\ \A i \in DOMAIN retry : retry'[i] = retry[i]
        /\ retry'[Len(retry) + 1] = h
    BY <2>1, <2>2, <2>3, Appended
  <2> HIDE DEF h
  <2>5. DataType' /\ ControlInv'
    BY <1>1, <1>3, <2>1, <2>3, <2>4 DEF CoreInv, DataType, ControlInv, WorkerStates
  <2>6. \A v : In(v, batch) <=> In(v, batch') \/ v = h
    <3>1. ASSUME NEW v, In(v, batch) PROVE In(v, batch') \/ v = h
      <4>1. PICK i \in DOMAIN batch : batch[i] = v
        BY <3>1 DEF In
      <4>2. i = 1 \/ (i - 1 \in DOMAIN batch' /\ batch'[i - 1] = v)
        BY <2>3, <4>1
      <4> QED
        BY <2>3, <4>1, <4>2 DEF In
    <3>2. ASSUME NEW v, In(v, batch') \/ v = h PROVE In(v, batch)
      BY <2>3, <3>2 DEF In
    <3> QED
      BY <3>1, <3>2
  <2>7. \A v : In(v, retry') <=> In(v, retry) \/ v = h
    BY <2>4 DEF In
  <2>8. ContentInv'
    <3>1. \A v : (In(v, q)' <=> In(v, q)) /\ (In(v, accepted)' <=> In(v, accepted))
      BY <1>1 DEF In
    <3>2. \A v \in Writes : fate'[v] = "queued" <=> In(v, retry') \/ In(v, batch') \/ In(v, q)'
      BY <2>1, <2>6, <2>7, <3>1 DEF CoreInv, ContentInv
    <3> QED
      BY <1>1, <2>1, <3>1, <3>2 DEF CoreInv, ContentInv
  <2>9. OrderInv'
    <3>1. \A v, u : Earlier(v, u)' <=> Earlier(v, u)
      BY <1>1 DEF Earlier
    <3>2. \A i \in DOMAIN batch' : i + 1 \in DOMAIN batch /\ i \in Int /\ 1 < i + 1
      BY <2>3
    <3>3. 1 \in DOMAIN batch
      BY <2>3
    <3>4. \A i \in DOMAIN retry' : i \in DOMAIN retry \/ i = Len(retry) + 1
      BY <2>4
    <3>5. /\ Ascending(retry) /\ Ascending(batch) /\ Ascending(q)
          /\ Precedes(retry, batch) /\ Precedes(retry, q) /\ Precedes(batch, q)
      BY DEF CoreInv, OrderInv
    <3>6. Ascending(batch)' /\ Ascending(q)' /\ Precedes(batch, q)'
      BY <1>1, <2>3, <3>1, <3>2, <3>5 DEF Ascending, Precedes
    <3>7. \A i \in DOMAIN retry : Earlier(retry[i], h)
      BY <2>3, <3>3, <3>5 DEF Precedes
    <3>8. Ascending(retry)'
      BY <2>4, <3>1, <3>5, <3>7 DEF Ascending
    <3>9. \A i \in DOMAIN batch' : Earlier(h, batch'[i])
      BY <2>3, <3>2, <3>3, <3>5 DEF Ascending
    <3>10. Precedes(retry, batch)'
      BY <2>3, <2>4, <3>1, <3>2, <3>4, <3>5, <3>9 DEF Precedes
    <3>11. Precedes(retry, q)'
      BY <1>1, <2>3, <2>4, <3>1, <3>3, <3>4, <3>5 DEF Precedes
    <3> QED
      BY <3>6, <3>8, <3>10, <3>11 DEF OrderInv
  <2> QED
    BY <1>1, <2>5, <2>8, <2>9 DEF CoreInv
<1> QED
  BY <1>2, <1>3

\* What is put back goes before what was accepted meanwhile, and the newest
\* writes beyond the bound are dropped.
LEMMA EndPassKeeps ==
  ASSUME FlagType, CoreInv, EndPass
  PROVE  CoreInv'
<1>1. /\ worker = "replay" /\ batch = <<>> /\ batch' = <<>> /\ retry' = <<>>
      /\ worker' \in {"finish", "top"} /\ (worker' = "finish" => finalPass)
      /\ UNCHANGED <<running, stop, finalPass, stopper, accepted>>
  BY DEF EndPass
<1>2. /\ retry \in Seq(Writes) /\ q \in Seq(Writes) /\ accepted \in Seq(Writes)
      /\ fate \in [Writes -> Fates]
  BY DEF CoreInv, DataType
<1>3. \A v : ~ In(v, batch) /\ ~ In(v, batch)' /\ ~ In(v, retry)'
  BY <1>1, EmptyQueue DEF In
<1>4. ControlInv'
  BY <1>1 DEF CoreInv, ControlInv
<1>5. CASE retry = <<>>
  <2>1. UNCHANGED <<q, fate>>
    BY <1>5 DEF EndPass
  <2>2. DataType'
    BY <1>1, <2>1, EmptyQueue DEF CoreInv, DataType, WorkerStates
  <2>3. ContentInv' /\ OrderInv'
    BY <1>1, <1>5, <2>1 DEF CoreInv, ContentInv, OrderInv, Ascending, Precedes, Earlier, In
  <2> QED
    BY <1>4, <2>1, <2>2, <2>3 DEF CoreInv
<1>6. CASE retry # <<>>
  <2> DEFINE n == Smaller(MaxQueue, Len(Merged))
  <2>1. /\ q' = Kept
        /\ fate' = [w \in Writes |-> IF w \in ToSet(Merged) \ ToSet(Kept) THEN "overflow" ELSE fate[w]]
    BY <1>6 DEF EndPass
  <2>2. Merged \in Seq(Writes) /\ Len(Merged) \in Nat /\ DOMAIN Merged = 1..Len(Merged)
    BY <1>2, Joined, LenProperties DEF Merged
  <2>3. n \in Nat /\ n <= MaxQueue /\ n <= Len(Merged)
    BY <2>2, BufferAssumption DEF Smaller
  <2>4. /\ Kept \in Seq(Writes) /\ Len(Kept) = n /\ DOMAIN Kept = 1..n
        /\ \A i \in 1..n : Kept[i] = Merged[i]
    <3>1. \A i \in 1..n : i \in 1..Len(Merged)
      BY <2>2, <2>3
    <3>2. Kept = SubSeq(Merged, 1, n)
      BY DEF Kept
    <3> HIDE DEF n
    <3>3. /\ SubSeq(Merged, 1, n) \in Seq(Writes)
          /\ Len(SubSeq(Merged, 1, n)) = IF 1 <= n THEN n - 1 + 1 ELSE 0
          /\ \A i \in 1..(n - 1 + 1) : SubSeq(Merged, 1, n)[i] = Merged[1 + i - 1]
      BY <2>2, <2>3, <3>1, SubSeqProperties
    <3>4. Kept \in Seq(Writes) /\ Len(Kept) = n
      BY <2>3, <3>2, <3>3
    <3>5. DOMAIN Kept = 1..n
      BY <3>4, LenProperties
    <3>6. \A i \in 1..n : Kept[i] = Merged[i]
      BY <2>3, <3>2, <3>3
    <3> QED
      BY <3>4, <3>5, <3>6
  <2> HIDE DEF n
  <2>5. DataType'
    BY <1>1, <1>2, <2>1, <2>4, EmptyQueue DEF CoreInv, DataType, WorkerStates, Fates, Dropped
  <2>6. \A v : v \in ToSet(Merged) <=> In(v, retry) \/ In(v, q)
    <3>1. \A v : v \in ToSet(Merged) <=> In(v, Merged)
      BY DEF ToSet, In
    <3> QED
      BY <1>2, <3>1, InJoined DEF Merged
  <2>7. \A v : v \in ToSet(Kept) <=> In(v, q')
    BY <2>1 DEF ToSet, In
  <2>8. \A v : In(v, q') => In(v, retry) \/ In(v, q)
    <3>1. \A v : In(v, q') => v \in ToSet(Merged)
      BY <2>1, <2>2, <2>3, <2>4 DEF In, ToSet
    <3> QED
      BY <2>6, <3>1
  <2>9. \A v \in Writes : fate'[v] = IF (In(v, retry) \/ In(v, q)) /\ ~ In(v, q') THEN "overflow"
                                                                             ELSE fate[v]
    BY <2>1, <2>6, <2>7
  <2>10. ContentInv'
    <3>1. \A v \in Writes : fate'[v] = "queued" <=> In(v, q')
      BY <1>3, <2>8, <2>9 DEF CoreInv, ContentInv
    <3>2. \A v \in Writes : fate'[v] = "queued" => In(v, accepted)
      BY <2>9 DEF CoreInv, ContentInv
    <3>3. \A k \in DOMAIN accepted : accepted[k] \in Writes /\ fate'[accepted[k]] # "new"
      BY <1>2, <2>9 DEF CoreInv, ContentInv
    <3>4. \A v : In(v, accepted)' <=> In(v, accepted)
      BY <1>1 DEF In
    <3> QED
      BY <1>1, <1>3, <3>1, <3>2, <3>3, <3>4 DEF CoreInv, ContentInv
  <2>11. OrderInv'
    <3>1. \A v, u : Earlier(v, u)' <=> Earlier(v, u)
      BY <1>1 DEF Earlier
    <3>2. Ascending(Merged)
      BY <1>2, JoinedAscending DEF CoreInv, OrderInv, Merged
    <3>3. Ascending(q)'
      BY <2>1, <2>2, <2>3, <2>4, <3>1, <3>2 DEF Ascending
    <3> QED
      BY <1>1, <3>3, EmptyQueue DEF OrderInv, Ascending, Precedes
  <2> QED
    BY <1>4, <2>1, <2>3, <2>4, <2>5, <2>10, <2>11 DEF CoreInv
<1> QED
  BY <1>5, <1>6

\* Past the final pass what is still queued is abandoned.
LEMMA FinishKeeps ==
  ASSUME FlagType, CoreInv, Finish
  PROVE  CoreInv'
<1>1. /\ worker = "finish" /\ worker' = "exited" /\ q' = <<>>
      /\ batch = <<>> /\ batch' = <<>> /\ retry = <<>> /\ retry' = <<>>
      /\ fate' = [w \in Writes |-> IF w \in ToSet(q) THEN "abandoned" ELSE fate[w]]
      /\ UNCHANGED <<running, stop, finalPass, stopper, accepted>>
  BY DEF Finish, CoreInv, ControlInv
<1>2. accepted \in Seq(Writes) /\ fate \in [Writes -> Fates]
  BY DEF CoreInv, DataType
<1>3. DataType'
  BY <1>1, <1>2, EmptyQueue DEF CoreInv, DataType, WorkerStates, Fates, Dropped
<1>4. ControlInv'
  BY <1>1 DEF CoreInv, ControlInv
<1>5. \A v \in Writes : fate'[v] = IF In(v, q) THEN "abandoned" ELSE fate[v]
  BY <1>1 DEF ToSet, In
<1>6. \A v : ~ In(v, <<>>)
  BY EmptyQueue DEF In
<1>7. ContentInv'
  <2>1. \A v \in Writes : fate'[v] # "queued"
    BY <1>1, <1>5, <1>6 DEF CoreInv, ContentInv
  <2>2. \A k \in DOMAIN accepted : accepted[k] \in Writes /\ fate'[accepted[k]] # "new"
    BY <1>2, <1>5 DEF CoreInv, ContentInv
  <2> QED
    BY <1>1, <1>6, <2>1, <2>2 DEF CoreInv, ContentInv
<1>8. OrderInv' /\ Len(q') <= MaxQueue
  BY <1>1, EmptyQueue, BufferAssumption DEF OrderInv, Ascending, Precedes
<1> QED
  BY <1>3, <1>4, <1>7, <1>8 DEF CoreInv

-----------------------------------------------------------------------------
(* The theorems. *)

\* A new buffer is empty and stopped.
LEMMA BufferInitInv == Init => BufferInv
<1> SUFFICES ASSUME Init PROVE BufferInv
  OBVIOUS
<1>1. BufferInit
  BY DEF Init
<1>2. FlagType
  BY <1>1, Zenon DEF BufferInit, FlagType
<1>3. DataType /\ ControlInv /\ Len(q) <= MaxQueue
  BY <1>1, EmptyQueue, BufferAssumption DEF BufferInit, DataType, ControlInv, WorkerStates,
     StopperStates, Fates
<1>4. ContentInv /\ OrderInv
  BY <1>1, EmptyQueue DEF BufferInit, ContentInv, OrderInv, Ascending, Precedes, In
<1> QED
  BY <1>2, <1>3, <1>4 DEF BufferInv, CoreInv

\* Every step of the group keeps the buffer's invariant.
LEMMA BufferStepInv == BufferInv /\ [Next]_vars => BufferInv'
<1> SUFFICES ASSUME BufferInv, [Next]_vars PROVE CoreInv'
  BY FlagStep DEF BufferInv
<1>1. FlagType /\ CoreInv
  BY DEF BufferInv
<1>2. CASE UNCHANGED bufferVars
  BY <1>1, <1>2, Untouched DEF bufferVars
<1>3. ASSUME NEW w \in Writes, Buffer(w) PROVE CoreInv'
  BY <1>1, <1>3, EnqueueKeeps DEF Buffer
<1>4. CASE Replay
  <2>1. CASE UNCHANGED bufferVars
    BY <1>2, <2>1
  <2>2. ASSUME NEW outcome, TaskReturns(outcome) PROVE CoreInv'
    BY <1>1, <2>2, TaskReturnsKeeps
  <2> QED
    BY <1>4, <2>1, <2>2 DEF Replay
<1>5. CASE BufferStep
  <2>1. CASE \E w \in Writes : Age(w)
    BY <1>1, <2>1, Untouched DEF Age
  <2> QED
    BY <1>1, <1>5, <2>1, ControlKeeps, TakeKeeps, NextItemKeeps, EndPassKeeps, FinishKeeps
       DEF BufferStep, WorkerStep
<1> QED
  BY <1>2, <1>3, <1>4, <1>5 DEF Next, Dispatch, Attempt, LinkChange, PoolGone, CircuitChange, vars

\* The invariant holds throughout.
LEMMA BufferInvariant == Spec => []BufferInv
  BY BufferInitInv, BufferStepInv, PTL DEF Spec

\* The write buffer owes exactly the accepted writes that are not settled, each
\* once and in the order in which enqueue accepted them, whatever a pass puts
\* back, drops for its age or its failure, or cuts off at the bound of the
\* queue, and whatever is enqueued while the pass runs without the mutex.
THEOREM BufferPendingInOrder == Spec => []PendingInOrder
<1>1. BufferInv => PendingInOrder
  <2> SUFFICES ASSUME BufferInv PROVE PendingInOrder
    OBVIOUS
  <2>1. DataType /\ ContentInv /\ OrderInv /\ Len(q) <= MaxQueue
    BY DEF BufferInv, CoreInv
  <2>2. retry \in Seq(Writes) /\ batch \in Seq(Writes) /\ q \in Seq(Writes)
    BY <2>1 DEF DataType
  <2>3. retry \o batch \in Seq(Writes) /\ Pending \in Seq(Writes)
    BY <2>2, Joined DEF Pending
  <2>4. \A v : In(v, Pending) <=> In(v, retry) \/ In(v, batch) \/ In(v, q)
    BY <2>2, <2>3, InJoined DEF Pending
  <2>5. \A v : v \in ToSet(Pending) <=> In(v, Pending)
    BY DEF ToSet, In
  <2>6. \A v : In(v, Pending) => v \in Writes
    BY <2>3 DEF In
  <2>7. ToSet(Pending) = {w \in Writes : fate[w] = "queued"}
    BY <2>1, <2>4, <2>5, <2>6 DEF ContentInv
  <2>8. Ascending(retry \o batch)
    BY <2>1, <2>2, JoinedAscending DEF OrderInv
  <2>9. Precedes(retry \o batch, q)
    <3>1. \A i \in DOMAIN (retry \o batch) : In((retry \o batch)[i], retry \o batch)
      BY DEF In
    <3>2. \A i \in DOMAIN (retry \o batch) : In((retry \o batch)[i], retry) \/ In((retry \o batch)[i], batch)
      BY <2>2, <3>1, InJoined
    <3> QED
      BY <2>1, <3>2 DEF OrderInv, Precedes, In
  <2>10. Ascending(Pending)
    BY <2>1, <2>2, <2>3, <2>8, <2>9, JoinedAscending DEF OrderInv, Pending
  <2> QED
    BY <2>1, <2>7, <2>10, EarlierIsStrict DEF PendingInOrder, Ascending
<1> QED
  BY <1>1, BufferInvariant, PTL

\* When stop() has returned no accepted write is left unsettled: the worker sees
\* stop_ under the mutex that enqueue checks it under, so that what its last
\* pass leaves is all there is, and it abandons that before it exits.
THEOREM BufferNothingStranded == Spec => []NothingStranded
<1>1. BufferInv => NothingStranded
  <2> SUFFICES ASSUME BufferInv, ~ running, NEW w \in Writes PROVE fate[w] # "queued"
    BY DEF NothingStranded
  <2>1. batch = <<>> /\ retry = <<>> /\ q = <<>>
    BY DEF BufferInv, CoreInv, ControlInv
  <2>2. ~ In(w, batch) /\ ~ In(w, retry) /\ ~ In(w, q)
    BY <2>1, EmptyQueue DEF In
  <2> QED
    BY <2>2 DEF BufferInv, CoreInv, ContentInv
<1> QED
  BY <1>1, BufferInvariant, PTL
=============================================================================
