----------------------------- MODULE GroupWrite -----------------------------
(***************************************************************************)
(* A write to a group: dispatchWrite of sqlconduit::core::DataSource, the   *)
(* executeUngated of the data sources it tries, and the replay of buffered  *)
(* writes on the primary (src/core/database_manager.cpp).  It composes the  *)
(* write buffer with the candidates, of which only what decides a status is *)
(* kept: whether the database can be reached and whether the circuit lets   *)
(* an attempt through (CircuitBreaker has the details).                     *)
(***************************************************************************)
EXTENDS WriteBuffer

CONSTANTS
  Candidates,   \* failover.primaries in order, the group's primary first
  HasFailover,  \* failoverPrimaries_ is not empty
  MaxAttempts,  \* resolveWriteAttempts: 1 unless writes may be retried
  RequireHealthy,  \* failover.require_healthy
  Shadow,       \* the group's shadow data source
  ShadowWrites  \* the writes whose context says shadow

\* The data sources of the group, the shadow if a write goes to it.
Nodes == ToSet(Candidates) \cup {n \in {Shadow} : ShadowWrites # {}}
Primary == Head(Candidates)

ASSUME GroupAssumption ==
  /\ Candidates \in Seq(Nodes)
  /\ Candidates # <<>>
  /\ HasFailover \in BOOLEAN
  /\ MaxAttempts \in Nat \ {0}
  /\ RequireHealthy \in BOOLEAN
  /\ ShadowWrites \subseteq Writes
  /\ Shadow # Primary      \* all that resolveShadows asks of the candidates

VARIABLES
  link,       \* whether each database can be reached; gone: its pool is destroyed
  circuit,    \* isCircuitOpen of each candidate
  writer,     \* where the caller of each write stands
  targets,    \* dispatchWrite: the candidates left to try, the current first
  attempt,    \* executeUngated: the number of the current attempt
  status,     \* the status the caller holds, at the end the one it returns
  sent,       \* history: candidates on which the caller's attempts may have
              \* executed the write
  replayTry   \* the number of the current attempt of a replay

groupVars == <<link, circuit, writer, targets, attempt, status, sent, replayTry>>
vars == <<bufferVars, groupVars>>

\* The statuses an attempt ends with.  unborrowed: PoolExhausted, PoolClosed or
\* DriverDisabled; connect_failed: borrowSession could not connect; interrupted:
\* the connection broke, or the statement timed out, while it executed; deadlock:
\* the database rolled it back (SQLSTATE class 40); error: it refused it.
Statuses == {"none", "ok", "circuit_open", "unborrowed", "connect_failed",
             "interrupted", "deadlock", "error", "buffered"}

\* borrowSession marks a failed connect retryable and connectionBroken.
Retryable == {"connect_failed", "interrupted", "deadlock"}
ConnectionBroken == {"connect_failed", "interrupted"}

\* Mutant: a statement that was interrupted is tried elsewhere.
SafeWhenInterrupted(s) == s \in {"circuit_open", "unborrowed", "interrupted"}

SafeToFailoverWrite(s) ==
  \/ s \in {"circuit_open", "unborrowed"}
  \/ s = "connect_failed" /\ s \notin ConnectionBroken

Init ==
  /\ BufferInit
  /\ link = [n \in Nodes |-> "up"]
  /\ circuit = [n \in Nodes |-> "closed"]
  /\ writer = [w \in Writes |-> "idle"]
  /\ targets = [w \in Writes |-> <<>>]
  /\ attempt = [w \in Writes |-> 0]
  /\ status = [w \in Writes |-> "none"]
  /\ sent = [w \in Writes |-> {}]
  /\ replayTry = 0

-----------------------------------------------------------------------------
(* One attempt on a leaf data source                                        *)

\* The statuses an attempt on n can end with; the circuit is the gate.
AttemptStatuses(n) ==
  CASE circuit[n] = "open" -> {"circuit_open"}
    [] circuit[n] = "closed" /\ link[n] = "gone" -> {"unborrowed"}
    [] circuit[n] = "closed" /\ link[n] = "down" ->
         {"unborrowed", "connect_failed", "interrupted"}
    [] OTHER -> {"unborrowed", "interrupted", "ok", "deadlock", "error"}

\* What afterAttempt makes of the circuit of n: a fault may be the one that
\* opens it, whoever caused the ones before.
CircuitAfter(n, s) ==
  IF s \in Retryable THEN {circuit, [circuit EXCEPT ![n] = "open"]} ELSE {circuit}

\* The candidates that may have executed the write after an attempt on n.
SentAfter(n, s, before) ==
  CASE s = "ok" -> {before \cup {n}}
    [] s = "interrupted" -> {before, before \cup {n}}
    [] OTHER -> {before}

-----------------------------------------------------------------------------
(* dispatchWrite                                                            *)

\* The candidates a write may go to now.
Writable(n) ==
  /\ circuit[n] = "closed"
  /\ RequireHealthy => link[n] # "gone"

\* writeTargets: without failover the primary, whatever its circuit.
WriteTargets(w) ==
  CASE w \in ShadowWrites -> <<Shadow>>
    [] w \notin ShadowWrites /\ ~HasFailover -> <<Primary>>
    [] OTHER -> SelectSeq(Candidates, Writable)

\* Mutant: a shadow write that failed is treated like any other.
GoesOnForShadow(w, s) == SafeToFailoverWrite(s)

\* Whether the next candidate, or the buffer, gets the write after status s;
\* a shadow write ends with its only attempt.
GoesOn(w, s) == w \notin ShadowWrites /\ SafeToFailoverWrite(s)

\* dispatchWrite up to the first target.
Dispatch(w) ==
  /\ writer[w] = "idle"
  /\ targets' = [targets EXCEPT ![w] = WriteTargets(w)]
  /\ status' = [status EXCEPT ![w] = "circuit_open"]
  /\ attempt' = [attempt EXCEPT ![w] = 1]
  /\ writer' = [writer EXCEPT ![w] = IF WriteTargets(w) = <<>> THEN "buffer"
                                                               ELSE "leaf"]
  /\ UNCHANGED <<bufferVars, link, circuit, sent, replayTry>>

\* One attempt of executeUngated on the current target, and what follows: the
\* next attempt, the next target, the buffer, or the caller.
Attempt(w) ==
  /\ writer[w] = "leaf"
  /\ LET n == Head(targets[w]) IN
     \E s \in AttemptStatuses(n) :
       /\ status' = [status EXCEPT ![w] = s]
       /\ circuit' \in CircuitAfter(n, s)
       /\ \E nodes \in SentAfter(n, s, sent[w]) : sent' = [sent EXCEPT ![w] = nodes]
       /\ \/ /\ s \in Retryable
             /\ attempt[w] < MaxAttempts
             /\ attempt' = [attempt EXCEPT ![w] = @ + 1]
             /\ UNCHANGED <<writer, targets>>
          \/ /\ s \notin Retryable \/ attempt[w] = MaxAttempts
             /\ IF GoesOn(w, s)
                THEN /\ targets' = [targets EXCEPT ![w] = Tail(@)]
                     /\ writer' = [writer EXCEPT ![w] =
                                     IF Tail(targets[w]) = <<>> THEN "buffer"
                                                                ELSE "leaf"]
                ELSE /\ writer' = [writer EXCEPT ![w] = "done"]
                     /\ UNCHANGED targets
             /\ attempt' = [attempt EXCEPT ![w] = 1]
  /\ UNCHANGED <<bufferVars, link, replayTry>>

\* Every target was tried: the write is buffered if the buffer takes it.
Buffer(w) ==
  /\ writer[w] = "buffer"
  /\ Enqueue(w)
  /\ writer' = [writer EXCEPT ![w] = "done"]
  /\ status' = [status EXCEPT ![w] = IF Accepts THEN "buffered" ELSE @]
  /\ UNCHANGED <<link, circuit, targets, attempt, sent, replayTry>>

-----------------------------------------------------------------------------
(* The task of a buffered write: executeUngated on the primary              *)

\* What WriteBuffer::run makes of a status.
Outcome(s) ==
  CASE s = "ok" -> "ok"
    [] s \in Retryable \cup ConnectionBroken -> "again"
    [] OTHER -> "error"

Replay ==
  /\ worker = "task"
  /\ \E s \in AttemptStatuses(Primary) :
       /\ circuit' \in CircuitAfter(Primary, s)
       /\ \/ /\ s \in Retryable
             /\ replayTry + 1 < MaxAttempts
             /\ replayTry' = replayTry + 1
             /\ UNCHANGED bufferVars
          \/ /\ s \notin Retryable \/ replayTry + 1 = MaxAttempts
             /\ replayTry' = 0
             /\ TaskReturns(Outcome(s))
  /\ UNCHANGED <<link, writer, targets, attempt, status, sent>>

-----------------------------------------------------------------------------
(* The environment                                                          *)

\* A database goes away or comes back.
LinkChange(n) ==
  /\ link[n] # "gone"
  /\ link' = [link EXCEPT ![n] = IF @ = "up" THEN "down" ELSE "up"]
  /\ UNCHANGED <<bufferVars, circuit, writer, targets, attempt, status, sent,
                 replayTry>>

\* The manager shuts down, or removes the data source, and drops its pool.
PoolGone(n) ==
  /\ link[n] # "gone"
  /\ link' = [link EXCEPT ![n] = "gone"]
  /\ UNCHANGED <<bufferVars, circuit, writer, targets, attempt, status, sent,
                 replayTry>>

\* Other callers' failures open a circuit; its time passes and a probe closes it.
CircuitChange(n) ==
  /\ circuit' = [circuit EXCEPT ![n] = IF @ = "closed" THEN "open" ELSE "closed"]
  /\ UNCHANGED <<bufferVars, link, writer, targets, attempt, status, sent,
                 replayTry>>

Next ==
  \/ \E w \in Writes : Dispatch(w) \/ Attempt(w) \/ Buffer(w)
  \/ Replay
  \/ BufferStep /\ UNCHANGED groupVars
  \/ \E n \in Nodes : LinkChange(n) \/ PoolGone(n) \/ CircuitChange(n)

Spec == Init /\ [][Next]_vars

\* The worker thread keeps running, its tasks return, buffered writes age and a
\* join that can return does.
FairSpec ==
  /\ Spec
  /\ WF_vars(WorkerStep /\ UNCHANGED groupVars)
  /\ WF_vars(Replay)
  /\ WF_vars(StopEnd /\ UNCHANGED groupVars)
  /\ \A w \in Writes : WF_vars(Age(w) /\ UNCHANGED groupVars)

-----------------------------------------------------------------------------
(* Properties                                                               *)

\* Each piece of state keeps to its values.
TypeOK ==
  /\ BufferTypeOK
  /\ link \in [Nodes -> {"up", "down", "gone"}]
  /\ circuit \in [Nodes -> {"closed", "open"}]
  /\ writer \in [Writes -> {"idle", "leaf", "buffer", "done"}]
  /\ targets \in [Writes -> Seq(Nodes)]
  /\ attempt \in [Writes -> 0..MaxAttempts]
  /\ status \in [Writes -> Statuses]
  /\ sent \in [Writes -> SUBSET Nodes]
  /\ replayTry \in 0..(MaxAttempts - 1)
  /\ \A w \in Writes : writer[w] = "leaf" => targets[w] # <<>>

\* docs/guide.md:489-492: a write goes on to another candidate, or into the
\* buffer, only if no candidate can have executed it; one that was interrupted
\* is not replayed blindly on another primary.
NoBlindReplay ==
  \A w \in Writes :
    /\ Cardinality(sent[w]) <= 1
    /\ writer[w] = "buffer" \/ status[w] = "buffered" => sent[w] = {}

\* docs/guide_en.md:1757: with CircuitOpen, and so with the pool errors that
\* stand for a borrow that failed, the database was not reached; with success
\* it was.
StatusTruthful ==
  \A w \in Writes :
    writer[w] = "done" =>
      /\ status[w] \in {"circuit_open", "unborrowed", "buffered"} => sent[w] = {}
      /\ status[w] = "ok" => sent[w] # {}

\* docs/guide_en.md:812-814: a shadow write reaches no production database: it
\* is executed on no candidate, falls back to none, and never enters the buffer,
\* whose replay would run it on the primary.
ShadowIsolated ==
  \A w \in ShadowWrites : sent[w] \cap ToSet(Candidates) = {} /\ fate[w] = "new"

\* A buffered write is settled, by a replay, its age, the bound or the final
\* pass, even if the primary never comes back.
Settles ==
  \A w \in Writes : fate[w] = "queued" ~> fate[w] # "queued"

\* docs/guide.md:490: a failed connect switches to the next candidate.
ConnectFailureSwitches ==
  \A w \in Writes :
    writer[w] = "done" /\ status[w] = "connect_failed" => Len(targets[w]) = 1

\* docs/guide_en.md:450: a buffered write "is replayed by a background flush
\* thread after the primary recovers": no replay drops it while the circuit of
\* the primary is open.
ReplayedAfterRecovery ==
  [][\A w \in Writes : fate[w] = "queued" /\ fate'[w] = "failed" /\ ~finalPass
                         => circuit[Primary] = "closed"]_vars
=============================================================================
