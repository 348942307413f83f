--------------------------- MODULE CircuitBreaker ---------------------------
(***************************************************************************)
(* The circuit breaker of one data source: beforeAttempt and afterAttempt   *)
(* of sqlconduit::core::DataSource (src/core/database_manager.cpp) and the  *)
(* calls that every entry point makes to them.  The breaker is three        *)
(* atomics and no lock, so each load, store, increment or compare-exchange  *)
(* is an action of its own and the callers interleave between them.         *)
(*                                                                          *)
(* A retry of an entry point passes the gate again and is a new attempt.    *)
(* Time is what it is compared with: openUntil is the zero time point, in   *)
(* the future or in the past.                                               *)
(***************************************************************************)
EXTENDS Integers, FiniteSets

CONSTANTS
  Callers,         \* threads inside the entry points of the data source
  Kinds,           \* the entry points in use, a subset of AllKinds
  Threshold,       \* circuit_breaker.failure_threshold, when positive
  BenignWhileDown  \* an attempt may fail without a fault while the database
                   \* is down, as PoolExhausted does

\* call: query, execute, batch, streaming and session, one afterAttempt for
\* every attempt; cursor: openCursor; tx: transaction.
AllKinds == {"call", "cursor", "tx"}

ASSUME BreakerAssumption ==
  /\ IsFiniteSet(Callers)
  /\ Kinds \subseteq AllKinds
  /\ Threshold \in Nat \ {0}
  /\ BenignWhileDown \in BOOLEAN

VARIABLES
  openUntil,   \* circuitOpenUntil_
  halfOpen,    \* halfOpenInFlight_
  fails,       \* consecutiveFailures_, counted up to Threshold
  pc,          \* where each caller stands
  kind,        \* the entry point each caller is in
  up,          \* the database answers without a fault
  streak       \* history: the last calls that ended with a fault in a row,
               \* counted up to Threshold

vars == <<openUntil, halfOpen, fails, pc, kind, up, streak>>

\* cas      loaded an expired openUntil, about to try the half-open flag
\* run      past the gate, attempting
\* ok1..3, fault1..3, benign1..3   before each store of afterAttempt
\* commit   a transaction whose callback succeeded, committing
CallerStates == {"idle", "cas", "run", "ok1", "ok2", "ok3", "fault1", "fault2",
                 "fault3", "benign1", "benign2", "benign3", "commit"}

Saturate(n) == IF n > Threshold THEN Threshold ELSE n

Init ==
  /\ openUntil = "zero"
  /\ halfOpen = FALSE
  /\ fails = 0
  /\ pc = [t \in Callers |-> "idle"]
  /\ kind \in [Callers -> Kinds]
  /\ up = TRUE
  /\ streak = 0

Goto(t, l) == pc' = [pc EXCEPT ![t] = l]

-----------------------------------------------------------------------------
(* beforeAttempt                                                            *)

\* The load of circuitOpenUntil_: CircuitOpen, an attempt, or the half-open
\* flag decides.
Load(t) ==
  /\ pc[t] = "idle"
  /\ \E k \in Kinds : kind' = [kind EXCEPT ![t] = k]
  /\ \/ openUntil = "future" /\ UNCHANGED pc
     \/ openUntil = "zero" /\ Goto(t, "run")
     \/ openUntil = "past" /\ Goto(t, "cas")
  /\ UNCHANGED <<openUntil, halfOpen, fails, up, streak>>

\* The compare-exchange on halfOpenInFlight_: CircuitOpen if it is taken.
Probe(t) ==
  /\ pc[t] = "cas"
  /\ \/ halfOpen /\ Goto(t, "idle") /\ UNCHANGED halfOpen
     \/ ~halfOpen /\ Goto(t, "run") /\ halfOpen' = TRUE
  /\ UNCHANGED <<openUntil, fails, kind, up, streak>>

-----------------------------------------------------------------------------
(* The attempt                                                              *)

\* The attempt succeeds.  openCursor returns without calling afterAttempt.
Succeed(t) ==
  /\ pc[t] = "run"
  /\ up
  /\ Goto(t, IF kind[t] = "cursor" THEN "idle" ELSE "ok1")
  /\ streak' = IF kind[t] = "tx" THEN streak ELSE 0
  /\ UNCHANGED <<openUntil, halfOpen, fails, kind, up>>

\* Mutant: a status that only says the connection broke is not a fault.
FaultOverlooked(t) ==
  /\ pc[t] \in {"run", "commit"}
  /\ ~up
  /\ Goto(t, "benign1")
  /\ streak' = Saturate(streak + 1)
  /\ UNCHANGED <<openUntil, halfOpen, fails, kind, up>>

\* The attempt, or the commit of a transaction, ends with a status that is
\* retryable or says that the connection broke.
Fault(t) ==
  /\ pc[t] \in {"run", "commit"}
  /\ ~up
  /\ Goto(t, "fault1")
  /\ streak' = Saturate(streak + 1)
  /\ UNCHANGED <<openUntil, halfOpen, fails, kind, up>>

\* It ends with any other error.
Benign(t) ==
  /\ pc[t] \in {"run", "commit"}
  /\ up \/ BenignWhileDown
  /\ Goto(t, "benign1")
  /\ streak' = 0
  /\ UNCHANGED <<openUntil, halfOpen, fails, kind, up>>

\* The commit of a transaction succeeds, or its callback has left nothing to
\* commit; afterAttempt is not called again.
Commit(t) ==
  /\ pc[t] = "commit"
  /\ Goto(t, "idle")
  /\ streak' = 0
  /\ UNCHANGED <<openUntil, halfOpen, fails, kind, up>>

-----------------------------------------------------------------------------
(* afterAttempt                                                             *)

\* consecutiveFailures_.store(0)
ResetFails(t) ==
  /\ \/ pc[t] = "ok1" /\ Goto(t, "ok2")
     \/ pc[t] = "benign2" /\ Goto(t, "benign3")
  /\ fails' = 0
  /\ UNCHANGED <<openUntil, halfOpen, kind, up, streak>>

\* Mutant: only a success releases the half-open flag.
ReleaseProbeOnSuccessOnly(t) ==
  /\ \/ pc[t] = "ok2" /\ Goto(t, "ok3") /\ halfOpen' = FALSE
     \/ pc[t] = "fault1" /\ Goto(t, "fault2") /\ UNCHANGED halfOpen
     \/ pc[t] = "benign1" /\ Goto(t, "benign2") /\ UNCHANGED halfOpen
  /\ UNCHANGED <<openUntil, fails, kind, up, streak>>

\* halfOpenInFlight_.store(false), whether or not this caller set it
ReleaseProbe(t) ==
  /\ \/ pc[t] = "ok2" /\ Goto(t, "ok3")
     \/ pc[t] = "fault1" /\ Goto(t, "fault2")
     \/ pc[t] = "benign1" /\ Goto(t, "benign2")
  /\ halfOpen' = FALSE
  /\ UNCHANGED <<openUntil, fails, kind, up, streak>>

\* Mutant: a success leaves the circuit as it is.
CloseForgotten(t) ==
  /\ \/ pc[t] = "ok3" /\ Goto(t, IF kind[t] = "tx" THEN "commit" ELSE "idle")
     \/ pc[t] = "benign3" /\ Goto(t, "idle")
  /\ UNCHANGED <<openUntil, halfOpen, fails, kind, up, streak>>

\* circuitOpenUntil_.store({}); a transaction goes on to its commit.
Close(t) ==
  /\ \/ pc[t] = "ok3" /\ Goto(t, IF kind[t] = "tx" THEN "commit" ELSE "idle")
     \/ pc[t] = "benign3" /\ Goto(t, "idle")
  /\ openUntil' = "zero"
  /\ UNCHANGED <<halfOpen, fails, kind, up, streak>>

\* ++consecutiveFailures_, compared with the threshold
Count(t) ==
  /\ pc[t] = "fault2"
  /\ fails' = Saturate(fails + 1)
  /\ Goto(t, IF fails + 1 >= Threshold THEN "fault3" ELSE "idle")
  /\ UNCHANGED <<openUntil, halfOpen, kind, up, streak>>

\* circuitOpenUntil_.store(now + open_interval_ms)
Open(t) ==
  /\ pc[t] = "fault3"
  /\ openUntil' = "future"
  /\ Goto(t, "idle")
  /\ UNCHANGED <<halfOpen, fails, kind, up, streak>>

-----------------------------------------------------------------------------
(* The environment                                                          *)

\* open_interval_ms passes.
Tick ==
  /\ openUntil = "future"
  /\ openUntil' = "past"
  /\ UNCHANGED <<halfOpen, fails, pc, kind, up, streak>>

\* The database goes down or comes back.
Outage ==
  /\ up' = ~up
  /\ UNCHANGED <<openUntil, halfOpen, fails, pc, kind, streak>>

\* What a caller past the gate does until it is done.
Proceed(t) ==
  \/ Probe(t) \/ Succeed(t) \/ Fault(t) \/ Benign(t) \/ Commit(t)
  \/ ResetFails(t) \/ ReleaseProbe(t) \/ Close(t) \/ Count(t) \/ Open(t)

Next ==
  \/ \E t \in Callers : Load(t) \/ Proceed(t)
  \/ Tick
  \/ Outage

Spec == Init /\ [][Next]_vars

\* Callers keep calling, no thread stops inside an attempt, time passes.
FairSpec ==
  /\ Spec
  /\ \A t \in Callers : WF_vars(Load(t)) /\ WF_vars(Proceed(t))
  /\ WF_vars(Tick)

-----------------------------------------------------------------------------
(* Properties                                                               *)

\* Every caller stands at a point of its code; the failure count and the open
\* time keep to their values.
TypeOK ==
  /\ openUntil \in {"zero", "future", "past"}
  /\ halfOpen \in BOOLEAN
  /\ fails \in 0..Threshold
  /\ pc \in [Callers -> CallerStates]
  /\ kind \in [Callers -> Kinds]
  /\ up \in BOOLEAN
  /\ streak \in 0..Threshold

\* Before the point where afterAttempt clears halfOpenInFlight_.
InFlight == {t \in Callers : pc[t] \in {"run", "ok1", "ok2", "fault1", "benign1"}}

\* The half-open flag is never left behind: while it is set, some attempt that
\* will clear it is in flight.  Otherwise no caller would pass the gate again.
ProbeOutstanding == halfOpen => InFlight # {}

\* tests/sqlconduit_core_test.cpp:755 and :774: once the database answers again
\* the circuit closes, and stays closed.
Recovers == <>[]up => <>[](openUntil = "zero")

\* If every attempt fails from some time on, the circuit is open, or waiting for
\* a probe, from some time on: no late success of an earlier attempt and no
\* probe keeps it closed.
Trips == <>[]~up => <>[](openUntil # "zero")

\* docs/guide_en.md:1874: "Consecutive-failure threshold".  For a single caller:
\* after Threshold calls in a row that failed with a fault the circuit is not
\* closed.
ThresholdOpens ==
  (\A t \in Callers : pc[t] = "idle") /\ streak = Threshold
     => openUntil # "zero"

\* tests/sqlconduit_core_test.cpp:770: with the circuit open the driver is not
\* reached any more.
NoAttemptWhileOpen ==
  [][\A t \in Callers : pc[t] # "run" /\ pc'[t] = "run"
                          => openUntil # "future"]_vars
=============================================================================
