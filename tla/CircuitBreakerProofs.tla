------------------------ MODULE CircuitBreakerProofs ------------------------
(***************************************************************************)
(* CircuitBreaker is type correct, and without openCursor the half-open     *)
(* flag always has an attempt in flight that will clear it, for every set   *)
(* of callers and every threshold.                                          *)
(***************************************************************************)
EXTENDS CircuitBreaker, TLAPS

\* Saturate keeps a count within 0..Threshold (the bound of the failure count).
LEMMA SaturateType ==
  ASSUME NEW n \in 0..Threshold
  PROVE  Saturate(n + 1) \in 0..Threshold
BY BreakerAssumption DEF Saturate

\* The initial state is type correct: an idle, closed breaker.
LEMMA TypeOKInit == Init => TypeOK
<1>1. 0 \in 0..Threshold
  BY BreakerAssumption
<1>2. Init => pc \in [Callers -> CallerStates]
  BY DEF Init, CallerStates
<1>3. Init => halfOpen \in BOOLEAN /\ up \in BOOLEAN
  BY DEF Init
<1> QED BY <1>1, <1>2, <1>3 DEF Init, TypeOK

\* Every step of the callers' code keeps the types of the three atomics and of
\* the program counters.
LEMMA TypeOKStep ==
  ASSUME TypeOK, [Next]_vars
  PROVE  TypeOK'
<1> USE DEF TypeOK, CallerStates, Goto
<1>1. ASSUME NEW t \in Callers, Load(t) PROVE TypeOK'
  BY <1>1 DEF Load
<1>2. ASSUME NEW t \in Callers, Proceed(t) PROVE TypeOK'
  <2>1. CASE Probe(t) BY <2>1 DEF Probe
  <2>2. CASE Succeed(t) BY <2>2, BreakerAssumption DEF Succeed
  <2>3. CASE Fault(t) BY <2>3, SaturateType DEF Fault
  <2>4. CASE Benign(t) BY <2>4, BreakerAssumption DEF Benign
  <2>5. CASE Commit(t) BY <2>5, BreakerAssumption DEF Commit
  <2>6. CASE ResetFails(t) BY <2>6, BreakerAssumption DEF ResetFails
  <2>7. CASE ReleaseProbe(t) BY <2>7 DEF ReleaseProbe
  <2>8. CASE Close(t) BY <2>8 DEF Close
  <2>9. CASE Count(t) BY <2>9, SaturateType DEF Count
  <2>10. CASE Open(t) BY <2>10 DEF Open
  <2> QED BY <1>2, <2>1, <2>2, <2>3, <2>4, <2>5, <2>6, <2>7, <2>8, <2>9, <2>10
          DEF Proceed
<1>3. CASE Tick BY <1>3 DEF Tick
<1>4. CASE Outage BY <1>4 DEF Outage
<1>5. CASE UNCHANGED vars BY <1>5 DEF vars
<1> QED BY <1>1, <1>2, <1>3, <1>4, <1>5 DEF Next

\* A caller that stays before the point where afterAttempt clears the flag
\* keeps ProbeOutstanding, whatever happened to the flag (Load, Probe).
LEMMA StillInFlight ==
  ASSUME NEW t \in Callers, pc'[t] \in {"run", "ok1", "ok2", "fault1", "benign1"}
  PROVE  ProbeOutstanding'
BY DEF ProbeOutstanding, InFlight

\* A step that leaves the flag alone and takes nobody out of the code before
\* that point keeps ProbeOutstanding (the stores that follow it, the clock).
LEMMA NobodyLeaves ==
  ASSUME ProbeOutstanding, halfOpen' = halfOpen,
         \A t \in Callers : t \in InFlight => t \in InFlight'
  PROVE  ProbeOutstanding'
BY DEF ProbeOutstanding, InFlight

\* Every step keeps a probe outstanding: an attempt of a call or a transaction
\* leaves the code before the point only by clearing the flag.
LEMMA ProbeOutstandingStep ==
  ASSUME TypeOK, ProbeOutstanding, "cursor" \notin Kinds, [Next]_vars
  PROVE  ProbeOutstanding'
<1>1. ASSUME NEW t \in Callers, Load(t) PROVE ProbeOutstanding'
  BY <1>1, NobodyLeaves DEF Load, InFlight, TypeOK, Goto
<1>2. ASSUME NEW t \in Callers, Proceed(t) PROVE ProbeOutstanding'
  <2>1. CASE Probe(t)
    <3>1. CASE halfOpen
      BY <2>1, <3>1, NobodyLeaves DEF Probe, InFlight, TypeOK, Goto
    <3>2. CASE ~halfOpen
      BY <2>1, <3>2, StillInFlight DEF Probe, TypeOK, Goto
    <3> QED BY <3>1, <3>2
  <2>2. CASE Succeed(t)
    <3>1. kind[t] # "cursor" BY DEF TypeOK
    <3> QED BY <2>2, <3>1, StillInFlight DEF Succeed, TypeOK, Goto
  <2>3. CASE Fault(t) BY <2>3, StillInFlight DEF Fault, TypeOK, Goto
  <2>4. CASE Benign(t) BY <2>4, StillInFlight DEF Benign, TypeOK, Goto
  <2>5. CASE Commit(t)
    BY <2>5, NobodyLeaves DEF Commit, InFlight, TypeOK, Goto
  <2>6. CASE ResetFails(t)
    <3>1. CASE pc[t] = "ok1"
      BY <2>6, <3>1, StillInFlight DEF ResetFails, TypeOK, Goto
    <3>2. CASE pc[t] # "ok1"
      BY <2>6, <3>2, NobodyLeaves DEF ResetFails, InFlight, TypeOK, Goto
    <3> QED BY <3>1, <3>2
  <2>7. CASE ReleaseProbe(t) BY <2>7 DEF ReleaseProbe, ProbeOutstanding
  <2>8. CASE Close(t) BY <2>8, NobodyLeaves DEF Close, InFlight, TypeOK, Goto
  <2>9. CASE Count(t) BY <2>9, NobodyLeaves DEF Count, InFlight, TypeOK, Goto
  <2>10. CASE Open(t) BY <2>10, NobodyLeaves DEF Open, InFlight, TypeOK, Goto
  <2> QED BY <1>2, <2>1, <2>2, <2>3, <2>4, <2>5, <2>6, <2>7, <2>8, <2>9, <2>10
          DEF Proceed
<1>3. CASE Tick BY <1>3, NobodyLeaves DEF Tick, InFlight
<1>4. CASE Outage BY <1>4, NobodyLeaves DEF Outage, InFlight
<1>5. CASE UNCHANGED vars BY <1>5, NobodyLeaves DEF vars, InFlight
<1> QED BY <1>1, <1>2, <1>3, <1>4, <1>5 DEF Next

\* The breaker is type correct (beforeAttempt and afterAttempt, any callers).
THEOREM BreakerTypeCorrect == Spec => []TypeOK
<1>1. Init => TypeOK
  BY TypeOKInit
<1>2. TypeOK /\ [Next]_vars => TypeOK'
  BY TypeOKStep
<1> QED BY <1>1, <1>2, PTL DEF Spec

\* As long as openCursor is not used, halfOpenInFlight_ is never left set with
\* no attempt in flight to clear it: the gate cannot stay shut for ever.
THEOREM BreakerProbeOutstanding ==
  ASSUME "cursor" \notin Kinds
  PROVE  Spec => []ProbeOutstanding
<1>1. Init => TypeOK /\ ProbeOutstanding
  BY TypeOKInit DEF Init, ProbeOutstanding
<1>2. TypeOK /\ ProbeOutstanding /\ [Next]_vars => (TypeOK /\ ProbeOutstanding)'
  BY TypeOKStep, ProbeOutstandingStep
<1> QED BY <1>1, <1>2, PTL DEF Spec
=============================================================================
