------------------------ MODULE ConnectionPoolProofs ------------------------
(***************************************************************************)
(* Proofs about ConnectionPool, for any number of clients, requests and     *)
(* connections.                                                             *)
(***************************************************************************)
EXTENDS ConnectionPool, FiniteSetTheorems, TLAPS

AllStates == ClientStates \cup RequestStates \cup BeatStates \cup ReaperStates

\* The threads form a finite set, so counting them is meaningful.
LEMMA ThreadsFinite == IsFiniteSet(Threads)
<1>1. IsFiniteSet({Beat})
  BY FS_Singleton
<1>2. IsFiniteSet({Beat} \cup {Reaper})
  BY <1>1, FS_AddElement
<1>3. IsFiniteSet(Clients \cup Requests)
  BY ThreadsAssumption, FS_Union
<1>4. IsFiniteSet((Clients \cup Requests) \cup ({Beat} \cup {Reaper}))
  BY <1>2, <1>3, FS_Union
<1>5. Threads = (Clients \cup Requests) \cup ({Beat} \cup {Reaper})
  BY DEF Threads
<1> QED
  BY <1>4, <1>5

-----------------------------------------------------------------------------
(* The type invariant                                                       *)

\* What NotifyOne and NotifyAll do: sleepers wake up, nobody else moves.
LEMMA Notified ==
  ASSUME TypeOK,
         NEW p, p \in NotifyOne(pc) \/ p = NotifyAll(pc) \/ p = pc
  PROVE  /\ p \in [Threads -> AllStates]
         /\ \A t \in Threads : \/ p[t] = pc[t]
                               \/ /\ pc[t] = "waiting" /\ p[t] = "woken"
                                  /\ t \in Clients \cup {Reaper}
  BY DEF NotifyOne, NotifyAll, Sleepers, TypeOK, AllStates, Threads,
         ClientStates, RequestStates, BeatStates, ReaperStates

\* The states of the threads stay within their sets if thread t goes to s and
\* the others stay, wake up or leave the queue.
PcType(p) ==
  /\ p \in [Threads -> AllStates]
  /\ \A c \in Clients : p[c] \in ClientStates
  /\ \A r \in Requests : p[r] \in RequestStates
  /\ p[Beat] \in BeatStates
  /\ p[Reaper] \in ReaperStates

\* TypeOK gives the standing of the threads its type.
LEMMA PcTypeOK == TypeOK => PcType(pc)
  BY DEF TypeOK, PcType, AllStates

\* A notification keeps the standing of the threads well typed.
LEMMA PcNotified ==
  ASSUME TypeOK,
         NEW p, p \in NotifyOne(pc) \/ p = NotifyAll(pc) \/ p = pc
  PROVE  PcType(p)
<1>1. /\ p \in [Threads -> AllStates]
      /\ \A t \in Threads : \/ p[t] = pc[t]
                            \/ /\ pc[t] = "waiting" /\ p[t] = "woken"
                               /\ t \in Clients \cup {Reaper}
  BY Notified
<1> QED
  BY <1>1, ThreadsAssumption
  DEF TypeOK, PcType, AllStates, Threads, ClientStates, RequestStates,
      BeatStates, ReaperStates

\* Moving one thread to a state of its own kind.
KindOf(t) == IF t \in Clients THEN ClientStates
             ELSE IF t \in Requests THEN RequestStates
             ELSE IF t = Beat THEN BeatStates ELSE ReaperStates

\* So does moving one thread to a state of its kind.
LEMMA PcMove ==
  ASSUME NEW p, PcType(p), NEW t \in Threads,
         NEW q, \E s \in KindOf(t) : q = [p EXCEPT ![t] = s]
  PROVE  PcType(q)
  BY ThreadsAssumption DEF PcType, AllStates, Threads, KindOf

\* The threads are of four kinds that do not overlap.
LEMMA Kinds ==
  /\ \A c \in Clients : KindOf(c) = ClientStates
  /\ \A r \in Requests : KindOf(r) = RequestStates
  /\ KindOf(Beat) = BeatStates
  /\ KindOf(Reaper) = ReaperStates
  BY ThreadsAssumption DEF KindOf

\* The initial state is well typed.
LEMMA TypeInit == Init => TypeOK
<1> SUFFICES ASSUME Init PROVE TypeOK
  OBVIOUS
<1>1. idle \in Nat
  BY SizesAssumption DEF Init
<1>2. total \in Int /\ net \in Int /\ borrowed \in Nat /\ hcLeft \in Nat /\ hcNeed \in Nat
  BY <1>1 DEF Init
<1>3. closed \in BOOLEAN /\ grace \in BOOLEAN
  BY DEF Init
<1>4. PcType(pc)
  BY DEF Init, PcType, AllStates, Threads, ClientStates, RequestStates, BeatStates,
      ReaperStates
<1> QED
  BY <1>1, <1>2, <1>3, <1>4 DEF TypeOK, PcType, AllStates

\* The numbers and the flags of the type invariant.
NumType ==
  /\ idle \in Nat /\ total \in Int /\ borrowed \in Nat /\ net \in Int
  /\ hcLeft \in Nat /\ hcNeed \in Nat

FlagType == closed \in BOOLEAN /\ grace \in BOOLEAN

\* TypeOK in three parts: counters, flags and threads.
LEMMA TypeSplit == TypeOK <=> NumType /\ FlagType /\ PcType(pc)
  BY DEF TypeOK, NumType, FlagType, PcType, AllStates

\* Clamp yields a natural number.
LEMMA ClampType == \A x \in Int : Clamp(x) \in Nat /\ Clamp(x) \in Int
  BY DEF Clamp

\* Dec keeps a natural number natural and an integer an integer.
LEMMA DecType == /\ \A x \in Nat : Dec(x) \in Nat
                 /\ \A x \in Int : Dec(x) \in Int
  BY DEF Dec

\* One pass of the borrow loop keeps the types.
LEMMA LoopType ==
  ASSUME NumType, NEW c \in Clients, NEW p, PcType(p),
         NEW n \in Int, NEW m \in Int, BorrowLoop(c, p, n, m)
  PROVE  NumType' /\ PcType(pc')
<1>1. NumType'
  BY DEF NumType, BorrowLoop, locals
<1>2. \E s \in {"idle", "probe", "create", "waiting"} : pc' = [p EXCEPT ![c] = s]
  BY DEF BorrowLoop
<1>3. \E s \in KindOf(c) : pc' = [p EXCEPT ![c] = s]
  BY <1>2, Kinds DEF ClientStates
<1>4. PcType(pc')
  BY <1>3, PcMove DEF Threads
<1> QED
  BY <1>1, <1>4

\* The steps of borrow keep counters and threads well typed.
LEMMA ClientType ==
  ASSUME TypeOK, NEW c \in Clients, ClientStep(c)
  PROVE  NumType' /\ PcType(pc')
<1> c \in Threads /\ NumType /\ PcType(pc) /\ total \in Int /\ net \in Int
  BY TypeSplit DEF Threads, NumType
<1>1. CASE Borrow(c) \/ Resume(c)
  BY <1>1, LoopType DEF Borrow, Resume
<1>2. CASE ProbeDead(c)
  <2>1. PICK p \in NotifyOne(pc) : BorrowLoop(c, p, Clamp(total - 1), net - 1)
    BY <1>2 DEF ProbeDead
  <2>2. PcType(p)
    BY <2>1, PcNotified
  <2>3. Clamp(total - 1) \in Int /\ net - 1 \in Int
    BY ClampType
  <2> QED
    BY <2>1, <2>2, <2>3, LoopType
<1>3. CASE BorrowTimeout(c) \/ BorrowUnpooled(c)
  <2>1. \E s \in {"idle", "create"} : pc' = [pc EXCEPT ![c] = s]
    BY <1>3 DEF BorrowTimeout, BorrowUnpooled
  <2>2. \E s \in KindOf(c) : pc' = [pc EXCEPT ![c] = s]
    BY <2>1, Kinds DEF ClientStates
  <2>3. NumType'
    BY <1>3 DEF BorrowTimeout, BorrowUnpooled, NumType, counters, locals
  <2> QED
    BY <2>2, <2>3, PcMove
<1>4. CASE ProbeAlive(c) \/ CreateOk(c)
  <2>1. \E s \in {"idle", "holding"} : pc' = [pc EXCEPT ![c] = s]
    BY <1>4 DEF ProbeAlive, CreateOk
  <2>2. \E s \in KindOf(c) : pc' = [pc EXCEPT ![c] = s]
    BY <2>1, Kinds DEF ClientStates
  <2>3. NumType'
    BY <1>4 DEF ProbeAlive, CreateOk, NumType, locals
  <2> QED
    BY <2>2, <2>3, PcMove
<1>5. CASE CreateFail(c)
  <2>1. PICK p \in NotifyOne(pc) \cup {pc} : pc' = [p EXCEPT ![c] = "idle"]
    BY <1>5 DEF CreateFail
  <2>2. \E s \in KindOf(c) : pc' = [p EXCEPT ![c] = s]
    BY <2>1, Kinds DEF ClientStates
  <2>3. PcType(p)
    BY <2>1, PcNotified
  <2>4. NumType'
    BY <1>5, ClampType DEF CreateFail, NumType, locals
  <2> QED
    BY <2>2, <2>3, <2>4, PcMove
<1> QED
  BY <1>1, <1>2, <1>3, <1>4, <1>5 DEF ClientStep

\* Requests that leave the queue for a state of their own.
LEMMA PcLeave ==
  ASSUME NEW p, PcType(p), NEW S \in SUBSET Requests, NEW s \in RequestStates
  PROVE  PcType([t \in Threads |-> IF t \in S THEN s ELSE p[t]])
  BY ThreadsAssumption DEF PcType, AllStates, Threads

\* So does expireWaiters.
LEMMA ExpireType ==
  ASSUME TypeOK, NEW t \in Threads, NEW s \in KindOf(t), ExpireWaiters(t, s)
  PROVE  PcType(pc')
<1>1. PICK late \in SUBSET Queued :
        pc' = [u \in Threads |-> IF u = t THEN s
                                 ELSE IF u \in late THEN "idle" ELSE pc[u]]
  BY DEF ExpireWaiters
<1> DEFINE p == [u \in Threads |-> IF u \in late THEN "idle" ELSE pc[u]]
<1>2. PcType(p)
  BY PcLeave, TypeSplit DEF Queued, RequestStates
<1>3. pc' = [p EXCEPT ![t] = s]
  BY <1>1
<1> HIDE DEF p
<1> QED
  BY <1>2, <1>3, PcMove

\* So do the steps of borrowAsync.
LEMMA RequestType ==
  ASSUME TypeOK, NEW r \in Requests, RequestStep(r)
  PROVE  NumType' /\ PcType(pc')
<1> r \in Threads /\ NumType /\ PcType(pc)
  BY TypeSplit DEF Threads
<1>1. CASE AsyncBorrow(r)
  <2>1. "enter" \in KindOf(r)
    BY Kinds DEF RequestStates
  <2>2. PcType(pc')
    BY <1>1, <2>1, ExpireType DEF AsyncBorrow
  <2>3. NumType'
    BY <1>1 DEF AsyncBorrow, NumType, counters, locals
  <2> QED
    BY <2>2, <2>3
<1>2. CASE AsyncEnter(r)
  <2>1. \E s \in {"idle", "create", "reclose", "ping", "queued",
                     "holding"} :
           pc' = [pc EXCEPT ![r] = s]
    BY <1>2 DEF AsyncEnter
  <2>2. \E s \in KindOf(r) : pc' = [pc EXCEPT ![r] = s]
    BY <2>1, Kinds DEF RequestStates
  <2>3. NumType'
    <3>1. idle' = idle \/ (idle > 0 /\ idle' = idle - 1)
      BY <1>2 DEF AsyncEnter
    <3>2. total' = total \/ total' = total + 1 \/ total' = Clamp(total - 1)
      BY <1>2 DEF AsyncEnter
    <3>3. net' = net \/ net' = net - 1
      BY <1>2 DEF AsyncEnter
    <3>4. /\ borrowed' = borrowed \/ borrowed' = borrowed + 1
          /\ UNCHANGED <<hcLeft, hcNeed>>
      BY <1>2 DEF AsyncEnter, locals
    <3> QED
      BY <3>1, <3>2, <3>3, <3>4 DEF NumType, Clamp
  <2> QED
    BY <2>2, <2>3, PcMove
<1>3. CASE AsyncPing(r) \/ AsyncDrop(r) \/ AsyncCreate(r)
  <2>1. \E s \in {"idle", "holding", "drop", "reclose"} :
           pc' = [pc EXCEPT ![r] = s]
    BY <1>3 DEF AsyncPing, AsyncDrop, AsyncCreate
  <2>2. \E s \in KindOf(r) : pc' = [pc EXCEPT ![r] = s]
    BY <2>1, Kinds DEF RequestStates
  <2>3. NumType'
    BY <1>3 DEF AsyncPing, AsyncDrop, AsyncCreate, NumType, locals, Clamp, Dec
  <2> QED
    BY <2>2, <2>3, PcMove
<1> QED
  BY <1>1, <1>2, <1>3 DEF RequestStep

\* So do the steps of returnConn.
LEMMA ReturnType ==
  ASSUME TypeOK, NEW t \in Clients \cup Requests, ReturnStep(t)
  PROVE  NumType' /\ PcType(pc')
<1> t \in Threads /\ NumType /\ PcType(pc)
  BY TypeSplit DEF Threads
<1>k. {"idle", "holding", "closing", "notify"} \subseteq KindOf(t)
  BY Kinds DEF ClientStates, RequestStates
<1>1. CASE ReturnClose(t) \/ ReturnOrphan(t)
  <2>1. \E s \in KindOf(t) : pc' = [pc EXCEPT ![t] = s]
    BY <1>1, <1>k DEF ReturnClose, ReturnOrphan
  <2>2. NumType'
    BY <1>1 DEF ReturnClose, ReturnOrphan, NumType, counters, locals, Dec
  <2> QED
    BY <2>1, <2>2, PcMove
<1>2. CASE ReturnHandoff(t)
  <2>1. PICK late \in SUBSET Queued, r \in Queued :
          pc' = [u \in Threads |-> IF u = t THEN "idle"
                                   ELSE IF u = r THEN "holding"
                                   ELSE IF u \in late THEN "lost"
                                   ELSE pc[u]]
    BY <1>2 DEF ReturnHandoff
  <2> DEFINE p == [u \in Threads |-> IF u \in late THEN "lost" ELSE pc[u]]
             q == [p EXCEPT ![r] = "holding"]
  <2>2. r \in Requests /\ r \in Threads /\ late \in SUBSET Requests
    BY DEF Queued, Threads
  <2>3. PcType(p)
    BY <2>2, PcLeave DEF RequestStates
  <2>4. PcType(q)
    <3>1. "holding" \in KindOf(r)
      BY <2>2, Kinds DEF RequestStates
    <3> HIDE DEF p
    <3> QED
      BY <3>1, <2>2, <2>3, PcMove
  <2>5. pc' = [q EXCEPT ![t] = "idle"]
    BY <2>1, <2>2
  <2>6. PcType(pc')
    <3> HIDE DEF q
    <3> QED
      BY <1>k, <2>4, <2>5, PcMove
  <2>7. NumType'
    BY <1>2 DEF ReturnHandoff, NumType, locals, Dec
  <2> QED
    BY <2>6, <2>7
<1>3. CASE ReturnIdle(t)
  <2> DEFINE p == [u \in Threads |-> IF u \in Queued THEN "idle" ELSE pc[u]]
  <2>1. PcType(p)
    BY PcLeave DEF RequestStates, Queued
  <2>2. pc' = [p EXCEPT ![t] = "notify"]
    BY <1>3 DEF ReturnIdle
  <2>3. PcType(pc')
    <3> HIDE DEF p
    <3> QED
      BY <1>k, <2>1, <2>2, PcMove
  <2>4. NumType'
    BY <1>3 DEF ReturnIdle, NumType, locals, Dec
  <2> QED
    BY <2>3, <2>4
<1>4. CASE ReturnNotify(t)
  <2>1. PICK p \in NotifyOne(pc) : pc' = [p EXCEPT ![t] = "idle"]
    BY <1>4 DEF ReturnNotify
  <2>2. PcType(p)
    BY <2>1, PcNotified
  <2>3. NumType'
    BY <1>4 DEF ReturnNotify, NumType, counters, locals
  <2> QED
    BY <1>k, <2>1, <2>2, <2>3, PcMove
<1> QED
  BY <1>1, <1>2, <1>3, <1>4 DEF ReturnStep

\* So do the steps of healthCheck.
LEMMA HealthType ==
  ASSUME TypeOK, HealthStep
  PROVE  NumType' /\ PcType(pc')
<1> Beat \in Threads /\ NumType /\ PcType(pc) /\ KindOf(Beat) = BeatStates
  BY TypeSplit, Kinds DEF Threads
<1>1. CASE HealthExpire
  <2>1. PcType(pc')
    BY <1>1, ExpireType DEF HealthExpire, BeatStates
  <2>2. NumType'
    BY <1>1 DEF HealthExpire, NumType, counters, locals
  <2> QED
    BY <2>1, <2>2
<1>2. CASE HealthSnapshot \/ HealthTake \/ HealthBreak \/ HealthKeep
           \/ HealthEvict
  <2>1. \E s \in {"take", "probe", "retire", "reserve"} :
           pc' = [pc EXCEPT ![Beat] = s]
    BY <1>2 DEF HealthSnapshot, HealthTake, HealthBreak, HealthKeep, HealthEvict
  <2>2. \E s \in KindOf(Beat) : pc' = [pc EXCEPT ![Beat] = s]
    BY <2>1 DEF BeatStates
  <2>3. NumType'
    <3>1. CASE HealthSnapshot
      BY <3>1 DEF HealthSnapshot, NumType, counters
    <3>2. CASE HealthTake
      BY <3>2 DEF HealthTake, NumType
    <3>3. CASE HealthBreak
      BY <3>3 DEF HealthBreak, NumType, counters
    <3>4. CASE HealthKeep \/ HealthEvict
      BY <3>4 DEF HealthKeep, HealthEvict, NumType, locals, Clamp
    <3> QED
      BY <1>2, <3>1, <3>2, <3>3, <3>4
  <2> QED
    BY <2>2, <2>3, PcMove
<1>3. CASE HealthReserve
  <2>1. \E s \in KindOf(Beat) : pc' = [pc EXCEPT ![Beat] = s]
    BY <1>3 DEF HealthReserve, BeatStates
  <2>2. NumType'
    BY <1>3, SizesAssumption DEF HealthReserve, NumType, locals, Clamp
  <2> QED
    BY <2>1, <2>2, PcMove
<1>4. CASE HealthFill
  <2>1. PICK p : /\ p = NotifyAll(pc) \/ p = pc
                 /\ pc' = [p EXCEPT ![Beat] = "idle"]
    BY <1>4 DEF HealthFill
  <2>2. PcType(p)
    BY <2>1, PcNotified
  <2>3. NumType'
    BY <1>4 DEF HealthFill, NumType, locals, Clamp
  <2>4. "idle" \in KindOf(Beat)
    BY DEF BeatStates
  <2> QED
    BY <2>1, <2>2, <2>3, <2>4, PcMove
<1> QED
  BY <1>1, <1>2, <1>3, <1>4 DEF HealthStep

\* So do the steps of shutdown.
LEMMA ShutdownType ==
  ASSUME TypeOK, ShutdownStep
  PROVE  NumType' /\ PcType(pc')
<1> Reaper \in Threads /\ NumType /\ PcType(pc) /\ KindOf(Reaper) = ReaperStates
  BY TypeSplit, Kinds DEF Threads
<1>g. ASSUME NEW p, NEW g, PcType(p), ShutdownGoOn(p, g)
      PROVE  /\ PcType(pc')
             /\ idle' \in Nat /\ total' \in Int
  <2>1. \E s \in {"closing", "waiting", "deliver"} :
           pc' = [p EXCEPT ![Reaper] = s]
    BY <1>g DEF ShutdownGoOn
  <2>2. \E s \in KindOf(Reaper) : pc' = [p EXCEPT ![Reaper] = s]
    BY <2>1 DEF ReaperStates
  <2>3. idle' \in Nat /\ total' \in Int
    BY <1>g DEF ShutdownGoOn, NumType
  <2> QED
    BY <1>g, <2>2, <2>3, PcMove
<1>1. CASE Shutdown
  <2> DEFINE p == [t \in Threads |-> IF t \in Queued THEN "collected"
                                     ELSE NotifyAll(pc)[t]]
  <2>1. PcType(NotifyAll(pc))
    BY PcNotified
  <2>2. PcType(p)
    BY <2>1, PcLeave DEF Queued, RequestStates
  <2>3. ShutdownGoOn(p, grace')
    BY <1>1 DEF Shutdown
  <2>4. UNCHANGED <<borrowed, net, hcLeft, hcNeed>>
    BY <1>1 DEF Shutdown
  <2> HIDE DEF p
  <2> QED
    BY <1>g, <2>2, <2>3, <2>4 DEF NumType
<1>2. CASE ShutdownClosed \/ ShutdownResume
  <2>1. ShutdownGoOn(pc, grace)
    BY <1>2 DEF ShutdownClosed, ShutdownResume
  <2>2. UNCHANGED <<borrowed, hcLeft, hcNeed>> /\ net' \in Int
    BY <1>2 DEF ShutdownClosed, ShutdownResume, NumType, locals
  <2> QED
    BY <1>g, <2>1, <2>2 DEF NumType
<1>3. CASE ShutdownTimeout \/ Destroy
  <2>1. \E s \in KindOf(Reaper) : pc' = [pc EXCEPT ![Reaper] = s]
    BY <1>3 DEF ShutdownTimeout, Destroy, ReaperStates
  <2>2. NumType'
    BY <1>3 DEF ShutdownTimeout, Destroy, NumType, locals
  <2> QED
    BY <2>1, <2>2, PcMove
<1>4. CASE ShutdownDeliver
  <2> DEFINE C == {t \in Threads : pc[t] = "collected"}
             p == [t \in Threads |-> IF t \in C THEN "idle" ELSE pc[t]]
  <2>1. C \in SUBSET Requests
    BY DEF Threads, PcType, ClientStates, BeatStates, ReaperStates
  <2>2. PcType(p)
    BY <2>1, PcLeave DEF RequestStates
  <2>3. pc' = [p EXCEPT ![Reaper] = "done"]
    BY <1>4 DEF ShutdownDeliver
  <2>4. PcType(pc')
    <3> HIDE DEF p
    <3> QED
      BY <2>2, <2>3, PcMove DEF ReaperStates
  <2>5. NumType'
    BY <1>4 DEF ShutdownDeliver, NumType, counters, locals
  <2> QED
    BY <2>4, <2>5
<1> QED
  BY <1>1, <1>2, <1>3, <1>4 DEF ShutdownStep

\* Every step keeps closed and grace Boolean and hcLeft natural.
LEMMA FlagNext == TypeOK /\ Next => FlagType'
<1> SUFFICES ASSUME TypeOK, Next PROVE FlagType'
  OBVIOUS
<1>1. closed' \in BOOLEAN
  BY DEF TypeOK, Next, ClientStep, Borrow, BorrowLoop, Resume, BorrowTimeout,
     ProbeAlive, ProbeDead, BorrowUnpooled, CreateOk, CreateFail, RequestStep,
     AsyncBorrow, AsyncEnter, AsyncPing, AsyncDrop, AsyncCreate, ReturnStep,
     ReturnClose, ReturnHandoff, ReturnIdle, ReturnNotify, ReturnOrphan,
     HealthStep, HealthExpire, HealthSnapshot, HealthTake, HealthBreak,
     HealthKeep, HealthEvict, HealthReserve, HealthFill, ShutdownStep, Shutdown,
     ShutdownClosed, ShutdownResume, ShutdownTimeout, ShutdownDeliver, Destroy,
     SpuriousWakeup, Finished, vars
<1>2. grace' \in BOOLEAN
  BY SizesAssumption
  DEF TypeOK, Next, ClientStep, Borrow, BorrowLoop, Resume, BorrowTimeout,
     ProbeAlive, ProbeDead, BorrowUnpooled, CreateOk, CreateFail, RequestStep,
     AsyncBorrow, AsyncEnter, AsyncPing, AsyncDrop, AsyncCreate, ReturnStep,
     ReturnClose, ReturnHandoff, ReturnIdle, ReturnNotify, ReturnOrphan,
     HealthStep, HealthExpire, HealthSnapshot, HealthTake, HealthBreak,
     HealthKeep, HealthEvict, HealthReserve, HealthFill, ShutdownStep, Shutdown,
     ShutdownClosed, ShutdownResume, ShutdownTimeout, ShutdownDeliver, Destroy,
     SpuriousWakeup, Finished, vars, locals
<1> QED
  BY <1>1, <1>2 DEF FlagType

\* Every step keeps TypeOK.
LEMMA TypeNext == TypeOK /\ [Next]_vars => TypeOK'
<1> SUFFICES ASSUME TypeOK, [Next]_vars PROVE TypeOK'
  OBVIOUS
<1>1. CASE UNCHANGED vars
  BY <1>1 DEF TypeOK, vars, counters, locals
<1>2. CASE Next
  <2>1. FlagType'
    BY <1>2, FlagNext
  <2>2. NumType' /\ PcType(pc')
    <3>1. CASE \E t \in Clients \cup {Reaper} : SpuriousWakeup(t)
      <4>1. PICK t \in Clients \cup {Reaper} : SpuriousWakeup(t)
        BY <3>1
      <4>2. t \in Threads /\ "woken" \in KindOf(t)
        BY Kinds DEF Threads, ClientStates, ReaperStates
      <4>3. PcType(pc')
        BY <4>1, <4>2, PcMove, TypeSplit DEF SpuriousWakeup
      <4>4. NumType'
        BY <4>1, TypeSplit DEF SpuriousWakeup, NumType, counters, locals
      <4> QED
        BY <4>3, <4>4
    <3>2. CASE Finished
      BY <3>2, TypeSplit DEF Finished, vars, counters, locals, NumType, PcType
    <3> QED
      BY <1>2, <3>1, <3>2, ClientType, RequestType, ReturnType, HealthType,
         ShutdownType DEF Next
  <2>3. TypeOK' <=> NumType' /\ FlagType' /\ PcType(pc')
    BY DEF TypeOK, NumType, FlagType, PcType, AllStates
  <2> QED
    BY <2>1, <2>2, <2>3
<1> QED
  BY <1>1, <1>2

\* Type correctness of the pool: in particular idle and borrowed never drop
\* below zero, so no pop of an empty queue and no clamp of borrowed happens.
THEOREM PoolTypeCorrect == Spec => []TypeOK
  BY TypeInit, TypeNext, PTL DEF Spec

-----------------------------------------------------------------------------
(* Shutdown: what being closed means                                        *)

\* closed is set by the first lock section of shutdown and by nothing else.
ClosedByShutdown == closed <=> pc[Reaper] # "idle"

ShutdownInv ==
  /\ TypeOK
  /\ ClosedByShutdown
  /\ DrainedStaysEmpty
  /\ NobodyWaitsOnClosedPool

\* The three parts of ShutdownInv as one implication each way, over the
\* standing p of the threads.
ShutdownPart(c, p, i) ==
  /\ c = TRUE <=> p[Reaper] # "idle"
  /\ p[Reaper] \in {"waiting", "woken", "deliver", "done", "gone"} => i = 0
  /\ c = TRUE => /\ \A u \in Clients : p[u] # "waiting"
                 /\ \A u \in Requests : p[u] # "queued"

\* ShutdownInv is TypeOK and ShutdownPart of the present state.
LEMMA ShutdownSplit == ShutdownInv <=> TypeOK /\ ShutdownPart(closed, pc, idle)
  BY DEF ShutdownInv, ShutdownPart, ClosedByShutdown, DrainedStaysEmpty,
         NobodyWaitsOnClosedPool, Queued, TypeOK

\* The same for the next state.
LEMMA ShutdownSplitPrime ==
  ShutdownInv' <=> TypeOK' /\ ShutdownPart(closed', pc', idle')
  BY DEF ShutdownInv, ShutdownPart, ClosedByShutdown, DrainedStaysEmpty,
         NobodyWaitsOnClosedPool, Queued, TypeOK

\* A step of a thread other than Reaper keeps it, if closed does not change, a
\* closed pool gains no idle connection and no thread starts to wait on it.
LEMMA ShutdownKept ==
  ASSUME ShutdownPart(closed, pc, idle), TypeOK, closed' = closed,
         pc'[Reaper] = pc[Reaper] \/ (pc[Reaper] = "waiting" /\ pc'[Reaper] = "woken"),
         closed = TRUE => idle' = idle,
         closed = TRUE => \A u \in Clients \cup Requests :
                             pc'[u] \in {"waiting", "queued"} => pc'[u] = pc[u]
  PROVE  ShutdownPart(closed', pc', idle')
  BY DEF ShutdownPart, TypeOK

\* One pass of the loop of borrow keeps ShutdownPart.
LEMMA LoopShutdown ==
  ASSUME ShutdownPart(closed, pc, idle), TypeOK, NEW c \in Clients,
         NEW p, p \in NotifyOne(pc) \/ p = pc, NEW n, NEW m,
         BorrowLoop(c, p, n, m)
  PROVE  ShutdownPart(closed', pc', idle')
<1>1. /\ p \in [Threads -> AllStates]
      /\ \A t \in Threads : \/ p[t] = pc[t]
                            \/ /\ pc[t] = "waiting" /\ p[t] = "woken"
                               /\ t \in Clients \cup {Reaper}
  BY Notified
<1>2. closed' = closed
  BY DEF BorrowLoop
<1>3. c # Reaper /\ c \in Threads /\ Reaper \in Threads
  BY ThreadsAssumption DEF Threads
<1>4. \E s \in {"idle", "probe", "create", "waiting"} :
        /\ pc' = [p EXCEPT ![c] = s]
        /\ closed = TRUE => s = "idle" /\ idle' = idle
  BY DEF BorrowLoop, TypeOK
<1> QED
  BY <1>1, <1>2, <1>3, <1>4, ShutdownKept DEF Threads

\* ShutdownInv is inductive: one case per action of Next.
LEMMA ShutdownNext == ShutdownInv /\ [Next]_vars => ShutdownInv'
<1> SUFFICES ASSUME ShutdownInv, [Next]_vars PROVE ShutdownInv'
  OBVIOUS
<1>t. TypeOK /\ TypeOK' /\ ShutdownPart(closed, pc, idle)
  BY TypeNext, ShutdownSplit
<1>r. /\ Reaper \in Threads /\ Reaper \notin Clients \cup Requests
      /\ Beat \in Threads /\ Beat # Reaper /\ Beat \notin Clients \cup Requests
      /\ \A t \in Clients \cup Requests : t \in Threads
      /\ \A t \in Clients : t \notin Requests
  BY ThreadsAssumption DEF Threads
<1>p. pc \in [Threads -> AllStates] /\ pc' \in [Threads -> AllStates]
  BY <1>t DEF TypeOK, AllStates
<1> SUFFICES ShutdownPart(closed', pc', idle')
  BY <1>t, ShutdownSplitPrime
<1>1. CASE UNCHANGED vars
  BY <1>1, <1>t DEF vars, counters
<1>2. ASSUME NEW c \in Clients, ClientStep(c)
      PROVE  ShutdownPart(closed', pc', idle')
  <2>1. CASE Borrow(c) \/ Resume(c)
    BY <2>1, <1>t, LoopShutdown DEF Borrow, Resume
  <2>2. CASE ProbeDead(c)
    BY <2>2, <1>t, LoopShutdown DEF ProbeDead
  <2>3. CASE BorrowTimeout(c) \/ BorrowUnpooled(c) \/ ProbeAlive(c) \/ CreateOk(c)
    <3>1. \E s \in {"idle", "create", "holding"} : pc' = [pc EXCEPT ![c] = s]
      BY <2>3 DEF BorrowTimeout, BorrowUnpooled, ProbeAlive, CreateOk
    <3>2. idle' = idle /\ closed' = closed
      BY <2>3 DEF BorrowTimeout, BorrowUnpooled, ProbeAlive, CreateOk, counters
    <3> QED
      BY <3>1, <3>2, <1>t, <1>r, <1>p, ShutdownKept
  <2>4. CASE CreateFail(c)
    <3>1. PICK p \in NotifyOne(pc) \cup {pc} : pc' = [p EXCEPT ![c] = "idle"]
      BY <2>4 DEF CreateFail
    <3>2. /\ p \in [Threads -> AllStates]
          /\ \A t \in Threads : p[t] = pc[t]
                                \/ (pc[t] = "waiting" /\ p[t] = "woken")
      BY <1>t, <3>1, Notified
    <3>3. idle' = idle /\ closed' = closed
      BY <2>4 DEF CreateFail
    <3> QED
      BY <3>1, <3>2, <3>3, <1>t, <1>r, ShutdownKept
  <2> QED
    BY <1>2, <2>1, <2>2, <2>3, <2>4 DEF ClientStep
<1>e. ASSUME NEW t \in Threads \ {Reaper}, NEW s \in {"enter", "snap"},
             ExpireWaiters(t, s), closed' = closed, idle' = idle
      PROVE  ShutdownPart(closed', pc', idle')
  <2>1. PICK late \in SUBSET Queued :
          pc' = [u \in Threads |-> IF u = t THEN s
                                   ELSE IF u \in late THEN "idle" ELSE pc[u]]
    BY <1>e DEF ExpireWaiters
  <2>2. late \subseteq Requests
    BY DEF Queued
  <2> QED
    BY <2>1, <2>2, <1>e, <1>t, <1>r, ShutdownKept
<1>3. ASSUME NEW r \in Requests, RequestStep(r)
      PROVE  ShutdownPart(closed', pc', idle')
  <2>1. CASE AsyncBorrow(r)
    BY <2>1, <1>e, <1>r DEF AsyncBorrow, counters
  <2>2. CASE AsyncEnter(r)
    <3>1. \E s \in {"idle", "create", "reclose", "ping", "queued",
                       "holding"} :
             /\ pc' = [pc EXCEPT ![r] = s]
             /\ closed = TRUE => s = "idle" /\ idle' = idle
      BY <2>2, <1>t DEF AsyncEnter, TypeOK
    <3>2. closed' = closed
      BY <2>2 DEF AsyncEnter
    <3> QED
      BY <3>1, <3>2, <1>t, <1>r, <1>p, ShutdownKept
  <2>3. CASE AsyncPing(r) \/ AsyncDrop(r) \/ AsyncCreate(r)
    <3>1. \E s \in {"idle", "holding", "drop", "reclose"} :
             pc' = [pc EXCEPT ![r] = s]
      BY <2>3 DEF AsyncPing, AsyncDrop, AsyncCreate
    <3>2. idle' = idle /\ closed' = closed
      BY <2>3 DEF AsyncPing, AsyncDrop, AsyncCreate
    <3> QED
      BY <3>1, <3>2, <1>t, <1>r, <1>p, ShutdownKept
  <2> QED
    BY <1>3, <2>1, <2>2, <2>3 DEF RequestStep
<1>4. ASSUME NEW t \in Clients \cup Requests, ReturnStep(t)
      PROVE  ShutdownPart(closed', pc', idle')
  <2>1. CASE ReturnClose(t) \/ ReturnOrphan(t)
    <3>1. \E s \in {"idle", "closing"} : pc' = [pc EXCEPT ![t] = s]
      BY <2>1 DEF ReturnClose, ReturnOrphan
    <3>2. idle' = idle /\ closed' = closed
      BY <2>1 DEF ReturnClose, ReturnOrphan, counters
    <3> QED
      BY <3>1, <3>2, <1>t, <1>r, <1>p, ShutdownKept
  <2>2. CASE ReturnHandoff(t)
    <3>1. PICK late \in SUBSET Queued, r \in Queued :
            pc' = [u \in Threads |-> IF u = t THEN "idle"
                                     ELSE IF u = r THEN "holding"
                                     ELSE IF u \in late THEN "lost"
                                     ELSE pc[u]]
      BY <2>2 DEF ReturnHandoff
    <3>2. late \subseteq Requests /\ r \in Requests
      BY DEF Queued
    <3>3. idle' = idle /\ closed' = closed /\ closed # TRUE
      BY <2>2 DEF ReturnHandoff
    <3> QED
      BY <3>1, <3>2, <3>3, <1>t, <1>r, ShutdownKept
  <2>3. CASE ReturnIdle(t)
    <3>1. pc' = [u \in Threads |-> IF u = t THEN "notify"
                                   ELSE IF u \in Queued THEN "idle"
                                   ELSE pc[u]]
      BY <2>3 DEF ReturnIdle
    <3>2. Queued \subseteq Requests
      BY DEF Queued
    <3>3. closed' = closed /\ closed # TRUE
      BY <2>3 DEF ReturnIdle
    <3> QED
      BY <3>1, <3>2, <3>3, <1>t, <1>r, ShutdownKept
  <2>4. CASE ReturnNotify(t)
    <3>1. PICK p \in NotifyOne(pc) : pc' = [p EXCEPT ![t] = "idle"]
      BY <2>4 DEF ReturnNotify
    <3>2. /\ p \in [Threads -> AllStates]
          /\ \A u \in Threads : p[u] = pc[u]
                                \/ (pc[u] = "waiting" /\ p[u] = "woken")
      BY <1>t, <3>1, Notified
    <3>3. idle' = idle /\ closed' = closed
      BY <2>4 DEF ReturnNotify, counters
    <3> QED
      BY <3>1, <3>2, <3>3, <1>t, <1>r, ShutdownKept
  <2> QED
    BY <1>4, <2>1, <2>2, <2>3, <2>4 DEF ReturnStep
<1>5. CASE HealthStep
  <2>1. CASE HealthExpire
    BY <2>1, <1>e, <1>r DEF HealthExpire, counters
  <2>2. CASE HealthSnapshot \/ HealthTake \/ HealthBreak \/ HealthKeep
             \/ HealthEvict \/ HealthReserve
    <3>1. \E s \in {"idle", "take", "probe", "retire", "reserve", "fill"} :
             pc' = [pc EXCEPT ![Beat] = s]
      BY <2>2 DEF HealthSnapshot, HealthTake, HealthBreak, HealthKeep,
                  HealthEvict, HealthReserve
    <3>2. closed' = closed /\ (closed = TRUE => idle' = idle)
      BY <2>2 DEF HealthSnapshot, HealthTake, HealthBreak, HealthKeep,
                  HealthEvict, HealthReserve, counters
    <3> QED
      BY <3>1, <3>2, <1>t, <1>r, <1>p, ShutdownKept
  <2>3. CASE HealthFill
    <3>1. PICK p : /\ p = NotifyAll(pc) \/ p = pc
                   /\ pc' = [p EXCEPT ![Beat] = "idle"]
      BY <2>3 DEF HealthFill
    <3>2. /\ p \in [Threads -> AllStates]
          /\ \A u \in Threads : p[u] = pc[u]
                                \/ (pc[u] = "waiting" /\ p[u] = "woken")
      BY <1>t, <3>1, Notified
    <3>3. closed' = closed /\ (closed = TRUE => idle' = idle)
      BY <2>3 DEF HealthFill
    <3> QED
      BY <3>1, <3>2, <3>3, <1>t, <1>r, ShutdownKept
  <2> QED
    BY <1>5, <2>1, <2>2, <2>3 DEF HealthStep
<1>6. CASE ShutdownStep
  <2>1. CASE Shutdown
    <3> DEFINE p == [t \in Threads |-> IF t \in Queued THEN "collected"
                                       ELSE NotifyAll(pc)[t]]
    <3>1. \E s \in {"closing", "waiting", "deliver"} :
             /\ pc' = [p EXCEPT ![Reaper] = s]
             /\ s # "closing" => idle' = 0
      BY <2>1 DEF Shutdown, ShutdownGoOn
    <3>2. closed' = TRUE
      BY <2>1 DEF Shutdown
    <3>3. \A u \in Clients : p[u] # "waiting"
      BY <1>r DEF NotifyAll, Sleepers, Queued
    <3>4. \A u \in Requests : p[u] # "queued"
      BY <1>r DEF NotifyAll, Sleepers, Queued
    <3> HIDE DEF p
    <3>5. p \in [Threads -> AllStates \cup {"collected"}]
      BY <1>t, Notified DEF p
    <3> QED
      BY <3>1, <3>2, <3>3, <3>4, <3>5, <1>r DEF ShutdownPart
  <2>2. CASE ShutdownClosed \/ ShutdownResume
    <3>1. \E s \in {"closing", "waiting", "deliver"} :
             /\ pc' = [pc EXCEPT ![Reaper] = s]
             /\ s # "closing" => idle' = 0
      BY <2>2 DEF ShutdownClosed, ShutdownResume, ShutdownGoOn
    <3>2. closed' = closed /\ pc[Reaper] # "idle"
      BY <2>2 DEF ShutdownClosed, ShutdownResume
    <3> QED
      BY <3>1, <3>2, <1>t, <1>r, <1>p DEF ShutdownPart
  <2>3. CASE ShutdownTimeout \/ Destroy
    <3>1. \E s \in {"deliver", "gone"} : pc' = [pc EXCEPT ![Reaper] = s]
      BY <2>3 DEF ShutdownTimeout, Destroy
    <3>2. closed' = closed /\ idle' = idle
      BY <2>3 DEF ShutdownTimeout, Destroy
    <3>3. pc[Reaper] \in {"waiting", "woken", "done"}
      BY <2>3 DEF ShutdownTimeout, Destroy
    <3> QED
      BY <3>1, <3>2, <3>3, <1>t, <1>r, <1>p DEF ShutdownPart
  <2>4. CASE ShutdownDeliver
    <3>1. pc' = [t \in Threads |-> IF t = Reaper THEN "done"
                                   ELSE IF pc[t] = "collected" THEN "idle"
                                   ELSE pc[t]]
      BY <2>4 DEF ShutdownDeliver
    <3>2. closed' = closed /\ idle' = idle /\ pc[Reaper] = "deliver"
      BY <2>4 DEF ShutdownDeliver, counters
    <3> QED
      BY <3>1, <3>2, <1>t, <1>r DEF ShutdownPart
  <2> QED
    BY <1>6, <2>1, <2>2, <2>3, <2>4 DEF ShutdownStep
<1>7. ASSUME NEW t \in Clients \cup {Reaper}, SpuriousWakeup(t)
      PROVE  ShutdownPart(closed', pc', idle')
  <2>1. /\ pc[t] = "waiting"
        /\ pc' = [pc EXCEPT ![t] = "woken"]
        /\ closed' = closed /\ idle' = idle
    BY <1>7 DEF SpuriousWakeup, Sleepers, counters
  <2> QED
    BY <2>1, <1>t, <1>r, <1>p, ShutdownKept
<1>8. CASE Finished
  BY <1>8, <1>1 DEF Finished
<1> QED
  BY <1>1, <1>2, <1>3, <1>4, <1>5, <1>6, <1>7, <1>8 DEF Next

\* ShutdownInv holds initially.
LEMMA ShutdownInit == Init => ShutdownInv
<1> SUFFICES ASSUME Init PROVE ShutdownInv
  OBVIOUS
<1>1. TypeOK
  BY TypeInit
<1>2. ShutdownPart(closed, pc, idle)
  BY DEF Init, ShutdownPart, Threads
<1> QED
  BY <1>1, <1>2, ShutdownSplit

\* Once shutdown has emptied the idle queue it stays empty, whatever thread was
\* between two lock sections with a connection in its hands.
THEOREM PoolDrained == Spec => []DrainedStaysEmpty
<1>1. ShutdownInv => DrainedStaysEmpty
  BY DEF ShutdownInv
<1> QED
  BY <1>1, ShutdownInit, ShutdownNext, PTL DEF Spec

\* No borrower sleeps and no request is queued on a closed pool.
THEOREM PoolClosedWakesAll == Spec => []NobodyWaitsOnClosedPool
<1>1. ShutdownInv => NobodyWaitsOnClosedPool
  BY DEF ShutdownInv
<1> QED
  BY <1>1, ShutdownInit, ShutdownNext, PTL DEF Spec

-----------------------------------------------------------------------------
(* Counting: slots, handles and established connections                     *)

In(x, S) == IF x \in S THEN 1 ELSE 0

HandleCount(p) == Cardinality(At(p, {"holding"}))
OwnedCount(p) == Cardinality(At(p, OwnerStates))
SlotCount(p) == Cardinality(At(p, SlotStates))

\* At(q, X) differs from At(p, X) at most by the thread t.
LEMMA CountMove ==
  ASSUME NEW p, NEW q, NEW X, NEW t \in Threads,
         \A u \in Threads \ {t} : q[u] \in X <=> p[u] \in X
  PROVE  /\ Cardinality(At(p, X)) \in Nat
         /\ Cardinality(At(q, X)) \in Nat
         /\ Cardinality(At(q, X)) = Cardinality(At(p, X)) + In(q[t], X) - In(p[t], X)
<1>1. IsFiniteSet(At(p, X)) /\ IsFiniteSet(At(q, X))
  BY ThreadsFinite, FS_Subset DEF At
<1>2. Cardinality(At(p, X)) \in Nat /\ Cardinality(At(q, X)) \in Nat
  BY <1>1, FS_CardinalityType
<1>3. CASE p[t] \in X /\ q[t] \in X
  <2>1. At(q, X) = At(p, X)
    BY <1>3 DEF At
  <2> QED
    BY <1>2, <1>3, <2>1 DEF In
<1>4. CASE p[t] \notin X /\ q[t] \notin X
  <2>1. At(q, X) = At(p, X)
    BY <1>4 DEF At
  <2> QED
    BY <1>2, <1>4, <2>1 DEF In
<1>5. CASE p[t] \notin X /\ q[t] \in X
  <2>1. At(q, X) = At(p, X) \cup {t} /\ t \notin At(p, X)
    BY <1>5 DEF At
  <2>2. Cardinality(At(q, X)) = Cardinality(At(p, X)) + 1
    BY <1>1, <2>1, FS_AddElement
  <2> QED
    BY <1>2, <1>5, <2>2 DEF In
<1>6. CASE p[t] \in X /\ q[t] \notin X
  <2>1. At(q, X) = At(p, X) \ {t} /\ t \in At(p, X)
    BY <1>6 DEF At
  <2>2. Cardinality(At(q, X)) = Cardinality(At(p, X)) - 1
    BY <1>1, <2>1, FS_RemoveElement
  <2> QED
    BY <1>2, <1>6, <2>2 DEF In
<1> QED
  BY <1>3, <1>4, <1>5, <1>6

\* Between p and q only t moves, except for threads that own nothing.
Only(p, q, t) ==
  \A u \in Threads \ {t} : q[u] = p[u] \/ (p[u] \notin SlotStates /\ q[u] \notin SlotStates)

\* The three counts move with the one thread that moves.
LEMMA Counts ==
  ASSUME NEW p, NEW q, NEW t \in Threads, Only(p, q, t)
  PROVE  /\ HandleCount(q) = HandleCount(p) + In(q[t], {"holding"}) - In(p[t], {"holding"})
         /\ OwnedCount(q) = OwnedCount(p) + In(q[t], OwnerStates) - In(p[t], OwnerStates)
         /\ SlotCount(q) = SlotCount(p) + In(q[t], SlotStates) - In(p[t], SlotStates)
<1>1. {"holding"} \subseteq SlotStates /\ OwnerStates \subseteq SlotStates
  BY DEF SlotStates, OwnerStates
<1>2. HandleCount(q) = HandleCount(p) + In(q[t], {"holding"}) - In(p[t], {"holding"})
  BY <1>1, CountMove DEF HandleCount, Only
<1>3. OwnedCount(q) = OwnedCount(p) + In(q[t], OwnerStates) - In(p[t], OwnerStates)
  BY <1>1, CountMove DEF OwnedCount, Only
<1>4. SlotCount(q) = SlotCount(p) + In(q[t], SlotStates) - In(p[t], SlotStates)
  BY <1>1, CountMove DEF SlotCount, Only
<1> QED
  BY <1>2, <1>3, <1>4

\* A handle is a connection, a connection occupies a slot.
LEMMA CountOrder ==
  ASSUME NEW p
  PROVE  /\ HandleCount(p) \in Nat /\ OwnedCount(p) \in Nat /\ SlotCount(p) \in Nat
         /\ HandleCount(p) <= OwnedCount(p) /\ OwnedCount(p) <= SlotCount(p)
         /\ (\E t \in Threads : p[t] = "holding") => HandleCount(p) >= 1
         /\ (\E t \in Threads : p[t] \in SlotStates) => SlotCount(p) >= 1
<1>1. At(p, {"holding"}) \subseteq At(p, OwnerStates)
  BY DEF At, OwnerStates
<1>2. At(p, OwnerStates) \subseteq At(p, SlotStates)
  BY DEF At, SlotStates
<1>3. /\ IsFiniteSet(At(p, {"holding"})) /\ IsFiniteSet(At(p, OwnerStates))
      /\ IsFiniteSet(At(p, SlotStates))
  BY ThreadsFinite, FS_Subset DEF At
<1>4. HandleCount(p) \in Nat /\ OwnedCount(p) \in Nat /\ SlotCount(p) \in Nat
  BY <1>3, FS_CardinalityType DEF HandleCount, OwnedCount, SlotCount
<1>5. HandleCount(p) <= OwnedCount(p)
  BY <1>1, <1>3, FS_Subset DEF HandleCount, OwnedCount
<1>6. OwnedCount(p) <= SlotCount(p)
  BY <1>2, <1>3, FS_Subset DEF OwnedCount, SlotCount
<1>7. ASSUME NEW t \in Threads, p[t] = "holding" PROVE HandleCount(p) >= 1
  <2>1. At(p, {"holding"}) # {}
    BY <1>7 DEF At
  <2>2. HandleCount(p) # 0
    BY <1>3, <2>1, FS_EmptySet DEF HandleCount
  <2> QED
    BY <1>4, <2>2
<1>8. ASSUME NEW t \in Threads, p[t] \in SlotStates PROVE SlotCount(p) >= 1
  <2>1. At(p, SlotStates) # {}
    BY <1>8 DEF At
  <2>2. SlotCount(p) # 0
    BY <1>3, <2>1, FS_EmptySet DEF SlotCount
  <2> QED
    BY <1>4, <2>2
<1> QED
  BY <1>4, <1>5, <1>6, <1>7, <1>8

-----------------------------------------------------------------------------
(* A data source without a pool never pings, waits, queues or refills.      *)

UnpooledStates ==
  ~Pooled => /\ \A c \in Clients : pc[c] \in {"idle", "create", "holding", "closing"}
             /\ \A r \in Requests : pc[r] \in {"idle", "enter", "create", "holding",
                                               "closing"}
             /\ pc[Beat] = "idle"

\* UnpooledStates is inductive, given TypeOK.
LEMMA UnpooledNext ==
  TypeOK /\ UnpooledStates /\ [Next]_vars => UnpooledStates'
<1> SUFFICES ASSUME TypeOK, UnpooledStates, [Next]_vars, ~Pooled
             PROVE  UnpooledStates'
  BY DEF UnpooledStates
<1>r. /\ Reaper \in Threads /\ Reaper \notin Clients \cup Requests
      /\ Beat \in Threads /\ Beat # Reaper /\ Beat \notin Clients \cup Requests
      /\ \A t \in Clients \cup Requests : t \in Threads
      /\ \A t \in Clients : t \notin Requests
  BY ThreadsAssumption DEF Threads
<1>p. pc \in [Threads -> AllStates] /\ Queued = {}
  BY DEF TypeOK, AllStates, UnpooledStates, Queued
<1>n. \A p \in NotifyOne(pc) : p \in [Threads -> AllStates]
         /\ \A u \in Threads \ {Reaper} : p[u] = pc[u]
  <2> SUFFICES ASSUME NEW p \in NotifyOne(pc)
               PROVE  /\ p \in [Threads -> AllStates]
                      /\ \A u \in Threads \ {Reaper} : p[u] = pc[u]
    OBVIOUS
  <2>1. /\ p \in [Threads -> AllStates]
        /\ \A t \in Threads : \/ p[t] = pc[t]
                              \/ /\ pc[t] = "waiting" /\ p[t] = "woken"
                                 /\ t \in Clients \cup {Reaper}
    BY Notified
  <2> QED
    BY <2>1 DEF UnpooledStates
<1>1. CASE UNCHANGED vars
  BY <1>1 DEF UnpooledStates, vars
<1>2. ASSUME NEW c \in Clients, ClientStep(c) PROVE UnpooledStates'
  <2>1. \/ \E s \in {"idle", "create", "holding"} : pc' = [pc EXCEPT ![c] = s]
        \/ \E p \in NotifyOne(pc) : pc' = [p EXCEPT ![c] = "idle"]
    BY <1>2 DEF ClientStep, Borrow, Resume, BorrowTimeout, ProbeAlive, ProbeDead,
                BorrowUnpooled, CreateOk, CreateFail, UnpooledStates
  <2> QED
    BY <2>1, <1>r, <1>p, <1>n DEF UnpooledStates
<1>3. ASSUME NEW r \in Requests, RequestStep(r) PROVE UnpooledStates'
  <2>1. CASE AsyncBorrow(r)
    <3>1. pc' = [u \in Threads |-> IF u = r THEN "enter" ELSE pc[u]]
      BY <2>1, <1>p DEF AsyncBorrow, ExpireWaiters
    <3> QED
      BY <3>1, <1>r DEF UnpooledStates
  <2>2. CASE ~AsyncBorrow(r)
    <3>1. \E s \in {"idle", "create", "holding"} : pc' = [pc EXCEPT ![r] = s]
      BY <1>3, <2>2 DEF RequestStep, AsyncEnter, AsyncPing, AsyncDrop, AsyncCreate,
                        UnpooledStates
    <3> QED
      BY <3>1, <1>r, <1>p DEF UnpooledStates
  <2> QED
    BY <2>1, <2>2
<1>4. ASSUME NEW t \in Clients \cup Requests, ReturnStep(t) PROVE UnpooledStates'
  <2>1. \/ \E s \in {"idle", "closing"} : pc' = [pc EXCEPT ![t] = s]
        \/ \E p \in NotifyOne(pc) : pc' = [p EXCEPT ![t] = "idle"]
    BY <1>4 DEF ReturnStep, ReturnClose, ReturnHandoff, ReturnIdle, ReturnNotify,
                ReturnOrphan
  <2> QED
    BY <2>1, <1>r, <1>p, <1>n DEF UnpooledStates
<1>5. ~HealthStep
  BY DEF HealthStep, HealthExpire, HealthSnapshot, HealthTake, HealthBreak,
         HealthKeep, HealthEvict, HealthReserve, HealthFill, UnpooledStates
<1>6. CASE ShutdownStep
  <2>1. CASE Shutdown
    <3>1. \A u \in Threads \ {Reaper} : NotifyAll(pc)[u] = pc[u]
      BY <1>r, <1>p DEF NotifyAll, Sleepers, UnpooledStates
    <3> DEFINE p == [t \in Threads |-> IF t \in Queued THEN "collected"
                                       ELSE NotifyAll(pc)[t]]
    <3>2. \E s \in {"closing", "waiting", "deliver"} :
             pc' = [p EXCEPT ![Reaper] = s]
      BY <2>1 DEF Shutdown, ShutdownGoOn
    <3>3. \A u \in Threads \ {Reaper} : p[u] = pc[u]
      BY <3>1, <1>p
    <3> HIDE DEF p
    <3>4. \A u \in Threads \ {Reaper} : pc'[u] = pc[u]
      BY <3>2, <3>3, <1>r DEF p
    <3> QED
      BY <3>4, <1>r DEF UnpooledStates
  <2>2. CASE ~Shutdown
    <3>1. \A u \in Threads \ {Reaper} : pc'[u] = pc[u] \/ pc[u] = "collected"
      BY <1>6, <2>2, <1>r, <1>p
      DEF ShutdownStep, ShutdownClosed, ShutdownResume, ShutdownTimeout,
          ShutdownDeliver, Destroy, ShutdownGoOn
    <3> QED
      BY <3>1, <1>r DEF UnpooledStates
  <2> QED
    BY <2>1, <2>2
<1>7. ASSUME NEW t \in Clients \cup {Reaper}, SpuriousWakeup(t)
      PROVE  UnpooledStates'
  <2>1. t = Reaper
    BY <1>7 DEF SpuriousWakeup, Sleepers, UnpooledStates
  <2> QED
    BY <2>1, <1>7, <1>r, <1>p DEF SpuriousWakeup, UnpooledStates
<1>8. CASE Finished
  BY <1>8, <1>1 DEF Finished
<1> QED
  BY <1>1, <1>2, <1>3, <1>4, <1>5, <1>6, <1>7, <1>8 DEF Next

-----------------------------------------------------------------------------
(* The counting invariant                                                   *)

\* Outside its refill healthCheck holds no reservation.
RefillReserved == pc[Beat] # "fill" => hcNeed = 0

PoolInv ==
  /\ ShutdownInv
  /\ UnpooledStates
  /\ BorrowedExact
  /\ SlotsConserved
  /\ MetricsConserved
  /\ CapRespected
  /\ RefillReserved

\* The last five conjuncts as arithmetic over the counts.
CountPart ==
  /\ pc[Reaper] # "gone" => borrowed = HandleCount(pc)
  /\ closed # TRUE /\ Pooled => total = idle + SlotCount(pc) + hcNeed
  /\ closed # TRUE /\ ~Pooled => total = HandleCount(pc)
  /\ closed # TRUE => net = idle + OwnedCount(pc)
  /\ Pooled => total <= MaxConn /\ borrowed <= MaxConn
  /\ pc[Beat] # "fill" => hcNeed = 0

\* What SlotsConserved says of a pool from the first step of shutdown on, and of
\* an unpooled source.
DrainPart ==
  /\ Pooled /\ pc[Reaper] \in DrainStates => idle + SlotCount(pc) + hcNeed <= total
  /\ Pooled /\ pc[Reaper] \in {"deliver", "done"} => total <= borrowed
  /\ ~Pooled /\ pc[Reaper] # "gone" => total = borrowed

\* The five counting conjuncts of PoolInv are CountPart and DrainPart.
LEMMA PoolSplit ==
  ASSUME TypeOK, closed = TRUE <=> pc[Reaper] # "idle"
  PROVE  BorrowedExact /\ SlotsConserved /\ MetricsConserved /\ CapRespected
           /\ RefillReserved <=> CountPart /\ DrainPart
<1>1. /\ idle \in Nat /\ hcNeed \in Nat /\ total \in Int /\ borrowed \in Nat
      /\ SlotCount(pc) \in Nat /\ HandleCount(pc) \in Nat
  BY CountOrder DEF TypeOK
<1> QED
  BY <1>1 DEF TypeOK, CountPart, DrainPart, BorrowedExact, SlotsConserved,
         MetricsConserved, CapRespected, RefillReserved, Exists, Holders,
         HandleCount, SlotCount, OwnedCount

\* The same for the next state.
LEMMA PoolSplitPrime ==
  ASSUME TypeOK', closed' = TRUE <=> pc'[Reaper] # "idle"
  PROVE  (BorrowedExact /\ SlotsConserved /\ MetricsConserved /\ CapRespected
           /\ RefillReserved)' <=> CountPart' /\ DrainPart'
<1>1. /\ idle' \in Nat /\ hcNeed' \in Nat /\ total' \in Int /\ borrowed' \in Nat
      /\ SlotCount(pc') \in Nat /\ HandleCount(pc') \in Nat
  BY CountOrder DEF TypeOK
<1> QED
  BY <1>1 DEF TypeOK, CountPart, DrainPart, BorrowedExact, SlotsConserved,
         MetricsConserved, CapRespected, RefillReserved, Exists, Holders,
         HandleCount, SlotCount, OwnedCount

\* What every case below starts from.
Known ==
  /\ TypeOK
  /\ UnpooledStates
  /\ closed = TRUE <=> pc[Reaper] # "idle"
  /\ CountPart

\* The types and the order of the counters and counts, now and next.
LEMMA Numbers ==
  ASSUME Known, TypeOK'
  PROVE  /\ NumType /\ NumType' /\ MaxConn \in Nat /\ MinConn \in Nat
         /\ MinConn <= MaxConn /\ MaxConn >= 1
         /\ HandleCount(pc) \in Nat /\ OwnedCount(pc) \in Nat /\ SlotCount(pc) \in Nat
         /\ HandleCount(pc) <= OwnedCount(pc) /\ OwnedCount(pc) <= SlotCount(pc)
         /\ HandleCount(pc') \in Nat /\ OwnedCount(pc') \in Nat
         /\ SlotCount(pc') \in Nat
         /\ HandleCount(pc') <= OwnedCount(pc') /\ OwnedCount(pc') <= SlotCount(pc')
<1>1. NumType /\ NumType'
  BY DEF Known, TypeOK, NumType
<1>2. MaxConn \in Nat /\ MinConn \in Nat /\ MinConn <= MaxConn /\ MaxConn >= 1
  BY SizesAssumption
<1> QED
  BY <1>1, <1>2, CountOrder

\* The step of one thread t, the others standing as before or owning nothing:
\* the counts move with t.
LEMMA Deltas ==
  ASSUME Known, TypeOK', NEW t \in Threads, Only(pc, pc', t),
         pc'[Reaper] = "gone" => pc[Reaper] = "gone"
  PROVE  /\ HandleCount(pc') = HandleCount(pc) + In(pc'[t], {"holding"})
                                 - In(pc[t], {"holding"})
         /\ OwnedCount(pc') = OwnedCount(pc) + In(pc'[t], OwnerStates)
                                 - In(pc[t], OwnerStates)
         /\ SlotCount(pc') = SlotCount(pc) + In(pc'[t], SlotStates)
                                 - In(pc[t], SlotStates)
  BY Counts

\* One pass of the loop of borrow keeps the counts.
LEMMA LoopCount ==
  ASSUME Known, TypeOK', Pooled, NEW c \in Clients, NEW n, NEW m,
         NEW p, p \in NotifyOne(pc) \/ p = pc, BorrowLoop(c, p, n, m),
         \/ pc[c] \in {"idle", "woken"} /\ n = total /\ m = net
         \/ pc[c] = "probe" /\ n = Clamp(total - 1) /\ m = net - 1
  PROVE  CountPart'
<1>1. /\ p \in [Threads -> AllStates]
      /\ \A t \in Threads : \/ p[t] = pc[t]
                            \/ /\ pc[t] = "waiting" /\ p[t] = "woken"
                               /\ t \in Clients \cup {Reaper}
  BY Notified DEF Known
<1>2. /\ c \in Threads /\ c # Reaper /\ c # Beat /\ Beat # Reaper
      /\ Reaper \in Threads /\ Beat \in Threads /\ Beat \notin Clients \cup {Reaper}
  BY ThreadsAssumption DEF Threads
<1>3. \E s \in {"idle", "probe", "create", "waiting"} : pc' = [p EXCEPT ![c] = s]
  BY DEF BorrowLoop
<1>4. /\ Only(pc, pc', c)
      /\ pc'[Beat] = pc[Beat]
      /\ pc'[Reaper] = "gone" <=> pc[Reaper] = "gone"
  BY <1>1, <1>2, <1>3 DEF Only, SlotStates, OwnerStates
<1>5. /\ HandleCount(pc') = HandleCount(pc) + In(pc'[c], {"holding"})
                                 - In(pc[c], {"holding"})
      /\ OwnedCount(pc') = OwnedCount(pc) + In(pc'[c], OwnerStates)
                                 - In(pc[c], OwnerStates)
      /\ SlotCount(pc') = SlotCount(pc) + In(pc'[c], SlotStates)
                                 - In(pc[c], SlotStates)
  BY <1>2, <1>4, Deltas
<1>6. /\ borrowed' = borrowed /\ closed' = closed /\ hcNeed' = hcNeed /\ net' = m
  BY DEF BorrowLoop, locals
<1>n. NumType /\ n \in Int /\ m \in Int
  BY Numbers DEF NumType, Clamp
<1>7. CASE closed = TRUE
  <2>1. total' = n /\ pc'[c] = "idle"
    BY <1>7, <1>1, <1>2 DEF BorrowLoop
  <2>2. HandleCount(pc') = HandleCount(pc)
    BY <1>5, <2>1, Numbers DEF In
  <2>3. total' <= MaxConn
    <3>1. total <= MaxConn /\ total \in Int /\ MaxConn \in Nat
      BY Numbers DEF Known, CountPart, NumType
    <3>2. n <= MaxConn
      BY <3>1 DEF Clamp
    <3> QED
      BY <2>1, <3>2
  <2> QED
    BY <1>4, <1>6, <1>7, <2>2, <2>3 DEF Known, CountPart
<1>8. CASE closed # TRUE
  <2>1. /\ HandleCount(pc') = HandleCount(pc)
        /\ OwnedCount(pc') = OwnedCount(pc) + In(pc'[c], {"probe"}) - In(pc[c], {"probe"})
        /\ SlotCount(pc') = SlotCount(pc) + In(pc'[c], {"probe", "create"})
                               - In(pc[c], {"probe"})
    BY <1>1, <1>2, <1>3, <1>5, Numbers DEF In, SlotStates, OwnerStates
  <2>2. n = total - In(pc[c], {"probe"}) /\ m = net - In(pc[c], {"probe"})
    <3>1. CASE pc[c] = "probe"
      <4>1. SlotCount(pc) >= 1
        BY <1>2, <3>1, CountOrder DEF SlotStates, OwnerStates
      <4> QED
        <5>1. total = idle + SlotCount(pc) + hcNeed
          BY <1>8 DEF Known, CountPart
        <5>2. /\ total \in Int /\ net \in Int /\ idle \in Nat /\ hcNeed \in Nat
              /\ SlotCount(pc) \in Nat
          BY Numbers DEF NumType
        <5>3. total >= 1
          BY <4>1, <5>1, <5>2
        <5>4. n = Clamp(total - 1) /\ m = net - 1
          BY <3>1
        <5> QED
          BY <3>1, <5>2, <5>3, <5>4 DEF Clamp, In
    <3>2. CASE pc[c] # "probe"
      BY <3>2, Numbers DEF In, NumType
    <3> QED
      BY <3>1, <3>2
  <2>3. \/ pc'[c] = "probe" /\ idle' = idle - 1 /\ total' = n
        \/ pc'[c] = "create" /\ idle' = idle /\ total' = n + 1 /\ n < MaxConn
        \/ pc'[c] \in {"idle", "waiting"} /\ idle' = idle /\ total' = n
    BY <1>1, <1>2, <1>8 DEF BorrowLoop, HasRoom
  <2>4. /\ total' = idle' + SlotCount(pc') + hcNeed'
        /\ net' = idle' + OwnedCount(pc')
        /\ total' <= MaxConn
    <3>1. /\ total = idle + SlotCount(pc) + hcNeed
          /\ net = idle + OwnedCount(pc)
          /\ total <= MaxConn
      BY <1>8 DEF Known, CountPart
    <3>2. In(pc[c], {"probe"}) \in {0, 1}
      BY DEF In
    <3>3. /\ pc'[c] = "probe" => In(pc'[c], {"probe"}) = 1
          /\ pc'[c] = "probe" => In(pc'[c], {"probe", "create"}) = 1
          /\ pc'[c] = "create" => In(pc'[c], {"probe"}) = 0
          /\ pc'[c] = "create" => In(pc'[c], {"probe", "create"}) = 1
          /\ pc'[c] \in {"idle", "waiting"} => In(pc'[c], {"probe"}) = 0
          /\ pc'[c] \in {"idle", "waiting"} => In(pc'[c], {"probe", "create"}) = 0
      BY DEF In
    <3> HIDE DEF In
    <3> QED
      BY <1>6, <2>1, <2>2, <2>3, <3>1, <3>2, <3>3, Numbers DEF NumType
  <2> QED
    BY <1>4, <1>6, <1>8, <2>1, <2>4 DEF Known, CountPart
<1> QED
  BY <1>7, <1>8

\* Thread t moves from a to b, the others standing as before or owning nothing.
Moves(t, a, b) ==
  /\ pc[t] = a /\ pc'[t] = b
  /\ Only(pc, pc', t)
  /\ pc'[Reaper] = "gone" <=> pc[Reaper] = "gone"
  /\ t # Beat => pc'[Beat] = pc[Beat]

\* The counters move with a thread that goes from a to b.
HandlesMove(a, b) == borrowed' = borrowed + In(b, {"holding"}) - In(a, {"holding"})
SlotsMove(a, b) ==
  total' = total + (idle' - idle) + (hcNeed' - hcNeed)
             + In(b, SlotStates) - In(a, SlotStates)
UnpooledMove(a, b) == total' = total + In(b, {"holding"}) - In(a, {"holding"})
OwnedMove(a, b) ==
  net' = net + (idle' - idle) + In(b, OwnerStates) - In(a, OwnerStates)

Balanced(a, b) ==
  /\ closed' = closed
  /\ pc[Reaper] # "gone" => HandlesMove(a, b)
  /\ closed = TRUE => borrowed' <= borrowed
  /\ closed # TRUE /\ Pooled => SlotsMove(a, b)
  /\ closed # TRUE /\ ~Pooled => UnpooledMove(a, b)
  /\ closed # TRUE => OwnedMove(a, b)
  /\ Pooled => total' <= MaxConn

\* Such a step keeps the counts.
LEMMA MoverCount ==
  ASSUME Known, TypeOK', NEW t \in Threads, NEW a, NEW b, Moves(t, a, b),
         Balanced(a, b),
         IF t = Beat THEN b # "fill" => hcNeed' = 0 ELSE hcNeed' = hcNeed
  PROVE  CountPart'
<1> USE DEF Moves, Balanced, HandlesMove, SlotsMove, UnpooledMove, OwnedMove
<1>1. /\ HandleCount(pc') = HandleCount(pc) + In(pc'[t], {"holding"})
                                 - In(pc[t], {"holding"})
      /\ OwnedCount(pc') = OwnedCount(pc) + In(pc'[t], OwnerStates)
                                 - In(pc[t], OwnerStates)
      /\ SlotCount(pc') = SlotCount(pc) + In(pc'[t], SlotStates)
                                 - In(pc[t], SlotStates)
  BY Deltas
<1>2. \A x, S : In(x, S) \in Int
  BY DEF In
<1>3. /\ idle \in Int /\ idle' \in Nat /\ total \in Int /\ total' \in Int
      /\ borrowed \in Int /\ borrowed' \in Int /\ net \in Int /\ net' \in Int
      /\ hcNeed \in Int /\ hcNeed' \in Nat /\ MaxConn \in Int
      /\ HandleCount(pc) \in Int /\ OwnedCount(pc) \in Int /\ SlotCount(pc) \in Int
      /\ HandleCount(pc') \in Int /\ OwnedCount(pc') \in Int
      /\ SlotCount(pc') \in Int
      /\ HandleCount(pc') <= OwnedCount(pc') /\ OwnedCount(pc') <= SlotCount(pc')
  BY Numbers DEF NumType
<1>4. ASSUME pc'[Reaper] # "gone" PROVE borrowed' = HandleCount(pc')
  <2>1. borrowed = HandleCount(pc)
    BY <1>4 DEF Known, CountPart
  <2> QED
    BY <1>1, <1>2, <1>3, <1>4, <2>1
<1>5. ASSUME closed # TRUE, Pooled PROVE total' = idle' + SlotCount(pc') + hcNeed'
  <2>1. total = idle + SlotCount(pc) + hcNeed
    BY <1>5 DEF Known, CountPart
  <2> QED
    BY <1>1, <1>2, <1>3, <1>5, <2>1
<1>6. ASSUME closed # TRUE, ~Pooled PROVE total' = HandleCount(pc')
  <2>1. total = HandleCount(pc)
    BY <1>6 DEF Known, CountPart
  <2> QED
    BY <1>1, <1>2, <1>3, <1>6, <2>1
<1>7. ASSUME closed # TRUE PROVE net' = idle' + OwnedCount(pc')
  <2>1. net = idle + OwnedCount(pc)
    BY <1>7 DEF Known, CountPart
  <2> QED
    BY <1>1, <1>2, <1>3, <1>7, <2>1
<1>8. ASSUME Pooled PROVE borrowed' <= MaxConn
  <2>1. CASE closed = TRUE
    <3>1. borrowed <= MaxConn
      BY <1>8 DEF Known, CountPart
    <3> QED
      BY <1>3, <2>1, <3>1
  <2>2. CASE closed # TRUE
    <3>1. pc'[Reaper] # "gone"
      BY <2>2 DEF Known
    <3>2. borrowed' <= SlotCount(pc')
      BY <1>3, <1>4, <3>1
    <3>3. SlotCount(pc') <= total'
      BY <1>3, <1>5, <1>8, <2>2
    <3> QED
      BY <1>3, <1>8, <3>2, <3>3
  <2> QED
    BY <2>1, <2>2
<1>9. pc'[Beat] # "fill" => hcNeed' = 0
  BY DEF Known, CountPart
<1> QED
  BY <1>4, <1>5, <1>6, <1>7, <1>8, <1>9 DEF CountPart

\* State s counts h handles, o owned connections and w slots.
Weight(s, h, o, w) ==
  In(s, {"holding"}) = h /\ In(s, OwnerStates) = o /\ In(s, SlotStates) = w

\* What each state contributes to the counts of handles, owned
\* connections and slots.
LEMMA InTable ==
  /\ Weight("holding", 1, 1, 1) /\ Weight("create", 0, 0, 1)
  /\ Weight("probe", 0, 1, 1)
  /\ Weight("retire", 0, 1, 1)
  /\ Weight("ping", 0, 1, 1)
  /\ Weight("drop", 0, 1, 1)
  /\ Weight("idle", 0, 0, 0)
  /\ Weight("waiting", 0, 0, 0)
  /\ Weight("woken", 0, 0, 0)
  /\ Weight("closing", 0, 0, 0)
  /\ Weight("notify", 0, 0, 0)
  /\ Weight("enter", 0, 0, 0)
  /\ Weight("reclose", 0, 0, 0)
  /\ Weight("queued", 0, 0, 0)
  /\ Weight("collected", 0, 0, 0)
  /\ Weight("lost", 0, 0, 0)
  /\ Weight("snap", 0, 0, 0)
  /\ Weight("take", 0, 0, 0)
  /\ Weight("reserve", 0, 0, 0)
  /\ Weight("fill", 0, 0, 0)
  BY DEF Weight, In, SlotStates, OwnerStates

\* A step that moves t to b, perhaps after a notification.
LEMMA Moved ==
  ASSUME Known, NEW t \in Threads \ {Reaper}, NEW b, NEW p,
         p \in NotifyOne(pc) \/ p = NotifyAll(pc) \/ p = pc,
         pc' = [p EXCEPT ![t] = b]
  PROVE  Moves(t, pc[t], b)
<1>1. /\ p \in [Threads -> AllStates]
      /\ \A u \in Threads : \/ p[u] = pc[u]
                            \/ /\ pc[u] = "waiting" /\ p[u] = "woken"
                               /\ u \in Clients \cup {Reaper}
  BY Notified DEF Known
<1>2. /\ Reaper \in Threads /\ Beat \in Threads /\ Beat \notin Clients \cup {Reaper}
  BY ThreadsAssumption DEF Threads
<1> QED
  BY <1>1, <1>2 DEF Moves, Only, SlotStates, OwnerStates

\* On an open pool a thread that owns a slot is counted in total, and the
\* holder of a Handle in borrowed.
LEMMA OwnerCounted ==
  ASSUME Known, TypeOK', NEW t \in Threads
  PROVE  /\ closed # TRUE /\ Pooled /\ pc[t] \in SlotStates => total >= 1
         /\ closed # TRUE /\ ~Pooled /\ pc[t] = "holding" => total >= 1
         /\ pc[Reaper] # "gone" /\ pc[t] = "holding" => borrowed >= 1
<1>1. /\ pc[t] = "holding" => HandleCount(pc) >= 1
      /\ pc[t] \in SlotStates => SlotCount(pc) >= 1
  BY CountOrder
<1>2. /\ idle \in Nat /\ total \in Int /\ hcNeed \in Nat
      /\ SlotCount(pc) \in Nat
  BY Numbers DEF NumType
<1>3. closed # TRUE /\ Pooled => total = idle + SlotCount(pc) + hcNeed
  BY DEF Known, CountPart
<1>4. /\ closed # TRUE /\ ~Pooled => total = HandleCount(pc)
      /\ pc[Reaper] # "gone" => borrowed = HandleCount(pc)
  BY DEF Known, CountPart
<1>5. closed # TRUE /\ Pooled /\ pc[t] \in SlotStates => total >= 1
  BY <1>1, <1>2, <1>3
<1> QED
  BY <1>1, <1>4, <1>5

\* A step that changes no counter and moves a thread between states of the same
\* weight keeps the counts; an unpooled source does not count its connects.
LEMMA StillCount ==
  ASSUME Known, TypeOK', NEW t \in Threads, NEW a, NEW b, Moves(t, a, b),
         In(a, {"holding"}) = In(b, {"holding"}), In(a, OwnerStates) = In(b, OwnerStates),
         Pooled => In(a, SlotStates) = In(b, SlotStates),
         closed' = closed, idle' = idle, total' = total, borrowed' = borrowed,
         net' = net, hcNeed' = hcNeed, t = Beat /\ b # "fill" => hcNeed = 0
  PROVE  CountPart'
<1>n. /\ idle \in Nat /\ total \in Int /\ borrowed \in Nat /\ net \in Int
      /\ hcNeed \in Nat /\ MaxConn \in Nat /\ MinConn \in Nat /\ MinConn <= MaxConn
  BY Numbers DEF NumType
<1>m. Pooled => total <= MaxConn
  BY DEF Known, CountPart
<1>w. \A x, S : In(x, S) \in Int
  BY DEF In
<1>1. HandlesMove(a, b) /\ UnpooledMove(a, b)
  BY <1>n, <1>w DEF HandlesMove, UnpooledMove
<1>2. OwnedMove(a, b)
  BY <1>n, <1>w DEF OwnedMove
<1>3. ASSUME Pooled PROVE SlotsMove(a, b)
  BY <1>3, <1>n, <1>w DEF SlotsMove
<1>4. borrowed' <= borrowed
  BY <1>n
<1>5. Balanced(a, b)
  BY <1>1, <1>2, <1>3, <1>4, <1>m DEF Balanced
<1> QED
  BY <1>5, MoverCount

\* The steps of borrow.
LEMMA ClientCount ==
  ASSUME Known, TypeOK', NEW c \in Clients, ClientStep(c)
  PROVE  CountPart'
<1>c. c \in Threads \ {Reaper} /\ c # Beat
  BY ThreadsAssumption DEF Threads
<1>n. /\ idle \in Nat /\ total \in Int /\ borrowed \in Nat /\ net \in Int
      /\ hcNeed \in Nat /\ MaxConn \in Nat /\ MinConn \in Nat /\ MinConn <= MaxConn
  BY Numbers DEF NumType
<1>m. Pooled => total <= MaxConn
  BY DEF Known, CountPart
<1>1. CASE Borrow(c) \/ Resume(c)
  <2>1. Pooled /\ pc[c] \in {"idle", "woken"} /\ BorrowLoop(c, pc, total, net)
    BY <1>1 DEF Borrow, Resume, Known, UnpooledStates
  <2> QED
    BY <2>1, LoopCount
<1>2. CASE ProbeDead(c)
  <2>1. Pooled /\ pc[c] = "probe"
    BY <1>2 DEF ProbeDead, Known, UnpooledStates
  <2>2. PICK p \in NotifyOne(pc) : BorrowLoop(c, p, Clamp(total - 1), net - 1)
    BY <1>2 DEF ProbeDead
  <2> QED
    BY <2>1, <2>2, LoopCount
<1>3. CASE BorrowTimeout(c)
  <2>1. pc[c] \in {"waiting", "woken"} /\ pc' = [pc EXCEPT ![c] = "idle"]
    BY <1>3 DEF BorrowTimeout
  <2>2. Moves(c, "waiting", "idle") \/ Moves(c, "woken", "idle")
    BY <2>1, <1>c, Moved
  <2>3. /\ closed' = closed /\ idle' = idle /\ total' = total /\ net' = net
        /\ borrowed' = borrowed /\ hcNeed' = hcNeed
    BY <1>3 DEF BorrowTimeout, counters, locals
  <2> QED
    BY <2>2, <2>3, <1>c, InTable, StillCount DEF Weight
<1>4. CASE ProbeAlive(c)
  <2>1. /\ pc[c] = "probe" /\ hcNeed' = hcNeed
        /\ closed' = closed /\ idle' = idle /\ total' = total /\ net' = net
    BY <1>4 DEF ProbeAlive, locals
  <2>2. Pooled
    BY <2>1 DEF Known, UnpooledStates
  <2>3. CASE closed = TRUE
    <3>1. pc' = [pc EXCEPT ![c] = "idle"] /\ borrowed' = borrowed
      BY <1>4, <2>3 DEF ProbeAlive
    <3>2. Moves(c, "probe", "idle")
      BY <2>1, <3>1, <1>c, Moved
    <3>w. Weight("probe", 0, 1, 1) /\ Weight("idle", 0, 0, 0)
      BY InTable
    <3>3. Balanced("probe", "idle")
      BY <3>w, <2>1, <2>3, <3>1, <1>n, <1>m DEF Balanced, HandlesMove, Weight
    <3> QED
      BY <2>1, <3>2, <3>3, <1>c, MoverCount
  <2>4. CASE closed # TRUE
    <3>1. pc' = [pc EXCEPT ![c] = "holding"] /\ borrowed' = borrowed + 1
      BY <1>4, <2>4 DEF ProbeAlive
    <3>2. Moves(c, "probe", "holding")
      BY <2>1, <3>1, <1>c, Moved
    <3>w. Weight("probe", 0, 1, 1) /\ Weight("holding", 1, 1, 1)
      BY InTable
    <3>3. Balanced("probe", "holding")
      <4>1. HandlesMove("probe", "holding") /\ SlotsMove("probe", "holding")
            /\ OwnedMove("probe", "holding")
        BY <3>w, <2>1, <2>2, <2>4, <3>1, <1>n, <1>m DEF HandlesMove, SlotsMove, OwnedMove, Weight
      <4>2. closed' = closed /\ total' <= MaxConn
        BY <2>1, <2>2, <2>4, <3>1, <1>n, <1>m
      <4> QED
        BY <4>1, <4>2, <2>1, <2>2, <2>4, <3>1, <1>n, <1>m DEF Balanced
    <3> QED
      BY <2>1, <3>2, <3>3, <1>c, MoverCount
  <2> QED
    BY <2>3, <2>4
<1>5. CASE BorrowUnpooled(c)
  <2>1. pc[c] = "idle" /\ pc' = [pc EXCEPT ![c] = "create"]
    BY <1>5 DEF BorrowUnpooled
  <2>2. Moves(c, "idle", "create")
    BY <2>1, <1>c, Moved
  <2>3. /\ closed' = closed /\ idle' = idle /\ total' = total /\ net' = net
        /\ borrowed' = borrowed /\ hcNeed' = hcNeed /\ ~Pooled
    BY <1>5 DEF BorrowUnpooled, counters, locals
  <2> QED
    BY <2>2, <2>3, <1>c, InTable, StillCount DEF Weight
<1>6. CASE CreateOk(c)
  <2>1. /\ pc[c] = "create"
        /\ closed' = closed /\ idle' = idle /\ hcNeed' = hcNeed
    BY <1>6 DEF CreateOk, locals
  <2>2. CASE closed = TRUE
    <3>1. /\ pc' = [pc EXCEPT ![c] = "idle"]
          /\ borrowed' = borrowed
          /\ Pooled => total' = total - 1
      BY <1>6, <2>2 DEF CreateOk
    <3>2. Moves(c, "create", "idle")
      BY <2>1, <3>1, <1>c, Moved
    <3>w. Weight("create", 0, 0, 1) /\ Weight("idle", 0, 0, 0)
      BY InTable
    <3>3. Balanced("create", "idle")
      BY <3>w, <2>1, <2>2, <3>1, <1>n, <1>m DEF Balanced, HandlesMove, Weight
    <3> QED
      BY <2>1, <3>2, <3>3, <1>c, MoverCount
  <2>3. CASE closed # TRUE
    <3>1. /\ pc' = [pc EXCEPT ![c] = "holding"]
          /\ borrowed' = borrowed + 1 /\ net' = net + 1
          /\ Pooled => total' = total
          /\ ~Pooled => total' = total + 1
      BY <1>6, <2>3 DEF CreateOk
    <3>2. Moves(c, "create", "holding")
      BY <2>1, <3>1, <1>c, Moved
    <3>w. Weight("create", 0, 0, 1) /\ Weight("holding", 1, 1, 1)
      BY InTable
    <3>3. Balanced("create", "holding")
      <4>1. HandlesMove("create", "holding")
        BY <3>w, <2>1, <3>1, <1>n DEF HandlesMove, Weight
      <4>2. ASSUME closed # TRUE, Pooled PROVE SlotsMove("create", "holding")
        BY <4>2, <3>w, <2>1, <3>1, <1>n DEF SlotsMove, Weight
      <4>3. ASSUME closed # TRUE, ~Pooled PROVE UnpooledMove("create", "holding")
        BY <4>3, <3>w, <2>1, <3>1, <1>n DEF UnpooledMove, Weight
      <4>4. ASSUME closed # TRUE PROVE OwnedMove("create", "holding")
        BY <4>4, <3>w, <2>1, <3>1, <1>n DEF OwnedMove, Weight
      <4>5. /\ closed' = closed
            /\ closed = TRUE => borrowed' <= borrowed
            /\ Pooled => total' <= MaxConn
        BY <2>1, <2>3, <3>1, <1>n, <1>m
      <4> QED
        BY <4>1, <4>2, <4>3, <4>4, <4>5 DEF Balanced
    <3> QED
      BY <2>1, <3>2, <3>3, <1>c, MoverCount
  <2> QED
    BY <2>2, <2>3
<1>7. CASE CreateFail(c)
  <2>1. /\ pc[c] = "create"
        /\ closed' = closed /\ idle' = idle /\ hcNeed' = hcNeed
        /\ borrowed' = borrowed /\ net' = net
        /\ Pooled => total' = Clamp(total - 1)
        /\ ~Pooled => total' = total
    BY <1>7 DEF CreateFail, locals
  <2>2. PICK p : /\ p \in NotifyOne(pc) \/ p = pc
                 /\ pc' = [p EXCEPT ![c] = "idle"]
    BY <1>7 DEF CreateFail
  <2>3. Moves(c, "create", "idle")
    BY <2>1, <2>2, <1>c, Moved
  <2>4. closed # TRUE /\ Pooled => total >= 1
    BY <2>1, <1>c, OwnerCounted DEF SlotStates
  <2>5. closed # TRUE /\ Pooled => total' = total - 1
    BY <2>1, <2>4, <1>n DEF Clamp
  <2>6. Pooled => total' <= MaxConn
    BY <2>1, <1>n, <1>m DEF Clamp
  <2>w. Weight("create", 0, 0, 1) /\ Weight("idle", 0, 0, 0)
    BY InTable
  <2>7. Balanced("create", "idle")
    <3>1. HandlesMove("create", "idle")
      BY <2>w, <2>1, <2>5, <1>n DEF HandlesMove, Weight
    <3>2. ASSUME closed # TRUE, Pooled PROVE SlotsMove("create", "idle")
      BY <3>2, <2>w, <2>1, <2>5, <1>n DEF SlotsMove, Weight
    <3>3. ASSUME closed # TRUE, ~Pooled PROVE UnpooledMove("create", "idle")
      BY <3>3, <2>w, <2>1, <2>5, <1>n DEF UnpooledMove, Weight
    <3>4. ASSUME closed # TRUE PROVE OwnedMove("create", "idle")
      BY <3>4, <2>w, <2>1, <2>5, <1>n DEF OwnedMove, Weight
    <3>5. /\ closed' = closed
          /\ closed = TRUE => borrowed' <= borrowed
          /\ Pooled => total' <= MaxConn
      BY <2>1, <2>6, <1>n
    <3> QED
      BY <3>1, <3>2, <3>3, <3>4, <3>5 DEF Balanced
  <2> QED
    BY <2>1, <2>3, <2>7, <1>c, MoverCount
<1> QED
  BY <1>1, <1>2, <1>3, <1>4, <1>5, <1>6, <1>7 DEF ClientStep

\* expireWaiters moves its caller and threads that own nothing.
LEMMA ExpireMoves ==
  ASSUME Known, NEW t \in Threads \ {Reaper}, NEW next, ExpireWaiters(t, next)
  PROVE  Moves(t, pc[t], next)
<1>1. PICK late \in SUBSET Queued :
        pc' = [u \in Threads |-> IF u = t THEN next
                                 ELSE IF u \in late THEN "idle" ELSE pc[u]]
  BY DEF ExpireWaiters
<1>2. \A u \in late : u \in Requests /\ pc[u] = "queued"
  BY DEF Queued
<1>3. /\ Reaper \in Threads /\ Beat \in Threads
      /\ Beat \notin Requests /\ Reaper \notin Requests
  BY ThreadsAssumption DEF Threads
<1> QED
  BY <1>1, <1>2, <1>3 DEF Moves, Only, SlotStates, OwnerStates

\* The steps of borrowAsync and of the tasks it posts.
LEMMA RequestCount ==
  ASSUME Known, TypeOK', NEW r \in Requests, RequestStep(r)
  PROVE  CountPart'
<1>c. r \in Threads \ {Reaper} /\ r # Beat
  BY ThreadsAssumption DEF Threads
<1>n. /\ idle \in Nat /\ total \in Int /\ borrowed \in Nat /\ net \in Int
      /\ hcNeed \in Nat /\ MaxConn \in Nat /\ MinConn \in Nat /\ MinConn <= MaxConn
  BY Numbers DEF NumType
<1>m. Pooled => total <= MaxConn
  BY DEF Known, CountPart
<1>s. closed # TRUE /\ Pooled => total = idle + SlotCount(pc) + hcNeed
  BY DEF Known, CountPart
<1>1. CASE AsyncBorrow(r)
  <2>1. /\ pc[r] \in {"idle", "reclose"} /\ ExpireWaiters(r, "enter")
        /\ closed' = closed /\ idle' = idle /\ total' = total /\ net' = net
        /\ borrowed' = borrowed /\ hcNeed' = hcNeed
    BY <1>1 DEF AsyncBorrow, counters, locals
  <2>2. Moves(r, "idle", "enter") \/ Moves(r, "reclose", "enter")
    BY <2>1, <1>c, ExpireMoves
  <2> QED
    BY <2>1, <2>2, <1>c, InTable, StillCount DEF Weight
<1>2. CASE AsyncEnter(r)
  <2>0. /\ pc[r] = "enter" /\ closed' = closed /\ hcNeed' = hcNeed
    BY <1>2 DEF AsyncEnter, locals
  <2>1. CASE /\ idle' = idle /\ total' = total /\ net' = net /\ borrowed' = borrowed
             /\ \/ \E b \in {"idle", "queued"} : pc' = [pc EXCEPT ![r] = b]
                \/ ~Pooled /\ pc' = [pc EXCEPT ![r] = "create"]
    <3>1. \/ Moves(r, "enter", "idle") \/ Moves(r, "enter", "queued")
          \/ ~Pooled /\ Moves(r, "enter", "create")
      BY <2>0, <2>1, <1>c, Moved
    <3> QED
      BY <2>0, <2>1, <3>1, <1>c, InTable, StillCount DEF Weight
  <2>2. CASE /\ closed # TRUE /\ Pooled /\ idle > 0 /\ idle' = idle - 1
             /\ total' = Clamp(total - 1) /\ net' = net - 1 /\ borrowed' = borrowed
             /\ pc' = [pc EXCEPT ![r] = "reclose"]
    <3>1. Moves(r, "enter", "reclose")
      BY <2>0, <2>2, <1>c, Moved
    <3>2. total >= 1
      <4>1. SlotCount(pc) \in Nat
        BY Numbers
      <4>2. total = idle + SlotCount(pc) + hcNeed /\ idle > 0
        BY <1>s, <2>2
      <4> QED
        BY <4>1, <4>2, <1>n
    <3>3. total' = total - 1
      BY <2>2, <3>2, <1>n DEF Clamp
    <3>f. /\ closed # TRUE /\ Pooled /\ idle' = idle - 1 /\ net' = net - 1
          /\ borrowed' = borrowed
      BY <2>2
    <3>w. Weight("enter", 0, 0, 0) /\ Weight("reclose", 0, 0, 0)
      BY InTable
    <3>4. Balanced("enter", "reclose")
      <4>1. HandlesMove("enter", "reclose") /\ SlotsMove("enter", "reclose")
            /\ OwnedMove("enter", "reclose")
        BY <3>w, <2>0, <3>f, <3>3, <1>n DEF HandlesMove, SlotsMove, OwnedMove, Weight
      <4>2. closed' = closed /\ total' <= MaxConn
        BY <2>0, <3>f, <3>3, <1>n, <1>m
      <4> QED
        BY <4>1, <4>2, <2>0, <3>f, <3>3, <1>n DEF Balanced
    <3> QED
      BY <2>0, <3>1, <3>4, <1>c, MoverCount
  <2>3. CASE /\ closed # TRUE /\ Pooled /\ idle > 0 /\ idle' = idle - 1
             /\ total' = total /\ net' = net /\ borrowed' = borrowed
             /\ pc' = [pc EXCEPT ![r] = "ping"]
    <3>1. Moves(r, "enter", "ping")
      BY <2>0, <2>3, <1>c, Moved
    <3>f. /\ closed # TRUE /\ Pooled /\ idle' = idle - 1 /\ net' = net /\ total' = total
          /\ borrowed' = borrowed
      BY <2>3
    <3>w. Weight("enter", 0, 0, 0) /\ Weight("ping", 0, 1, 1)
      BY InTable
    <3>2. Balanced("enter", "ping")
      <4>1. HandlesMove("enter", "ping") /\ SlotsMove("enter", "ping")
            /\ OwnedMove("enter", "ping")
        BY <3>w, <2>0, <3>f, <1>n DEF HandlesMove, SlotsMove, OwnedMove, Weight
      <4>2. closed' = closed /\ total' <= MaxConn
        BY <2>0, <3>f, <1>n, <1>m
      <4> QED
        BY <4>1, <4>2, <2>0, <3>f, <1>n DEF Balanced
    <3> QED
      BY <2>0, <3>1, <3>2, <1>c, MoverCount
  <2>4. CASE /\ closed # TRUE /\ Pooled /\ HasRoom(total) /\ idle' = idle
             /\ total' = total + 1 /\ net' = net /\ borrowed' = borrowed
             /\ pc' = [pc EXCEPT ![r] = "create"]
    <3>1. Moves(r, "enter", "create")
      BY <2>0, <2>4, <1>c, Moved
    <3>f. /\ closed # TRUE /\ Pooled /\ idle' = idle /\ net' = net
          /\ total' = total + 1 /\ total < MaxConn /\ borrowed' = borrowed
      BY <2>4 DEF HasRoom
    <3>w. Weight("enter", 0, 0, 0) /\ Weight("create", 0, 0, 1)
      BY InTable
    <3>2. Balanced("enter", "create")
      <4>1. HandlesMove("enter", "create") /\ SlotsMove("enter", "create")
            /\ OwnedMove("enter", "create")
        BY <3>w, <2>0, <3>f, <1>n DEF HandlesMove, SlotsMove, OwnedMove, Weight
      <4>2. closed' = closed /\ total' <= MaxConn
        BY <2>0, <3>f, <1>n
      <4> QED
        BY <4>1, <4>2, <2>0, <3>f, <1>n DEF Balanced
    <3> QED
      BY <2>0, <3>1, <3>2, <1>c, MoverCount
  <2>5. CASE /\ closed # TRUE /\ Pooled /\ idle > 0 /\ idle' = idle - 1
             /\ total' = total /\ net' = net /\ borrowed' = borrowed + 1
             /\ pc' = [pc EXCEPT ![r] = "holding"]
    <3>1. Moves(r, "enter", "holding")
      BY <2>0, <2>5, <1>c, Moved
    <3>f. /\ closed # TRUE /\ Pooled /\ idle' = idle - 1 /\ net' = net /\ total' = total
          /\ borrowed' = borrowed + 1
      BY <2>5
    <3>w. Weight("enter", 0, 0, 0) /\ Weight("holding", 1, 1, 1)
      BY InTable
    <3>2. Balanced("enter", "holding")
      <4>1. HandlesMove("enter", "holding") /\ SlotsMove("enter", "holding")
            /\ OwnedMove("enter", "holding")
        BY <3>w, <2>0, <3>f, <1>n DEF HandlesMove, SlotsMove, OwnedMove, Weight
      <4>2. closed' = closed /\ total' <= MaxConn
        BY <2>0, <3>f, <1>n, <1>m
      <4> QED
        BY <4>1, <4>2, <2>0, <3>f, <1>n DEF Balanced
    <3> QED
      BY <2>0, <3>1, <3>2, <1>c, MoverCount
  <2> QED
    BY <1>2, <2>1, <2>2, <2>3, <2>4, <2>5 DEF AsyncEnter
<1>3. CASE AsyncPing(r)
  <2>0. /\ pc[r] = "ping" /\ hcNeed' = hcNeed
        /\ closed' = closed /\ idle' = idle /\ total' = total /\ net' = net
    BY <1>3 DEF AsyncPing, locals
  <2>p. Pooled
    BY <2>0 DEF Known, UnpooledStates
  <2>1. CASE closed = TRUE /\ borrowed' = borrowed /\ pc' = [pc EXCEPT ![r] = "idle"]
    <3>1. Moves(r, "ping", "idle")
      BY <2>0, <2>1, <1>c, Moved
    <3>w. Weight("ping", 0, 1, 1) /\ Weight("idle", 0, 0, 0)
      BY InTable
    <3>2. Balanced("ping", "idle")
      BY <3>w, <2>0, <2>1, <1>n, <1>m DEF Balanced, HandlesMove, Weight
    <3> QED
      BY <2>0, <3>1, <3>2, <1>c, MoverCount
  <2>2. CASE /\ closed # TRUE /\ borrowed' = borrowed + 1
             /\ pc' = [pc EXCEPT ![r] = "holding"]
    <3>1. Moves(r, "ping", "holding")
      BY <2>0, <2>2, <1>c, Moved
    <3>f. closed # TRUE /\ borrowed' = borrowed + 1
      BY <2>2
    <3>w. Weight("ping", 0, 1, 1) /\ Weight("holding", 1, 1, 1)
      BY InTable
    <3>2. Balanced("ping", "holding")
      <4>1. HandlesMove("ping", "holding") /\ SlotsMove("ping", "holding")
            /\ OwnedMove("ping", "holding")
        BY <3>w, <2>0, <2>p, <3>f, <1>n, <1>m DEF HandlesMove, SlotsMove, OwnedMove, Weight
      <4>2. closed' = closed /\ total' <= MaxConn
        BY <2>0, <2>p, <3>f, <1>n, <1>m
      <4> QED
        BY <4>1, <4>2, <2>0, <2>p, <3>f, <1>n, <1>m DEF Balanced
    <3> QED
      BY <2>0, <3>1, <3>2, <1>c, MoverCount
  <2>3. CASE borrowed' = borrowed /\ pc' = [pc EXCEPT ![r] = "drop"]
    <3>1. Moves(r, "ping", "drop")
      BY <2>0, <2>3, <1>c, Moved
    <3> QED
      BY <2>0, <2>3, <3>1, <1>c, InTable, StillCount DEF Weight
  <2> QED
    BY <1>3, <2>1, <2>2, <2>3 DEF AsyncPing
<1>4. CASE AsyncDrop(r)
  <2>0. /\ pc[r] = "drop" /\ hcNeed' = hcNeed /\ borrowed' = borrowed
        /\ closed' = closed /\ idle' = idle /\ total' = Clamp(total - 1)
        /\ net' = net - 1
    BY <1>4 DEF AsyncDrop, locals
  <2>p. Pooled
    BY <2>0 DEF Known, UnpooledStates
  <2>1. Moves(r, "drop", "reclose")
    BY <1>4, <1>c, Moved DEF AsyncDrop
  <2>2. closed # TRUE => total >= 1
    BY <2>0, <2>p, <1>c, OwnerCounted DEF SlotStates, OwnerStates
  <2>3. closed # TRUE => total' = total - 1
    BY <2>0, <2>2, <1>n DEF Clamp
  <2>4. total' <= MaxConn
    BY <2>0, <2>p, <1>n, <1>m DEF Clamp
  <2>w. Weight("drop", 0, 1, 1) /\ Weight("reclose", 0, 0, 0)
    BY InTable
  <2>5. Balanced("drop", "reclose")
    <3>1. HandlesMove("drop", "reclose")
      BY <2>w, <2>0, <2>p, <2>3, <1>n DEF HandlesMove, Weight
    <3>2. ASSUME closed # TRUE, Pooled PROVE SlotsMove("drop", "reclose")
      BY <3>2, <2>w, <2>0, <2>p, <2>3, <1>n DEF SlotsMove, Weight
    <3>3. ASSUME closed # TRUE, ~Pooled PROVE UnpooledMove("drop", "reclose")
      BY <3>3, <2>w, <2>0, <2>p, <2>3, <1>n DEF UnpooledMove, Weight
    <3>4. ASSUME closed # TRUE PROVE OwnedMove("drop", "reclose")
      BY <3>4, <2>w, <2>0, <2>p, <2>3, <1>n DEF OwnedMove, Weight
    <3>5. /\ closed' = closed
          /\ closed = TRUE => borrowed' <= borrowed
          /\ Pooled => total' <= MaxConn
      BY <2>0, <2>4, <1>n
    <3> QED
      BY <3>1, <3>2, <3>3, <3>4, <3>5 DEF Balanced
  <2> QED
    BY <2>0, <2>1, <2>5, <1>c, MoverCount
<1>5. CASE AsyncCreate(r)
  <2>0. /\ pc[r] = "create" /\ hcNeed' = hcNeed
        /\ closed' = closed /\ idle' = idle
    BY <1>5 DEF AsyncCreate, locals
  <2>1. CASE /\ closed = TRUE /\ pc' = [pc EXCEPT ![r] = "idle"] /\ borrowed' = borrowed
             /\ Pooled => total' = Dec(total)
    <3>1. Moves(r, "create", "idle")
      BY <2>0, <2>1, <1>c, Moved
    <3>2. Pooled => total' <= MaxConn
      BY <2>1, <1>n, <1>m DEF Dec
    <3>f. closed = TRUE /\ borrowed' = borrowed
      BY <2>1
    <3>w. Weight("create", 0, 0, 1) /\ Weight("idle", 0, 0, 0)
      BY InTable
    <3>3. Balanced("create", "idle")
      BY <3>w, <2>0, <3>f, <3>2, <1>n DEF Balanced, HandlesMove, Weight
    <3> QED
      BY <2>0, <3>1, <3>3, <1>c, MoverCount
  <2>2. CASE /\ closed # TRUE /\ pc' = [pc EXCEPT ![r] = "idle"] /\ borrowed' = borrowed
             /\ net' = net
             /\ Pooled => total' = Clamp(total - 1)
             /\ ~Pooled => total' = total
    <3>1. Moves(r, "create", "idle")
      BY <2>0, <2>2, <1>c, Moved
    <3>2. Pooled => total >= 1
      BY <2>0, <2>2, <1>c, OwnerCounted DEF SlotStates
    <3>3. Pooled => total' = total - 1
      BY <2>2, <3>2, <1>n DEF Clamp
    <3>f. /\ borrowed' = borrowed /\ net' = net
          /\ ~Pooled => total' = total
      BY <2>2
    <3>w. Weight("create", 0, 0, 1) /\ Weight("idle", 0, 0, 0)
      BY InTable
    <3>4. Balanced("create", "idle")
      <4>1. HandlesMove("create", "idle")
        BY <3>w, <2>0, <3>f, <3>3, <1>n DEF HandlesMove, Weight
      <4>2. ASSUME closed # TRUE, Pooled PROVE SlotsMove("create", "idle")
        BY <4>2, <3>w, <2>0, <3>f, <3>3, <1>n DEF SlotsMove, Weight
      <4>3. ASSUME closed # TRUE, ~Pooled PROVE UnpooledMove("create", "idle")
        BY <4>3, <3>w, <2>0, <3>f, <3>3, <1>n DEF UnpooledMove, Weight
      <4>4. ASSUME closed # TRUE PROVE OwnedMove("create", "idle")
        BY <4>4, <3>w, <2>0, <3>f, <3>3, <1>n DEF OwnedMove, Weight
      <4>5. /\ closed' = closed
            /\ closed = TRUE => borrowed' <= borrowed
            /\ Pooled => total' <= MaxConn
        BY <2>0, <3>f, <3>3, <1>n, <1>m
      <4> QED
        BY <4>1, <4>2, <4>3, <4>4, <4>5 DEF Balanced
    <3> QED
      BY <2>0, <3>1, <3>4, <1>c, MoverCount
  <2>3. CASE /\ closed # TRUE /\ pc' = [pc EXCEPT ![r] = "holding"]
             /\ borrowed' = borrowed + 1 /\ net' = net + 1
             /\ Pooled => total' = total
             /\ ~Pooled => total' = total + 1
    <3>1. Moves(r, "create", "holding")
      BY <2>0, <2>3, <1>c, Moved
    <3>f. /\ closed # TRUE /\ borrowed' = borrowed + 1 /\ net' = net + 1
          /\ Pooled => total' = total
          /\ ~Pooled => total' = total + 1
      BY <2>3
    <3>w. Weight("create", 0, 0, 1) /\ Weight("holding", 1, 1, 1)
      BY InTable
    <3>2. Balanced("create", "holding")
      <4>1. HandlesMove("create", "holding")
        BY <3>w, <2>0, <3>f, <1>n DEF HandlesMove, Weight
      <4>2. ASSUME closed # TRUE, Pooled PROVE SlotsMove("create", "holding")
        BY <4>2, <3>w, <2>0, <3>f, <1>n DEF SlotsMove, Weight
      <4>3. ASSUME closed # TRUE, ~Pooled PROVE UnpooledMove("create", "holding")
        BY <4>3, <3>w, <2>0, <3>f, <1>n DEF UnpooledMove, Weight
      <4>4. ASSUME closed # TRUE PROVE OwnedMove("create", "holding")
        BY <4>4, <3>w, <2>0, <3>f, <1>n DEF OwnedMove, Weight
      <4>5. /\ closed' = closed
            /\ closed = TRUE => borrowed' <= borrowed
            /\ Pooled => total' <= MaxConn
        BY <2>0, <3>f, <1>n, <1>m
      <4> QED
        BY <4>1, <4>2, <4>3, <4>4, <4>5 DEF Balanced
    <3> QED
      BY <2>0, <3>1, <3>2, <1>c, MoverCount
  <2> QED
    BY <1>5, <2>1, <2>2, <2>3 DEF AsyncCreate
<1> QED
  BY <1>1, <1>2, <1>3, <1>4, <1>5 DEF RequestStep

\* The steps of returnConn and ~Handle.
LEMMA ReturnCount ==
  ASSUME Known, TypeOK', NEW t \in Clients \cup Requests, ReturnStep(t)
  PROVE  CountPart'
<1>c. t \in Threads \ {Reaper} /\ t # Beat
  BY ThreadsAssumption DEF Threads
<1>n. /\ idle \in Nat /\ total \in Int /\ borrowed \in Nat /\ net \in Int
      /\ hcNeed \in Nat /\ MaxConn \in Nat /\ MinConn \in Nat /\ MinConn <= MaxConn
  BY Numbers DEF NumType
<1>m. Pooled => total <= MaxConn
  BY DEF Known, CountPart
<1>1. CASE ReturnClose(t)
  <2>0. /\ pc[t] = "holding" /\ hcNeed' = hcNeed /\ pc[Reaper] # "gone"
        /\ closed' = closed /\ idle' = idle /\ net' = net - 1
        /\ borrowed' = Dec(borrowed) /\ total' = Dec(total)
    BY <1>1 DEF ReturnClose, Exists, locals
  <2>1. Moves(t, "holding", "closing")
    BY <1>1, <1>c, Moved DEF ReturnClose
  <2>2. borrowed >= 1 /\ (closed # TRUE => total >= 1)
    BY <2>0, <1>c, OwnerCounted DEF SlotStates, OwnerStates
  <2>3. borrowed' = borrowed - 1
    BY <2>0, <2>2, <1>n DEF Dec
  <2>4. closed # TRUE => total' = total - 1
    BY <2>0, <2>2, <1>n DEF Dec
  <2>5. Pooled => total' <= MaxConn
    BY <2>0, <1>n, <1>m DEF Dec
  <2>f. closed' = closed /\ idle' = idle /\ net' = net - 1 /\ hcNeed' = hcNeed
    BY <2>0
  <2>w. Weight("holding", 1, 1, 1) /\ Weight("closing", 0, 0, 0)
    BY InTable
  <2>6. Balanced("holding", "closing")
    <3>1. HandlesMove("holding", "closing")
      BY <2>w, <2>f, <2>3, <2>4, <1>n DEF HandlesMove, Weight
    <3>2. ASSUME closed # TRUE, Pooled PROVE SlotsMove("holding", "closing")
      BY <3>2, <2>w, <2>f, <2>3, <2>4, <1>n DEF SlotsMove, Weight
    <3>3. ASSUME closed # TRUE, ~Pooled PROVE UnpooledMove("holding", "closing")
      BY <3>3, <2>w, <2>f, <2>3, <2>4, <1>n DEF UnpooledMove, Weight
    <3>4. ASSUME closed # TRUE PROVE OwnedMove("holding", "closing")
      BY <3>4, <2>w, <2>f, <2>3, <2>4, <1>n DEF OwnedMove, Weight
    <3>5. /\ closed' = closed
          /\ closed = TRUE => borrowed' <= borrowed
          /\ Pooled => total' <= MaxConn
      BY <2>f, <2>3, <2>5, <1>n
    <3> QED
      BY <3>1, <3>2, <3>3, <3>4, <3>5 DEF Balanced
  <2> QED
    BY <2>0, <2>1, <2>6, <1>c, MoverCount
<1>2. CASE ReturnHandoff(t)
  <2>0. /\ pc[t] = "holding" /\ hcNeed' = hcNeed /\ pc[Reaper] # "gone"
        /\ closed' = closed /\ idle' = idle /\ net' = net
        /\ borrowed' = Dec(borrowed) + 1 /\ total' = total
    BY <1>2 DEF ReturnHandoff, Exists, locals
  <2>1. borrowed' = borrowed
    <3>1. borrowed >= 1
      BY <2>0, <1>c, OwnerCounted
    <3> QED
      BY <2>0, <3>1, <1>n DEF Dec
  <2>2. PICK late \in SUBSET Queued, r \in Queued :
          pc' = [u \in Threads |-> IF u = t THEN "idle"
                                   ELSE IF u = r THEN "holding"
                                   ELSE IF u \in late THEN "lost"
                                   ELSE pc[u]]
    BY <1>2 DEF ReturnHandoff
  <2>3. \A u \in late \cup {r} : u \in Requests /\ pc[u] = "queued"
    BY DEF Queued
  <2>4. /\ Reaper \in Threads /\ Beat \in Threads /\ r \in Threads /\ r # t
        /\ Beat \notin Requests /\ Reaper \notin Requests
    BY <2>0, <2>3, ThreadsAssumption DEF Threads
  <2> DEFINE q == [u \in Threads |-> IF u = t THEN "idle" ELSE pc[u]]
  <2>5. q[t] = "idle" /\ q[r] = "queued"
    BY <2>3, <2>4, <1>c
  <2>6. Only(pc, q, t)
    BY <1>c DEF Only
  <2>7. Only(q, pc', r)
    BY <2>2, <2>3, <2>4, <1>c DEF Only, SlotStates, OwnerStates
  <2>8. pc'[r] = "holding" /\ pc'[Beat] = pc[Beat] /\ pc'[Reaper] = pc[Reaper]
    BY <2>2, <2>3, <2>4, <1>c
  <2> HIDE DEF q
  <2>w. Weight("holding", 1, 1, 1) /\ Weight("idle", 0, 0, 0) /\ Weight("queued", 0, 0, 0)
    BY InTable
  <2>9. /\ HandleCount(pc') = HandleCount(pc) /\ OwnedCount(pc') = OwnedCount(pc)
        /\ SlotCount(pc') = SlotCount(pc)
    <3>1. /\ HandleCount(q) = HandleCount(pc) + 0 - 1
          /\ OwnedCount(q) = OwnedCount(pc) + 0 - 1
          /\ SlotCount(q) = SlotCount(pc) + 0 - 1
      BY <2>0, <2>5, <2>6, <2>w, <1>c, Counts DEF Weight
    <3>2. /\ HandleCount(pc') = HandleCount(q) + 1 - 0
          /\ OwnedCount(pc') = OwnedCount(q) + 1 - 0
          /\ SlotCount(pc') = SlotCount(q) + 1 - 0
      BY <2>4, <2>5, <2>7, <2>8, <2>w, Counts DEF Weight
    <3>3. /\ HandleCount(pc) \in Int /\ OwnedCount(pc) \in Int /\ SlotCount(pc) \in Int
      BY Numbers
    <3> QED
      BY <3>1, <3>2, <3>3
  <2> QED
    BY <2>0, <2>1, <2>8, <2>9 DEF Known, CountPart
<1>3. CASE ReturnIdle(t)
  <2>0. /\ pc[t] = "holding" /\ hcNeed' = hcNeed /\ pc[Reaper] # "gone"
        /\ closed # TRUE /\ Pooled
        /\ closed' = closed /\ idle' = idle + 1 /\ net' = net
        /\ borrowed' = Dec(borrowed) /\ total' = total
    BY <1>3 DEF ReturnIdle, Exists, locals
  <2>1. Moves(t, "holding", "notify")
    <3>1. pc' = [u \in Threads |-> IF u = t THEN "notify"
                                   ELSE IF u \in Queued THEN "idle"
                                   ELSE pc[u]]
      BY <1>3 DEF ReturnIdle
    <3>2. \A u \in Queued : u \in Requests /\ pc[u] = "queued"
      BY DEF Queued
    <3>3. /\ Reaper \in Threads /\ Beat \in Threads
          /\ Beat \notin Requests /\ Reaper \notin Requests
      BY ThreadsAssumption DEF Threads
    <3> QED
      BY <2>0, <3>1, <3>2, <3>3, <1>c DEF Moves, Only, SlotStates, OwnerStates
  <2>2. borrowed' = borrowed - 1
    <3>1. borrowed >= 1
      BY <2>0, <1>c, OwnerCounted
    <3> QED
      BY <2>0, <3>1, <1>n DEF Dec
  <2>f. /\ hcNeed' = hcNeed /\ closed # TRUE /\ Pooled /\ closed' = closed
        /\ idle' = idle + 1 /\ net' = net /\ total' = total
    BY <2>0
  <2>w. Weight("holding", 1, 1, 1) /\ Weight("notify", 0, 0, 0)
    BY InTable
  <2>3. Balanced("holding", "notify")
    <3>1. HandlesMove("holding", "notify") /\ SlotsMove("holding", "notify")
          /\ OwnedMove("holding", "notify")
      BY <2>w, <2>f, <2>2, <1>n DEF HandlesMove, SlotsMove, OwnedMove, Weight
    <3>2. closed' = closed /\ total' <= MaxConn
      BY <2>f, <1>n, <1>m
    <3> QED
      BY <3>1, <3>2, <2>f, <2>2, <1>n DEF Balanced
  <2> QED
    BY <2>0, <2>1, <2>3, <1>c, MoverCount
<1>4. CASE ReturnNotify(t)
  <2>0. /\ closed' = closed /\ idle' = idle /\ total' = total /\ net' = net
        /\ borrowed' = borrowed /\ hcNeed' = hcNeed
    BY <1>4 DEF ReturnNotify, counters, locals
  <2>1. PICK p \in NotifyOne(pc) : pc' = [p EXCEPT ![t] = "idle"]
    BY <1>4 DEF ReturnNotify
  <2>2. Moves(t, "closing", "idle") \/ Moves(t, "notify", "idle")
    BY <1>4, <2>1, <1>c, Moved DEF ReturnNotify
  <2> QED
    BY <2>0, <2>2, <1>c, InTable, StillCount DEF Weight
<1>5. CASE ReturnOrphan(t)
  <2>0. /\ pc[t] = "holding" /\ hcNeed' = hcNeed /\ pc[Reaper] = "gone"
        /\ closed' = closed /\ total' = total /\ borrowed' = borrowed
    BY <1>5 DEF ReturnOrphan, Exists, counters, locals
  <2>1. Moves(t, "holding", "idle")
    BY <1>5, <1>c, Moved DEF ReturnOrphan
  <2>2. closed = TRUE
    BY <2>0 DEF Known
  <2>3. Balanced("holding", "idle")
    BY <2>0, <2>2, <1>n, <1>m DEF Balanced
  <2> QED
    BY <2>0, <2>1, <2>3, <1>c, MoverCount
<1> QED
  BY <1>1, <1>2, <1>3, <1>4, <1>5 DEF ReturnStep

\* The steps of healthCheck.
LEMMA HealthCount ==
  ASSUME Known, TypeOK', HealthStep
  PROVE  CountPart'
<1>c. Beat \in Threads \ {Reaper}
  BY ThreadsAssumption DEF Threads
<1>n. /\ idle \in Nat /\ total \in Int /\ borrowed \in Nat /\ net \in Int
      /\ hcNeed \in Nat /\ MaxConn \in Nat /\ MinConn \in Nat /\ MinConn <= MaxConn
  BY Numbers DEF NumType
<1>m. Pooled => total <= MaxConn
  BY DEF Known, CountPart
<1>f. pc[Beat] # "fill" => hcNeed = 0
  BY DEF Known, CountPart
<1>p. Pooled
  BY DEF HealthStep, HealthExpire, HealthSnapshot, HealthTake, HealthBreak,
         HealthKeep, HealthEvict, HealthReserve, HealthFill, Known, UnpooledStates
<1>1. CASE HealthExpire \/ HealthSnapshot \/ HealthBreak
  <2>1. /\ closed' = closed /\ idle' = idle /\ total' = total /\ net' = net
        /\ borrowed' = borrowed /\ hcNeed' = hcNeed
    BY <1>1 DEF HealthExpire, HealthSnapshot, HealthBreak, counters, locals
  <2>2. \/ Moves(Beat, "idle", "snap") \/ Moves(Beat, "snap", "take")
        \/ Moves(Beat, "take", "reserve")
    <3>1. CASE HealthExpire
      BY <3>1, <1>c, ExpireMoves DEF HealthExpire
    <3>2. CASE HealthSnapshot \/ HealthBreak
      BY <3>2, <1>c, Moved DEF HealthSnapshot, HealthBreak
    <3> QED
      BY <1>1, <3>1, <3>2
  <2>3. hcNeed = 0
    BY <1>1, <1>f DEF HealthExpire, HealthSnapshot, HealthBreak
  <2> QED
    BY <2>1, <2>2, <2>3, <1>c, InTable, StillCount DEF Weight
<1>2. CASE HealthTake
  <2>0. /\ hcNeed' = hcNeed /\ closed # TRUE /\ closed' = closed
        /\ idle' = idle - 1 /\ net' = net /\ total' = total /\ borrowed' = borrowed
    BY <1>2 DEF HealthTake
  <2>1. Moves(Beat, "take", "probe") \/ Moves(Beat, "take", "retire")
    BY <1>2, <1>c, Moved DEF HealthTake
  <2>2. hcNeed' = 0
    BY <1>2, <2>0, <1>f DEF HealthTake
  <2>w. Weight("take", 0, 0, 0) /\ Weight("probe", 0, 1, 1)
    BY InTable
  <2>3. Balanced("take", "probe")
    <3>1. HandlesMove("take", "probe") /\ SlotsMove("take", "probe")
          /\ OwnedMove("take", "probe")
      BY <2>w, <2>0, <1>p, <1>n DEF HandlesMove, SlotsMove, OwnedMove, Weight
    <3>2. closed' = closed /\ total' <= MaxConn
      BY <2>0, <1>p, <1>n, <1>m
    <3> QED
      BY <3>1, <3>2, <2>0, <1>p, <1>n DEF Balanced
  <2>v. Weight("take", 0, 0, 0) /\ Weight("retire", 0, 1, 1)
    BY InTable
  <2>4. Balanced("take", "retire")
    <3>1. HandlesMove("take", "retire") /\ SlotsMove("take", "retire")
          /\ OwnedMove("take", "retire")
      BY <2>v, <2>0, <1>p, <1>n DEF HandlesMove, SlotsMove, OwnedMove, Weight
    <3>2. closed' = closed /\ total' <= MaxConn
      BY <2>0, <1>p, <1>n, <1>m
    <3> QED
      BY <3>1, <3>2, <2>0, <1>p, <1>n DEF Balanced
  <2> QED
    BY <2>1, <2>2, <2>3, <2>4, <1>c, MoverCount
<1>3. CASE HealthKeep
  <2>0. /\ hcNeed' = hcNeed /\ closed # TRUE /\ closed' = closed
        /\ idle' = idle + 1 /\ net' = net /\ total' = total /\ borrowed' = borrowed
    BY <1>3 DEF HealthKeep, locals
  <2>1. Moves(Beat, "probe", "take")
    BY <1>3, <1>c, Moved DEF HealthKeep
  <2>2. hcNeed' = 0
    BY <1>3, <2>0, <1>f DEF HealthKeep
  <2>w. Weight("probe", 0, 1, 1) /\ Weight("take", 0, 0, 0)
    BY InTable
  <2>3. Balanced("probe", "take")
    <3>1. HandlesMove("probe", "take") /\ SlotsMove("probe", "take")
          /\ OwnedMove("probe", "take")
      BY <2>w, <2>0, <1>p, <1>n DEF HandlesMove, SlotsMove, OwnedMove, Weight
    <3>2. closed' = closed /\ total' <= MaxConn
      BY <2>0, <1>p, <1>n, <1>m
    <3> QED
      BY <3>1, <3>2, <2>0, <1>p, <1>n DEF Balanced
  <2> QED
    BY <2>1, <2>2, <2>3, <1>c, MoverCount
<1>4. CASE HealthEvict
  <2>0. /\ hcNeed' = hcNeed /\ closed' = closed /\ idle' = idle
        /\ net' = net - 1 /\ total' = Clamp(total - 1) /\ borrowed' = borrowed
    BY <1>4 DEF HealthEvict, locals
  <2>1. Moves(Beat, "probe", "take") \/ Moves(Beat, "retire", "take")
    BY <1>4, <1>c, Moved DEF HealthEvict
  <2>2. hcNeed' = 0
    BY <1>4, <2>0, <1>f DEF HealthEvict
  <2>3. closed # TRUE => total >= 1
    BY <1>4, <1>p, <1>c, OwnerCounted DEF HealthEvict, SlotStates, OwnerStates
  <2>4. closed # TRUE => total' = total - 1
    BY <2>0, <2>3, <1>n DEF Clamp
  <2>5. total' <= MaxConn
    BY <2>0, <1>p, <1>n, <1>m DEF Clamp
  <2>f. /\ hcNeed' = hcNeed /\ closed' = closed /\ idle' = idle
        /\ net' = net - 1 /\ borrowed' = borrowed
    BY <2>0
  <2>w. Weight("probe", 0, 1, 1) /\ Weight("take", 0, 0, 0)
    BY InTable
  <2>6. Balanced("probe", "take")
    <3>1. HandlesMove("probe", "take")
      BY <2>w, <2>f, <2>4, <1>p, <1>n DEF HandlesMove, Weight
    <3>2. ASSUME closed # TRUE, Pooled PROVE SlotsMove("probe", "take")
      BY <3>2, <2>w, <2>f, <2>4, <1>p, <1>n DEF SlotsMove, Weight
    <3>3. ASSUME closed # TRUE, ~Pooled PROVE UnpooledMove("probe", "take")
      BY <3>3, <2>w, <2>f, <2>4, <1>p, <1>n DEF UnpooledMove, Weight
    <3>4. ASSUME closed # TRUE PROVE OwnedMove("probe", "take")
      BY <3>4, <2>w, <2>f, <2>4, <1>p, <1>n DEF OwnedMove, Weight
    <3>5. /\ closed' = closed
          /\ closed = TRUE => borrowed' <= borrowed
          /\ Pooled => total' <= MaxConn
      BY <2>f, <2>5, <1>n
    <3> QED
      BY <3>1, <3>2, <3>3, <3>4, <3>5 DEF Balanced
  <2>v. Weight("retire", 0, 1, 1) /\ Weight("take", 0, 0, 0)
    BY InTable
  <2>7. Balanced("retire", "take")
    <3>1. HandlesMove("retire", "take")
      BY <2>v, <2>f, <2>4, <1>p, <1>n DEF HandlesMove, Weight
    <3>2. ASSUME closed # TRUE, Pooled PROVE SlotsMove("retire", "take")
      BY <3>2, <2>v, <2>f, <2>4, <1>p, <1>n DEF SlotsMove, Weight
    <3>3. ASSUME closed # TRUE, ~Pooled PROVE UnpooledMove("retire", "take")
      BY <3>3, <2>v, <2>f, <2>4, <1>p, <1>n DEF UnpooledMove, Weight
    <3>4. ASSUME closed # TRUE PROVE OwnedMove("retire", "take")
      BY <3>4, <2>v, <2>f, <2>4, <1>p, <1>n DEF OwnedMove, Weight
    <3>5. /\ closed' = closed
          /\ closed = TRUE => borrowed' <= borrowed
          /\ Pooled => total' <= MaxConn
      BY <2>f, <2>5, <1>n
    <3> QED
      BY <3>1, <3>2, <3>3, <3>4, <3>5 DEF Balanced
  <2> QED
    BY <2>1, <2>2, <2>6, <2>7, <1>c, MoverCount
<1>5. CASE HealthReserve
  <2>0. /\ closed' = closed /\ idle' = idle /\ net' = net /\ borrowed' = borrowed
        /\ pc[Beat] = "reserve" /\ hcNeed = 0
    BY <1>5, <1>f DEF HealthReserve
  <2>1. CASE closed = TRUE
    <3>1. /\ pc' = [pc EXCEPT ![Beat] = "idle"]
          /\ total' = total /\ hcNeed' = hcNeed
      BY <1>5, <2>1 DEF HealthReserve
    <3>2. Moves(Beat, "reserve", "idle")
      BY <2>0, <3>1, <1>c, Moved
    <3> QED
      BY <2>0, <3>1, <3>2, <1>c, InTable, StillCount DEF Weight
  <2>2. CASE closed # TRUE
    <3>1. /\ pc' = [pc EXCEPT ![Beat] = "fill"]
          /\ total' = total + hcNeed' /\ hcNeed' = Clamp(MinConn - total)
      BY <1>5, <2>2 DEF HealthReserve
    <3>2. Moves(Beat, "reserve", "fill")
      BY <2>0, <3>1, <1>c, Moved
    <3>3. hcNeed' \in Int /\ total' <= MaxConn
      BY <3>1, <1>n, <1>p, <1>m DEF Clamp
    <3>f. /\ closed # TRUE /\ closed' = closed /\ idle' = idle /\ net' = net
          /\ borrowed' = borrowed /\ hcNeed = 0 /\ total' = total + hcNeed'
      BY <2>0, <2>2, <3>1
    <3>w. Weight("reserve", 0, 0, 0) /\ Weight("fill", 0, 0, 0)
      BY InTable
    <3>4. Balanced("reserve", "fill")
      <4>1. HandlesMove("reserve", "fill") /\ SlotsMove("reserve", "fill")
            /\ OwnedMove("reserve", "fill")
        BY <3>w, <3>f, <3>3, <1>p, <1>n DEF HandlesMove, SlotsMove, OwnedMove, Weight
      <4>2. closed' = closed /\ total' <= MaxConn
        BY <3>f, <3>3
      <4> QED
        BY <4>1, <4>2, <3>f, <3>3, <1>p, <1>n DEF Balanced
    <3> QED
      BY <3>2, <3>4, <1>c, MoverCount
  <2> QED
    BY <2>1, <2>2
<1>6. CASE HealthFill
  <2>0. closed' = closed /\ borrowed' = borrowed /\ hcNeed' = 0 /\ pc[Beat] = "fill"
    BY <1>6 DEF HealthFill
  <2>1. PICK n \in 0..hcNeed :
          /\ total' = Clamp(total - (hcNeed - n))
          /\ net' = net + n
          /\ idle' = IF closed THEN idle ELSE idle + n
          /\ pc' = [(IF n > 0 THEN NotifyAll(pc) ELSE pc) EXCEPT ![Beat] = "idle"]
    BY <1>6 DEF HealthFill
  <2>2. Moves(Beat, "fill", "idle")
    <3>1. PICK p : /\ p = NotifyAll(pc) \/ p = pc
                   /\ pc' = [p EXCEPT ![Beat] = "idle"]
      BY <2>1
    <3> QED
      BY <2>0, <3>1, <1>c, Moved
  <2>3. n \in Int /\ 0 <= n /\ n <= hcNeed
    BY <1>n
  <2>4. total' <= MaxConn
    BY <2>1, <2>3, <1>n, <1>p, <1>m DEF Clamp
  <2>5. closed # TRUE => total' = total - (hcNeed - n) /\ idle' = idle + n
    <3> SUFFICES ASSUME closed # TRUE
                 PROVE  total' = total - (hcNeed - n) /\ idle' = idle + n
      OBVIOUS
    <3>1. total = idle + SlotCount(pc) + hcNeed
      BY <1>p DEF Known, CountPart
    <3>2. SlotCount(pc) \in Nat
      BY Numbers
    <3>3. total - (hcNeed - n) >= 0
      BY <3>1, <3>2, <2>3, <1>n
    <3>4. total' = total - (hcNeed - n)
      BY <2>1, <3>3, <2>3, <1>n DEF Clamp
    <3> QED
      BY <2>1, <3>4
  <2>f. closed' = closed /\ borrowed' = borrowed /\ hcNeed' = 0 /\ net' = net + n
    BY <2>0, <2>1
  <2>w. Weight("fill", 0, 0, 0) /\ Weight("idle", 0, 0, 0)
    BY InTable
  <2>6. Balanced("fill", "idle")
    <3>1. HandlesMove("fill", "idle")
      BY <2>w, <2>f, <2>3, <2>5, <1>n, <1>p DEF HandlesMove, Weight
    <3>2. ASSUME closed # TRUE, Pooled PROVE SlotsMove("fill", "idle")
      BY <3>2, <2>w, <2>f, <2>3, <2>5, <1>n, <1>p DEF SlotsMove, Weight
    <3>3. ASSUME closed # TRUE, ~Pooled PROVE UnpooledMove("fill", "idle")
      BY <3>3, <2>w, <2>f, <2>3, <2>5, <1>n, <1>p DEF UnpooledMove, Weight
    <3>4. ASSUME closed # TRUE PROVE OwnedMove("fill", "idle")
      BY <3>4, <2>w, <2>f, <2>3, <2>5, <1>n, <1>p DEF OwnedMove, Weight
    <3>5. /\ closed' = closed
          /\ closed = TRUE => borrowed' <= borrowed
          /\ Pooled => total' <= MaxConn
      BY <2>f, <2>4, <1>n
    <3> QED
      BY <3>1, <3>2, <3>3, <3>4, <3>5 DEF Balanced
  <2> QED
    BY <2>0, <2>2, <2>6, <1>c, MoverCount
<1> QED
  BY <1>1, <1>2, <1>3, <1>4, <1>5, <1>6 DEF HealthStep

\* A step of the thread that shuts the pool down: it owns nothing itself, and
\* gives up at most the slots that are not borrowed.
LEMMA ReaperMoved ==
  ASSUME Known, TypeOK', Only(pc, pc', Reaper), closed' = TRUE,
         pc[Reaper] # "gone", borrowed' = borrowed, hcNeed' = hcNeed,
         pc'[Beat] = pc[Beat], total' = total \/ total' = borrowed
  PROVE  CountPart'
<1>1. Reaper \in Threads /\ pc[Reaper] \in ReaperStates /\ pc'[Reaper] \in ReaperStates
  BY DEF Known, TypeOK, Threads
<1>2. In(pc[Reaper], {"holding"}) = 0 /\ In(pc'[Reaper], {"holding"}) = 0
  BY <1>1 DEF In, ReaperStates
<1>3. HandleCount(pc') = HandleCount(pc) + 0 - 0
  BY <1>1, <1>2, Counts
<1>4. HandleCount(pc) \in Int
  BY Numbers
<1>5. HandleCount(pc') = HandleCount(pc)
  BY <1>3, <1>4
<1> QED
  BY <1>5 DEF Known, CountPart

\* The steps of shutdown and ~ConnectionPool.
LEMMA ShutdownCount ==
  ASSUME Known, TypeOK', ShutdownStep
  PROVE  CountPart'
<1>r. /\ Reaper \in Threads /\ Beat \in Threads /\ Beat # Reaper
      /\ Beat \notin Clients \cup Requests
      /\ pc \in [Threads -> AllStates] /\ pc[Beat] \in BeatStates
  BY ThreadsAssumption DEF Threads, Known, TypeOK, AllStates
<1>1. CASE Shutdown
  <2> DEFINE p == [t \in Threads |-> IF t \in Queued THEN "collected"
                                     ELSE NotifyAll(pc)[t]]
  <2>1. /\ \E b : pc' = [p EXCEPT ![Reaper] = b]
        /\ pc[Reaper] # "gone" /\ closed' = TRUE
        /\ borrowed' = borrowed /\ hcNeed' = hcNeed
        /\ total' = total \/ total' = borrowed
    BY <1>1 DEF Shutdown, ShutdownGoOn
  <2>2. \A t \in Threads : \/ p[t] = pc[t]
                           \/ pc[t] = "waiting" /\ p[t] = "woken"
                           \/ pc[t] = "queued" /\ p[t] = "collected"
    <3>1. \A t \in Threads : \/ NotifyAll(pc)[t] = pc[t]
                             \/ pc[t] = "waiting" /\ NotifyAll(pc)[t] = "woken"
      BY Notified DEF Known
    <3>2. \A t \in Queued : pc[t] = "queued"
      BY DEF Queued
    <3> QED
      BY <3>1, <3>2
  <2>3. DOMAIN p = Threads
    OBVIOUS
  <2> HIDE DEF p
  <2>4. \A t \in Threads \ {Reaper} : pc'[t] = p[t]
    BY <2>1, <2>3, <1>r DEF p
  <2>5. Only(pc, pc', Reaper)
    BY <2>2, <2>4 DEF Only, SlotStates, OwnerStates
  <2>6. pc'[Beat] = pc[Beat]
    BY <2>2, <2>4, <1>r DEF BeatStates
  <2> QED
    BY <2>1, <2>5, <2>6, ReaperMoved
<1>2. CASE ShutdownClosed \/ ShutdownResume \/ ShutdownTimeout
  <2>1. /\ \E b : pc' = [pc EXCEPT ![Reaper] = b]
        /\ pc[Reaper] \notin {"gone", "idle"} /\ closed' = closed
        /\ borrowed' = borrowed /\ hcNeed' = hcNeed
        /\ total' = total \/ total' = borrowed
    BY <1>2 DEF ShutdownClosed, ShutdownResume, ShutdownTimeout, ShutdownGoOn, locals
  <2>2. closed = TRUE
    BY <2>1 DEF Known
  <2>3. Only(pc, pc', Reaper) /\ pc'[Beat] = pc[Beat]
    BY <2>1, <1>r DEF Only
  <2> QED
    BY <2>1, <2>2, <2>3, ReaperMoved
<1>3. CASE ShutdownDeliver
  <2>1. /\ pc[Reaper] = "deliver" /\ closed' = closed
        /\ borrowed' = borrowed /\ hcNeed' = hcNeed /\ total' = total
        /\ pc' = [t \in Threads |-> IF t = Reaper THEN "done"
                                    ELSE IF pc[t] = "collected" THEN "idle"
                                    ELSE pc[t]]
    BY <1>3 DEF ShutdownDeliver, counters, locals
  <2>2. closed = TRUE
    BY <2>1 DEF Known
  <2>3. Only(pc, pc', Reaper) /\ pc'[Beat] = pc[Beat]
    BY <2>1, <1>r DEF Only, SlotStates, OwnerStates, BeatStates
  <2> QED
    BY <2>1, <2>2, <2>3, ReaperMoved
<1>4. CASE Destroy
  <2>1. /\ pc[Reaper] = "done" /\ closed' = closed
        /\ borrowed' = borrowed /\ hcNeed' = hcNeed /\ total' = borrowed
        /\ pc' = [pc EXCEPT ![Reaper] = "gone"]
    BY <1>4 DEF Destroy, locals
  <2>2. closed = TRUE
    BY <2>1 DEF Known
  <2>3. Only(pc, pc', Reaper) /\ pc'[Beat] = pc[Beat]
    BY <2>1, <1>r DEF Only
  <2> QED
    BY <2>1, <2>2, <2>3, ReaperMoved
<1> QED
  BY <1>1, <1>2, <1>3, <1>4 DEF ShutdownStep

\* Every step keeps the counts.
LEMMA CountNext ==
  ASSUME Known, TypeOK', [Next]_vars
  PROVE  CountPart'
<1>1. CASE UNCHANGED vars
  BY <1>1 DEF vars, counters, locals, Known, CountPart
<1>2. ASSUME NEW t \in Clients \cup {Reaper}, SpuriousWakeup(t) PROVE CountPart'
  <2>1. /\ pc[t] = "waiting" /\ pc' = [pc EXCEPT ![t] = "woken"]
        /\ closed' = closed /\ idle' = idle /\ total' = total /\ net' = net
        /\ borrowed' = borrowed /\ hcNeed' = hcNeed
    BY <1>2 DEF SpuriousWakeup, Sleepers, counters, locals
  <2>2. t \in Threads /\ t # Beat /\ Reaper \in Threads /\ Beat \in Threads
    BY ThreadsAssumption DEF Threads
  <2>3. CASE t = Reaper
    <3>1. Only(pc, pc', Reaper) /\ pc'[Beat] = pc[Beat]
      BY <2>1, <2>2, <2>3 DEF Only, Known, TypeOK
    <3>2. closed = TRUE
      BY <2>1, <2>3 DEF Known
    <3> QED
      BY <2>1, <2>3, <3>1, <3>2, ReaperMoved
  <2>4. CASE t # Reaper
    <3>1. Moves(t, "waiting", "woken")
      BY <2>1, <2>2, <2>4, Moved
    <3> QED
      BY <2>1, <2>2, <3>1, InTable, StillCount DEF Weight
  <2> QED
    BY <2>3, <2>4
<1>3. CASE Finished
  BY <1>1, <1>3 DEF Finished
<1> QED
  BY <1>1, <1>2, <1>3, ClientCount, RequestCount, ReturnCount, HealthCount,
     ShutdownCount DEF Next

-----------------------------------------------------------------------------
(* The slots of a pool that is being closed                                 *)

\* On a closed pool thread t gives up what it has, and nobody else moves but
\* threads that own nothing; shutdown may be woken.
Leaves(t) ==
  /\ Only(pc, pc', t)
  /\ pc'[t] \notin SlotStates
  /\ pc'[Reaper] = pc[Reaper] \/ (pc[Reaper] = "waiting" /\ pc'[Reaper] = "woken")
  /\ idle' = idle

\* The four ways in which the counters follow such a step: t had no slot of its
\* own to give back or did not count it, it gives back its slot, it returns a
\* handle, or the refill ends.
Quiet == total' = total /\ borrowed' = borrowed /\ hcNeed' = hcNeed
GivesBack(t) ==
  /\ Pooled /\ pc[t] \in SlotStates /\ borrowed' = borrowed /\ hcNeed' = hcNeed
  /\ total' = total - 1 \/ total' = Clamp(total - 1) \/ total' = Dec(total)
Hands(t) ==
  /\ pc[t] = "holding" /\ hcNeed' = hcNeed
  /\ total' = Dec(total) /\ borrowed' = Dec(borrowed)
Refilled ==
  /\ Pooled /\ borrowed' = borrowed /\ hcNeed' = 0
  /\ \E n \in 0..hcNeed : total' = Clamp(total - (hcNeed - n))

\* Each of them keeps DrainPart.
LEMMA DrainStep ==
  ASSUME Known, DrainPart, TypeOK', NEW t \in Threads, Leaves(t),
         Quiet \/ GivesBack(t) \/ Hands(t) \/ Refilled
  PROVE  DrainPart'
<1>1. /\ pc'[Reaper] \in DrainStates => pc[Reaper] \in DrainStates
      /\ pc'[Reaper] \in {"deliver", "done"} => pc[Reaper] \in {"deliver", "done"}
      /\ pc'[Reaper] # "gone" => pc[Reaper] # "gone"
      /\ idle' = idle
  BY DEF Leaves, DrainStates
<1>2. SlotCount(pc') = SlotCount(pc) + 0 - In(pc[t], SlotStates)
  <2>1. In(pc'[t], SlotStates) = 0
    BY DEF Leaves, In
  <2> QED
    BY <2>1, Counts DEF Leaves
<1>n. /\ idle \in Nat /\ total \in Int /\ borrowed \in Nat /\ hcNeed \in Nat
      /\ SlotCount(pc) \in Nat
  BY Numbers DEF NumType
<1>i. In(pc[t], SlotStates) \in {0, 1}
  BY DEF In
<1>h. pc[t] \in SlotStates => In(pc[t], SlotStates) = 1 /\ SlotCount(pc) >= 1
  BY CountOrder DEF In
<1>d. /\ Pooled /\ pc[Reaper] \in DrainStates => idle + SlotCount(pc) + hcNeed <= total
      /\ Pooled /\ pc[Reaper] \in {"deliver", "done"} => total <= borrowed
      /\ ~Pooled /\ pc[Reaper] # "gone" => total = borrowed
  BY DEF DrainPart
<1> SUFFICES
      /\ Pooled /\ pc[Reaper] \in DrainStates =>
           idle + (SlotCount(pc) + 0 - In(pc[t], SlotStates)) + hcNeed' <= total'
      /\ Pooled /\ pc[Reaper] \in {"deliver", "done"} => total' <= borrowed'
      /\ ~Pooled /\ pc[Reaper] # "gone" => total' = borrowed'
  BY <1>1, <1>2 DEF DrainPart
<1>3. CASE Quiet
  BY <1>3, <1>n, <1>i, <1>d DEF Quiet
<1>4. CASE GivesBack(t)
  <2>1. /\ Pooled /\ pc[t] \in SlotStates /\ borrowed' = borrowed /\ hcNeed' = hcNeed
        /\ total' = total - 1 \/ total' = Clamp(total - 1) \/ total' = Dec(total)
    BY <1>4 DEF GivesBack
  <2>2. /\ total >= 1 => total' = total - 1
        /\ total' <= total \/ total' = 0
    BY <2>1, <1>n DEF Clamp, Dec
  <2>3. In(pc[t], SlotStates) = 1 /\ SlotCount(pc) >= 1
    BY <2>1, <1>h
  <2>4. total' \in Int
    BY DEF TypeOK
  <2> QED
    BY <2>1, <2>2, <2>3, <2>4, <1>n, <1>d
<1>5. CASE Hands(t)
  <2>1. /\ pc[t] = "holding" /\ hcNeed' = hcNeed
        /\ total' = Dec(total) /\ borrowed' = Dec(borrowed)
    BY <1>5 DEF Hands
  <2>2. In(pc[t], SlotStates) = 1 /\ SlotCount(pc) >= 1
    BY <2>1, <1>h DEF SlotStates, OwnerStates
  <2>3. total >= 1 => total' = total - 1
    BY <2>1, <1>n DEF Dec
  <2>4. total <= borrowed => total' <= borrowed'
    BY <2>1, <1>n DEF Dec
  <2>5. total = borrowed => total' = borrowed'
    BY <2>1
  <2>6. ASSUME Pooled, pc[Reaper] \in DrainStates
        PROVE  idle + (SlotCount(pc) + 0 - In(pc[t], SlotStates)) + hcNeed' <= total'
    BY <2>6, <2>1, <2>2, <2>3, <1>n, <1>d
  <2> QED
    BY <2>4, <2>5, <2>6, <1>d
<1>6. CASE Refilled
  <2>1. PICK n \in 0..hcNeed : total' = Clamp(total - (hcNeed - n))
    BY <1>6 DEF Refilled
  <2>2. Pooled /\ borrowed' = borrowed /\ hcNeed' = 0
    BY <1>6 DEF Refilled
  <2>3. n \in Int /\ 0 <= n /\ n <= hcNeed
    BY <1>n
  <2>4. /\ total >= hcNeed => total' = total - (hcNeed - n)
        /\ total' <= total \/ total' = 0
    BY <2>1, <2>3, <1>n DEF Clamp
  <2>5. total' \in Int
    BY DEF TypeOK
  <2> QED
    BY <2>2, <2>3, <2>4, <2>5, <1>n, <1>i, <1>d
<1> QED
  BY <1>3, <1>4, <1>5, <1>6

\* A step that moves t alone, perhaps after a notification, to a state
\* without a slot.
LEMMA LeavesMoved ==
  ASSUME Known, NEW t \in Threads \ {Reaper}, NEW b, b \notin SlotStates, NEW p,
         p \in NotifyOne(pc) \/ p = NotifyAll(pc) \/ p = pc,
         pc' = [p EXCEPT ![t] = b], idle' = idle
  PROVE  Leaves(t)
<1>1. /\ p \in [Threads -> AllStates]
      /\ \A u \in Threads : \/ p[u] = pc[u]
                            \/ /\ pc[u] = "waiting" /\ p[u] = "woken"
                               /\ u \in Clients \cup {Reaper}
  BY Notified DEF Known
<1>2. Reaper \in Threads
  BY DEF Threads
<1> QED
  BY <1>1, <1>2 DEF Leaves, Only, SlotStates, OwnerStates

\* So does expireWaiters.
LEMMA LeavesExpire ==
  ASSUME Known, NEW t \in Threads \ {Reaper}, NEW next, next \notin SlotStates,
         ExpireWaiters(t, next), idle' = idle
  PROVE  Leaves(t)
<1>1. PICK late \in SUBSET Queued :
        pc' = [u \in Threads |-> IF u = t THEN next
                                 ELSE IF u \in late THEN "idle" ELSE pc[u]]
  BY DEF ExpireWaiters
<1>2. \A u \in late : u \in Requests /\ pc[u] = "queued"
  BY DEF Queued
<1>3. Reaper \in Threads /\ Reaper \notin Requests
  BY ThreadsAssumption DEF Threads
<1> QED
  BY <1>1, <1>2, <1>3 DEF Leaves, Only, SlotStates, OwnerStates

\* The steps of borrow on a closed pool.
LEMMA DrainClient ==
  ASSUME Known, DrainPart, TypeOK', closed = TRUE, NEW c \in Clients, ClientStep(c)
  PROVE  DrainPart'
<1>c. c \in Threads \ {Reaper}
  BY ThreadsAssumption DEF Threads
<1>i. "idle" \notin SlotStates
  BY DEF SlotStates, OwnerStates
<1>1. CASE Borrow(c) \/ Resume(c)
  <2>1. Quiet /\ idle' = idle /\ pc' = [pc EXCEPT ![c] = "idle"]
    BY <1>1 DEF Borrow, Resume, BorrowLoop, Quiet, locals
  <2> QED
    BY <2>1, <1>c, <1>i, LeavesMoved, DrainStep
<1>2. CASE ProbeDead(c)
  <2>1. PICK p \in NotifyOne(pc) : BorrowLoop(c, p, Clamp(total - 1), net - 1)
    BY <1>2 DEF ProbeDead
  <2>2. /\ total' = Clamp(total - 1) /\ idle' = idle /\ borrowed' = borrowed
        /\ hcNeed' = hcNeed /\ pc' = [p EXCEPT ![c] = "idle"]
    BY <2>1 DEF BorrowLoop, locals
  <2>3. Pooled /\ pc[c] \in SlotStates
    BY <1>2 DEF ProbeDead, Known, UnpooledStates, SlotStates, OwnerStates
  <2>4. GivesBack(c)
    BY <2>2, <2>3 DEF GivesBack
  <2> QED
    BY <2>2, <2>4, <1>c, <1>i, LeavesMoved, DrainStep
<1>3. CASE BorrowTimeout(c) \/ ProbeAlive(c)
  <2>1. Quiet /\ idle' = idle /\ pc' = [pc EXCEPT ![c] = "idle"]
    BY <1>3 DEF BorrowTimeout, ProbeAlive, Quiet, counters, locals
  <2> QED
    BY <2>1, <1>c, <1>i, LeavesMoved, DrainStep
<1>4. CASE CreateOk(c) \/ CreateFail(c)
  <2>1. PICK p : /\ p \in NotifyOne(pc) \/ p = pc
                 /\ pc' = [p EXCEPT ![c] = "idle"]
    BY <1>4 DEF CreateOk, CreateFail
  <2>2. /\ pc[c] = "create" /\ idle' = idle /\ borrowed' = borrowed /\ hcNeed' = hcNeed
        /\ Pooled => total' = total - 1 \/ total' = Clamp(total - 1)
        /\ ~Pooled => total' = total
    BY <1>4 DEF CreateOk, CreateFail, locals
  <2>3. Quiet \/ GivesBack(c)
    BY <2>2 DEF Quiet, GivesBack, SlotStates
  <2> QED
    BY <2>1, <2>2, <2>3, <1>c, <1>i, LeavesMoved, DrainStep
<1>5. ~BorrowUnpooled(c)
  BY DEF BorrowUnpooled
<1> QED
  BY <1>1, <1>2, <1>3, <1>4, <1>5 DEF ClientStep

\* The steps of borrowAsync on a closed pool.
LEMMA DrainRequest ==
  ASSUME Known, DrainPart, TypeOK', closed = TRUE, NEW r \in Requests, RequestStep(r)
  PROVE  DrainPart'
<1>c. r \in Threads \ {Reaper}
  BY ThreadsAssumption DEF Threads
<1>i. "idle" \notin SlotStates /\ "enter" \notin SlotStates /\ "reclose" \notin SlotStates
  BY DEF SlotStates, OwnerStates
<1>1. CASE AsyncBorrow(r)
  <2>1. Quiet /\ idle' = idle /\ ExpireWaiters(r, "enter")
    BY <1>1 DEF AsyncBorrow, Quiet, counters, locals
  <2> QED
    BY <2>1, <1>c, <1>i, LeavesExpire, DrainStep
<1>2. CASE AsyncEnter(r) \/ AsyncPing(r)
  <2>1. Quiet /\ idle' = idle /\ pc' = [pc EXCEPT ![r] = "idle"]
    BY <1>2 DEF AsyncEnter, AsyncPing, Quiet, locals
  <2> QED
    BY <2>1, <1>c, <1>i, LeavesMoved, DrainStep
<1>3. CASE AsyncDrop(r)
  <2>1. /\ pc[r] = "drop" /\ idle' = idle /\ borrowed' = borrowed /\ hcNeed' = hcNeed
        /\ total' = Clamp(total - 1) /\ pc' = [pc EXCEPT ![r] = "reclose"]
    BY <1>3 DEF AsyncDrop, locals
  <2>2. Pooled /\ pc[r] \in SlotStates
    BY <2>1 DEF Known, UnpooledStates, SlotStates, OwnerStates
  <2>3. GivesBack(r)
    BY <2>1, <2>2 DEF GivesBack
  <2> QED
    BY <2>1, <2>3, <1>c, <1>i, LeavesMoved, DrainStep
<1>4. CASE AsyncCreate(r)
  <2>1. /\ pc[r] = "create" /\ idle' = idle /\ borrowed' = borrowed /\ hcNeed' = hcNeed
        /\ pc' = [pc EXCEPT ![r] = "idle"]
        /\ Pooled => total' = Dec(total)
        /\ ~Pooled => total' = total
    BY <1>4 DEF AsyncCreate, locals
  <2>2. Quiet \/ GivesBack(r)
    BY <2>1 DEF Quiet, GivesBack, SlotStates
  <2> QED
    BY <2>1, <2>2, <1>c, <1>i, LeavesMoved, DrainStep
<1> QED
  BY <1>1, <1>2, <1>3, <1>4 DEF RequestStep

\* The steps of returnConn on a closed pool.
LEMMA DrainReturn ==
  ASSUME Known, DrainPart, TypeOK', closed = TRUE, NEW t \in Clients \cup Requests,
         ReturnStep(t)
  PROVE  DrainPart'
<1>c. t \in Threads \ {Reaper}
  BY ThreadsAssumption DEF Threads
<1>i. "idle" \notin SlotStates /\ "closing" \notin SlotStates
  BY DEF SlotStates, OwnerStates
<1>1. CASE ReturnClose(t)
  <2>1. Hands(t) /\ idle' = idle /\ pc' = [pc EXCEPT ![t] = "closing"]
    BY <1>1 DEF ReturnClose, Hands, locals
  <2> QED
    BY <2>1, <1>c, <1>i, LeavesMoved, DrainStep
<1>2. CASE ReturnNotify(t)
  <2>1. Quiet /\ idle' = idle
    BY <1>2 DEF ReturnNotify, Quiet, counters, locals
  <2>2. PICK p \in NotifyOne(pc) : pc' = [p EXCEPT ![t] = "idle"]
    BY <1>2 DEF ReturnNotify
  <2> QED
    BY <2>1, <2>2, <1>c, <1>i, LeavesMoved, DrainStep
<1>3. CASE ReturnOrphan(t)
  <2>1. Quiet /\ idle' = idle /\ pc' = [pc EXCEPT ![t] = "idle"]
    BY <1>3 DEF ReturnOrphan, Quiet, counters, locals
  <2> QED
    BY <2>1, <1>c, <1>i, LeavesMoved, DrainStep
<1> QED
  BY <1>1, <1>2, <1>3 DEF ReturnStep, ReturnHandoff, ReturnIdle

\* The steps of healthCheck on a closed pool.
LEMMA DrainHealth ==
  ASSUME Known, DrainPart, TypeOK', closed = TRUE, HealthStep
  PROVE  DrainPart'
<1>c. Beat \in Threads \ {Reaper}
  BY ThreadsAssumption DEF Threads
<1>i. {"idle", "snap", "take", "reserve"} \cap SlotStates = {}
  BY DEF SlotStates, OwnerStates
<1>p. Pooled
  BY DEF HealthStep, HealthExpire, HealthSnapshot, HealthTake, HealthBreak,
         HealthKeep, HealthEvict, HealthReserve, HealthFill, Known, UnpooledStates
<1>1. CASE HealthExpire
  <2>1. Quiet /\ idle' = idle /\ ExpireWaiters(Beat, "snap")
    BY <1>1 DEF HealthExpire, Quiet, counters, locals
  <2> QED
    BY <2>1, <1>c, <1>i, LeavesExpire, DrainStep
<1>2. CASE HealthSnapshot \/ HealthBreak \/ HealthReserve
  <2>1. /\ Quiet /\ idle' = idle
        /\ \E b \in {"take", "reserve", "idle"} : pc' = [pc EXCEPT ![Beat] = b]
    BY <1>2 DEF HealthSnapshot, HealthBreak, HealthReserve, Quiet, counters
  <2> QED
    BY <2>1, <1>c, <1>i, LeavesMoved, DrainStep
<1>3. CASE HealthEvict
  <2>1. /\ idle' = idle /\ borrowed' = borrowed /\ hcNeed' = hcNeed
        /\ total' = Clamp(total - 1) /\ pc' = [pc EXCEPT ![Beat] = "take"]
        /\ pc[Beat] \in SlotStates
    BY <1>3 DEF HealthEvict, locals, SlotStates, OwnerStates
  <2>2. GivesBack(Beat)
    BY <2>1, <1>p DEF GivesBack
  <2> QED
    BY <2>1, <2>2, <1>c, <1>i, LeavesMoved, DrainStep
<1>4. CASE HealthFill
  <2>1. PICK p : /\ p = NotifyAll(pc) \/ p = pc
                 /\ pc' = [p EXCEPT ![Beat] = "idle"]
    BY <1>4 DEF HealthFill
  <2>2. Refilled /\ idle' = idle
    BY <1>4, <1>p DEF HealthFill, Refilled
  <2> QED
    BY <2>1, <2>2, <1>c, <1>i, LeavesMoved, DrainStep
<1>5. ~HealthTake /\ ~HealthKeep
  BY DEF HealthTake, HealthKeep
<1> QED
  BY <1>1, <1>2, <1>3, <1>4, <1>5 DEF HealthStep

\* A step of shutdown moves nobody who owns a slot.
LEMMA ReaperSlots ==
  ASSUME Known, TypeOK', Only(pc, pc', Reaper)
  PROVE  SlotCount(pc') = SlotCount(pc)
<1>1. Reaper \in Threads /\ pc[Reaper] \in ReaperStates /\ pc'[Reaper] \in ReaperStates
  BY DEF Known, TypeOK, Threads
<1>2. In(pc[Reaper], SlotStates) = 0 /\ In(pc'[Reaper], SlotStates) = 0
  BY <1>1 DEF In, ReaperStates, SlotStates, OwnerStates
<1>3. SlotCount(pc') = SlotCount(pc) + 0 - 0
  BY <1>1, <1>2, Counts
<1> QED
  BY <1>3, CountOrder

\* The steps of shutdown: it leaves total alone while it drains, then sets it.
LEMMA DrainReaper ==
  ASSUME Known, DrainPart, TypeOK', Only(pc, pc', Reaper), hcNeed' = hcNeed,
         borrowed' = borrowed, pc[Reaper] # "gone",
         \/ /\ pc[Reaper] \in DrainStates \cup {"idle"} /\ pc'[Reaper] \in DrainStates
            /\ total' = total /\ (idle' = idle \/ idle' = idle - 1)
         \/ pc'[Reaper] \in {"deliver", "gone"} /\ total' = borrowed
         \/ pc[Reaper] = "deliver" /\ pc'[Reaper] = "done" /\ total' = total
  PROVE  DrainPart'
<1>1. SlotCount(pc') = SlotCount(pc)
  BY ReaperSlots
<1>n. /\ idle \in Nat /\ total \in Int /\ borrowed \in Nat /\ hcNeed \in Nat
      /\ SlotCount(pc) \in Nat
  BY Numbers DEF NumType
<1>d. /\ Pooled /\ pc[Reaper] \in DrainStates => idle + SlotCount(pc) + hcNeed <= total
      /\ Pooled /\ pc[Reaper] \in {"deliver", "done"} => total <= borrowed
      /\ ~Pooled /\ pc[Reaper] # "gone" => total = borrowed
  BY DEF DrainPart
<1>o. Pooled /\ pc[Reaper] = "idle" => total = idle + SlotCount(pc) + hcNeed
  BY DEF Known, CountPart
<1>2. CASE /\ pc[Reaper] \in DrainStates \cup {"idle"} /\ pc'[Reaper] \in DrainStates
           /\ total' = total /\ (idle' = idle \/ idle' = idle - 1)
  <2>1. Pooled => idle + SlotCount(pc) + hcNeed <= total
    BY <1>2, <1>d, <1>o, <1>n
  <2>2. Pooled => idle' + SlotCount(pc') + hcNeed' <= total'
    BY <2>1, <1>1, <1>2, <1>n
  <2>3. pc'[Reaper] \notin {"deliver", "done"}
    BY <1>2 DEF DrainStates
  <2>4. ~Pooled => total' = borrowed'
    BY <1>2, <1>d
  <2> QED
    BY <2>2, <2>3, <2>4 DEF DrainPart
<1>3. CASE pc'[Reaper] \in {"deliver", "gone"} /\ total' = borrowed
  <2>1. pc'[Reaper] \notin DrainStates /\ total' <= borrowed' /\ total' = borrowed'
    BY <1>3, <1>n DEF DrainStates
  <2> QED
    BY <2>1 DEF DrainPart
<1>4. CASE pc[Reaper] = "deliver" /\ pc'[Reaper] = "done" /\ total' = total
  <2>1. pc'[Reaper] \notin DrainStates
    BY <1>4 DEF DrainStates
  <2> QED
    BY <2>1, <1>4, <1>d DEF DrainPart
<1> QED
  BY <1>2, <1>3, <1>4

\* The steps of shutdown and ~ConnectionPool.
LEMMA DrainShutdown ==
  ASSUME Known, DrainPart, TypeOK', ShutdownStep
  PROVE  DrainPart'
<1>r. /\ Reaper \in Threads /\ pc \in [Threads -> AllStates]
  BY DEF Threads, Known, TypeOK, AllStates
<1>1. CASE Shutdown
  <2> DEFINE p == [t \in Threads |-> IF t \in Queued THEN "collected"
                                     ELSE NotifyAll(pc)[t]]
  <2>1. ShutdownGoOn(p, grace')
    BY <1>1 DEF Shutdown
  <2>2. \A t \in Threads : \/ p[t] = pc[t]
                           \/ pc[t] = "waiting" /\ p[t] = "woken"
                           \/ pc[t] = "queued" /\ p[t] = "collected"
    <3>1. \A t \in Threads : \/ NotifyAll(pc)[t] = pc[t]
                             \/ pc[t] = "waiting" /\ NotifyAll(pc)[t] = "woken"
      BY Notified DEF Known
    <3>2. \A t \in Queued : pc[t] = "queued"
      BY DEF Queued
    <3> QED
      BY <3>1, <3>2
  <2>3. DOMAIN p = Threads
    OBVIOUS
  <2> HIDE DEF p
  <2>4. \E b \in {"closing", "waiting", "deliver"} :
          /\ pc' = [p EXCEPT ![Reaper] = b]
          /\ b = "deliver" => total' = borrowed
          /\ b # "deliver" => total' = total /\ (idle' = idle \/ idle' = idle - 1)
    BY <2>1 DEF ShutdownGoOn
  <2>5. \A t \in Threads \ {Reaper} : pc'[t] = p[t]
    BY <2>4, <2>3, <1>r DEF p
  <2>6. Only(pc, pc', Reaper)
    BY <2>2, <2>5 DEF Only, SlotStates, OwnerStates
  <2>7. pc[Reaper] = "idle" /\ borrowed' = borrowed /\ hcNeed' = hcNeed
    BY <1>1 DEF Shutdown
  <2>8. \/ pc'[Reaper] \in DrainStates /\ total' = total
           /\ (idle' = idle \/ idle' = idle - 1)
        \/ pc'[Reaper] = "deliver" /\ total' = borrowed
    BY <2>4, <2>3, <1>r DEF DrainStates
  <2> QED
    BY <2>6, <2>7, <2>8, DrainReaper
<1>2. CASE ShutdownClosed \/ ShutdownResume \/ ShutdownTimeout
  <2>1. /\ \E b \in {"closing", "waiting", "deliver"} :
             /\ pc' = [pc EXCEPT ![Reaper] = b]
             /\ b = "deliver" => total' = borrowed
             /\ b # "deliver" => total' = total /\ (idle' = idle \/ idle' = idle - 1)
        /\ pc[Reaper] \in DrainStates
        /\ borrowed' = borrowed /\ hcNeed' = hcNeed
    BY <1>2 DEF ShutdownClosed, ShutdownResume, ShutdownTimeout, ShutdownGoOn, locals,
                DrainStates
  <2>2. Only(pc, pc', Reaper) /\ pc[Reaper] # "gone"
    BY <2>1, <1>r DEF Only, DrainStates
  <2>3. \/ pc'[Reaper] \in DrainStates /\ total' = total
           /\ (idle' = idle \/ idle' = idle - 1)
        \/ pc'[Reaper] = "deliver" /\ total' = borrowed
    BY <2>1, <1>r DEF DrainStates
  <2> QED
    BY <2>1, <2>2, <2>3, DrainReaper
<1>3. CASE ShutdownDeliver
  <2>1. /\ pc[Reaper] = "deliver" /\ borrowed' = borrowed /\ hcNeed' = hcNeed
        /\ total' = total
        /\ pc' = [t \in Threads |-> IF t = Reaper THEN "done"
                                    ELSE IF pc[t] = "collected" THEN "idle"
                                    ELSE pc[t]]
    BY <1>3 DEF ShutdownDeliver, counters, locals
  <2>2. Only(pc, pc', Reaper) /\ pc'[Reaper] = "done"
    BY <2>1, <1>r DEF Only, SlotStates, OwnerStates
  <2> QED
    BY <2>1, <2>2, DrainReaper
<1>4. CASE Destroy
  <2>1. /\ pc[Reaper] = "done" /\ borrowed' = borrowed /\ hcNeed' = hcNeed
        /\ total' = borrowed /\ pc' = [pc EXCEPT ![Reaper] = "gone"]
    BY <1>4 DEF Destroy, locals
  <2>2. Only(pc, pc', Reaper) /\ pc'[Reaper] = "gone"
    BY <2>1, <1>r DEF Only
  <2> QED
    BY <2>1, <2>2, DrainReaper
<1> QED
  BY <1>1, <1>2, <1>3, <1>4 DEF ShutdownStep

\* Only shutdown closes the pool.
LEMMA ClosedOnlyBy ==
  ASSUME Next, ~ShutdownStep
  PROVE  closed' = closed
<1>1. ASSUME NEW c \in Clients, ClientStep(c) PROVE closed' = closed
  BY <1>1 DEF ClientStep, Borrow, Resume, BorrowTimeout, ProbeAlive, ProbeDead,
              BorrowUnpooled, CreateOk, CreateFail, BorrowLoop
<1>2. ASSUME NEW r \in Requests, RequestStep(r) PROVE closed' = closed
  BY <1>2 DEF RequestStep, AsyncBorrow, AsyncEnter, AsyncPing, AsyncDrop, AsyncCreate
<1>3. ASSUME NEW t \in Clients \cup Requests, ReturnStep(t) PROVE closed' = closed
  BY <1>3 DEF ReturnStep, ReturnClose, ReturnHandoff, ReturnIdle, ReturnNotify,
              ReturnOrphan
<1>4. HealthStep => closed' = closed
  BY DEF HealthStep, HealthExpire, HealthSnapshot, HealthTake, HealthBreak,
         HealthKeep, HealthEvict, HealthReserve, HealthFill
<1> QED
  BY <1>1, <1>2, <1>3, <1>4 DEF Next, SpuriousWakeup, Finished, vars

\* Every step keeps DrainPart.
LEMMA DrainNext ==
  ASSUME Known, DrainPart, TypeOK', CountPart', [Next]_vars,
         closed' = TRUE <=> pc'[Reaper] # "idle"
  PROVE  DrainPart'
<1>1. CASE UNCHANGED vars
  BY <1>1 DEF vars, counters, locals, DrainPart
<1>2. CASE ShutdownStep
  BY <1>2, DrainShutdown
<1>3. CASE Next /\ ~ShutdownStep /\ closed # TRUE
  <2>1. closed' # TRUE /\ pc'[Reaper] = "idle"
    BY <1>3, ClosedOnlyBy
  <2>2. ~Pooled => total' = borrowed'
    BY <2>1 DEF CountPart
  <2> QED
    BY <2>1, <2>2 DEF DrainPart, DrainStates
<1>4. CASE Next /\ ~ShutdownStep /\ closed = TRUE
  <2>1. ASSUME NEW t \in Clients \cup {Reaper}, SpuriousWakeup(t) PROVE DrainPart'
    <3>1. /\ pc[t] = "waiting" /\ pc' = [pc EXCEPT ![t] = "woken"]
          /\ Quiet /\ idle' = idle
      BY <2>1 DEF SpuriousWakeup, Sleepers, counters, locals, Quiet
    <3>2. t \in Threads /\ Reaper \in Threads /\ pc \in [Threads -> AllStates]
      BY ThreadsAssumption DEF Threads, Known, TypeOK, AllStates
    <3>3. Leaves(t)
      BY <3>1, <3>2 DEF Leaves, Only, SlotStates, OwnerStates
    <3> QED
      BY <3>1, <3>2, <3>3, DrainStep
  <2>2. CASE Finished
    BY <1>1, <2>2 DEF Finished
  <2> QED
    BY <1>4, <2>1, <2>2, DrainClient, DrainRequest, DrainReturn, DrainHealth DEF Next
<1> QED
  BY <1>1, <1>2, <1>3, <1>4

-----------------------------------------------------------------------------
(* The theorems about the counters                                          *)

\* The counting invariant holds initially: the constructor counts what it warms up.
LEMMA PoolInit == Init => PoolInv
<1> SUFFICES ASSUME Init PROVE PoolInv
  OBVIOUS
<1>1. TypeOK /\ ShutdownInv
  BY TypeInit, ShutdownInit
<1>2. UnpooledStates
  BY DEF Init, UnpooledStates, Threads
<1>3. \A X : "idle" \notin X => Cardinality(At(pc, X)) = 0
  <2> SUFFICES ASSUME NEW X, "idle" \notin X PROVE Cardinality(At(pc, X)) = 0
    OBVIOUS
  <2>1. At(pc, X) = {}
    BY DEF Init, At
  <2> QED
    BY <2>1, FS_EmptySet
<1>4. HandleCount(pc) = 0 /\ OwnedCount(pc) = 0 /\ SlotCount(pc) = 0
  BY <1>3 DEF HandleCount, OwnedCount, SlotCount, OwnerStates, SlotStates
<1>5. /\ total = idle /\ borrowed = 0 /\ net = idle /\ hcNeed = 0
      /\ idle \in 0..(IF Pooled THEN MinConn ELSE 0)
  BY DEF Init
<1>6. MaxConn \in Nat /\ MinConn \in Nat /\ MinConn <= MaxConn
  BY SizesAssumption
<1>9. pc[Reaper] = "idle" /\ closed = FALSE
  BY DEF Init, Threads
<1>7. CASE Pooled
  <2>1. idle \in Nat /\ idle <= MinConn
    BY <1>5, <1>6, <1>7
  <2>2. total = idle + 0 + 0 /\ net = idle + 0 /\ total <= MaxConn /\ borrowed <= MaxConn
    BY <1>5, <1>6, <2>1
  <2>3. CountPart
    BY <1>4, <1>5, <1>7, <2>2 DEF CountPart
  <2>4. DrainPart
    BY <1>7, <1>9 DEF DrainPart, DrainStates
  <2> QED
    BY <1>1, <1>2, <1>9, <2>3, <2>4, PoolSplit DEF PoolInv
<1>8. CASE ~Pooled
  <2>1. idle = 0
    BY <1>5, <1>8
  <2>2. net = idle + 0
    BY <1>5, <2>1
  <2>3. CountPart
    BY <1>4, <1>5, <1>8, <2>1, <2>2 DEF CountPart
  <2>4. DrainPart
    BY <1>5, <1>8, <2>1 DEF DrainPart
  <2> QED
    BY <1>1, <1>2, <1>9, <2>3, <2>4, PoolSplit DEF PoolInv
<1> QED
  BY <1>7, <1>8

\* The counting invariant is inductive.
LEMMA PoolNext == PoolInv /\ [Next]_vars => PoolInv'
<1> SUFFICES ASSUME PoolInv, [Next]_vars PROVE PoolInv'
  OBVIOUS
<1>1. ShutdownInv' /\ TypeOK /\ TypeOK'
  BY ShutdownNext DEF PoolInv, ShutdownInv
<1>2. UnpooledStates'
  BY <1>1, UnpooledNext DEF PoolInv
<1>4. closed = TRUE <=> pc[Reaper] # "idle"
  BY <1>1, ShutdownSplit DEF PoolInv, ShutdownPart
<1>3. CountPart /\ DrainPart
  BY <1>1, <1>4, PoolSplit DEF PoolInv
<1>5. Known
  BY <1>1, <1>3, <1>4 DEF Known, PoolInv
<1>6. CountPart'
  BY <1>1, <1>5, CountNext
<1>7. closed' = TRUE <=> pc'[Reaper] # "idle"
  BY <1>1, ShutdownSplitPrime DEF ShutdownPart
<1>8. DrainPart'
  BY <1>1, <1>3, <1>5, <1>6, <1>7, DrainNext
<1> QED
  BY <1>1, <1>2, <1>6, <1>7, <1>8, PoolSplitPrime DEF PoolInv

\* It holds in every reachable state.
LEMMA PoolAlways == Spec => []PoolInv
  BY PoolInit, PoolNext, PTL DEF Spec

\* While the pool is open every slot in total has exactly one owner: an idle
\* connection, a thread between two lock sections, or the refill.  While shutdown
\* drains it no owner is missing from total, afterwards total counts no more than
\* the handles, and an unpooled source counts its handles until it is destroyed.
THEOREM PoolSlotsConserved == Spec => []SlotsConserved
<1>1. PoolInv => SlotsConserved
  BY DEF PoolInv
<1> QED
  BY <1>1, PoolAlways, PTL

\* No interleaving of borrows, asynchronous borrows, the refill and shutdown
\* takes total or the number of handles above maxConn_.
THEOREM PoolCapRespected == Spec => []CapRespected
<1>1. PoolInv => CapRespected
  BY DEF PoolInv
<1> QED
  BY <1>1, PoolAlways, PTL

\* borrowed is the number of Handles alive until the pool is destroyed.
THEOREM PoolBorrowedExact == Spec => []BorrowedExact
<1>1. PoolInv => BorrowedExact
  BY DEF PoolInv
<1> QED
  BY <1>1, PoolAlways, PTL

\* The two metrics differ by the established connections while the pool is open.
THEOREM PoolMetricsConserved == Spec => []MetricsConserved
<1>1. PoolInv => MetricsConserved
  BY DEF PoolInv
<1> QED
  BY <1>1, PoolAlways, PTL

\* A closed pool hands out no connection, not even to a borrow that had passed
\* the test of closed before shutdown ran.
THEOREM PoolNoGrantAfterClose == Spec => NoGrantAfterClose
<1>1. TypeOK /\ [Next]_vars => [closed => borrowed' <= borrowed]_vars
  <2> SUFFICES ASSUME TypeOK, Next, closed = TRUE PROVE borrowed' <= borrowed
    BY DEF TypeOK
  <2>1. borrowed \in Nat
    BY DEF TypeOK
  <2>2. borrowed' = borrowed \/ borrowed' = Dec(borrowed)
    <3>1. ASSUME NEW c \in Clients, ClientStep(c) PROVE borrowed' = borrowed
      BY <3>1 DEF ClientStep, Borrow, Resume, BorrowTimeout, ProbeAlive, ProbeDead,
                  BorrowUnpooled, CreateOk, CreateFail, BorrowLoop, counters
    <3>2. ASSUME NEW r \in Requests, RequestStep(r) PROVE borrowed' = borrowed
      BY <3>2 DEF RequestStep, AsyncBorrow, AsyncEnter, AsyncPing, AsyncDrop,
                  AsyncCreate, counters
    <3>3. ASSUME NEW t \in Clients \cup Requests, ReturnStep(t)
          PROVE  borrowed' = borrowed \/ borrowed' = Dec(borrowed)
      BY <3>3 DEF ReturnStep, ReturnClose, ReturnHandoff, ReturnIdle, ReturnNotify,
                  ReturnOrphan, counters
    <3>4. CASE HealthStep
      BY <3>4 DEF HealthStep, HealthExpire, HealthSnapshot, HealthTake, HealthBreak,
                  HealthKeep, HealthEvict, HealthReserve, HealthFill, counters
    <3>5. CASE ShutdownStep
      BY <3>5 DEF ShutdownStep, Shutdown, ShutdownClosed, ShutdownResume,
                  ShutdownTimeout, ShutdownDeliver, Destroy, counters
    <3>6. ASSUME NEW t \in Clients \cup {Reaper}, SpuriousWakeup(t)
          PROVE  borrowed' = borrowed
      BY <3>6 DEF SpuriousWakeup, counters
    <3>7. CASE Finished
      BY <3>7 DEF Finished, vars, counters
    <3> QED
      BY <3>1, <3>2, <3>3, <3>4, <3>5, <3>6, <3>7 DEF Next
  <2> QED
    BY <2>1, <2>2 DEF Dec
<1> QED
  BY <1>1, PoolTypeCorrect, PTL DEF Spec, NoGrantAfterClose

-----------------------------------------------------------------------------
(* Wake-ups among synchronous borrowers                                     *)

\* Only synchronous borrowers use the pool, none is attached to the heartbeat,
\* and no wait times out.  Each part is necessary: a request that gives up its
\* slot notifies nobody, nor does the heartbeat when it puts a connection back,
\* and a borrower that was notified may leave by its deadline.
PlainBorrowers ==
  /\ Requests = {}
  /\ ~Heartbeat
  /\ Clients \subseteq ZeroWait \cup NoDeadline

\* Then the heartbeat never looks at the pool, and a borrow with timeout 0 never
\* sleeps.
PlainStates ==
  /\ pc[Beat] = "idle"
  /\ \A c \in ZeroWait : pc[c] \notin {"waiting", "woken"}

ComingStates == {"woken", "closing", "notify"}
Coming(p) == Cardinality(At(p, ComingStates))

\* NoLostWakeup, over the standing p of the threads, i idle connections and n
\* slots in use.
Awaited(p, i, n) ==
  (\E c \in Clients : p[c] = "waiting") => i + (MaxConn - n) <= Coming(p)

\* NoLostWakeup is Awaited of the present state of an open pool.
LEMMA AwaitedSplit ==
  ASSUME TypeOK
  PROVE  NoLostWakeup <=> (closed # TRUE => Awaited(pc, idle, total))
  BY DEF NoLostWakeup, Awaited, Coming, ComingStates, TypeOK

\* The same for the next state.
LEMMA AwaitedSplitPrime ==
  ASSUME TypeOK'
  PROVE  NoLostWakeup' <=> (closed' # TRUE => Awaited(pc', idle', total'))
  BY DEF NoLostWakeup, Awaited, Coming, ComingStates, TypeOK

\* What the steps below start from: an open pool.
Open ==
  /\ Known /\ PlainBorrowers /\ PlainStates
  /\ closed # TRUE
  /\ Awaited(pc, idle, total)

\* A thread that moves counts where it comes from and where it goes.
LEMMA ComingMove ==
  ASSUME NEW p, NEW q, NEW t \in Threads,
         \A u \in Threads \ {t} : q[u] = p[u]
  PROVE  /\ Coming(p) \in Nat /\ Coming(q) \in Nat
         /\ Coming(q) = Coming(p) + In(q[t], ComingStates) - In(p[t], ComingStates)
<1>1. \A u \in Threads \ {t} : q[u] \in ComingStates <=> p[u] \in ComingStates
  OBVIOUS
<1> QED
  BY <1>1, CountMove DEF Coming

\* notify_one puts one more borrower on its way, if one sleeps.
LEMMA NotifyComes ==
  ASSUME Open, NEW p \in NotifyOne(pc)
  PROVE  /\ p \in [Threads -> AllStates]
         /\ \A t \in Threads : \/ p[t] = pc[t]
                               \/ pc[t] = "waiting" /\ p[t] = "woken"
         /\ \/ p = pc /\ \A c \in Clients : pc[c] # "waiting"
            \/ Coming(p) = Coming(pc) + 1
         /\ Coming(p) \in Nat /\ Coming(pc) \in Nat
<1>1. /\ TypeOK /\ pc[Reaper] = "idle" /\ Reaper \in Threads
      /\ pc \in [Threads -> AllStates]
  BY DEF Open, Known, TypeOK, AllStates, Threads
<1>2. /\ p \in [Threads -> AllStates]
      /\ \A t \in Threads : \/ p[t] = pc[t]
                            \/ pc[t] = "waiting" /\ p[t] = "woken"
  BY <1>1, Notified
<1>3. CASE Sleepers(pc) = {}
  <2>1. p = pc /\ \A c \in Clients : pc[c] # "waiting"
    BY <1>3 DEF NotifyOne, Sleepers
  <2> QED
    BY <1>1, <1>2, <2>1, ComingMove
<1>4. CASE Sleepers(pc) # {}
  <2>1. PICK t \in Sleepers(pc) : p = [pc EXCEPT ![t] = "woken"]
    BY <1>4 DEF NotifyOne
  <2>2. t \in Threads /\ pc[t] = "waiting"
    BY DEF Sleepers, Threads
  <2>3. p[t] = "woken" /\ \A u \in Threads \ {t} : p[u] = pc[u]
    BY <1>1, <2>1, <2>2
  <2>4. In(p[t], ComingStates) = 1 /\ In(pc[t], ComingStates) = 0
    BY <2>2, <2>3 DEF In, ComingStates
  <2>5. /\ Coming(pc) \in Nat /\ Coming(p) \in Nat
        /\ Coming(p) = Coming(pc) + 1 - 0
    BY <2>2, <2>3, <2>4, ComingMove
  <2> QED
    BY <1>2, <2>5
<1> QED
  BY <1>3, <1>4

\* One pass of the borrow loop: what it takes makes up for the borrower that is
\* no longer on its way, and it sleeps only if nothing is free.
LEMMA LoopAwaited ==
  ASSUME Open, NEW c \in Clients, NEW p \in [Threads -> AllStates],
         NEW n \in Int, NEW m, BorrowLoop(c, p, n, m),
         (\E d \in Clients \ {c} : p[d] = "waiting") => idle + (MaxConn - n) <= Coming(p)
  PROVE  Awaited(pc', idle', total')
<1>1. /\ c \in Threads /\ MaxConn \in Nat /\ idle \in Nat
      /\ closed = FALSE
  BY SizesAssumption DEF Open, Known, TypeOK, Threads
<1>2. PICK b : pc' = [p EXCEPT ![c] = b]
  BY DEF BorrowLoop
<1>3. pc'[c] = b /\ \A u \in Threads \ {c} : pc'[u] = p[u]
  BY <1>1, <1>2
<1>4. /\ Coming(p) \in Nat /\ Coming(pc') \in Nat
      /\ Coming(pc') = Coming(p) + In(pc'[c], ComingStates) - In(p[c], ComingStates)
  BY <1>1, <1>3, ComingMove
<1>5. In(pc'[c], ComingStates) \in {0, 1} /\ In(p[c], ComingStates) \in {0, 1}
  BY DEF In
<1>6. Coming(pc') >= Coming(p) - 1
  BY <1>4, <1>5
<1>7. CASE idle > 0 /\ idle' = idle - 1 /\ total' = n /\ b = "probe"
  <2>1. (\E d \in Clients : pc'[d] = "waiting") => \E d \in Clients \ {c} : p[d] = "waiting"
    BY <1>3, <1>7 DEF Threads
  <2> QED
    BY <1>1, <1>4, <1>6, <1>7, <2>1 DEF Awaited
<1>8. CASE idle' = idle /\ total' = n + 1 /\ b = "create"
  <2>1. (\E d \in Clients : pc'[d] = "waiting") => \E d \in Clients \ {c} : p[d] = "waiting"
    BY <1>3, <1>8 DEF Threads
  <2> QED
    BY <1>1, <1>4, <1>6, <1>8, <2>1 DEF Awaited
<1>9. CASE idle = 0 /\ idle' = idle /\ total' = n /\ ~HasRoom(n)
  BY <1>1, <1>4, <1>9 DEF Awaited, HasRoom
<1>10. \/ idle > 0 /\ idle' = idle - 1 /\ total' = n /\ pc' = [p EXCEPT ![c] = "probe"]
       \/ idle' = idle /\ total' = n + 1 /\ pc' = [p EXCEPT ![c] = "create"]
       \/ idle = 0 /\ idle' = idle /\ total' = n /\ ~HasRoom(n)
  BY <1>1 DEF BorrowLoop
<1>11. \A s : pc' = [p EXCEPT ![c] = s] => b = s
  <2> SUFFICES ASSUME NEW s, pc' = [p EXCEPT ![c] = s] PROVE b = s
    OBVIOUS
  <2>1. pc'[c] = s
    BY <1>1
  <2> QED
    BY <1>3, <2>1
<1> QED
  BY <1>7, <1>8, <1>9, <1>10, <1>11

\* A thread that owns a slot of an open pool: it is counted in total.
LEMMA OwnSlot ==
  ASSUME Open, Pooled, NEW t \in Threads, pc[t] \in SlotStates
  PROVE  total \in Int /\ total >= 1 /\ Clamp(total - 1) = total - 1 /\ Dec(total) = total - 1
<1>1. total = idle + SlotCount(pc) + hcNeed /\ idle \in Nat /\ hcNeed \in Nat /\ total \in Int
  BY DEF Open, Known, CountPart, TypeOK
<1>2. SlotCount(pc) \in Nat /\ SlotCount(pc) >= 1
  BY CountOrder
<1>3. total >= 1
  BY <1>1, <1>2
<1> QED
  BY <1>1, <1>3 DEF Clamp, Dec

\* A slot is freed and somebody notified, or on the way to notify: the standing
\* p of the threads has one more borrower coming.
LEMMA FreedAwaited ==
  ASSUME Open, NEW p, NEW i \in Int, NEW n \in Int,
         i + (MaxConn - n) = idle + (MaxConn - total) + 1,
         \A c \in Clients : p[c] = "waiting" => pc[c] = "waiting",
         \/ \A c \in Clients : pc[c] # "waiting"
         \/ Coming(p) = Coming(pc) + 1,
         Coming(pc) \in Nat
  PROVE  Awaited(p, i, n)
<1>1. MaxConn \in Nat /\ idle \in Nat /\ total \in Int
  BY SizesAssumption DEF Open, Known, TypeOK
<1> QED
  BY <1>1 DEF Awaited, Open

\* The steps of a borrow.
LEMMA ClientAwaited ==
  ASSUME Open, NEW c \in Clients, ClientStep(c), closed' # TRUE
  PROVE  Awaited(pc', idle', total')
<1>c. /\ c \in Threads /\ MaxConn \in Nat /\ idle \in Nat /\ total \in Int
      /\ closed = FALSE /\ pc \in [Threads -> AllStates]
      /\ c \in ZeroWait \cup NoDeadline
  BY SizesAssumption DEF Open, Known, TypeOK, Threads, AllStates, PlainBorrowers
<1>a. (\E d \in Clients : pc[d] = "waiting") => idle + (MaxConn - total) <= Coming(pc)
  BY DEF Open, Awaited
<1>1. CASE Borrow(c) \/ Resume(c)
  <2>1. BorrowLoop(c, pc, total, net)
    BY <1>1 DEF Borrow, Resume
  <2> QED
    BY <1>c, <1>a, <2>1, LoopAwaited
<1>2. CASE BorrowTimeout(c)
  BY <1>2, <1>c DEF BorrowTimeout, Open, PlainStates
<1>3. CASE ProbeAlive(c)
  <2>1. /\ pc[c] = "probe" /\ pc' = [pc EXCEPT ![c] = "holding"]
        /\ idle' = idle /\ total' = total
    BY <1>3, <1>c DEF ProbeAlive
  <2>2. pc'[c] = "holding" /\ \A u \in Threads \ {c} : pc'[u] = pc[u]
    BY <1>c, <2>1
  <2>3. In(pc'[c], ComingStates) = 0 /\ In(pc[c], ComingStates) = 0
    BY <2>1, <2>2 DEF In, ComingStates
  <2>4. Coming(pc') = Coming(pc) + 0 - 0 /\ Coming(pc) \in Nat
    BY <1>c, <2>2, <2>3, ComingMove
  <2>5. \A d \in Clients : pc'[d] = "waiting" => pc[d] = "waiting"
    BY <2>2 DEF Threads
  <2> QED
    BY <1>a, <2>1, <2>4, <2>5 DEF Awaited
<1>4. CASE ProbeDead(c)
  <2>1. PICK p \in NotifyOne(pc) : BorrowLoop(c, p, Clamp(total - 1), net - 1)
    BY <1>4 DEF ProbeDead
  <2>2. pc[c] = "probe" /\ Pooled
    BY <1>4 DEF ProbeDead, Open, Known, UnpooledStates
  <2>3. Clamp(total - 1) = total - 1
    BY <1>c, <2>2, OwnSlot DEF SlotStates, OwnerStates
  <2>4. /\ p \in [Threads -> AllStates]
        /\ \A t \in Threads : p[t] = pc[t] \/ (pc[t] = "waiting" /\ p[t] = "woken")
        /\ \/ p = pc /\ \A d \in Clients : pc[d] # "waiting"
           \/ Coming(p) = Coming(pc) + 1
        /\ Coming(p) \in Nat /\ Coming(pc) \in Nat
    BY NotifyComes
  <2>5. \A d \in Clients : p[d] = "waiting" => pc[d] = "waiting"
    BY <2>4 DEF Threads
  <2>6. Awaited(p, idle, total - 1)
    <3>1. idle + (MaxConn - (total - 1)) = idle + (MaxConn - total) + 1 /\ total - 1 \in Int
      BY <1>c
    <3> QED
      BY <1>c, <2>4, <2>5, <3>1, FreedAwaited
  <2>7. (\E d \in Clients \ {c} : p[d] = "waiting")
           => idle + (MaxConn - (total - 1)) <= Coming(p)
    BY <2>6 DEF Awaited
  <2>8. total - 1 \in Int /\ BorrowLoop(c, p, total - 1, net - 1)
    BY <1>c, <2>1, <2>3
  <2> QED
    BY <2>4, <2>7, <2>8, LoopAwaited
<1>5. CASE BorrowUnpooled(c)
  <2>1. \A d \in Clients : pc'[d] # "waiting"
    BY <1>5, <1>c DEF BorrowUnpooled, Open, Known, UnpooledStates, Threads
  <2> QED
    BY <2>1 DEF Awaited
<1>6. CASE CreateOk(c)
  <2>1. /\ pc[c] = "create" /\ pc' = [pc EXCEPT ![c] = "holding"]
        /\ idle' = idle
        /\ Pooled => total' = total
    BY <1>6, <1>c DEF CreateOk
  <2>2. pc'[c] = "holding" /\ \A u \in Threads \ {c} : pc'[u] = pc[u]
    BY <1>c, <2>1
  <2>3. In(pc'[c], ComingStates) = 0 /\ In(pc[c], ComingStates) = 0
    BY <2>1, <2>2 DEF In, ComingStates
  <2>4. Coming(pc') = Coming(pc) + 0 - 0 /\ Coming(pc) \in Nat
    BY <1>c, <2>2, <2>3, ComingMove
  <2>5. \A d \in Clients : pc'[d] = "waiting" => pc[d] = "waiting"
    BY <2>2 DEF Threads
  <2>6. CASE Pooled
    <3>1. Coming(pc') = Coming(pc) /\ total' = total /\ idle' = idle
      BY <2>1, <2>4, <2>6
    <3> QED
      BY <1>a, <2>5, <3>1 DEF Awaited
  <2>7. CASE ~Pooled
    <3>1. \A d \in Clients : pc[d] # "waiting"
      BY <2>7 DEF Open, Known, UnpooledStates
    <3> QED
      BY <2>5, <3>1 DEF Awaited
  <2> QED
    BY <2>6, <2>7
<1>7. CASE CreateFail(c)
  <2>1. pc[c] = "create" /\ idle' = idle
    BY <1>7 DEF CreateFail
  <2>2. CASE Pooled
    <3>1. PICK p \in NotifyOne(pc) : pc' = [p EXCEPT ![c] = "idle"]
      BY <1>7, <2>2 DEF CreateFail
    <3>2. total' = total - 1
      BY <1>7, <1>c, <2>1, <2>2, OwnSlot DEF CreateFail, SlotStates, OwnerStates
    <3>3. /\ p \in [Threads -> AllStates]
          /\ \A t \in Threads : p[t] = pc[t] \/ (pc[t] = "waiting" /\ p[t] = "woken")
          /\ \/ p = pc /\ \A d \in Clients : pc[d] # "waiting"
             \/ Coming(p) = Coming(pc) + 1
          /\ Coming(p) \in Nat /\ Coming(pc) \in Nat
      BY NotifyComes
    <3>4. pc'[c] = "idle" /\ p[c] = "create" /\ \A u \in Threads \ {c} : pc'[u] = p[u]
      BY <1>c, <2>1, <3>1, <3>3
    <3>5. In(pc'[c], ComingStates) = 0 /\ In(p[c], ComingStates) = 0
      BY <3>4 DEF In, ComingStates
    <3>6. Coming(pc') = Coming(p) + 0 - 0
      BY <1>c, <3>4, <3>5, ComingMove
    <3>7. Coming(pc') = Coming(p)
      BY <3>3, <3>6
    <3>8. \A d \in Clients : pc'[d] = "waiting" => pc[d] = "waiting"
      BY <3>3, <3>4 DEF Threads
    <3>9. idle' + (MaxConn - total') = idle + (MaxConn - total) + 1
          /\ idle' \in Int /\ total' \in Int
      BY <1>c, <2>1, <3>2
    <3> QED
      BY <3>3, <3>7, <3>8, <3>9, FreedAwaited
  <2>3. CASE ~Pooled
    <3>1. \A d \in Clients : pc'[d] # "waiting"
      BY <1>7, <1>c, <2>3 DEF CreateFail, Open, Known, UnpooledStates, Threads
    <3> QED
      BY <3>1 DEF Awaited
  <2> QED
    BY <2>2, <2>3
<1> QED
  BY <1>1, <1>2, <1>3, <1>4, <1>5, <1>6, <1>7 DEF ClientStep

\* The steps of returnConn: the connection or the slot it frees is followed by
\* the notification of the thread that freed it.
LEMMA ReturnAwaited ==
  ASSUME Open, NEW t \in Clients, ReturnStep(t), closed' # TRUE
  PROVE  Awaited(pc', idle', total')
<1>c. /\ t \in Threads /\ MaxConn \in Nat /\ idle \in Nat /\ total \in Int
      /\ closed = FALSE /\ pc \in [Threads -> AllStates] /\ Requests = {}
  BY SizesAssumption DEF Open, Known, TypeOK, Threads, AllStates, PlainBorrowers
<1>a. (\E d \in Clients : pc[d] = "waiting") => idle + (MaxConn - total) <= Coming(pc)
  BY DEF Open, Awaited
<1>1. CASE ReturnClose(t)
  <2>1. /\ pc[t] = "holding" /\ pc' = [pc EXCEPT ![t] = "closing"]
        /\ idle' = idle /\ total' = Dec(total)
    BY <1>1 DEF ReturnClose
  <2>2. pc'[t] = "closing" /\ \A u \in Threads \ {t} : pc'[u] = pc[u]
    BY <1>c, <2>1
  <2>3. In(pc'[t], ComingStates) = 1 /\ In(pc[t], ComingStates) = 0
    BY <2>1, <2>2 DEF In, ComingStates
  <2>4. Coming(pc') = Coming(pc) + 1 - 0 /\ Coming(pc) \in Nat
    BY <1>c, <2>2, <2>3, ComingMove
  <2>5. \A d \in Clients : pc'[d] = "waiting" => pc[d] = "waiting"
    BY <2>2 DEF Threads
  <2>6. CASE Pooled
    <3>1. total' = total - 1
      BY <1>c, <2>1, <2>6, OwnSlot DEF SlotStates, OwnerStates
    <3>2. /\ idle' + (MaxConn - total') = idle + (MaxConn - total) + 1
          /\ idle' \in Int /\ total' \in Int /\ Coming(pc') = Coming(pc) + 1
      BY <1>c, <2>1, <2>4, <3>1
    <3> QED
      BY <2>4, <2>5, <3>2, FreedAwaited
  <2>7. CASE ~Pooled
    <3>1. \A d \in Clients : pc[d] # "waiting"
      BY <2>7 DEF Open, Known, UnpooledStates
    <3> QED
      BY <2>5, <3>1 DEF Awaited
  <2> QED
    BY <2>6, <2>7
<1>2. CASE ReturnHandoff(t)
  BY <1>2, <1>c DEF ReturnHandoff, Queued
<1>3. CASE ReturnIdle(t)
  <2>1. Queued = {}
    BY <1>c DEF Queued
  <2>2. /\ pc[t] = "holding" /\ idle' = idle + 1 /\ total' = total
        /\ pc' = [u \in Threads |-> IF u = t THEN "notify" ELSE pc[u]]
    BY <1>3, <2>1 DEF ReturnIdle
  <2>3. pc'[t] = "notify" /\ \A u \in Threads \ {t} : pc'[u] = pc[u]
    BY <1>c, <2>2
  <2>4. In(pc'[t], ComingStates) = 1 /\ In(pc[t], ComingStates) = 0
    BY <2>2, <2>3 DEF In, ComingStates
  <2>5. Coming(pc') = Coming(pc) + 1 - 0 /\ Coming(pc) \in Nat
    BY <1>c, <2>3, <2>4, ComingMove
  <2>6. \A d \in Clients : pc'[d] = "waiting" => pc[d] = "waiting"
    BY <2>3 DEF Threads
  <2>7. /\ idle' + (MaxConn - total') = idle + (MaxConn - total) + 1
        /\ idle' \in Int /\ total' \in Int /\ Coming(pc') = Coming(pc) + 1
    BY <1>c, <2>2, <2>5
  <2> QED
    BY <2>5, <2>6, <2>7, FreedAwaited
<1>4. CASE ReturnNotify(t)
  <2>1. pc[t] \in {"closing", "notify"} /\ idle' = idle /\ total' = total
    BY <1>4 DEF ReturnNotify, counters
  <2>2. PICK p \in NotifyOne(pc) : pc' = [p EXCEPT ![t] = "idle"]
    BY <1>4 DEF ReturnNotify
  <2>3. /\ p \in [Threads -> AllStates]
        /\ \A u \in Threads : p[u] = pc[u] \/ (pc[u] = "waiting" /\ p[u] = "woken")
        /\ \/ p = pc /\ \A d \in Clients : pc[d] # "waiting"
           \/ Coming(p) = Coming(pc) + 1
        /\ Coming(p) \in Nat /\ Coming(pc) \in Nat
    BY NotifyComes
  <2>4. pc'[t] = "idle" /\ p[t] = pc[t] /\ \A u \in Threads \ {t} : pc'[u] = p[u]
    BY <1>c, <2>1, <2>2, <2>3
  <2>5. In(pc'[t], ComingStates) = 0 /\ In(p[t], ComingStates) = 1
    BY <2>1, <2>4 DEF In, ComingStates
  <2>6. Coming(pc') = Coming(p) + 0 - 1
    <3>1. t \in Threads /\ \A u \in Threads \ {t} : pc'[u] = p[u]
      BY <1>c, <2>4
    <3> QED
      BY <2>5, <3>1, ComingMove
  <2>7. \A d \in Clients : pc'[d] = "waiting" => pc[d] = "waiting"
    BY <2>3, <2>4 DEF Threads
  <2>8. (\A d \in Clients : pc[d] # "waiting") \/ Coming(pc') = Coming(pc)
    BY <2>3, <2>6
  <2> QED
    BY <1>a, <2>1, <2>7, <2>8 DEF Awaited
<1>5. CASE ReturnOrphan(t)
  BY <1>5 DEF ReturnOrphan, Exists, Open, Known
<1> QED
  BY <1>1, <1>2, <1>3, <1>4, <1>5 DEF ReturnStep

\* The heartbeat stays away and a borrow with timeout 0 does not sleep.
LEMMA PlainNext ==
  ASSUME Known, TypeOK', PlainBorrowers, PlainStates, [Next]_vars
  PROVE  PlainStates'
<1>c. /\ Beat \in Threads /\ Reaper \in Threads /\ Beat # Reaper
      /\ Beat \notin Clients /\ Reaper \notin Clients
      /\ Clients \subseteq Threads /\ ZeroWait \subseteq Clients
      /\ pc \in [Threads -> AllStates] /\ pc[Beat] = "idle" /\ Queued = {}
      /\ \A c \in ZeroWait : pc[c] \notin {"waiting", "woken"}
      /\ TypeOK
  BY ThreadsAssumption DEF Threads, Known, TypeOK, AllStates, PlainStates,
                           PlainBorrowers, Queued
<1>1. CASE UNCHANGED vars
  BY <1>1, <1>c DEF vars, PlainStates
<1>2. ASSUME NEW c \in Clients, NEW p, p \in NotifyOne(pc) \/ p = pc,
             NEW b, pc' = [p EXCEPT ![c] = b],
             c \in ZeroWait => b \notin {"waiting", "woken"}
      PROVE  PlainStates'
  <2>1. /\ p \in [Threads -> AllStates]
        /\ \A u \in Threads : p[u] = pc[u] \/ (pc[u] = "waiting" /\ p[u] = "woken")
    BY <1>2, <1>c, Notified
  <2>2. pc'[c] = b /\ \A u \in Threads \ {c} : pc'[u] = p[u]
    BY <1>2, <1>c, <2>1
  <2>3. pc'[Beat] = "idle"
    BY <1>c, <2>1, <2>2
  <2>4. ASSUME NEW u \in ZeroWait PROVE pc'[u] \notin {"waiting", "woken"}
    <3>1. CASE u = c
      BY <1>2, <2>2, <3>1
    <3>2. CASE u # c
      BY <1>c, <2>1, <2>2, <3>2
    <3> QED
      BY <3>1, <3>2
  <2> QED
    BY <2>3, <2>4 DEF PlainStates
<1>3. ASSUME NEW c \in Clients, NEW p, p \in NotifyOne(pc) \/ p = pc,
             NEW n, NEW m, BorrowLoop(c, p, n, m)
      PROVE  PlainStates'
  <2>1. \E b : pc' = [p EXCEPT ![c] = b] /\ (c \in ZeroWait => b \notin {"waiting", "woken"})
    BY <1>3 DEF BorrowLoop
  <2> QED
    BY <1>2, <1>3, <2>1
<1>4. ASSUME NEW c \in Clients, ClientStep(c) PROVE PlainStates'
  <2>1. CASE Borrow(c) \/ Resume(c)
    BY <2>1, <1>3 DEF Borrow, Resume
  <2>2. CASE ProbeDead(c)
    BY <2>2, <1>3 DEF ProbeDead
  <2>3. CASE BorrowTimeout(c)
    BY <2>3, <1>2 DEF BorrowTimeout
  <2>4. CASE ProbeAlive(c)
    BY <2>4, <1>2 DEF ProbeAlive
  <2>5. CASE BorrowUnpooled(c)
    BY <2>5, <1>2 DEF BorrowUnpooled
  <2>6. CASE CreateOk(c)
    BY <2>6, <1>2 DEF CreateOk
  <2>7. CASE CreateFail(c)
    <3>1. \E p \in NotifyOne(pc) \cup {pc} : pc' = [p EXCEPT ![c] = "idle"]
      BY <2>7 DEF CreateFail
    <3> QED
      BY <1>2, <3>1
  <2> QED
    BY <1>4, <2>1, <2>2, <2>3, <2>4, <2>5, <2>6, <2>7 DEF ClientStep
<1>5. ASSUME NEW t \in Clients, ReturnStep(t) PROVE PlainStates'
  <2>1. CASE ReturnClose(t) \/ ReturnOrphan(t)
    BY <2>1, <1>2 DEF ReturnClose, ReturnOrphan
  <2>2. CASE ReturnHandoff(t)
    BY <2>2, <1>c DEF ReturnHandoff
  <2>3. CASE ReturnIdle(t)
    <3>1. pc' = [u \in Threads |-> IF u = t THEN "notify" ELSE pc[u]]
      BY <2>3, <1>c DEF ReturnIdle
    <3>2. pc' = [pc EXCEPT ![t] = "notify"]
      BY <3>1, <1>c
    <3> QED
      BY <1>2, <3>2
  <2>4. CASE ReturnNotify(t)
    BY <2>4, <1>2 DEF ReturnNotify
  <2> QED
    BY <1>5, <2>1, <2>2, <2>3, <2>4 DEF ReturnStep
<1>6. CASE HealthStep
  BY <1>6, <1>c DEF HealthStep, HealthExpire, HealthSnapshot, HealthTake, HealthBreak,
     HealthKeep, HealthEvict, HealthReserve, HealthFill, PlainBorrowers
<1>7. ASSUME NEW p, pc' = [p EXCEPT ![Reaper] = pc'[Reaper]], DOMAIN p = Threads,
             \A u \in Threads \ {Reaper} : \/ p[u] = pc[u]
                                           \/ pc[u] = "waiting" /\ p[u] = "woken"
      PROVE  PlainStates'
  <2>1. \A u \in Threads \ {Reaper} : pc'[u] = p[u]
    BY <1>7, <1>c
  <2> QED
    BY <1>7, <1>c, <2>1 DEF PlainStates
<1>8. CASE ShutdownStep
  <2>1. CASE Shutdown
    <3> DEFINE p == [t \in Threads |-> IF t \in Queued THEN "collected"
                                       ELSE NotifyAll(pc)[t]]
    <3>1. \E b : pc' = [p EXCEPT ![Reaper] = b]
      BY <2>1 DEF Shutdown, ShutdownGoOn
    <3>2. \A t \in Threads : p[t] = pc[t] \/ (pc[t] = "waiting" /\ p[t] = "woken")
      BY <1>c, Notified
    <3>3. DOMAIN p = Threads
      OBVIOUS
    <3> HIDE DEF p
    <3>4. pc' = [p EXCEPT ![Reaper] = pc'[Reaper]]
      BY <3>1, <3>3, <1>c
    <3> QED
      BY <1>7, <3>2, <3>3, <3>4
  <2>2. CASE ShutdownClosed \/ ShutdownResume \/ ShutdownTimeout \/ Destroy
    <3>1. \E b : pc' = [pc EXCEPT ![Reaper] = b]
      BY <2>2 DEF ShutdownClosed, ShutdownResume, ShutdownTimeout, Destroy, ShutdownGoOn
    <3>2. pc' = [pc EXCEPT ![Reaper] = pc'[Reaper]] /\ DOMAIN pc = Threads
      BY <3>1, <1>c
    <3> QED
      BY <1>7, <3>2
  <2>3. CASE ShutdownDeliver
    BY <2>3, <1>c DEF ShutdownDeliver, PlainStates, PlainBorrowers
  <2> QED
    BY <1>8, <2>1, <2>2, <2>3 DEF ShutdownStep
<1>9. ASSUME NEW t \in Clients \cup {Reaper}, SpuriousWakeup(t) PROVE PlainStates'
  <2>1. pc[t] = "waiting" /\ pc' = [pc EXCEPT ![t] = "woken"]
    BY <1>9 DEF SpuriousWakeup, Sleepers
  <2> QED
    BY <1>9, <1>c, <2>1 DEF PlainStates
<1>10. CASE Finished
  BY <1>10, <1>1 DEF Finished
<1>11. \A r \in Requests : FALSE
  BY DEF PlainBorrowers
<1> QED
  BY <1>1, <1>4, <1>5, <1>6, <1>8, <1>9, <1>10, <1>11 DEF Next

\* The steps of an open pool that leaves it open keep NoLostWakeup.
LEMMA OpenAwaited ==
  ASSUME Open, [Next]_vars, closed' # TRUE
  PROVE  Awaited(pc', idle', total')
<1>c. /\ pc[Reaper] = "idle" /\ pc[Beat] = "idle" /\ pc \in [Threads -> AllStates]
      /\ Requests = {} /\ ~Heartbeat
  BY DEF Open, Known, PlainStates, PlainBorrowers, TypeOK, AllStates
<1>1. CASE UNCHANGED vars
  BY <1>1 DEF vars, counters, Open, Awaited, Coming, At
<1>2. CASE HealthStep
  BY <1>2, <1>c DEF HealthStep, HealthExpire, HealthSnapshot, HealthTake, HealthBreak,
     HealthKeep, HealthEvict, HealthReserve, HealthFill
<1>3. CASE ShutdownStep
  BY <1>3, <1>c DEF ShutdownStep, Shutdown, ShutdownClosed, ShutdownResume,
     ShutdownTimeout, ShutdownDeliver, Destroy
<1>4. ASSUME NEW t \in Clients \cup {Reaper}, SpuriousWakeup(t)
      PROVE  Awaited(pc', idle', total')
  <2>1. /\ pc[t] = "waiting" /\ pc' = [pc EXCEPT ![t] = "woken"]
        /\ idle' = idle /\ total' = total /\ t \in Threads
    BY <1>4 DEF SpuriousWakeup, Sleepers, counters, Threads
  <2>2. pc'[t] = "woken" /\ \A u \in Threads \ {t} : pc'[u] = pc[u]
    BY <2>1, <1>c
  <2>3. In(pc'[t], ComingStates) = 1 /\ In(pc[t], ComingStates) = 0
    BY <2>1, <2>2 DEF In, ComingStates
  <2>a. t \in Threads
    BY <2>1
  <2>4. Coming(pc') = Coming(pc) + 1 - 0 /\ Coming(pc) \in Nat
    BY <2>2, <2>3, <2>a, ComingMove
  <2>5. \A d \in Clients : pc'[d] = "waiting" => pc[d] = "waiting"
    BY <2>2 DEF Threads
  <2>6. MaxConn \in Nat /\ idle \in Nat /\ total \in Int
    BY SizesAssumption DEF Open, Known, TypeOK
  <2> QED
    BY <2>1, <2>4, <2>5, <2>6 DEF Open, Awaited
<1>5. CASE Finished
  BY <1>1, <1>5 DEF Finished
<1> QED
  BY <1>1, <1>2, <1>3, <1>4, <1>5, <1>c, ClientAwaited, ReturnAwaited DEF Next

WakeInv == PoolInv /\ PlainStates /\ NoLostWakeup

\* Wake-ups are not lost among any number of synchronous borrowers: while one
\* sleeps, each idle connection or free slot has a borrower on its way to it, woken
\* or about to be by the thread that freed it (the notify_one of returnConn and of
\* the failing paths of borrow).
THEOREM PoolNoLostWakeup ==
  ASSUME PlainBorrowers
  PROVE  Spec => []NoLostWakeup
<1>1. Init => WakeInv
  <2> SUFFICES ASSUME Init PROVE WakeInv
    OBVIOUS
  <2>1. \A t \in Threads : pc[t] = "idle"
    BY DEF Init
  <2>2. PlainStates /\ NoLostWakeup
    BY <2>1, ThreadsAssumption DEF PlainStates, NoLostWakeup, Threads
  <2> QED
    BY <2>2, PoolInit DEF WakeInv
<1>2. WakeInv /\ [Next]_vars => WakeInv'
  <2> SUFFICES ASSUME WakeInv, [Next]_vars PROVE WakeInv'
    OBVIOUS
  <2>1. PoolInv' /\ TypeOK /\ TypeOK'
    BY PoolNext DEF WakeInv, PoolInv, ShutdownInv
  <2>2. Known
    <3>1. closed = TRUE <=> pc[Reaper] # "idle"
      BY <2>1, ShutdownSplit DEF WakeInv, PoolInv, ShutdownPart
    <3>2. CountPart
      BY <2>1, <3>1, PoolSplit DEF WakeInv, PoolInv
    <3> QED
      BY <2>1, <3>1, <3>2 DEF Known, WakeInv, PoolInv
  <2>3. PlainStates'
    BY <2>1, <2>2, PlainNext DEF WakeInv
  <2>4. closed' # TRUE => closed # TRUE
    BY <2>1, <2>2 DEF Next, vars, TypeOK, ClientStep, Borrow, BorrowLoop, Resume,
       BorrowTimeout, ProbeAlive, ProbeDead, BorrowUnpooled, CreateOk, CreateFail,
       RequestStep, AsyncBorrow, AsyncEnter, AsyncPing, AsyncDrop, AsyncCreate,
       ReturnStep, ReturnClose, ReturnHandoff, ReturnIdle, ReturnNotify, ReturnOrphan,
       HealthStep, HealthExpire, HealthSnapshot, HealthTake, HealthBreak, HealthKeep,
       HealthEvict, HealthReserve, HealthFill, ShutdownStep, Shutdown, ShutdownClosed,
       ShutdownResume, ShutdownTimeout, ShutdownDeliver, Destroy, SpuriousWakeup,
       Finished
  <2>5. closed' # TRUE => Awaited(pc', idle', total')
    <3> SUFFICES ASSUME closed' # TRUE PROVE Awaited(pc', idle', total')
      OBVIOUS
    <3>1. Open
      BY <2>1, <2>2, <2>4, AwaitedSplit DEF Open, WakeInv
    <3> QED
      BY <3>1, OpenAwaited
  <2> QED
    BY <2>1, <2>3, <2>5, AwaitedSplitPrime DEF WakeInv
<1>3. WakeInv => NoLostWakeup
  BY DEF WakeInv
<1> QED
  BY <1>1, <1>2, <1>3, PTL DEF Spec
=============================================================================
