----------------------------- MODULE Background -----------------------------
(***************************************************************************)
(* The two periodic threads of a DatabaseManager: HeartbeatManager          *)
(* (src/core/heartbeat_manager.cpp), of which a reload has an old and a new *)
(* one at a time, and StatsReporter (src/core/stats_reporter.cpp).  Both    *)
(* sleep in timed waits, so a lost notification costs an interval and no    *)
(* more.  What healthCheck does to a pool is in ConnectionPool; here a      *)
(* check is one step.                                                       *)
(***************************************************************************)
EXTENDS Naturals

CONSTANTS
  Ids,     \* identities of pools and write buffers
  Beats    \* identities of heartbeat managers

VARIABLES
  beat,      \* the thread of each heartbeat manager
  stopFlag,  \* stopFlag_ of each
  attached,  \* pools_ of each: weak pointers, without the expired ones
  reporter,  \* the reporter's thread
  reporting, \* running_ of the reporter
  open       \* pools that exist: constructed and not shut down

beatVars == <<beat, stopFlag, attached>>
reporterVars == <<reporter, reporting>>
backgroundVars == <<beatVars, reporterVars, open>>

BackgroundTypeOK ==
  /\ beat \in [Beats -> {"none", "loop", "done"}]
  /\ stopFlag \in [Beats -> BOOLEAN]
  /\ attached \in [Beats -> SUBSET Ids]
  /\ reporter \in {"none", "wait", "write"}
  /\ reporting \in BOOLEAN
  /\ open \subseteq Ids

BackgroundInit ==
  /\ beat = [h \in Beats |-> "none"]
  /\ stopFlag = [h \in Beats |-> FALSE]
  /\ attached = [h \in Beats |-> {}]
  /\ reporter = "none"
  /\ reporting = FALSE
  /\ open = {}

-----------------------------------------------------------------------------
\* start of a fresh heartbeat manager to which the pools S were added.
StartBeat(h, S) ==
  /\ beat' = [beat EXCEPT ![h] = "loop"]
  /\ stopFlag' = [stopFlag EXCEPT ![h] = FALSE]
  /\ attached' = [attached EXCEPT ![h] = S]

\* Pools go away, and with them their weak pointers: sweepExpiredPools frees
\* what can no longer be locked.
ClosePools(S) ==
  /\ open' = open \ S
  /\ attached' = [h \in Beats |-> attached[h] \ S]

\* stop, up to the join: only the flag, and a notification without the mutex.
StopBeats(H) == stopFlag' = [h \in Beats |-> stopFlag[h] \/ h \in H]

\* The join in stop, and the destructor.
BeatsJoined(H) == \A h \in H : beat[h] \in {"none", "done"}

\* loop: rounds of timed waits and health checks, which change nothing here,
\* until a test of the flag finds it set.
BeatLoop(h) ==
  /\ beat[h] = "loop"
  /\ stopFlag[h]
  /\ beat' = [beat EXCEPT ![h] = "done"]
  /\ UNCHANGED <<stopFlag, attached, reporterVars, open>>

\* run of the reporter: the wait ends.
ReporterWait ==
  /\ reporter = "wait"
  /\ reporter' = IF reporting THEN "write" ELSE "none"
  /\ UNCHANGED <<beatVars, reporting, open>>

\* writeOnce: the collector needs the manager's mutex.
ReporterWrite(mtxFree) ==
  /\ reporter = "write"
  /\ mtxFree
  /\ reporter' = "wait"
  /\ UNCHANGED <<beatVars, reporting, open>>
=============================================================================
