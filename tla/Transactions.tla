---------------------------- MODULE Transactions ----------------------------
(***************************************************************************)
(* What DataSource::transaction promises: the rows a callback has written   *)
(* are stored together or not at all, they are stored when the caller is    *)
(* told so, and they are not, then or later, when it is told of a failure.  *)
(* When COMMIT itself fails the caller is in doubt.                         *)
(***************************************************************************)
CONSTANTS Sessions, Rows

VARIABLES
  stored,   \* committed rows
  work,     \* what every transaction has written
  outcome   \* what its caller has been told

Outcomes == {"none", "running", "ok", "failed", "doubt"}

Init ==
  /\ stored = {}
  /\ work = [n \in Sessions |-> {}]
  /\ outcome = [n \in Sessions |-> "none"]

Start(n) ==
  /\ outcome[n] = "none"
  /\ outcome' = [outcome EXCEPT ![n] = "running"]
  /\ UNCHANGED <<stored, work>>

Write(n) ==
  /\ outcome[n] = "running"
  /\ work[n] \cap stored = {}
  /\ \E W \in SUBSET (Rows \ work[n]) : work' = [work EXCEPT ![n] = @ \cup W]
  /\ UNCHANGED <<stored, outcome>>

\* The transaction ends; its rows are stored, all of them, or it has failed.
Finish(n, told) ==
  /\ outcome[n] = "running"
  /\ stored' \in (IF told = "failed" THEN {} ELSE {stored \cup work[n]})
                 \cup (IF told = "ok" THEN {} ELSE {stored})
  /\ outcome' = [outcome EXCEPT ![n] = told]
  /\ UNCHANGED work

Next ==
  \E n \in Sessions : Start(n) \/ Write(n) \/ \E told \in {"ok", "failed", "doubt"} : Finish(n, told)

Spec == Init /\ [][Next]_<<stored, work, outcome>>
=============================================================================
