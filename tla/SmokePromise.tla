---------------------------- MODULE SmokePromise ----------------------------
(***************************************************************************)
(* What a reader of the smoke DAG may rely on.  docs/decisions/010 closes  *)
(* the first milestone on it: a task that succeeded has left one finished  *)
(* run with its param and its metric in MLflow, and a finished run is one  *)
(* whose param and metric are there, whatever became of its task.          *)
(***************************************************************************)
CONSTANT Tasks

VARIABLES
  outcome,    \* what Airflow says of each task
  record      \* what MLflow holds of the run of each task

Init ==
  /\ outcome = [t \in Tasks |-> "pending"]
  /\ record = [t \in Tasks |-> "none"]

\* A run is opened, written to, and finished once it is complete.
Open(t) ==
  /\ record[t] = "none"
  /\ record' = [record EXCEPT ![t] = "open"]
  /\ UNCHANGED outcome

Finish(t) ==
  /\ record[t] = "open"
  /\ record' = [record EXCEPT ![t] = "complete"]
  /\ UNCHANGED outcome

\* Success is said of a complete run only; failure says nothing of the run,
\* and an outcome is final.
Succeed(t) ==
  /\ outcome[t] = "pending"
  /\ record[t] = "complete"
  /\ outcome' = [outcome EXCEPT ![t] = "success"]
  /\ UNCHANGED record

Fail(t) ==
  /\ outcome[t] = "pending"
  /\ outcome' = [outcome EXCEPT ![t] = "failed"]
  /\ UNCHANGED record

Next == \E t \in Tasks : Open(t) \/ Finish(t) \/ Succeed(t) \/ Fail(t)

Spec == Init /\ [][Next]_<<outcome, record>>
=============================================================================
