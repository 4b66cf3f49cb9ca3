------------------------------ MODULE SmokeDag ------------------------------
(***************************************************************************)
(* airflow/dags/m0_smoke.py: tasks that each write one run to MLflow over  *)
(* its REST API, and the integration tier's latest_run, which reads them.  *)
(*                                                                         *)
(* A task makes one call at a time, never repeats one, and fails at the    *)
(* first that is refused or not answered in time.  Several may be under    *)
(* way: the operator's trigger beside the tier's.  A call that its task    *)
(* gave up on may still be served, or never be.  The tracking server is    *)
(* external: an experiment's name is unique, a call takes effect wholly or *)
(* not at all, and the answer to one that did may be lost.                 *)
(***************************************************************************)
EXTENDS Integers

CONSTANTS
  Tasks,
  MaxClock    \* bound: how far the clock advances

ASSUME ClockAssumption == MaxClock \in Nat

VARIABLES
  clock,      \* int(time.time() * 1000) in the Airflow container
  pc,         \* the call each task is waiting for, or how it stands
  started,    \* when it began
  request,    \* its call that the server has not served yet, listened to or not
  reply,      \* the answer that has reached it
  experiment, \* is there an experiment named EXPERIMENT_NAME?
  runs,       \* the run that the runs/create of each task has made
  hurt        \* the tasks that were killed or had a call refused or unanswered

vars == <<clock, pc, started, request, reply, experiment, runs, hurt>>

RunCalls == {"runs/create", "runs/log-parameter", "runs/log-metric", "runs/update"}
Calls    == {"experiments/create", "experiments/get-by-name"} \cup RunCalls
Ended    == {"success", "failed"}
Replies  == {"none", "ok", "RESOURCE_ALREADY_EXISTS", "error"}
NoRun    == [status |-> "none", start |-> 0, param |-> FALSE, metric |-> FALSE]
Runs     == [status : {"none", "RUNNING", "FINISHED"}, start : Nat,
             param : BOOLEAN, metric : BOOLEAN]

TypeOK ==
  /\ clock \in 0..MaxClock
  /\ pc \in [Tasks -> {"queued"} \cup Calls \cup Ended]
  /\ started \in [Tasks -> 0..MaxClock]
  /\ request \in [Tasks -> {"none"} \cup Calls]
  /\ reply \in [Tasks -> Replies]
  /\ experiment \in BOOLEAN
  /\ runs \in [Tasks -> Runs]
  /\ hurt \subseteq Tasks

\* The database outlives the stack: the experiment may be an earlier day's.
Init ==
  /\ clock = 0
  /\ pc = [t \in Tasks |-> "queued"]
  /\ started = [t \in Tasks |-> 0]
  /\ request = [t \in Tasks |-> "none"]
  /\ reply = [t \in Tasks |-> "none"]
  /\ experiment \in BOOLEAN
  /\ runs = [t \in Tasks |-> NoRun]
  /\ hurt = {}

-----------------------------------------------------------------------------
(* The task.                                                               *)

Send(t, call) ==
  /\ pc' = [pc EXCEPT ![t] = call]
  /\ request' = [request EXCEPT ![t] = call]
  /\ reply' = [reply EXCEPT ![t] = "none"]

\* Mutants: a task that asks the clock when it opens its run, the calls of a
\* run in another order or with one the server does not have, an experiment
\* that is there already as an error, a call without a time limit.
AtService(t) == clock
FinishFirst(call) ==
  CASE call = "runs/create" -> "runs/update"
    [] call = "runs/update" -> "runs/log-parameter"
    [] call = "runs/log-parameter" -> "runs/log-metric"
    [] call = "runs/log-metric" -> "success"
NoSuchCall(call) ==
  CASE call = "runs/create" -> "runs/log-parameter"
    [] call = "runs/log-parameter" -> "runs/log-metric"
    [] call = "runs/log-metric" -> "runs/terminate"
    [] call = "runs/update" -> "success"
NotTolerated(answer) == FALSE
NoTimeout(t) == FALSE

\* tracking_base finds the address, which the compose file sets literally; the
\* start is taken before experiment_id's calls.
Trigger(t) ==
  /\ pc[t] = "queued"
  /\ started' = [started EXCEPT ![t] = clock]
  /\ Send(t, "experiments/create")
  /\ UNCHANGED <<clock, experiment, runs, hurt>>

\* The only error that is not raised: the body of the answer names it.
Tolerated(answer) == answer = "RESOURCE_ALREADY_EXISTS"

\* What follows an answered call of log_one_run, past experiment_id.
After(call) ==
  CASE call = "runs/create" -> "runs/log-parameter"
    [] call = "runs/log-parameter" -> "runs/log-metric"
    [] call = "runs/log-metric" -> "runs/update"
    [] call = "runs/update" -> "success"

\* experiment_id: create, or find the one that another task created.
Found(t) ==
  /\ pc[t] \in {"experiments/create", "experiments/get-by-name"}
  /\ \/ reply[t] = "ok" /\ Send(t, "runs/create")
     \/ /\ pc[t] = "experiments/create"
        /\ Tolerated(reply[t])
        /\ Send(t, "experiments/get-by-name")
  /\ UNCHANGED <<clock, started, experiment, runs, hurt>>

Advance(t) ==
  /\ pc[t] \in RunCalls
  /\ reply[t] = "ok"
  /\ IF After(pc[t]) = "success"
     THEN pc' = [pc EXCEPT ![t] = "success"] /\ UNCHANGED <<request, reply>>
     ELSE Send(t, After(pc[t]))
  /\ UNCHANGED <<clock, started, experiment, runs, hurt>>

\* Any other answer is raised, and Airflow marks the task failed.
Raise(t) ==
  /\ pc[t] \in Calls
  /\ reply[t] \notin {"none", "ok"}
  /\ ~(pc[t] = "experiments/create" /\ Tolerated(reply[t]))
  /\ pc' = [pc EXCEPT ![t] = "failed"]
  /\ UNCHANGED <<clock, started, request, reply, experiment, runs, hurt>>

\* Nothing was heard for REQUEST_TIMEOUT_SECONDS, or the connection broke.
Timeout(t) ==
  /\ pc[t] \in Calls
  /\ reply[t] = "none"
  /\ pc' = [pc EXCEPT ![t] = "failed"]
  /\ hurt' = hurt \cup {t}
  /\ UNCHANGED <<clock, started, request, reply, experiment, runs>>

\* The task's process dies: a stopped container, an operator's interrupt.
Kill(t) ==
  /\ pc[t] \in Calls
  /\ pc' = [pc EXCEPT ![t] = "failed"]
  /\ hurt' = hurt \cup {t}
  /\ UNCHANGED <<clock, started, request, reply, experiment, runs>>

-----------------------------------------------------------------------------
(* The tracking server.                                                    *)

\* The start_time in the request is the task's own.
StartTime(t) == started[t]

Written(t) ==
  CASE request[t] = "runs/create" ->
         [NoRun EXCEPT !.status = "RUNNING", !.start = StartTime(t)]
    [] request[t] = "runs/log-parameter" -> [runs[t] EXCEPT !.param = TRUE]
    [] request[t] = "runs/log-metric" -> [runs[t] EXCEPT !.metric = TRUE]
    [] request[t] = "runs/update" -> [runs[t] EXCEPT !.status = "FINISHED"]
    [] OTHER -> runs[t]

Answer(t) ==
  IF request[t] = "experiments/create" /\ experiment
  THEN "RESOURCE_ALREADY_EXISTS"
  ELSE "ok"

\* A call is served; the answer reaches its task if that still listens, or is lost.
Serve(t) ==
  /\ request[t] # "none"
  /\ experiment' = (experiment \/ request[t] = "experiments/create")
  /\ runs' = [runs EXCEPT ![t] = Written(t)]
  /\ \/ pc[t] = request[t] /\ reply' = [reply EXCEPT ![t] = Answer(t)]
     \/ UNCHANGED reply
  /\ request' = [request EXCEPT ![t] = "none"]
  /\ UNCHANGED <<clock, pc, started, hurt>>

\* The server or its database cannot do it: any other error, nothing written.
Refuse(t) ==
  /\ request[t] # "none"
  /\ request' = [request EXCEPT ![t] = "none"]
  /\ reply' = [reply EXCEPT ![t] = IF pc[t] = request[t] THEN "error" ELSE @]
  /\ hurt' = hurt \cup {t}
  /\ UNCHANGED <<clock, pc, started, experiment, runs>>

Tick ==
  /\ clock < MaxClock
  /\ clock' = clock + 1
  /\ UNCHANGED <<pc, started, request, reply, experiment, runs, hurt>>

-----------------------------------------------------------------------------
Step(t) == Found(t) \/ Advance(t) \/ Raise(t)

Next ==
  \/ \E t \in Tasks : Trigger(t) \/ Step(t) \/ Timeout(t) \/ Kill(t)
  \/ \E t \in Tasks : Serve(t) \/ Refuse(t)
  \/ Tick

Spec == Init /\ [][Next]_vars

\* A task handles what it was answered, and urlopen gives up in the end.  The
\* server, the clock and whoever triggers a task owe nothing.
Fairness == \A t \in Tasks : WF_vars(Step(t)) /\ WF_vars(Timeout(t))

FairSpec == Spec /\ Fairness

-----------------------------------------------------------------------------
(* Properties.                                                             *)

Complete(t) == runs[t].param /\ runs[t].metric

\* Success means a finished run with its param and metric, FINISHED in MLflow
\* means the same even where the task failed because that answer was lost
\* (m0_smoke.py, comment on the update), and neither is ever taken back.
OutcomeOf(t) == IF pc[t] \in Ended THEN pc[t] ELSE "pending"
RecordOf(t) ==
  CASE runs[t].status = "none" -> "none"
    [] runs[t].status = "RUNNING" -> "open"
    [] runs[t].status = "FINISHED" -> IF Complete(t) THEN "complete" ELSE "hollow"

Promise ==
  INSTANCE SmokePromise WITH outcome <- [t \in Tasks |-> OutcomeOf(t)],
                             record <- [t \in Tasks |-> RecordOf(t)]

PromiseKept == Promise!Spec

\* latest_run of the integration tier takes the run that started last.
Newest ==
  {t \in Tasks : /\ runs[t].status # "none"
                 /\ \A u \in Tasks : runs[u].status # "none" => runs[u].start <= runs[t].start}

\* The tier's reader, having seen its own task succeed, is shown that task's run
\* and a complete one, as long as no other task began as late as it did: runs of
\* earlier tasks may still be opened behind its back, by calls served late.
ReaderSeesItsOwnRun ==
  \A t \in Tasks :
    pc[t] = "success" /\ (\A u \in Tasks \ {t} : pc[u] # "queued" => started[u] < started[t])
      => Newest = {t} /\ runs[t].status = "FINISHED" /\ Complete(t)

\* Two tasks that create the experiment at once hinder nobody: a task fails
\* only if it was killed or a call of its own was refused or went unanswered.
NobodyFailsUnhurt == \A t \in Tasks : pc[t] = "failed" => t \in hurt

\* Whatever the server does, a task that began ends.
TasksEnd == \A t \in Tasks : pc[t] \in Calls ~> pc[t] \in Ended
=============================================================================
