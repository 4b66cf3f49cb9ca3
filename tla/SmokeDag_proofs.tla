--------------------------- MODULE SmokeDag_proofs ---------------------------
(***************************************************************************)
(* Proofs about SmokeDag.  Every property but the promise of an end is     *)
(* about one task, its call under way and its run; what a call needs of    *)
(* the run when it is sent stays true however late it is served, because   *)
(* a task sends its next call only after the last one was answered.        *)
(***************************************************************************)
EXTENDS SmokeDag, TLAPS

Finding == {"experiments/create", "experiments/get-by-name"}

\* What a call under way, listened to or not, finds when it is served.
Pending(t) ==
  request[t] # "none" =>
    /\ pc[t] \in {request[t], "failed"}
    /\ pc[t] = request[t] => reply[t] = "none"
    /\ request[t] \in Finding \cup {"runs/create"} => runs[t] = NoRun
    /\ request[t] \in RunCalls \ {"runs/create"} => runs[t].status = "RUNNING"
    /\ request[t] \in {"runs/log-metric", "runs/update"} => runs[t].param
    /\ request[t] = "runs/update" => runs[t].metric

\* What a task that has been answered may conclude.
Heard(t) ==
  pc[t] \in Calls /\ reply[t] # "none" =>
    /\ request[t] = "none"
    /\ reply[t] = "error" => t \in hurt
    /\ reply[t] = "RESOURCE_ALREADY_EXISTS" => pc[t] = "experiments/create"
    /\ reply[t] = "ok" =>
         /\ pc[t] \in Finding => runs[t] = NoRun
         /\ pc[t] \in RunCalls \ {"runs/update"} => runs[t].status = "RUNNING"
         /\ pc[t] \in {"runs/log-parameter", "runs/log-metric", "runs/update"} => runs[t].param
         /\ pc[t] \in {"runs/log-metric", "runs/update"} => runs[t].metric
         /\ pc[t] = "runs/update" => runs[t].status = "FINISHED"

\* The run itself, and the ends of a task.
Standing(t) ==
  /\ pc[t] \in {"queued"} \cup Finding => runs[t] = NoRun
  /\ pc[t] \in {"queued", "success"} => request[t] = "none"
  /\ runs[t].status # "none" => runs[t].start = started[t] /\ pc[t] # "queued"
  /\ runs[t].status = "FINISHED" => Complete(t)
  /\ pc[t] = "success" => runs[t].status = "FINISHED"
  /\ pc[t] = "failed" => t \in hurt

Sound(t) == Pending(t) /\ Heard(t) /\ Standing(t)

Inv == TypeOK /\ \A t \in Tasks : Sound(t)

\* Tasks other than t are as they were.
Others(t) ==
  \A u \in Tasks \ {t} :
    /\ pc'[u] = pc[u] /\ started'[u] = started[u] /\ request'[u] = request[u]
    /\ reply'[u] = reply[u] /\ runs'[u] = runs[u]

-----------------------------------------------------------------------------
\* A task that nothing happens to stays sound, whoever else is hurt.
LEMMA OthersSound ==
  ASSUME Inv, NEW t \in Tasks, Others(t), hurt \subseteq hurt', Sound(t)'
  PROVE  \A u \in Tasks : Sound(u)'
<1> SUFFICES ASSUME NEW u \in Tasks \ {t} PROVE Sound(u)'
  OBVIOUS
<1>1. Sound(u)
  BY DEF Inv
<1>2. /\ pc'[u] = pc[u] /\ started'[u] = started[u] /\ request'[u] = request[u]
      /\ reply'[u] = reply[u] /\ runs'[u] = runs[u]
  BY DEF Others
<1>3. Pending(u)'
  BY <1>1, <1>2 DEF Sound, Pending
<1>4. Heard(u)'
  BY <1>1, <1>2 DEF Sound, Heard
<1>5. Standing(u)'
  BY <1>1, <1>2 DEF Sound, Standing, Complete
<1> QED
  BY <1>3, <1>4, <1>5 DEF Sound

LEMMA InitInv == Init => Inv
  BY ClockAssumption DEF Init, Inv, TypeOK, Sound, Pending, Heard, Standing, Complete, NoRun, Runs,
     Replies, Calls, RunCalls, Ended, Finding

LEMMA TriggerInv ==
  ASSUME Inv, NEW t \in Tasks, Trigger(t)
  PROVE  Inv'
<1>1. TypeOK'
  BY DEF Inv, TypeOK, Trigger, Send, Replies, Calls
<1>2. Others(t)
  BY DEF Inv, TypeOK, Others, Trigger, Send
<1>3. /\ pc'[t] = "experiments/create" /\ request'[t] = "experiments/create"
      /\ reply'[t] = "none" /\ runs'[t] = runs[t] /\ runs[t] = NoRun
  BY DEF Inv, TypeOK, Trigger, Send, Sound, Standing
<1>4. Pending(t)' /\ Heard(t)' /\ Standing(t)'
  BY <1>3 DEF Pending, Heard, Standing, Finding, NoRun, RunCalls, Complete
<1> QED
  BY <1>1, <1>2, <1>4, OthersSound DEF Inv, Sound, Trigger

\* A task that has been answered sends its next call.
LEMMA SendInv ==
  ASSUME Inv, NEW t \in Tasks, NEW call \in Calls, Send(t, call),
         UNCHANGED <<clock, started, experiment, runs, hurt>>,
         pc[t] \in Calls, reply[t] \in {"ok", "RESOURCE_ALREADY_EXISTS"},
         call \in Finding \cup {"runs/create"} => runs[t] = NoRun,
         call \in RunCalls \ {"runs/create"} => runs[t].status = "RUNNING",
         call \in {"runs/log-metric", "runs/update"} => runs[t].param,
         call = "runs/update" => runs[t].metric
  PROVE  Inv'
<1>1. TypeOK'
  BY DEF Inv, TypeOK, Send, Replies
<1>2. Others(t)
  BY DEF Inv, TypeOK, Others, Send
<1>3. /\ pc'[t] = call /\ request'[t] = call /\ call # "none" /\ call \notin {"queued", "success", "failed"}
      /\ reply'[t] = "none" /\ runs' = runs /\ started' = started
  BY DEF Inv, TypeOK, Send, Calls, RunCalls
<1>4. Pending(t)' /\ Heard(t)'
  BY <1>3 DEF Pending, Heard
<1>5. Standing(t)'
  BY <1>3 DEF Inv, Sound, Standing, Complete, Calls, RunCalls
<1> QED
  BY <1>1, <1>2, <1>4, <1>5, OthersSound DEF Inv, Sound

LEMMA FoundInv ==
  ASSUME Inv, NEW t \in Tasks, Found(t)
  PROVE  Inv'
<1>1. Heard(t) /\ Standing(t)
  BY DEF Inv, Sound
<1>2. runs[t] = NoRun
  BY <1>1 DEF Found, Standing, Finding
<1>3. CASE reply[t] = "ok" /\ Send(t, "runs/create")
  BY <1>2, <1>3, SendInv DEF Found, Calls, RunCalls
<1>4. CASE /\ pc[t] = "experiments/create" /\ Tolerated(reply[t])
           /\ Send(t, "experiments/get-by-name")
  BY <1>2, <1>4, SendInv DEF Found, Calls, RunCalls, Tolerated
<1> QED
  BY <1>3, <1>4 DEF Found

\* A task ends without touching its run or its call.
LEMMA EndInv ==
  ASSUME Inv, NEW t \in Tasks, NEW end \in Ended, pc[t] \in Calls,
         pc' = [pc EXCEPT ![t] = end],
         UNCHANGED <<clock, started, request, reply, experiment, runs>>,
         hurt' \in {hurt, hurt \cup {t}},
         end = "failed" => t \in hurt',
         end = "success" => request[t] = "none" /\ runs[t].status = "FINISHED"
  PROVE  Inv'
<1>1. TypeOK'
  BY DEF Inv, TypeOK
<1>2. Others(t)
  BY DEF Inv, TypeOK, Others
<1>3. pc'[t] = end /\ end \notin Calls /\ end \notin {"queued", "none"} \cup Finding
  BY DEF Inv, TypeOK, Ended, Calls, RunCalls, Finding
<1>4. Pending(t) /\ Standing(t)
  BY DEF Inv, Sound
<1>5. Pending(t)'
  <2>1. request'[t] = request[t] /\ runs'[t] = runs[t] /\ request[t] \in {"none"} \cup Calls
    BY DEF Inv, TypeOK
  <2>2. request[t] # "none" => end = "failed" /\ request[t] # end
    BY <1>3, <2>1 DEF Ended
  <2> QED
    BY <1>3, <1>4, <2>1, <2>2 DEF Pending
<1>6. Heard(t)'
  BY <1>3 DEF Heard
<1>7. Standing(t)'
  BY <1>3, <1>4 DEF Standing, Complete, Ended
<1> QED
  BY <1>1, <1>2, <1>5, <1>6, <1>7, OthersSound DEF Inv, Sound

LEMMA AdvanceInv ==
  ASSUME Inv, NEW t \in Tasks, Advance(t)
  PROVE  Inv'
<1>1. Heard(t) /\ pc[t] \in RunCalls /\ pc[t] \in Calls /\ reply[t] = "ok"
  BY DEF Inv, Sound, Advance, Calls
<1>2. CASE pc[t] = "runs/update"
  <2>1. After(pc[t]) = "success" /\ request[t] = "none" /\ runs[t].status = "FINISHED"
    BY <1>1, <1>2 DEF After, Heard
  <2> QED
    BY <1>1, <2>1, EndInv DEF Advance, Ended
<1>3. CASE pc[t] # "runs/update"
  <2> DEFINE next == After(pc[t])
  <2>1. \/ pc[t] = "runs/create" /\ next = "runs/log-parameter"
        \/ pc[t] = "runs/log-parameter" /\ next = "runs/log-metric"
        \/ pc[t] = "runs/log-metric" /\ next = "runs/update"
    BY <1>1, <1>3 DEF After, RunCalls
  <2>2. Send(t, next) /\ next \in Calls
    BY <2>1 DEF Advance, Calls, RunCalls
  <2>3. /\ next \in RunCalls /\ next # "runs/create" /\ next \notin Finding
        /\ runs[t].status = "RUNNING"
        /\ next \in {"runs/log-metric", "runs/update"} => runs[t].param
        /\ next = "runs/update" => runs[t].metric
    BY <1>1, <2>1 DEF Heard, RunCalls, Finding
  <2> HIDE DEF next
  <2> QED
    BY <1>1, <2>2, <2>3, SendInv DEF Advance
<1> QED
  BY <1>2, <1>3

LEMMA RaiseInv ==
  ASSUME Inv, NEW t \in Tasks, Raise(t)
  PROVE  Inv'
<1>1. Heard(t) /\ reply[t] \in Replies
  BY DEF Inv, Sound, TypeOK
<1>2. reply[t] = "error"
  BY <1>1 DEF Raise, Heard, Tolerated, Replies
<1> QED
  BY <1>1, <1>2, EndInv DEF Raise, Heard, Ended

\* The effect of a call that is served.
LEMMA WrittenIs ==
  ASSUME Inv, NEW t \in Tasks, request[t] # "none"
  PROVE  /\ Written(t) \in Runs
         /\ request[t] \in Finding => Written(t) = runs[t]
         /\ request[t] = "runs/create" =>
              Written(t).status = "RUNNING" /\ Written(t).start = started[t]
         /\ request[t] \in {"runs/log-parameter", "runs/log-metric"} =>
              Written(t).status = runs[t].status
         /\ request[t] = "runs/update" => Written(t).status = "FINISHED"
         /\ request[t] \in RunCalls \ {"runs/create"} =>
              /\ Written(t).start = runs[t].start
              /\ Written(t).param = (runs[t].param \/ request[t] = "runs/log-parameter")
              /\ Written(t).metric = (runs[t].metric \/ request[t] = "runs/log-metric")
<1>1. runs[t] \in Runs /\ started[t] \in Nat /\ NoRun \in Runs
  BY ClockAssumption DEF Inv, TypeOK, NoRun, Runs
<1>2. request[t] \in Finding \cup RunCalls
  BY DEF Inv, TypeOK, Calls, Finding
<1>3. CASE request[t] \in Finding
  BY <1>1, <1>3 DEF Finding, Written, RunCalls
<1>4. CASE request[t] = "runs/create"
  BY <1>1, <1>4 DEF Finding, Written, StartTime, Runs, NoRun
<1>5. CASE request[t] = "runs/log-parameter"
  BY <1>1, <1>5 DEF Finding, Written, Runs
<1>6. CASE request[t] = "runs/log-metric"
  BY <1>1, <1>6 DEF Finding, Written, Runs
<1>7. CASE request[t] = "runs/update"
  BY <1>1, <1>7 DEF Finding, Written, Runs
<1> QED
  BY <1>2, <1>3, <1>4, <1>5, <1>6, <1>7 DEF RunCalls

LEMMA ServeInv ==
  ASSUME Inv, NEW t \in Tasks, Serve(t)
  PROVE  Inv'
<1> DEFINE call == request[t]
<1>1. Pending(t) /\ Standing(t) /\ call # "none"
  BY DEF Inv, Sound, Serve
<1>2. call \in Finding \cup RunCalls /\ runs[t] \in Runs /\ pc[t] \in {"queued"} \cup Calls \cup Ended
  BY <1>1 DEF Inv, TypeOK, Calls, Finding
<1>3. /\ pc' = pc /\ request'[t] = "none" /\ runs'[t] = Written(t) /\ started' = started /\ hurt' = hurt
      /\ \/ pc[t] = call /\ reply'[t] = Answer(t)
         \/ reply' = reply
  BY DEF Inv, TypeOK, Serve
<1>4. Answer(t) \in {"ok", "RESOURCE_ALREADY_EXISTS"}
      /\ (Answer(t) # "ok" => call = "experiments/create")
  BY DEF Answer
<1>5. TypeOK'
  BY <1>1, <1>4, WrittenIs DEF Inv, TypeOK, Serve, Replies
<1>6. Others(t)
  BY DEF Inv, TypeOK, Others, Serve
<1>7. pc[t] \in {call, "failed"}
  BY <1>1 DEF Pending
<1>8. Pending(t)'
  BY <1>3 DEF Pending
<1>9. Standing(t)'
  <2> DEFINE w == Written(t)
  <2>1. CASE call \in Finding
    BY <1>1, <1>3, <1>7, <2>1, WrittenIs DEF Standing, Finding, Complete
  <2>2. pc[t] \notin {"queued", "success"} /\ (call \notin Finding => pc[t] \notin Finding)
    BY <1>1, <1>7 DEF Standing, Finding
  <2>3. CASE call = "runs/create"
    <3>1. w.status = "RUNNING" /\ w.start = started[t]
      BY <1>1, <2>3, WrittenIs
    <3>2. call \notin Finding
      BY <2>3 DEF Finding
    <3> HIDE DEF w
    <3> QED
      BY <1>1, <1>3, <2>2, <3>1, <3>2 DEF Standing, Complete, w
  <2>4. CASE call \in RunCalls \ {"runs/create"}
    <3>1. /\ w.start = started[t]
          /\ w.status = "FINISHED" => w.param /\ w.metric
      <4>1. runs[t].status = "RUNNING" /\ w.start = runs[t].start
        BY <1>1, <2>4, WrittenIs DEF Pending
      <4>2. w.status = "FINISHED" => call = "runs/update"
        BY <1>1, <2>4, <4>1, WrittenIs DEF RunCalls
      <4>3. call = "runs/update" => w.param /\ w.metric
        BY <1>1, <2>4, WrittenIs DEF Pending
      <4> QED
        BY <1>1, <4>1, <4>2, <4>3 DEF Standing
    <3>2. call \notin Finding
      BY <2>4 DEF RunCalls, Finding
    <3> HIDE DEF w
    <3> QED
      BY <1>1, <1>3, <2>2, <3>1, <3>2 DEF Standing, Complete, w
  <2> QED
    BY <1>2, <2>1, <2>3, <2>4
<1>10. Heard(t)'
  <2>1. CASE pc[t] = "failed"
    BY <1>3, <2>1 DEF Heard, Calls, RunCalls
  <2>2. CASE pc[t] = call /\ reply' = reply
    BY <1>1, <2>2 DEF Heard, Pending
  <2>3. CASE pc[t] = call /\ reply'[t] = Answer(t)
    <3>1. CASE call \in Finding
      <4>1. runs'[t] = NoRun /\ call \notin RunCalls
        BY <1>1, <1>3, <3>1, WrittenIs DEF Pending, Finding, RunCalls
      <4> QED
        BY <1>3, <1>4, <2>3, <3>1, <4>1 DEF Heard, RunCalls
    <3>2. CASE call = "runs/create"
      BY <1>1, <1>3, <1>4, <2>3, <3>2, WrittenIs DEF Heard, Pending, Finding, RunCalls, NoRun
    <3>3. CASE call = "runs/log-parameter"
      BY <1>1, <1>2, <1>3, <1>4, <2>3, <3>3, WrittenIs DEF Heard, Pending, Finding, RunCalls, Runs
    <3>4. CASE call = "runs/log-metric"
      BY <1>1, <1>2, <1>3, <1>4, <2>3, <3>4, WrittenIs DEF Heard, Pending, Finding, RunCalls, Runs
    <3>5. CASE call = "runs/update"
      BY <1>1, <1>2, <1>3, <1>4, <2>3, <3>5, WrittenIs DEF Heard, Pending, Finding, RunCalls, Runs
    <3> QED
      BY <1>2, <3>1, <3>2, <3>3, <3>4, <3>5 DEF RunCalls
  <2> QED
    BY <1>3, <1>7, <2>1, <2>2, <2>3
<1> QED
  BY <1>3, <1>5, <1>6, <1>8, <1>9, <1>10, OthersSound DEF Inv, Sound

LEMMA RefuseInv ==
  ASSUME Inv, NEW t \in Tasks, Refuse(t)
  PROVE  Inv'
<1>1. Pending(t) /\ Heard(t) /\ Standing(t) /\ request[t] # "none"
  BY DEF Inv, Sound, Refuse
<1>2. /\ pc' = pc /\ request'[t] = "none" /\ runs' = runs /\ started' = started /\ t \in hurt'
      /\ reply'[t] = IF pc[t] = request[t] THEN "error" ELSE reply[t]
  BY DEF Inv, TypeOK, Refuse
<1>3. TypeOK'
  BY DEF Inv, TypeOK, Refuse, Replies
<1>4. Others(t)
  BY DEF Inv, TypeOK, Others, Refuse
<1>5. Pending(t)' /\ Heard(t)' /\ Standing(t)'
  BY <1>1, <1>2 DEF Pending, Heard, Standing, Complete, Calls, RunCalls
<1> QED
  BY <1>3, <1>4, <1>5, OthersSound DEF Inv, Sound, Refuse

\* The invariant is inductive.
LEMMA NextInv == Inv /\ [Next]_vars => Inv'
<1> SUFFICES ASSUME Inv, [Next]_vars PROVE Inv'
  OBVIOUS
<1>1. CASE UNCHANGED vars
  BY <1>1 DEF vars, Inv, TypeOK, Sound, Pending, Heard, Standing, Complete
<1>2. CASE Tick
  BY <1>2, ClockAssumption DEF Tick, Inv, TypeOK, Sound, Pending, Heard, Standing, Complete
<1>3. ASSUME NEW t \in Tasks, Timeout(t) PROVE Inv'
  BY <1>3, EndInv DEF Timeout, Ended
<1>4. ASSUME NEW t \in Tasks, Kill(t) PROVE Inv'
  BY <1>4, EndInv DEF Kill, Ended
<1> QED
  BY <1>1, <1>2, <1>3, <1>4, TriggerInv, FoundInv, AdvanceInv, RaiseInv, ServeInv, RefuseInv
     DEF Next, Step

LEMMA Invariance == Spec => []Inv
  BY InitInv, NextInv, PTL DEF Spec

-----------------------------------------------------------------------------
\* The model's values are of their types.
THEOREM TypeCorrect == Spec => []TypeOK
<1>1. Inv => TypeOK
  BY DEF Inv
<1> QED
  BY <1>1, Invariance, PTL

\* Get-or-create and the concurrency of tasks never fail a task: every failure
\* has a kill, a refusal or a silence behind it.
THEOREM OnlyTheHurtFail == Spec => []NobodyFailsUnhurt
<1>1. Inv => NobodyFailsUnhurt
  BY DEF Inv, Sound, Standing, NobodyFailsUnhurt
<1> QED
  BY <1>1, Invariance, PTL

\* The newest run is the reader's own and complete, whatever calls of earlier
\* tasks are still on their way.
THEOREM ReaderIsRight == Spec => []ReaderSeesItsOwnRun
<1>1. ASSUME Inv, NEW t \in Tasks, pc[t] = "success",
             \A u \in Tasks \ {t} : pc[u] # "queued" => started[u] < started[t]
      PROVE  Newest = {t} /\ runs[t].status = "FINISHED" /\ Complete(t)
  <2>1. runs[t].status = "FINISHED" /\ Complete(t) /\ runs[t].start = started[t]
    BY <1>1 DEF Inv, Sound, Standing
  <2>2. \A u \in Tasks \ {t} : runs[u].status # "none" => runs[u].start < runs[t].start
    BY <1>1, <2>1 DEF Inv, Sound, Standing
  <2>3. \A u \in Tasks : runs[u].start \in Nat
    BY <1>1 DEF Inv, TypeOK, Runs
  <2>4. t \in Newest
    BY <2>1, <2>2, <2>3 DEF Newest
  <2>5. ASSUME NEW u \in Newest, u # t PROVE FALSE
    <3>1. runs[u].status # "none" /\ runs[t].start <= runs[u].start /\ u \in Tasks \ {t}
      BY <2>1, <2>5 DEF Newest
    <3>2. runs[u].start < runs[t].start
      BY <2>2, <3>1
    <3> QED
      BY <2>3, <3>1, <3>2
  <2> QED
    BY <2>1, <2>4, <2>5
<1>2. Inv => ReaderSeesItsOwnRun
  BY <1>1 DEF ReaderSeesItsOwnRun
<1> QED
  BY <1>2, Invariance, PTL

-----------------------------------------------------------------------------
(* SmokeDag implements SmokePromise.                                       *)

outcomes == [t \in Tasks |-> OutcomeOf(t)]
records  == [t \in Tasks |-> RecordOf(t)]

\* A step of one task moves that task alone in the promise.
LEMMA OthersImplement ==
  ASSUME NEW t \in Tasks, Others(t)
  PROVE  /\ outcomes' = [outcomes EXCEPT ![t] = OutcomeOf(t)']
         /\ records' = [records EXCEPT ![t] = RecordOf(t)']
<1>1. \A u \in Tasks \ {t} : OutcomeOf(u)' = OutcomeOf(u) /\ RecordOf(u)' = RecordOf(u)
  BY DEF Others, OutcomeOf, RecordOf, Complete
<1> QED
  BY <1>1 DEF outcomes, records

LEMMA EndImplements ==
  ASSUME Inv, NEW t \in Tasks, NEW end \in Ended, pc[t] \in Calls,
         pc' = [pc EXCEPT ![t] = end],
         UNCHANGED <<started, request, reply, runs>>,
         end = "success" => runs[t].status = "FINISHED" /\ Complete(t)
  PROVE  Promise!Next
<1>1. Others(t) /\ RecordOf(t)' = RecordOf(t)
  BY DEF Inv, TypeOK, Others, RecordOf, Complete
<1>2. OutcomeOf(t) = "pending" /\ OutcomeOf(t)' = end
  BY DEF Inv, TypeOK, OutcomeOf, Ended, Calls, RunCalls
<1>3. outcomes' = [outcomes EXCEPT ![t] = end] /\ records' = records
  BY <1>1, <1>2, OthersImplement DEF records
<1>4. end = "success" => records[t] = "complete"
  BY DEF records, RecordOf
<1>5. outcomes[t] = "pending"
  BY <1>2 DEF outcomes
<1>6. Promise!Succeed(t) \/ Promise!Fail(t)
  BY <1>3, <1>4, <1>5 DEF Promise!Succeed, Promise!Fail, Ended, outcomes, records
<1> QED
  BY <1>6 DEF Promise!Next

\* A step in which no task ends and no run is written is invisible.
LEMMA SilentImplements ==
  ASSUME runs' = runs, \A t \in Tasks : OutcomeOf(t)' = OutcomeOf(t)
  PROVE  UNCHANGED <<outcomes, records>>
  BY DEF outcomes, records, RecordOf, Complete

LEMMA SendImplements ==
  ASSUME Inv, NEW t \in Tasks, NEW call \in Calls, Send(t, call), runs' = runs,
         pc[t] \notin Ended
  PROVE  UNCHANGED <<outcomes, records>>
<1>1. call \notin Ended
  BY DEF Calls, RunCalls, Ended
<1>2. \A u \in Tasks : OutcomeOf(u)' = OutcomeOf(u)
  BY <1>1 DEF Inv, TypeOK, Send, OutcomeOf
<1> QED
  BY <1>2, SilentImplements

LEMMA AdvanceImplements ==
  ASSUME Inv, NEW t \in Tasks, Advance(t)
  PROVE  Promise!Next \/ UNCHANGED <<outcomes, records>>
<1>1. pc[t] \in Calls /\ pc[t] \notin Ended /\ Heard(t) /\ Standing(t)
  BY DEF Inv, Sound, Advance, Calls, RunCalls, Ended
<1>2. CASE pc[t] = "runs/update"
  <2>1. After(pc[t]) = "success" /\ runs[t].status = "FINISHED" /\ Complete(t)
    BY <1>1, <1>2 DEF After, Advance, Heard, Complete
  <2> QED
    BY <1>1, <2>1, EndImplements DEF Advance, Ended
<1>3. CASE pc[t] # "runs/update"
  <2>1. After(pc[t]) \in Calls /\ After(pc[t]) # "success"
    BY <1>3 DEF Advance, After, RunCalls, Calls
  <2> QED
    BY <1>1, <2>1, SendImplements DEF Advance
<1> QED
  BY <1>2, <1>3

LEMMA ServeImplements ==
  ASSUME Inv, NEW t \in Tasks, Serve(t)
  PROVE  Promise!Next \/ UNCHANGED <<outcomes, records>>
<1>1. Pending(t) /\ Standing(t) /\ request[t] # "none" /\ request[t] \in Finding \cup RunCalls
  BY DEF Inv, TypeOK, Sound, Serve, Calls, Finding
<1>2. Others(t) /\ OutcomeOf(t)' = OutcomeOf(t) /\ runs'[t] = Written(t) /\ runs[t] \in Runs
  BY DEF Inv, TypeOK, Others, Serve, OutcomeOf
<1>3. outcomes' = outcomes /\ records' = [records EXCEPT ![t] = RecordOf(t)']
  BY <1>2, OthersImplement DEF outcomes
<1>4. CASE request[t] \in Finding \cup {"runs/log-parameter", "runs/log-metric"}
  <2>1. runs'[t].status = runs[t].status
    BY <1>1, <1>2, <1>4, WrittenIs DEF Runs
  <2>2. runs[t].status \in {"none", "RUNNING"}
    BY <1>1, <1>4 DEF Pending, NoRun, RunCalls, Finding
  <2>3. RecordOf(t)' = RecordOf(t)
    BY <2>1, <2>2 DEF RecordOf
  <2> QED
    BY <1>3, <2>3 DEF records
<1>5. CASE request[t] = "runs/create"
  <2>1. runs[t].status = "none" /\ runs'[t].status = "RUNNING"
    BY <1>1, <1>2, <1>5, WrittenIs DEF Pending, NoRun
  <2>2. Promise!Open(t)
    BY <1>3, <2>1 DEF Promise!Open, RecordOf, outcomes, records
  <2> QED
    BY <2>2 DEF Promise!Next
<1>6. CASE request[t] = "runs/update"
  <2>1. runs[t].status = "RUNNING" /\ runs[t].param /\ runs[t].metric
    BY <1>1, <1>6 DEF Pending, RunCalls
  <2>2. runs'[t].status = "FINISHED" /\ runs'[t].param /\ runs'[t].metric
    BY <1>1, <1>2, <1>6, <2>1, WrittenIs DEF RunCalls
  <2>3. RecordOf(t) = "open" /\ RecordOf(t)' = "complete"
    BY <2>1, <2>2 DEF RecordOf, Complete
  <2>4. Promise!Finish(t)
    BY <1>3, <2>3 DEF Promise!Finish, outcomes, records
  <2> QED
    BY <2>4 DEF Promise!Next
<1> QED
  BY <1>1, <1>4, <1>5, <1>6 DEF RunCalls

\* SmokeDag implements SmokePromise: success and FINISHED mean what their
\* readers take them to mean, and neither is taken back.
THEOREM KeepsPromise == Spec => PromiseKept
<1>1. Init => Promise!Init
  BY DEF Init, Promise!Init, OutcomeOf, RecordOf, NoRun, Ended
<1>2. Inv /\ [Next]_vars => [Promise!Next]_<<outcomes, records>>
  <2> SUFFICES ASSUME Inv, [Next]_vars
               PROVE  Promise!Next \/ UNCHANGED <<outcomes, records>>
    OBVIOUS
  <2>1. CASE UNCHANGED vars
    BY <2>1, SilentImplements DEF vars, OutcomeOf
  <2>2. CASE Tick
    BY <2>2, SilentImplements DEF Tick, OutcomeOf
  <2>3. ASSUME NEW t \in Tasks, Trigger(t) PROVE UNCHANGED <<outcomes, records>>
    BY <2>3, SendImplements DEF Trigger, Calls, Ended
  <2>4. ASSUME NEW t \in Tasks, Found(t) PROVE UNCHANGED <<outcomes, records>>
    BY <2>4, SendImplements DEF Found, Calls, RunCalls, Ended
  <2>5. ASSUME NEW t \in Tasks, Raise(t) \/ Timeout(t) \/ Kill(t) PROVE Promise!Next
    BY <2>5, EndImplements DEF Raise, Timeout, Kill, Ended
  <2>6. ASSUME NEW t \in Tasks, Refuse(t) PROVE UNCHANGED <<outcomes, records>>
    BY <2>6, SilentImplements DEF Refuse, OutcomeOf
  <2> QED
    BY <2>1, <2>2, <2>3, <2>4, <2>5, <2>6, AdvanceImplements, ServeImplements DEF Next, Step
<1>3. <<outcomes, records>> = <<[t \in Tasks |-> OutcomeOf(t)], [t \in Tasks |-> RecordOf(t)]>>
  BY DEF outcomes, records
<1> QED
  BY <1>1, <1>2, Invariance, PTL DEF Spec, PromiseKept, Promise!Spec, outcomes, records
=============================================================================
