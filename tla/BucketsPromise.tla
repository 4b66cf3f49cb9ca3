---------------------------- MODULE BucketsPromise ----------------------------
(***************************************************************************)
(* What the consumers of a bucket provisioner may rely on.  MLflow is      *)
(* started on an exit code alone (service_completed_successfully in the    *)
(* compose file, an initContainer in the chart), so the promise relates    *)
(* exit codes to the buckets that exist when they are read.                *)
(***************************************************************************)
EXTENDS Integers

CONSTANTS
  Provisioners,
  Buckets,
  Wanted      \* a function: the buckets each provisioner is configured to create

VARIABLES
  exists,     \* the buckets of the object store
  code        \* the exit code of each provisioner's latest run

Running   == -1
ExitCodes == {0, 1, 2, 137}

Init ==
  /\ exists \in SUBSET Buckets
  /\ code = [p \in Provisioners |-> Running]

\* A bucket comes into being because somebody asked for it, and stays.
Create(b) ==
  /\ \E p \in Provisioners : b \in Wanted[p]
  /\ exists' = exists \cup {b}
  /\ UNCHANGED code

\* Zero: everything asked for is there, and something was asked for.
\* Two: nothing was, because of the arguments or the environment.
Finish(p) ==
  /\ code[p] = Running
  /\ \E c \in ExitCodes :
       /\ c = 0 => Wanted[p] # {} /\ Wanted[p] \subseteq exists
       /\ c = 2 <=> Wanted[p] = {} /\ c # 137
       /\ code' = [code EXCEPT ![p] = c]
  /\ UNCHANGED exists

Rerun(p) ==
  /\ code[p] # Running
  /\ code' = [code EXCEPT ![p] = Running]
  /\ UNCHANGED exists

Next ==
  \/ \E b \in Buckets : Create(b)
  \/ \E p \in Provisioners : Finish(p) \/ Rerun(p)

Spec == Init /\ [][Next]_<<exists, code>>
=============================================================================
