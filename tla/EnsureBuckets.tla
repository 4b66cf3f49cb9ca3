---------------------------- MODULE EnsureBuckets ----------------------------
(***************************************************************************)
(* images/mlflow/ensure_buckets.py, run by several provisioners at once:   *)
(* minio-init of the compose file, run again by every up and by hand, and  *)
(* the initContainer of every MLflow pod, of which the autoscaler starts   *)
(* as many as it likes.                                                    *)
(*                                                                         *)
(* A create_bucket call travels: its request may be served late or never,  *)
(* its answer may be lost, and the client library then sends it again.     *)
(***************************************************************************)
EXTENDS Integers, Sequences

CONSTANTS
  Provisioners,
  Buckets,
  Argv,         \* the bucket names each provisioner is started with
  Configured,   \* is MLFLOW_S3_ENDPOINT_URL set for it?
  MaxAttempts,  \* the client library's attempts at one call
  MaxRuns,      \* bound: runs of each provisioner, a function
  MaxRefusals   \* bound: calls the store refuses

ASSUME ProvisionersAssumption ==
  /\ Argv \in [Provisioners -> Seq(Buckets)]
  /\ Configured \in [Provisioners -> BOOLEAN]
  /\ MaxAttempts \in Nat \ {0}
  /\ MaxRuns \in [Provisioners -> Nat]
  /\ MaxRefusals \in Nat

VARIABLES
  buckets,    \* the buckets of the object store
  late,       \* buckets of calls that are under way and nobody listens to any more
  prov,       \* what each provisioner is doing
  refusals    \* calls refused so far

vars == <<buckets, late, prov, refusals>>

Running   == -1
ExitCodes == {0, 1, 2, 137}

\* Mutants: one of the two codes is forgotten; every error is tolerated.
OneCode  == {"BucketAlreadyOwnedByYou"}
AnyError == {"BucketAlreadyOwnedByYou", "BucketAlreadyExists", "refused"}

ALREADY_PRESENT == {"BucketAlreadyOwnedByYou", "BucketAlreadyExists"}

\* What is known of the call under way: "none", it is on its way; "lost", it
\* was served and its answer went astray; otherwise the answer, where
\* "refused" stands for every other error code.
Replies == {"none", "lost", "created", "BucketAlreadyOwnedByYou", "BucketAlreadyExists",
            "refused"}

Fresh(run) ==
  [pc |-> "main", run |-> run, at |-> 1, attempt |-> 1, reply |-> "none", code |-> Running]

Provs ==
  [pc : {"main", "create", "await", "exited"}, run : Nat, at : Nat \ {0},
   attempt : 1..MaxAttempts, reply : Replies, code : {Running} \cup ExitCodes]

Bucket(p) == Argv[p][prov[p].at]

Init ==
  /\ buckets \in SUBSET Buckets
  /\ late = {}
  /\ prov = [p \in Provisioners |-> Fresh(1)]
  /\ refusals = 0

-----------------------------------------------------------------------------
(* The object store *)

\* A store answers a creation with one of the two codes when the bucket is
\* there, whoever made it, and may refuse any call.
Answers(bucket) ==
  (IF bucket \in buckets THEN {"BucketAlreadyOwnedByYou", "BucketAlreadyExists"}
                         ELSE {"created"})
  \cup {answer \in {"refused"} : refusals < MaxRefusals}

Served(bucket, answer) ==
  /\ buckets' = buckets \cup {b \in {bucket} : answer = "created"}
  /\ refusals' = IF answer = "refused" THEN refusals + 1 ELSE refusals

Serve(p) ==
  /\ prov[p].pc = "await"
  /\ prov[p].reply = "none"
  /\ \E answer \in Answers(Bucket(p)) :
       /\ Served(Bucket(p), answer)
       /\ \E reply \in {answer, "lost"} : prov' = [prov EXCEPT ![p].reply = reply]
  /\ UNCHANGED late

ServeLate(bucket) ==
  /\ bucket \in late
  /\ \E answer \in Answers(bucket) : Served(bucket, answer)
  /\ late' = late \ {bucket}
  /\ UNCHANGED prov

-----------------------------------------------------------------------------
(* A provisioner *)

Step(p, next) ==
  /\ prov' = [prov EXCEPT ![p] = next]
  /\ UNCHANGED <<buckets, refusals>>

\* The provisioner stops listening to the call under way.
Abandon(p) ==
  late' = late \cup {b \in Buckets : /\ prov[p].pc = "await" /\ prov[p].reply = "none"
                                    /\ b = Bucket(p)}

Exit(p, code) == Step(p, [prov[p] EXCEPT !.pc = "exited", !.code = code])

\* main, up to the loop: no name and no endpoint are usage errors.
Main(p) ==
  /\ prov[p].pc = "main"
  /\ \/ /\ (Argv[p] = <<>> \/ ~Configured[p])
        /\ Exit(p, 2)
     \/ /\ Argv[p] # <<>> /\ Configured[p]
        /\ Step(p, [prov[p] EXCEPT !.pc = "create"])
  /\ UNCHANGED late

\* ensure: client.create_bucket.
CreateBucket(p) ==
  /\ prov[p].pc = "create"
  /\ Step(p, [prov[p] EXCEPT !.pc = "await", !.reply = "none"])
  /\ UNCHANGED late

IsLast(p) == prov[p].at = Len(Argv[p])

\* ensure returns "created" or "already present", and main turns to the next.
Ensured(p) ==
  /\ prov[p].pc = "await"
  /\ prov[p].reply \in {"created"} \cup ALREADY_PRESENT
  /\ \/ /\ IsLast(p)
        /\ Exit(p, 0)
     \/ /\ ~IsLast(p)
        /\ Step(p, [prov[p] EXCEPT !.pc = "create", !.at = @ + 1, !.attempt = 1,
                                   !.reply = "none"])
  /\ UNCHANGED late

\* ensure raises, and the interpreter exits with a traceback.
Raise(p) ==
  /\ prov[p].pc = "await"
  /\ prov[p].reply \notin {"none", "lost", "created"} \cup ALREADY_PRESENT
  /\ Exit(p, 1)
  /\ UNCHANGED late

\* Mutant: the client library waits for an answer however long it takes.
NoTimeout(p) == FALSE

\* Mutant: it sends the call again and never gives up.
NoLimit(p) ==
  /\ prov[p].pc = "await"
  /\ prov[p].reply \in {"none", "lost"}
  /\ Step(p, [prov[p] EXCEPT !.pc = "create", !.attempt = @ + 1])
  /\ Abandon(p)

\* No answer in time: the client library sends the call again, and raises when
\* its attempts are used up.
TimesOut(p) ==
  /\ prov[p].pc = "await"
  /\ prov[p].reply \in {"none", "lost"}
  /\ \/ /\ prov[p].attempt < MaxAttempts
        /\ Step(p, [prov[p] EXCEPT !.pc = "create", !.attempt = @ + 1])
     \/ /\ prov[p].attempt = MaxAttempts
        /\ Exit(p, 1)
  /\ Abandon(p)

\* The container is killed; what it sent is still on its way.
Kill(p) ==
  /\ prov[p].pc \in {"main", "create", "await"}
  /\ Exit(p, 137)
  /\ Abandon(p)

\* The next up, or the next restart of the pod's initContainer.
RunAgain(p) ==
  /\ prov[p].pc = "exited"
  /\ prov[p].run < MaxRuns[p]
  /\ Step(p, Fresh(prov[p].run + 1))
  /\ UNCHANGED late

Continue(p) == Main(p) \/ CreateBucket(p) \/ Ensured(p) \/ Raise(p) \/ TimesOut(p)

Next ==
  \/ \E b \in late : ServeLate(b)
  \/ \E p \in Provisioners : Serve(p) \/ Continue(p) \/ Kill(p) \/ RunAgain(p)

\* A process that runs goes on, and its client library times out.  The store
\* owes nobody an answer, and nothing makes anybody run a provisioner again.
Fairness == \A p \in Provisioners : WF_vars(Continue(p))

Spec     == Init /\ [][Next]_vars
FairSpec == Spec /\ Fairness

-----------------------------------------------------------------------------
(* Properties *)

\* Every variable stays in its set.
TypeOK ==
  /\ buckets \in SUBSET Buckets
  /\ late \in SUBSET Buckets
  /\ prov \in [Provisioners -> Provs]
  /\ refusals \in Nat

\* What the exit codes promise: see BucketsPromise.
Promise == INSTANCE BucketsPromise WITH
  Wanted <- [p \in Provisioners |->
               {Argv[p][i] : i \in {j \in DOMAIN Argv[p] : Configured[p]}}],
  exists <- buckets,
  code   <- [p \in Provisioners |-> prov[p].code]

\* An exit code of zero means that every bucket named on the command line
\* exists, whatever was lost, late, refused or killed on the way, and no run
\* creates what nobody named ("a provisioner that exits zero having created
\* nothing").
PromiseKept == Promise!Spec

\* Losing a race against another provisioner, or against one's own earlier
\* attempt, fails no run: a run fails because the store refused it or never
\* answered ("two documented error codes that mean already there").
RacesAreHarmless ==
  \A p \in Provisioners :
    prov[p].code = 1 => \/ prov[p].reply = "refused"
                        \/ prov[p].reply \in {"none", "lost"} /\ prov[p].attempt = MaxAttempts

\* Every run ends, so what waits for its completion starts or gives up.
RunsEnd == \A p \in Provisioners : prov[p].pc # "exited" ~> prov[p].pc = "exited"
=============================================================================
