---------------------------- MODULE ImageDelivery ----------------------------
(***************************************************************************)
(* The one image this repository builds and the places it goes: the        *)
(* registry (make push), the operator's kind cluster (make kind-deploy)    *)
(* and the cluster of the cluster tier (tests/test_kind_cluster.py,        *)
(* tests/clusterops.py).  The three are run from different terminals over  *)
(* one tag of the local daemon, one checkout and one pair of host ports.   *)
(*                                                                         *)
(* A build is known by the version of images/mlflow it was made from: it   *)
(* reads the checkout after it starts and exports the tag when it ends.    *)
(* Docker, kind, helm and Kubernetes are external: a tag is replaced by    *)
(* the latest export, helm replaces pods whose template changed and waits  *)
(* for them, a container reads the node's image store (pullPolicy          *)
(* IfNotPresent) and the Secret whenever it starts, and Postgres takes its *)
(* credentials at the first start on its claim.                            *)
(***************************************************************************)
EXTENDS Integers

CONSTANTS
  Envs,       \* contents of .env, as far as credentials go
  FirstEnv,   \* the first of them
  FirstNames, \* the clusters that may be there at first
  MaxEdits,   \* bound: edits of the checkout
  MaxRuns     \* bound: commands started: deploys, pushes, sessions, other builds

ASSUME BoundsAssumption ==
  /\ MaxEdits \in Nat /\ MaxRuns \in Nat
  /\ -1 \notin Envs
  /\ FirstEnv \in Envs

VARIABLES
  checkout,   \* what is on disk: image source, .env and chart
  tag,        \* mlops-platform/mlflow:$(MLFLOW_TAG) in the local daemon
  published,  \* $(GHCR_IMAGE):$(MLFLOW_TAG), local reference and registry
  cluster,    \* the kind cluster that holds host ports 80 and 443
  push,       \* make push
  deploy,     \* make kind-deploy
  suite,      \* a session of the cluster tier
  budget      \* what is left of the bounds

vars == <<checkout, tag, published, cluster, push, deploy, suite, budget>>

None == -1

KIND_CLUSTER == "mlops-platform"
TEST_CLUSTER == "mlops-platform-tests"

Services == {"mlflow", "minio-init"}
Builds   == Nat \cup {None}
Images   == [build : Builds, service : Services \cup {"none"}]
Unbuilt  == [build |-> None, service |-> "none"]

\* A command as it starts, or once it has ended.
Pushing(pc, source) == [pc |-> pc, source |-> source, crossed |-> FALSE]
Deploying(pc)       == [pc |-> pc, source |-> 0, rolled |-> FALSE, crossed |-> FALSE]
Session(pc, keep)   ==
  [pc |-> pc, keep |-> keep, build |-> None, env |-> None, chart |-> None]

Pods     == [build : Builds, env : Envs \cup {None}, chart : Builds]
Clusters == [name : {"none", KIND_CLUSTER, TEST_CLUSTER}, node : Builds,
             secret : Envs \cup {None}, chart : Builds, volume : Envs \cup {None},
             pods : SUBSET Pods]
Empty(name) ==
  [name |-> name, node |-> None, secret |-> None, chart |-> None, volume |-> None, pods |-> {}]

TypeOK ==
  /\ checkout \in [source : Nat, env : Envs, chart : Nat]
  /\ tag \in Images
  /\ published \in [local : Images, remote : Images]
  /\ cluster \in Clusters
  /\ push \in [pc : {"idle", "build", "inspect", "reclaim", "check", "tag", "push", "done",
                     "refused", "failed"}, source : Nat, crossed : BOOLEAN]
  /\ deploy \in [pc : {"idle", "kind-up", "build", "load", "secret", "helm", "wait", "done",
                       "failed"}, source : Nat, rolled : BOOLEAN, crossed : BOOLEAN]
  /\ suite \in [pc : {"idle", "create", "load", "secret", "install", "wait", "tests", "destroy",
                      "ended"}, keep : BOOLEAN, build : Builds, env : Envs \cup {None},
                chart : Builds]
  /\ budget \in [edits : 0..MaxEdits, runs : 0..MaxRuns]

\* A cluster as earlier deploys or a session left it: its Secret may be of a
\* later .env than its claim.
Deployed(name, first, last) ==
  [Empty(name) EXCEPT !.node = 0, !.secret = last, !.chart = 0, !.volume = first,
                      !.pods = {[build |-> 0, env |-> first, chart |-> 0]}]

\* The checkout may have moved on since.
Init ==
  /\ checkout = [source |-> 1, env |-> FirstEnv, chart |-> 0]
  /\ tag = Unbuilt
  /\ published = [local |-> Unbuilt, remote |-> Unbuilt]
  /\ \/ cluster = Empty("none")
     \/ \E first, last \in Envs : cluster = Deployed(KIND_CLUSTER, first, last)
     \/ \E first \in Envs : cluster = Deployed(TEST_CLUSTER, first, first)
  /\ cluster.name \in FirstNames
  /\ push = Pushing("idle", 0)
  /\ deploy = Deploying("idle")
  /\ suite = Session("idle", FALSE)
  /\ budget = [edits |-> MaxEdits, runs |-> MaxRuns]

-----------------------------------------------------------------------------
(* The checkout and the tag.                                               *)

Edit ==
  /\ budget.edits > 0
  /\ budget' = [budget EXCEPT !.edits = @ - 1]
  /\ \/ checkout' = [checkout EXCEPT !.source = @ + 1]
     \/ checkout' = [checkout EXCEPT !.chart = @ + 1]
     \/ \E e \in Envs \ {checkout.env} : checkout' = [checkout EXCEPT !.env = e]
  /\ UNCHANGED <<tag, published, cluster, push, deploy, suite>>

\* The end of a compose build that started on version from: mlflow and minio-init
\* declare the same build under one tag, each exports it, and the later export
\* wins it.
Export(services, from) ==
  \E b \in from..checkout.source, s \in services : tag' = [build |-> b, service |-> s]

\* Somebody else's export while a push still reads the tag, and one of an older
\* build while a kind-deploy has yet to load it.
CrossesPush   == push' = [push EXCEPT !.crossed = @ \/ push.pc \in {"check", "tag"}]
CrossesDeploy == deploy' = [deploy EXCEPT !.crossed =
                              @ \/ (deploy.pc = "load" /\ tag'.build < deploy.source)]

\* Another terminal's build or up --build, started at any time.
BuildElsewhere ==
  /\ budget.runs > 0
  /\ budget' = [budget EXCEPT !.runs = @ - 1]
  /\ Export(Services, 0)
  /\ CrossesPush /\ CrossesDeploy
  /\ UNCHANGED <<checkout, published, cluster, suite>>

-----------------------------------------------------------------------------
(* make push.                                                              *)

PushMoves(pc) == push' = [push EXCEPT !.pc = pc]

\* Mutant: the tag is not claimed back.
NoReclaim == PushMoves("check") /\ UNCHANGED tag

StartPush ==
  /\ push.pc \in {"idle", "done", "refused", "failed"}
  /\ budget.runs > 0
  /\ budget' = [budget EXCEPT !.runs = @ - 1]
  /\ push' = Pushing("build", checkout.source)
  /\ UNCHANGED <<checkout, tag, published, cluster, deploy, suite>>

\* Building the one service again claims the tag back.
Reclaim == PushMoves("check") /\ Export({"mlflow"}, push.source)

\* The prerequisite and the reclaiming build, each from its start on, existence,
\* label, docker tag and docker push, each a command of its own.
PushStep ==
  /\ \/ /\ push.pc = "build"
        /\ Export(Services, push.source)
        /\ PushMoves("inspect") /\ CrossesDeploy
        /\ UNCHANGED published
     \/ /\ push.pc = "inspect"
        /\ push' = IF tag = Unbuilt THEN Pushing("failed", 0)
                   ELSE [push EXCEPT !.pc = "reclaim", !.source = checkout.source]
        /\ UNCHANGED <<tag, published, deploy>>
     \/ push.pc = "reclaim" /\ Reclaim /\ CrossesDeploy /\ UNCHANGED published
     \/ /\ push.pc = "check"
        /\ PushMoves(IF tag.service = "mlflow" THEN "tag" ELSE "refused")
        /\ UNCHANGED <<tag, published, deploy>>
     \/ /\ push.pc = "tag"
        /\ PushMoves("push")
        /\ published' = [published EXCEPT !.local = tag]
        /\ UNCHANGED <<tag, deploy>>
     \/ /\ push.pc = "push"
        /\ PushMoves("done")
        /\ published' = [published EXCEPT !.remote = published.local]
        /\ UNCHANGED <<tag, deploy>>
  /\ UNCHANGED <<checkout, cluster, suite, budget>>

PushFails ==
  /\ push.pc \in {"build", "reclaim", "push"}
  /\ push' = Pushing("failed", 0)
  /\ UNCHANGED <<checkout, tag, published, cluster, deploy, suite, budget>>

-----------------------------------------------------------------------------
(* A cluster.                                                              *)

\* Mutants: a credential is rendered into the template; no image is loaded onto
\* the node; the release of an earlier session is kept.
RestartedAsWas(c, p) == [p EXCEPT !.build = c.node]
NoLoad(name) == cluster.name = name /\ tag # Unbuilt /\ UNCHANGED cluster
KeptNamespace(c) == c

\* What a container that starts now runs, of a template.
FreshPod(c) == [build |-> c.node, env |-> c.secret, chart |-> c.chart]
Restarted(c, p) == [FreshPod(c) EXCEPT !.chart = p.chart]

\* MLflow answers its probes: it has an image and Postgres takes its password.
Available(c, p) == p.build # None /\ p.env # None /\ p.env = c.volume

Current(c) == {p \in c.pods : p.chart = c.chart}

\* A rolling update removes the old pods once a new one is available.
Settled(c) ==
  IF \E p \in Current(c) : Available(c, p) THEN [c EXCEPT !.pods = Current(c)] ELSE c

\* kind create fails on the bind while another cluster holds the ports; the
\* add-ons keep nothing that a later step reads.
KindUp(name) ==
  /\ cluster.name \in {"none", name}
  /\ cluster' = IF cluster.name = name THEN cluster ELSE Empty(name)

\* kind load replaces what the tag means on the node; running containers stay.
KindLoad(name) ==
  /\ cluster.name = name
  /\ tag # Unbuilt
  /\ cluster' = [cluster EXCEPT !.node = tag.build]

\* Deleting a namespace takes the release, the Secret and the claims with it.
DeleteNamespace(c) == [Empty(c.name) EXCEPT !.node = c.node]

\* helm upgrade --install: new pods if the template changed, and Postgres
\* initialises an empty claim.
HelmUpgrade(c, chart) ==
  LET next == [c EXCEPT !.chart = chart, !.volume = IF @ = None THEN c.secret ELSE @]
  IN  IF chart = c.chart THEN c
      ELSE Settled([next EXCEPT !.pods = @ \cup {FreshPod(next)}])

\* What helm --wait and Available mean.
Ready(c) == c.pods # {} /\ c.pods = Current(c) /\ \A p \in c.pods : Available(c, p)

\* A container is restarted, or the autoscaler adds a pod.
Restart(p) ==
  /\ p \in cluster.pods
  /\ cluster' = Settled([cluster EXCEPT !.pods = (@ \ {p}) \cup {Restarted(cluster, p)}])
  /\ UNCHANGED <<checkout, tag, published, push, deploy, suite, budget>>

ScaleUp ==
  /\ cluster.pods # {}
  /\ cluster' = Settled([cluster EXCEPT !.pods = @ \cup {FreshPod(cluster)}])
  /\ UNCHANGED <<checkout, tag, published, push, deploy, suite, budget>>

\* The kubelet restarts a container that does not answer, again and again.
RestartBroken == \E p \in cluster.pods : ~Available(cluster, p) /\ Restart(p)

-----------------------------------------------------------------------------
(* make kind-deploy, kind-up and kind-down.                                *)

DeployMoves(pc) == deploy' = [deploy EXCEPT !.pc = pc]

StartDeploy ==
  /\ deploy.pc \in {"idle", "done", "failed"}
  /\ budget.runs > 0
  /\ budget' = [budget EXCEPT !.runs = @ - 1]
  /\ deploy' = Deploying("kind-up")
  /\ UNCHANGED <<checkout, tag, published, cluster, push, suite>>

\* The build starts when the cluster is up.  The Secret is applied over the one
\* that is there, in a namespace that is created if need be.
DeployStep ==
  /\ \/ /\ deploy.pc = "kind-up"
        /\ KindUp(KIND_CLUSTER)
        /\ deploy' = [deploy EXCEPT !.pc = "build", !.source = checkout.source]
        /\ UNCHANGED <<tag, push>>
     \/ /\ deploy.pc = "build"
        /\ Export(Services, deploy.source)
        /\ DeployMoves("load") /\ CrossesPush
        /\ UNCHANGED cluster
     \/ deploy.pc = "load" /\ KindLoad(KIND_CLUSTER) /\ DeployMoves("secret") /\ UNCHANGED <<tag, push>>
     \/ /\ deploy.pc = "secret"
        /\ cluster.name = KIND_CLUSTER
        /\ cluster' = [cluster EXCEPT !.secret = checkout.env]
        /\ DeployMoves("helm")
        /\ UNCHANGED <<tag, push>>
     \/ /\ deploy.pc = "helm"
        /\ cluster.name = KIND_CLUSTER
        /\ cluster.secret # None
        /\ cluster' = HelmUpgrade(cluster, checkout.chart)
        /\ deploy' = [deploy EXCEPT !.pc = "wait", !.rolled = (checkout.chart # cluster.chart)]
        /\ UNCHANGED <<tag, push>>
     \/ /\ deploy.pc = "wait"
        /\ cluster.name = KIND_CLUSTER
        /\ Ready(cluster)
        /\ deploy' = Deploying("done")
        /\ UNCHANGED <<tag, cluster, push>>
  /\ UNCHANGED <<checkout, published, suite, budget>>

\* Mutant: helm waits without a timeout.
NoTimeout ==
  /\ deploy.pc \in {"kind-up", "build", "load", "secret"}
  /\ deploy' = Deploying("failed")
  /\ UNCHANGED <<checkout, tag, published, cluster, push, suite, budget>>

\* A command fails: --wait at its timeout, any other for a reason of its own.
DeployFails ==
  /\ deploy.pc \in {"kind-up", "build", "load", "secret", "helm", "wait"}
  /\ deploy.pc = "wait" => ~(cluster.name = KIND_CLUSTER /\ Ready(cluster))
  /\ deploy' = Deploying("failed")
  /\ UNCHANGED <<checkout, tag, published, cluster, push, suite, budget>>

KindUpAlone ==
  /\ cluster.name = "none"
  /\ KindUp(KIND_CLUSTER)
  /\ UNCHANGED <<checkout, tag, published, push, deploy, suite, budget>>

KindDown ==
  /\ cluster.name = KIND_CLUSTER
  /\ cluster' = Empty("none")
  /\ UNCHANGED <<checkout, tag, published, push, deploy, suite, budget>>

-----------------------------------------------------------------------------
(* The cluster tier: its fixture, its tests, its teardown.                 *)

\* Mutant: a step that the fixture does not have.
NoSuchStep(pc) == suite' = [suite EXCEPT !.pc = IF pc = "tests" THEN "yield" ELSE pc]

SuiteMoves(pc) == suite' = [suite EXCEPT !.pc = pc]

\* refuse_a_port_conflict asserts before anything is created.
StartSuite ==
  /\ suite.pc \in {"idle", "ended"}
  /\ budget.runs > 0
  /\ budget' = [budget EXCEPT !.runs = @ - 1]
  /\ suite' = Session(IF cluster.name = KIND_CLUSTER THEN "ended" ELSE "create", FALSE)
  /\ UNCHANGED <<checkout, tag, published, cluster, push, deploy>>

\* create reuses a cluster of its name; the image is whatever the tag holds;
\* the namespace is deleted first; install takes the chart with its defaults;
\* KEEP_TEST_CLUSTER keeps the cluster after the tests.
SuiteStep ==
  /\ \/ suite.pc = "create" /\ KindUp(TEST_CLUSTER) /\ SuiteMoves("load")
     \/ /\ suite.pc = "load"
        /\ KindLoad(TEST_CLUSTER)
        /\ suite' = [suite EXCEPT !.pc = "secret", !.build = tag.build]
     \/ /\ suite.pc = "secret"
        /\ cluster' = [DeleteNamespace(cluster) EXCEPT !.secret = checkout.env]
        /\ suite' = [suite EXCEPT !.pc = "install", !.env = checkout.env]
     \/ /\ suite.pc = "install"
        /\ cluster' = HelmUpgrade(cluster, checkout.chart)
        /\ suite' = [suite EXCEPT !.pc = "wait", !.chart = checkout.chart]
     \/ suite.pc = "wait" /\ Ready(cluster) /\ SuiteMoves("tests") /\ UNCHANGED cluster
     \/ /\ suite.pc = "tests"
        /\ suite' = Session("ended", TRUE) \/ SuiteMoves("destroy")
        /\ UNCHANGED cluster
     \/ suite.pc = "destroy" /\ cluster' = Empty("none") /\ suite' = Session("ended", FALSE)
  /\ UNCHANGED <<checkout, tag, published, push, deploy, budget>>

\* Cluster.check raises, perhaps with the namespace deleted and not made again;
\* before the fixture yields, nothing tears down.
SuiteFails ==
  /\ suite.pc \in {"create", "load", "secret", "install", "wait", "destroy"}
  /\ suite.pc = "wait" => ~Ready(cluster)
  /\ \/ UNCHANGED cluster
     \/ suite.pc = "secret" /\ cluster' = DeleteNamespace(cluster)
  /\ suite' = Session("ended", FALSE)
  /\ UNCHANGED <<checkout, tag, published, push, deploy, budget>>

-----------------------------------------------------------------------------
Next ==
  \/ Edit \/ BuildElsewhere
  \/ StartPush \/ PushStep \/ PushFails
  \/ (\E p \in cluster.pods : Restart(p)) \/ ScaleUp
  \/ StartDeploy \/ DeployStep \/ DeployFails \/ KindUpAlone \/ KindDown
  \/ StartSuite \/ SuiteStep \/ SuiteFails

Spec == Init /\ [][Next]_vars

\* helm's --timeout bounds the rollout and its wait, the harness's TIMEOUT_S every
\* command of a session, and the kubelet restarts what does not answer.  Nothing
\* bounds docker, kind create and kind load of the make targets.
Fairness ==
  /\ WF_vars(deploy.pc \in {"helm", "wait"} /\ (DeployStep \/ DeployFails))
  /\ WF_vars(SuiteStep \/ SuiteFails)
  /\ WF_vars(RestartBroken)

FairSpec == Spec /\ Fairness

-----------------------------------------------------------------------------
(* Properties.                                                             *)

\* While the tests run, every pod is of the image, the credentials and the chart
\* this session took, whatever an earlier session left behind, whatever is built
\* and deployed meanwhile and however often the pods are restarted.
SuiteSeesItsOwn ==
  suite.pc = "tests" =>
    /\ cluster.name = TEST_CLUSTER
    /\ cluster.volume = suite.env
    /\ cluster.pods = {[build |-> suite.build, env |-> suite.env, chart |-> suite.chart]}

\* A kind-deploy that returned zero, unless a build of an older checkout ended
\* between its own build and its load: every pod that starts from now on runs its
\* build or a later one, and every pod does if the template changed.
DeployRunsItsBuild ==
  [][deploy'.pc = "done" /\ deploy.pc # "done" /\ ~deploy.crossed =>
       /\ cluster.node >= deploy.source
       /\ deploy.rolled => \A p \in cluster.pods : p.build >= deploy.source]_vars

\* Unless somebody else's build ends between its own reclaiming build and its
\* docker tag, a push is not refused for the service its tag names, and what it
\* publishes is MLflow's variant of the checkout that build started on, or of a
\* later one.
PushPublishesMlflow ==
  ~push.crossed =>
    /\ push.pc # "refused"
    /\ push.pc = "done" =>
         published.remote.service = "mlflow" /\ published.remote.build >= push.source

\* Credentials edited under a kept claim are a condition that putting them back
\* and deploying cures: no cluster has to be deleted.
PodsRecover ==
  <>[](cluster.chart # None /\ cluster.node # None /\ cluster.secret = cluster.volume)
    => <>[](\A p \in cluster.pods : Available(cluster, p))

\* What has a timeout ends: the rollout of a kind-deploy, and a session, even when
\* its cluster never becomes ready or is deleted under it.
RolloutsEnd ==
  /\ deploy.pc \in {"helm", "wait"} ~> deploy.pc \in {"done", "failed"}
  /\ suite.pc = "create" ~> suite.pc = "ended"

\* tests/test_kind_cluster.py: "Torn down unconditionally", but for KEEP_TEST_CLUSTER.
TornDownUnconditionally ==
  suite.pc = "ended" /\ ~suite.keep => cluster.name # TEST_CLUSTER
=============================================================================
