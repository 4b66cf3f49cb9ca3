------------------------- MODULE ImageDelivery_proofs -------------------------
(* What holds of ImageDelivery for any credentials and any bounds.           *)
EXTENDS ImageDelivery, TLAPS

-----------------------------------------------------------------------------
(* The inductive invariant.                                                *)

\* A tag that was exported names a build.
TagKnown == tag # Unbuilt => tag.build \in Nat

\* Unless somebody else's build has ended since make push claimed the tag back,
\* what it checks, tags and pushes is its own.
Mine(image) == image.service = "mlflow" /\ image.build >= push.source

PushOwnsTag ==
  /\ push.source <= checkout.source
  /\ ~push.crossed =>
       /\ push.pc # "refused"
       /\ push.pc \in {"check", "tag"} => Mine(tag)
       /\ push.pc = "push" => Mine(published.local)
       /\ push.pc = "done" => Mine(published.remote)

\* Nobody deletes the cluster of a session under way, and its release is made of
\* what the session took.
SuiteOwnsCluster ==
  /\ suite.pc \in {"load", "secret", "install", "wait", "tests", "destroy"} =>
       cluster.name = TEST_CLUSTER
  /\ suite.pc \in {"secret", "install", "wait", "tests"} =>
       suite.build \in Nat /\ cluster.node = suite.build
  /\ suite.pc \in {"install", "wait", "tests"} =>
       suite.env \in Envs /\ cluster.secret = suite.env
  /\ suite.pc = "install" => cluster.chart = None /\ cluster.volume = None /\ cluster.pods = {}
  /\ suite.pc \in {"wait", "tests"} =>
       /\ suite.chart \in Nat /\ cluster.chart = suite.chart
       /\ cluster.volume = suite.env
       /\ cluster.pods = {[build |-> suite.build, env |-> suite.env, chart |-> suite.chart]}

\* A release is not ahead of the checkout, nor a pod of its release.
ChartsInOrder ==
  /\ cluster.chart <= checkout.chart
  /\ \A p \in cluster.pods : p.chart <= cluster.chart

\* What kind-deploy loaded is on the node, unless the cluster was deleted and
\* created anew since, and then nothing on it can run.
Loaded(build) == build >= deploy.source \/ build = None
DeployOwnsNode ==
  deploy.pc \in {"secret", "helm", "wait"} /\ cluster.name = KIND_CLUSTER =>
    /\ ~deploy.crossed => Loaded(cluster.node)
    /\ cluster.node = None => \A p \in cluster.pods : p.build = None
    /\ ~deploy.crossed /\ deploy.pc = "wait" /\ deploy.rolled =>
         \A p \in Current(cluster) : Loaded(p.build)

\* Unless an older build has ended since, the tag still holds what kind-deploy
\* built, or a later build.
DeployOwnsTag ==
  /\ deploy.source <= checkout.source
  /\ deploy.pc = "load" =>
       tag.build \in Nat /\ (~deploy.crossed => tag.build >= deploy.source)

IInv == TypeOK /\ TagKnown /\ PushOwnsTag /\ SuiteOwnsCluster /\ ChartsInOrder
        /\ DeployOwnsTag /\ DeployOwnsNode

-----------------------------------------------------------------------------
(* The operators on clusters.                                              *)

\* Settling a cluster with pods P keeps its fields and some of P.
LEMMA SettledIs ==
  ASSUME NEW c \in Clusters, NEW P \in SUBSET Pods
  PROVE  LET d == Settled([c EXCEPT !.pods = P])
         IN  /\ d \in Clusters
             /\ d.name = c.name /\ d.node = c.node /\ d.secret = c.secret
             /\ d.chart = c.chart /\ d.volume = c.volume
             /\ d.pods \subseteq P
             /\ P # {} => d.pods # {}
<1> DEFINE s == [c EXCEPT !.pods = P]
           d == Settled(s)
<1>1. /\ s \in Clusters /\ s.pods = P
      /\ s.name = c.name /\ s.node = c.node /\ s.secret = c.secret
      /\ s.chart = c.chart /\ s.volume = c.volume
  BY DEF Clusters
<1>2. Current(s) \subseteq P
  BY <1>1 DEF Current
<1> DEFINE Goal == /\ d \in Clusters
                   /\ d.name = c.name /\ d.node = c.node /\ d.secret = c.secret
                   /\ d.chart = c.chart /\ d.volume = c.volume
                   /\ d.pods \subseteq P
                   /\ P # {} => d.pods # {}
<1> HIDE DEF s
<1>3. ASSUME \E p \in Current(s) : Available(s, p) PROVE Goal
  <2>1. d = [s EXCEPT !.pods = Current(s)]
    BY <1>3 DEF Settled
  <2>2. Current(s) # {} /\ Current(s) \in SUBSET Pods
    BY <1>2, <1>3
  <2> QED
    BY <1>1, <1>2, <2>1, <2>2 DEF Clusters
<1>4. ASSUME ~\E p \in Current(s) : Available(s, p) PROVE Goal
  <2>1. d = s
    BY <1>4 DEF Settled
  <2> QED
    BY <1>1, <2>1
<1> QED
  BY <1>3, <1>4 DEF s

\* A container that starts now is a pod of the node's image and the Secret.
LEMMA FreshPodIs ==
  ASSUME NEW c \in Clusters
  PROVE  /\ FreshPod(c) \in Pods
         /\ FreshPod(c) = [build |-> c.node, env |-> c.secret, chart |-> c.chart]
BY DEF FreshPod, Clusters, Pods

\* A restarted container keeps its template.
LEMMA RestartedIs ==
  ASSUME NEW c \in Clusters, NEW p \in Pods
  PROVE  /\ Restarted(c, p) \in Pods
         /\ Restarted(c, p) = [build |-> c.node, env |-> c.secret, chart |-> p.chart]
BY FreshPodIs DEF Restarted, Pods, Clusters

\* What the cluster is after an upgrade to a chart.
LEMMA HelmIs ==
  ASSUME NEW c \in Clusters, NEW chart \in Nat, c.chart # chart
  PROVE  LET d == HelmUpgrade(c, chart)
         IN  /\ d \in Clusters
             /\ d.name = c.name /\ d.node = c.node /\ d.secret = c.secret
             /\ d.chart = chart
             /\ d.volume = IF c.volume = None THEN c.secret ELSE c.volume
             /\ d.pods # {}
             /\ \A q \in d.pods :
                  q \in c.pods \/ q = [build |-> c.node, env |-> c.secret, chart |-> chart]
<1> DEFINE n == [c EXCEPT !.chart = chart, !.volume = IF @ = None THEN c.secret ELSE @]
           P == n.pods \cup {FreshPod(n)}
<1>1. /\ n \in Clusters /\ n.pods = c.pods
      /\ n.name = c.name /\ n.node = c.node /\ n.secret = c.secret /\ n.chart = chart
      /\ n.volume = IF c.volume = None THEN c.secret ELSE c.volume
  BY DEF Clusters, Builds
<1>2. HelmUpgrade(c, chart) = Settled([n EXCEPT !.pods = @ \cup {FreshPod(n)}])
  BY DEF HelmUpgrade
<1> HIDE DEF n
<1>3. FreshPod(n) = [build |-> c.node, env |-> c.secret, chart |-> chart] /\ FreshPod(n) \in Pods
  BY <1>1, FreshPodIs
<1>4. P \in SUBSET Pods /\ P # {}
  BY <1>1, <1>3 DEF Clusters
<1>5. HelmUpgrade(c, chart) = Settled([n EXCEPT !.pods = P])
  BY <1>1, <1>2 DEF Clusters
<1> DEFINE d == Settled([n EXCEPT !.pods = P])
<1>6. /\ d \in Clusters
      /\ d.name = n.name /\ d.node = n.node /\ d.secret = n.secret
      /\ d.chart = n.chart /\ d.volume = n.volume
      /\ d.pods \subseteq P /\ d.pods # {}
  BY <1>1, <1>4, SettledIs
<1> HIDE DEF d
<1> QED
  BY <1>1, <1>3, <1>5, <1>6 DEF d

\* What no cluster holds at first.
LEMMA EmptyIs ==
  ASSUME NEW name \in {"none", KIND_CLUSTER, TEST_CLUSTER}
  PROVE  /\ Empty(name) \in Clusters
         /\ Empty(name).name = name /\ Empty(name).node = None /\ Empty(name).secret = None
         /\ Empty(name).chart = None /\ Empty(name).volume = None /\ Empty(name).pods = {}
BY DEF Empty, Clusters, Builds

\* A restart or a scale-up: a container more that reads the Secret and the
\* node's image anew.
Refreshed ==
  /\ cluster' \in Clusters
  /\ cluster'.name = cluster.name /\ cluster'.node = cluster.node
  /\ cluster'.secret = cluster.secret /\ cluster'.chart = cluster.chart
  /\ cluster'.volume = cluster.volume
  /\ cluster.pods # {} /\ cluster'.pods # {}
  /\ \A q \in cluster'.pods :
       \/ q \in cluster.pods
       \/ \E chart \in {cluster.chart} \cup {p.chart : p \in cluster.pods} :
            q = [build |-> cluster.node, env |-> cluster.secret, chart |-> chart]

LEMMA RestartRefreshes ==
  ASSUME cluster \in Clusters, NEW p, Restart(p) PROVE Refreshed
<1>1. p \in cluster.pods /\ p \in Pods
  BY DEF Restart, Clusters
<1> DEFINE P == (cluster.pods \ {p}) \cup {Restarted(cluster, p)}
<1>2. P \in SUBSET Pods /\ P # {}
  BY <1>1, RestartedIs DEF Clusters
<1>3. cluster' = Settled([cluster EXCEPT !.pods = P])
  BY DEF Restart
<1>4. /\ cluster' \in Clusters
      /\ cluster'.name = cluster.name /\ cluster'.node = cluster.node
      /\ cluster'.secret = cluster.secret /\ cluster'.chart = cluster.chart
      /\ cluster'.volume = cluster.volume
      /\ cluster'.pods \subseteq P /\ cluster'.pods # {}
  BY <1>2, <1>3, SettledIs
<1>5. Restarted(cluster, p) = [build |-> cluster.node, env |-> cluster.secret, chart |-> p.chart]
  BY <1>1, RestartedIs
<1> QED
  BY <1>1, <1>4, <1>5 DEF Refreshed

LEMMA ScaleUpRefreshes ==
  ASSUME cluster \in Clusters, ScaleUp PROVE Refreshed
<1>1. cluster.pods # {}
  BY DEF ScaleUp
<1> DEFINE P == cluster.pods \cup {FreshPod(cluster)}
<1>2. P \in SUBSET Pods /\ P # {}
  BY <1>1, FreshPodIs DEF Clusters
<1>3. cluster' = Settled([cluster EXCEPT !.pods = P])
  BY <1>2 DEF ScaleUp, Clusters
<1>4. /\ cluster' \in Clusters
      /\ cluster'.name = cluster.name /\ cluster'.node = cluster.node
      /\ cluster'.secret = cluster.secret /\ cluster'.chart = cluster.chart
      /\ cluster'.volume = cluster.volume
      /\ cluster'.pods \subseteq P /\ cluster'.pods # {}
  BY <1>2, <1>3, SettledIs
<1>5. FreshPod(cluster) = [build |-> cluster.node, env |-> cluster.secret, chart |-> cluster.chart]
  BY FreshPodIs
<1> QED
  BY <1>1, <1>4, <1>5 DEF Refreshed

-----------------------------------------------------------------------------
(* Types.                                                                  *)

\* What a build leaves under the tag.
LEMMA ExportIs ==
  ASSUME TypeOK, NEW services \in SUBSET Services, NEW from \in Nat, Export(services, from)
  PROVE  /\ tag' \in Images /\ tag'.service \in services
         /\ tag'.build \in Nat /\ from <= tag'.build /\ tag'.build <= checkout.source
BY DEF TypeOK, Export, Images, Builds

\* Whoever a build crosses is not otherwise moved by it.
LEMMA CrossingIs ==
  ASSUME TypeOK
  PROVE  /\ CrossesPush => /\ push'.pc = push.pc /\ push'.source = push.source
                           /\ push'.crossed = (push.crossed \/ push.pc \in {"check", "tag"})
                           /\ push' \in [pc : {"idle", "build", "inspect", "reclaim", "check",
                                              "tag", "push", "done", "refused", "failed"},
                                        source : Nat, crossed : BOOLEAN]
         /\ CrossesDeploy =>
              /\ deploy'.pc = deploy.pc /\ deploy'.source = deploy.source
              /\ deploy'.rolled = deploy.rolled
              /\ deploy'.crossed = (deploy.crossed \/ (deploy.pc = "load"
                                                        /\ tag'.build < deploy.source))
              /\ deploy' \in [pc : {"idle", "kind-up", "build", "load", "secret", "helm", "wait",
                                    "done", "failed"}, source : Nat, rolled : BOOLEAN,
                              crossed : BOOLEAN]
BY DEF TypeOK, CrossesPush, CrossesDeploy

\* The ways a step has of ending a build.
LEMMA ExportsAre ==
  ASSUME TypeOK, [Next]_vars, tag' # tag
  PROVE  \/ BuildElsewhere
         \/ PushStep /\ push.pc = "build" /\ Export(Services, push.source) /\ CrossesDeploy
         \/ PushStep /\ push.pc = "reclaim" /\ Export({"mlflow"}, push.source) /\ CrossesDeploy
         \/ DeployStep /\ deploy.pc = "build" /\ Export(Services, deploy.source) /\ CrossesPush
BY DEF Next, vars, Edit, StartPush, PushStep, Reclaim, PushFails, Restart, ScaleUp,
       StartDeploy, DeployStep, DeployFails, KindUpAlone, KindDown, StartSuite, SuiteStep, SuiteFails

LEMMA InitType == Init => TypeOK
<1> SUFFICES ASSUME Init PROVE TypeOK
  OBVIOUS
<1>1. \A first, last \in Envs, name \in {KIND_CLUSTER, TEST_CLUSTER} :
        Deployed(name, first, last) \in Clusters
  <2> SUFFICES ASSUME NEW first \in Envs, NEW last \in Envs, NEW name \in {KIND_CLUSTER, TEST_CLUSTER}
               PROVE  Deployed(name, first, last) \in Clusters
    OBVIOUS
  <2> DEFINE pod == [build |-> 0, env |-> first, chart |-> 0]
  <2>1. pod \in Pods
    BY DEF Pods, Builds
  <2>2. Deployed(name, first, last) =
          [name |-> name, node |-> 0, secret |-> last, chart |-> 0, volume |-> first, pods |-> {pod}]
    <3>1. Deployed(name, first, last) =
            [Empty(name) EXCEPT !.node = 0, !.secret = last, !.chart = 0, !.volume = first,
                                !.pods = {pod}]
      BY DEF Deployed
    <3> HIDE DEF pod
    <3> QED
      BY <3>1 DEF Empty
  <2> HIDE DEF pod
  <2> QED
    BY <2>1, <2>2 DEF Clusters, Builds
<1>2. cluster \in Clusters
  BY <1>1, EmptyIs DEF Init
<1>3. Unbuilt \in Images
  BY DEF Unbuilt, Images, Builds
<1>4. FirstEnv \in Envs /\ MaxEdits \in Nat /\ MaxRuns \in Nat
  BY BoundsAssumption
<1>5. checkout \in [source : Nat, env : Envs, chart : Nat] /\ tag \in Images
      /\ published \in [local : Images, remote : Images]
  BY <1>3, <1>4 DEF Init
<1>6. budget \in [edits : 0..MaxEdits, runs : 0..MaxRuns]
  BY <1>4 DEF Init
<1> QED
  BY <1>2, <1>5, <1>6 DEF Init, TypeOK, Builds, Pushing, Deploying, Session

\* Every step keeps every variable in its set.
LEMMA NextType == TypeOK /\ [Next]_vars => TypeOK'
<1> SUFFICES ASSUME TypeOK, [Next]_vars PROVE TypeOK'
  OBVIOUS
<1> USE BoundsAssumption
<1>1. CASE Edit
  BY <1>1 DEF Edit, TypeOK
<1>2. CASE BuildElsewhere
  <2>1. tag' \in Images
    BY <1>2, ExportIs DEF BuildElsewhere
  <2> QED
    BY <1>2, <2>1, CrossingIs DEF BuildElsewhere, TypeOK
<1>3. CASE StartPush
  BY <1>3 DEF StartPush, Pushing, TypeOK
<1>4. CASE PushStep
  <2>1. tag' \in Images
    <3>1. push.source \in Nat /\ Services \subseteq Services /\ {"mlflow"} \subseteq Services
      BY DEF TypeOK, Services
    <3> QED
      BY <1>4, <3>1, ExportIs DEF PushStep, Reclaim, TypeOK
  <2>2. published' \in [local : Images, remote : Images]
    BY <1>4 DEF PushStep, TypeOK
  <2>3. push' \in [pc : {"idle", "build", "inspect", "reclaim", "check", "tag", "push", "done",
                         "refused", "failed"}, source : Nat, crossed : BOOLEAN]
    <3>1. CASE push.pc = "inspect"
      <4>1. \/ push' = Pushing("failed", 0)
            \/ push' = [push EXCEPT !.pc = "reclaim", !.source = checkout.source]
        BY <1>4, <3>1 DEF PushStep
      <4>2. CASE push' = Pushing("failed", 0)
        BY <4>2 DEF Pushing
      <4>3. CASE push' = [push EXCEPT !.pc = "reclaim", !.source = checkout.source]
        BY <4>3 DEF TypeOK
      <4> QED
        BY <4>1, <4>2, <4>3
    <3>2. CASE push.pc # "inspect"
      BY <1>4, <3>2 DEF PushStep, PushMoves, Reclaim, TypeOK
    <3> QED
      BY <3>1, <3>2
  <2>4. deploy' = deploy \/ CrossesDeploy
    BY <1>4 DEF PushStep
  <2> QED
    BY <1>4, <2>1, <2>2, <2>3, <2>4, CrossingIs DEF PushStep, TypeOK
<1>5. CASE PushFails
  BY <1>5 DEF PushFails, Pushing, TypeOK
<1>6. CASE \E p \in cluster.pods : Restart(p)
  BY <1>6, RestartRefreshes DEF Restart, Refreshed, TypeOK
<1>7. CASE ScaleUp
  <2>1. Refreshed
    BY <1>7, ScaleUpRefreshes DEF TypeOK
  <2> QED
    BY <1>7, <2>1 DEF ScaleUp, Refreshed, TypeOK
<1>8. CASE StartDeploy
  BY <1>8 DEF StartDeploy, Deploying, TypeOK
<1>9. CASE DeployStep
  <2>1. tag' \in Images
    <3>1. deploy.source \in Nat
      BY DEF TypeOK
    <3> QED
      BY <1>9, <3>1, ExportIs DEF DeployStep, TypeOK
  <2>2. deploy' \in [pc : {"idle", "kind-up", "build", "load", "secret", "helm", "wait", "done",
                           "failed"}, source : Nat, rolled : BOOLEAN, crossed : BOOLEAN]
    <3>1. CASE deploy.pc = "kind-up"
      BY <1>9, <3>1 DEF DeployStep, TypeOK
    <3>2. CASE deploy.pc = "helm"
      BY <1>9, <3>2 DEF DeployStep, TypeOK
    <3>3. CASE deploy.pc \in {"build", "load", "secret"}
      BY <1>9, <3>3 DEF DeployStep, DeployMoves, TypeOK
    <3>4. CASE deploy.pc = "wait"
      <4>1. deploy' = Deploying("done")
        BY <1>9, <3>4 DEF DeployStep
      <4> QED
        BY <4>1 DEF Deploying
    <3> QED
      BY <1>9, <3>1, <3>2, <3>3, <3>4 DEF DeployStep
  <2>3. push' = push \/ CrossesPush
    BY <1>9 DEF DeployStep
  <2>4. cluster' \in Clusters
    <3>1. CASE deploy.pc \in {"build", "wait"}
      BY <1>9, <3>1 DEF DeployStep, TypeOK
    <3>2. CASE deploy.pc = "kind-up"
      BY <1>9, <3>2, EmptyIs DEF DeployStep, KindUp, TypeOK
    <3>3. CASE deploy.pc = "load"
      BY <1>9, <3>3 DEF DeployStep, KindLoad, TypeOK, Clusters, Images
    <3>4. CASE deploy.pc = "secret"
      BY <1>9, <3>4 DEF DeployStep, TypeOK, Clusters
    <3>5. CASE deploy.pc = "helm"
      <4>1. cluster' = HelmUpgrade(cluster, checkout.chart)
        BY <1>9, <3>5 DEF DeployStep
      <4>2. CASE cluster.chart = checkout.chart
        BY <4>1, <4>2 DEF HelmUpgrade, TypeOK
      <4>3. CASE cluster.chart # checkout.chart
        BY <4>1, <4>3, HelmIs DEF TypeOK
      <4> QED
        BY <4>2, <4>3
    <3> QED
      BY <1>9, <3>1, <3>2, <3>3, <3>4, <3>5 DEF DeployStep
  <2> QED
    BY <1>9, <2>1, <2>2, <2>3, <2>4, CrossingIs DEF DeployStep, TypeOK
<1>10. CASE DeployFails
  BY <1>10 DEF DeployFails, Deploying, TypeOK
<1>11. CASE KindUpAlone
  BY <1>11, EmptyIs DEF KindUpAlone, KindUp, TypeOK
<1>12. CASE KindDown
  BY <1>12, EmptyIs DEF KindDown, TypeOK
<1>13. CASE StartSuite
  BY <1>13 DEF StartSuite, Session, TypeOK, Builds
<1>14. CASE SuiteStep
  <2>1. suite' \in [pc : {"idle", "create", "load", "secret", "install", "wait", "tests", "destroy",
                          "ended"}, keep : BOOLEAN, build : Builds, env : Envs \cup {None},
                    chart : Builds]
    <3>1. tag.build \in Builds /\ checkout.env \in Envs /\ checkout.chart \in Builds
      BY DEF TypeOK, Images, Builds
    <3>2. CASE suite.pc = "load"
      <4>1. suite' = [suite EXCEPT !.pc = "secret", !.build = tag.build]
        BY <1>14, <3>2 DEF SuiteStep
      <4> QED
        BY <3>1, <4>1 DEF TypeOK
    <3>3. CASE suite.pc = "secret"
      BY <1>14, <3>1, <3>3 DEF SuiteStep, TypeOK
    <3>4. CASE suite.pc = "install"
      BY <1>14, <3>1, <3>4 DEF SuiteStep, TypeOK
    <3>5. CASE suite.pc \in {"create", "wait", "tests", "destroy"}
      <4>1. \/ \E pc \in {"load", "tests", "destroy"} : suite' = [suite EXCEPT !.pc = pc]
            \/ \E keep \in BOOLEAN : suite' = Session("ended", keep)
        BY <1>14, <3>5 DEF SuiteStep, SuiteMoves
      <4>2. ASSUME NEW keep \in BOOLEAN
            PROVE  Session("ended", keep) \in
                     [pc : {"idle", "create", "load", "secret", "install", "wait", "tests",
                            "destroy", "ended"}, keep : BOOLEAN, build : Builds,
                      env : Envs \cup {None}, chart : Builds]
        BY DEF Session, Builds
      <4> QED
        BY <4>1, <4>2 DEF TypeOK
    <3> QED
      BY <1>14, <3>2, <3>3, <3>4, <3>5 DEF SuiteStep
  <2>2. cluster' \in Clusters
    <3>1. CASE suite.pc \in {"wait", "tests"}
      BY <1>14, <3>1 DEF SuiteStep, TypeOK
    <3>2. CASE suite.pc \in {"create", "destroy"}
      BY <1>14, <3>2, EmptyIs DEF SuiteStep, KindUp, TypeOK
    <3>3. CASE suite.pc = "load"
      BY <1>14, <3>3 DEF SuiteStep, KindLoad, TypeOK, Clusters, Images
    <3>4. CASE suite.pc = "secret"
      <4>1. DeleteNamespace(cluster) \in Clusters
        BY EmptyIs DEF DeleteNamespace, TypeOK, Clusters
      <4> QED
        BY <1>14, <3>4, <4>1 DEF SuiteStep, TypeOK, Clusters
    <3>5. CASE suite.pc = "install"
      <4>1. cluster' = HelmUpgrade(cluster, checkout.chart)
        BY <1>14, <3>5 DEF SuiteStep
      <4>2. CASE cluster.chart = checkout.chart
        BY <4>1, <4>2 DEF HelmUpgrade, TypeOK
      <4>3. CASE cluster.chart # checkout.chart
        BY <4>1, <4>3, HelmIs DEF TypeOK
      <4> QED
        BY <4>2, <4>3
    <3> QED
      BY <1>14, <3>1, <3>2, <3>3, <3>4, <3>5 DEF SuiteStep
  <2> QED
    BY <1>14, <2>1, <2>2 DEF SuiteStep, TypeOK
<1>15. CASE SuiteFails
  <2>1. DeleteNamespace(cluster) \in Clusters
    BY EmptyIs DEF DeleteNamespace, TypeOK, Clusters
  <2> QED
    BY <1>15, <2>1 DEF SuiteFails, Session, TypeOK, Builds
<1>16. CASE UNCHANGED vars
  BY <1>16 DEF vars, TypeOK
<1> QED
  BY <1>1, <1>2, <1>3, <1>4, <1>5, <1>6, <1>7, <1>8, <1>9, <1>10, <1>11, <1>12, <1>13,
     <1>14, <1>15, <1>16 DEF Next

-----------------------------------------------------------------------------
(* The parts of the invariant.                                             *)

LEMMA InitInv == Init => IInv
<1> SUFFICES ASSUME Init PROVE IInv
  OBVIOUS
<1>1. TypeOK
  BY InitType
<1>2. TagKnown
  BY DEF Init, TagKnown
<1>3. PushOwnsTag
  BY DEF Init, PushOwnsTag, Pushing
<1>4. SuiteOwnsCluster
  BY DEF Init, SuiteOwnsCluster, Session
<1>5. ChartsInOrder
  <2>1. CASE cluster = Empty("none")
    BY <2>1, EmptyIs DEF Init, ChartsInOrder, None
  <2>2. ASSUME NEW name, NEW first, NEW last, cluster = Deployed(name, first, last)
        PROVE  cluster.chart = 0 /\ \A p \in cluster.pods : p.chart = 0
    BY <2>2 DEF Deployed, Empty
  <2> QED
    BY <2>1, <2>2 DEF Init, ChartsInOrder
<1>6. DeployOwnsNode
  BY DEF Init, DeployOwnsNode, Deploying
<1>7. DeployOwnsTag
  BY DEF Init, DeployOwnsTag, Deploying
<1> QED
  BY <1>1, <1>2, <1>3, <1>4, <1>5, <1>6, <1>7 DEF IInv

LEMMA TagStep == TypeOK /\ TagKnown /\ [Next]_vars => TagKnown'
<1> SUFFICES ASSUME TypeOK, TagKnown, [Next]_vars PROVE TagKnown'
  OBVIOUS
<1>1. push.source \in Nat /\ deploy.source \in Nat /\ {"mlflow"} \subseteq Services
  BY DEF TypeOK, Services
<1>2. CASE tag' = tag
  BY <1>2 DEF TagKnown
<1>3. CASE tag' # tag
  BY <1>1, <1>3, ExportsAre, ExportIs DEF TagKnown, BuildElsewhere
<1> QED
  BY <1>2, <1>3

\* A push is undisturbed until another terminal builds.
LEMMA PushKept == TypeOK /\ PushOwnsTag /\ [Next]_vars => PushOwnsTag'
<1> SUFFICES ASSUME TypeOK, PushOwnsTag, [Next]_vars PROVE PushOwnsTag'
  OBVIOUS
<1>1. push.source \in Nat /\ checkout.source \in Nat /\ push.crossed \in BOOLEAN
  BY DEF TypeOK
<1>2. CASE Edit
  BY <1>1, <1>2 DEF Edit, PushOwnsTag, Mine, TypeOK
<1>3. ASSUME CrossesPush, UNCHANGED <<checkout, published>> PROVE PushOwnsTag'
  BY <1>1, <1>3, CrossingIs DEF PushOwnsTag, Mine
<1>4. CASE StartPush
  BY <1>1, <1>4 DEF StartPush, Pushing, PushOwnsTag, TypeOK
<1>5. CASE PushStep
  <2>1. checkout' = checkout
    BY <1>5 DEF PushStep
  <2>2. CASE push.pc \in {"build", "inspect"}
    <3>1. push'.pc \in {"inspect", "reclaim", "failed"} /\ push'.source <= checkout.source
      <4>1. \/ push' = [push EXCEPT !.pc = "inspect"]
            \/ push' = Pushing("failed", 0)
            \/ push' = [push EXCEPT !.pc = "reclaim", !.source = checkout.source]
        BY <1>5, <2>2 DEF PushStep, PushMoves
      <4> QED
        <5>1. CASE push' = [push EXCEPT !.pc = "inspect"]
          BY <5>1 DEF PushOwnsTag, TypeOK
        <5>2. CASE push' = Pushing("failed", 0)
          BY <1>1, <5>2 DEF Pushing
        <5>3. CASE push' = [push EXCEPT !.pc = "reclaim", !.source = checkout.source]
          BY <1>1, <5>3 DEF TypeOK
        <5> QED
          BY <4>1, <5>1, <5>2, <5>3
    <3> QED
      BY <2>1, <3>1 DEF PushOwnsTag
  <2>3. CASE push.pc = "reclaim"
    <3>1. push' = [push EXCEPT !.pc = "check"] /\ Export({"mlflow"}, push.source)
      BY <1>5, <2>3 DEF PushStep, Reclaim, PushMoves
    <3>2. tag'.service = "mlflow" /\ tag'.build >= push.source
      <4>1. {"mlflow"} \in SUBSET Services
        BY DEF Services
      <4>2. tag'.service \in {"mlflow"} /\ push.source <= tag'.build /\ tag'.build \in Nat
        BY <1>1, <3>1, <4>1, ExportIs
      <4> QED
        BY <1>1, <4>2
    <3>3. push'.pc = "check" /\ push'.source = push.source
      BY <3>1 DEF TypeOK
    <3> QED
      BY <1>1, <2>1, <3>2, <3>3 DEF PushOwnsTag, Mine
  <2>4. CASE push.pc = "check"
    <3>1. /\ push'.pc = (IF tag.service = "mlflow" THEN "tag" ELSE "refused") /\ tag' = tag
          /\ push'.source = push.source /\ push'.crossed = push.crossed
      BY <1>5, <2>4 DEF PushStep, PushMoves, TypeOK
    <3> QED
      BY <2>1, <2>4, <3>1 DEF PushOwnsTag, Mine
  <2>5. CASE push.pc = "tag"
    <3>1. /\ push'.pc = "push" /\ published'.local = tag
          /\ push'.source = push.source /\ push'.crossed = push.crossed
      BY <1>5, <2>5 DEF PushStep, PushMoves, TypeOK
    <3> QED
      BY <2>1, <2>5, <3>1 DEF PushOwnsTag, Mine
  <2>6. CASE push.pc = "push"
    <3>1. /\ push'.pc = "done" /\ published'.remote = published.local
          /\ push'.source = push.source /\ push'.crossed = push.crossed
      BY <1>5, <2>6 DEF PushStep, PushMoves, TypeOK
    <3> QED
      BY <2>1, <2>6, <3>1 DEF PushOwnsTag, Mine
  <2> QED
    BY <1>5, <2>2, <2>3, <2>4, <2>5, <2>6 DEF PushStep
<1>6. CASE PushFails
  BY <1>1, <1>6 DEF PushFails, Pushing, PushOwnsTag, TypeOK
<1>7. CASE DeployStep
  <2>1. CASE deploy.pc = "build"
    BY <1>3, <1>7, <2>1 DEF DeployStep
  <2>2. CASE deploy.pc # "build"
    BY <1>7, <2>2 DEF DeployStep, PushOwnsTag, Mine
  <2> QED
    BY <2>1, <2>2
<1>8. CASE UNCHANGED <<checkout, tag, published, push>>
  BY <1>8 DEF PushOwnsTag, Mine
<1> QED
  BY <1>2, <1>3, <1>4, <1>5, <1>6, <1>7, <1>8
  DEF Next, vars, BuildElsewhere, Restart, ScaleUp, StartDeploy, DeployFails, KindUpAlone, KindDown, StartSuite,
      SuiteStep, SuiteFails

\* The charts of a cluster, through what renews its pods, and through an upgrade.
LEMMA ChartsKept == TypeOK /\ ChartsInOrder /\ [Next]_vars => ChartsInOrder'
<1> SUFFICES ASSUME TypeOK, ChartsInOrder, [Next]_vars PROVE ChartsInOrder'
  OBVIOUS
<1>1. checkout.chart \in Nat /\ cluster \in Clusters
  BY DEF TypeOK
<1>2. checkout'.chart \in Nat /\ checkout'.chart >= checkout.chart
  <2>1. CASE Edit
    BY <1>1, <2>1 DEF Edit, TypeOK
  <2>2. CASE checkout' = checkout
    BY <1>1, <2>2
  <2> QED
    BY <2>1, <2>2 DEF Next, vars, BuildElsewhere, StartPush, PushStep, PushFails, Restart, ScaleUp,
      StartDeploy, DeployStep, DeployFails, KindUpAlone, KindDown, StartSuite, SuiteStep, SuiteFails
<1>3. ASSUME cluster'.chart = cluster.chart, cluster'.pods \subseteq cluster.pods
      PROVE  ChartsInOrder'
  BY <1>1, <1>2, <1>3 DEF ChartsInOrder, Clusters, Pods, Builds, None
<1>4. ASSUME cluster'.chart = None, cluster'.pods = {} PROVE ChartsInOrder'
  BY <1>2, <1>4 DEF ChartsInOrder, None
<1>5. ASSUME Refreshed PROVE ChartsInOrder'
  <2>1. \A q \in cluster'.pods : q.chart = cluster.chart \/ \E p \in cluster.pods : q.chart = p.chart
    BY <1>5 DEF Refreshed
  <2>2. cluster'.chart = cluster.chart
    BY <1>5 DEF Refreshed
  <2> QED
    BY <1>1, <1>2, <2>1, <2>2 DEF ChartsInOrder, Clusters, Pods, Builds, None
<1>6. ASSUME cluster' = HelmUpgrade(cluster, checkout.chart) PROVE ChartsInOrder'
  <2>1. CASE cluster.chart = checkout.chart
    BY <1>3, <1>6, <2>1 DEF HelmUpgrade
  <2>2. CASE cluster.chart # checkout.chart
    <3>1. /\ cluster'.chart = checkout.chart
          /\ \A q \in cluster'.pods : q \in cluster.pods \/ q.chart = checkout.chart
      BY <1>1, <1>6, <2>2, HelmIs
    <3> QED
      BY <1>1, <1>2, <3>1 DEF ChartsInOrder, Clusters, Pods, Builds, None
  <2> QED
    BY <2>1, <2>2
<1>7. CASE (\E p \in cluster.pods : Restart(p)) \/ ScaleUp
  BY <1>1, <1>5, <1>7, RestartRefreshes, ScaleUpRefreshes
<1>8. CASE DeployStep
  <2>1. CASE deploy.pc \in {"build", "wait"}
    BY <1>3, <1>8, <2>1 DEF DeployStep
  <2>2. CASE deploy.pc = "kind-up"
    BY <1>3, <1>4, <1>8, <2>2, EmptyIs DEF DeployStep, KindUp
  <2>3. CASE deploy.pc \in {"load", "secret"}
    BY <1>1, <1>3, <1>8, <2>3 DEF DeployStep, KindLoad, Clusters
  <2>4. CASE deploy.pc = "helm"
    BY <1>6, <1>8, <2>4 DEF DeployStep
  <2> QED
    BY <1>8, <2>1, <2>2, <2>3, <2>4 DEF DeployStep
<1>9. CASE KindUpAlone \/ KindDown
  BY <1>3, <1>4, <1>9, EmptyIs DEF KindUpAlone, KindUp, KindDown
<1>10. DeleteNamespace(cluster) \in Clusters
       /\ DeleteNamespace(cluster).chart = None /\ DeleteNamespace(cluster).pods = {}
  BY <1>1, EmptyIs DEF DeleteNamespace, Clusters
<1>11. CASE SuiteStep
  <2>1. CASE suite.pc \in {"wait", "tests"}
    BY <1>3, <1>11, <2>1 DEF SuiteStep
  <2>2. CASE suite.pc \in {"create", "destroy"}
    BY <1>3, <1>4, <1>11, <2>2, EmptyIs DEF SuiteStep, KindUp
  <2>3. CASE suite.pc = "load"
    BY <1>1, <1>3, <1>11, <2>3 DEF SuiteStep, KindLoad, Clusters
  <2>4. CASE suite.pc = "secret"
    <3>1. cluster' = [DeleteNamespace(cluster) EXCEPT !.secret = checkout.env]
      BY <1>11, <2>4 DEF SuiteStep
    <3> QED
      BY <1>4, <1>10, <3>1 DEF Clusters
  <2>5. CASE suite.pc = "install"
    BY <1>6, <1>11, <2>5 DEF SuiteStep
  <2> QED
    BY <1>11, <2>1, <2>2, <2>3, <2>4, <2>5 DEF SuiteStep
<1>12. CASE SuiteFails
  BY <1>3, <1>4, <1>10, <1>12 DEF SuiteFails
<1>13. CASE UNCHANGED cluster
  BY <1>3, <1>13
<1> QED
  BY <1>7, <1>8, <1>9, <1>11, <1>12, <1>13
  DEF Next, vars, Edit, BuildElsewhere, StartPush, PushStep, PushFails, StartDeploy, DeployFails,
      StartSuite

\* A session's cluster is its own until its teardown: every other command that
\* changes a cluster changes the operator's, or finds the host ports free.
LEMMA SuiteKept == TypeOK /\ TagKnown /\ SuiteOwnsCluster /\ [Next]_vars => SuiteOwnsCluster'
<1> SUFFICES ASSUME TypeOK, TagKnown, SuiteOwnsCluster, [Next]_vars PROVE SuiteOwnsCluster'
  OBVIOUS
<1>1. cluster \in Clusters /\ checkout.env \in Envs /\ checkout.chart \in Nat /\ tag \in Images
  BY DEF TypeOK
<1>2. KIND_CLUSTER # TEST_CLUSTER /\ TEST_CLUSTER # "none"
  BY DEF KIND_CLUSTER, TEST_CLUSTER
<1>3. CASE (\E p \in cluster.pods : Restart(p)) \/ ScaleUp
  <2>1. Refreshed /\ UNCHANGED suite
    BY <1>1, <1>3, RestartRefreshes, ScaleUpRefreshes DEF Restart, ScaleUp
  <2>2. CASE suite.pc \in {"wait", "tests"}
    <3> DEFINE pod == [build |-> suite.build, env |-> suite.env, chart |-> suite.chart]
    <3>1. cluster.pods = {pod} /\ cluster.node = suite.build /\ cluster.secret = suite.env
          /\ cluster.chart = suite.chart
      BY <2>2 DEF SuiteOwnsCluster
    <3>2. pod.chart = suite.chart
      OBVIOUS
    <3>3. \A q \in cluster'.pods : q = pod
      <4>1. SUFFICES ASSUME NEW q \in cluster'.pods, q \notin cluster.pods PROVE q = pod
        BY <3>1
      <4>2. PICK chart \in {cluster.chart} \cup {p.chart : p \in cluster.pods} :
              q = [build |-> cluster.node, env |-> cluster.secret, chart |-> chart]
        BY <2>1, <4>1 DEF Refreshed
      <4>3. chart = suite.chart
        BY <3>1, <3>2, <4>2
      <4> QED
        BY <3>1, <4>2, <4>3
    <3>4. cluster'.pods = {pod}
      BY <2>1, <3>3 DEF Refreshed
    <3> QED
      BY <2>1, <2>2, <3>4 DEF SuiteOwnsCluster, Refreshed
  <2>3. CASE suite.pc \notin {"wait", "tests"}
    BY <2>1, <2>3 DEF SuiteOwnsCluster, Refreshed
  <2> QED
    BY <2>2, <2>3
<1>4. ASSUME UNCHANGED suite, cluster.name # TEST_CLUSTER PROVE SuiteOwnsCluster'
  BY <1>4 DEF SuiteOwnsCluster
<1>5. CASE DeployStep
  <2>1. UNCHANGED suite
    BY <1>5 DEF DeployStep
  <2>2. CASE deploy.pc \in {"build", "wait"}
    BY <1>5, <2>1, <2>2 DEF DeployStep, SuiteOwnsCluster
  <2>3. CASE deploy.pc \in {"kind-up", "load", "secret", "helm"}
    <3>1. cluster.name # TEST_CLUSTER
      BY <1>2, <1>5, <2>3 DEF DeployStep, KindUp, KindLoad
    <3> QED
      BY <1>4, <2>1, <3>1
  <2> QED
    BY <1>5, <2>2, <2>3 DEF DeployStep
<1>6. CASE KindUpAlone \/ KindDown
  BY <1>2, <1>4, <1>6 DEF KindUpAlone, KindDown
<1>7. CASE StartSuite
  <2>1. suite'.pc \in {"ended", "create"}
    BY <1>7 DEF StartSuite, Session
  <2> QED
    BY <2>1 DEF SuiteOwnsCluster
<1>8. CASE SuiteFails
  <2>1. suite'.pc = "ended"
    BY <1>8 DEF SuiteFails, Session
  <2> QED
    BY <2>1 DEF SuiteOwnsCluster
<1>9. CASE SuiteStep
  <2>1. CASE suite.pc = "create"
    <3>1. suite'.pc = "load" /\ cluster'.name = TEST_CLUSTER
      BY <1>9, <2>1, EmptyIs DEF SuiteStep, SuiteMoves, KindUp, TypeOK
    <3> QED
      BY <3>1 DEF SuiteOwnsCluster
  <2>2. CASE suite.pc = "load"
    <3>1. suite'.pc = "secret" /\ suite'.build = tag.build
      BY <1>9, <2>2 DEF SuiteStep, TypeOK
    <3>2. cluster'.name = TEST_CLUSTER /\ cluster'.node = tag.build /\ tag.build \in Nat
      BY <1>1, <1>9, <2>2 DEF SuiteStep, KindLoad, TagKnown, Clusters
    <3> QED
      BY <3>1, <3>2 DEF SuiteOwnsCluster
  <2>3. CASE suite.pc = "secret"
    <3>1. suite'.pc = "install" /\ suite'.env = checkout.env /\ suite'.build = suite.build
      BY <1>9, <2>3 DEF SuiteStep, TypeOK
    <3>2. DeleteNamespace(cluster) = [Empty(cluster.name) EXCEPT !.node = cluster.node]
      BY DEF DeleteNamespace
    <3>3. cluster.name \in {"none", KIND_CLUSTER, TEST_CLUSTER} /\ cluster.node \in Builds
      BY <1>1 DEF Clusters
    <3>4. /\ DeleteNamespace(cluster) \in Clusters
          /\ DeleteNamespace(cluster).name = cluster.name
          /\ DeleteNamespace(cluster).node = cluster.node
          /\ DeleteNamespace(cluster).chart = None
          /\ DeleteNamespace(cluster).volume = None
          /\ DeleteNamespace(cluster).pods = {}
      BY <3>2, <3>3, EmptyIs DEF Clusters
    <3>5. cluster' = [DeleteNamespace(cluster) EXCEPT !.secret = checkout.env]
      BY <1>9, <2>3 DEF SuiteStep
    <3>6. /\ cluster'.name = cluster.name /\ cluster'.node = cluster.node
          /\ cluster'.secret = checkout.env
          /\ cluster'.chart = None /\ cluster'.volume = None /\ cluster'.pods = {}
      BY <3>4, <3>5 DEF Clusters
    <3> QED
      BY <1>1, <2>3, <3>1, <3>6 DEF SuiteOwnsCluster
  <2>4. CASE suite.pc = "install"
    <3>1. /\ suite'.pc = "wait" /\ suite'.chart = checkout.chart
          /\ suite'.build = suite.build /\ suite'.env = suite.env
      BY <1>9, <2>4 DEF SuiteStep, TypeOK
    <3>2. /\ cluster.name = TEST_CLUSTER /\ cluster.chart = None /\ cluster.volume = None
          /\ cluster.pods = {}
          /\ suite.build \in Nat /\ cluster.node = suite.build
          /\ suite.env \in Envs /\ cluster.secret = suite.env
      BY <2>4 DEF SuiteOwnsCluster
    <3>3. cluster' = HelmUpgrade(cluster, checkout.chart) /\ cluster.chart # checkout.chart
      BY <1>1, <1>9, <2>4, <3>2 DEF SuiteStep, None
    <3>4. /\ cluster'.name = TEST_CLUSTER /\ cluster'.node = suite.build
          /\ cluster'.secret = suite.env /\ cluster'.chart = checkout.chart
          /\ cluster'.volume = suite.env /\ cluster'.pods # {}
          /\ \A q \in cluster'.pods :
               q = [build |-> suite.build, env |-> suite.env, chart |-> checkout.chart]
      BY <1>1, <3>2, <3>3, HelmIs
    <3>5. cluster'.pods = {[build |-> suite.build, env |-> suite.env, chart |-> checkout.chart]}
      BY <3>4
    <3> QED
      BY <1>1, <3>1, <3>2, <3>4, <3>5 DEF SuiteOwnsCluster
  <2>5. CASE suite.pc = "wait"
    <3>1. /\ suite'.pc = "tests" /\ suite'.chart = suite.chart
          /\ suite'.build = suite.build /\ suite'.env = suite.env /\ cluster' = cluster
      BY <1>9, <2>5 DEF SuiteStep, SuiteMoves, TypeOK
    <3> QED
      BY <2>5, <3>1 DEF SuiteOwnsCluster
  <2>6. CASE suite.pc = "tests"
    <3>1. /\ cluster' = cluster
          /\ suite'.pc = "ended" \/ suite'.pc = "destroy"
      BY <1>9, <2>6 DEF SuiteStep, SuiteMoves, Session, TypeOK
    <3> QED
      BY <2>6, <3>1 DEF SuiteOwnsCluster
  <2>7. CASE suite.pc = "destroy"
    <3>1. suite'.pc = "ended"
      BY <1>9, <2>7 DEF SuiteStep, Session
    <3> QED
      BY <3>1 DEF SuiteOwnsCluster
  <2> QED
    BY <1>9, <2>1, <2>2, <2>3, <2>4, <2>5, <2>6, <2>7 DEF SuiteStep
<1>10. CASE UNCHANGED <<cluster, suite>>
  BY <1>10 DEF SuiteOwnsCluster
<1> QED
  BY <1>3, <1>5, <1>6, <1>7, <1>8, <1>9, <1>10
  DEF Next, vars, Edit, BuildElsewhere, StartPush, PushStep, PushFails, StartDeploy, DeployFails

\* Later builds do not take the tag back to an earlier version of the checkout.
LEMMA DeployTagKept == TypeOK /\ DeployOwnsTag /\ [Next]_vars => DeployOwnsTag'
<1> SUFFICES ASSUME TypeOK, DeployOwnsTag, [Next]_vars PROVE DeployOwnsTag'
  OBVIOUS
<1>1. checkout.source \in Nat /\ deploy.source \in Nat /\ push.source \in Nat
      /\ {"mlflow"} \subseteq Services
  BY DEF TypeOK, Services
<1>2. CASE Edit
  BY <1>1, <1>2 DEF Edit, DeployOwnsTag, TypeOK
<1>3. ASSUME CrossesDeploy, checkout' = checkout,
             NEW services \in SUBSET Services, NEW from \in Nat, Export(services, from)
      PROVE  DeployOwnsTag'
  BY <1>1, <1>3, ExportIs, CrossingIs DEF DeployOwnsTag
<1>4. CASE PushStep
  <2>1. CASE push.pc \in {"build", "reclaim"}
    BY <1>1, <1>3, <1>4, <2>1 DEF PushStep, Reclaim
  <2>2. CASE push.pc \notin {"build", "reclaim"}
    BY <1>4, <2>2 DEF PushStep, DeployOwnsTag
  <2> QED
    BY <2>1, <2>2
<1>5. CASE StartDeploy \/ DeployFails
  <2>1. deploy'.pc \in {"kind-up", "failed"} /\ deploy'.source = 0 /\ checkout' = checkout
    BY <1>5 DEF StartDeploy, DeployFails, Deploying
  <2> QED
    BY <1>1, <2>1 DEF DeployOwnsTag
<1>6. CASE DeployStep
  <2>1. CASE deploy.pc = "build"
    <3>1. Export(Services, deploy.source) /\ deploy' = [deploy EXCEPT !.pc = "load"]
          /\ checkout' = checkout
      BY <1>6, <2>1 DEF DeployStep, DeployMoves
    <3>2. deploy'.source = deploy.source
      BY <3>1 DEF TypeOK
    <3> QED
      BY <1>1, <3>1, <3>2, ExportIs DEF DeployOwnsTag
  <2>2. CASE deploy.pc # "build"
    <3>1. deploy'.pc # "load" /\ checkout' = checkout
          /\ deploy'.source \in {0, deploy.source, checkout.source}
      <4>1. CASE deploy.pc = "wait"
        BY <1>6, <4>1 DEF DeployStep, Deploying
      <4>2. CASE deploy.pc # "wait"
        BY <1>6, <2>2, <4>2 DEF DeployStep, DeployMoves, TypeOK
      <4> QED
        BY <4>1, <4>2
    <3> QED
      BY <1>1, <3>1 DEF DeployOwnsTag
  <2> QED
    BY <2>1, <2>2
<1>7. CASE UNCHANGED <<checkout, tag, deploy>>
  BY <1>7 DEF DeployOwnsTag
<1>8. CASE BuildElsewhere
  BY <1>3, <1>8 DEF BuildElsewhere
<1> QED
  BY <1>2, <1>4, <1>5, <1>6, <1>7, <1>8
  DEF Next, vars, StartPush, PushFails, Restart, ScaleUp, KindUpAlone, KindDown, StartSuite,
      SuiteStep, SuiteFails

\* What kind-deploy loaded stays on the node, and what it rolled out runs it.
LEMMA DeployNodeKept ==
  TypeOK /\ TagKnown /\ SuiteOwnsCluster /\ ChartsInOrder /\ DeployOwnsTag /\ DeployOwnsNode
    /\ [Next]_vars => DeployOwnsNode'
<1> SUFFICES ASSUME TypeOK, TagKnown, SuiteOwnsCluster, ChartsInOrder, DeployOwnsTag,
                    DeployOwnsNode, [Next]_vars
             PROVE  DeployOwnsNode'
  OBVIOUS
<1>1. cluster \in Clusters /\ checkout.chart \in Nat /\ tag \in Images /\ deploy.source \in Nat
  BY DEF TypeOK
<1>2. KIND_CLUSTER # TEST_CLUSTER /\ KIND_CLUSTER # "none"
  BY DEF KIND_CLUSTER, TEST_CLUSTER
<1>3. ASSUME cluster'.name # KIND_CLUSTER PROVE DeployOwnsNode'
  BY <1>3 DEF DeployOwnsNode
<1>4. CASE (\E p \in cluster.pods : Restart(p)) \/ ScaleUp
  <2>1. Refreshed /\ UNCHANGED deploy
    BY <1>1, <1>4, RestartRefreshes, ScaleUpRefreshes DEF Restart, ScaleUp
  <2>2. cluster'.node = cluster.node /\ cluster'.name = cluster.name /\ cluster'.chart = cluster.chart
    BY <2>1 DEF Refreshed
  <2>3. \A q \in cluster'.pods : q \in cluster.pods \/ q.build = cluster.node
    BY <2>1 DEF Refreshed
  <2>4. \A q \in Current(cluster)' : q \in Current(cluster) \/ q.build = cluster.node
    BY <2>2, <2>3 DEF Current
  <2> QED
    BY <2>1, <2>2, <2>3, <2>4 DEF DeployOwnsNode, Loaded
<1>5. CASE StartDeploy \/ DeployFails
  <2>1. deploy'.pc \in {"kind-up", "failed"}
    BY <1>5 DEF StartDeploy, DeployFails, Deploying
  <2> QED
    BY <2>1 DEF DeployOwnsNode
<1>6. CASE DeployStep
  <2>1. CASE deploy.pc \in {"kind-up", "build", "wait"}
    <3>1. deploy'.pc \in {"build", "load", "done"}
      <4>1. CASE deploy.pc = "wait"
        BY <1>6, <4>1 DEF DeployStep, Deploying
      <4>2. CASE deploy.pc # "wait"
        BY <1>6, <2>1, <4>2 DEF DeployStep, DeployMoves, TypeOK
      <4> QED
        BY <4>1, <4>2
    <3> QED
      BY <3>1 DEF DeployOwnsNode
  <2>2. CASE deploy.pc = "load"
    <3>1. deploy'.pc = "secret" /\ deploy'.source = deploy.source /\ deploy'.crossed = deploy.crossed
      BY <1>6, <2>2 DEF DeployStep, DeployMoves, TypeOK
    <3>2. cluster'.node = tag.build
      BY <1>1, <1>6, <2>2 DEF DeployStep, KindLoad, Clusters
    <3> QED
      BY <2>2, <3>1, <3>2 DEF DeployOwnsTag, DeployOwnsNode, Loaded, None
  <2>3. CASE deploy.pc = "secret"
    <3>1. deploy'.pc = "helm" /\ deploy'.source = deploy.source /\ deploy'.crossed = deploy.crossed
      BY <1>6, <2>3 DEF DeployStep, DeployMoves, TypeOK
    <3>2. cluster'.name = cluster.name /\ cluster'.node = cluster.node /\ cluster'.pods = cluster.pods
      BY <1>1, <1>6, <2>3 DEF DeployStep, Clusters
    <3> QED
      BY <2>3, <3>1, <3>2 DEF DeployOwnsNode, Loaded
  <2>4. CASE deploy.pc = "helm"
    <3>1. /\ deploy'.pc = "wait" /\ deploy'.source = deploy.source /\ deploy'.crossed = deploy.crossed
          /\ deploy'.rolled = (checkout.chart # cluster.chart)
          /\ cluster.name = KIND_CLUSTER /\ cluster' = HelmUpgrade(cluster, checkout.chart)
      BY <1>6, <2>4 DEF DeployStep, TypeOK
    <3>2. CASE cluster.chart = checkout.chart
      BY <2>4, <3>1, <3>2 DEF HelmUpgrade, DeployOwnsNode, Loaded
    <3>3. CASE cluster.chart # checkout.chart
      <4>1. /\ cluster'.node = cluster.node /\ cluster'.chart = checkout.chart
            /\ \A q \in cluster'.pods :
                 q \in cluster.pods
                 \/ q = [build |-> cluster.node, env |-> cluster.secret, chart |-> checkout.chart]
        BY <1>1, <3>1, <3>3, HelmIs
      <4>2. \A q \in cluster'.pods : q \in cluster.pods \/ q.build = cluster.node
        BY <4>1
      <4>3. \A q \in cluster.pods : q.chart # checkout.chart
        BY <1>1, <3>3 DEF ChartsInOrder, Clusters, Pods, Builds, None
      <4>4. \A q \in Current(cluster)' : q.build = cluster.node
        BY <4>1, <4>2, <4>3 DEF Current
      <4> QED
        BY <2>4, <3>1, <4>1, <4>2, <4>4 DEF DeployOwnsNode, Loaded
    <3> QED
      BY <3>2, <3>3
  <2> QED
    BY <1>6, <2>1, <2>2, <2>3, <2>4 DEF DeployStep
<1>7. CASE KindUpAlone
  <2>1. cluster' = Empty(KIND_CLUSTER) /\ UNCHANGED deploy
    BY <1>2, <1>7 DEF KindUpAlone, KindUp
  <2>2. cluster'.node = None /\ cluster'.pods = {}
    BY <2>1, EmptyIs
  <2> QED
    BY <1>7, <2>1, <2>2 DEF DeployOwnsNode, Loaded, Current
<1>8. CASE KindDown
  BY <1>2, <1>3, <1>8, EmptyIs DEF KindDown
<1>9. ASSUME cluster.name = TEST_CLUSTER
       PROVE  DeleteNamespace(cluster).name = TEST_CLUSTER /\ DeleteNamespace(cluster) \in Clusters
  BY <1>1, <1>9, EmptyIs DEF DeleteNamespace, Clusters
<1>10. CASE SuiteStep
  <2>1. UNCHANGED deploy
    BY <1>10 DEF SuiteStep
  <2>2. CASE suite.pc \in {"wait", "tests"}
    <3>1. UNCHANGED cluster
      BY <1>10, <2>2 DEF SuiteStep
    <3> QED
      BY <2>1, <3>1 DEF DeployOwnsNode, Loaded, Current
  <2>3. CASE suite.pc \in {"create", "destroy"}
    BY <1>2, <1>3, <1>10, <2>3, EmptyIs DEF SuiteStep, KindUp
  <2>4. CASE suite.pc = "load"
    BY <1>1, <1>2, <1>3, <1>10, <2>4 DEF SuiteStep, KindLoad, Clusters
  <2>5. CASE suite.pc \in {"secret", "install"}
    <3>1. cluster.name = TEST_CLUSTER
      BY <2>5 DEF SuiteOwnsCluster
    <3>2. CASE suite.pc = "secret"
      <4>1. cluster' = [DeleteNamespace(cluster) EXCEPT !.secret = checkout.env]
        BY <1>10, <3>2 DEF SuiteStep
      <4>2. cluster'.name = TEST_CLUSTER
        BY <1>9, <3>1, <4>1 DEF Clusters
      <4> QED
        BY <1>2, <1>3, <4>2
    <3>3. CASE suite.pc = "install"
      <4>1. cluster' = HelmUpgrade(cluster, checkout.chart) /\ cluster.chart # checkout.chart
        BY <1>1, <1>10, <3>3 DEF SuiteStep, SuiteOwnsCluster, None
      <4> QED
        BY <1>1, <1>2, <1>3, <3>1, <4>1, HelmIs
    <3> QED
      BY <2>5, <3>2, <3>3
  <2> QED
    BY <1>10, <2>2, <2>3, <2>4, <2>5 DEF SuiteStep
<1>11. CASE SuiteFails
  <2>1. CASE UNCHANGED cluster
    BY <1>11, <2>1 DEF SuiteFails, DeployOwnsNode, Loaded, Current
  <2>2. CASE suite.pc = "secret" /\ cluster' = DeleteNamespace(cluster)
    BY <1>2, <1>3, <1>9, <2>2 DEF SuiteOwnsCluster
  <2> QED
    BY <1>11, <2>1, <2>2 DEF SuiteFails
<1>12. CASE UNCHANGED <<cluster, deploy>>
  BY <1>12 DEF DeployOwnsNode, Loaded, Current
<1>13. ASSUME CrossesDeploy, UNCHANGED cluster PROVE DeployOwnsNode'
  BY <1>1, <1>13, CrossingIs DEF DeployOwnsNode, Loaded, Current
<1> QED
  BY <1>4, <1>5, <1>6, <1>7, <1>8, <1>10, <1>11, <1>12, <1>13
  DEF Next, vars, Edit, BuildElsewhere, StartPush, PushStep, PushFails, StartSuite

-----------------------------------------------------------------------------
(* The theorems.                                                           *)

\* Every step of every command, and of the cluster by itself, keeps IInv.
LEMMA NextInv == IInv /\ [Next]_vars => IInv'
BY NextType, TagStep, PushKept, SuiteKept, ChartsKept, DeployTagKept, DeployNodeKept DEF IInv

\* What each command holds of the tag, the node and the cluster it is working
\* on stays true whatever the other two and the cluster do meanwhile.
THEOREM Invariance == Spec => []IInv
<1>1. Init => IInv
  BY InitInv
<1>2. IInv /\ [Next]_vars => IInv'
  BY NextInv
<1> QED
  BY <1>1, <1>2, PTL DEF Spec

\* Every variable stays in its set.
THEOREM TypeCorrect == Spec => []TypeOK
<1>1. IInv => TypeOK
  BY DEF IInv
<1> QED
  BY <1>1, Invariance, PTL

\* The cluster tier judges what its session took, although the cluster may be
\* an earlier session's and other terminals build, deploy and edit meanwhile.
THEOREM SuiteIsAlone == Spec => []SuiteSeesItsOwn
<1>1. IInv => SuiteSeesItsOwn
  BY DEF IInv, SuiteOwnsCluster, SuiteSeesItsOwn
<1> QED
  BY <1>1, Invariance, PTL

\* An uncrossed push publishes MLflow's variant of its checkout.
THEOREM PushIsRight == Spec => []PushPublishesMlflow
<1>1. IInv => PushPublishesMlflow
  BY DEF IInv, PushOwnsTag, Mine, PushPublishesMlflow
<1> QED
  BY <1>1, Invariance, PTL

\* A kind-deploy that returned zero has its build on the node, and in every pod
\* where the template changed.
THEOREM DeployIsRight == Spec => DeployRunsItsBuild
<1> DEFINE Kept ==
      deploy'.pc = "done" /\ deploy.pc # "done" /\ ~deploy.crossed =>
        /\ cluster.node >= deploy.source
        /\ deploy.rolled => \A p \in cluster.pods : p.build >= deploy.source
<1>1. ASSUME IInv, [Next]_vars PROVE [Kept]_vars
  <2> SUFFICES ASSUME deploy'.pc = "done", deploy.pc # "done", ~deploy.crossed PROVE Kept
    OBVIOUS
  <2>1. DeployStep
    <3>1. deploy' # deploy
      OBVIOUS
    <3>0. ~CrossesDeploy
      BY <1>1, CrossingIs DEF IInv
    <3>2. StartDeploy \/ DeployStep \/ DeployFails
      BY <1>1, <3>0, <3>1 DEF Next, vars, Edit, BuildElsewhere, StartPush, PushStep, PushFails,
        Restart, ScaleUp, KindUpAlone, KindDown, StartSuite, SuiteStep, SuiteFails
    <3>3. ~StartDeploy
      BY DEF StartDeploy, Deploying
    <3>4. ~DeployFails
      BY DEF DeployFails, Deploying
    <3> QED
      BY <3>2, <3>3, <3>4
  <2>2. deploy.pc = "wait" /\ cluster.name = KIND_CLUSTER /\ Ready(cluster)
    BY <1>1, <2>1 DEF DeployStep, DeployMoves, IInv, TypeOK
  <2>3. cluster.pods # {} /\ cluster.pods = Current(cluster) /\ \A p \in cluster.pods : p.build # None
    BY <2>2 DEF Ready, Available
  <2>4. cluster.node # None
    BY <1>1, <2>2, <2>3 DEF IInv, DeployOwnsNode
  <2>5. cluster.node >= deploy.source
    BY <1>1, <2>2, <2>4 DEF IInv, DeployOwnsNode, Loaded
  <2>6. deploy.rolled => \A p \in cluster.pods : p.build >= deploy.source
    BY <1>1, <2>2, <2>3 DEF IInv, DeployOwnsNode, Loaded
  <2> QED
    BY <2>5, <2>6
<1> QED
  BY <1>1, Invariance, PTL DEF Spec, DeployRunsItsBuild

-----------------------------------------------------------------------------
(* Recovery, as far as it is safety: what PodsRecover leaves to fairness is  *)
(* that the kubelet restarts what does not answer.                           *)

\* Once a release is installed, Postgres has been initialised.
Claimed == cluster.chart # None => cluster.volume # None

\* The Secret is what the claim was initialised with, and an image is loaded.
Cured(c)  == c.chart # None /\ c.node # None /\ c.secret = c.volume
Broken(c) == {p \in c.pods : ~Available(c, p)}

\* What a step makes of a cluster: nothing, an empty one, new containers of its
\* release, another image or Secret under the same containers, or a release.
LEMMA ClusterMoves ==
  ASSUME IInv, [Next]_vars
  PROVE  \/ UNCHANGED cluster
         \/ cluster'.chart = None
         \/ Refreshed
         \/ /\ cluster'.pods = cluster.pods
            /\ cluster'.volume = cluster.volume /\ cluster'.chart = cluster.chart
         \/ cluster.secret # None /\ cluster' = HelmUpgrade(cluster, checkout.chart)
<1> DEFINE Goal ==
  \/ UNCHANGED cluster
  \/ cluster'.chart = None
  \/ Refreshed
  \/ /\ cluster'.pods = cluster.pods
     /\ cluster'.volume = cluster.volume /\ cluster'.chart = cluster.chart
  \/ cluster.secret # None /\ cluster' = HelmUpgrade(cluster, checkout.chart)
<1>1. cluster \in Clusters
  BY DEF IInv, TypeOK
<1>2. CASE (\E p \in cluster.pods : Restart(p)) \/ ScaleUp
  BY <1>1, <1>2, RestartRefreshes, ScaleUpRefreshes
<1>3. CASE DeployStep
  <2>1. CASE deploy.pc \in {"build", "wait"}
    BY <1>3, <2>1 DEF DeployStep
  <2>2. CASE deploy.pc = "kind-up"
    BY <1>3, <2>2, EmptyIs DEF DeployStep, KindUp
  <2>3. CASE deploy.pc \in {"load", "secret"}
    BY <1>1, <1>3, <2>3 DEF DeployStep, KindLoad, Clusters
  <2>4. CASE deploy.pc = "helm"
    BY <1>3, <2>4 DEF DeployStep
  <2> QED
    BY <1>3, <2>1, <2>2, <2>3, <2>4 DEF DeployStep
<1>4. CASE KindUpAlone \/ KindDown
  BY <1>4, EmptyIs DEF KindUpAlone, KindUp, KindDown
<1>5. DeleteNamespace(cluster) \in Clusters /\ DeleteNamespace(cluster).chart = None
  BY <1>1, EmptyIs DEF DeleteNamespace, Clusters
<1>6. CASE SuiteStep
  <2>1. CASE suite.pc \in {"wait", "tests"}
    BY <1>6, <2>1 DEF SuiteStep
  <2>2. CASE suite.pc \in {"create", "destroy"}
    BY <1>6, <2>2, EmptyIs DEF SuiteStep, KindUp
  <2>3. CASE suite.pc = "load"
    BY <1>1, <1>6, <2>3 DEF SuiteStep, KindLoad, Clusters
  <2>4. CASE suite.pc = "secret"
    <3>1. cluster' = [DeleteNamespace(cluster) EXCEPT !.secret = checkout.env]
      BY <1>6, <2>4 DEF SuiteStep
    <3> QED
      BY <1>5, <3>1 DEF Clusters
  <2>5. CASE suite.pc = "install"
    <3>1. cluster.secret # None
      BY <2>5, BoundsAssumption DEF IInv, SuiteOwnsCluster, None
    <3> QED
      BY <1>6, <2>5, <3>1 DEF SuiteStep
  <2> QED
    BY <1>6, <2>1, <2>2, <2>3, <2>4, <2>5 DEF SuiteStep
<1>7. CASE SuiteFails
  BY <1>5, <1>7 DEF SuiteFails
<1>8. CASE UNCHANGED cluster
  BY <1>8
<1> QED
  BY <1>2, <1>3, <1>4, <1>6, <1>7, <1>8
  DEF Next, vars, Edit, BuildElsewhere, StartPush, PushStep, PushFails, StartDeploy, DeployFails,
      StartSuite

LEMMA NextClaimed == IInv /\ Claimed /\ [Next]_vars => Claimed'
<1> SUFFICES ASSUME IInv, Claimed, [Next]_vars PROVE Claimed'
  OBVIOUS
<1>1. cluster \in Clusters /\ checkout.chart \in Nat
  BY DEF IInv, TypeOK
<1>2. ASSUME cluster.secret # None, cluster' = HelmUpgrade(cluster, checkout.chart)
      PROVE  Claimed'
  <2>1. CASE cluster.chart = checkout.chart
    BY <1>2, <2>1 DEF HelmUpgrade, Claimed
  <2>2. CASE cluster.chart # checkout.chart
    <3>1. cluster'.volume = IF cluster.volume = None THEN cluster.secret ELSE cluster.volume
      BY <1>1, <1>2, <2>2, HelmIs
    <3> QED
      BY <1>2, <3>1 DEF Claimed
  <2> QED
    BY <2>1, <2>2
<1> QED
  BY <1>2, ClusterMoves DEF Claimed, Refreshed

\* While the Secret agrees with the claim, no restart, no autoscaling, no load
\* and no upgrade breaks a pod: the pods that are broken were so before, and
\* each is mended by its next restart.
THEOREM RecoveryOnlyHelps ==
  Spec => [][Cured(cluster)' =>
               /\ Broken(cluster)' \subseteq Broken(cluster)
               /\ \A p \in Broken(cluster) : Restart(p) => p \notin Broken(cluster)']_vars
<1> DEFINE Helps ==
      Cured(cluster)' =>
        /\ Broken(cluster)' \subseteq Broken(cluster)
        /\ \A p \in Broken(cluster) : Restart(p) => p \notin Broken(cluster)'
<1>1. ASSUME Init PROVE Claimed
  <2>1. ASSUME NEW name, NEW first \in Envs, NEW last
        PROVE  Deployed(name, first, last).volume # None
    BY BoundsAssumption DEF Deployed, Empty, None
  <2>2. Empty("none").chart = None
    BY DEF Empty
  <2> QED
    BY <1>1, <2>1, <2>2 DEF Init, Claimed
<1>2. ASSUME IInv, Claimed, Claimed', [Next]_vars PROVE [Helps]_vars
  <2> SUFFICES ASSUME Cured(cluster)' PROVE Helps
    OBVIOUS
  <2>1. /\ cluster \in Clusters /\ checkout.chart \in Nat
        /\ cluster'.chart # None /\ cluster'.node # None
        /\ cluster'.secret = cluster'.volume /\ cluster'.volume # None
    BY <1>2 DEF IInv, TypeOK, Cured, Claimed
  <2>2. ASSUME NEW chart
        PROVE  Available(cluster', [build |-> cluster'.node, env |-> cluster'.secret,
                                    chart |-> chart])
    BY <2>1 DEF Available
  <2>3. Broken(cluster)' \subseteq Broken(cluster)
    <3> SUFFICES ASSUME NEW q \in cluster'.pods, ~Available(cluster', q)
                 PROVE  q \in cluster.pods /\ ~Available(cluster, q)
      BY DEF Broken
    <3>1. CASE UNCHANGED cluster
      BY <3>1
    <3>2. CASE Refreshed
      BY <2>2, <3>2 DEF Refreshed, Available
    <3>3. CASE /\ cluster'.pods = cluster.pods
               /\ cluster'.volume = cluster.volume /\ cluster'.chart = cluster.chart
      BY <3>3 DEF Available
    <3>4. CASE cluster' = HelmUpgrade(cluster, checkout.chart)
      <4>1. CASE cluster.chart = checkout.chart
        BY <3>1, <3>4, <4>1 DEF HelmUpgrade
      <4>2. CASE cluster.chart # checkout.chart
        <5>1. /\ cluster'.node = cluster.node /\ cluster'.secret = cluster.secret
              /\ cluster'.volume = IF cluster.volume = None THEN cluster.secret ELSE cluster.volume
              /\ q \in cluster.pods \/ q = [build |-> cluster.node, env |-> cluster.secret,
                                            chart |-> checkout.chart]
          BY <2>1, <3>4, <4>2, HelmIs
        <5> QED
          BY <2>2, <5>1 DEF Available
      <4> QED
        BY <4>1, <4>2
    <3> QED
      BY <1>2, <2>1, <3>1, <3>2, <3>3, <3>4, ClusterMoves
  <2>4. ASSUME NEW p \in Broken(cluster), Restart(p), p \in Broken(cluster)' PROVE FALSE
    <3> DEFINE P == (cluster.pods \ {p}) \cup {Restarted(cluster, p)}
    <3>1. p \in cluster.pods /\ p \in Pods
      BY <2>1, <2>4 DEF Restart, Clusters
    <3>2. P \in SUBSET Pods
      BY <2>1, <3>1, RestartedIs DEF Clusters
    <3>3. /\ cluster'.node = cluster.node /\ cluster'.secret = cluster.secret
          /\ cluster'.pods \subseteq P
      BY <2>1, <2>4, <3>2, SettledIs DEF Restart
    <3>4. p = [build |-> cluster'.node, env |-> cluster'.secret, chart |-> p.chart]
      BY <2>1, <2>4, <3>1, <3>3, RestartedIs DEF Broken
    <3> QED
      BY <2>2, <2>4, <3>4 DEF Broken
  <2> QED
    BY <2>3, <2>4
<1> QED
  BY <1>1, <1>2, NextClaimed, Invariance, PTL DEF Spec

\* "Torn down unconditionally" is broken by a step of the fixture that fails
\* before it yields, or by the teardown itself when it fails, and by nothing
\* else: not by a test, a deploy, another build or a later session.
THEOREM FailingIsTheException ==
  Spec => [][TornDownUnconditionally /\ ~TornDownUnconditionally' =>
               SuiteFails /\ suite.pc \in {"create", "load", "secret", "install", "wait",
                                           "destroy"}]_vars
<1> DEFINE Cause == TornDownUnconditionally /\ ~TornDownUnconditionally' =>
                      SuiteFails /\ suite.pc \in {"create", "load", "secret", "install", "wait",
                                                  "destroy"}
<1>1. ASSUME IInv, [Next]_vars PROVE [Cause]_vars
  <2>0. cluster \in Clusters /\ TypeOK
    BY <1>1 DEF IInv, TypeOK
  <2>1. CASE SuiteFails
    BY <2>1 DEF SuiteFails
  <2>2. CASE UNCHANGED suite /\ cluster'.name \in {cluster.name, "none", KIND_CLUSTER}
    BY <2>2 DEF TornDownUnconditionally, KIND_CLUSTER, TEST_CLUSTER
  <2>3. CASE (\E p \in cluster.pods : Restart(p)) \/ ScaleUp
    <3>1. Refreshed
      BY <2>0, <2>3, RestartRefreshes, ScaleUpRefreshes
    <3>2. UNCHANGED suite
      BY <2>3 DEF Restart, ScaleUp
    <3> QED
      BY <2>2, <3>1, <3>2 DEF Refreshed
  <2>4. CASE DeployStep
    <3>1. UNCHANGED suite
      BY <2>4 DEF DeployStep
    <3>2. CASE deploy.pc \in {"build", "wait"}
      BY <2>2, <2>4, <3>1, <3>2 DEF DeployStep
    <3>3. CASE deploy.pc = "kind-up"
      BY <2>2, <2>4, <3>1, <3>3, EmptyIs DEF DeployStep, KindUp
    <3>4. CASE deploy.pc \in {"load", "secret"}
      BY <2>0, <2>2, <2>4, <3>1, <3>4 DEF DeployStep, KindLoad, Clusters
    <3>5. CASE deploy.pc = "helm"
      <4>1. cluster' = HelmUpgrade(cluster, checkout.chart) /\ checkout.chart \in Nat
        BY <2>0, <2>4, <3>5 DEF DeployStep, TypeOK
      <4>2. CASE cluster.chart = checkout.chart
        BY <2>2, <3>1, <4>1, <4>2 DEF HelmUpgrade
      <4>3. CASE cluster.chart # checkout.chart
        BY <2>0, <2>2, <3>1, <4>1, <4>3, HelmIs
      <4> QED
        BY <4>2, <4>3
    <3> QED
      BY <2>4, <3>2, <3>3, <3>4, <3>5 DEF DeployStep
  <2>5. CASE KindUpAlone \/ KindDown
    BY <2>2, <2>5, EmptyIs DEF KindUpAlone, KindUp, KindDown
  <2>6. CASE StartSuite
    <3>1. suite'.pc = "ended" => cluster'.name = KIND_CLUSTER
      BY <2>6 DEF StartSuite, Session
    <3> QED
      BY <3>1 DEF TornDownUnconditionally, KIND_CLUSTER, TEST_CLUSTER
  <2>7. CASE SuiteStep
    <3>1. suite'.pc = "ended" => \/ suite'.keep
                                 \/ cluster' = Empty("none")
      <4>1. CASE suite.pc = "tests"
        BY <2>0, <2>7, <4>1 DEF SuiteStep, SuiteMoves, Session, TypeOK
      <4>2. CASE suite.pc # "tests"
        BY <2>0, <2>7, <4>2 DEF SuiteStep, SuiteMoves, TypeOK
      <4> QED
        BY <4>1, <4>2
    <3>2. Empty("none").name = "none"
      BY DEF Empty
    <3> QED
      BY <3>1, <3>2 DEF TornDownUnconditionally, TEST_CLUSTER
  <2>8. CASE UNCHANGED <<cluster, suite>>
    BY <2>2, <2>8
  <2> QED
    BY <1>1, <2>1, <2>3, <2>4, <2>5, <2>6, <2>7, <2>8
    DEF Next, vars, Edit, BuildElsewhere, StartPush, PushStep, PushFails, StartDeploy, DeployFails
<1> QED
  BY <1>1, Invariance, PTL DEF Spec
=============================================================================
