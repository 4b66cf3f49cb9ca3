# Verification of mlops-platform

TLA+ models of the platform's own logic, TLC runs over small instances, and
TLAPS proofs for every instance. Everything here is translated from the code of
this repository; where behaviour belongs to something the repository only uses
(Docker, the postgres image's entrypoint, an S3 store, botocore, MLflow's tracking
server, kind, helm and Kubernetes), it is modelled from how the code uses it and
marked external in `PROJECT.json`.

    tlc -workers 2 -config MCStackOne.cfg MCStackLifecycle.tla     # any run
    tlapm StackLifecycle_proofs.tla                                # any proof

## 1. The system

A local MLOps platform: a compose stack ("the spine"), a preflight that guards
its start, entry points (`make`, `make.ps1`) that tie them together, and around
them a smoke DAG, a supply-chain gate, image publication and a Helm chart.

| Component | State it keeps | Operations | What is hard | What makes it correct |
|---|---|---|---|---|
| Preflight, `preflight/` | none; reads the daemon, `.env`, the shell and the Postgres volume | `probe_docker`, `missing_credentials`, `effective_value`, `read_postgres_volume`, three checks in order | reads several things at several moments; acts on a picture that may be stale; reads `.env` with a grammar of its own beside compose's | OK and FAIL on a volume mean what they say, of credentials both grammars read alike; a start it lets through agrees with the volume |
| Postgres volume, `postgres/init/`, compose `postgres` | data directory: `PG_VERSION`, role, databases, `.init-credentials` | initdb, record script, Airflow SQL, serve | runs once; may die between any two steps, or inside initdb, and is never taken up again; restarts with the environment of its creation | the record tells the truth; a directory is made once, in order, and kept as it is; a reset makes a half-made one whole |
| Entry points, `Makefile`, `make.ps1` | containers, the volumes | `doctor`, `up`, `down`, `clean`, `reset` and others | sequences of commands that stop at a failure; several terminals | only `clean` and `reset` discard; `reset` recovers; every command ends |
| Bucket provisioner, `images/mlflow/ensure_buckets.py` | the store's buckets | `ensure` per name, exit code | concurrent pods, lost answers, retries of botocore, kills | exit 0 means the buckets exist; losing a race is no failure; it ends |
| Compose spine, `compose/` | containers, three volumes | start in dependency order, health, restart by policy | gates apply at creation only; persisted identities | nothing starts before what it needs |
| Smoke DAG, `airflow/dags/m0_smoke.py`; `latest_run` in `tests/test_m0_smoke.py` | MLflow's experiment and runs | get-or-create, four calls per run; the tier's reading | concurrent tasks; lost answers; requests served after their task gave up | success means a complete FINISHED run, FINISHED means complete; the tier reads its own run; every task ends |
| Supply gate, `supply/`, `build`, `sbom`, `scan-report`, `scan`, `scan-accept`, `supply.yml` | documents and reports (ignored by git), inventories and baselines (committed), the scanner's database | list, catalogue, reduce, diff, scan, compare, accept | exit codes that are dropped, documents of an earlier run, selective commits, interrupted writes, advisories that appear against unchanged images | a green job scanned every image against its committed baseline; a red one names every image; an accepted scan leaves itself and nothing else |
| Publication, `push` | a local tag, the registry | build, inspect, build again, check label, tag, push | a tag two services export and any terminal may export again | what was checked is what is pushed |
| Chart and kind cluster, `charts/`, `kind-up`, `kind-deploy`, `kind-down` | a node's image store, a Secret, a claim, pods | create, load, apply, upgrade, wait | four pieces of state that are replaced at different moments, pods that restart between them | what a deploy that succeeded runs is what it built |
| Cluster tier, `tests/clusterops.py`, `tests/test_kind_cluster.py` | a cluster of its own | create, load, delete and make the namespace, install, destroy | a step fails half-way; an earlier session's cluster; the operator's ports | the tests judge this session's image, credentials and chart |

How they interact: an entry point runs the doctor as a command and stops on its
exit code. The doctor borrows compose's `postgres` service to look into the
volume. Compose reads `.env` for itself afterwards, creates or recreates the
containers and waits for health. The postgres container runs the two scripts
during its first start only. `minio-init`, and the initContainer of each MLflow
pod, run the provisioner, and MLflow starts on its exit code alone. The supply
gate shares nothing with a running stack but the compose file and the Dockerfiles
it reads: a developer's recipes and the scheduled job meet in the commits only. The
smoke DAG meets the stack at one HTTP address. `push`, `kind-deploy`, the cluster
tier and everybody's `up --build` meet in one tag of the local daemon, one checkout
and one pair of host ports.

`PROJECT.json` lists the hazards of this code, each at its line with the
properties that cover it.

## 2. Modules

| Module | What it is |
|---|---|
| `Preflight` | the pure half of `preflight/`: operators, no state |
| `VolumePromise` | what whoever keeps the Postgres volume relies on |
| `StackLifecycle` | the volume under terminals, the doctor, compose, the daemon and the entrypoint; EXTENDS `Preflight`, implements `VolumePromise` |
| `StackLifecycle_proofs` | theorems about it |
| `StackRecovery_proofs` | theorems about the case of one operator who edits between commands; EXTENDS `StackLifecycle_proofs` |
| `StackVolume_proofs` | theorems about how the volume is made, the implementation of `VolumePromise` among them; EXTENDS `StackRecovery_proofs` |
| `MCStackLifecycle` | its small instances |
| `BucketsPromise` | what readers of a provisioner's exit code rely on |
| `EnsureBuckets` | the provisioners against a store; implements `BucketsPromise` |
| `EnsureBuckets_proofs` | theorems about it, the implementation among them |
| `MCEnsureBuckets` | its small instance |
| `SupplyGate` | the recipes and the weekly job, in two checkouts, with git and the advisories moving |
| `SupplyGate_proofs` | theorems about it |
| `SupplyExceptions_proofs` | what exactly breaks the two sentences of the gate that do not hold; EXTENDS `SupplyGate_proofs` |
| `MCSupplyGate` | its small instances |
| `SmokePromise` | what a reader of Airflow's and of MLflow's verdict relies on |
| `SmokeDag` | the tasks, their calls and the tracking server; implements `SmokePromise` |
| `SmokeDag_proofs` | theorems about it, the implementation among them |
| `MCSmokeDag` | its small instance |
| `ImageDelivery` | `push`, `kind-deploy`, the cluster tier and other builds, over one tag and one cluster |
| `ImageDelivery_proofs` | theorems about it |
| `MCImageDelivery` | its small instances |

### Preflight

A value is a sequence of symbols, chunks of text. The ones told apart are the colon
(what the fingerprint, `salt:user:password`, can confuse is exactly where a colon ends
the user), white space, and what means more than itself in a `.env`: what compose
interpolates or unescapes (`Special`), quotation marks (`Mark`) and a note behind a
value (`Note`). The digest is modelled as the pair of the salt and the joined text:
sha256 is taken to be injective, the join is not.

A line of `.env` is what is written there: how it is quoted, the text, whether a note
follows. It is read by two grammars, as in the code. `parse_env_pairs` strips one pair
of quotes around the whole and keeps the rest as it stands. compose (`Interpolated`,
external) cuts the note, takes single quotes literally and makes of the other two what
`Expand` says. So too with the shell: `effective_value` takes a variable exported as
white space for unset (`exported.strip()`), compose takes it as it is; `:?` refuses an
empty value; `POSTGRES_DB` alone has a default. `Alike` is where the two agree: a
variable exported and not blank, or written without a note and without what compose
interpolates. `SameResolution` proves it.

`Report` and `parse_volume_report` are the two ends of the probe container: the shell
script that prints a marker, and the Python that scans for it among compose's
narration. `EarlyChecks` is `run()` up to the point where a container is needed.

### StackLifecycle

Variables: `daemon`; `envFile`; `volume` (version file, whether initdb finished, role,
password, databases, the record and whether a checkout without the record script made it);
`postgres` (where the container's entrypoint is, and what it was handed); `client` (what
the MLflow container was handed). Both are handed `POSTGRES_USER`, `POSTGRES_PASSWORD` and
`POSTGRES_DB` and nothing else of the declared variables (`Handed`), so only a change of
these recreates them. Then `term` (per terminal: the command, its step, what its doctor
saw and concluded); `discards` and `crashes`, which are counters of the bounds. `discards`
also stands for the salt: each volume's salt is its number.

A command is a sequence of steps, each an action: `doctor` and `up` are
`ProbeDocker`, `ReadEnv`, `ProbeVolume`, and for `up` `ComposeUp` and `Wait`;
`down`, `clean` and `reset` start with `RemoveContainers`, go on to
`DiscardVolume`, and `reset` then does what `up` does. compose removes containers
first and volumes afterwards, hence two steps. A refusal or failure ends the
command, as make and `Invoke-Checked` do. Between any two steps everything else may
move: `EditEnv`, `DaemonStops`, `DaemonStarts`, `PostgresDies`, the entrypoint
(`InitDb`, in two steps, `CreateDb`, `RecordOpen`, `RecordWrite`, `AirflowSql`, `ServeKept`) and
the other terminals. The record script's redirection creates the file before
`printf` fills it: `RecordOpen` and `RecordWrite`, with a torn record in between.

The entrypoint takes `PG_VERSION` for the sign of an initialised directory
(`ServeKept`), so a death after it skips every later step for good. initdb writes that
file first and has a role only at its end: a death in between leaves a directory that
is taken for initialised and that no server ever serves.

`VolumePromise` is what remains of all this for whoever keeps the volume: whether its
making has begun, the role, the databases, the record (none, torn or true), whether
somebody is making them, and whether a discard was asked for. A directory is begun, then
made in the order role, database, record, Airflow's database, which may be cut short
anywhere (`CutShort`) and is then never taken up again; it goes as a whole, and only when
asked for. `Promise` is the refinement mapping: what is being made is what the entrypoint
is at a step of, a record is true when it is the salted digest of the role, `Asked` is a
clean or reset under way. Terminals, `.env`, the doctor and the daemon are not in it.

### EnsureBuckets and BucketsPromise

`EnsureBuckets` has one record per provisioner: where `main` is, the bucket and
attempt it is at, what is known of the call under way, and the exit code. A call
is three events: sent (`CreateBucket`), served (`Serve`, whose answer may be
lost), and answered (`Ensured`, `Raise`) or given up (`TimesOut`: botocore sends it
again, up to its limit). A call given up or orphaned by `Kill` stays in `late` and
may be served at any later time, or never. `RunAgain` is the next `up`, or the
pod's restart. `BucketsPromise` has the buckets and the exit codes only, and says
what a code may mean when it appears; `Promise` is the refinement mapping.

### SupplyGate

Two checkouts: `Dev`, where recipes are run and files stay, and `Runner`, which
`Checkout` fills from the repository and `Discard` empties. Per checkout: `source`
(the compose file, as a set of services with an image and the base they are built
on), `local` (images built), `doc`, `report`, `inventory` and `known` (the four files
of sbom/ per image), `db` (the scanner's database) and `op` (the recipe or job, its
step, what its loop has left and what failed). Shared: `committed`, `head` (the
commit the runner has) and `advised` (the published advisories).

An image reference is a file stem and a digest, or `Built`. A digest has packages
(`Contents`), an advisory is against packages (`Affected`): `Document` is syft,
`Matches` grype, both functions of their input as the pins by digest promise.
Recipes are sequences: `sbom` is `List`, then `Catalogue` and `Reduce` per image;
`scan-report` is `AnyDocuments`, `UpdateDb` and one `Scan` per document on disk;
`scan` goes on to `Compare` each and to `Compared`, `scan-accept` runs sbom first and
goes on to `Accept` each. The job is build, sbom, `Diff` and scan. `List` has the
code's own shape: the exit code of `supply.images` is dropped, so a list that cannot
be read is an empty loop. `Fail` is any command that fails or is interrupted; `Tear`
is an interrupted `write_text`, which leaves any part of the lines, perhaps a malformed
last one. `Compare` refuses an image by name when its baseline lacks a finding, is
missing or is malformed (`Unbaselined`), and goes on to the next. A failed commit
is no commit. `Commit` may add new inventories, new baselines, both or neither.

The loops run over sorted names; `First` fixes an arbitrary order, since none of the
bodies looks at another name's files. grype's own update is not modelled: `db update`
has just run. `ReferencesAssumption` is what Makefile:191-194 and the contract tests
hold the compose file to.

### SmokeDag and SmokePromise

Per task: the call it waits for (`pc`), the clock it read when it began (`started`:
the code reads it before it looks for the experiment, and sends it as the run's
start_time), its request that is not served yet, and the answer that has reached it.
The server has the experiment, by its unique name, and the run each task has made.
`Trigger` is the operator's or the tier's `airflow dags trigger`; `Found` is
`experiment_id`; `Advance` the sequence of `log_one_run`; `Raise` any HTTP error but
the tolerated one, which Airflow turns into a failed task. `Timeout` is urlopen's 30
seconds, `Kill` a stopped container. The code repeats no call. A request outlives its
task: `Serve` may take effect at any later time, and its answer be lost; `Refuse` is
any other error, with nothing written. `hurt` remembers to whom any of these happened.

`SmokePromise` has an outcome and a record per task: a run is opened, finished when
complete, and success is said of a complete run only. `Newest` is the tier's
`latest_run`: the maximum of start_time, taken in Python over what runs/search returned
(tests/test_m0_smoke.py:85-91).

### ImageDelivery

A build is known by the version of `images/mlflow` it was made from, and by the
service whose export won the tag (`mlflow` and `minio-init` declare the same build).
It reads the checkout at some time after it starts and exports the tag when it ends
(`Export`), so a build that started before an edit may export after one that started
after it. A build of another terminal may have started at any time (`BuildElsewhere`).
`crossed` is what that does to a command in progress: to a push, any other export
between its reclaiming build and its `docker tag`; to a deploy, an export of an older
version between its own build and its load.
`checkout` is what is on disk now: source, `.env`, chart; recipes read it at the step
that needs it, while `Edit` may change it. `cluster` is the kind cluster that holds
the host ports: the image its node was given, the Secret, the chart of the release,
the credentials of Postgres's claim, and the MLflow pods, each with the image,
credentials and template it started with. `push`, `deploy` and `suite` are where a
`make push`, a `make kind-deploy` and a session of the cluster tier are; at most one
of each runs at a time, all three together and beside `BuildElsewhere`.

A container reads the node's image (pullPolicy IfNotPresent) and the Secret whenever
it starts: `FreshPod`, `Restarted`. kind load replaces what a tag means on the node and
leaves running containers alone (`KindLoad`); helm replaces pods whose template
changed, and a template names the tag and the Secret, not their contents
(`HelmUpgrade`); old pods go once a new one is available (`Settled`). The kubelet
restarts what does not answer (`RestartBroken`), and any pod may restart (`Restart`)
or be added by the autoscaler (`ScaleUp`) at any time. `KindUp` fails while another
cluster has the ports; `StartSuite` is `refuse_a_port_conflict`. A step that fails
half-way after its effect leaves what the next step's failure leaves, except for the
deleted namespace, which `SuiteFails` has.

A cluster may be there at first (`Deployed`), as earlier deploys or a failed session
left it, with a Secret of a later `.env` than its claim.

## 3. Runs

| Run | Instance | What it shows |
|---|---|---|
| `stack_one` | one terminal; five `.env` files (another user, a missing key, a password with a colon and a `$` in single quotes, the same in double quotes, where compose makes another of it); an old or an empty first volume; edits between commands; a moving daemon; one discard, one crash | `TypeOK`; a start let through by a matching record hands out the role's credentials (`StartAgreesWithVolume`); `reset` is never refused by the check that asked for it (`ResetIsNotRefusedAgain`) and makes whole what deaths left half-made (`ResetMakesWhole`); `VolumePromise` is implemented (`VolumeIsMadeOnce`); every command ends (`CommandsEnd`) |
| `stack_race` | two terminals, one with an exported password; two files, one with a note behind the password; edits at any time; one discard | `RecordTellsTheTruth`, `OkIsRight`, `RefusalIsRight`, `OnlyCleanDiscards` under every interleaving of two commands |
| `buckets` | three provisioners: two buckets, one shared bucket, one without an endpoint; two attempts, two runs, one refusal | `RacesAreHarmless`, `PromiseKept`, `RunsEnd`, `TypeOK` |
| `supply` | an image built here and its base, which is run as well; four compose files (another digest under one tag, another tag, an image key missing, an empty base); build, scan and scan-accept; two edits, one publication, one mishap | `TypeOK`, `PassMeansKnown`, `TrackedInventoriesDescribe`, `AcceptedAsScanned`, `RefusalNamesAll` |
| `supply_job` | pulled images; sbom and scan-report beside the job; one edit, two publications, one mishap; fairness | `NewsIsReported` |
| `smoke` | two tasks, a clock of three ticks, an experiment that exists or not | `PromiseKept`, `ReaderSeesItsOwnRun`, `NobodyFailsUnhurt`, `TasksEnd`, `TypeOK` |
| `delivery` | two `.env` contents; one edit; three commands in all, each a push, a deploy, a session or another build; no cluster, the operator's or the tier's at first | `SuiteSeesItsOwn`, `PushPublishesMlflow`, `DeployRunsItsBuild`, `PodsRecover`, `RolloutsEnd`, `TypeOK` |
| `supply_unlisted`, `supply_untracked` | the instance of `supply`, without mishaps and publications | a sentence of the repository each: see section 6 |
| `renamed_db`, `unrecorded`, `misread` | one terminal, the smallest files that tell | a sentence of the repository and the state that contradicts it: see section 6 |

`buckets` turns the deadlock check off: its provisioners are used up when every run
allowed to them is over and no call is late. `smoke` does for the same reason: every task
has ended, every request is served and the clock has stopped. `stack_one` and `stack_race`
check for deadlock, and there is none: an operator can always type. `supply` and
`supply_job` check for it too: every step of a recipe or job has a next one. `delivery`
turns it off: once the commands and the edit allowed to it are used up and the pods run of
what they would be restarted with, nothing is left to do.

### Bounds, and why they are enough

- `MaxDiscards = 1` gives two volumes, the one compared and the one that replaced
  it; a property relates a doctor to at most these two, by the salt.
- `MaxCrashes = 1` interrupts one first initialisation at every point. A second
  crash finds an initialised directory, or one at the same points.
- Two terminals: the properties relate one doctor to what somebody else did.
- The files differ in one variable each, of every kind the doctor or compose
  treats differently, or in how one is written: the two ways of quoting a `$`, on which
  the grammars agree and part, and a note. The password with a colon makes the join
  ambiguous to an implementation that does not know where the user ends. That a
  variable exported as white space parts them too is in the model and in the theorems,
  which are about every environment; no instance exports one.
- `MaxAttempts = 2`, two runs and three provisioners give a call that races its
  own earlier attempt, an earlier run's orphan, and another provisioner. The
  argument for more is the proof, which has no bound.

- `supply`: one advisory, two packages and three names are enough, since every
  property compares one image's files with one another; the second image is what a
  list can leave out, and the third is what a bumped tag leaves behind. Two edits are
  an edit of the source and a commit of it. `Overlap = FALSE` keeps recipes and job
  from running at the same time: what they share is the commits, and only `Commit`,
  which is no recipe, writes them. `supply_job` overlaps them.
- Two publications are an advisory that appears, and one that is withdrawn or rescored.
- `smoke`: the properties relate one task to another, or to one late request. Three
  ticks separate two starts from each other and from the service of a late call.
- `delivery`: three commands in all, any of the four kinds, one after the other or
  beside each other, from a machine where others have run before: what earlier ones
  leave is in the initial states. A property relates one command to what another did
  between two of its steps, and a third is what an interrupted second leaves behind.
  One edit changes any of the three things a command reads, between any two of its steps,
  and makes two versions, enough for a build of an older one to export last. Two `.env`
  contents tell a Secret from a claim.

The safety properties of all five models are also proved without bounds (section 5).

### Fairness

`StackLifecycle`: weak fairness of the entrypoint and of each terminal's
`Continue`. A process that was started runs on; docker info, the probe and the
wait are bounded by timeouts in the code, so each of their steps is enabled until
it is taken. `Wait` may fail at any time (timeout, interrupt) and must end. Nothing makes an
operator type, a daemon start or stop, or a container die, and no property needs
it: `ResetMakesWhole` gives up where the daemon is not ready or Postgres dies again.

`EnsureBuckets`: weak fairness of each provisioner's `Continue`, which contains
the timeout. The store owes nobody an answer.

`SupplyGate`: weak fairness of `Checkout` (the cron line of supply.yml starts the job
every week), of `Discard` and of the job's steps (a hosted job ends one way or another;
it may always end by `Fail`). Nothing is assumed of the developer, of commits or of
advisories.

`SmokeDag`: weak fairness of each task's steps and of its timeout. The server owes no
answer, the clock need not advance and nobody has to trigger anything.

`ImageDelivery`: weak fairness of what has a timeout: the rollout of a deploy (helm's
`--wait --timeout`), each step of a session (the harness's `TIMEOUT_S`), which may fail
instead; and of `RestartBroken`, the kubelet's back-off restart of a container that does
not answer its liveness probe. Nothing bounds docker build and push, kind create and kind
load of the make targets, so none of these is fair and no property says they end.

## 4. What the properties say

Each property has a comment in its module. The ones to read first: `RecordTellsTheTruth`
relates a file written by a shell script to a role made by initdb from the same
container's variables, although both `.env` and the container may have been replaced in
between. `OkIsRight` and `RefusalIsRight` relate what a doctor concluded, possibly long
ago, to the volume in place now, through the salt. Both are claimed of credentials the
doctor and compose read alike (`AlikeFor`); what happens to the others is finding 5.
`PromiseKept` and `VolumeIsMadeOnce` are refinements; the latter says of the record
script's "runs exactly once" what it is worth: never twice, in order, and, once cut short,
not again. `ResetMakesWhole` is the way out of that: whatever a death left behind, a reset
that gets past its doctor ends in a database every client is admitted to, unless it is
disturbed in turn. `PassMeansKnown` is about a chain in which one link drops an exit code
and another compares tracked files only, and says that the green at its end still means
what it should: with nothing catalogued there is nothing to scan on a fresh machine, and a
missing baseline refuses. On a developer's machine the first half is not true, and nothing
is claimed of a green `make scan` there: it may be about the documents of an earlier day.
`RefusalNamesAll` is about both machines, so also about a retired image whose document
still lies there. `ReaderSeesItsOwnRun` rests on one line's place: the start is read
before the calls that find the experiment. Were it read by the server when the run is
opened, a request of a dead task served late would be the newest run, and the tier would
report a RUNNING one that is not its own. `SuiteSeesItsOwn` relates the pods the tests
meet to what this session read at four moments from a checkout and a tag others were
changing, on a cluster that may hold an earlier session's release. It is about the pods;
the tests themselves read `.env` and render the chart again when they run
(tests/test_kind_cluster.py:216-217), and an edit in between is theirs to meet.

`DeployRunsItsBuild` has two cases, since the code has. A rebuilt image under an
unchanged chart is loaded, `helm upgrade` sees nothing to do, the command succeeds and
the running pods keep the old image until they restart; docs/setup.md:1053-1055 knows
of the stale node, and "Reload after every rebuild" does not help pods that run. Only
where the template changed is every pod at least of this build. It is claimed of a deploy
that no build of an older checkout crossed: "the later export wins" (Makefile:278-281),
and kind load takes what the tag means by then. `PodsRecover` is the
neighbouring case of an edited `.env`: the Secret is replaced, the claim is not, and
nothing fails until a pod restarts. It says that the way back (put the file back,
deploy) cures every pod with no cluster deleted.

`PushPublishesMlflow` is claimed of a push that no other build's export crossed. The label is
checked in one command (Makefile:283-287) and the tag used in the next (288): a build
in between makes push publish a variant it did not check. The code promises nothing of
concurrent builds, and the model has the behaviour.

What they do not claim: with `.env` edited between the doctor and compose of one
`up`, compose starts what the doctor did not check. The code promises nothing
there. `StartAgreesWithVolume` is therefore checked with edits between commands.

## 5. Proofs

All theorems are checked by `tlapm` to the last leaf and hold for every value of
the constants under their named assumptions: typing of the constants, and in
`StackLifecycle` that compose takes single quotes literally and plain text as it is
(`GrammarAssumption`) and that no POSTGRES_USER contains a colon (`UserAssumption`). The
latter is needed: with it the join of user and password is injective
(`JoinInjective`, proved over sequences), without it two pairs share a digest. The
backend URI of the compose file needs it too.

`StackLifecycle_proofs`: the properties are not inductive. `IInv` adds

- `FirstInitShape`: at each point of the first initialisation the role is that of the
  container's settings, once initdb has finished, and the record is absent, torn or
  written as that point says. Without it `RecordWrite` could record credentials other than
  those initdb used.
- `UsersJoin`: the users of the volume and of the container have no colon, so the
  join can be taken apart.
- `Reading(t)`: what a doctor saw is consistent with a volume that was there: a
  digest it read with the salt of the present volume is that volume's, and its
  verdict is the one of `check_postgres_volume`.
- `Removing(t)`: only `clean` and `reset` are ever at the step that discards.

From `Spec => []IInv` (`Invariance`): `TypeCorrect`, `RecordIsTrue`, `OkNeverLies`,
`RefusalNeverLies`, and the action property `OnlyAskedFor`. `SameResolution` is the lemma
that the doctor's and compose's resolutions of a variable agree where they are `Alike`
and compose renders at all, and `FoundPastNarration` the one theorem about a parser:
compose's narration on the same stream, of any length and content but a marker of its
own, does not hide the probe's report nor change what is read from it.

`EnsureBuckets_proofs`: the invariant says that a provisioner in its loop has all
the buckets before the one it is at, that a good answer means the bucket is there,
and that a late call was named by somebody. From it `TypeCorrect`, `NoRaceFails`,
and `KeepsPromise`, the implementation: store steps map to `Create` or a stutter,
exits to `Finish`, `RunAgain` to `Rerun`.

`SupplyGate_proofs`: `Inv` has a `Shape` per checkout (each step belongs to recipes
that have it, what was scanned so far is in the reports, what was accepted so far is
in the baselines) and `Job`, the argument about the runner: it has either listed
nothing and then has no document, or every image it is past has its own document
and inventory; from the diff on the tracked inventories are those. `Named` says of a
comparison that each document it is past is known or its image is among the failed: it is
what a refusal on either machine rests on. A job with no
document stops at `AnyDocuments`, so a later step has all of them. From `Spec => []Inv`
(`Invariance`): `TypeCorrect`, `GreenIsKnown`, `GreenDescribes`, `AcceptanceIsExact` and
`RedNamesAll`. A step concerns one checkout (`OneCheckout`), which keeps a proof of an action
to that checkout. `ReferencesAssumption` is needed: with two digests under one stem the
second document would overwrite the first.

`StackRecovery_proofs` goes on from `Invariance` for `OneOperator`: one terminal,
and no edit during a command (`EditWhileBusy` is false). It is an assumption of each
theorem there, and needed: with a second terminal or an edit, compose starts what the
doctor did not read. `SoloInv` follows a command from the check to the wait:
`Starting` (the file in hand is the one on disk, and the volume compared is the one in
place, up to compose's start) and `Resetting` (from its `down` on a reset has no
container, and from its discard on an empty volume, so its doctor finds nothing to
refuse). From it `StartsAgree` and `ResetRecovers`.

`StackVolume_proofs` proves `MadeOnce`, that `StackLifecycle` implements `VolumePromise`.
`IInv` is not enough for it: that a record is opened beside a database, or Airflow's comes
last, is a matter of the order of the entrypoint's steps. `OrderInv` (`MadeInOrder`) adds
it: `InOrder` says what is there and what is not yet there at each point, `HandedDown`
that the container has settings some compose made and a directory without `PG_VERSION` is
empty, one that initdb did not finish has no role, `Recorded` that a record has a database
beside it and that a directory of an earlier checkout is not being made. Each point of the
entrypoint then maps to the action of its kind, a death, removal or recreation to
`CutShort`, the second step of clean to `Discard`, everything else to `Ask` or a stutter.
`LeftAsItIs` is the consequence for an operator: once the first initialisation is over or
cut short, a directory is what it is until it is empty.

`SmokeDag_proofs`: `Inv` has three parts per task. `Pending`: what a call under way,
listened to or not, finds when it is served, however late; it stays true because a
task sends its next call only after the last one was answered. `Heard`: what an answer
allows its task to conclude of its run. `Standing`: the run itself and the ends of a
task. From it `TypeCorrect`, `OnlyTheHurtFail`, `ReaderIsRight` and `KeepsPromise`,
where `Serve` maps to `Open`, `Finish` or a stutter and the last `Advance` to `Succeed`.

`ImageDelivery_proofs`: who owns what while a command is between two steps.
`TagKnown`, `PushOwnsTag`: an uncrossed push holds MLflow's variant of the checkout its
second build started on, or of a later one, in the tag, the local reference or the
registry as its step says. `DeployOwnsTag`, `DeployOwnsNode`: unless it is crossed, from
the end of its build on the tag, and from its load on the node, have the version its
build started on or a later one, or else the cluster was deleted and made again, where
nothing runs. `SuiteOwnsCluster`: the cluster is the
tier's while a session runs, and holds what each of its steps put there.
`ChartsInOrder`: no release is ahead of the checkout, no pod of its release; without
it an old pod could be taken for one of the chart being rolled out. From them
`TypeCorrect`, `SuiteIsAlone`, `PushIsRight` and the action property `DeployIsRight`.

The findings of section 6 and one of its remarks are sentences of the repository that do
not hold. What is
proved of each is where it stops holding, so that a reader knows the sentence to be good
otherwise:

| Sentence | Theorem | Holds unless |
|---|---|---|
| `OkMeansFirstInitAgrees` | `RenamingIsTheException` | some `.env` or shell names another database (`NeverRenamed`), for one operator as in `StackRecovery_proofs` |
| `UnrecordedMeansOld` | `CutShortIsTheException` | the first initialisation is cut short before the record is opened, or the script has no salt or digest; these are the only steps that break it |
| `EveryImageCatalogued` | `UnlistedIsTheException` | `supply.images` cannot read a compose file, or its run is interrupted (`ReadableAlways` says neither); without that assumption, `NeverPartial`: a job at its diff has documents of every image or none |
| `CommittedInventoriesDescribe` | `NewNamesAreTheException` | an image gets a name the spine did not have (`NamesStay`): a bumped digest under a kept tag does not break it |
| `WorkingVolumeIsNeverRefused` | `RefusalNeverLies` | the doctor and compose read a credential differently (not `AlikeFor`) |
| `TornDownUnconditionally` | `FailingIsTheException` | a step of the session itself fails, before the yield or in the teardown; no other command breaks it |

`RenamingIsTheException` goes over `NamedInv` (a directory with a database has the one
every compose asks for) and over what a waiting `up` is waiting for (`WaitInv`).
`NewNamesAreTheException` goes over `Inventoried`: with the names fixed, the inventory of
each image is tracked, hence seen by the diff, with the developer, in the repository and in
the job's commit.

Liveness under fairness is out of the prover's reach. Of three of the liveness properties
the half that is safety is proved: what the fair steps are fair about. `CallsAreCounted`:
a run of the provisioner makes at most `MaxAttempts` calls for each bucket and is never
back at one. `NeverInCircles`: every step of a recipe or job under way is a later command,
or the same loop with strictly less to do. `RecoveryOnlyHelps`: while the Secret agrees
with the claim, nothing breaks a pod, and a broken pod's next restart mends it.

Only model-checked: the liveness properties themselves (`CommandsEnd`, `ResetMakesWhole`,
`RunsEnd`, `NewsIsReported`, `TasksEnd`, `PodsRecover`, `RolloutsEnd`), since fairness and
ENABLED are out of the prover's reach; and that the findings' violations do happen, which
are counterexamples of TLC. No recursive definition is computed over data, so nothing here
waits for an induction over data.

## 6. Where the repository says one thing and does another

1. `renamed_db`. `POSTGRES_DB` is classed first-init, and the volume check
   compares user and password only. Renamed against a kept volume it passes the
   doctor, and the clients look for a database that is not there. It is the only way
   (`RenamingIsTheException`).
2. `unrecorded`. "Empty before the first up, then matched on every start after
   it" fails for a volume whose container died between initdb and the record
   script; the doctor calls such a volume older than the fingerprint. Which deaths do
   it: `CutShortIsTheException`.
3. `supply_unlisted`. The Makefile's `sbom` succeeds with nothing catalogued when
   `supply.images` refuses the compose file; make.ps1, which mirrors it, throws. With a
   readable list it does not happen (`UnlistedIsTheException`), and a part of the list is
   never taken for the whole (`NeverPartial`).
4. `supply_untracked`. "The committed inventories still describe these images" passes
   when the inventory of a bumped tag was never committed: git diff does not see a
   file it does not track. Where no image gets a new name, it cannot happen
   (`NewNamesAreTheException`).
5. `misread`. `effective_value` is "the value compose would interpolate, resolved the way
   compose resolves it", so that no working stack is called broken. It is not for a value
   with a note behind it, with a `$` or a backslash compose acts on, nor for a variable
   exported as white space. The record then holds what compose made of it, and the doctor
   refuses that volume at every later start, also after the reset it names. Of
   credentials both read alike it does not happen (`RefusalNeverLies`, `OkNeverLies`).

Three smaller ones, seen while modelling and not made a run of: "Torn down
unconditionally" (tests/test_kind_cluster.py) holds once the fixture has yielded, while
a failure of create, load, the Secret or install, all before its `try`, leaves the
cluster and its ports taken; nothing but a failure of the session does
(`FailingIsTheException`, proved). `missing_credentials`
refuses a blank `POSTGRES_DB`, which compose gives a default, although it is to find
"which variables the spine would refuse to start without"; and "the next start
initialises one with the values in hand" (checks.py:108) fails when a container of an
interrupted start initialises the empty volume first. The latter is not silent: by
`RecordTellsTheTruth` the next doctor refuses.

## 7. Plan

Built so far, in this order: the lifecycle of the stack, the buckets, the supply gate,
the smoke DAG, the delivery of the image, the promise of the volume. What is left:

1. In `ImageDelivery`, the Secret of make.ps1, which is deleted and created in two
   commands, as a variant of `DeployStep`.
2. Proofs: that a stack command and a smoke task only move on, as `NeverInCircles` has it
   for recipes and jobs; what the promises themselves entail, with no implementation in sight.

## 8. Not modelled, and why

Wording, rendering and exit messages, on which no property depends. Of `.env`: the `export
` prefix, a name given twice, lines written as `name: value`, a note that ends in a
quotation mark and a malformed `${`, about each of which the two grammars may differ
further; `OkIsRight` and `RefusalIsRight` say nothing of such a file. Of initdb: the
moment before it writes `PG_VERSION`, from which a directory is initialised again. The
probability of a sha256 collision. Resource limits. Spark, which holds no state the
platform's code touches. Contract tests, workflows, hooks and lint: text compared with
text. `infra/`: not started in the repository. The two entry points are modelled once:
`make.ps1` runs the same sequences, and a test of the repository compares the two; where
they differ (finding 3, and kind-deploy's Secret, which make.ps1 deletes before it creates
it) the model is the Makefile's. `security/exceptions.toml`: no program reads it but a
contract test. Malformed reports and documents: a command that fails, as `Fail`.

The rest of the spine. What MLflow's gates have to do with state is `BucketsPromise`:
completion of minio-init means the buckets exist, and no step takes one away, so a restart
by policy, which waits for nothing, finds what the gate found. The object store's identity
is not modelled because the repository contradicts itself about an external program:
preflight/credentials.py:43-46 has the credentials read "at every start, so rotating the
pair is safe", compose/docker-compose.yml:127 and docs/setup.md:892 have them used only
while the store holds no identity of its own. Airflow's admin account is made by the
external image at its first start; preflight/credentials.py:68-73 says that the first
password stays in force after `.env` is edited, and no code here compares it with anything
or acts on it.

Of the smoke DAG: an experiment deleted in MLflow (its name stays taken), a clock set
back. Of the cluster: two operators deploying at once, two sessions of the tier at once, a
node that dies, the add-ons' own state, the autoscaler's measurements and the load test
that drives it.
