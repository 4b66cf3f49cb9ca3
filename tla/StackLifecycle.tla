---------------------------- MODULE StackLifecycle ----------------------------
(***************************************************************************)
(* The life of the Postgres data volume under the commands of Makefile and *)
(* make.ps1: operators at several terminals run doctor, up, down, clean    *)
(* and reset while .env is edited, the daemon stops and starts, and the    *)
(* Postgres container dies at any point of its first initialisation.       *)
(*                                                                         *)
(* A command is a sequence of steps of its terminal, and steps of the      *)
(* terminals, of Postgres and of the surroundings interleave: the doctor   *)
(* reads the daemon, then .env, then the volume, and compose reads .env    *)
(* once more afterwards.                                                   *)
(***************************************************************************)
EXTENDS Preflight, FiniteSets

CONSTANTS
  Terminals,
  Exported,       \* the environment of each terminal's shell
  EnvFiles,       \* the contents .env may be given
  OldVolume,      \* may the first volume predate the fingerprint?
  EditWhileBusy,  \* may .env be edited while a command runs?
  DaemonMoves,    \* may the daemon stop and start?
  MaxDiscards,    \* bound: clean and reset are asked for below this many discards
  MaxCrashes,     \* bound: deaths of the Postgres container
  AirflowDb       \* the name of Airflow's database

ASSUME LifecycleAssumption ==
  /\ EnvFiles \subseteq EnvFile
  /\ EnvFiles # {}
  /\ Exported \in [Terminals -> Environ]
  /\ OldVolume \in BOOLEAN
  /\ EditWhileBusy \in BOOLEAN
  /\ DaemonMoves \in BOOLEAN
  /\ MaxDiscards \in Nat
  /\ MaxCrashes \in Nat
  /\ AirflowDb \in Values

\* What compose hands to the containers, as far as Postgres has a part in it.
PostgresVars == {"POSTGRES_USER", "POSTGRES_PASSWORD", "POSTGRES_DB"}
Handed(file, environ) == [v \in PostgresVars |-> ComposeSettings(file, environ)[v]]

\* The backend URI of the compose file writes user and password joined by a
\* colon as well, so a role with a colon in its name serves nobody.
ASSUME UserAssumption ==
  \A f \in EnvFiles, t \in Terminals : ColonFree(Handed(f, Exported[t])["POSTGRES_USER"])

VARIABLES
  daemon,    \* the container runtime, as docker info would describe it
  envFile,   \* what .env holds
  volume,    \* the data directory in postgres-data
  postgres,  \* the Postgres container: where its entrypoint is, what it was handed
  client,    \* the settings the MLflow container was handed
  term,      \* what each terminal is doing and what its doctor saw
  discards,  \* volumes discarded so far
  crashes    \* deaths of the Postgres container so far

vars == <<daemon, envFile, volume, postgres, client, term, discards, crashes>>

-----------------------------------------------------------------------------
(* State *)

NoSettings == [v \in PostgresVars |-> Blank]
NoFile     == [v \in Declared |-> Nothing]

\* What compose can make of a .env, and what an earlier checkout started from.
Settings == {Handed(f, Exported[t]) : f \in EnvFiles, t \in Terminals}

\* "version" is a PG_VERSION in the directory, "made" that initdb finished.
EmptyVolume ==
  [version |-> FALSE, made |-> FALSE, user |-> Blank, password |-> Blank, dbs |-> {},
   file |-> "absent", salt |-> NoSalt, digest |-> NoDigest, old |-> FALSE]

\* A volume initialised by a checkout that had no record script yet.
VolumeBefore(s) ==
  [EmptyVolume EXCEPT !.version = TRUE, !.made = TRUE, !.user = s["POSTGRES_USER"],
                      !.password = s["POSTGRES_PASSWORD"],
                      !.dbs = {s["POSTGRES_DB"], AirflowDb}, !.old = TRUE]

Volumes ==
  [version : BOOLEAN, made : BOOLEAN, user : Values, password : Values, dbs : SUBSET Values,
   file : {"absent", "torn", "written"}, salt : Nat, digest : Digests, old : BOOLEAN]

NoContainer == [at |-> "none", settings |-> NoSettings]

\* Points of the entrypoint.  From "create_db" to "airflow_sql" a temporary
\* server accepts no connection from another container.
FirstInit   == {"initdb", "create_db", "record_open", "record_write", "airflow_sql"}
EntryPoints == {"none", "entry", "serving"} \cup FirstInit

Containers == [at : EntryPoints, settings : [PostgresVars -> Values]]

Goals == {"doctor", "up", "down", "clean", "reset"}
Steps == {"idle", "probe_docker", "read_env", "probe_volume", "compose_up", "wait",
          "remove", "discard"}

Idle ==
  [pc |-> "idle", goal |-> "doctor", docker |-> "absent", file |-> NoFile,
   seen |-> Unreadable, results |-> [c \in ORDER |-> NotRun], outcome |-> "none"]

Terms ==
  [pc : Steps, goal : Goals, docker : DockerStates, file : EnvFile, seen : VolumeState,
   results : [ORDER -> {OK, FAIL, UNKNOWN, NotRun}],
   outcome : {"none", "passed", "refused", "started", "failed", "done"}]

\* The credentials a terminal's doctor reasons about.
InHand(t) == effective_value(term[t].file, Exported[t])

Init ==
  /\ daemon \in {"absent", "stopped", "ready"}
  /\ envFile \in EnvFiles
  /\ volume \in {EmptyVolume}
                \cup {VolumeBefore(s) : s \in {r \in Settings :
                         OldVolume /\ \A v \in PostgresVars : r[v] # Blank}}
  /\ postgres = NoContainer
  /\ client = NoSettings
  /\ term = [t \in Terminals |-> Idle]
  /\ discards = 0
  /\ crashes = 0

-----------------------------------------------------------------------------
(* The surroundings *)

AllIdle == \A t \in Terminals : term[t].pc = "idle"

EditEnv ==
  /\ EditWhileBusy \/ AllIdle
  /\ \E f \in EnvFiles \ {envFile} : envFile' = f
  /\ UNCHANGED <<daemon, volume, postgres, client, term, discards, crashes>>

Killed(container) ==
  IF container.at = "none" THEN container ELSE [container EXCEPT !.at = "entry"]

\* Containers die with the daemon and are restarted with it (unless-stopped),
\* with the environment they were created with.
DaemonStops ==
  /\ DaemonMoves
  /\ daemon \in {"half_up", "ready"}
  /\ daemon' = "stopped"
  /\ postgres' = Killed(postgres)
  /\ UNCHANGED <<envFile, volume, client, term, discards, crashes>>

DaemonStarts ==
  /\ \/ daemon = "stopped" /\ daemon' = "half_up"
     \/ daemon = "half_up" /\ daemon' = "ready"
  /\ UNCHANGED <<envFile, volume, postgres, client, term, discards, crashes>>

PostgresDies ==
  /\ daemon = "ready"
  /\ crashes < MaxCrashes
  /\ postgres.at \notin {"none", "entry"}
  /\ postgres' = Killed(postgres)
  /\ crashes' = crashes + 1
  /\ UNCHANGED <<daemon, envFile, volume, client, term, discards>>

-----------------------------------------------------------------------------
(* The Postgres container *)

\* Every step of the container happens under a running daemon, and moves it
\* to the named point of its entrypoint.
Proceed(from, to) ==
  /\ daemon = "ready"
  /\ postgres.at = from
  /\ postgres' = [postgres EXCEPT !.at = to]
  /\ UNCHANGED <<daemon, envFile, client, term, discards, crashes>>

\* initdb writes PG_VERSION first, and at its end there is the superuser role,
\* from the container's variables.
InitDb ==
  \/ /\ ~volume.version
     /\ Proceed("entry", "initdb")
     /\ volume' = [volume EXCEPT !.version = TRUE]
  \/ /\ Proceed("initdb", "create_db")
     /\ volume' = [volume EXCEPT !.made = TRUE, !.user = postgres.settings["POSTGRES_USER"],
                                 !.password = postgres.settings["POSTGRES_PASSWORD"]]

\* A data directory with a PG_VERSION is served as it is: no role, no database
\* and no script, whatever the variables say.  One that initdb did not finish is
\* neither served nor initialised again.
ServeKept ==
  /\ volume.version /\ volume.made
  /\ Proceed("entry", "serving")
  /\ UNCHANGED volume

CreateDb ==
  /\ Proceed("create_db", "record_open")
  /\ volume' = [volume EXCEPT !.dbs = @ \cup {postgres.settings["POSTGRES_DB"]}]

\* 00-record-init-credentials.sh opens the file only with a salt and a digest
\* in hand; without them it says nothing and the initialisation goes on.
RecordOpen ==
  \/ /\ Proceed("record_open", "record_write")
     /\ volume' = [volume EXCEPT !.file = "torn"]
  \/ /\ Proceed("record_open", "airflow_sql")
     /\ UNCHANGED volume

\* Mutant: the script reads .env, which may have changed since the container
\* was created.
DigestOfEnvFile(salt, settings) ==
  <<salt, envFile["POSTGRES_USER"].text \o <<Colon>> \o envFile["POSTGRES_PASSWORD"].text>>

\* The digest printf pipes into sha256sum: salt:user:password.  The salt is
\* fresh for every volume; the number of volumes before it stands for it.
RecordedDigest(salt, settings) ==
  <<salt, settings["POSTGRES_USER"] \o <<Colon>> \o settings["POSTGRES_PASSWORD"]>>

RecordWrite ==
  /\ Proceed("record_write", "airflow_sql")
  /\ volume' = [volume EXCEPT !.file = "written", !.salt = discards + 1,
                              !.digest = RecordedDigest(discards + 1, postgres.settings)]

AirflowSql ==
  /\ Proceed("airflow_sql", "serving")
  /\ volume' = [volume EXCEPT !.dbs = @ \cup {AirflowDb}]

Postgres == InitDb \/ ServeKept \/ CreateDb \/ RecordOpen \/ RecordWrite \/ AirflowSql

-----------------------------------------------------------------------------
(* The terminals *)

\* The step a command starts with, and what follows its compose down.
FirstStep(goal) == IF goal \in {"doctor", "up"} THEN "probe_docker" ELSE "remove"

\* Mutants: down removes volumes as well; reset restarts on the volume it kept.
DownDiscardsToo(goal)   == "discard"
ResetKeepsVolumes(goal) ==
  CASE goal = "down" -> "idle" [] goal = "clean" -> "discard" [] goal = "reset" -> "probe_docker"

AfterRemove(goal) == IF goal = "down" THEN "idle" ELSE "discard"

\* Mutant: reset goes to a step the recipe does not have.
NoSuchStep(goal) == IF goal = "reset" THEN "up" ELSE "idle"

AfterDiscard(goal) == IF goal = "reset" THEN "probe_docker" ELSE "idle"

Becomes(t, next) ==
  /\ term' = [term EXCEPT ![t] = next]
  /\ UNCHANGED <<envFile, daemon, crashes>>

Finish(t, outcome) == Becomes(t, [term[t] EXCEPT !.pc = "idle", !.outcome = outcome])

Invoke(t) ==
  /\ term[t].pc = "idle"
  /\ \E goal \in Goals :
       /\ goal \in {"clean", "reset"} => discards < MaxDiscards
       /\ Becomes(t, [Idle EXCEPT !.pc = FirstStep(goal), !.goal = goal])
  /\ UNCHANGED <<volume, postgres, client, discards>>

\* gather(), first half: docker info.
ProbeDocker(t) ==
  /\ term[t].pc = "probe_docker"
  /\ Becomes(t, [term[t] EXCEPT !.pc = "read_env", !.docker = probe_docker(daemon)])
  /\ UNCHANGED <<volume, postgres, client, discards>>

\* gather(), second half, and the two checks that need no container.
ReadEnv(t) ==
  LET results == EarlyChecks(term[t].docker, envFile, Exported[t])
  IN /\ term[t].pc = "read_env"
     /\ Becomes(t, [term[t] EXCEPT
                      !.file = envFile, !.results = results,
                      !.pc = IF AnyFail(results) THEN "idle" ELSE "probe_volume",
                      !.outcome = IF AnyFail(results) THEN "refused" ELSE "none"])
     /\ UNCHANGED <<volume, postgres, client, discards>>

\* compose run, read_postgres_volume and the last check.  The probe fails when
\* the daemon is gone, when compose refuses the file, and at its timeout.
ProbeVolume(t) ==
  /\ term[t].pc = "probe_volume"
  /\ \E seen \in {Unreadable}
                 \cup {ReadVolume(v) : v \in {w \in {volume} :
                         daemon = "ready" /\ Renders(envFile, Exported[t])}} :
       LET status  == check_postgres_volume(seen, InHand(t)["POSTGRES_USER"],
                                                  InHand(t)["POSTGRES_PASSWORD"])
           results == [term[t].results EXCEPT ![POSTGRES_VOLUME] = status]
           passed  == [term[t] EXCEPT !.seen = seen, !.results = results]
       IN \/ /\ AnyFail(results)
             /\ Becomes(t, [passed EXCEPT !.pc = "idle", !.outcome = "refused"])
          \/ /\ ~AnyFail(results)
             /\ term[t].goal = "doctor"
             /\ Becomes(t, [passed EXCEPT !.pc = "idle", !.outcome = "passed"])
          \/ /\ ~AnyFail(results)
             /\ term[t].goal # "doctor"
             /\ Becomes(t, [passed EXCEPT !.pc = "compose_up"])
  /\ UNCHANGED <<volume, postgres, client, discards>>

\* compose up reads .env again.  A Postgres container whose variables changed is
\* recreated, one that runs with the same is left alone.
ComposeUp(t) ==
  LET settings == Handed(envFile, Exported[t])
      same     == postgres.at # "none" /\ postgres.settings = settings
  IN /\ term[t].pc = "compose_up"
     /\ \/ /\ daemon = "ready" /\ Renders(envFile, Exported[t])
           /\ postgres' = IF same THEN postgres ELSE [at |-> "entry", settings |-> settings]
           /\ client' = settings
           /\ Becomes(t, [term[t] EXCEPT !.pc = "wait"])
        \/ /\ ~(daemon = "ready" /\ Renders(envFile, Exported[t]))
           /\ Finish(t, "failed")
           /\ UNCHANGED <<postgres, client>>
     /\ UNCHANGED <<volume, discards>>

\* Does Postgres let a client in that was handed these settings?
Admits(settings) ==
  /\ daemon = "ready"
  /\ postgres.at = "serving"
  /\ volume.user = settings["POSTGRES_USER"]
  /\ volume.password = settings["POSTGRES_PASSWORD"]
  /\ settings["POSTGRES_DB"] \in volume.dbs

\* Mutant: compose waits for health without a timeout.
WaitForever(t) ==
  /\ term[t].pc = "wait"
  /\ Admits(client)
  /\ Finish(t, "started")
  /\ UNCHANGED <<volume, postgres, client, discards>>

\* --wait returns when everything is healthy.  It fails at --wait-timeout, at
\* the first container that exits, and when the operator interrupts it.
Wait(t) ==
  /\ term[t].pc = "wait"
  /\ \/ Admits(client) /\ Finish(t, "started")
     \/ Finish(t, "failed")
  /\ UNCHANGED <<volume, postgres, client, discards>>

\* compose down: the containers go.  make stops at a command that fails.
RemoveContainers(t) ==
  LET next == AfterRemove(term[t].goal)
  IN /\ term[t].pc = "remove"
     /\ \/ /\ daemon = "ready"
           /\ postgres' = NoContainer
           /\ client' = NoSettings
           /\ Becomes(t, [term[t] EXCEPT
                            !.pc = next, !.outcome = IF next = "idle" THEN "done" ELSE "none"])
        \/ /\ daemon # "ready"
           /\ Finish(t, "failed")
           /\ UNCHANGED <<postgres, client>>
     /\ UNCHANGED <<volume, discards>>

\* --volumes: a volume a container still uses is left, with a warning.
DiscardVolume(t) ==
  LET next == AfterDiscard(term[t].goal)
      go   == Becomes(t, [term[t] EXCEPT
                            !.pc = next, !.outcome = IF next = "idle" THEN "done" ELSE "none"])
  IN /\ term[t].pc = "discard"
     /\ \/ /\ daemon = "ready" /\ postgres.at = "none"
           /\ volume' = EmptyVolume
           /\ discards' = discards + 1
           /\ go
        \/ /\ daemon = "ready" /\ postgres.at # "none"
           /\ go
           /\ UNCHANGED <<volume, discards>>
        \/ /\ daemon # "ready"
           /\ Finish(t, "failed")
           /\ UNCHANGED <<volume, discards>>
     /\ UNCHANGED <<postgres, client>>

Continue(t) ==
  \/ ProbeDocker(t) \/ ReadEnv(t) \/ ProbeVolume(t) \/ ComposeUp(t) \/ Wait(t)
  \/ RemoveContainers(t) \/ DiscardVolume(t)

-----------------------------------------------------------------------------
Next ==
  \/ EditEnv \/ DaemonStops \/ DaemonStarts \/ PostgresDies
  \/ Postgres
  \/ \E t \in Terminals : Invoke(t) \/ Continue(t)

\* A command that was started runs on, and so does the entrypoint.  Nothing
\* makes an operator type, a daemon start or a container die.
Fairness ==
  /\ WF_vars(Postgres)
  /\ \A t \in Terminals : WF_vars(Continue(t))

Spec     == Init /\ [][Next]_vars
FairSpec == Spec /\ Fairness

-----------------------------------------------------------------------------
(* Properties *)

\* Every variable stays in its set.
TypeOK ==
  /\ daemon \in DaemonStates
  /\ envFile \in EnvFiles
  /\ volume \in Volumes
  /\ postgres \in Containers
  /\ client \in [PostgresVars -> Values]
  /\ term \in [Terminals -> Terms]
  /\ discards \in Nat
  /\ crashes \in Nat

\* The record in the volume is the digest of the credentials its role really
\* has, and carries the salt of this volume: whatever .env says by now, and
\* wherever the first initialisation was interrupted or its container replaced
\* (00-record-init-credentials.sh runs once, beside initdb).
RecordTellsTheTruth ==
  volume.file = "written" =>
    /\ volume.digest = fingerprint(volume.salt, volume.user, volume.password)
    /\ volume.salt = discards + 1

\* The settings compose makes of the .env that t's doctor read, if it makes any,
\* and whether it makes the same as the doctor of what the record is about.
Offered(t)  == Handed(term[t].file, Exported[t])
Rendered(t) == Renders(term[t].file, Exported[t])
AlikeFor(t) ==
  \A v \in {"POSTGRES_USER", "POSTGRES_PASSWORD"} : Alike(v, term[t].file, Exported[t])

\* Terminal t compared credentials compose can render with the record of the
\* volume in place now.
Compared(t) ==
  /\ term[t].seen.kind = VOLUME_FINGERPRINTED
  /\ Rendered(t)
  /\ volume.file = "written"
  /\ volume.salt = term[t].seen.salt

SameCredentials(t) ==
  /\ Offered(t)["POSTGRES_USER"] = volume.user
  /\ Offered(t)["POSTGRES_PASSWORD"] = volume.password

\* As long as the volume the doctor compared is the one in place, its OK means
\* that what compose makes of the file it read are the credentials of the role
\* (checks.py, "do the credentials in hand match the ones the data directory was
\* built with?"), of credentials the doctor and compose read alike.
OkIsRight ==
  \A t \in Terminals :
    /\ Compared(t) /\ AlikeFor(t)
    /\ term[t].results[POSTGRES_VOLUME] = OK
    => SameCredentials(t)

\* And its FAIL, which names make reset as the way out, that they are not: of
\* credentials that are read alike, a working volume is never refused.
RefusalIsRight ==
  \A t \in Terminals :
    /\ Compared(t) /\ AlikeFor(t)
    /\ term[t].results[POSTGRES_VOLUME] = FAIL
    => ~SameCredentials(t)

\* The data directory disappears only while somebody who asked for clean or
\* reset is at work: no other command, and no refusal, ends in its loss.
OnlyCleanDiscards ==
  [][volume.version /\ ~volume'.version =>
       \E t \in Terminals : /\ term[t].pc # "idle"
                            /\ term[t].goal \in {"clean", "reset"}]_vars

RoleOf(s) == [user |-> s["POSTGRES_USER"], password |-> s["POSTGRES_PASSWORD"]]

RolesOf(v) == IF v.made THEN {[user |-> v.user, password |-> v.password]} ELSE {}
RecordOf(v) ==
  CASE v.file = "absent" -> "none"
    [] v.file = "torn" -> "torn"
    [] v.file = "written" ->
         IF v.digest = fingerprint(v.salt, v.user, v.password) THEN "true" ELSE "false"

Promise ==
  INSTANCE VolumePromise WITH
    Credentials <- {RoleOf(s) : s \in Settings},
    Databases <- {s["POSTGRES_DB"] : s \in Settings},
    begun <- volume.version,
    roles <- RolesOf(volume),
    dbs <- volume.dbs,
    record <- RecordOf(volume),
    making <- postgres.at \in FirstInit,
    asked <- \E t \in Terminals : term[t].pc # "idle" /\ term[t].goal \in {"clean", "reset"}

\* The volume is made once and in order, by one container out of what it was
\* handed, and is never repaired, completed or changed afterwards, through any
\* deaths, also inside initdb, recreations and edits
\* (00-record-init-credentials.sh, "this runs exactly once").
VolumeIsMadeOnce == Promise!Spec

\* With one operator who edits .env between commands, a start the doctor let
\* through because the record matched hands its clients the credentials of the
\* role, whatever the daemon and the container did in between, of credentials
\* the doctor and compose read alike.
StartAgreesWithVolume ==
  \A t \in Terminals :
    /\ term[t].pc = "wait" /\ AlikeFor(t)
    /\ term[t].results[POSTGRES_VOLUME] = OK
    /\ term[t].seen.kind = VOLUME_FINGERPRINTED
    => /\ client["POSTGRES_USER"] = volume.user
       /\ client["POSTGRES_PASSWORD"] = volume.password

\* The recovery the doctor names works: with one operator, a reset is never
\* refused by the check that asked for it ("clean first, so the recovery
\* cannot half-happen").
ResetIsNotRefusedAgain ==
  \A t \in Terminals :
    term[t].goal = "reset" => term[t].results[POSTGRES_VOLUME] # FAIL

\* Every command ends: timeouts bound the probes and the wait.
CommandsEnd ==
  \A t \in Terminals : term[t].pc # "idle" ~> term[t].pc = "idle"

\* Whatever deaths made of the volume before, a directory initdb did not finish
\* and a missing database among it, a reset that got past its doctor ends, with one
\* operator, in a stack that admits its clients and Airflow and has no torn record,
\* unless a death, the daemon or another command is in the way again ("the
\* recovery cannot half-happen").
ResetMakesWhole ==
  \A t \in Terminals, n \in 0..MaxCrashes :
    term[t].goal = "reset" /\ term[t].pc = "compose_up" /\ Rendered(t) /\ crashes = n
    ~> \/ Admits(client) /\ AirflowDb \in volume.dbs /\ volume.file # "torn"
       \/ crashes # n \/ daemon # "ready"
       \/ term[t].pc \notin {"compose_up", "wait", "idle"}

-----------------------------------------------------------------------------
(* What the documentation says and the code does not do *)

\* "On a volume created from this code onwards, expect OK: empty before the
\* first up, then matched on every start after it" and "this volume predates
\* the fingerprint": a volume served without a record is an old one.
UnrecordedMeansOld ==
  \A t \in Terminals :
    /\ term[t].pc = "wait"
    /\ term[t].seen.kind = VOLUME_UNFINGERPRINTED
    /\ postgres.at = "serving"
    /\ volume.file = "absent"
    => volume.old

\* "The failures worth catching before an up are the ones where the file on
\* disk and the state in the volume disagree, and only the first-init half can
\* disagree": OK on a kept volume means no first-init variable disagrees.
OkMeansFirstInitAgrees ==
  \A t \in Terminals :
    /\ term[t].pc = "wait"
    /\ term[t].results[POSTGRES_VOLUME] = OK
    /\ term[t].seen.kind = VOLUME_FINGERPRINTED
    => client["POSTGRES_DB"] \in volume.dbs

\* credentials.py says effective_value is "the value compose would interpolate,
\* resolved the way compose resolves it", lest it "call a working stack broken":
\* no refusal is of credentials compose makes those of the role out of.
WorkingVolumeIsNeverRefused ==
  \A t \in Terminals :
    Compared(t) /\ term[t].results[POSTGRES_VOLUME] = FAIL => ~SameCredentials(t)
=============================================================================
