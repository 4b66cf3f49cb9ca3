------------------------- MODULE StackRecovery_proofs -------------------------
(***************************************************************************)
(* What holds of StackLifecycle for the operator whom docs/setup.md        *)
(* addresses: one terminal, and .env edited between commands only.  The    *)
(* exports, the contents of .env, the daemon, the deaths of the container  *)
(* and the number of commands stay arbitrary.                              *)
(***************************************************************************)
EXTENDS StackLifecycle_proofs

OneOperator == ~EditWhileBusy /\ \A t, u \in Terminals : t = u

-----------------------------------------------------------------------------
(* The inductive invariant, beside IInv.                                   *)

\* From the doctor's reading of .env to compose's nobody edits it, and from its
\* reading of the record on nobody discards the volume.  What compose then hands
\* out are the role's credentials where the doctor read them as compose does.
Starting(t) ==
  /\ term[t].pc \in {"probe_volume", "compose_up"} => term[t].file = envFile
  /\ term[t].results[POSTGRES_VOLUME] = OK /\ term[t].seen.kind = VOLUME_FINGERPRINTED =>
       /\ term[t].pc = "compose_up" => Compared(t)
       /\ term[t].pc = "wait" =>
            /\ volume.made
            /\ AlikeFor(t) => /\ client["POSTGRES_USER"] = volume.user
                              /\ client["POSTGRES_PASSWORD"] = volume.password

\* A reset meets no container when it discards the volume, and none makes
\* another one before its own doctor has looked.
Resetting(t) ==
  term[t].goal = "reset" =>
    /\ term[t].pc \in {"discard", "probe_docker", "read_env", "probe_volume"} =>
         postgres.at = "none"
    /\ term[t].pc \in {"probe_docker", "read_env", "probe_volume"} => volume = EmptyVolume
    /\ term[t].results[POSTGRES_VOLUME] # FAIL

SoloInv == \A t \in Terminals : Starting(t) /\ Resetting(t)

-----------------------------------------------------------------------------
(* The surroundings and the container.                                     *)

\* A step that is no terminal's and no edit of .env.
LEMMA VolumeKeepsSolo ==
  ASSUME IInv, SoloInv, NEW t \in Terminals, UNCHANGED <<envFile, client, term, discards>>,
         postgres.at = "none" => UNCHANGED <<postgres, volume>>,
         volume.made => /\ volume'.made
                        /\ volume'.user = volume.user /\ volume'.password = volume.password,
         volume.file = "written" => volume'.file = "written" /\ volume'.salt = volume.salt
  PROVE  Starting(t)' /\ Resetting(t)'
<1>1. Starting(t) /\ Resetting(t)
  BY DEF SoloInv
<1>2. Compared(t) => Compared(t)'
  BY DEF Compared, Rendered
<1>3. Starting(t)'
  <2>1. AlikeFor(t)' = AlikeFor(t)
    BY DEF AlikeFor
  <2> QED
    BY <1>1, <1>2, <2>1 DEF Starting
<1>4. Resetting(t)'
  BY <1>1 DEF Resetting
<1> QED
  BY <1>3, <1>4

LEMMA PostgresKeepsSolo ==
  ASSUME IInv, SoloInv, Postgres, NEW t \in Terminals
  PROVE  Starting(t)' /\ Resetting(t)'
<1>1. UNCHANGED <<envFile, client, term, discards>> /\ postgres.at # "none"
  BY DEF Postgres, InitDb, ServeKept, CreateDb, RecordOpen, RecordWrite, AirflowSql, Proceed
<1>2. volume \in Volumes
  BY DEF IInv, TypeOK
<1>3. /\ volume.made => /\ volume'.made
                        /\ volume'.user = volume.user /\ volume'.password = volume.password
      /\ volume.file = "written" => volume'.file = "written" /\ volume'.salt = volume.salt
  <2>1. CASE InitDb
    <3>1. ~volume.made /\ volume.file # "written"
      BY <2>1 DEF InitDb, Proceed, IInv, FirstInitShape
    <3> QED
      BY <3>1
  <2>2. CASE ServeKept \/ CreateDb \/ AirflowSql
    BY <1>2, <2>2 DEF ServeKept, CreateDb, AirflowSql, Volumes
  <2>3. CASE RecordOpen \/ RecordWrite
    <3>1. CASE UNCHANGED volume
      BY <3>1
    <3>2. CASE ~UNCHANGED volume
      <4>1. postgres.at \in {"record_open", "record_write"}
        BY <2>3 DEF RecordOpen, RecordWrite, Proceed
      <4>2. volume.file # "written"
        BY <4>1 DEF IInv, FirstInitShape, FirstInit
      <4>3. /\ volume'.made = volume.made /\ volume'.user = volume.user
            /\ volume'.password = volume.password
        BY <1>2, <2>3 DEF RecordOpen, RecordWrite, Volumes
      <4> QED
        BY <4>2, <4>3
    <3> QED
      BY <3>1, <3>2
  <2> QED
    BY <2>1, <2>2, <2>3 DEF Postgres
<1> QED
  BY <1>1, <1>3, VolumeKeepsSolo

\* An edit waits for the command to end.
LEMMA SurroundingsKeepSolo ==
  ASSUME OneOperator, IInv, SoloInv, EditEnv \/ DaemonStops \/ DaemonStarts \/ PostgresDies,
         NEW t \in Terminals
  PROVE  Starting(t)' /\ Resetting(t)'
<1>1. CASE EditEnv
  <2>1. term[t].pc = "idle" /\ UNCHANGED <<volume, postgres, client, term>>
    BY <1>1 DEF EditEnv, AllIdle, OneOperator
  <2> QED
    BY <2>1 DEF SoloInv, Starting, Resetting
<1>2. CASE DaemonStops \/ DaemonStarts \/ PostgresDies
  <2>1. /\ UNCHANGED <<envFile, volume, client, term, discards>>
        /\ postgres.at = "none" => UNCHANGED postgres
    BY <1>2 DEF DaemonStops, DaemonStarts, PostgresDies, Killed
  <2> QED
    BY <2>1, VolumeKeepsSolo
<1> QED
  BY <1>1, <1>2

-----------------------------------------------------------------------------
(* The one terminal.                                                       *)

\* The early checks leave the volume's verdict open, or UNKNOWN.
LEMMA EarlyVerdict ==
  ASSUME NEW docker, NEW file, NEW environ
  PROVE  EarlyChecks(docker, file, environ)[POSTGRES_VOLUME] \in {UNKNOWN, NotRun}
BY DEF EarlyChecks, ORDER, RUNTIME, CREDENTIALS, POSTGRES_VOLUME

\* A volume that is not there is never refused.
LEMMA EmptyIsNotRefused ==
  ASSUME NEW seen \in {Unreadable, ReadVolume(EmptyVolume)}, NEW user, NEW password
  PROVE  check_postgres_volume(seen, user, password) # FAIL
<1>1. seen.kind # VOLUME_FINGERPRINTED
  <2>1. Unreadable.kind # VOLUME_FINGERPRINTED
    BY DEF Unreadable, Bare, VOLUME_UNREADABLE, VOLUME_FINGERPRINTED
  <2>2. EmptyVolume.file # "written"
    BY DEF EmptyVolume
  <2> QED
    BY <2>1, <2>2, ReportedAsWritten, EmptyTypes
<1> QED
  BY <1>1 DEF check_postgres_volume, OK, FAIL, UNKNOWN

LEMMA TerminalKeepsSolo ==
  ASSUME OneOperator, IInv, IInv', SoloInv, NEW t \in Terminals, Invoke(t) \/ Continue(t)
  PROVE  Starting(t)' /\ Resetting(t)'
<1>0. /\ term[t] \in Terms /\ volume \in Volumes /\ term \in [Terminals -> Terms]
      /\ Starting(t) /\ Resetting(t)
  BY DEF IInv, TypeOK, SoloInv
<1>f. ASSUME NEW s, Finish(t, s)
      PROVE  /\ term'[t].results = term[t].results /\ term'[t].goal = term[t].goal
             /\ term'[t].pc = "idle"
  BY <1>0, <1>f DEF Finish, Becomes, Terms
<1>r. OK # UNKNOWN /\ OK # NotRun /\ FAIL # UNKNOWN /\ FAIL # NotRun
  BY DEF OK, FAIL, UNKNOWN, NotRun
\* A command that has ended keeps what it concluded.
<1>e. ASSUME NEW s, Finish(t, s) PROVE Starting(t)' /\ Resetting(t)'
  BY <1>0, <1>e, <1>f DEF Starting, Resetting
<1>1. CASE Invoke(t)
  <2>1. PICK goal \in Goals :
          Becomes(t, [Idle EXCEPT !.pc = FirstStep(goal), !.goal = goal])
    BY <1>1 DEF Invoke
  <2>2. /\ term'[t].goal = goal /\ term'[t].pc = FirstStep(goal)
        /\ term'[t].results = Idle.results
    BY <1>0, <2>1 DEF Becomes, Idle
  <2>3. Idle.results[POSTGRES_VOLUME] = NotRun
    BY DEF Idle, ORDER
  <2> QED
    BY <1>r, <2>2, <2>3 DEF Starting, Resetting, FirstStep, Goals
<1>2. CASE ProbeDocker(t)
  <2>1. /\ term'[t].pc = "read_env" /\ term'[t].goal = term[t].goal
        /\ term'[t].results = term[t].results
    BY <1>0, <1>2 DEF ProbeDocker, Becomes, Terms
  <2> QED
    BY <1>0, <1>2, <2>1 DEF ProbeDocker, Starting, Resetting
<1>3. CASE ReadEnv(t)
  <2> DEFINE results == EarlyChecks(term[t].docker, envFile, Exported[t])
             next == [term[t] EXCEPT
                        !.file = envFile, !.results = results,
                        !.pc = IF AnyFail(results) THEN "idle" ELSE "probe_volume",
                        !.outcome = IF AnyFail(results) THEN "refused" ELSE "none"]
  <2>1. term'[t] = next
    BY <1>0, <1>3 DEF ReadEnv, Becomes
  <2>2. results[POSTGRES_VOLUME] \in {UNKNOWN, NotRun}
    BY EarlyVerdict
  <2> HIDE DEF results
  <2>3. /\ term'[t].pc \in {"idle", "probe_volume"} /\ term'[t].file = envFile
        /\ term'[t].goal = term[t].goal /\ term'[t].results = results
    BY <1>0, <2>1 DEF Terms
  <2>4. term[t].pc = "read_env" /\ UNCHANGED <<envFile, volume, postgres>>
    BY <1>3 DEF ReadEnv, Becomes
  <2> QED
    BY <1>0, <1>r, <2>2, <2>3, <2>4 DEF Starting, Resetting
<1>4. CASE ProbeVolume(t)
  <2> DEFINE status(seen) == check_postgres_volume(seen, InHand(t)["POSTGRES_USER"],
                                                         InHand(t)["POSTGRES_PASSWORD"])
             results(seen) == [term[t].results EXCEPT ![POSTGRES_VOLUME] = status(seen)]
             passed(seen) == [term[t] EXCEPT !.seen = seen, !.results = results(seen)]
  <2>1. PICK seen \in {Unreadable}
                      \cup {ReadVolume(v) : v \in {w \in {volume} :
                              daemon = "ready" /\ Renders(envFile, Exported[t])}} :
          \/ Becomes(t, [passed(seen) EXCEPT !.pc = "idle", !.outcome = "refused"])
          \/ Becomes(t, [passed(seen) EXCEPT !.pc = "idle", !.outcome = "passed"])
          \/ Becomes(t, [passed(seen) EXCEPT !.pc = "compose_up"])
    BY <1>4 DEF ProbeVolume
  <2>2. /\ term'[t].seen = seen /\ term'[t].file = term[t].file
        /\ term'[t].goal = term[t].goal
        /\ term'[t].results = results(seen) /\ term'[t].pc \in {"idle", "compose_up"}
    <3> HIDE DEF results
    <3>1. \/ term'[t] = [passed(seen) EXCEPT !.pc = "idle", !.outcome = "refused"]
          \/ term'[t] = [passed(seen) EXCEPT !.pc = "idle", !.outcome = "passed"]
          \/ term'[t] = [passed(seen) EXCEPT !.pc = "compose_up"]
      <4> HIDE DEF passed
      <4> QED
        BY <1>0, <2>1 DEF Becomes
    <3>2. /\ DOMAIN passed(seen) = DOMAIN term[t]
          /\ passed(seen).seen = seen
          /\ passed(seen).file = term[t].file
          /\ passed(seen).goal = term[t].goal
          /\ passed(seen).results = results(seen)
      BY <1>0 DEF Terms
    <3> QED
      BY <1>0, <3>1, <3>2 DEF Terms
  <2>3. term'[t].results[POSTGRES_VOLUME] = status(seen)
    BY <1>0, <2>2 DEF Terms, ORDER
  <2>4. /\ term[t].pc = "probe_volume" /\ term[t].file = envFile
        /\ UNCHANGED <<envFile, volume, postgres, client, discards>>
    BY <1>0, <1>4, <2>1 DEF ProbeVolume, Becomes, Starting
  <2>5. seen.kind = VOLUME_FINGERPRINTED => Compared(t)'
    <3>1. Unreadable.kind # VOLUME_FINGERPRINTED
      BY DEF Unreadable, Bare, VOLUME_UNREADABLE, VOLUME_FINGERPRINTED
    <3>2. SUFFICES ASSUME seen.kind = VOLUME_FINGERPRINTED PROVE Compared(t)'
      OBVIOUS
    <3>3. seen = ReadVolume(volume) /\ Renders(envFile, Exported[t])
      BY <2>1, <3>1, <3>2
    <3>4. volume.file = "written" /\ volume.salt = seen.salt
      BY <1>0, <3>2, <3>3, ReportedAsWritten
    <3> QED
      BY <2>2, <2>4, <3>2, <3>3, <3>4 DEF Compared, Rendered
  <2>6. Starting(t)'
    BY <2>2, <2>4, <2>5 DEF Starting
  <2>7. Resetting(t)'
    <3>1. SUFFICES ASSUME term[t].goal = "reset" PROVE status(seen) # FAIL
      BY <2>2, <2>3 DEF Resetting
    <3>2. volume = EmptyVolume
      BY <1>0, <2>4, <3>1 DEF Resetting
    <3>3. seen \in {Unreadable, ReadVolume(EmptyVolume)}
      BY <2>1, <3>2
    <3> QED
      BY <3>3, EmptyIsNotRefused
  <2> QED
    BY <2>6, <2>7
<1>5. CASE ComposeUp(t)
  <2> DEFINE settings == Handed(envFile, Exported[t])
  <2>1. CASE Finish(t, "failed")
    BY <1>e, <2>1
  <2>2. CASE ~Finish(t, "failed")
    <3>1. Becomes(t, [term[t] EXCEPT !.pc = "wait"]) /\ client' = settings
          /\ term[t].pc = "compose_up" /\ UNCHANGED volume
      BY <1>5, <2>2 DEF ComposeUp
    <3>2. /\ term'[t].pc = "wait" /\ term'[t].goal = term[t].goal
          /\ term'[t].results = term[t].results /\ term'[t].seen = term[t].seen
      BY <1>0, <3>1 DEF Becomes, Terms
    <3>3. Resetting(t)'
      BY <1>0, <3>2 DEF Resetting
    <3>4. Starting(t)'
      <4>1. AlikeFor(t)' = AlikeFor(t)
        <5>1. term'[t].file = term[t].file
          BY <1>0, <3>1 DEF Becomes, Terms
        <5> QED
          BY <5>1 DEF AlikeFor
      <4>2. SUFFICES ASSUME term[t].results[POSTGRES_VOLUME] = OK,
                            term[t].seen.kind = VOLUME_FINGERPRINTED
                     PROVE  /\ volume.made
                            /\ AlikeFor(t) => /\ settings["POSTGRES_USER"] = volume.user
                                              /\ settings["POSTGRES_PASSWORD"] = volume.password
        BY <3>1, <3>2, <4>1 DEF Starting
      <4>3. Compared(t) /\ term[t].file = envFile
        BY <1>0, <3>1, <4>2 DEF Starting
      <4>4. AlikeFor(t) => SameCredentials(t)
        BY <4>2, <4>3, VerdictIsRight
      <4>5. volume.made
        BY <4>3 DEF Compared, IInv, FirstInitShape
      <4> QED
        BY <4>3, <4>4, <4>5 DEF SameCredentials, Offered
    <3> QED
      BY <3>3, <3>4
  <2> QED
    BY <2>1, <2>2
<1>6. CASE Wait(t)
  BY <1>e, <1>6 DEF Wait
<1>7. CASE RemoveContainers(t)
  <2> DEFINE next == AfterRemove(term[t].goal)
             outcome == IF next = "idle" THEN "done" ELSE "none"
  <2>1. CASE Finish(t, "failed")
    BY <1>e, <2>1
  <2>2. CASE ~Finish(t, "failed")
    <3>1. Becomes(t, [term[t] EXCEPT !.pc = next, !.outcome = outcome]) /\ postgres' = NoContainer
      BY <1>7, <2>2 DEF RemoveContainers
    <3>2. next \in {"idle", "discard"}
      BY DEF AfterRemove
    <3> HIDE DEF next, outcome
    <3>3. /\ term'[t].pc = next /\ term'[t].goal = term[t].goal
          /\ term'[t].results = term[t].results
      BY <1>0, <3>1 DEF Becomes, Terms
    <3> QED
      BY <1>0, <3>1, <3>2, <3>3 DEF Starting, Resetting, NoContainer
  <2> QED
    BY <2>1, <2>2
<1>8. CASE DiscardVolume(t)
  <2> DEFINE next == AfterDiscard(term[t].goal)
             outcome == IF next = "idle" THEN "done" ELSE "none"
  <2>1. CASE Finish(t, "failed")
    BY <1>e, <2>1
  <2>2. CASE ~Finish(t, "failed")
    <3>1. /\ Becomes(t, [term[t] EXCEPT !.pc = next, !.outcome = outcome])
          /\ postgres.at = "none" => volume' = EmptyVolume
          /\ UNCHANGED postgres /\ term[t].pc = "discard"
      BY <1>8, <2>2 DEF DiscardVolume
    <3>2. next \in {"idle", "probe_docker"}
      BY DEF AfterDiscard
    <3> HIDE DEF next, outcome
    <3>3. /\ term'[t].pc = next /\ term'[t].goal = term[t].goal
          /\ term'[t].results = term[t].results
      BY <1>0, <3>1 DEF Becomes, Terms
    <3> QED
      BY <1>0, <3>1, <3>2, <3>3 DEF Starting, Resetting
  <2> QED
    BY <2>1, <2>2
<1> QED
  BY <1>1, <1>2, <1>3, <1>4, <1>5, <1>6, <1>7, <1>8 DEF Continue

-----------------------------------------------------------------------------
(* The theorems.                                                           *)

LEMMA NextSolo == OneOperator /\ IInv /\ SoloInv /\ [Next]_vars => SoloInv'
<1> SUFFICES ASSUME OneOperator, IInv, SoloInv, [Next]_vars, NEW t \in Terminals
             PROVE  Starting(t)' /\ Resetting(t)'
  BY DEF SoloInv
<1>1. CASE UNCHANGED vars
  BY <1>1 DEF vars, SoloInv, Starting, Resetting, Compared, Rendered, AlikeFor
<1>2. CASE EditEnv \/ DaemonStops \/ DaemonStarts \/ PostgresDies
  BY <1>2, SurroundingsKeepSolo
<1>3. CASE Postgres
  BY <1>3, PostgresKeepsSolo
<1>4. ASSUME NEW u \in Terminals, Invoke(u) \/ Continue(u)
      PROVE  Starting(t)' /\ Resetting(t)'
  <2>1. u = t
    BY DEF OneOperator
  <2> QED
    BY <1>4, <2>1, NextInv, TerminalKeepsSolo
<1> QED
  BY <1>1, <1>2, <1>3, <1>4 DEF Next

\* With one operator, whatever a doctor read still stands when compose acts on
\* it, and a reset is never caught up with by a container.
THEOREM SoloInvariance == ASSUME OneOperator PROVE Spec => []SoloInv
<1>1. Init => SoloInv
  BY DEF Init, SoloInv, Starting, Resetting, Idle
<1>2. IInv /\ SoloInv /\ [Next]_vars => SoloInv'
  BY NextSolo
<1> QED
  BY <1>1, <1>2, Invariance, PTL DEF Spec

\* A start that a matching record let through hands its clients the role's
\* credentials, of credentials the doctor and compose read alike.
THEOREM StartsAgree == ASSUME OneOperator PROVE Spec => []StartAgreesWithVolume
<1>1. SoloInv => StartAgreesWithVolume
  BY DEF SoloInv, Starting, StartAgreesWithVolume
<1> QED
  BY <1>1, SoloInvariance, PTL

\* The recovery that a refusal names is not refused itself.
THEOREM ResetRecovers == ASSUME OneOperator PROVE Spec => []ResetIsNotRefusedAgain
<1>1. SoloInv => ResetIsNotRefusedAgain
  BY DEF SoloInv, Resetting, ResetIsNotRefusedAgain
<1> QED
  BY <1>1, SoloInvariance, PTL
=============================================================================
