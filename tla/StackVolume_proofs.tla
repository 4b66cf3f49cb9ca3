-------------------------- MODULE StackVolume_proofs --------------------------
(***************************************************************************)
(* StackLifecycle implements VolumePromise, whatever the terminals, the    *)
(* edits, the daemon and the deaths of the container do: the volume is     *)
(* made once, in order, and stays as it was left.                          *)
(***************************************************************************)
EXTENDS StackRecovery_proofs

(* The inductive invariant, beside IInv.                                   *)

\* A container has the settings some compose made, and a directory without a
\* PG_VERSION has nothing else either.
HandedDown ==
  /\ postgres.at # "none" => postgres.settings \in Settings
  /\ ~volume.version => volume = EmptyVolume

\* At each point of the first initialisation the directory holds what the
\* points before it made, and nothing of those after it; what is served was
\* finished.
InOrder ==
  /\ postgres.at \in {"initdb", "create_db"} => volume.dbs = {}
  /\ postgres.at \in FirstInit \ {"initdb", "create_db"} => volume.dbs # {}
  /\ postgres.at \in {"initdb", "create_db", "record_open"} => volume.file = "absent"
  /\ postgres.at = "record_write" => volume.file = "torn"
  /\ postgres.at = "airflow_sql" => volume.file # "torn"
  /\ postgres.at = "serving" => volume.version /\ volume.made

\* A record stands beside a database, and an earlier checkout left none: the
\* first initialisation of such a directory is over.
Recorded ==
  /\ volume.file = "written" => volume.dbs # {}
  /\ volume.old => volume.file = "absent" /\ postgres.at \notin FirstInit

OrderInv == HandedDown /\ InOrder /\ Recorded

-----------------------------------------------------------------------------
LEMMA InitOrder == Init => OrderInv
<1> SUFFICES ASSUME Init PROVE OrderInv
  OBVIOUS
<1>1. ASSUME NEW s \in Settings PROVE VolumeBefore(s).version
  BY DEF VolumeBefore, EmptyVolume
<1>2. volume = EmptyVolume \/ volume.version
  BY <1>1 DEF Init
<1>3. HandedDown
  BY <1>2 DEF Init, HandedDown, NoContainer
<1>4. InOrder
  BY DEF Init, InOrder, NoContainer, FirstInit
<1>5. Recorded
  <2>1. ASSUME NEW s \in Settings PROVE VolumeBefore(s).file = "absent"
    BY DEF VolumeBefore, EmptyVolume
  <2>2. volume.file = "absent"
    BY <2>1 DEF Init, EmptyVolume
  <2> QED
    BY <2>2 DEF Init, Recorded, NoContainer, FirstInit
<1> QED
  BY <1>3, <1>4, <1>5 DEF OrderInv

\* A step that leaves the volume alone, and the container where it was, killed
\* or replaced.
LEMMA OrderStands ==
  ASSUME OrderInv, UNCHANGED volume,
         postgres'.at \in {postgres.at, "none", "entry"},
         postgres'.at # "none" => postgres'.settings \in Settings
  PROVE  OrderInv'
<1>1. HandedDown'
  BY DEF OrderInv, HandedDown
<1>2. InOrder'
  BY DEF OrderInv, InOrder, FirstInit
<1>3. Recorded'
  BY DEF OrderInv, Recorded, FirstInit
<1> QED
  BY <1>1, <1>2, <1>3 DEF OrderInv

LEMMA SurroundingsKeepOrder ==
  ASSUME TypeOK, OrderInv, EditEnv \/ DaemonStops \/ DaemonStarts \/ PostgresDies
  PROVE  OrderInv'
<1>1. UNCHANGED volume
  BY DEF EditEnv, DaemonStops, DaemonStarts, PostgresDies
<1>2. /\ postgres'.at \in {postgres.at, "entry"}
      /\ postgres'.settings = postgres.settings
      /\ postgres.at = "none" => postgres'.at = "none"
  BY DEF EditEnv, DaemonStops, DaemonStarts, PostgresDies, Killed, TypeOK, Containers
<1>3. postgres'.at # "none" => postgres'.settings \in Settings
  BY <1>2 DEF OrderInv, HandedDown
<1> QED
  BY <1>1, <1>2, <1>3, OrderStands

\* What each step of the entrypoint does to the directory.
LEMMA EntrypointMoves ==
  ASSUME TypeOK, OrderInv, Postgres
  PROVE  /\ postgres'.settings = postgres.settings
         /\ \/ /\ InitDb
               /\ postgres.at = "entry" /\ postgres'.at = "initdb"
               /\ volume = EmptyVolume
               /\ volume' = [volume EXCEPT !.version = TRUE]
            \/ /\ InitDb
               /\ postgres.at = "initdb" /\ postgres'.at = "create_db"
               /\ volume'.version = volume.version /\ volume'.dbs = volume.dbs
               /\ volume'.file = volume.file /\ volume'.made
               /\ volume'.user = postgres.settings["POSTGRES_USER"]
               /\ volume'.password = postgres.settings["POSTGRES_PASSWORD"]
            \/ /\ postgres.at = "entry" /\ postgres'.at = "serving"
               /\ volume.version /\ volume.made /\ UNCHANGED volume
            \/ /\ postgres.at = "create_db" /\ postgres'.at = "record_open"
               /\ volume' = [volume EXCEPT !.dbs = {postgres.settings["POSTGRES_DB"]}]
            \/ /\ postgres.at = "record_open" /\ postgres'.at = "record_write"
               /\ volume' = [volume EXCEPT !.file = "torn"]
            \/ postgres.at = "record_open" /\ postgres'.at = "airflow_sql" /\ UNCHANGED volume
            \/ /\ RecordWrite
               /\ postgres.at = "record_write" /\ postgres'.at = "airflow_sql"
               /\ volume'.version = volume.version /\ volume'.made = volume.made
               /\ volume'.dbs = volume.dbs
               /\ volume'.user = volume.user /\ volume'.password = volume.password
               /\ volume'.file = "written"
            \/ /\ postgres.at = "airflow_sql" /\ postgres'.at = "serving"
               /\ volume' = [volume EXCEPT !.dbs = volume.dbs \cup {AirflowDb}]
<1> USE DEF Proceed, TypeOK, Containers
<1>1. postgres'.settings = postgres.settings
  BY DEF Postgres, InitDb, ServeKept, CreateDb, RecordOpen, RecordWrite, AirflowSql
<1>2. CASE InitDb
  <2>1. CASE ~volume.version /\ Proceed("entry", "initdb")
             /\ volume' = [volume EXCEPT !.version = TRUE]
    <3>1. postgres.at = "entry" /\ postgres'.at = "initdb"
      BY <2>1
    <3>2. volume = EmptyVolume
      BY <2>1 DEF OrderInv, HandedDown
    <3> QED
      BY <1>1, <1>2, <2>1, <3>1, <3>2
  <2>2. CASE /\ Proceed("initdb", "create_db")
             /\ volume' = [volume EXCEPT !.made = TRUE,
                              !.user = postgres.settings["POSTGRES_USER"],
                              !.password = postgres.settings["POSTGRES_PASSWORD"]]
    <3>1. postgres.at = "initdb" /\ postgres'.at = "create_db"
      BY <2>2
    <3>2. /\ volume'.version = volume.version /\ volume'.dbs = volume.dbs
          /\ volume'.file = volume.file /\ volume'.made
          /\ volume'.user = postgres.settings["POSTGRES_USER"]
          /\ volume'.password = postgres.settings["POSTGRES_PASSWORD"]
      BY <2>2 DEF Volumes
    <3> QED
      BY <1>1, <1>2, <3>1, <3>2
  <2> QED
    BY <1>2, <2>1, <2>2 DEF InitDb
<1>3. CASE ServeKept
  BY <1>1, <1>3 DEF ServeKept
<1>4. CASE CreateDb
  <2>1. postgres.at = "create_db" /\ postgres'.at = "record_open"
    BY <1>4 DEF CreateDb
  <2>2. volume.dbs \cup {postgres.settings["POSTGRES_DB"]} = {postgres.settings["POSTGRES_DB"]}
    BY <2>1 DEF OrderInv, InOrder
  <2> QED
    BY <1>1, <1>4, <2>1, <2>2 DEF CreateDb
<1>5. CASE RecordOpen
  BY <1>1, <1>5 DEF RecordOpen
<1>6. CASE RecordWrite
  <2>1. postgres.at = "record_write" /\ postgres'.at = "airflow_sql"
    BY <1>6 DEF RecordWrite
  <2>2. /\ volume'.version = volume.version /\ volume'.made = volume.made
        /\ volume'.dbs = volume.dbs
        /\ volume'.user = volume.user /\ volume'.password = volume.password
        /\ volume'.file = "written"
    BY <1>6 DEF RecordWrite, Volumes
  <2> QED
    BY <1>1, <1>6, <2>1, <2>2
<1>7. CASE AirflowSql
  BY <1>1, <1>7 DEF AirflowSql
<1> QED
  BY <1>2, <1>3, <1>4, <1>5, <1>6, <1>7 DEF Postgres

LEMMA PostgresKeepsOrder ==
  ASSUME TypeOK, FirstInitShape, OrderInv, Postgres
  PROVE  OrderInv'
<1>0. /\ postgres.at \in FirstInit => volume.version
      /\ postgres.at \in FirstInit \ {"initdb"} => volume.made
  BY DEF FirstInitShape, FirstInit
<1>1. postgres.at # "none" /\ postgres'.settings \in Settings
  <2>1. postgres.at # "none"
    BY DEF Postgres, InitDb, ServeKept, CreateDb, RecordOpen, RecordWrite, AirflowSql, Proceed
  <2> QED
    BY <2>1, EntrypointMoves DEF OrderInv, HandedDown
<1>2. HandedDown'
  <2>1. volume.version => volume'.version
    BY EntrypointMoves DEF TypeOK, Volumes
  <2>2. UNCHANGED volume \/ volume'.version
    BY <1>0, EntrypointMoves DEF TypeOK, Volumes, FirstInit
  <2> QED
    BY <1>1, <2>1, <2>2 DEF OrderInv, HandedDown
<1>3. InOrder'
  BY <1>0, EntrypointMoves DEF EmptyVolume, OrderInv, InOrder, FirstInit, TypeOK, Volumes
<1>4. Recorded'
  <2>1. volume'.old = volume.old
    <3>1. volume.old \in BOOLEAN /\ volume \in Volumes
      BY DEF TypeOK, Volumes
    <3> QED
      BY <3>1 DEF Postgres, InitDb, ServeKept, CreateDb, RecordOpen, RecordWrite, AirflowSql,
                  Volumes
  <2>2. volume.old => volume.file = "absent" /\ postgres.at = "entry"
    BY EntrypointMoves DEF OrderInv, Recorded, FirstInit
  <2> QED
    BY <2>1, <2>2, EntrypointMoves DEF OrderInv, InOrder, Recorded, FirstInit, TypeOK, Volumes,
       EmptyVolume
<1> QED
  BY <1>2, <1>3, <1>4 DEF OrderInv

\* A terminal makes a container out of a .env, removes it, or discards the
\* volume whole.
LEMMA TerminalKeepsOrder ==
  ASSUME TypeOK, OrderInv, NEW t \in Terminals, Invoke(t) \/ Continue(t)
  PROVE  OrderInv'
<1>1. CASE Invoke(t) \/ ProbeDocker(t) \/ ReadEnv(t) \/ ProbeVolume(t) \/ Wait(t)
  BY <1>1, OrderStands
  DEF Invoke, ProbeDocker, ReadEnv, ProbeVolume, Wait, OrderInv, HandedDown
<1>2. CASE ComposeUp(t)
  <2> DEFINE settings == Handed(envFile, Exported[t])
  <2>1. settings \in Settings
    BY DEF Settings, TypeOK
  <2>2. postgres' \in {postgres, [at |-> "entry", settings |-> settings]} /\ UNCHANGED volume
    BY <1>2 DEF ComposeUp
  <2> HIDE DEF settings
  <2> QED
    BY <2>1, <2>2, OrderStands DEF OrderInv, HandedDown
<1>3. CASE RemoveContainers(t)
  BY <1>3, OrderStands DEF RemoveContainers, NoContainer, OrderInv, HandedDown
<1>4. CASE DiscardVolume(t)
  <2>1. CASE UNCHANGED <<volume, postgres>>
    BY <2>1, OrderStands DEF OrderInv, HandedDown
  <2>2. CASE volume' = EmptyVolume /\ postgres.at = "none" /\ UNCHANGED postgres
    BY <2>2 DEF OrderInv, HandedDown, InOrder, Recorded, FirstInit, EmptyVolume
  <2> QED
    BY <1>4, <2>1, <2>2 DEF DiscardVolume
<1> QED
  BY <1>1, <1>2, <1>3, <1>4 DEF Continue

LEMMA NextOrder == IInv /\ OrderInv /\ [Next]_vars => OrderInv'
<1> SUFFICES ASSUME IInv, OrderInv, [Next]_vars PROVE OrderInv'
  OBVIOUS
<1>1. TypeOK /\ FirstInitShape
  BY DEF IInv
<1>2. CASE UNCHANGED vars
  BY <1>2 DEF vars, OrderInv, HandedDown, InOrder, Recorded
<1>3. CASE EditEnv \/ DaemonStops \/ DaemonStarts \/ PostgresDies
  BY <1>1, <1>3, SurroundingsKeepOrder
<1>4. CASE Postgres
  BY <1>1, <1>4, PostgresKeepsOrder
<1>5. ASSUME NEW t \in Terminals, Invoke(t) \/ Continue(t) PROVE OrderInv'
  BY <1>1, <1>5, TerminalKeepsOrder
<1> QED
  BY <1>2, <1>3, <1>4, <1>5 DEF Next

\* The directory holds what the points of the entrypoint made so far, in order.
THEOREM MadeInOrder == Spec => []OrderInv
<1> QED
  BY InitOrder, NextOrder, Invariance, PTL DEF Spec

-----------------------------------------------------------------------------
(* Step by step                                                            *)

Making == postgres.at \in FirstInit
Asked  == \E t \in Terminals : term[t].pc # "idle" /\ term[t].goal \in {"clean", "reset"}
Shown  == <<volume.version, RolesOf(volume), volume.dbs, RecordOf(volume), Making, Asked>>

\* A step that leaves the directory alone at most cuts its making short.
LEMMA DirectoryRests ==
  ASSUME UNCHANGED volume, Making' => Making
  PROVE  Promise!Next
<1>1. UNCHANGED <<volume.version, RolesOf(volume), volume.dbs, RecordOf(volume)>>
  BY DEF RolesOf, RecordOf
<1>2. Asked' \in BOOLEAN
  BY DEF Asked
<1>3. CASE Making' = Making
  BY <1>1, <1>2, <1>3 DEF Promise!Next, Promise!Ask, Making, Asked
<1>4. CASE Making /\ ~Making'
  BY <1>1, <1>2, <1>4 DEF Promise!Next, Promise!CutShort, Making, Asked
<1> QED
  BY <1>3, <1>4 DEF Making

LEMMA SurroundingsImplement ==
  ASSUME TypeOK, EditEnv \/ DaemonStops \/ DaemonStarts \/ PostgresDies
  PROVE  Promise!Next
<1>1. UNCHANGED volume
  BY DEF EditEnv, DaemonStops, DaemonStarts, PostgresDies
<1>2. postgres'.at \in {postgres.at, "entry"}
  BY DEF EditEnv, DaemonStops, DaemonStarts, PostgresDies, Killed, TypeOK, Containers
<1>3. Making' => Making
  BY <1>2 DEF Making, FirstInit
<1> QED
  BY <1>1, <1>3, DirectoryRests

\* The entrypoint makes the role, the database, the record and Airflow's
\* database, each where nothing was or where the record is torn.
LEMMA PostgresImplements ==
  ASSUME IInv, RecordTellsTheTruth', OrderInv, Postgres
  PROVE  Promise!Next
<1>0. TypeOK /\ volume \in Volumes
  BY DEF IInv, TypeOK
<1>1. UNCHANGED <<term, Asked>> /\ postgres.settings \in Settings
  BY DEF Postgres, InitDb, ServeKept, CreateDb, RecordOpen, RecordWrite, AirflowSql, Proceed,
         OrderInv, HandedDown, Asked, Settings
<1>2. ASSUME volume = EmptyVolume, postgres'.at = "initdb",
             volume' = [volume EXCEPT !.version = TRUE]
      PROVE  Promise!Next
  <2>1. ~volume.version /\ volume'.version = TRUE
    BY <1>0, <1>2 DEF EmptyVolume, Volumes
  <2>2. UNCHANGED <<RolesOf(volume), volume.dbs, RecordOf(volume)>>
    BY <1>2 DEF RolesOf, RecordOf, EmptyVolume
  <2>3. Making' = TRUE
    BY <1>2 DEF Making, FirstInit
  <2> QED
    BY <1>1, <2>1, <2>2, <2>3 DEF Promise!Next, Promise!Begin, Making, Asked
<1>3. ASSUME postgres.at = "initdb", postgres'.at = "create_db",
             volume'.version = volume.version, volume'.dbs = volume.dbs,
             volume'.file = volume.file, volume'.made,
             volume'.user = postgres.settings["POSTGRES_USER"],
             volume'.password = postgres.settings["POSTGRES_PASSWORD"]
      PROVE  Promise!Next
  <2>1. /\ RolesOf(volume) = {} /\ RolesOf(volume)' = {RoleOf(postgres.settings)}
        /\ RoleOf(postgres.settings) \in {RoleOf(s) : s \in Settings}
    BY <1>1, <1>3 DEF RolesOf, RoleOf, IInv, FirstInitShape
  <2>2. volume.file = "absent"
    BY <1>3 DEF OrderInv, InOrder
  <2>3. UNCHANGED <<volume.version, volume.dbs, RecordOf(volume)>> /\ Making /\ Making'
    BY <1>3, <2>2 DEF RecordOf, Making, FirstInit
  <2> QED
    BY <1>1, <2>1, <2>3 DEF Promise!Next, Promise!MakeRole, Making, Asked
<1>4. ASSUME postgres.at = "create_db", postgres'.at = "record_open",
             volume' = [volume EXCEPT !.dbs = {postgres.settings["POSTGRES_DB"]}]
      PROVE  Promise!Next
  <2>1. /\ volume.dbs = {}
        /\ volume'.dbs = {postgres.settings["POSTGRES_DB"]}
        /\ postgres.settings["POSTGRES_DB"] \in {s["POSTGRES_DB"] : s \in Settings}
    BY <1>0, <1>1, <1>4 DEF OrderInv, InOrder, Volumes
  <2>2. UNCHANGED <<volume.version, RolesOf(volume), RecordOf(volume)>> /\ Making /\ Making'
    BY <1>0, <1>4 DEF RolesOf, RecordOf, Making, FirstInit, Volumes
  <2>3. RolesOf(volume) # {}
    BY <1>4 DEF RolesOf, IInv, FirstInitShape, FirstInit
  <2> QED
    BY <1>1, <2>1, <2>2, <2>3 DEF Promise!Next, Promise!MakeDb, Making, Asked
<1>5. ASSUME postgres.at = "record_open", postgres'.at = "record_write",
             volume' = [volume EXCEPT !.file = "torn"]
      PROVE  Promise!Next
  <2>1. /\ UNCHANGED <<volume.version, RolesOf(volume), volume.dbs>> /\ volume.dbs # {}
        /\ RecordOf(volume) = "none" /\ RecordOf(volume)' = "torn"
    BY <1>0, <1>5 DEF RolesOf, RecordOf, Volumes, OrderInv, InOrder, FirstInit
  <2>2. Making /\ Making'
    BY <1>5 DEF Making, FirstInit
  <2> QED
    BY <1>1, <2>1, <2>2 DEF Promise!Next, Promise!OpenRecord, Making, Asked
<1>6. ASSUME postgres.at = "record_write", postgres'.at = "airflow_sql",
             volume'.version = volume.version, volume'.made = volume.made,
             volume'.dbs = volume.dbs, volume'.user = volume.user,
             volume'.password = volume.password,
             volume'.file = "written"
      PROVE  Promise!Next
  <2>1. /\ UNCHANGED <<volume.version, RolesOf(volume), volume.dbs>>
        /\ RecordOf(volume) = "torn" /\ RecordOf(volume)' = "true"
    BY <1>6 DEF RolesOf, RecordOf, OrderInv, InOrder, RecordTellsTheTruth
  <2>2. Making /\ Making'
    BY <1>6 DEF Making, FirstInit
  <2> QED
    BY <1>1, <2>1, <2>2 DEF Promise!Next, Promise!FillRecord, Making, Asked
<1>7. ASSUME postgres.at = "airflow_sql", postgres'.at = "serving",
             volume' = [volume EXCEPT !.dbs = volume.dbs \cup {AirflowDb}]
      PROVE  Promise!Next
  <2>1. /\ UNCHANGED <<volume.version, RolesOf(volume), RecordOf(volume)>>
        /\ volume.dbs # {} /\ volume'.dbs = volume.dbs \cup {AirflowDb}
        /\ RecordOf(volume) # "torn"
    BY <1>0, <1>7 DEF RolesOf, RecordOf, Volumes, OrderInv, InOrder, FirstInit
  <2>2. Making /\ Making' = FALSE
    BY <1>7 DEF Making, FirstInit
  <2> QED
    BY <1>1, <2>1, <2>2 DEF Promise!Next, Promise!Complete, Making, Asked
<1>8. ASSUME UNCHANGED volume, \/ postgres'.at = "serving"
                               \/ postgres.at \in FirstInit
      PROVE  Promise!Next
  BY <1>8, DirectoryRests DEF Making, FirstInit
<1> QED
  <2> HIDE DEF OrderInv
  <2> QED
    BY <1>0, <1>2, <1>3, <1>4, <1>5, <1>6, <1>7, <1>8, EntrypointMoves DEF FirstInit

\* Only a clean or a reset discards the directory, with no container beside it.
LEMMA TerminalImplements ==
  ASSUME IInv, NEW t \in Terminals, Invoke(t) \/ Continue(t)
  PROVE  Promise!Next
<1>1. CASE DiscardVolume(t)
  <2>1. Asked
    BY <1>1 DEF DiscardVolume, IInv, Removing, Asked
  <2>2. CASE UNCHANGED <<volume, postgres>>
    BY <2>2, DirectoryRests DEF Making
  <2>3. CASE volume' = EmptyVolume /\ postgres.at = "none" /\ UNCHANGED postgres
    <3>1. /\ volume'.version = FALSE /\ RolesOf(volume)' = {} /\ volume'.dbs = {} /\ RecordOf(volume)' = "none"
      BY <2>3 DEF RolesOf, RecordOf, EmptyVolume
    <3>2. ~Making /\ UNCHANGED Making /\ Asked' \in BOOLEAN
      BY <2>3 DEF Making, FirstInit, Asked
    <3> QED
      BY <2>1, <3>1, <3>2 DEF Promise!Next, Promise!Discard, Making, Asked
  <2> QED
    BY <1>1, <2>2, <2>3 DEF DiscardVolume
<1>2. CASE Invoke(t) \/ ProbeDocker(t) \/ ReadEnv(t) \/ ProbeVolume(t) \/ Wait(t)
  BY <1>2, DirectoryRests DEF Invoke, ProbeDocker, ReadEnv, ProbeVolume, Wait, Making
<1>3. CASE ComposeUp(t) \/ RemoveContainers(t)
  <2>1. UNCHANGED volume /\ (UNCHANGED postgres \/ postgres'.at \in {"entry", "none"})
    <3>1. CASE ComposeUp(t)
      BY <3>1 DEF ComposeUp
    <3>2. CASE RemoveContainers(t)
      BY <3>2 DEF RemoveContainers, NoContainer
    <3> QED
      BY <1>3, <3>1, <3>2
  <2> QED
    BY <2>1, DirectoryRests DEF Making, FirstInit
<1> QED
  BY <1>1, <1>2, <1>3 DEF Continue

LEMMA StartImplements == Init => Promise!Init
<1> SUFFICES ASSUME Init PROVE Promise!Init
  OBVIOUS
<1>1. ~Making /\ ~Asked
  BY DEF Init, Making, Asked, NoContainer, FirstInit, Idle
<1>2. CASE volume = EmptyVolume
  <2>1. volume.version = FALSE /\ RolesOf(volume) = {} /\ volume.dbs = {} /\ RecordOf(volume) = "none"
    BY <1>2 DEF RolesOf, RecordOf, EmptyVolume
  <2> QED
    BY <1>1, <2>1 DEF Promise!Init, Making, Asked
<1>3. ASSUME NEW r \in Settings, volume = VolumeBefore(r) PROVE Promise!Init
  <2>2. /\ RolesOf(volume) = {RoleOf(r)} /\ volume.dbs = {r["POSTGRES_DB"], AirflowDb}
        /\ volume.version = TRUE /\ RecordOf(volume) = "none"
    BY <1>3 DEF RolesOf, RoleOf, RecordOf, VolumeBefore, EmptyVolume
  <2>3. /\ \E c \in {RoleOf(s) : s \in Settings} : RolesOf(volume) = {c}
        /\ \E d \in {s["POSTGRES_DB"] : s \in Settings} : volume.dbs = {d, AirflowDb}
    BY <2>2
  <2> QED
    BY <1>1, <2>2, <2>3 DEF Promise!Init, Making, Asked
<1> QED
  BY <1>2, <1>3 DEF Init

\* StackLifecycle implements VolumePromise: a data directory is made once, in
\* order, with a record that is true as soon as it is whole, and whoever it is
\* handed to finds it as it was left until it is discarded on request.
THEOREM MadeOnce == Spec => VolumeIsMadeOnce
<1>1. IInv /\ IInv' /\ OrderInv /\ [Next]_vars => [Promise!Next]_Shown
  <2> SUFFICES ASSUME IInv, IInv', OrderInv, [Next]_vars PROVE [Promise!Next]_Shown
    OBVIOUS
  <2>1. TypeOK /\ RecordTellsTheTruth'
    BY DEF IInv
  <2>2. CASE UNCHANGED vars
    BY <2>2, DirectoryRests DEF vars, Making
  <2>3. CASE EditEnv \/ DaemonStops \/ DaemonStarts \/ PostgresDies
    BY <2>1, <2>3, SurroundingsImplement
  <2>4. CASE Postgres
    BY <2>1, <2>4, PostgresImplements
  <2>5. ASSUME NEW t \in Terminals, Invoke(t) \/ Continue(t) PROVE Promise!Next
    BY <2>5, TerminalImplements
  <2> QED
    BY <2>2, <2>3, <2>4, <2>5 DEF Next
<1> QED
  BY <1>1, StartImplements, Invariance, MadeInOrder, PTL
  DEF Spec, VolumeIsMadeOnce, Promise!Spec, Shown, Making, Asked

-----------------------------------------------------------------------------
(* What follows                                                            *)

\* Nothing repairs or completes a directory whose first initialisation is
\* over, or was cut short: it stays as it is until it is discarded whole.
THEOREM LeftAsItIs ==
  Spec => [][volume.version /\ postgres.at \notin FirstInit
               => volume' \in {volume, EmptyVolume}]_vars
<1> DEFINE Left == volume.version /\ postgres.at \notin FirstInit
                     => volume' \in {volume, EmptyVolume}
<1>1. ASSUME TypeOK, OrderInv, [Next]_vars PROVE [Left]_vars
  <2>1. CASE UNCHANGED volume
    BY <2>1
  <2>2. CASE Postgres
    BY <1>1, <2>2, EntrypointMoves DEF FirstInit, EmptyVolume
  <2>3. ASSUME NEW t \in Terminals, Invoke(t) \/ Continue(t) PROVE Left
    BY <2>3 DEF Invoke, Continue, ProbeDocker, ReadEnv, ProbeVolume, ComposeUp, Wait,
                RemoveContainers, DiscardVolume
  <2>4. EditEnv \/ DaemonStops \/ DaemonStarts \/ PostgresDies => UNCHANGED volume
    BY DEF EditEnv, DaemonStops, DaemonStarts, PostgresDies
  <2> QED
    BY <1>1, <2>1, <2>2, <2>3, <2>4 DEF Next, vars
<1> QED
  BY <1>1, TypeCorrect, MadeInOrder, PTL DEF Spec

\* A directory that initdb of this checkout finished, without a record and past
\* the point where its record could be opened.
Unrecorded ==
  /\ volume.made /\ ~volume.old /\ volume.file = "absent"
  /\ postgres.at \notin {"create_db", "record_open"}

\* What the doctor's notice of an old volume misses: a directory of this
\* checkout stays without a record only if its first initialisation was cut
\* short before the record script opened it, or if that script had no salt or
\* digest.
THEOREM CutShortIsTheException ==
  Spec => [][/\ UnrecordedMeansOld \/ Unrecorded
             /\ ~Unrecorded /\ Unrecorded' =>
                  /\ postgres.at \in {"create_db", "record_open"}
                  /\ Making' => RecordOpen]_vars
<1> DEFINE Cause == /\ UnrecordedMeansOld \/ Unrecorded
                    /\ ~Unrecorded /\ Unrecorded' =>
                         /\ postgres.at \in {"create_db", "record_open"}
                         /\ Making' => RecordOpen
<1>1. ASSUME IInv, OrderInv, [Next]_vars PROVE [Cause]_vars
  <2>0. TypeOK /\ volume \in Volumes /\ postgres \in Containers
    BY <1>1 DEF IInv, TypeOK
  <2>1. UnrecordedMeansOld \/ Unrecorded
    <3>1. postgres.at = "serving" => volume.made
      BY <1>1 DEF OrderInv, InOrder
    <3> QED
      BY <3>1 DEF UnrecordedMeansOld, Unrecorded
  <2> SUFFICES ASSUME ~Unrecorded, Unrecorded'
               PROVE  \/ UNCHANGED vars
                      \/ /\ postgres.at \in {"create_db", "record_open"}
                         /\ Making' => RecordOpen
    BY <2>1
  <2>2. CASE UNCHANGED volume /\ (UNCHANGED postgres \/ postgres'.at \in {"none", "entry", "serving"})
    BY <2>2 DEF Unrecorded, Making, FirstInit
  <2>3. CASE volume' = EmptyVolume
    BY <2>3 DEF Unrecorded, EmptyVolume
  <2>4. CASE EditEnv \/ DaemonStops \/ DaemonStarts \/ PostgresDies
    BY <2>0, <2>2, <2>4 DEF EditEnv, DaemonStops, DaemonStarts, PostgresDies, Killed, Containers
  <2>5. CASE Postgres
    <3>1. CASE RecordOpen
      BY <3>1 DEF RecordOpen, Proceed
    <3>2. CASE ~RecordOpen
      BY <1>1, <2>0, <2>5, <3>2, EntrypointMoves
      DEF Unrecorded, Postgres, InitDb, ServeKept, CreateDb, RecordWrite, AirflowSql, Proceed,
          Volumes, Containers
    <3> QED
      BY <3>1, <3>2
  <2>6. ASSUME NEW t \in Terminals, Invoke(t) \/ Continue(t)
        PROVE  \/ volume' = EmptyVolume
               \/ /\ UNCHANGED volume
                  /\ UNCHANGED postgres \/ postgres'.at \in {"none", "entry", "serving"}
    <3>1. CASE ComposeUp(t)
      BY <3>1 DEF ComposeUp
    <3>2. CASE RemoveContainers(t)
      BY <3>2 DEF RemoveContainers, NoContainer
    <3>3. CASE Invoke(t) \/ ProbeDocker(t) \/ ReadEnv(t) \/ ProbeVolume(t) \/ Wait(t)
                \/ DiscardVolume(t)
      BY <3>3 DEF Invoke, ProbeDocker, ReadEnv, ProbeVolume, Wait, DiscardVolume
    <3> QED
      BY <2>6, <3>1, <3>2, <3>3 DEF Continue
  <2>7. UNCHANGED vars => UNCHANGED <<volume, postgres>>
    BY DEF vars
  <2> QED
    BY <1>1, <2>2, <2>3, <2>4, <2>5, <2>6, <2>7 DEF Next
<1> QED
  BY <1>1, Invariance, MadeInOrder, PTL DEF Spec

\* Every .env and every shell name the same database.
NeverRenamed == \A r, s \in Settings : r["POSTGRES_DB"] = s["POSTGRES_DB"]

\* A directory with a database has the one that compose asks for.
NamedInv ==
  ~volume.old /\ volume.dbs # {} => \A s \in Settings : s["POSTGRES_DB"] \in volume.dbs

\* A terminal that waits after its doctor matched a record waits for clients
\* of that compose, on a directory with a database.
Waiting(t) ==
  /\ term[t].pc = "wait"
  /\ term[t].results[POSTGRES_VOLUME] = OK
  /\ term[t].seen.kind = VOLUME_FINGERPRINTED
  => client \in Settings /\ ~volume.old /\ volume.dbs # {}

WaitInv == \A t \in Terminals : Waiting(t)

LEMMA NextNamed ==
  ASSUME NeverRenamed, IInv, OrderInv, NamedInv, [Next]_vars
  PROVE  NamedInv'
<1>1. CASE UNCHANGED volume
  BY <1>1 DEF NamedInv
<1>2. CASE volume' = EmptyVolume
  BY <1>2 DEF NamedInv, EmptyVolume
<1>3. CASE Postgres
  <2>1. volume \in Volumes /\ TypeOK
    BY DEF IInv, TypeOK
  <2>2. volume'.old = volume.old
    BY <1>3, <2>1 DEF Postgres, InitDb, ServeKept, CreateDb, RecordOpen, RecordWrite,
                      AirflowSql, Volumes
  <2>3. CASE CreateDb
    <3>1. postgres.settings \in Settings
      BY <2>3 DEF CreateDb, Proceed, OrderInv, HandedDown
    <3>2. postgres.settings["POSTGRES_DB"] \in volume'.dbs
      BY <2>1, <2>3 DEF CreateDb, Volumes
    <3> QED
      BY <3>1, <3>2 DEF NamedInv, NeverRenamed
  <2>4. CASE AirflowSql
    <3>1. volume.dbs # {} /\ volume'.dbs = volume.dbs \cup {AirflowDb}
      BY <2>1, <2>4 DEF AirflowSql, Proceed, OrderInv, InOrder, FirstInit, Volumes
    <3> QED
      BY <2>2, <3>1 DEF NamedInv
  <2>5. CASE InitDb \/ ServeKept \/ RecordOpen \/ RecordWrite
    <3>1. volume'.dbs = volume.dbs
      BY <2>1, <2>5 DEF InitDb, ServeKept, RecordOpen, RecordWrite, Volumes
    <3> QED
      BY <2>2, <3>1 DEF NamedInv
  <2> QED
    BY <1>3, <2>3, <2>4, <2>5 DEF Postgres
<1>4. CASE ~Postgres
  <2>1. volume' \in {volume, EmptyVolume}
    BY <1>4 DEF Next, vars, EditEnv, DaemonStops, DaemonStarts, PostgresDies, Invoke, Continue,
       ProbeDocker, ReadEnv, ProbeVolume, ComposeUp, Wait, RemoveContainers, DiscardVolume
  <2> QED
    BY <1>1, <1>2, <2>1
<1> QED
  BY <1>3, <1>4

LEMMA NextWaiting ==
  ASSUME OneOperator, IInv, SoloInv, OrderInv, [Next]_vars, NEW t \in Terminals, Waiting(t)
  PROVE  Waiting(t)'
<1>0. /\ term \in [Terminals -> Terms] /\ volume \in Volumes
      /\ Starting(t)
  BY DEF IInv, TypeOK, SoloInv
<1>1. CASE UNCHANGED vars
  BY <1>1 DEF vars, Waiting
<1>2. CASE EditEnv \/ DaemonStops \/ DaemonStarts \/ PostgresDies
  BY <1>2 DEF EditEnv, DaemonStops, DaemonStarts, PostgresDies, Waiting
<1>3. CASE Postgres
  <2>1. UNCHANGED <<term, client>>
    BY <1>3 DEF Postgres, InitDb, ServeKept, CreateDb, RecordOpen, RecordWrite, AirflowSql,
                Proceed
  <2>2. volume'.old = volume.old /\ volume.dbs \subseteq volume'.dbs
    BY <1>0, <1>3 DEF Postgres, InitDb, ServeKept, CreateDb, RecordOpen, RecordWrite,
                      AirflowSql, Volumes
  <2> QED
    BY <2>1, <2>2 DEF Waiting
<1>4. ASSUME NEW u \in Terminals, Invoke(u) \/ Continue(u) PROVE Waiting(t)'
  <2>0. u = t
    BY DEF OneOperator
  <2>1. CASE ComposeUp(t)
    <3>1. CASE term'[t].pc = "wait"
      <4>1. /\ client' = Handed(envFile, Exported[t]) /\ UNCHANGED volume
            /\ term' = [term EXCEPT ![t] = [term[t] EXCEPT !.pc = "wait"]]
            /\ term[t].pc = "compose_up"
        BY <1>0, <2>1, <3>1 DEF ComposeUp, Finish, Becomes, Terms
      <4>2. /\ term'[t].results = term[t].results /\ term'[t].seen = term[t].seen
        BY <1>0, <4>1 DEF Terms
      <4>3. client' \in Settings
        BY <4>1 DEF Settings, IInv, TypeOK
      <4>4. term[t].results[POSTGRES_VOLUME] = OK /\ term[t].seen.kind = VOLUME_FINGERPRINTED
              => volume.file = "written"
        BY <1>0, <4>1 DEF Starting, Compared
      <4> QED
        BY <4>1, <4>2, <4>3, <4>4 DEF Waiting, OrderInv, Recorded
    <3> QED
      BY <3>1 DEF Waiting
  <2>2. CASE ~ComposeUp(t)
    <3> SUFFICES term'[t].pc # "wait"
      BY DEF Waiting
    <3>f. ASSUME NEW o, Finish(t, o) PROVE term'[t].pc # "wait"
      BY <1>0, <3>f DEF Finish, Becomes, Terms
    <3>1. CASE Invoke(t)
      BY <1>0, <3>1 DEF Invoke, Becomes, Idle, FirstStep
    <3>2. CASE ProbeDocker(t)
      BY <1>0, <3>2 DEF ProbeDocker, Becomes, Terms
    <3>3. CASE ReadEnv(t)
      <4> DEFINE results == EarlyChecks(term[t].docker, envFile, Exported[t])
      <4>1. Becomes(t, [term[t] EXCEPT !.file = envFile, !.results = results,
                          !.pc = IF AnyFail(results) THEN "idle" ELSE "probe_volume",
                          !.outcome = IF AnyFail(results) THEN "refused" ELSE "none"])
        BY <3>3 DEF ReadEnv
      <4> HIDE DEF results
      <4> QED
        BY <1>0, <4>1 DEF Becomes, Terms
    <3>4. CASE ProbeVolume(t)
      <4>1. PICK v, r :
              \/ Becomes(t, [[term[t] EXCEPT !.seen = v, !.results = r]
                               EXCEPT !.pc = "idle", !.outcome = "refused"])
              \/ Becomes(t, [[term[t] EXCEPT !.seen = v, !.results = r]
                               EXCEPT !.pc = "idle", !.outcome = "passed"])
              \/ Becomes(t, [[term[t] EXCEPT !.seen = v, !.results = r]
                               EXCEPT !.pc = "compose_up"])
        BY <3>4, Zenon DEF ProbeVolume
      <4> DEFINE read == [term[t] EXCEPT !.seen = v, !.results = r]
      <4>2. "pc" \in DOMAIN read
        BY <1>0 DEF Terms
      <4> HIDE DEF read
      <4>3. CASE Becomes(t, [read EXCEPT !.pc = "idle", !.outcome = "refused"])
        BY <1>0, <4>2, <4>3 DEF Becomes
      <4>4. CASE Becomes(t, [read EXCEPT !.pc = "idle", !.outcome = "passed"])
        BY <1>0, <4>2, <4>4 DEF Becomes
      <4>5. CASE Becomes(t, [read EXCEPT !.pc = "compose_up"])
        BY <1>0, <4>2, <4>5 DEF Becomes
      <4> QED
        BY <4>1, <4>3, <4>4, <4>5, Zenon DEF read
    <3>5. CASE Wait(t)
      BY <3>5, <3>f DEF Wait
    <3>6. CASE RemoveContainers(t)
      BY <1>0, <3>6, <3>f DEF RemoveContainers, Becomes, Terms, AfterRemove
    <3>7. CASE DiscardVolume(t)
      BY <1>0, <3>7, <3>f DEF DiscardVolume, Becomes, Terms, AfterDiscard
    <3> QED
      BY <1>4, <2>0, <2>2, <3>1, <3>2, <3>3, <3>4, <3>5, <3>6, <3>7 DEF Continue
  <2> QED
    BY <2>1, <2>2
<1> QED
  BY <1>1, <1>2, <1>3, <1>4 DEF Next

\* The doctor's OK on a kept volume covers the database as well, for an
\* operator whose .env and shell never rename it: a new POSTGRES_DB is the one
\* first-init edit that passes its checks.
THEOREM RenamingIsTheException ==
  ASSUME OneOperator, NeverRenamed PROVE Spec => []OkMeansFirstInitAgrees
<1>1. Init => NamedInv /\ WaitInv
  <2> SUFFICES ASSUME Init PROVE NamedInv /\ WaitInv
    OBVIOUS
  <2>1. ASSUME NEW s \in Settings PROVE VolumeBefore(s).old
    BY DEF VolumeBefore, EmptyVolume
  <2>2. volume.old \/ volume.dbs = {}
    BY <2>1 DEF Init, EmptyVolume
  <2> QED
    BY <2>2 DEF Init, NamedInv, WaitInv, Waiting, Idle
<1>2. /\ IInv /\ SoloInv /\ OrderInv /\ [Next]_vars
      /\ NamedInv /\ WaitInv
      => NamedInv' /\ WaitInv'
  BY NextNamed, NextWaiting DEF WaitInv
<1>3. NamedInv /\ WaitInv => OkMeansFirstInitAgrees
  BY DEF NamedInv, WaitInv, Waiting, OkMeansFirstInitAgrees
<1> QED
  BY <1>1, <1>2, <1>3, Invariance, SoloInvariance, MadeInOrder, PTL DEF Spec
=============================================================================
