---------------------------- MODULE VolumePromise ----------------------------
(***************************************************************************)
(* What whoever keeps the Postgres volume may rely on.  The record script  *)
(* says of itself that it "runs exactly once", and the module comment of   *)
(* preflight/credentials.py that a kept volume stays as its first start    *)
(* made it: a data directory is made in one go, in a fixed order that may  *)
(* be cut short anywhere, and from then on it is what it is until somebody *)
(* asks for it to be discarded.                                            *)
(***************************************************************************)
CONSTANTS
  Credentials,  \* what a role may be made of
  Databases,    \* the names its own database may have
  AirflowDb

VARIABLES
  begun,        \* has its initialisation begun?
  roles,        \* the superuser role, if initdb was finished
  dbs,          \* the databases
  record,       \* what .init-credentials says of the role
  making,       \* is its first initialisation under way?
  asked         \* is a clean or a reset under way?

\* The volume is new, or an earlier checkout made it, without a record.
Init ==
  /\ \/ begun = FALSE /\ roles = {} /\ dbs = {}
     \/ /\ begun = TRUE
        /\ \E c \in Credentials : roles = {c}
        /\ \E d \in Databases : dbs = {d, AirflowDb}
  /\ record = "none"
  /\ making = FALSE
  /\ asked = FALSE

Begin ==
  /\ ~begun
  /\ begun' = TRUE
  /\ making' = TRUE
  /\ UNCHANGED <<roles, dbs, record, asked>>

MakeRole ==
  /\ making /\ roles = {}
  /\ \E c \in Credentials : roles' = {c}
  /\ UNCHANGED <<begun, dbs, record, making, asked>>

MakeDb ==
  /\ making /\ roles # {} /\ dbs = {}
  /\ \E d \in Databases : dbs' = {d}
  /\ UNCHANGED <<begun, roles, record, making, asked>>

OpenRecord ==
  /\ making /\ dbs # {} /\ record = "none"
  /\ record' = "torn"
  /\ UNCHANGED <<begun, roles, dbs, making, asked>>

\* A record that is filled tells the truth about the role.
FillRecord ==
  /\ making /\ record = "torn"
  /\ record' = "true"
  /\ UNCHANGED <<begun, roles, dbs, making, asked>>

\* Airflow's database comes last; a record may be missing by then, but not torn.
Complete ==
  /\ making /\ dbs # {} /\ record # "torn"
  /\ dbs' = dbs \cup {AirflowDb}
  /\ making' = FALSE
  /\ UNCHANGED <<begun, roles, record, asked>>

\* The container dies or is replaced: nothing takes up what it left.
CutShort ==
  /\ making
  /\ making' = FALSE
  /\ asked' \in BOOLEAN
  /\ UNCHANGED <<begun, roles, dbs, record>>

Discard ==
  /\ asked /\ ~making
  /\ begun' = FALSE /\ roles' = {} /\ dbs' = {} /\ record' = "none"
  /\ asked' \in BOOLEAN
  /\ UNCHANGED making

Ask ==
  /\ asked' \in BOOLEAN
  /\ UNCHANGED <<begun, roles, dbs, record, making>>

Next == Begin \/ MakeRole \/ MakeDb \/ OpenRecord \/ FillRecord \/ Complete \/ CutShort \/ Discard \/ Ask

Spec == Init /\ [][Next]_<<begun, roles, dbs, record, making, asked>>
=============================================================================
