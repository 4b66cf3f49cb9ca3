---------------------------- MODULE Preflight ----------------------------
(***************************************************************************)
(* The pure half of preflight/: what the doctor concludes from what it     *)
(* observed.  preflight/credentials.py resolves and compares credentials,  *)
(* preflight/runtime.py classifies the daemon and the volume report, and   *)
(* preflight/checks.py runs the three checks in order.                     *)
(*                                                                         *)
(* A value is a sequence of symbols, a symbol a chunk of text.  The chunks *)
(* that a property tells apart are constants: the colon the fingerprint    *)
(* joins with, white space, and what means more than itself in a .env that *)
(* compose reads.                                                          *)
(***************************************************************************)
EXTENDS Naturals, Sequences

CONSTANTS
  Symbols,    \* the chunks values are made of
  Colon,      \* the chunk the fingerprint joins with
  Space,      \* white space
  Special,    \* "$" and the backslash
  Mark,       \* of each way to quote, its quotation mark
  Note,       \* a " # note" after a value
  Texts,      \* what may be written in .env, within the quotes
  Expand,     \* what compose makes of a text in each way of quoting
  Declared,   \* the variables .env.example declares
  DefaultDb,  \* compose's default for POSTGRES_DB, "platform"
  Unset       \* what the environment holds for a variable nobody exported

Values == Seq(Symbols)
Blank  == <<>>
Quotes == {"none", "single", "double"}

Plain(text) == \A i \in DOMAIN text : text[i] \notin Special

ASSUME SymbolsAssumption ==
  /\ Colon \in Symbols
  /\ DefaultDb \in Values
  /\ DefaultDb # Blank
  /\ Unset \notin Values

ASSUME DeclaredAssumption ==
  {"POSTGRES_USER", "POSTGRES_PASSWORD", "POSTGRES_DB"} \subseteq Declared

\* Compose takes single quotes literally, and interpolates and unescapes in the
\* other two.
ASSUME GrammarAssumption ==
  /\ Mark \in [Quotes -> Values] /\ Note \in Values
  /\ Texts \subseteq Values /\ Blank \in Texts
  /\ Expand \in [Quotes -> [Texts -> Values]]
  /\ \A text \in Texts, quote \in Quotes :
       quote = "single" \/ Plain(text) => Expand[quote][text] = text

\* The right-hand side of a line of .env.
Written == {w \in [quote : Quotes, text : Texts, note : BOOLEAN] : w.note => w.text # Blank}
Nothing == [quote |-> "none", text |-> Blank, note |-> FALSE]

EnvFile  == [Declared -> Written]              \* a missing file is all Nothing
Environ  == [Declared -> Values \cup {Unset}]

OK      == "OK"
FAIL    == "FAIL"
UNKNOWN == "UNKNOWN"
NotRun  == "NOT RUN"                           \* this run of the doctor is not there yet

RUNTIME         == "container runtime"
CREDENTIALS     == "credentials"
POSTGRES_VOLUME == "postgres volume"
ORDER           == {RUNTIME, CREDENTIALS, POSTGRES_VOLUME}

-----------------------------------------------------------------------------
(* credentials.py *)

\* One pair of quotes around the whole value is stripped: a note after it leaves
\* them and itself in the value.
parse_env_pairs(file) ==
  [v \in Declared |->
     LET w == file[v]
     IN  IF w.note THEN Mark[w.quote] \o w.text \o Mark[w.quote] \o Note ELSE w.text]

\* exported.strip() is not empty.
FromEnvironment(v, environ) ==
  environ[v] # Unset /\ \E i \in DOMAIN environ[v] : environ[v][i] # Space

\* Mutant: the file wins over the shell.
FileFirst(file, environ) ==
  LET pairs == parse_env_pairs(file)
  IN  [v \in Declared |->
         IF pairs[v] = Blank /\ FromEnvironment(v, environ) THEN environ[v] ELSE pairs[v]]

effective_value(file, environ) ==
  [v \in Declared |->
     IF FromEnvironment(v, environ) THEN environ[v] ELSE parse_env_pairs(file)[v]]

missing_credentials(file, environ) ==
  Declared \ ( {v \in Declared : parse_env_pairs(file)[v] # Blank}
               \cup {v \in Declared : FromEnvironment(v, environ)} )

\* The salt is the hex of 16 bytes, of fixed length and without a colon, so
\* the digest tells it from the rest.  Where the user ends it does not tell.
fingerprint(salt, user, password) == <<salt, user \o <<Colon>> \o password>>

NoSalt   == 0
NoDigest == <<>>
Digests  == {NoDigest} \cup (Nat \X Values)

ColonFree(value) == \A i \in DOMAIN value : value[i] # Colon

-----------------------------------------------------------------------------
(* What compose makes of the same two sources (external): a variable set in *)
(* the shell wins, blank or not, a note is no part of a value, and :?       *)
(* refuses an empty one.  Only POSTGRES_DB has a default.                   *)

Interpolated(v, file, environ) ==
  IF environ[v] # Unset THEN environ[v] ELSE Expand[file[v].quote][file[v].text]

ComposeSettings(file, environ) ==
  [v \in Declared |->
     IF v = "POSTGRES_DB" /\ Interpolated(v, file, environ) = Blank
     THEN DefaultDb
     ELSE Interpolated(v, file, environ)]

Renders(file, environ) ==
  \A v \in Declared : ComposeSettings(file, environ)[v] # Blank

\* A variable of which the doctor and compose make the same: exported and not
\* blank, or written without a note and without what compose interpolates.
Alike(v, file, environ) ==
  IF environ[v] = Unset THEN ~file[v].note /\ (file[v].quote = "single" \/ Plain(file[v].text))
  ELSE FromEnvironment(v, environ)

-----------------------------------------------------------------------------
(* runtime.py *)

\* The daemon as docker info sees it.  "half_up" is a Docker Desktop that
\* answers the client, exits zero and prints no server version.
DaemonStates == {"absent", "stopped", "half_up", "ready"}

probe_docker(daemon) == IF daemon = "half_up" THEN "stopped" ELSE daemon

DockerStates == {"absent", "stopped", "ready"}

VOLUME_EMPTY           == "empty"
VOLUME_UNFINGERPRINTED == "initialised-without-fingerprint"
VOLUME_FINGERPRINTED   == "fingerprint"
VOLUME_UNREADABLE      == "unreadable"

VolumeState ==
  [kind : {VOLUME_EMPTY, VOLUME_UNFINGERPRINTED, VOLUME_FINGERPRINTED, VOLUME_UNREADABLE},
   salt : Nat, digest : Digests]

Bare(kind) == [kind |-> kind, salt |-> NoSalt, digest |-> NoDigest]
Unreadable == Bare(VOLUME_UNREADABLE)

\* A line of the probe container's output: compose's narration, one of the
\* three markers, or the content of .init-credentials.
Line(text)           == [text |-> text, salt |-> NoSalt, digest |-> NoDigest]
Record(salt, digest) == [text |-> "record", salt |-> salt, digest |-> digest]

\* REPORT_SCRIPT over a data directory; the record of a death between opening
\* and writing is an empty file.
Report(volume) ==
  IF volume.file = "written"
  THEN <<Line(VOLUME_FINGERPRINTED), Record(volume.salt, volume.digest)>>
  ELSE IF volume.file = "torn" THEN <<Line(VOLUME_FINGERPRINTED)>>
  ELSE <<Line(IF volume.version THEN VOLUME_UNFINGERPRINTED ELSE VOLUME_EMPTY)>>

parse_volume_report(returncode, lines) ==
  LET decides(i) ==
        \/ lines[i].text \in {VOLUME_UNFINGERPRINTED, VOLUME_EMPTY}
        \/ lines[i].text = VOLUME_FINGERPRINTED /\ i < Len(lines)
      marks == {i \in 1..Len(lines) : decides(i)}
      first == CHOOSE i \in marks : \A j \in marks : i <= j
      next  == lines[first + 1]
      fingerprinted == [kind |-> VOLUME_FINGERPRINTED, salt |-> next.salt,
                        digest |-> next.digest]
  IN IF returncode # 0 \/ marks = {} THEN Unreadable
     ELSE IF lines[first].text # VOLUME_FINGERPRINTED THEN Bare(lines[first].text)
     ELSE IF next.salt # NoSalt /\ next.digest # NoDigest THEN fingerprinted
     ELSE Unreadable

\* What the probe concludes from a container that ran to its end.
ReadVolume(volume) ==
  parse_volume_report(0, <<Line("narration")>> \o Report(volume))

-----------------------------------------------------------------------------
(* checks.py *)

check_runtime(docker) == IF docker = "ready" THEN OK ELSE FAIL

check_credentials(file, environ) ==
  IF missing_credentials(file, environ) = {} THEN OK ELSE FAIL

check_postgres_volume(volume, user, password) ==
  LET recorded == volume.kind = VOLUME_FINGERPRINTED
      matches  == recorded /\ volume.digest = fingerprint(volume.salt, user, password)
  IN IF volume.kind = VOLUME_EMPTY \/ matches THEN OK
     ELSE IF recorded THEN FAIL ELSE UNKNOWN

\* run(), up to the point where the volume is read: the two checks that need
\* no container.  A check that is never reached reports UNKNOWN.
EarlyChecks(docker, file, environ) ==
  LET runtime == check_runtime(docker)
      creds   == IF runtime = FAIL THEN UNKNOWN ELSE check_credentials(file, environ)
      volume  == IF FAIL \in {runtime, creds} THEN UNKNOWN ELSE NotRun
  IN [c \in ORDER |->
        IF c = RUNTIME THEN runtime ELSE IF c = CREDENTIALS THEN creds ELSE volume]

AnyFail(results) == \E c \in ORDER : results[c] = FAIL
=============================================================================
