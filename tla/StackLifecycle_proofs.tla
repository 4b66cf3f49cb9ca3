------------------------- MODULE StackLifecycle_proofs -------------------------
(***************************************************************************)
(* What holds of StackLifecycle for every set of terminals, every choice   *)
(* of .env files and exports, and every interleaving.  The invariant       *)
(* ties four things together: the record in the volume, the role it was    *)
(* made beside, the container that is making it, and what each doctor read *)
(* of it.                                                                  *)
(***************************************************************************)
EXTENDS StackLifecycle, SequenceTheorems, TLAPS

-----------------------------------------------------------------------------
(* Lemmas about the operators of Preflight *)

\* Two users without a colon that join to the same text with their passwords
\* are one user with one password (credentials.py, fingerprint).
LEMMA JoinInjective ==
  ASSUME NEW u1 \in Values, NEW p1 \in Values, NEW u2 \in Values, NEW p2 \in Values,
         ColonFree(u1), ColonFree(u2),
         u1 \o <<Colon>> \o p1 = u2 \o <<Colon>> \o p2
  PROVE  u1 = u2 /\ p1 = p2
<1> DEFINE j1 == u1 \o <<Colon>> \o p1
           j2 == u2 \o <<Colon>> \o p2
<1>c. Colon \in Symbols
  BY SymbolsAssumption
<1>t. /\ u1 \in Seq(Symbols) /\ p1 \in Seq(Symbols)
      /\ u2 \in Seq(Symbols) /\ p2 \in Seq(Symbols)
      /\ <<Colon>> \in Seq(Symbols)
  BY <1>c DEF Values
<1>1. ASSUME NEW u \in Seq(Symbols), NEW p \in Seq(Symbols)
      PROVE  /\ Len(u \o <<Colon>> \o p) = Len(u) + 1 + Len(p)
             /\ \A i \in 1..Len(u) : (u \o <<Colon>> \o p)[i] = u[i]
             /\ (u \o <<Colon>> \o p)[Len(u) + 1] = Colon
             /\ \A i \in 1..Len(p) : (u \o <<Colon>> \o p)[Len(u) + 1 + i] = p[i]
  <2>1. /\ u \o <<Colon>> \in Seq(Symbols)
        /\ Len(u \o <<Colon>>) = Len(u) + 1
        /\ \A i \in 1..Len(u) : (u \o <<Colon>>)[i] = u[i]
        /\ (u \o <<Colon>>)[Len(u) + 1] = Colon
    BY <1>t, <1>c
  <2> HIDE DEF Values
  <2>2. QED
    BY <2>1
<1>f. ASSUME NEW u \in Seq(Symbols), ColonFree(u)
      PROVE  \A i \in 1..Len(u) : u[i] # Colon
  BY <1>f DEF ColonFree
<1>2. ~(Len(u1) < Len(u2))
  <2> SUFFICES ASSUME Len(u1) < Len(u2) PROVE FALSE
    OBVIOUS
  <2>1. j1[Len(u1) + 1] = Colon
    BY <1>1, <1>t
  <2>2. Len(u1) + 1 \in 1..Len(u2)
    BY <1>t
  <2>3. j2[Len(u1) + 1] = u2[Len(u1) + 1]
    BY <1>1, <1>t, <2>2
  <2> QED
    BY <2>1, <2>2, <2>3, <1>t, <1>f
<1>3. ~(Len(u2) < Len(u1))
  <2> SUFFICES ASSUME Len(u2) < Len(u1) PROVE FALSE
    OBVIOUS
  <2>1. j2[Len(u2) + 1] = Colon
    BY <1>1, <1>t
  <2>2. Len(u2) + 1 \in 1..Len(u1)
    BY <1>t
  <2>3. j1[Len(u2) + 1] = u1[Len(u2) + 1]
    BY <1>1, <1>t, <2>2
  <2> QED
    BY <2>1, <2>2, <2>3, <1>t, <1>f
<1>4. Len(u1) = Len(u2) /\ Len(p1) = Len(p2)
  <2>1. Len(u1) = Len(u2)
    BY <1>2, <1>3, <1>t
  <2>2. Len(u1) + 1 + Len(p1) = Len(u2) + 1 + Len(p2)
    BY <1>1, <1>t
  <2> QED
    BY <2>1, <2>2, <1>t
<1>5. u1 = u2
  <2>1. \A i \in 1..Len(u1) : u1[i] = u2[i]
    BY <1>1, <1>4, <1>t
  <2> QED
    BY <2>1, <1>4, <1>t, SeqEqual
<1>6. p1 = p2
  <2>1. ASSUME NEW i \in 1..Len(p1)
        PROVE  p1[i] = p2[i]
    <3>1. j1[Len(u1) + 1 + i] = p1[i]
      BY <1>1, <1>t
    <3>2. j2[Len(u2) + 1 + i] = p2[i]
      BY <1>1, <1>t, <1>4
    <3> QED
      BY <3>1, <3>2, <1>4
  <2> QED
    BY <2>1, <1>4, <1>t, SeqEqual
<1> QED
  BY <1>5, <1>6

Resolved == [Declared -> Values]

\* What the doctor and compose make of what .env may hold and a terminal may
\* export are values.
LEMMA ResolvedTypes ==
  ASSUME NEW file \in EnvFiles, NEW t \in Terminals
  PROVE  /\ effective_value(file, Exported[t]) \in Resolved
         /\ Handed(file, Exported[t]) \in [PostgresVars -> Values]
         /\ ColonFree(Handed(file, Exported[t])["POSTGRES_USER"])
<1> DEFINE environ == Exported[t]
<1>1. file \in EnvFile /\ environ \in [Declared -> Values \cup {Unset}]
  BY LifecycleAssumption DEF Environ
<1>2. \A v \in Declared : environ[v] # Unset => environ[v] \in Values
  BY <1>1
<1>3. ASSUME NEW v \in Declared
      PROVE  /\ parse_env_pairs(file)[v] \in Values
             /\ Expand[file[v].quote][file[v].text] \in Values
  <2>1. file[v] \in Written
    BY <1>1 DEF EnvFile
  <2>2. /\ file[v].quote \in Quotes /\ file[v].text \in Texts
        /\ file[v].text \in Values /\ Mark[file[v].quote] \in Values /\ Note \in Values
    BY <2>1, GrammarAssumption DEF Written
  <2>3. Mark[file[v].quote] \o file[v].text \o Mark[file[v].quote] \o Note \in Values
    BY <2>2 DEF Values
  <2>4. Expand[file[v].quote][file[v].text] \in Values
    BY <2>2, GrammarAssumption
  <2> QED
    BY <2>2, <2>3, <2>4 DEF parse_env_pairs
<1>4. effective_value(file, environ) \in Resolved
  BY <1>2, <1>3 DEF effective_value, FromEnvironment, Resolved
<1>5. ASSUME NEW v \in Declared PROVE ComposeSettings(file, environ)[v] \in Values
  BY <1>2, <1>3, SymbolsAssumption DEF ComposeSettings, Interpolated
<1>6. Handed(file, environ) \in [PostgresVars -> Values]
  BY <1>5, DeclaredAssumption DEF Handed, PostgresVars
<1> QED
  BY <1>4, <1>6, UserAssumption

\* Of credentials that are read alike the doctor and compose make the same.
LEMMA SameResolution ==
  ASSUME NEW file \in EnvFiles, NEW t \in Terminals,
         NEW v \in {"POSTGRES_USER", "POSTGRES_PASSWORD"}, Alike(v, file, Exported[t])
  PROVE  effective_value(file, Exported[t])[v] = Handed(file, Exported[t])[v]
<1>1. v \in Declared /\ v \in PostgresVars /\ v # "POSTGRES_DB"
  BY DeclaredAssumption DEF PostgresVars
<1>2. Handed(file, Exported[t])[v] = Interpolated(v, file, Exported[t])
  BY <1>1 DEF Handed, ComposeSettings
<1>3. CASE Exported[t][v] = Unset
  <2>1. file[v] \in Written
    BY <1>1, LifecycleAssumption DEF EnvFile
  <2>2. ~file[v].note /\ Expand[file[v].quote][file[v].text] = file[v].text
    BY <1>3, <2>1, GrammarAssumption DEF Alike, Written
  <2> QED
    BY <1>1, <1>2, <1>3, <2>2
    DEF effective_value, FromEnvironment, parse_env_pairs, Interpolated
<1>4. CASE Exported[t][v] # Unset
  BY <1>1, <1>2, <1>4 DEF Alike, effective_value, Interpolated
<1> QED
  BY <1>3, <1>4

\* The lines that decide.
Markers == {VOLUME_FINGERPRINTED, VOLUME_UNFINGERPRINTED, VOLUME_EMPTY}

\* What the probe is to conclude of a volume.
Observed(vol) ==
  CASE vol.file = "written" ->
         IF vol.salt # NoSalt /\ vol.digest # NoDigest
         THEN [kind |-> VOLUME_FINGERPRINTED, salt |-> vol.salt, digest |-> vol.digest]
         ELSE Unreadable
    [] vol.file = "torn" -> Unreadable
    [] vol.file = "absent" -> Bare(IF vol.version THEN VOLUME_UNFINGERPRINTED ELSE VOLUME_EMPTY)

\* Lines followed by one line, and by two.
LEMMA ThenOne ==
  ASSUME NEW S, NEW noise \in Seq(S), NEW a
  PROVE  /\ Len(noise \o <<a>>) = Len(noise) + 1
         /\ \A i \in 1..Len(noise) : (noise \o <<a>>)[i] = noise[i]
         /\ (noise \o <<a>>)[Len(noise) + 1] = a
<1> DEFINE T == S \cup {a}
<1>1. noise \in Seq(T) /\ <<a>> \in Seq(T)
  OBVIOUS
<1> HIDE DEF T
<1> QED
  BY <1>1

LEMMA ThenTwo ==
  ASSUME NEW S, NEW noise \in Seq(S), NEW a, NEW b
  PROVE  /\ Len(noise \o <<a, b>>) = Len(noise) + 2
         /\ \A i \in 1..Len(noise) : (noise \o <<a, b>>)[i] = noise[i]
         /\ (noise \o <<a, b>>)[Len(noise) + 1] = a
         /\ (noise \o <<a, b>>)[Len(noise) + 2] = b
<1> DEFINE T == S \cup {a, b}
<1>1. noise \in Seq(T) /\ <<a, b>> \in Seq(T)
  OBVIOUS
<1> HIDE DEF T
<1> QED
  BY <1>1

\* The report is found past whatever compose narrated first, however much that
\* is, unless it spells a marker itself (runtime.py, parse_volume_report:
\* "scans for a marker line rather than reading the first one").
THEOREM FoundPastNarration ==
  ASSUME NEW vol \in Volumes, NEW S, NEW noise \in Seq(S),
         \A i \in 1..Len(noise) : noise[i].text \notin Markers
  PROVE  parse_volume_report(0, noise \o Report(vol)) = Observed(vol)
<1> DEFINE lines == noise \o Report(vol)
           n == Len(noise)
           decides(i) == \/ lines[i].text \in {VOLUME_UNFINGERPRINTED, VOLUME_EMPTY}
                         \/ lines[i].text = VOLUME_FINGERPRINTED /\ i < Len(lines)
           marks == {i \in 1..Len(lines) : decides(i)}
           first == CHOOSE i \in marks : \A j \in marks : i <= j
           parsed == parse_volume_report(0, lines)
<1> USE DEF VOLUME_FINGERPRINTED, VOLUME_UNFINGERPRINTED, VOLUME_EMPTY
<1>n. n \in Nat
  OBVIOUS
<1>p. parsed =
        IF marks = {} THEN Unreadable
        ELSE IF lines[first].text # VOLUME_FINGERPRINTED THEN Bare(lines[first].text)
        ELSE IF lines[first + 1].salt # NoSalt /\ lines[first + 1].digest # NoDigest
             THEN [kind |-> VOLUME_FINGERPRINTED, salt |-> lines[first + 1].salt,
                   digest |-> lines[first + 1].digest]
             ELSE Unreadable
  <2>1. parsed =
          IF 0 # 0 \/ marks = {} THEN Unreadable
          ELSE IF lines[first].text # VOLUME_FINGERPRINTED THEN Bare(lines[first].text)
          ELSE IF lines[first + 1].salt # NoSalt /\ lines[first + 1].digest # NoDigest
               THEN [kind |-> VOLUME_FINGERPRINTED, salt |-> lines[first + 1].salt,
                     digest |-> lines[first + 1].digest]
               ELSE Unreadable
    BY Zenon DEF parse_volume_report
  <2> HIDE DEF marks, first, lines, parsed
  <2> QED
    BY <2>1
\* One marker, the line after the narration, decides.
<1>f. ASSUME Len(lines) \in Nat, n + 1 <= Len(lines), \A i \in 1..n : lines[i] = noise[i], decides(n + 1),
             \A i \in 1..Len(lines) : i > n + 1 => ~decides(i)
      PROVE  marks # {} /\ first = n + 1
  <2>1. \A i \in 1..n : ~decides(i)
    BY <1>f DEF Markers
  <2> HIDE DEF lines, n, decides
  <2>2. marks = {n + 1}
    BY <1>n, <1>f, <2>1
  <2> HIDE DEF marks
  <2> QED
    BY <1>n, <2>2
<1>1. CASE vol.file = "written"
  <2>1. Report(vol) = <<Line(VOLUME_FINGERPRINTED), Record(vol.salt, vol.digest)>>
    BY <1>1 DEF Report
  <2>2. /\ Len(lines) = n + 2
        /\ \A i \in 1..n : lines[i] = noise[i]
        /\ lines[n + 1] = Line(VOLUME_FINGERPRINTED)
        /\ lines[n + 2] = Record(vol.salt, vol.digest)
    BY <2>1, ThenTwo
  <2>3. decides(n + 1) /\ ~decides(n + 2)
    BY <1>n, <2>2 DEF Line, Record
  <2>4. \A i \in 1..Len(lines) : i > n + 1 => ~decides(i)
    <3> HIDE DEF lines, n, decides
    <3> QED
      BY <1>n, <2>2, <2>3
  <2>5. Len(lines) \in Nat /\ n + 1 <= Len(lines)
    <3> HIDE DEF lines, n
    <3> QED
      BY <1>n, <2>2
  <2>6. marks # {} /\ first = n + 1
    <3> HIDE DEF lines, n, decides, marks, first
    <3> QED
      BY <1>f, <2>2, <2>3, <2>4, <2>5
  <2>7. /\ lines[n + 1].text = VOLUME_FINGERPRINTED
        /\ lines[(n + 1) + 1].salt = vol.salt /\ lines[(n + 1) + 1].digest = vol.digest
    <3>1. (n + 1) + 1 = n + 2
      BY <1>n
    <3> QED
      BY <2>2, <3>1 DEF Line, Record
  <2> HIDE DEF lines, n, decides, marks, first, parsed
  <2> QED
    BY <1>1, <1>p, <2>6, <2>7, Zenon DEF Observed, parsed, lines
<1>2. CASE vol.file = "torn"
  <2>1. Report(vol) = <<Line(VOLUME_FINGERPRINTED)>>
    BY <1>2 DEF Report
  <2>2. /\ Len(lines) = n + 1
        /\ \A i \in 1..n : lines[i] = noise[i]
        /\ lines[n + 1] = Line(VOLUME_FINGERPRINTED)
    BY <2>1, ThenOne
  <2>3. \A i \in 1..n : ~decides(i)
    BY <2>2 DEF Markers
  <2>4. ~decides(n + 1)
    BY <1>n, <2>2 DEF Line
  <2>5. marks = {}
    <3> HIDE DEF lines, n, decides
    <3> QED
      BY <1>n, <2>2, <2>3, <2>4
  <2> HIDE DEF lines, n, decides, marks, first, parsed
  <2> QED
    BY <1>2, <1>p, <2>5 DEF Observed, parsed, lines
<1>3. CASE vol.file = "absent"
  <2> DEFINE mark == IF vol.version THEN VOLUME_UNFINGERPRINTED ELSE VOLUME_EMPTY
  <2>1. Report(vol) = <<Line(mark)>>
    BY <1>3 DEF Report, Volumes
  <2>2. /\ Len(lines) = n + 1
        /\ \A i \in 1..n : lines[i] = noise[i]
        /\ lines[n + 1] = Line(mark)
    BY <2>1, ThenOne
  <2>3. decides(n + 1)
    BY <2>2 DEF Line
  <2>4. marks # {} /\ first = n + 1
    <3>1. Len(lines) \in Nat /\ n + 1 <= Len(lines) /\ \A i \in 1..Len(lines) : ~(i > n + 1)
      <4> HIDE DEF lines, n
      <4> QED
        BY <1>n, <2>2
    <3> HIDE DEF lines, n, decides, marks, first
    <3> QED
      BY <1>f, <2>2, <2>3, <3>1
  <2>5. lines[n + 1].text = mark /\ mark # VOLUME_FINGERPRINTED
    BY <2>2 DEF Line
  <2> HIDE DEF lines, n, decides, marks, first, parsed
  <2> QED
    BY <1>3, <1>p, <2>4, <2>5, Zenon DEF Observed, parsed, lines
<1> QED
  BY <1>1, <1>2, <1>3 DEF Volumes

\* What the probe reports of a volume, and it reports a record exactly
\* as it is written in the volume.
LEMMA ReportedAsWritten ==
  ASSUME NEW vol \in Volumes
  PROVE  /\ ReadVolume(vol) \in VolumeState
         /\ ReadVolume(vol).kind = VOLUME_FINGERPRINTED =>
              /\ vol.file = "written"
              /\ ReadVolume(vol).salt = vol.salt
              /\ ReadVolume(vol).digest = vol.digest
<1> USE DEF VOLUME_FINGERPRINTED, VOLUME_UNFINGERPRINTED, VOLUME_EMPTY, VOLUME_UNREADABLE
<1>1. ReadVolume(vol) = Observed(vol)
  <2> DEFINE noise == <<Line("narration")>>
  <2>1. Line("narration").text \notin Markers
    BY DEF Line, Markers
  <2>2. noise \in Seq({Line("narration")}) /\ \A i \in 1..Len(noise) : noise[i].text \notin Markers
    BY <2>1
  <2> HIDE DEF noise
  <2>3. parse_volume_report(0, noise \o Report(vol)) = Observed(vol)
    BY <2>2, FoundPastNarration
  <2> QED
    BY <2>3 DEF ReadVolume, noise
<1>2. Unreadable \in VolumeState /\ Unreadable.kind = VOLUME_UNREADABLE
  BY DEF Unreadable, Bare, VolumeState, NoSalt, NoDigest, Digests
<1>3. Observed(vol) \in VolumeState
  BY <1>2 DEF Observed, VolumeState, Volumes, Bare, NoSalt, NoDigest, Digests
<1>4. Observed(vol).kind = VOLUME_FINGERPRINTED =>
        vol.file = "written" /\ Observed(vol).salt = vol.salt /\ Observed(vol).digest = vol.digest
  BY <1>2 DEF Observed, Volumes, Bare
<1> QED
  BY <1>1, <1>3, <1>4
-----------------------------------------------------------------------------
(* Types *)

\* The digest of two values is a digest (00-record-init-credentials.sh).
LEMMA FingerprintType ==
  ASSUME NEW salt \in Nat, NEW user \in Values, NEW password \in Values
  PROVE  /\ fingerprint(salt, user, password) \in Digests
         /\ fingerprint(salt, user, password) # NoDigest
<1>1. <<Colon>> \in Values
  BY SymbolsAssumption DEF Values
<1>2. user \o <<Colon>> \o password \in Values
  BY <1>1 DEF Values
<1> QED
  BY <1>2 DEF fingerprint, Digests, NoDigest

\* A file nobody filled in, and a container nobody created, are well formed.
LEMMA EmptyTypes ==
  /\ Blank \in Values
  /\ NoSettings \in [PostgresVars -> Values]
  /\ EmptyVolume \in Volumes
  /\ NoContainer \in Containers
  /\ Unreadable \in VolumeState
  /\ Idle \in Terms
<1>1. Blank \in Values
  BY DEF Blank, Values
<1>2. NoSettings \in [PostgresVars -> Values]
  BY <1>1 DEF NoSettings
<1>n. NoFile \in EnvFile
  <2>1. Nothing \in Written
    BY GrammarAssumption DEF Nothing, Written, Quotes
  <2> QED
    BY <2>1 DEF NoFile, EnvFile
<1>3. EmptyVolume \in Volumes
  BY <1>1 DEF EmptyVolume, Volumes, NoSalt, NoDigest, Digests
<1>4. NoContainer \in Containers
  BY <1>2 DEF NoContainer, Containers, EntryPoints
<1>5. Unreadable \in VolumeState
  BY DEF Unreadable, Bare, VolumeState, VOLUME_UNREADABLE, NoSalt, NoDigest, Digests
<1>6. Idle \in Terms
  BY <1>n, <1>5 DEF Idle, Terms, Steps, Goals, DockerStates
<1> QED
  BY <1>1, <1>2, <1>3, <1>4, <1>5, <1>6

\* Initially every variable is in its set.
LEMMA InitType == Init => TypeOK
<1> SUFFICES ASSUME Init PROVE TypeOK
  OBVIOUS
<1>1. ASSUME NEW s \in Settings PROVE VolumeBefore(s) \in Volumes
  <2>1. s \in [PostgresVars -> Values]
    BY ResolvedTypes DEF Settings
  <2>2. /\ s["POSTGRES_USER"] \in Values /\ s["POSTGRES_PASSWORD"] \in Values
        /\ s["POSTGRES_DB"] \in Values
    BY <2>1 DEF PostgresVars
  <2> QED
    BY <2>2, LifecycleAssumption
    DEF VolumeBefore, EmptyVolume, Volumes, NoSalt, NoDigest, Digests
<1>2. volume \in Volumes
  BY <1>1, EmptyTypes DEF Init
<1> QED
  BY <1>2, EmptyTypes DEF Init, TypeOK, DaemonStates

\* A step of a terminal that leaves it well formed leaves all of them so.
LEMMA BecomesType ==
  ASSUME TypeOK, NEW t \in Terminals, NEW next \in Terms, Becomes(t, next)
  PROVE  /\ term' \in [Terminals -> Terms]
         /\ daemon' \in DaemonStates /\ envFile' \in EnvFiles /\ crashes' \in Nat
  BY DEF TypeOK, Becomes

\* The surroundings leave every variable in its set.
LEMMA SurroundingsType ==
  ASSUME TypeOK, EditEnv \/ DaemonStops \/ DaemonStarts \/ PostgresDies
  PROVE  TypeOK'
<1>1. Killed(postgres) \in Containers
  BY DEF TypeOK, Killed, Containers, EntryPoints
<1>2. CASE EditEnv
  BY <1>2 DEF EditEnv, TypeOK
<1>3. CASE DaemonStops
  BY <1>1, <1>3 DEF DaemonStops, TypeOK, DaemonStates
<1>4. CASE DaemonStarts
  BY <1>4 DEF DaemonStarts, TypeOK, DaemonStates
<1>5. CASE PostgresDies
  BY <1>1, <1>5 DEF PostgresDies, TypeOK
<1> QED
  BY <1>2, <1>3, <1>4, <1>5

\* A step of the entrypoint leaves every variable in its set.
LEMMA PostgresType ==
  ASSUME TypeOK, Postgres
  PROVE  TypeOK'
<1>1. /\ postgres.settings["POSTGRES_USER"] \in Values
      /\ postgres.settings["POSTGRES_PASSWORD"] \in Values
      /\ postgres.settings["POSTGRES_DB"] \in Values
  BY DEF TypeOK, Containers, PostgresVars
<1>2. ASSUME NEW from, NEW to \in EntryPoints, Proceed(from, to), volume' \in Volumes
      PROVE  TypeOK'
  BY <1>2 DEF Proceed, TypeOK, Containers
<1> USE DEF EntryPoints, FirstInit
<1>3. CASE InitDb
  <2>1. volume' \in Volumes
    BY <1>1, <1>3 DEF InitDb, TypeOK, Volumes
  <2> QED
    BY <1>2, <1>3, <2>1 DEF InitDb
<1>4. CASE ServeKept
  BY <1>2, <1>4 DEF ServeKept, TypeOK
<1>5. CASE CreateDb
  <2>1. volume' \in Volumes
    BY <1>1, <1>5 DEF CreateDb, TypeOK, Volumes
  <2> QED
    BY <1>2, <1>5, <2>1 DEF CreateDb
<1>6. CASE RecordOpen
  <2>1. volume' \in Volumes
    BY <1>6 DEF RecordOpen, TypeOK, Volumes
  <2> QED
    BY <1>2, <1>6, <2>1 DEF RecordOpen
<1>7. CASE RecordWrite
  <2> DEFINE salt   == discards + 1
             digest == RecordedDigest(salt, postgres.settings)
  <2>1. salt \in Nat
    BY DEF TypeOK
  <2>2. digest \in Digests
    <3>1. digest = fingerprint(salt, postgres.settings["POSTGRES_USER"],
                                     postgres.settings["POSTGRES_PASSWORD"])
      BY DEF RecordedDigest, fingerprint
    <3> HIDE DEF salt, digest
    <3> QED
      BY <1>1, <2>1, <3>1, FingerprintType
  <2>3. volume' = [volume EXCEPT !.file = "written", !.salt = salt, !.digest = digest]
    BY <1>7 DEF RecordWrite
  <2> HIDE DEF salt, digest
  <2>4. volume' \in Volumes
    BY <2>1, <2>2, <2>3 DEF TypeOK, Volumes
  <2> QED
    BY <1>2, <1>7, <2>4 DEF RecordWrite
<1>8. CASE AirflowSql
  <2>1. volume' \in Volumes
    BY <1>8, LifecycleAssumption DEF AirflowSql, TypeOK, Volumes
  <2> QED
    BY <1>2, <1>8, <2>1 DEF AirflowSql
<1> QED
  BY <1>3, <1>4, <1>5, <1>6, <1>7, <1>8 DEF Postgres

\* A step of a terminal leaves every variable in its set.
LEMMA TerminalType ==
  ASSUME TypeOK, NEW t \in Terminals, Invoke(t) \/ Continue(t)
  PROVE  TypeOK'
<1>1. term[t] \in Terms
  BY DEF TypeOK
<1>2. ASSUME NEW next \in Terms, Becomes(t, next), volume' \in Volumes,
             postgres' \in Containers, client' \in [PostgresVars -> Values], discards' \in Nat
      PROVE  TypeOK'
  BY <1>2, BecomesType DEF TypeOK
<1> DEFINE kept == UNCHANGED <<volume, postgres, client, discards>>
<1>3. ASSUME NEW next \in Terms, Becomes(t, next), kept
      PROVE  TypeOK'
  BY <1>2, <1>3 DEF TypeOK
<1>4. ASSUME NEW s \in {"failed", "started"}
      PROVE  [term[t] EXCEPT !.pc = "idle", !.outcome = s] \in Terms
  BY <1>1 DEF Terms, Steps
<1>5. CASE Invoke(t)
  <2>1. PICK goal \in Goals :
          Becomes(t, [Idle EXCEPT !.pc = FirstStep(goal), !.goal = goal])
    BY <1>5 DEF Invoke
  <2>2. [Idle EXCEPT !.pc = FirstStep(goal), !.goal = goal] \in Terms
    BY EmptyTypes DEF Terms, Steps, FirstStep
  <2> QED
    BY <1>3, <1>5, <2>1, <2>2 DEF Invoke
<1>6. CASE ProbeDocker(t)
  <2>1. [term[t] EXCEPT !.pc = "read_env", !.docker = probe_docker(daemon)] \in Terms
    BY <1>1 DEF TypeOK, Terms, Steps, probe_docker, DaemonStates, DockerStates
  <2> QED
    BY <1>3, <1>6, <2>1 DEF ProbeDocker
<1>7. CASE ReadEnv(t)
  <2> DEFINE results == EarlyChecks(term[t].docker, envFile, Exported[t])
             next == [term[t] EXCEPT
                        !.file = envFile, !.results = results,
                        !.pc = IF AnyFail(results) THEN "idle" ELSE "probe_volume",
                        !.outcome = IF AnyFail(results) THEN "refused" ELSE "none"]
  <2>1. results \in [ORDER -> {OK, FAIL, UNKNOWN, NotRun}]
    BY DEF EarlyChecks, check_runtime, check_credentials
  <2>2. envFile \in EnvFile
    BY LifecycleAssumption DEF TypeOK
  <2>3. next \in Terms
    BY <1>1, <2>1, <2>2 DEF Terms, Steps
  <2> QED
    BY <1>3, <1>7, <2>3 DEF ReadEnv
<1>8. CASE ProbeVolume(t)
  <2> DEFINE status(seen) == check_postgres_volume(seen, InHand(t)["POSTGRES_USER"],
                                                         InHand(t)["POSTGRES_PASSWORD"])
             results(seen) == [term[t].results EXCEPT ![POSTGRES_VOLUME] = status(seen)]
             passed(seen) == [term[t] EXCEPT !.seen = seen, !.results = results(seen)]
  <2>1. PICK seen \in {Unreadable} \cup {ReadVolume(v) : v \in {volume}} :
          \/ Becomes(t, [passed(seen) EXCEPT !.pc = "idle", !.outcome = "refused"])
          \/ Becomes(t, [passed(seen) EXCEPT !.pc = "idle", !.outcome = "passed"])
          \/ Becomes(t, [passed(seen) EXCEPT !.pc = "compose_up"])
    BY <1>8 DEF ProbeVolume
  <2>2. seen \in VolumeState
    BY <2>1, EmptyTypes, ReportedAsWritten DEF TypeOK
  <2>3. status(seen) \in {OK, FAIL, UNKNOWN}
    BY DEF check_postgres_volume
  <2>4. results(seen) \in [ORDER -> {OK, FAIL, UNKNOWN, NotRun}]
    BY <1>1, <2>3 DEF Terms
  <2>5. /\ [passed(seen) EXCEPT !.pc = "idle", !.outcome = "refused"] \in Terms
        /\ [passed(seen) EXCEPT !.pc = "idle", !.outcome = "passed"] \in Terms
        /\ [passed(seen) EXCEPT !.pc = "compose_up"] \in Terms
    BY <1>1, <2>2, <2>4 DEF Terms, Steps
  <2>6. kept
    BY <1>8 DEF ProbeVolume
  <2> HIDE DEF passed
  <2> QED
    BY <1>3, <2>1, <2>5, <2>6
<1>9. CASE ComposeUp(t)
  <2> DEFINE settings == Handed(envFile, Exported[t])
  <2>1. settings \in [PostgresVars -> Values]
    BY ResolvedTypes DEF TypeOK
  <2>2. [at |-> "entry", settings |-> settings] \in Containers
    BY <2>1 DEF Containers, EntryPoints
  <2>3. CASE /\ postgres' \in {postgres, [at |-> "entry", settings |-> settings]}
             /\ client' = settings
             /\ Becomes(t, [term[t] EXCEPT !.pc = "wait"])
    <3>1. [term[t] EXCEPT !.pc = "wait"] \in Terms
      BY <1>1 DEF Terms, Steps
    <3>2. volume' \in Volumes /\ discards' \in Nat
      BY <1>9 DEF ComposeUp, TypeOK
    <3>3. postgres' \in Containers
      BY <2>2, <2>3 DEF TypeOK
    <3> QED
      BY <1>2, <2>1, <2>3, <3>1, <3>2, <3>3
  <2>4. CASE Finish(t, "failed") /\ kept
    BY <1>3, <1>4, <2>4 DEF Finish
  <2> QED
    BY <1>9, <2>3, <2>4 DEF ComposeUp
<1>10. CASE Wait(t)
  BY <1>3, <1>4, <1>10 DEF Wait, Finish
<1>11. CASE RemoveContainers(t)
  <2> DEFINE next == AfterRemove(term[t].goal)
             go   == [term[t] EXCEPT
                        !.pc = next, !.outcome = IF next = "idle" THEN "done" ELSE "none"]
  <2>1. go \in Terms
    BY <1>1 DEF Terms, Steps, AfterRemove
  <2>2. CASE /\ postgres' = NoContainer /\ client' = NoSettings /\ Becomes(t, go)
             /\ UNCHANGED <<volume, discards>>
    BY <1>2, <2>1, <2>2, EmptyTypes DEF TypeOK
  <2>3. CASE Finish(t, "failed") /\ kept
    BY <1>3, <1>4, <2>3 DEF Finish
  <2> QED
    BY <1>11, <2>2, <2>3 DEF RemoveContainers
<1>12. CASE DiscardVolume(t)
  <2> DEFINE next == AfterDiscard(term[t].goal)
             go   == [term[t] EXCEPT
                        !.pc = next, !.outcome = IF next = "idle" THEN "done" ELSE "none"]
  <2>1. go \in Terms
    BY <1>1 DEF Terms, Steps, AfterDiscard
  <2>2. CASE /\ volume' = EmptyVolume /\ discards' = discards + 1 /\ Becomes(t, go)
             /\ UNCHANGED <<postgres, client>>
    BY <1>2, <2>1, <2>2, EmptyTypes DEF TypeOK
  <2>3. CASE Becomes(t, go) /\ kept
    BY <1>3, <2>1, <2>3
  <2>4. CASE Finish(t, "failed") /\ kept
    BY <1>3, <1>4, <2>4 DEF Finish
  <2> QED
    BY <1>12, <2>2, <2>3, <2>4 DEF DiscardVolume
<1> QED
  BY <1>5, <1>6, <1>7, <1>8, <1>9, <1>10, <1>11, <1>12 DEF Continue

\* Every step leaves every variable in its set.
LEMMA NextType == TypeOK /\ [Next]_vars => TypeOK'
<1> SUFFICES ASSUME TypeOK, [Next]_vars PROVE TypeOK'
  OBVIOUS
<1>1. CASE UNCHANGED vars
  BY <1>1 DEF vars, TypeOK
<1> QED
  BY <1>1, SurroundingsType, PostgresType, TerminalType DEF Next

\* Whatever the terminals, the files and the exports, every variable stays in
\* its set.
THEOREM TypeCorrect == Spec => []TypeOK
<1> QED
  BY InitType, NextType, PTL DEF Spec

-----------------------------------------------------------------------------
(* The inductive invariant *)

\* A first initialisation past initdb made the role from the variables of the
\* container that runs it, and has not written its record until its last point.
FirstInitShape ==
  /\ volume.made => volume.version
  /\ volume.file # "absent" => volume.made
  /\ postgres.at = "initdb" => volume.version /\ ~volume.made
  /\ postgres.at \in FirstInit \ {"initdb"} =>
       /\ volume.made
       /\ volume.user = postgres.settings["POSTGRES_USER"]
       /\ volume.password = postgres.settings["POSTGRES_PASSWORD"]
  /\ postgres.at \in FirstInit \ {"airflow_sql"} => volume.file # "written"

\* No role and no container has a user with a colon.
UsersJoin ==
  /\ ColonFree(volume.user)
  /\ ColonFree(postgres.settings["POSTGRES_USER"])

\* What terminal t's doctor read of a record, it compared with the credentials
\* in its hand, and the volume it read it from still holds it or is gone.
Reading(t) ==
  /\ term[t].pc \in {"probe_docker", "read_env", "probe_volume", "remove", "discard"}
       => term[t].seen = Unreadable
  /\ term[t].pc = "probe_volume" => term[t].file \in EnvFiles
  /\ term[t].seen.kind = VOLUME_FINGERPRINTED =>
       /\ term[t].file \in EnvFiles
       /\ term[t].seen.salt <= discards + 1
       /\ term[t].seen.salt = discards + 1 =>
            /\ volume.file = "written"
            /\ volume.digest = term[t].seen.digest
       /\ term[t].results[POSTGRES_VOLUME]
            = check_postgres_volume(term[t].seen, InHand(t)["POSTGRES_USER"],
                                                  InHand(t)["POSTGRES_PASSWORD"])

\* Containers are removed for down, clean and reset, volumes for the last two.
Removing(t) ==
  /\ term[t].pc = "remove" => term[t].goal \in {"down", "clean", "reset"}
  /\ term[t].pc = "discard" => term[t].goal \in {"clean", "reset"}

IInv ==
  /\ TypeOK
  /\ RecordTellsTheTruth
  /\ FirstInitShape
  /\ UsersJoin
  /\ \A t \in Terminals : Reading(t) /\ Removing(t)
\* What holds of the volume and of the container that makes it.
VolumeInv == RecordTellsTheTruth /\ FirstInitShape /\ UsersJoin

\* Nothing is recorded or read before anything runs.
LEMMA InitInv == Init => IInv
<1> SUFFICES ASSUME Init PROVE IInv
  OBVIOUS
<1>1. ASSUME NEW s \in Settings PROVE ColonFree(VolumeBefore(s).user)
  BY ResolvedTypes DEF VolumeBefore, EmptyVolume, Settings
<1>2. ColonFree(Blank)
  BY DEF ColonFree, Blank
<1>3. volume.file = "absent" /\ ColonFree(volume.user) /\ (volume.made => volume.version)
  <2>1. CASE volume = EmptyVolume
    BY <1>2, <2>1 DEF EmptyVolume
  <2>2. ASSUME NEW s \in Settings, volume = VolumeBefore(s)
        PROVE  volume.file = "absent" /\ ColonFree(volume.user) /\ volume.version
    BY <1>1, <2>2 DEF VolumeBefore, EmptyVolume
  <2> QED
    BY <2>1, <2>2 DEF Init
<1>4. NoSettings["POSTGRES_USER"] = Blank
  BY DEF NoSettings, PostgresVars
<1>5. VolumeInv
  BY <1>2, <1>3, <1>4
  DEF Init, VolumeInv, RecordTellsTheTruth, FirstInitShape, UsersJoin, NoContainer, FirstInit
<1>6. \A t \in Terminals : Reading(t) /\ Removing(t)
  BY DEF Init, Idle, Reading, Removing, Unreadable, Bare, VOLUME_UNREADABLE,
         VOLUME_FINGERPRINTED
<1> QED
  BY <1>5, <1>6, InitType DEF IInv, VolumeInv

-----------------------------------------------------------------------------
(* The volume *)

\* A step that leaves the volume alone and at most puts the container back to
\* the entry of its entrypoint disturbs nothing.
LEMMA VolumeStands ==
  ASSUME VolumeInv, UNCHANGED <<volume, discards>>,
         \/ UNCHANGED postgres
         \/ /\ postgres'.at \in {"none", "entry", "serving"}
            /\ ColonFree(postgres'.settings["POSTGRES_USER"])
  PROVE  VolumeInv'
  BY DEF VolumeInv, RecordTellsTheTruth, FirstInitShape, UsersJoin, FirstInit

\* A death loses the place in the entrypoint and nothing else.
LEMMA SurroundingsKeepVolume ==
  ASSUME TypeOK, VolumeInv, EditEnv \/ DaemonStops \/ DaemonStarts \/ PostgresDies
  PROVE  VolumeInv'
<1>1. UNCHANGED <<volume, discards>>
  BY DEF EditEnv, DaemonStops, DaemonStarts, PostgresDies
<1>2. ColonFree(postgres.settings["POSTGRES_USER"])
  BY DEF VolumeInv, UsersJoin
<1>3. \/ UNCHANGED postgres
      \/ postgres'.at = "entry" /\ postgres'.settings = postgres.settings
  BY DEF EditEnv, DaemonStops, DaemonStarts, PostgresDies, Killed, TypeOK, Containers
<1> QED
  BY <1>1, <1>2, <1>3, VolumeStands

\* The record is written from the variables the role was made from, because
\* one container runs the whole first initialisation.
LEMMA PostgresKeepsVolume ==
  ASSUME TypeOK, VolumeInv, Postgres
  PROVE  VolumeInv'
<1> USE DEF FirstInit
<1>1. /\ discards' = discards
      /\ postgres'.settings = postgres.settings
  BY DEF Postgres, InitDb, ServeKept, CreateDb, RecordOpen, RecordWrite, AirflowSql,
         Proceed, TypeOK, Containers
<1>2. ColonFree(volume.user) /\ ColonFree(postgres.settings["POSTGRES_USER"])
  BY DEF VolumeInv, UsersJoin
<1>3. CASE InitDb
  <2>1. CASE ~volume.version /\ Proceed("entry", "initdb")
             /\ volume' = [volume EXCEPT !.version = TRUE]
    <3>1. postgres.at = "entry" /\ postgres'.at = "initdb"
      BY <2>1 DEF Proceed, TypeOK, Containers
    <3>2. /\ volume'.version /\ volume'.file = volume.file /\ volume'.user = volume.user
          /\ volume'.made = volume.made
      BY <2>1 DEF TypeOK, Volumes
    <3>3. volume.file = "absent" /\ ~volume.made
      BY <2>1 DEF VolumeInv, FirstInitShape, TypeOK, Volumes
    <3> QED
      BY <1>1, <1>2, <3>1, <3>2, <3>3
      DEF VolumeInv, RecordTellsTheTruth, FirstInitShape, UsersJoin
  <2>2. CASE /\ Proceed("initdb", "create_db")
             /\ volume' = [volume EXCEPT !.made = TRUE,
                              !.user = postgres.settings["POSTGRES_USER"],
                              !.password = postgres.settings["POSTGRES_PASSWORD"]]
    <3>1. postgres.at = "initdb" /\ postgres'.at = "create_db"
      BY <2>2 DEF Proceed, TypeOK, Containers
    <3>2. /\ volume'.version = volume.version /\ volume'.file = volume.file /\ volume'.made
          /\ volume'.user = postgres.settings["POSTGRES_USER"]
          /\ volume'.password = postgres.settings["POSTGRES_PASSWORD"]
      BY <2>2 DEF TypeOK, Volumes
    <3>3. volume.version /\ volume.file # "written"
      BY <3>1 DEF VolumeInv, FirstInitShape
    <3> QED
      BY <1>1, <1>2, <3>1, <3>2, <3>3
      DEF VolumeInv, RecordTellsTheTruth, FirstInitShape, UsersJoin
  <2> QED
    BY <1>3, <2>1, <2>2 DEF InitDb
<1>4. CASE ServeKept
  <2>1. UNCHANGED volume /\ postgres'.at = "serving"
    BY <1>4 DEF ServeKept, Proceed, TypeOK, Containers
  <2> QED
    BY <1>1, <1>2, <2>1, VolumeStands
<1>5. ASSUME NEW from \in FirstInit \ {"initdb", "airflow_sql"}, NEW to \in FirstInit \ {"initdb"},
             Proceed(from, to), volume'.version = volume.version, volume'.made = volume.made,
             volume'.user = volume.user, volume'.password = volume.password,
             volume'.file \in {volume.file, "torn"}
      PROVE  VolumeInv'
  <2>1. postgres.at = from /\ postgres'.at = to
    BY <1>5 DEF Proceed, TypeOK, Containers
  <2>2. volume'.file # "written"
    BY <1>5, <2>1 DEF VolumeInv, FirstInitShape
  <2> QED
    BY <1>1, <1>2, <1>5, <2>1, <2>2
    DEF VolumeInv, RecordTellsTheTruth, FirstInitShape, UsersJoin
<1>6. CASE CreateDb
  <2>1. /\ volume'.version = volume.version /\ volume'.made = volume.made
        /\ volume'.user = volume.user /\ volume'.password = volume.password /\ volume'.file = volume.file
    BY <1>6 DEF CreateDb, TypeOK, Volumes
  <2> QED
    BY <1>5, <1>6, <2>1 DEF CreateDb
<1>7. CASE RecordOpen
  <2>1. /\ volume'.version = volume.version /\ volume'.made = volume.made
        /\ volume'.user = volume.user /\ volume'.password = volume.password /\ volume'.file \in {volume.file, "torn"}
    BY <1>7 DEF RecordOpen, TypeOK, Volumes
  <2> QED
    BY <1>5, <1>7, <2>1 DEF RecordOpen
<1>8. CASE RecordWrite
  <2> DEFINE salt   == discards + 1
             digest == RecordedDigest(salt, postgres.settings)
  <2>1. postgres.at = "record_write" /\ postgres'.at = "airflow_sql"
    BY <1>8 DEF RecordWrite, Proceed, TypeOK, Containers
  <2>2. /\ volume.version /\ volume.made
        /\ volume.user = postgres.settings["POSTGRES_USER"]
        /\ volume.password = postgres.settings["POSTGRES_PASSWORD"]
    BY <2>1 DEF VolumeInv, FirstInitShape
  <2>3. digest = fingerprint(salt, volume.user, volume.password)
    BY <2>2 DEF RecordedDigest, fingerprint
  <2>4. volume' = [volume EXCEPT !.file = "written", !.salt = salt, !.digest = digest]
    BY <1>8 DEF RecordWrite
  <2>5. salt = discards' + 1
    BY <1>1
  <2> HIDE DEF salt, digest
  <2>6. /\ volume'.version = volume.version /\ volume'.made = volume.made
        /\ volume'.user = volume.user /\ volume'.password = volume.password /\ volume'.file = "written"
        /\ volume'.salt = salt /\ volume'.digest = digest
    BY <2>4 DEF TypeOK, Volumes
  <2> QED
    BY <1>1, <1>2, <2>1, <2>2, <2>3, <2>5, <2>6
    DEF VolumeInv, RecordTellsTheTruth, FirstInitShape, UsersJoin
<1>9. CASE AirflowSql
  <2>1. /\ volume'.version = volume.version /\ volume'.made = volume.made
        /\ volume'.user = volume.user /\ volume'.password = volume.password /\ volume'.file = volume.file
        /\ volume'.salt = volume.salt /\ volume'.digest = volume.digest
        /\ postgres'.at = "serving"
    BY <1>9 DEF AirflowSql, Proceed, TypeOK, Volumes, Containers
  <2> QED
    BY <1>1, <1>2, <2>1
    DEF VolumeInv, RecordTellsTheTruth, FirstInitShape, UsersJoin
<1> QED
  BY <1>3, <1>4, <1>6, <1>7, <1>8, <1>9 DEF Postgres

\* A terminal replaces or removes the container, or discards the volume and
\* the record with it.
LEMMA TerminalKeepsVolume ==
  ASSUME TypeOK, VolumeInv, NEW t \in Terminals, Invoke(t) \/ Continue(t)
  PROVE  VolumeInv'
<1>1. ColonFree(Blank) /\ NoSettings["POSTGRES_USER"] = Blank
  BY DEF ColonFree, Blank, NoSettings, PostgresVars
<1>2. CASE Invoke(t) \/ ProbeDocker(t) \/ ReadEnv(t) \/ ProbeVolume(t) \/ Wait(t)
  BY <1>2, VolumeStands DEF Invoke, ProbeDocker, ReadEnv, ProbeVolume, Wait
<1>3. CASE ComposeUp(t)
  <2> DEFINE settings == Handed(envFile, Exported[t])
  <2>1. ColonFree(settings["POSTGRES_USER"])
    BY ResolvedTypes DEF TypeOK
  <2>2. postgres' \in {postgres, [at |-> "entry", settings |-> settings]}
    BY <1>3 DEF ComposeUp
  <2>3. UNCHANGED <<volume, discards>>
    BY <1>3 DEF ComposeUp
  <2> HIDE DEF settings
  <2> QED
    BY <2>1, <2>2, <2>3, VolumeStands
<1>4. CASE RemoveContainers(t)
  <2>1. postgres' \in {postgres, NoContainer} /\ UNCHANGED <<volume, discards>>
    BY <1>4 DEF RemoveContainers
  <2> QED
    BY <1>1, <2>1, VolumeStands DEF NoContainer
<1>5. CASE DiscardVolume(t)
  <2>1. CASE UNCHANGED <<volume, discards, postgres>>
    BY <2>1, VolumeStands
  <2>2. CASE volume' = EmptyVolume /\ postgres.at = "none" /\ UNCHANGED postgres
    BY <1>1, <2>2
    DEF EmptyVolume, VolumeInv, RecordTellsTheTruth, FirstInitShape, UsersJoin, FirstInit
  <2> QED
    BY <1>5, <2>1, <2>2 DEF DiscardVolume
<1> QED
  BY <1>2, <1>3, <1>4, <1>5 DEF Continue

-----------------------------------------------------------------------------
(* The terminals *)

\* What a terminal read stands while it does nothing itself, as long as the
\* record it read stays until its volume is discarded.
LEMMA ReadingStands ==
  ASSUME TypeOK, TypeOK', NEW t \in Terminals, Reading(t), Removing(t), term'[t] = term[t],
         discards' >= discards,
         discards' = discards /\ volume.file = "written"
           => volume'.file = "written" /\ volume'.digest = volume.digest
  PROVE  Reading(t)' /\ Removing(t)'
<1>1. InHand(t)' = InHand(t)
  BY DEF InHand
<1>2. term[t].seen.salt \in Nat /\ discards \in Nat /\ discards' \in Nat
  BY DEF TypeOK, Terms, VolumeState
<1> QED
  BY <1>1, <1>2 DEF Reading, Removing

\* Nor does a step of its own end it, which leaves what it read alone.
LEMMA ReadingMoves ==
  ASSUME TypeOK, NEW t \in Terminals, Reading(t),
         UNCHANGED <<volume, discards>>,
         term'[t].seen = term[t].seen,
         term'[t].file = term[t].file,
         term'[t].results = term[t].results,
         term'[t].pc \in {"idle", "wait"}
  PROVE  Reading(t)' /\ Removing(t)'
<1>1. InHand(t)' = InHand(t)
  BY DEF InHand
<1> QED
  BY <1>1 DEF Reading, Removing

\* While a terminal has not read the volume there is nothing to compare.
LEMMA NothingRead ==
  ASSUME NEW t \in Terminals, term'[t].seen = Unreadable,
         term'[t].pc = "probe_volume" => term'[t].file \in EnvFiles,
         Removing(t)'
  PROVE  Reading(t)' /\ Removing(t)'
  BY DEF Reading, Unreadable, Bare, VOLUME_UNREADABLE, VOLUME_FINGERPRINTED

\* The entrypoint writes no record over another one.
LEMMA PostgresKeepsReading ==
  ASSUME TypeOK, TypeOK', VolumeInv, Postgres, NEW t \in Terminals, Reading(t), Removing(t)
  PROVE  Reading(t)' /\ Removing(t)'
<1>1. UNCHANGED <<term, discards>>
  BY DEF Postgres, InitDb, ServeKept, CreateDb, RecordOpen, RecordWrite, AirflowSql, Proceed
<1>2. volume.file = "written" => volume'.file = "written" /\ volume'.digest = volume.digest
  <2>1. CASE InitDb \/ ServeKept \/ CreateDb \/ AirflowSql
    BY <2>1 DEF InitDb, ServeKept, CreateDb, AirflowSql, TypeOK, Volumes
  <2>2. CASE RecordOpen \/ RecordWrite
    BY <2>2 DEF RecordOpen, RecordWrite, Proceed, VolumeInv, FirstInitShape, FirstInit
  <2> QED
    BY <2>1, <2>2 DEF Postgres
<1>3. discards' >= discards
  BY <1>1 DEF TypeOK
<1> QED
  BY <1>1, <1>2, <1>3, ReadingStands

\* A terminal's step keeps its own reading and every other one.
LEMMA TerminalKeepsReading ==
  ASSUME TypeOK, TypeOK', VolumeInv, NEW t \in Terminals, Invoke(t) \/ Continue(t),
         \A u \in Terminals : Reading(u) /\ Removing(u),
         NEW u \in Terminals
  PROVE  Reading(u)' /\ Removing(u)'
<1>1. ASSUME NEW next, Becomes(t, next)
      PROVE  term'[t] = next /\ (u # t => term'[u] = term[u])
  BY <1>1 DEF Becomes, TypeOK
<1>2. \E next : Becomes(t, next)
  BY DEF Invoke, Continue, ProbeDocker, ReadEnv, ProbeVolume, ComposeUp, Wait,
         RemoveContainers, DiscardVolume, Finish
<1>3. /\ discards' >= discards
      /\ discards' # discards \/ UNCHANGED volume
  <2>1. discards \in Nat
    BY DEF TypeOK
  <2>2. CASE DiscardVolume(t)
    <3>1. \/ discards' = discards + 1
          \/ UNCHANGED <<volume, discards>>
      BY <2>2 DEF DiscardVolume
    <3> QED
      BY <2>1, <3>1
  <2>3. CASE ~DiscardVolume(t)
    <3>1. UNCHANGED <<volume, discards>>
      BY <2>3 DEF Invoke, Continue, ProbeDocker, ReadEnv, ProbeVolume, ComposeUp, Wait,
                  RemoveContainers
    <3> QED
      BY <2>1, <3>1
  <2> QED
    BY <2>2, <2>3
<1>4. CASE u # t
  BY <1>1, <1>2, <1>3, <1>4, ReadingStands
<1>5. CASE u = t
  <2>1. term[t] \in Terms
    BY DEF TypeOK
  <2>2. Reading(t) /\ Removing(t)
    OBVIOUS
  <2>f. ASSUME NEW s, Finish(t, s)
        PROVE  /\ term'[t].seen = term[t].seen /\ term'[t].file = term[t].file
               /\ term'[t].results = term[t].results /\ term'[t].goal = term[t].goal
               /\ term'[t].pc = "idle"
    BY <2>1, <2>f DEF Finish, Becomes, TypeOK, Terms
  <2>3. CASE Invoke(t)
    <3>1. PICK goal \in Goals :
            Becomes(t, [Idle EXCEPT !.pc = FirstStep(goal), !.goal = goal])
      BY <2>3 DEF Invoke
    <3>2. /\ term'[t].seen = Unreadable /\ term'[t].goal = goal
          /\ term'[t].pc = FirstStep(goal)
      BY <3>1 DEF Idle, Becomes, TypeOK
    <3>3. term'[t].pc # "probe_volume" /\ Removing(t)'
      BY <3>2 DEF Removing, FirstStep, Goals
    <3> QED
      BY <1>5, <3>2, <3>3, NothingRead
  <2>4. CASE ProbeDocker(t)
    <3>1. term'[t].pc = "read_env" /\ term'[t].seen = term[t].seen
      BY <2>1, <2>4 DEF ProbeDocker, Becomes, TypeOK, Terms
    <3>2. term[t].seen = Unreadable
      BY <2>2, <2>4 DEF Reading, ProbeDocker
    <3> QED
      BY <1>5, <3>1, <3>2, NothingRead DEF Removing
  <2>5. CASE ReadEnv(t)
    <3> DEFINE results == EarlyChecks(term[t].docker, envFile, Exported[t])
               next == [term[t] EXCEPT
                          !.file = envFile, !.results = results,
                          !.pc = IF AnyFail(results) THEN "idle" ELSE "probe_volume",
                          !.outcome = IF AnyFail(results) THEN "refused" ELSE "none"]
    <3>1. term'[t] = next
      BY <2>5 DEF ReadEnv, Becomes, TypeOK
    <3>2. /\ term'[t].pc \in {"idle", "probe_volume"} /\ term'[t].file = envFile
          /\ term'[t].seen = term[t].seen
      BY <2>1, <3>1 DEF Terms
    <3>3. term[t].seen = Unreadable
      BY <2>2, <2>5 DEF Reading, ReadEnv
    <3> QED
      BY <1>5, <3>2, <3>3, NothingRead DEF Removing, TypeOK
  <2>6. CASE ProbeVolume(t)
    <3> DEFINE status(seen) == check_postgres_volume(seen, InHand(t)["POSTGRES_USER"],
                                                           InHand(t)["POSTGRES_PASSWORD"])
               results(seen) == [term[t].results EXCEPT ![POSTGRES_VOLUME] = status(seen)]
               passed(seen) == [term[t] EXCEPT !.seen = seen, !.results = results(seen)]
    <3>1. PICK seen \in {Unreadable} \cup {ReadVolume(v) : v \in {volume}} :
            \/ Becomes(t, [passed(seen) EXCEPT !.pc = "idle", !.outcome = "refused"])
            \/ Becomes(t, [passed(seen) EXCEPT !.pc = "idle", !.outcome = "passed"])
            \/ Becomes(t, [passed(seen) EXCEPT !.pc = "compose_up"])
      BY <2>6 DEF ProbeVolume
    <3>2. /\ term'[t].seen = seen /\ term'[t].file = term[t].file
          /\ term'[t].results = results(seen) /\ term'[t].pc \in {"idle", "compose_up"}
      <4> HIDE DEF results
      <4>1. \/ term'[t] = [passed(seen) EXCEPT !.pc = "idle", !.outcome = "refused"]
            \/ term'[t] = [passed(seen) EXCEPT !.pc = "idle", !.outcome = "passed"]
            \/ term'[t] = [passed(seen) EXCEPT !.pc = "compose_up"]
        <5> HIDE DEF passed
        <5> QED
          BY <3>1 DEF Becomes, TypeOK
      <4>2. /\ DOMAIN passed(seen) = DOMAIN term[t]
            /\ passed(seen).seen = seen
            /\ passed(seen).file = term[t].file
            /\ passed(seen).results = results(seen)
        BY <2>1 DEF Terms
      <4> QED
        BY <2>1, <4>1, <4>2 DEF Terms
    <3>3. term'[t].results[POSTGRES_VOLUME] = status(seen)
      BY <2>1, <3>2 DEF Terms, ORDER
    <3>4. InHand(t)' = InHand(t) /\ term'[t].file \in EnvFiles
      BY <2>2, <2>6, <3>2 DEF InHand, Reading, ProbeVolume
    <3>5. UNCHANGED <<volume, discards>>
      BY <2>6 DEF ProbeVolume
    <3>6. seen.kind = VOLUME_FINGERPRINTED =>
            /\ seen.salt = discards + 1
            /\ volume.file = "written" /\ volume.digest = seen.digest
      <4>1. Unreadable.kind # VOLUME_FINGERPRINTED
        BY DEF Unreadable, Bare, VOLUME_UNREADABLE, VOLUME_FINGERPRINTED
      <4>2. volume \in Volumes
        BY DEF TypeOK
      <4>3. ReadVolume(volume).kind = VOLUME_FINGERPRINTED =>
              /\ ReadVolume(volume).salt = discards + 1
              /\ volume.file = "written" /\ volume.digest = ReadVolume(volume).digest
        BY <4>2, ReportedAsWritten DEF VolumeInv, RecordTellsTheTruth
      <4> QED
        BY <3>1, <4>1, <4>3
    <3>7. discards + 1 <= discards + 1
      BY DEF TypeOK
    <3> HIDE DEF status
    <3>8. Reading(t)'
      <4>1. status(seen)' = status(seen)
        BY <3>4 DEF status
      <4> QED
        BY <3>2, <3>3, <3>4, <3>5, <3>6, <3>7 DEF Reading, status
    <3> QED
      BY <1>5, <3>2, <3>8 DEF Removing
  <2>7. CASE ComposeUp(t)
    <3>1. /\ term'[t].seen = term[t].seen /\ term'[t].file = term[t].file
          /\ term'[t].results = term[t].results /\ term'[t].pc \in {"idle", "wait"}
      BY <2>1, <2>7, <2>f DEF ComposeUp, Becomes, TypeOK, Terms
    <3> QED
      BY <1>5, <2>2, <2>7, <3>1, ReadingMoves DEF ComposeUp
  <2>8. CASE Wait(t)
    <3>1. /\ term'[t].seen = term[t].seen /\ term'[t].file = term[t].file
          /\ term'[t].results = term[t].results /\ term'[t].pc \in {"idle", "wait"}
      BY <2>8, <2>f DEF Wait
    <3> QED
      BY <1>5, <2>2, <2>8, <3>1, ReadingMoves DEF Wait
  <2>9. CASE RemoveContainers(t)
    <3>1. /\ term'[t].seen = term[t].seen /\ term'[t].goal = term[t].goal
          /\ term'[t].pc \in {"idle", AfterRemove(term[t].goal)}
      <4> DEFINE next == AfterRemove(term[t].goal)
                 outcome == IF next = "idle" THEN "done" ELSE "none"
      <4>1. \/ Becomes(t, [term[t] EXCEPT !.pc = next, !.outcome = outcome])
            \/ Finish(t, "failed")
        BY <2>9 DEF RemoveContainers
      <4> HIDE DEF next, outcome
      <4>2. /\ term'[t].seen = term[t].seen /\ term'[t].goal = term[t].goal
            /\ term'[t].pc \in {"idle", next}
        <5>1. CASE Becomes(t, [term[t] EXCEPT !.pc = next, !.outcome = outcome])
          BY <2>1, <5>1 DEF Becomes, TypeOK, Terms
        <5> QED
          BY <2>f, <4>1, <5>1
      <4> QED
        BY <4>2 DEF next
    <3>2. term[t].seen = Unreadable /\ term[t].goal \in {"down", "clean", "reset"}
      BY <2>2, <2>9 DEF Reading, Removing, RemoveContainers
    <3> QED
      BY <1>5, <3>1, <3>2, NothingRead DEF Removing, AfterRemove
  <2>10. CASE DiscardVolume(t)
    <3>1. /\ term'[t].seen = term[t].seen
          /\ term'[t].pc \in {"idle", AfterDiscard(term[t].goal)}
      <4> DEFINE next == AfterDiscard(term[t].goal)
                 outcome == IF next = "idle" THEN "done" ELSE "none"
      <4>1. \/ Becomes(t, [term[t] EXCEPT !.pc = next, !.outcome = outcome])
            \/ Finish(t, "failed")
        BY <2>10 DEF DiscardVolume
      <4> HIDE DEF next, outcome
      <4>2. term'[t].seen = term[t].seen /\ term'[t].pc \in {"idle", next}
        <5>1. CASE Becomes(t, [term[t] EXCEPT !.pc = next, !.outcome = outcome])
          BY <2>1, <5>1 DEF Becomes, TypeOK, Terms
        <5> QED
          BY <2>f, <4>1, <5>1
      <4> QED
        BY <4>2 DEF next
    <3>2. term[t].seen = Unreadable
      BY <2>2, <2>10 DEF Reading, DiscardVolume
    <3> QED
      BY <1>5, <3>1, <3>2, NothingRead DEF Removing, AfterDiscard
  <2> QED
    BY <2>3, <2>4, <2>5, <2>6, <2>7, <2>8, <2>9, <2>10 DEF Continue
<1> QED
  BY <1>4, <1>5

-----------------------------------------------------------------------------
(* The theorems *)

\* The invariant is inductive.
LEMMA NextInv == IInv /\ [Next]_vars => IInv'
<1> SUFFICES ASSUME IInv, [Next]_vars PROVE IInv'
  OBVIOUS
<1>1. TypeOK /\ TypeOK' /\ VolumeInv
  BY NextType DEF IInv, VolumeInv
<1>2. \A t \in Terminals : Reading(t) /\ Removing(t)
  BY DEF IInv
<1>3. CASE UNCHANGED vars
  <2>1. discards' >= discards
    BY <1>1, <1>3 DEF vars, TypeOK
  <2>2. VolumeInv'
    BY <1>1, <1>3, VolumeStands DEF vars
  <2>3. \A t \in Terminals : Reading(t)' /\ Removing(t)'
    BY <1>1, <1>2, <1>3, <2>1, ReadingStands DEF vars
  <2> QED
    BY <1>1, <2>2, <2>3 DEF IInv, VolumeInv
<1>4. CASE EditEnv \/ DaemonStops \/ DaemonStarts \/ PostgresDies
  <2>1. UNCHANGED <<term, volume, discards>>
    BY <1>4 DEF EditEnv, DaemonStops, DaemonStarts, PostgresDies
  <2>2. discards' >= discards
    BY <1>1, <2>1 DEF TypeOK
  <2>3. \A t \in Terminals : Reading(t)' /\ Removing(t)'
    BY <1>1, <1>2, <2>1, <2>2, ReadingStands
  <2> QED
    BY <1>1, <1>4, <2>3, SurroundingsKeepVolume DEF IInv, VolumeInv
<1>5. CASE Postgres
  <2>1. VolumeInv'
    BY <1>1, <1>5, PostgresKeepsVolume
  <2>2. \A t \in Terminals : Reading(t)' /\ Removing(t)'
    BY <1>1, <1>2, <1>5, PostgresKeepsReading
  <2> QED
    BY <1>1, <2>1, <2>2 DEF IInv, VolumeInv
<1>6. ASSUME NEW t \in Terminals, Invoke(t) \/ Continue(t)
      PROVE  IInv'
  <2>1. VolumeInv'
    BY <1>1, <1>6, TerminalKeepsVolume
  <2>2. \A u \in Terminals : Reading(u)' /\ Removing(u)'
    BY <1>1, <1>2, <1>6, TerminalKeepsReading
  <2> QED
    BY <1>1, <2>1, <2>2 DEF IInv, VolumeInv
<1> QED
  BY <1>3, <1>4, <1>5, <1>6 DEF Next

\* The invariant holds in every reachable state.
THEOREM Invariance == Spec => []IInv
<1> QED
  BY InitInv, NextInv, PTL DEF Spec

\* The record never lies about the role beside it, for any number of
\* terminals, any edits and any deaths.
THEOREM RecordIsTrue == Spec => []RecordTellsTheTruth
<1>1. IInv => RecordTellsTheTruth
  BY DEF IInv
<1> QED
  BY <1>1, Invariance, PTL

\* What the verdict of a doctor says of credentials it and compose read alike:
\* it is OK exactly if they are those of the role.
LEMMA VerdictIsRight ==
  ASSUME IInv, NEW t \in Terminals, Compared(t), AlikeFor(t)
  PROVE  /\ term[t].results[POSTGRES_VOLUME] = OK => SameCredentials(t)
         /\ term[t].results[POSTGRES_VOLUME] = FAIL => ~SameCredentials(t)
<1> DEFINE held     == InHand(t)
           user     == held["POSTGRES_USER"]
           password == held["POSTGRES_PASSWORD"]
           seen     == term[t].seen
<1>1. /\ seen.kind = VOLUME_FINGERPRINTED
      /\ volume.file = "written" /\ volume.salt = seen.salt
  BY DEF Compared
<1>2. /\ term[t].file \in EnvFiles
      /\ seen.salt = discards + 1 => volume.digest = seen.digest
      /\ term[t].results[POSTGRES_VOLUME] = check_postgres_volume(seen, user, password)
  BY <1>1 DEF IInv, Reading
<1>3. /\ volume.digest = fingerprint(volume.salt, volume.user, volume.password)
      /\ volume.salt = discards + 1
      /\ ColonFree(volume.user)
      /\ volume.user \in Values /\ volume.password \in Values
  BY <1>1 DEF IInv, RecordTellsTheTruth, UsersJoin, TypeOK, Volumes
<1>4. seen.digest = fingerprint(seen.salt, volume.user, volume.password)
  BY <1>1, <1>2, <1>3
<1>5. /\ user = Offered(t)["POSTGRES_USER"]
      /\ password = Offered(t)["POSTGRES_PASSWORD"]
  BY <1>1, <1>2, SameResolution DEF InHand, Offered, AlikeFor
<1>6. user \in Values /\ password \in Values /\ ColonFree(user)
  BY <1>1, <1>2, <1>5, ResolvedTypes DEF Offered, PostgresVars
<1> HIDE DEF held, user, password, seen
<1>7. ASSUME seen.digest = fingerprint(seen.salt, user, password)
      PROVE  user = volume.user /\ password = volume.password
  <2> DEFINE ours   == user \o <<Colon>> \o password
             theirs == volume.user \o <<Colon>> \o volume.password
  <2>1. <<seen.salt, ours>> = <<seen.salt, theirs>>
    BY <1>4, <1>7 DEF fingerprint
  <2>2. ours = theirs
    <3> HIDE DEF ours, theirs
    <3> QED BY <2>1
  <2> QED
    BY <1>3, <1>6, <2>2, JoinInjective
<1>8. /\ term[t].results[POSTGRES_VOLUME] = OK
           => seen.digest = fingerprint(seen.salt, user, password)
      /\ term[t].results[POSTGRES_VOLUME] = FAIL
           => seen.digest # fingerprint(seen.salt, user, password)
  BY <1>1, <1>2
  DEF check_postgres_volume, VOLUME_EMPTY, VOLUME_FINGERPRINTED, OK, FAIL, UNKNOWN, seen
<1>9. CASE term[t].results[POSTGRES_VOLUME] = OK
  BY <1>5, <1>7, <1>8, <1>9 DEF SameCredentials, OK, FAIL
<1>10. CASE term[t].results[POSTGRES_VOLUME] = FAIL
  BY <1>4, <1>5, <1>8, <1>10 DEF SameCredentials, OK, FAIL
<1> QED
  BY <1>9, <1>10

\* No doctor that reads its credentials as compose does lets a start through
\* whose credentials are not those of the role.
THEOREM OkNeverLies == Spec => []OkIsRight
<1>1. IInv => OkIsRight
  BY VerdictIsRight DEF OkIsRight
<1> QED
  BY <1>1, Invariance, PTL

\* And none refuses a start the volume would have served: of credentials that
\* are read alike there is no exception to WorkingVolumeIsNeverRefused.
THEOREM RefusalNeverLies == Spec => []RefusalIsRight
<1>1. IInv => RefusalIsRight
  BY VerdictIsRight DEF RefusalIsRight
<1> QED
  BY <1>1, Invariance, PTL

\* A data directory is lost only to somebody who asked for it.
THEOREM OnlyAskedFor == Spec => OnlyCleanDiscards
<1> DEFINE Asked == volume.version /\ ~volume'.version =>
                      \E t \in Terminals : /\ term[t].pc # "idle"
                                           /\ term[t].goal \in {"clean", "reset"}
<1>1. ASSUME IInv, [Next]_vars PROVE [Asked]_vars
  <2>1. CASE UNCHANGED volume
    BY <2>1
  <2>2. CASE Postgres
    <3>1. volume \in Volumes
      BY <1>1 DEF IInv, TypeOK
    <3>2. CASE InitDb
      BY <3>1, <3>2 DEF InitDb, Volumes
    <3>3. CASE ServeKept \/ CreateDb
      BY <3>1, <3>3 DEF ServeKept, CreateDb, Volumes
    <3>4. CASE RecordOpen
      BY <3>1, <3>4 DEF RecordOpen, Volumes
    <3>5. CASE RecordWrite \/ AirflowSql
      BY <3>1, <3>5 DEF RecordWrite, AirflowSql, Volumes
    <3> QED
      BY <2>2, <3>2, <3>3, <3>4, <3>5 DEF Postgres
  <2>3. ASSUME NEW t \in Terminals, Invoke(t) \/ Continue(t) PROVE Asked
    <3>1. CASE DiscardVolume(t)
      <4>1. term[t].pc = "discard" /\ Removing(t)
        BY <1>1, <3>1 DEF IInv, DiscardVolume
      <4> QED
        BY <4>1 DEF Removing
    <3>2. CASE ~DiscardVolume(t)
      BY <2>3, <3>2
      DEF Invoke, Continue, ProbeDocker, ReadEnv, ProbeVolume, ComposeUp, Wait,
          RemoveContainers
    <3> QED
      BY <3>1, <3>2
  <2>4. EditEnv \/ DaemonStops \/ DaemonStarts \/ PostgresDies => UNCHANGED volume
    BY DEF EditEnv, DaemonStops, DaemonStarts, PostgresDies
  <2> QED
    BY <1>1, <2>1, <2>2, <2>3, <2>4 DEF Next, vars
<1> QED
  BY <1>1, Invariance, PTL DEF Spec, OnlyCleanDiscards
=============================================================================
