------------------------------ MODULE SupplyGate ------------------------------
(***************************************************************************)
(* The supply-chain gate: the inventories and the advisory baselines of    *)
(* sbom/, the recipes build, sbom, scan-report, scan and scan-accept, the  *)
(* three programs of supply/ they call, and the weekly job of supply.yml.  *)
(*                                                                         *)
(* Two checkouts of the repository: a developer's, where stale documents   *)
(* survive from one command to the next, and the runner's, which starts    *)
(* empty.  They meet in the committed tree, which changes under a running  *)
(* job, as the advisories do.                                              *)
(***************************************************************************)
EXTENDS Naturals

CONSTANTS
  Dev, Runner,  \* the two checkouts
  Names,        \* file stems in sbom/: references without digest, / and : replaced
  Digests,      \* what a reference can resolve to
  Built,        \* the digest of a reference that is built here: it has none
  Packages, Subject, \* entries of an SPDX document; the one that is the image itself
  Contents,     \* the packages of each digest
  BuildOn,      \* the digest a build on each base yields
  Advisories, Affected, \* advisories and the packages each is against
  Composes,     \* the compose files somebody may write
  None,
  Malformed,    \* a baseline with a line that is no advisory identifier
  DevTargets,   \* bound: the recipes the developer runs
  Overlap,      \* bound: do recipes and job run at the same time?
  MaxEdits,     \* bound: edits, commits and deletions by the developer
  MaxNews,      \* bound: changes of the advisory database
  MaxMishaps    \* bound: commands that fail by accident or are interrupted

Checkouts == {Dev, Runner}
Refs      == [name : Names, digest : Digests \cup {Built}]
Services  == [image : Refs \cup {None}, from : Refs \cup {None}]

\* Every image a compose file names or builds on, and whether supply.images
\* can read it: an empty file and a service without an image are refused.
References(compose) ==
  ({s.image : s \in compose} \cup {s.from : s \in compose}) \ {None}
Listable(compose)   == compose # {} /\ \A s \in compose : s.image # None
Runs(compose)       == {s.image : s \in compose} \ {None}

\* The bases of the builds that yield an image.
BasesOf(compose, n) ==
  {s.from.digest : s \in {x \in compose : /\ x.image # None /\ x.from # None
                                         /\ x.image.name = n}}

ASSUME SupplyAssumption ==
  /\ Dev # Runner
  /\ Contents \in [Digests -> SUBSET Packages]
  /\ BuildOn \in [Digests -> Digests]
  /\ Affected \in [Advisories -> SUBSET Packages]
  /\ Subject \notin Packages /\ Built \notin Digests
  /\ None \notin Digests \cup Refs
  /\ \A entries \in SUBSET (Packages \cup {Subject}) : None # entries
  /\ Malformed # None /\ \A ids \in SUBSET Advisories : ids \notin {None, Malformed}
  /\ Composes \in SUBSET SUBSET Services
  /\ DevTargets \subseteq {"build", "sbom", "scan-report", "scan", "scan-accept"}

\* What the compose file and the Dockerfiles are held to: two references do not
\* differ in their digest only, a reference without a digest is built here, and
\* a base has one.
ASSUME ReferencesAssumption ==
  \A compose \in Composes :
    /\ \A r, s \in References(compose) : r.name = s.name => r = s
    /\ \A r \in References(compose) : r.digest = Built => BasesOf(compose, r.name) # {}
    /\ \A s \in compose : s.from # None => s.from.digest \in Digests

VARIABLES
  source,     \* the compose file of each checkout
  local,      \* the images built in it
  doc,        \* sbom/<name>.spdx.json, ignored by git
  report,     \* sbom/<name>.findings.json, ignored by git
  inventory,  \* sbom/<name>.packages.txt
  known,      \* sbom/<name>.known.txt
  db,         \* the scanner's database of each checkout
  op,         \* the recipe or job at work in each checkout
  head,       \* the commit the runner checked out
  committed,  \* the repository
  advised,    \* the published advisories
  edits, news, mishaps

files == <<doc, report, inventory, known>>
repo  == <<head, committed, advised, edits, news>>
vars  == <<source, local, files, db, op, repo, mishaps>>

\* High stands for Critical too, Medium for everything below; absent: not published.
GATED   == {"High"}
Ratings == {"absent", "Medium", "High"}
Matched == [id : Advisories, severity : {"Medium", "High"}]
Entries == Packages \cup {Subject}
Targets == {"build", "sbom", "scan-report", "scan", "scan-accept", "job"}
Ended   == {"passed", "refused", "failed"}
Steps   == {"build", "list", "catalogue", "reduce", "diff", "documents", "update",
            "scan", "compare", "accept"}
Ops     == [target : Targets, at : Steps \cup Ended, refs : SUBSET Refs,
            hand : Refs \cup {None}, names : SUBSET Names, failed : SUBSET Names]
Baselines == (SUBSET Advisories) \cup {None, Malformed}
Tree    == [source : Composes, inventory : [Names -> (SUBSET Packages) \cup {None}],
            known : [Names -> Baselines]]

NoFile == [n \in Names |-> None]
NoOp   == [target |-> "build", at |-> "failed", refs |-> {}, hand |-> None, names |-> {},
           failed |-> {}]

-----------------------------------------------------------------------------
(* What the tools compute *)

\* The digest a reference stands for in a checkout; None, if it is built here
\* and has not been.
Resolved(w, r) == IF r.digest = Built THEN local[w][r.name] ELSE r.digest

\* syft: the packages of the image, and an entry for the image itself.
Document(digest) == Contents[digest] \cup {Subject}

\* supply.inventory: what the document lists, except its own subject.
Reduced(document) == document \ {Subject}

\* grype: the published advisories against the packages of a document.
\* Mutant: withdrawn advisories are still matched.
MatchesAll(document, database) ==
  {[id |-> v, severity |-> database[v]] : v \in {x \in Advisories : Affected[x] \cap document # {}}}

Matches(document, database) ==
  {[id |-> v, severity |-> database[v]] :
     v \in {x \in Advisories : database[x] # "absent" /\ Affected[x] \cap document # {}}}

\* supply.findings: the identifiers at the gated severities, and whether one of
\* them is not baselined.  A baseline that is missing or malformed is an error,
\* not an empty set.
advisories(matched) == {m.id : m \in {x \in matched : x.severity \in GATED}}

\* Mutant: a missing baseline has nothing to compare with.
NewlyAdvised(baseline, matched) ==
  baseline # None /\ (baseline = Malformed \/ ~(advisories(matched) \subseteq baseline))

Unbaselined(baseline, matched) ==
  baseline \in {None, Malformed} \/ ~(advisories(matched) \subseteq baseline)

-----------------------------------------------------------------------------
\* The repository as an accepted scan left it, before anything was published
\* against its images, in two checkouts nothing was run in yet.
Digest(compose, r) ==
  IF r.digest = Built THEN BuildOn[CHOOSE d \in BasesOf(compose, r.name) : TRUE] ELSE r.digest

Init ==
  /\ \E compose \in Composes :
       LET named(n) == {r \in References(compose) : r.name = n}
           lines(n) == UNION {Contents[Digest(compose, r)] : r \in named(n)}
       IN  /\ Listable(compose)
           /\ \A r \in References(compose) : lines(r.name) # {}
           /\ committed =
                [source |-> compose,
                 inventory |-> [n \in Names |-> IF named(n) = {} THEN None ELSE lines(n)],
                 known |-> [n \in Names |-> IF named(n) = {} THEN None ELSE {}]]
  /\ head = committed
  /\ source = [w \in Checkouts |-> committed.source]
  /\ inventory = [w \in Checkouts |-> IF w = Dev THEN committed.inventory ELSE NoFile]
  /\ known = [w \in Checkouts |-> IF w = Dev THEN committed.known ELSE NoFile]
  /\ local = [w \in Checkouts |-> NoFile]
  /\ doc = [w \in Checkouts |-> NoFile]
  /\ report = [w \in Checkouts |-> NoFile]
  /\ db = [w \in Checkouts |-> None]
  /\ op = [w \in Checkouts |-> NoOp]
  /\ advised = [v \in Advisories |-> "absent"]
  /\ edits = 0 /\ news = 0 /\ mishaps = 0

-----------------------------------------------------------------------------
(* Recipes and job: one command at a time in each checkout *)

At(w, step)   == op[w].at = step
Idle(w)       == op[w].at \in Ended
NoJob         == Overlap \/ op[Runner] = NoOp
NoRecipe      == Overlap \/ Idle(Dev)
Mishap        == mishaps < MaxMishaps /\ mishaps' = mishaps + 1
First(S)      == CHOOSE x \in S : TRUE  \* the loops are over sorted lists
Documents(w)  == {n \in Names : doc[w][n] # None}
Go(w, next)   == op' = [op EXCEPT ![w] = next]
Stop(w, how)  == Go(w, [op[w] EXCEPT !.at = how, !.refs = {}, !.hand = None, !.names = {}])

\* What follows when the images are built, catalogued, and scanned.
AfterBuild(target)  == IF target = "job" THEN "list" ELSE "passed"
AfterSbom(target)   == CASE target = "sbom" -> "passed" [] target = "job" -> "diff"
                         [] OTHER -> "documents"
AfterReport(target) == CASE target = "scan-report" -> "passed" [] target = "scan-accept" -> "accept"
                         [] OTHER -> "compare"
FirstStep(target)   == CASE target = "build" -> "build" [] target \in {"sbom", "scan-accept"} -> "list"
                         [] OTHER -> "documents"

Make(target) ==
  /\ Idle(Dev) /\ NoJob
  /\ Go(Dev, [NoOp EXCEPT !.target = target, !.at = FirstStep(target)])
  /\ UNCHANGED <<source, local, files, db, repo, mishaps>>

\* actions/checkout on a fresh machine: the committed files and nothing else.
Checkout ==
  /\ op[Runner] = NoOp /\ NoRecipe
  /\ source' = [source EXCEPT ![Runner] = committed.source]
  /\ inventory' = [inventory EXCEPT ![Runner] = committed.inventory]
  /\ known' = [known EXCEPT ![Runner] = committed.known]
  /\ head' = committed
  /\ Go(Runner, [NoOp EXCEPT !.target = "job", !.at = "build"])
  /\ UNCHANGED <<local, doc, report, db, committed, advised, edits, news, mishaps>>

\* The machine is thrown away with everything on it.
Discard ==
  /\ Idle(Runner) /\ op[Runner] # NoOp
  /\ local' = [local EXCEPT ![Runner] = NoFile]
  /\ doc' = [doc EXCEPT ![Runner] = NoFile]
  /\ report' = [report EXCEPT ![Runner] = NoFile]
  /\ inventory' = [inventory EXCEPT ![Runner] = NoFile]
  /\ known' = [known EXCEPT ![Runner] = NoFile]
  /\ db' = [db EXCEPT ![Runner] = None]
  /\ Go(Runner, NoOp)
  /\ UNCHANGED <<source, repo, mishaps>>

Build(w) ==
  /\ At(w, "build")
  /\ local' = [local EXCEPT ![w] =
       [n \in Names |-> IF BasesOf(source[w], n) = {} THEN local[w][n]
                        ELSE BuildOn[CHOOSE base \in BasesOf(source[w], n) : TRUE]]]
  /\ Go(w, [op[w] EXCEPT !.at = AfterBuild(op[w].target)])
  /\ UNCHANGED <<source, files, db, repo, mishaps>>

\* sbom: the loop is over the output of supply.images, whose exit code is
\* nobody's: when the list cannot be read (or python cannot be run) there is
\* nothing to loop over.
List(w) ==
  /\ At(w, "list")
  /\ \/ /\ Listable(source[w])
        /\ Go(w, [op[w] EXCEPT !.at = "catalogue", !.refs = References(source[w])])
        /\ UNCHANGED mishaps
     \/ /\ \/ ~Listable(source[w]) /\ UNCHANGED mishaps
           \/ Mishap
        /\ Go(w, [op[w] EXCEPT !.at = "catalogue"])
  /\ UNCHANGED <<source, local, files, db, repo>>

\* sbom: syft writes the document of one image; one that was not built is not there.
Catalogue(w) ==
  /\ At(w, "catalogue")
  /\ op[w].refs # {}
  /\ LET r == First(op[w].refs)
     IN  \/ /\ Resolved(w, r) # None
            /\ doc' = [doc EXCEPT ![w][r.name] = Document(Resolved(w, r))]
            /\ Go(w, [op[w] EXCEPT !.at = "reduce", !.hand = r])
         \/ /\ Resolved(w, r) = None
            /\ Stop(w, "failed")
            /\ UNCHANGED doc
  /\ UNCHANGED <<source, local, report, inventory, known, db, repo, mishaps>>

\* sbom: supply.inventory.  A document with nothing but its subject is refused.
Reduce(w) ==
  /\ At(w, "reduce")
  /\ LET name == op[w].hand.name
         lines == Reduced(doc[w][name])
     IN  \/ /\ lines # {}
            /\ inventory' = [inventory EXCEPT ![w][name] = lines]
            /\ Go(w, [op[w] EXCEPT !.at = "catalogue", !.hand = None,
                                   !.refs = @ \ {op[w].hand}])
         \/ /\ lines = {}
            /\ Stop(w, "failed")
            /\ UNCHANGED inventory
  /\ UNCHANGED <<source, local, doc, report, known, db, repo, mishaps>>

Catalogued(w) ==
  /\ At(w, "catalogue")
  /\ op[w].refs = {}
  /\ Go(w, [op[w] EXCEPT !.at = AfterSbom(op[w].target)])
  /\ UNCHANGED <<source, local, files, db, repo, mishaps>>

\* The job's git diff of sbom/, which speaks of tracked files only.
\* Mutant: its exit code is not looked at.
NoDiff(w) == TRUE

DiffIsEmpty(w) == \A n \in Names : head.inventory[n] # None => inventory[w][n] = head.inventory[n]

Diff(w) ==
  /\ At(w, "diff")
  /\ IF DiffIsEmpty(w) THEN Go(w, [op[w] EXCEPT !.at = "documents"]) ELSE Stop(w, "failed")
  /\ UNCHANGED <<source, local, files, db, repo, mishaps>>

\* scan-report: there has to be something to scan.
AnyDocuments(w) ==
  /\ At(w, "documents")
  /\ IF Documents(w) # {} THEN Go(w, [op[w] EXCEPT !.at = "update"]) ELSE Stop(w, "failed")
  /\ UNCHANGED <<source, local, files, db, repo, mishaps>>

\* scan-report: grype db update and grype db status.
UpdateDb(w) ==
  /\ At(w, "update")
  /\ db' = [db EXCEPT ![w] = advised]
  /\ Go(w, [op[w] EXCEPT !.at = "scan", !.names = Documents(w)])
  /\ UNCHANGED <<source, local, files, repo, mishaps>>

\* scan-report: every document in sbom/, whether or not its image is still named.
Scan(w) ==
  /\ At(w, "scan")
  /\ op[w].names # {}
  /\ LET n == First(op[w].names)
     IN  /\ report' = [report EXCEPT ![w][n] = Matches(doc[w][n], db[w])]
         /\ Go(w, [op[w] EXCEPT !.names = @ \ {n}])
  /\ UNCHANGED <<source, local, doc, inventory, known, db, repo, mishaps>>

Scanned(w) ==
  /\ At(w, "scan")
  /\ op[w].names = {}
  /\ LET next == AfterReport(op[w].target)
     IN  Go(w, [op[w] EXCEPT !.at = next, !.names = IF next \in Ended THEN {} ELSE Documents(w)])
  /\ UNCHANGED <<source, local, files, db, repo, mishaps>>

\* scan: every document is compared before anything fails.
\* Mutant: the loop ends at the first new advisory.
CompareUntilNew(w) ==
  /\ At(w, "compare")
  /\ op[w].names # {}
  /\ LET n == First(op[w].names)
         failed == {m \in {n} : Unbaselined(known[w][m], report[w][m])}
     IN  Go(w, [op[w] EXCEPT !.names = IF failed = {} THEN @ \ {n} ELSE {}, !.failed = failed])
  /\ UNCHANGED <<source, local, files, db, repo, mishaps>>

Compare(w) ==
  /\ At(w, "compare")
  /\ op[w].names # {}
  /\ LET n == First(op[w].names)
         failed == {m \in {n} : Unbaselined(known[w][m], report[w][m])}
     IN  Go(w, [op[w] EXCEPT !.names = @ \ {n}, !.failed = @ \cup failed])
  /\ UNCHANGED <<source, local, files, db, repo, mishaps>>

\* Mutant: what failed is listed and nothing exits.
VerdictIgnored(w) == "passed"

Verdict(w) == IF op[w].failed = {} THEN "passed" ELSE "refused"

Compared(w) ==
  /\ At(w, "compare")
  /\ op[w].names = {}
  /\ Stop(w, Verdict(w))
  /\ UNCHANGED <<source, local, files, db, repo, mishaps>>

\* scan-accept: every baseline is rewritten from the scan.
\* Mutant: the new advisories are added to the old baseline.
Merged(baseline, matched) ==
  advisories(matched) \cup (IF baseline \in {None, Malformed} THEN {} ELSE baseline)

Rewritten(baseline, matched) == advisories(matched)

Accept(w) ==
  /\ At(w, "accept")
  /\ op[w].names # {}
  /\ LET n == First(op[w].names)
     IN  /\ known' = [known EXCEPT ![w][n] = Rewritten(known[w][n], report[w][n])]
         /\ Go(w, [op[w] EXCEPT !.names = @ \ {n}])
  /\ UNCHANGED <<source, local, doc, report, inventory, db, repo, mishaps>>

Accepted(w) ==
  /\ At(w, "accept")
  /\ op[w].names = {}
  /\ Stop(w, "passed")
  /\ UNCHANGED <<source, local, files, db, repo, mishaps>>

\* A command of a recipe fails, or somebody interrupts it.
Fail(w) ==
  /\ Mishap
  /\ ~Idle(w)
  /\ Stop(w, "failed")
  /\ UNCHANGED <<source, local, files, db, repo>>

\* An interrupted write: write_text truncates the file and then fills it.  The
\* last identifier of a baseline may be cut to another one or to none.
Torn(ids) ==
  {kept \cup cut : kept \in SUBSET ids, cut \in {{}} \cup {{v} : v \in Advisories}} \cup {Malformed}

Tear(w) ==
  /\ Mishap
  /\ \/ /\ At(w, "reduce")
        /\ \E lines \in SUBSET Reduced(doc[w][op[w].hand.name]) :
             inventory' = [inventory EXCEPT ![w][op[w].hand.name] = lines]
        /\ UNCHANGED known
     \/ /\ At(w, "accept")
        /\ op[w].names # {}
        /\ LET n == First(op[w].names)
           IN  \E ids \in Torn(advisories(report[w][n])) : known' = [known EXCEPT ![w][n] = ids]
        /\ UNCHANGED inventory
  /\ Stop(w, "failed")
  /\ UNCHANGED <<source, local, doc, report, db, repo>>

Step(w) ==
  \/ Build(w) \/ List(w) \/ Catalogue(w) \/ Reduce(w) \/ Catalogued(w) \/ Diff(w)
  \/ AnyDocuments(w) \/ UpdateDb(w) \/ Scan(w) \/ Scanned(w) \/ Compare(w) \/ Compared(w)
  \/ Accept(w) \/ Accepted(w)

-----------------------------------------------------------------------------
(* The developer, git and the rest of the world *)

Edited == NoJob /\ edits < MaxEdits /\ edits' = edits + 1

\* A reference is bumped, a base moved, a service added.
Edit ==
  /\ Edited
  /\ \E compose \in Composes : source' = [source EXCEPT ![Dev] = compose]
  /\ UNCHANGED <<local, files, db, op, head, committed, advised, news, mishaps>>

\* The files of an image nothing names any more are deleted; git does not know
\* of its document and report, which stay.
Retire(n) ==
  /\ Edited
  /\ \A r \in References(source[Dev]) : r.name # n
  /\ inventory' = [inventory EXCEPT ![Dev][n] = None]
  /\ known' = [known EXCEPT ![Dev][n] = None]
  /\ UNCHANGED <<source, local, doc, report, db, op, head, committed, advised, news, mishaps>>

\* git commit -a, after git add of new inventories or new baselines, or of neither.
Staged(add, was, now) == [n \in Names |-> IF was[n] = None /\ ~add THEN None ELSE now[n]]

Commit(addInventories, addBaselines) ==
  /\ Edited
  /\ committed' = [source |-> source[Dev],
                   inventory |-> Staged(addInventories, committed.inventory, inventory[Dev]),
                   known |-> Staged(addBaselines, committed.known, known[Dev])]
  /\ UNCHANGED <<source, local, files, db, op, head, advised, news, mishaps>>

\* An advisory is published, rescored or withdrawn.
Publish(v) ==
  /\ news < MaxNews
  /\ news' = news + 1
  /\ \E rating \in Ratings \ {advised[v]} : advised' = [advised EXCEPT ![v] = rating]
  /\ UNCHANGED <<source, local, files, db, op, head, committed, edits, mishaps>>

Next ==
  \/ \E target \in DevTargets : Make(target)
  \/ Checkout \/ Discard
  \/ \E w \in Checkouts : Step(w) \/ Fail(w) \/ Tear(w)
  \/ Edit
  \/ \E n \in Names : Retire(n)
  \/ \E addInventories, addBaselines \in BOOLEAN : Commit(addInventories, addBaselines)
  \/ \E v \in Advisories : Publish(v)

Spec == Init /\ [][Next]_vars

\* The schedule starts the job again and again, and a job under way ends one
\* way or another.
FairSpec == Spec /\ WF_vars(Checkout) /\ WF_vars(Discard) /\ WF_vars(Step(Runner))

-----------------------------------------------------------------------------
(* Properties *)

\* Every variable has its type.
TypeOK ==
  /\ source \in [Checkouts -> Composes]
  /\ local \in [Checkouts -> [Names -> Digests \cup {None}]]
  /\ doc \in [Checkouts -> [Names -> (SUBSET Entries) \cup {None}]]
  /\ report \in [Checkouts -> [Names -> (SUBSET Matched) \cup {None}]]
  /\ inventory \in [Checkouts -> [Names -> (SUBSET Packages) \cup {None}]]
  /\ known \in [Checkouts -> [Names -> Baselines]]
  /\ db \in [Checkouts -> [Advisories -> Ratings] \cup {None}]
  /\ op \in [Checkouts -> Ops]
  /\ head \in Tree /\ committed \in Tree
  /\ advised \in [Advisories -> Ratings]
  /\ edits \in Nat /\ news \in Nat /\ mishaps \in Nat

\* The gated advisories of a database against the image a reference stands for.
Gated(w, r) == advisories(Matches(Document(Resolved(w, r)), db[w]))

\* A green job means that every image the spine runs was scanned against the
\* database of that day and carries no gated advisory its committed baseline
\* does not name: whatever was or was not committed, and although the recipe
\* that makes the documents succeeds when it could not list the images.
PassMeansKnown ==
  At(Runner, "passed") =>
    \A r \in Runs(source[Runner]) :
      /\ Resolved(Runner, r) # None
      /\ head.known[r.name] \notin {None, Malformed}
      /\ Gated(Runner, r) \subseteq head.known[r.name]

\* A green job means that no committed inventory of an image the spine names
\* describes anything else than that image.
TrackedInventoriesDescribe ==
  At(Runner, "passed") =>
    \A r \in References(source[Runner]) :
      head.inventory[r.name] \in {None, Contents[Resolved(Runner, r)]}

\* scan-accept that succeeds leaves baselines that name exactly what the scan
\* before it reported, for every document, however the last one ended: what is
\* left of an older baseline or of an interrupted one is gone.  Only a baseline
\* that was deleted since is none.
AcceptedAsScanned ==
  op[Dev].target = "scan-accept" /\ At(Dev, "passed") =>
    \A n \in Documents(Dev) :
      known[Dev][n] # None => known[Dev][n] = advisories(Matches(doc[Dev][n], db[Dev]))

\* A gate that refuses names every image with a new advisory or without a usable
\* baseline, not the first one: one new advisory in the first image does not hide
\* three in the last.  The document of a retired image is among them, which only a
\* developer's checkout has; one retired since the refusal may be missing.
RefusalNamesAll ==
  \A w \in Checkouts : At(w, "refused") =>
    LET due == {n \in Documents(w) : Unbaselined(known[w][n], Matches(doc[w][n], db[w]))}
    IN  /\ op[w].failed \subseteq due
        /\ \A n \in due \ op[w].failed : w = Dev /\ known[Dev][n] = None

\* An advisory the committed baseline of a running image does not name.
NewAdvisory(v) ==
  \E r \in Runs(committed.source) :
    /\ r.digest # Built
    /\ advised[v] \in GATED /\ Affected[v] \cap Contents[r.digest] # {}
    /\ \/ committed.known[r.name] \in {None, Malformed}
       \/ v \notin committed.known[r.name]

\* A gated advisory published against an unchanged image keeps the job from
\* being green until somebody fixes or accepts it.
NewsIsReported ==
  \A v \in Advisories :
    <>[]NewAdvisory(v) => <>[](~At(Runner, "passed")) /\ []<>(op[Runner].at \in {"refused", "failed"})

\* "catalogue every image": when that step of the job succeeds, every image
\* the compose file names has its document.
EveryImageCatalogued ==
  At(Runner, "diff") => \A r \in References(source[Runner]) : doc[Runner][r.name] # None

\* "the committed inventories still describe these images": when the job that
\* makes sure of it is green, they do.
CommittedInventoriesDescribe ==
  At(Runner, "passed") =>
    \A r \in References(source[Runner]) :
      head.inventory[r.name] = Contents[Resolved(Runner, r)]
=============================================================================
