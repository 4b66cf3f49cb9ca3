-------------------------- MODULE SupplyGate_proofs --------------------------
(***************************************************************************)
(* What a green and a red job mean, for any images, packages, advisories   *)
(* and compose files, and any number of edits, publications and mishaps.   *)
(***************************************************************************)
EXTENDS SupplyGate, TLAPS

Here(w) == <<source[w], local[w], doc[w], report[w], inventory[w], known[w], db[w], op[w]>>

\* What failed is what has something unbaselined in it, of the documents compared
\* so far; a developer may have retired the baseline of one since.
Named(w) ==
  LET due == {n \in Documents(w) \ op[w].names :
                Unbaselined(known[w][n], Matches(doc[w][n], db[w]))}
  IN  /\ op[w].failed \subseteq due
      /\ \A n \in due \ op[w].failed : w = Dev /\ known[Dev][n] = None

\* Each step belongs to recipes that have it, and works on what the step before
\* it left.
Shape(w) ==
  /\ At(w, "build") => op[w].target \in {"build", "job"}
  /\ op[w].at \in {"list", "catalogue", "reduce"} => op[w].target \in {"sbom", "scan-accept", "job"}
  /\ At(w, "diff") => op[w].target = "job"
  /\ op[w].at \in {"documents", "update", "scan"} =>
       op[w].target \in {"scan-report", "scan", "scan-accept", "job"}
  /\ At(w, "compare") => op[w].target \in {"scan", "job"}
  /\ At(w, "accept") => op[w].target = "scan-accept"
  /\ At(w, "reduce") => /\ op[w].hand \in Refs /\ op[w].hand \in op[w].refs
                        /\ doc[w][op[w].hand.name] \in SUBSET Entries
  /\ At(w, "scan") => /\ db[w] \in [Advisories -> Ratings]
                      /\ \A n \in Documents(w) \ op[w].names :
                           report[w][n] = Matches(doc[w][n], db[w])
  /\ op[w].at \in {"compare", "accept"} =>
       /\ db[w] \in [Advisories -> Ratings]
       /\ op[w].names \subseteq Documents(w)
       /\ \A n \in Documents(w) : report[w][n] = Matches(doc[w][n], db[w])
  /\ op[w].target = "scan-accept" /\ op[w].at \in {"accept", "passed"} =>
       \A n \in Documents(w) \ op[w].names :
         known[w][n] # None => known[w][n] = advisories(Matches(doc[w][n], db[w]))
  /\ op[w].at \notin {"scan", "compare", "accept"} => op[w].names = {}
  /\ op[w].at \notin {"catalogue", "reduce"} => op[w].refs = {}
  /\ op[w].at \in Steps \ {"compare"} => op[w].failed = {}
  /\ op[w].at \in {"compare", "refused"} => Named(w)

\* The runner has the document of an image, and its inventory too.
Fetched(r) ==
  /\ Resolved(Runner, r) # None
  /\ doc[Runner][r.name] = Document(Resolved(Runner, r))

Done(r) ==
  /\ Fetched(r)
  /\ inventory[Runner][r.name] = Contents[Resolved(Runner, r)]

AllDone == \A r \in References(source[Runner]) : Done(r)

\* A job has either listed nothing, and then no document, or everything.
Job ==
  /\ op[Runner] # NoOp => /\ op[Runner].target = "job"
                          /\ source[Runner] = head.source
                          /\ known[Runner] = head.known
  /\ op[Runner].target # "job" => doc[Runner] = NoFile
  /\ op[Runner].at \in {"build", "list"} => doc[Runner] = NoFile
  /\ At(Runner, "catalogue") =>
       \/ op[Runner].refs = {} /\ doc[Runner] = NoFile
       \/ /\ op[Runner].refs \subseteq References(source[Runner])
          /\ \A r \in References(source[Runner]) \ op[Runner].refs : Done(r)
  /\ At(Runner, "reduce") =>
       /\ op[Runner].refs \subseteq References(source[Runner])
       /\ \A r \in References(source[Runner]) \ op[Runner].refs : Done(r)
       /\ op[Runner].hand \in op[Runner].refs /\ Fetched(op[Runner].hand)
  /\ op[Runner].at \in {"diff", "documents"} => doc[Runner] = NoFile \/ AllDone
  /\ op[Runner].at \in {"update", "scan", "compare", "passed"} => AllDone
  /\ op[Runner].at \in {"documents", "update", "scan", "compare", "passed"} => DiffIsEmpty(Runner)
  /\ At(Runner, "passed") => op[Runner].failed = {} /\ Named(Runner)

Inv ==
  /\ TypeOK
  /\ \A w \in Checkouts : Shape(w)
  /\ Job

-----------------------------------------------------------------------------
(* The tools *)

\* References of a compose file are references, and what is built on a base
\* is a digest.
LEMMA ComposeTypes ==
  ASSUME NEW c \in Composes
  PROVE  /\ References(c) \subseteq Refs
         /\ \A n \in Names : BasesOf(c, n) \subseteq Digests
         /\ \A r \in References(c) : r.digest = Built => BasesOf(c, r.name) # {}
         /\ \A r, s \in References(c) : r.name = s.name => r = s
  BY SupplyAssumption, ReferencesAssumption DEF References, Services, BasesOf

\* What the images of a compose file hold is packages.
LEMMA SourceContents ==
  ASSUME NEW compose \in Composes
  PROVE  \A r \in References(compose) : Contents[Digest(compose, r)] \in SUBSET Packages
<1> SUFFICES ASSUME NEW r \in References(compose)
             PROVE  Digest(compose, r) \in Digests
  BY SupplyAssumption
<1>1. r.name \in Names /\ r.digest \in Digests \cup {Built}
  BY ComposeTypes DEF Refs
<1>2. CASE r.digest = Built
  <2>1. BasesOf(compose, r.name) # {} /\ BasesOf(compose, r.name) \subseteq Digests
    BY <1>1, <1>2, ComposeTypes
  <2>2. (CHOOSE d \in BasesOf(compose, r.name) : TRUE) \in Digests
    BY <2>1
  <2> QED
    BY <1>2, <2>2, SupplyAssumption DEF Digest
<1>3. CASE r.digest # Built
  BY <1>1, <1>3 DEF Digest
<1> QED
  BY <1>2, <1>3

\* What syft and grype write.
LEMMA ToolTypes ==
  /\ \A d \in Digests : /\ Document(d) \in SUBSET Entries /\ Document(d) # None
                        /\ Reduced(Document(d)) = Contents[d]
  /\ \A document \in SUBSET Entries : Reduced(document) \in SUBSET Packages
  /\ \A document, database : database \in [Advisories -> Ratings] =>
       /\ Matches(document, database) \in SUBSET Matched
       /\ advisories(Matches(document, database)) \in SUBSET Advisories
<1>1. ASSUME NEW d \in Digests
      PROVE  /\ Document(d) \in SUBSET Entries /\ Document(d) # None
             /\ Reduced(Document(d)) = Contents[d]
  <2>1. Contents[d] \in SUBSET Packages
    BY SupplyAssumption
  <2> QED
    BY <2>1, SupplyAssumption DEF Document, Reduced, Entries
<1>2. ASSUME NEW document \in SUBSET Entries PROVE Reduced(document) \in SUBSET Packages
  BY DEF Reduced, Entries
<1>3. ASSUME NEW document, NEW database \in [Advisories -> Ratings]
      PROVE  /\ Matches(document, database) \in SUBSET Matched
             /\ advisories(Matches(document, database)) \in SUBSET Advisories
  <2>1. Matches(document, database) \in SUBSET Matched
    BY <1>3 DEF Matches, Matched, Ratings
  <2>2. \A m \in Matches(document, database) : m.id \in Advisories
    BY <2>1 DEF Matched
  <2> QED
    BY <2>1, <2>2 DEF advisories
<1> QED
  BY <1>1, <1>2, <1>3

\* The name a loop takes is one of those left.
LEMMA FirstIn == \A S : S # {} => First(S) \in S
  BY DEF First

\* Moving one checkout.
LEMMA GoTo ==
  ASSUME TypeOK, NEW w \in Checkouts, NEW next \in Ops, Go(w, next)
  PROVE  /\ op' \in [Checkouts -> Ops]
         /\ op'[w] = next
         /\ \A v \in Checkouts \ {w} : op'[v] = op[v]
  BY DEF TypeOK, Go

\* Stopping one checkout.
LEMMA StopAt ==
  ASSUME TypeOK, NEW w \in Checkouts, NEW how \in Ended, Stop(w, how)
  PROVE  /\ op' \in [Checkouts -> Ops]
         /\ op'[w].at = how /\ op'[w].target = op[w].target /\ op'[w].names = {}
         /\ op'[w].failed = op[w].failed /\ op'[w].refs = {}
         /\ \A v \in Checkouts \ {w} : op'[v] = op[v]
<1> DEFINE next == [op[w] EXCEPT !.at = how, !.refs = {}, !.hand = None, !.names = {}]
<1>1. next \in Ops
  <2>1. op[w] \in Ops
    BY DEF TypeOK
  <2>2. how \in Steps \cup Ended
    OBVIOUS
  <2> QED
    BY <2>1, <2>2 DEF Ops
<1>2. Go(w, next)
  BY DEF Stop
<1>3. op' \in [Checkouts -> Ops] /\ op'[w] = next /\ \A v \in Checkouts \ {w} : op'[v] = op[v]
  <2> HIDE DEF next
  <2> QED
    BY <1>1, <1>2, GoTo
<1>4. op[w] \in Ops
  BY DEF TypeOK
<1>5. /\ next.at = how /\ next.target = op[w].target /\ next.names = {}
      /\ next.failed = op[w].failed /\ next.refs = {}
  BY <1>4 DEF Ops
<1> QED
  BY <1>3, <1>5

\* A step of one checkout is a matter of that checkout.
LEMMA OneCheckout ==
  ASSUME Inv, NEW w \in Checkouts, TypeOK', Shape(w)', w = Runner => Job', head' = head,
         \A v \in Checkouts \ {w} : Here(v)' = Here(v)
  PROVE  Inv'
<1>1. ASSUME NEW v \in Checkouts \ {w} PROVE Shape(v)'
  <2>1. Shape(v) /\ Here(v)' = Here(v)
    BY DEF Inv
  <2> QED
    BY <2>1 DEF Here, Shape, Named, At, Documents
<1>2. CASE w # Runner
  <2>1. Job /\ Here(Runner)' = Here(Runner)
    BY <1>2 DEF Inv, Checkouts
  <2>2. Job'
    BY <2>1 DEF Here, Job, Named, At, Documents, AllDone, Done, Fetched, Resolved, DiffIsEmpty
  <2> QED
    BY <1>1, <2>2 DEF Inv
<1>3. CASE w = Runner
  BY <1>1, <1>3 DEF Inv
<1> QED
  BY <1>2, <1>3

-----------------------------------------------------------------------------
(* The recipes *)

\* Each step of a recipe preserves the invariant.
LEMMA BuildInv ==
  ASSUME Inv, NEW w \in Checkouts, Build(w)
  PROVE  Inv'
<1> DEFINE next == [op[w] EXCEPT !.at = AfterBuild(op[w].target)]
<1>1. op[w] \in Ops /\ At(w, "build") /\ op[w].target \in {"build", "job"}
  BY DEF Inv, TypeOK, Build, Shape
<1>2. /\ next \in Ops /\ next.target = op[w].target /\ next.failed = op[w].failed
      /\ next.names = op[w].names /\ next.refs = op[w].refs
      /\ \/ next.target = "build" /\ next.at = "passed"
         \/ next.target = "job" /\ next.at = "list"
  BY <1>1 DEF Ops, AfterBuild, Steps, Ended
<1> HIDE DEF next
<1>3. op' \in [Checkouts -> Ops] /\ op'[w] = next /\ \A v \in Checkouts \ {w} : op'[v] = op[v]
  BY <1>2, GoTo DEF Build, Inv, next
<1>4. TypeOK'
  <2>1. source[w] \in Composes
    BY DEF Inv, TypeOK
  <2>2. ASSUME NEW n \in Names
        PROVE  (IF BasesOf(source[w], n) = {} THEN local[w][n]
                ELSE BuildOn[CHOOSE base \in BasesOf(source[w], n) : TRUE]) \in Digests \cup {None}
    <3>1. local[w][n] \in Digests \cup {None}
      BY DEF Inv, TypeOK
    <3>2. BasesOf(source[w], n) \subseteq Digests
      BY <2>1, ComposeTypes
    <3>3. BasesOf(source[w], n) # {} =>
            (CHOOSE base \in BasesOf(source[w], n) : TRUE) \in BasesOf(source[w], n)
      OBVIOUS
    <3>4. BasesOf(source[w], n) # {} =>
            BuildOn[CHOOSE base \in BasesOf(source[w], n) : TRUE] \in Digests
      BY <3>2, <3>3, SupplyAssumption
    <3> QED
      BY <3>1, <3>4
  <2>3. local' \in [Checkouts -> [Names -> Digests \cup {None}]]
    BY <2>2 DEF Inv, TypeOK, Build
  <2> QED
    BY <1>3, <2>3 DEF Inv, TypeOK, Build, files, repo
<1>5. /\ source' = source /\ doc' = doc /\ report' = report /\ inventory' = inventory
      /\ known' = known /\ db' = db /\ head' = head
      /\ \A v \in Checkouts \ {w} : local'[v] = local[v]
  BY DEF Build, files, repo, Inv, TypeOK
<1>6. Shape(w)'
  BY <1>1, <1>2, <1>3, <1>5 DEF Inv, Shape, At, Documents, Steps
<1>7. ASSUME w = Runner PROVE Job'
  <2>1. next.target = "job" /\ next.at = "list"
    BY <1>1, <1>2, <1>7 DEF Inv, Job, NoOp, At
  <2> QED
    BY <1>1, <1>2, <1>3, <1>5, <1>7, <2>1 DEF Inv, Job, At, NoOp, Steps
<1>8. \A v \in Checkouts \ {w} : Here(v)' = Here(v)
  BY <1>3, <1>5 DEF Here
<1> QED
  BY <1>4, <1>5, <1>6, <1>7, <1>8, OneCheckout

LEMMA ListInv ==
  ASSUME Inv, NEW w \in Checkouts, List(w)
  PROVE  Inv'
<1>1. op[w] \in Ops /\ At(w, "list") /\ source[w] \in Composes
  BY DEF Inv, TypeOK, List
<1>2. PICK refs \in {References(source[w]), {}} :
        Go(w, [op[w] EXCEPT !.at = "catalogue", !.refs = refs])
  <2>1. CASE Go(w, [op[w] EXCEPT !.at = "catalogue", !.refs = References(source[w])])
    BY <2>1
  <2>2. CASE Go(w, [op[w] EXCEPT !.at = "catalogue"]) /\ op[w].refs = {}
    <3>1. [op[w] EXCEPT !.at = "catalogue"] = [op[w] EXCEPT !.at = "catalogue", !.refs = {}]
      BY <1>1, <2>2 DEF Ops
    <3>2. Go(w, [op[w] EXCEPT !.at = "catalogue", !.refs = {}])
      BY <2>2, <3>1 DEF Go
    <3> QED
      BY <3>2
  <2>3. op[w].refs = {}
    BY <1>1 DEF Inv, Shape, At
  <2> QED
    BY <2>1, <2>2, <2>3 DEF List
<1> DEFINE next == [op[w] EXCEPT !.at = "catalogue", !.refs = refs]
<1>3. /\ next \in Ops /\ next.target = op[w].target /\ next.failed = op[w].failed
      /\ next.names = op[w].names /\ next.refs = refs /\ next.at = "catalogue"
  BY <1>1, ComposeTypes DEF Ops, Steps
<1> HIDE DEF next
<1>4. op' \in [Checkouts -> Ops] /\ op'[w] = next /\ \A v \in Checkouts \ {w} : op'[v] = op[v]
  BY <1>2, <1>3, GoTo DEF Inv, next
<1>5. /\ source' = source /\ local' = local /\ doc' = doc /\ report' = report
      /\ inventory' = inventory /\ known' = known /\ db' = db /\ head' = head
  BY DEF List, files, repo
<1>6. TypeOK'
  BY <1>4 DEF Inv, TypeOK, List, Mishap, files, repo
<1>7. Shape(w)'
  BY <1>1, <1>3, <1>4, <1>5 DEF Inv, Shape, At, Steps
<1>8. ASSUME w = Runner PROVE Job'
  BY <1>1, <1>2, <1>3, <1>4, <1>5, <1>8 DEF Inv, Job, At, NoOp, Steps
<1>9. \A v \in Checkouts \ {w} : Here(v)' = Here(v)
  BY <1>4, <1>5 DEF Here
<1> QED
  BY <1>5, <1>6, <1>7, <1>8, <1>9, OneCheckout

\* What a failed recipe leaves is well formed, if its files are and
\* the baselines of the runner are those of its commit.
LEMMA StopInv ==
  ASSUME Inv, NEW w \in Checkouts, Stop(w, "failed"), TypeOK',
         ~At(w, "passed"), op[w] # NoOp,
         source' = source, head' = head, w = Runner => known'[w] = known[w],
         \A v \in Checkouts \ {w} : Here(v)' = Here(v)
  PROVE  Inv'
<1>1. /\ op' \in [Checkouts -> Ops]
      /\ op'[w].at = "failed" /\ op'[w].target = op[w].target /\ op'[w].names = {}
      /\ op'[w].failed = op[w].failed /\ op'[w].refs = {}
      /\ \A v \in Checkouts \ {w} : op'[v] = op[v]
  BY StopAt DEF Inv, Ended
<1>2. Shape(w)'
  BY <1>1 DEF Shape, At, Steps
<1>3. ASSUME w = Runner PROVE Job'
  BY <1>1, <1>3 DEF Inv, Job, At, Steps
<1> QED
  BY <1>1, <1>2, <1>3, OneCheckout

LEMMA CatalogueInv ==
  ASSUME Inv, NEW w \in Checkouts, Catalogue(w)
  PROVE  Inv'
<1>0. PICK r : r = First(op[w].refs)
  OBVIOUS
<1> DEFINE next == [op[w] EXCEPT !.at = "reduce", !.hand = r]
<1>1. op[w] \in Ops /\ At(w, "catalogue") /\ r \in op[w].refs /\ r \in Refs /\ source[w] \in Composes
  <2>1. op[w] \in Ops /\ At(w, "catalogue") /\ r \in op[w].refs /\ source[w] \in Composes
    BY <1>0, FirstIn DEF Inv, TypeOK, Catalogue
  <2> QED
    BY <2>1 DEF Ops
<1>2. /\ source' = source /\ local' = local /\ report' = report
      /\ inventory' = inventory /\ known' = known /\ db' = db /\ head' = head
      /\ op[w] # NoOp /\ ~At(w, "passed")
  BY <1>1 DEF Catalogue, repo, At, NoOp
<1>3. CASE Resolved(w, r) = None /\ Stop(w, "failed") /\ UNCHANGED doc
  <2>1. op' \in [Checkouts -> Ops] /\ \A v \in Checkouts \ {w} : op'[v] = op[v]
    BY <1>3, StopAt DEF Inv, Ended
  <2>2. TypeOK'
    BY <1>3, <2>1 DEF Inv, TypeOK, Catalogue, repo
  <2>3. \A v \in Checkouts \ {w} : Here(v)' = Here(v)
    BY <1>2, <1>3, <2>1 DEF Here
  <2> QED
    BY <1>2, <1>3, <2>2, <2>3, StopInv
<1>4. CASE /\ Resolved(w, r) # None
           /\ doc' = [doc EXCEPT ![w][r.name] = Document(Resolved(w, r))]
           /\ Go(w, next)
  <2>1. /\ next \in Ops /\ next.target = op[w].target /\ next.failed = op[w].failed
        /\ next.names = op[w].names /\ next.refs = op[w].refs /\ next.at = "reduce" /\ next.hand = r
    BY <1>1 DEF Ops, Steps
  <2>2. op' \in [Checkouts -> Ops] /\ op'[w] = next /\ \A v \in Checkouts \ {w} : op'[v] = op[v]
    BY <1>4, <2>1, GoTo DEF Inv
  <2> HIDE DEF next
  <2>3. r.name \in Names /\ Resolved(w, r) \in Digests
    BY <1>1, <1>4 DEF Refs, Resolved, Inv, TypeOK
  <2>4. Document(Resolved(w, r)) \in SUBSET Entries
    BY <2>3, ToolTypes
  <2>5. /\ doc' \in [Checkouts -> [Names -> (SUBSET Entries) \cup {None}]]
        /\ doc'[w][r.name] = Document(Resolved(w, r))
        /\ \A n \in Names \ {r.name} : doc'[w][n] = doc[w][n]
        /\ \A v \in Checkouts \ {w} : doc'[v] = doc[v]
    BY <1>4, <2>3, <2>4 DEF Inv, TypeOK
  <2>6. TypeOK'
    BY <2>2, <2>5 DEF Inv, TypeOK, Catalogue, repo
  <2>7. Shape(w)'
    BY <1>1, <2>1, <2>2, <2>4, <2>5 DEF Inv, Shape, At, Steps
  <2>8. ASSUME w = Runner PROVE Job'
    <3>1. /\ op[w].refs \subseteq References(source[w])
          /\ \A s \in References(source[w]) \ op[w].refs : Done(s)
      BY <1>1, <2>8 DEF Inv, Job, At
    <3>2. \A s \in References(source[w]) \ op[w].refs : s.name \in Names /\ s.name # r.name
      BY <1>1, <3>1, ComposeTypes DEF Refs
    <3>3. \A s \in References(source[w]) \ op[w].refs : Done(s)'
      BY <1>2, <2>5, <2>8, <3>1, <3>2 DEF Done, Fetched, Resolved
    <3>4. Fetched(r)'
      BY <1>2, <1>4, <2>5, <2>8 DEF Fetched, Resolved
    <3>5. op[Runner].target = "job"
      BY <1>1, <1>2, <2>8 DEF Inv, Job, At, Steps
    <3> QED
      BY <1>1, <1>2, <2>1, <2>2, <2>8, <3>1, <3>3, <3>4, <3>5 DEF Inv, Job, At, Steps
  <2>9. \A v \in Checkouts \ {w} : Here(v)' = Here(v)
    BY <1>2, <2>2, <2>5 DEF Here
  <2> QED
    BY <1>2, <2>6, <2>7, <2>8, <2>9, OneCheckout
<1> QED
  BY <1>0, <1>3, <1>4 DEF Catalogue

LEMMA ReduceInv ==
  ASSUME Inv, NEW w \in Checkouts, Reduce(w)
  PROVE  Inv'
<1>0. PICK r : r = op[w].hand
  OBVIOUS
<1> DEFINE lines == Reduced(doc[w][r.name])
           next  == [op[w] EXCEPT !.at = "catalogue", !.hand = None, !.refs = @ \ {r}]
<1>1. op[w] \in Ops /\ At(w, "reduce") /\ r \in Refs /\ source[w] \in Composes
  BY <1>0 DEF Inv, TypeOK, Reduce, Shape
<1>2. /\ source' = source /\ local' = local /\ report' = report
      /\ doc' = doc /\ known' = known /\ db' = db /\ head' = head
      /\ op[w] # NoOp /\ ~At(w, "passed")
  BY <1>1 DEF Reduce, repo, At, NoOp
<1>3. r.name \in Names /\ lines \in SUBSET Packages
  BY <1>0, <1>1, ToolTypes DEF Inv, Shape, Refs
<1>4. CASE lines = {} /\ Stop(w, "failed") /\ UNCHANGED inventory
  <2>1. op' \in [Checkouts -> Ops] /\ \A v \in Checkouts \ {w} : op'[v] = op[v]
    BY <1>4, StopAt DEF Inv, Ended
  <2>2. TypeOK'
    BY <1>4, <2>1 DEF Inv, TypeOK, Reduce, repo
  <2>3. \A v \in Checkouts \ {w} : Here(v)' = Here(v)
    BY <1>2, <1>4, <2>1 DEF Here
  <2> QED
    BY <1>2, <1>4, <2>2, <2>3, StopInv
<1>5. CASE /\ inventory' = [inventory EXCEPT ![w][r.name] = lines]
           /\ Go(w, next)
  <2>1. /\ next \in Ops /\ next.target = op[w].target /\ next.failed = op[w].failed
        /\ next.names = op[w].names /\ next.refs = op[w].refs \ {r} /\ next.at = "catalogue"
    BY <1>1 DEF Ops, Steps
  <2>2. op' \in [Checkouts -> Ops] /\ op'[w] = next /\ \A v \in Checkouts \ {w} : op'[v] = op[v]
    BY <1>5, <2>1, GoTo DEF Inv
  <2> HIDE DEF next
  <2>3. /\ inventory' \in [Checkouts -> [Names -> (SUBSET Packages) \cup {None}]]
        /\ inventory'[w][r.name] = lines
        /\ \A n \in Names \ {r.name} : inventory'[w][n] = inventory[w][n]
        /\ \A v \in Checkouts \ {w} : inventory'[v] = inventory[v]
    BY <1>3, <1>5 DEF Inv, TypeOK
  <2>4. TypeOK'
    BY <2>2, <2>3 DEF Inv, TypeOK, Reduce, repo
  <2>5. Shape(w)'
    BY <1>1, <2>1, <2>2 DEF Inv, Shape, At, Steps
  <2>6. ASSUME w = Runner PROVE Job'
    <3>1. /\ op[w].refs \subseteq References(source[w])
          /\ \A s \in References(source[w]) \ op[w].refs : Done(s)
          /\ r \in op[w].refs /\ Fetched(r)
      BY <1>0, <1>1, <2>6 DEF Inv, Job, At
    <3>2. \A s \in References(source[w]) \ op[w].refs : s.name \in Names /\ s.name # r.name
      BY <1>1, <3>1, ComposeTypes DEF Refs
    <3>3. \A s \in References(source[w]) \ op[w].refs : Done(s)'
      BY <1>2, <2>3, <2>6, <3>1, <3>2 DEF Done, Fetched, Resolved
    <3>4. lines = Contents[Resolved(w, r)]
      <4>1. Resolved(w, r) \in Digests
        BY <1>1, <2>6, <3>1 DEF Refs, Resolved, Fetched, Inv, TypeOK
      <4> QED
        BY <2>6, <3>1, <4>1, ToolTypes DEF Fetched
    <3>5. Done(r)'
      BY <1>2, <2>3, <2>6, <3>1, <3>4 DEF Done, Fetched, Resolved
    <3>6. op[Runner].target = "job"
      BY <1>1, <1>2, <2>6 DEF Inv, Job, At, Steps
    <3> QED
      BY <1>1, <1>2, <2>1, <2>2, <2>6, <3>1, <3>3, <3>5, <3>6 DEF Inv, Job, At, Steps
  <2>7. \A v \in Checkouts \ {w} : Here(v)' = Here(v)
    BY <1>2, <2>2, <2>3 DEF Here
  <2> QED
    BY <1>2, <2>4, <2>5, <2>6, <2>7, OneCheckout
<1> QED
  BY <1>0, <1>4, <1>5 DEF Reduce

\* A step that only moves on to another one.
LEMMA MoveInv ==
  ASSUME Inv, NEW w \in Checkouts, NEW at \in Steps \cup Ended,
         Go(w, [op[w] EXCEPT !.at = at]),
         UNCHANGED <<source, local, files, db, repo, mishaps>>,
         op[w].names = {}, op[w].refs = {}, op[w].failed = {},
         at \in {"diff", "documents", "update", "passed"},
         at = "diff" => op[w].target = "job",
         at \in {"documents", "update"} =>
           op[w].target \in {"scan-report", "scan", "scan-accept", "job"},
         at = "passed" => op[w].target \notin {"job", "scan-accept"},
         w = Runner => /\ op[w].at \in Steps \ {"compare"}
                       /\ at \in {"diff", "documents"} => doc[w] = NoFile \/ AllDone
                       /\ at = "update" => AllDone
                       /\ at \in {"documents", "update"} => DiffIsEmpty(w)
  PROVE  Inv'
<1> DEFINE next == [op[w] EXCEPT !.at = at]
<1>1. op[w] \in Ops
  BY DEF Inv, TypeOK
<1>2. /\ next \in Ops /\ next.target = op[w].target /\ next.failed = op[w].failed
      /\ next.names = {} /\ next.refs = {} /\ next.at = at
  BY <1>1 DEF Ops
<1> HIDE DEF next
<1>3. op' \in [Checkouts -> Ops] /\ op'[w] = next /\ \A v \in Checkouts \ {w} : op'[v] = op[v]
  BY <1>2, GoTo DEF Inv, next
<1>4. /\ source' = source /\ local' = local /\ doc' = doc /\ report' = report
      /\ inventory' = inventory /\ known' = known /\ db' = db /\ head' = head
  BY DEF files, repo
<1>5. TypeOK'
  BY <1>3, <1>4 DEF Inv, TypeOK, repo
<1>6. Shape(w)'
  BY <1>2, <1>3, <1>4 DEF Shape, At, Steps
<1>7. ASSUME w = Runner PROVE Job'
  <2>1. /\ op[Runner].target = "job"
        /\ source[Runner] = head.source /\ known[Runner] = head.known
    BY <1>7 DEF Inv, Job, NoOp, Steps
  <2>2. AllDone => AllDone'
    BY <1>4 DEF AllDone, Done, Fetched, Resolved
  <2>3. DiffIsEmpty(Runner) => DiffIsEmpty(Runner)'
    BY <1>4 DEF DiffIsEmpty
  <2> QED
    BY <1>2, <1>3, <1>4, <1>7, <2>1, <2>2, <2>3 DEF Job, At, Steps
<1>8. \A v \in Checkouts \ {w} : Here(v)' = Here(v)
  BY <1>3, <1>4 DEF Here
<1> QED
  BY <1>4, <1>5, <1>6, <1>7, <1>8, OneCheckout

\* A step that stops the recipe and touches nothing.
LEMMA GiveUpInv ==
  ASSUME Inv, NEW w \in Checkouts, Stop(w, "failed"), op[w] # NoOp, ~At(w, "passed"),
         UNCHANGED <<source, local, files, db, repo>>, mishaps' \in Nat
  PROVE  Inv'
<1>1. op' \in [Checkouts -> Ops] /\ \A v \in Checkouts \ {w} : op'[v] = op[v]
  BY StopAt DEF Inv, Ended
<1>2. TypeOK'
  BY <1>1 DEF Inv, TypeOK, files, repo
<1>3. \A v \in Checkouts \ {w} : Here(v)' = Here(v)
  BY <1>1 DEF Here, files
<1> QED
  BY <1>2, <1>3, StopInv DEF files, repo

LEMMA CataloguedInv ==
  ASSUME Inv, NEW w \in Checkouts, Catalogued(w)
  PROVE  Inv'
<1>1. op[w].at = "catalogue" /\ op[w].names = {} /\ op[w].refs = {} /\ op[w].failed = {}
  BY DEF Inv, Catalogued, Shape, At, Steps
<1>2. op[w].target \in {"sbom", "scan-accept", "job"}
  BY <1>1 DEF Inv, Shape
<1>3. w = Runner => op[w].target = "job" /\ (doc[w] = NoFile \/ AllDone)
  BY <1>1 DEF Inv, Job, At, NoOp, AllDone
<1> QED
  BY <1>1, <1>2, <1>3, MoveInv DEF Catalogued, AfterSbom, Steps, Ended

LEMMA DiffInv ==
  ASSUME Inv, NEW w \in Checkouts, Diff(w)
  PROVE  Inv'
<1>1. /\ op[w].at = "diff" /\ op[w].names = {} /\ op[w].refs = {} /\ op[w].failed = {}
      /\ op[w].target = "job"
  BY DEF Inv, Diff, Shape, At, Steps
<1>2. w = Runner => doc[w] = NoFile \/ AllDone
  BY <1>1 DEF Inv, Job
<1>3. CASE DiffIsEmpty(w)
  BY <1>1, <1>2, <1>3, MoveInv DEF Diff, Steps
<1>4. CASE ~DiffIsEmpty(w)
  <2>1. mishaps \in Nat /\ op[w] # NoOp
    BY <1>1 DEF Inv, TypeOK, NoOp
  <2>2. Stop(w, "failed") /\ UNCHANGED <<source, local, files, db, repo, mishaps>>
    BY <1>4 DEF Diff
  <2> QED
    BY <1>1, <2>1, <2>2, GiveUpInv DEF At
<1> QED
  BY <1>3, <1>4

LEMMA AnyDocumentsInv ==
  ASSUME Inv, NEW w \in Checkouts, AnyDocuments(w)
  PROVE  Inv'
<1>1. /\ op[w].at = "documents" /\ op[w].names = {} /\ op[w].refs = {} /\ op[w].failed = {}
      /\ op[w].target \in {"scan-report", "scan", "scan-accept", "job"}
  BY DEF Inv, AnyDocuments, Shape, At, Steps
<1>2. w = Runner => (doc[w] = NoFile \/ AllDone) /\ DiffIsEmpty(w)
  BY <1>1 DEF Inv, Job
<1>3. CASE Documents(w) # {}
  <2>1. doc[w] # NoFile
    BY <1>3 DEF Documents, NoFile
  <2> QED
    BY <1>1, <1>2, <1>3, <2>1, MoveInv DEF AnyDocuments, Steps
<1>4. CASE Documents(w) = {}
  <2>1. mishaps \in Nat /\ op[w] # NoOp
    BY <1>1 DEF Inv, TypeOK, NoOp
  <2>2. Stop(w, "failed") /\ UNCHANGED <<source, local, files, db, repo, mishaps>>
    BY <1>4 DEF AnyDocuments
  <2> QED
    BY <1>1, <2>1, <2>2, GiveUpInv DEF At
<1> QED
  BY <1>3, <1>4

LEMMA UpdateDbInv ==
  ASSUME Inv, NEW w \in Checkouts, UpdateDb(w)
  PROVE  Inv'
<1> DEFINE next == [op[w] EXCEPT !.at = "scan", !.names = Documents(w)]
<1>1. /\ op[w] \in Ops /\ op[w].at = "update" /\ op[w].refs = {} /\ op[w].failed = {}
      /\ op[w].target \in {"scan-report", "scan", "scan-accept", "job"}
  BY DEF Inv, TypeOK, UpdateDb, Shape, At, Steps
<1>2. /\ next \in Ops /\ next.target = op[w].target /\ next.failed = op[w].failed
      /\ next.names = Documents(w) /\ next.refs = {} /\ next.at = "scan"
  BY <1>1 DEF Ops, Steps, Documents
<1> HIDE DEF next
<1>3. op' \in [Checkouts -> Ops] /\ op'[w] = next /\ \A v \in Checkouts \ {w} : op'[v] = op[v]
  BY <1>2, GoTo DEF UpdateDb, Inv, next
<1>4. /\ source' = source /\ local' = local /\ doc' = doc /\ report' = report
      /\ inventory' = inventory /\ known' = known /\ head' = head
  BY DEF UpdateDb, files, repo
<1>5. /\ db' \in [Checkouts -> [Advisories -> Ratings] \cup {None}]
      /\ db'[w] \in [Advisories -> Ratings]
      /\ \A v \in Checkouts \ {w} : db'[v] = db[v]
  BY DEF UpdateDb, Inv, TypeOK
<1>6. TypeOK'
  BY <1>3, <1>5 DEF Inv, TypeOK, UpdateDb, files, repo
<1>7. Shape(w)'
  BY <1>1, <1>2, <1>3, <1>4, <1>5 DEF Shape, At, Documents, Steps
<1>8. ASSUME w = Runner PROVE Job'
  <2>1. /\ op[Runner].target = "job"
        /\ source[Runner] = head.source /\ known[Runner] = head.known
        /\ AllDone /\ DiffIsEmpty(Runner)
    BY <1>1, <1>8 DEF Inv, Job, NoOp, Steps
  <2>2. AllDone'
    BY <1>4, <2>1 DEF AllDone, Done, Fetched, Resolved
  <2>3. DiffIsEmpty(Runner)'
    BY <1>4, <2>1 DEF DiffIsEmpty
  <2> QED
    BY <1>2, <1>3, <1>4, <1>8, <2>1, <2>2, <2>3 DEF Job, At
<1>9. \A v \in Checkouts \ {w} : Here(v)' = Here(v)
  BY <1>3, <1>4, <1>5 DEF Here
<1> QED
  BY <1>4, <1>6, <1>7, <1>8, <1>9, OneCheckout

LEMMA ScanInv ==
  ASSUME Inv, NEW w \in Checkouts, Scan(w)
  PROVE  Inv'
<1>0. PICK n : n = First(op[w].names)
  OBVIOUS
<1> DEFINE next == [op[w] EXCEPT !.names = @ \ {n}]
<1>1. /\ op[w] \in Ops /\ op[w].at = "scan" /\ n \in op[w].names /\ n \in Names
      /\ op[w].refs = {} /\ op[w].failed = {} /\ db[w] \in [Advisories -> Ratings]
      /\ op[w].target \in {"scan-report", "scan", "scan-accept", "job"}
  <2>1. /\ op[w] \in Ops /\ op[w].at = "scan" /\ n \in op[w].names
        /\ op[w].refs = {} /\ op[w].failed = {} /\ db[w] \in [Advisories -> Ratings]
        /\ op[w].target \in {"scan-report", "scan", "scan-accept", "job"}
    BY <1>0, FirstIn DEF Inv, TypeOK, Scan, Shape, At, Steps
  <2> QED
    BY <2>1 DEF Ops
<1>2. /\ next \in Ops /\ next.target = op[w].target /\ next.failed = op[w].failed
      /\ next.names = op[w].names \ {n} /\ next.refs = {} /\ next.at = "scan"
  BY <1>1 DEF Ops
<1> HIDE DEF next
<1>3. op' \in [Checkouts -> Ops] /\ op'[w] = next /\ \A v \in Checkouts \ {w} : op'[v] = op[v]
  BY <1>0, <1>2, GoTo DEF Scan, Inv, next
<1>4. /\ source' = source /\ local' = local /\ doc' = doc
      /\ inventory' = inventory /\ known' = known /\ head' = head /\ db' = db
  BY DEF Scan, repo
<1>5. Matches(doc[w][n], db[w]) \in SUBSET Matched
  BY <1>1, ToolTypes
<1>6. /\ report' \in [Checkouts -> [Names -> (SUBSET Matched) \cup {None}]]
      /\ report'[w][n] = Matches(doc[w][n], db[w])
      /\ \A m \in Names \ {n} : report'[w][m] = report[w][m]
      /\ \A v \in Checkouts \ {w} : report'[v] = report[v]
  BY <1>0, <1>1, <1>5 DEF Scan, Inv, TypeOK
<1>7. TypeOK'
  BY <1>3, <1>6 DEF Inv, TypeOK, Scan, repo
<1>8. Shape(w)'
  <2>1. \A m \in Documents(w) \ op[w].names : report[w][m] = Matches(doc[w][m], db[w])
    BY <1>1 DEF Inv, Shape, At
  <2>2. \A m \in Documents(w) \ (op[w].names \ {n}) : report'[w][m] = Matches(doc[w][m], db[w])
    BY <1>6, <2>1 DEF Documents
  <2> QED
    BY <1>1, <1>2, <1>3, <1>4, <2>2 DEF Shape, At, Documents, Steps
<1>9. ASSUME w = Runner PROVE Job'
  <2>1. /\ op[Runner].target = "job"
        /\ source[Runner] = head.source /\ known[Runner] = head.known
        /\ AllDone /\ DiffIsEmpty(Runner)
    BY <1>1, <1>9 DEF Inv, Job, NoOp, Steps
  <2>2. AllDone'
    BY <1>4, <2>1 DEF AllDone, Done, Fetched, Resolved
  <2>3. DiffIsEmpty(Runner)'
    BY <1>4, <2>1 DEF DiffIsEmpty
  <2> QED
    BY <1>2, <1>3, <1>4, <1>9, <2>1, <2>2, <2>3 DEF Job, At
<1>10. \A v \in Checkouts \ {w} : Here(v)' = Here(v)
  BY <1>3, <1>4, <1>6 DEF Here
<1> QED
  BY <1>4, <1>7, <1>8, <1>9, <1>10, OneCheckout

LEMMA ScannedInv ==
  ASSUME Inv, NEW w \in Checkouts, Scanned(w)
  PROVE  Inv'
<1> DEFINE to    == AfterReport(op[w].target)
           names == IF to \in Ended THEN {} ELSE Documents(w)
           next  == [op[w] EXCEPT !.at = to, !.names = names]
<1>1. /\ op[w] \in Ops /\ op[w].at = "scan" /\ op[w].names = {} /\ op[w].refs = {}
      /\ op[w].failed = {}
      /\ db[w] \in [Advisories -> Ratings]
      /\ op[w].target \in {"scan-report", "scan", "scan-accept", "job"}
      /\ \A m \in Documents(w) : report[w][m] = Matches(doc[w][m], db[w])
  BY DEF Inv, TypeOK, Scanned, Shape, At, Steps
<1>2. \/ op[w].target = "scan-report" /\ to = "passed" /\ names = {}
      \/ op[w].target = "scan-accept" /\ to = "accept" /\ names = Documents(w)
      \/ op[w].target \in {"scan", "job"} /\ to = "compare" /\ names = Documents(w)
  BY <1>1 DEF AfterReport, Ended
<1> HIDE DEF to, names
<1>3. /\ next \in Ops /\ next.target = op[w].target /\ next.failed = op[w].failed
      /\ next.names = names /\ next.refs = {} /\ next.at = to
  BY <1>1, <1>2 DEF Ops, Steps, Ended, Documents
<1>4. Go(w, next)
  BY DEF Scanned, to, names
<1> HIDE DEF next
<1>5. op' \in [Checkouts -> Ops] /\ op'[w] = next /\ \A v \in Checkouts \ {w} : op'[v] = op[v]
  BY <1>3, <1>4, GoTo DEF Inv
<1>6. /\ source' = source /\ local' = local /\ doc' = doc /\ report' = report
      /\ inventory' = inventory /\ known' = known /\ head' = head /\ db' = db
  BY DEF Scanned, files, repo
<1>7. TypeOK'
  BY <1>5, <1>6 DEF Inv, TypeOK, Scanned, repo
<1>8. Shape(w)'
  <2>1. to = "compare" => Named(w)'
    BY <1>1, <1>2, <1>3, <1>5, <1>6 DEF Named, Documents
  <2> QED
    BY <1>1, <1>2, <1>3, <1>5, <1>6, <2>1 DEF Shape, At, Documents, Steps
<1>9. ASSUME w = Runner PROVE Job'
  <2>1. /\ op[Runner].target = "job"
        /\ source[Runner] = head.source /\ known[Runner] = head.known
        /\ AllDone /\ DiffIsEmpty(Runner)
    BY <1>1, <1>9 DEF Inv, Job, NoOp, Steps
  <2>2. AllDone'
    BY <1>6, <2>1 DEF AllDone, Done, Fetched, Resolved
  <2>3. DiffIsEmpty(Runner)'
    BY <1>6, <2>1 DEF DiffIsEmpty
  <2>4. next.at = "compare" /\ next.names = Documents(w)
    BY <1>2, <1>3, <1>9, <2>1
  <2> QED
    BY <1>3, <1>5, <1>6, <1>9, <2>1, <2>2, <2>3, <2>4 DEF Job, At, Documents
<1>10. \A v \in Checkouts \ {w} : Here(v)' = Here(v)
  BY <1>5, <1>6 DEF Here
<1> QED
  BY <1>6, <1>7, <1>8, <1>9, <1>10, OneCheckout

LEMMA CompareInv ==
  ASSUME Inv, NEW w \in Checkouts, Compare(w)
  PROVE  Inv'
<1>0. PICK n : n = First(op[w].names)
  OBVIOUS
<1> DEFINE failed == {m \in {n} : Unbaselined(known[w][m], report[w][m])}
           next   == [op[w] EXCEPT !.names = @ \ {n}, !.failed = @ \cup failed]
<1>1. /\ op[w] \in Ops /\ op[w].at = "compare" /\ n \in op[w].names /\ op[w].refs = {}
      /\ op[w].names \subseteq Documents(w) /\ db[w] \in [Advisories -> Ratings]
      /\ op[w].target \in {"scan", "job"}
      /\ \A m \in Documents(w) : report[w][m] = Matches(doc[w][m], db[w])
      /\ Named(w)
  BY <1>0, FirstIn DEF Inv, TypeOK, Compare, Shape, At
<1>2. n \in Names
  BY <1>1 DEF Ops
<1>3. /\ next \in Ops /\ next.target = op[w].target /\ next.failed = op[w].failed \cup failed
      /\ next.names = op[w].names \ {n} /\ next.refs = {} /\ next.at = "compare"
  BY <1>1, <1>2 DEF Ops
<1>4. Go(w, next)
  BY <1>0 DEF Compare
<1> HIDE DEF next, failed
<1>5. op' \in [Checkouts -> Ops] /\ op'[w] = next /\ \A v \in Checkouts \ {w} : op'[v] = op[v]
  BY <1>3, <1>4, GoTo DEF Inv
<1>6. /\ source' = source /\ local' = local /\ doc' = doc /\ report' = report
      /\ inventory' = inventory /\ known' = known /\ head' = head /\ db' = db
  BY DEF Compare, files, repo
<1>7. TypeOK'
  BY <1>5, <1>6 DEF Inv, TypeOK, Compare, repo
<1>8. Shape(w)'
  <2>1. Named(w)'
    <3>1. failed = {m \in {n} : Unbaselined(known[w][m], Matches(doc[w][m], db[w]))}
      BY <1>1 DEF failed
    <3> HIDE DEF failed
    <3> QED
      BY <1>1, <1>3, <1>5, <1>6, <3>1 DEF Named, Documents
  <2> QED
    BY <1>1, <1>3, <1>5, <1>6, <2>1 DEF Shape, At, Documents, Steps
<1>9. ASSUME w = Runner PROVE Job'
  <2>1. /\ op[Runner].target = "job"
        /\ source[Runner] = head.source /\ known[Runner] = head.known
        /\ AllDone /\ DiffIsEmpty(Runner)
    BY <1>1, <1>9 DEF Inv, Job, NoOp, At
  <2>2. AllDone'
    BY <1>6, <2>1 DEF AllDone, Done, Fetched, Resolved
  <2>3. DiffIsEmpty(Runner)'
    BY <1>6, <2>1 DEF DiffIsEmpty
  <2> QED
    BY <1>3, <1>5, <1>6, <1>9, <2>1, <2>2, <2>3 DEF Job, At
<1>10. \A v \in Checkouts \ {w} : Here(v)' = Here(v)
  BY <1>5, <1>6 DEF Here
<1> QED
  BY <1>6, <1>7, <1>8, <1>9, <1>10, OneCheckout

LEMMA ComparedInv ==
  ASSUME Inv, NEW w \in Checkouts, Compared(w)
  PROVE  Inv'
<1>1. /\ op[w].at = "compare" /\ op[w].names = {} /\ op[w].target \in {"scan", "job"}
      /\ \A m \in Documents(w) : report[w][m] = Matches(doc[w][m], db[w])
      /\ Named(w)
  BY DEF Inv, Compared, Shape, At
<1>2. Verdict(w) \in Ended /\ (Verdict(w) = "passed" => op[w].failed = {}) /\ Verdict(w) # "failed"
  BY DEF Verdict, Ended
<1>3. /\ op' \in [Checkouts -> Ops]
      /\ op'[w].at = Verdict(w) /\ op'[w].target = op[w].target /\ op'[w].names = {}
      /\ op'[w].failed = op[w].failed /\ op'[w].refs = {}
      /\ \A v \in Checkouts \ {w} : op'[v] = op[v]
  BY <1>2, StopAt DEF Compared, Inv
<1>4. /\ source' = source /\ local' = local /\ doc' = doc /\ report' = report
      /\ inventory' = inventory /\ known' = known /\ head' = head /\ db' = db
  BY DEF Compared, files, repo
<1>5. TypeOK'
  BY <1>3, <1>4 DEF Inv, TypeOK, Compared, repo
<1>5a. Named(w)'
  BY <1>1, <1>3, <1>4 DEF Named, Documents
<1>6. Shape(w)'
  BY <1>1, <1>2, <1>3, <1>5a DEF Shape, At, Ended, Steps
<1>7. ASSUME w = Runner PROVE Job'
  <2>1. /\ op[Runner].target = "job"
        /\ source[Runner] = head.source /\ known[Runner] = head.known
        /\ AllDone /\ DiffIsEmpty(Runner)
    BY <1>1, <1>7 DEF Inv, Job, NoOp, At
  <2>2. AllDone'
    BY <1>4, <2>1 DEF AllDone, Done, Fetched, Resolved
  <2>3. DiffIsEmpty(Runner)'
    BY <1>4, <2>1 DEF DiffIsEmpty
  <2> QED
    BY <1>2, <1>3, <1>4, <1>5a, <1>7, <2>1, <2>2, <2>3 DEF Job, At, Ended
<1>8. \A v \in Checkouts \ {w} : Here(v)' = Here(v)
  BY <1>3, <1>4 DEF Here
<1> QED
  BY <1>4, <1>5, <1>6, <1>7, <1>8, OneCheckout

LEMMA AcceptInv ==
  ASSUME Inv, NEW w \in Checkouts, Accept(w)
  PROVE  Inv'
<1>0. PICK n : n = First(op[w].names)
  OBVIOUS
<1> DEFINE next == [op[w] EXCEPT !.names = @ \ {n}]
<1>1. /\ op[w] \in Ops /\ op[w].at = "accept" /\ n \in op[w].names /\ op[w].refs = {}
      /\ op[w].failed = {}
      /\ op[w].names \subseteq Documents(w) /\ db[w] \in [Advisories -> Ratings]
      /\ op[w].target = "scan-accept"
      /\ \A m \in Documents(w) : report[w][m] = Matches(doc[w][m], db[w])
      /\ \A m \in Documents(w) \ op[w].names :
           known[w][m] # None => known[w][m] = advisories(Matches(doc[w][m], db[w]))
  BY <1>0, FirstIn DEF Inv, TypeOK, Accept, Shape, At, Steps
<1>2. n \in Names /\ w # Runner
  BY <1>1 DEF Ops, Inv, Job, NoOp
<1>3. /\ next \in Ops /\ next.target = op[w].target /\ next.failed = op[w].failed
      /\ next.names = op[w].names \ {n} /\ next.refs = {} /\ next.at = "accept"
  BY <1>1, <1>2 DEF Ops
<1>4. Go(w, next)
  BY <1>0 DEF Accept
<1> HIDE DEF next
<1>5. op' \in [Checkouts -> Ops] /\ op'[w] = next /\ \A v \in Checkouts \ {w} : op'[v] = op[v]
  BY <1>3, <1>4, GoTo DEF Inv
<1>6. /\ source' = source /\ local' = local /\ doc' = doc /\ report' = report
      /\ inventory' = inventory /\ head' = head /\ db' = db
  BY DEF Accept, repo
<1>7. /\ known' \in [Checkouts -> [Names -> Baselines]]
      /\ known'[w][n] = advisories(Matches(doc[w][n], db[w]))
      /\ \A m \in Names \ {n} : known'[w][m] = known[w][m]
      /\ \A v \in Checkouts \ {w} : known'[v] = known[v]
  <2>1. advisories(report[w][n]) \in SUBSET Advisories
    BY <1>1, ToolTypes
  <2>2. known' = [known EXCEPT ![w][n] = advisories(report[w][n])]
    BY <1>0 DEF Accept, Rewritten
  <2> QED
    BY <1>1, <1>2, <2>1, <2>2 DEF Inv, TypeOK, Baselines
<1>8. TypeOK'
  BY <1>5, <1>6, <1>7 DEF Inv, TypeOK, Accept, repo
<1>9. Shape(w)'
  <2>1. \A m \in Documents(w) \ (op[w].names \ {n}) :
           known'[w][m] # None => known'[w][m] = advisories(Matches(doc[w][m], db[w]))
    BY <1>1, <1>7 DEF Documents
  <2> QED
    BY <1>1, <1>3, <1>5, <1>6, <2>1 DEF Shape, At, Documents, Steps
<1>10. \A v \in Checkouts \ {w} : Here(v)' = Here(v)
  BY <1>5, <1>6, <1>7 DEF Here
<1> QED
  BY <1>2, <1>6, <1>8, <1>9, <1>10, OneCheckout

LEMMA AcceptedInv ==
  ASSUME Inv, NEW w \in Checkouts, Accepted(w)
  PROVE  Inv'
<1>1. /\ op[w].at = "accept" /\ op[w].names = {} /\ op[w].target = "scan-accept"
      /\ \A m \in Documents(w) :
           known[w][m] # None => known[w][m] = advisories(Matches(doc[w][m], db[w]))
  BY DEF Inv, Accepted, Shape, At
<1>2. w # Runner
  BY <1>1 DEF Inv, Job, NoOp
<1>3. /\ op' \in [Checkouts -> Ops]
      /\ op'[w].at = "passed" /\ op'[w].target = op[w].target /\ op'[w].names = {}
      /\ op'[w].refs = {}
      /\ \A v \in Checkouts \ {w} : op'[v] = op[v]
  BY StopAt DEF Accepted, Inv, Ended
<1>4. /\ source' = source /\ local' = local /\ doc' = doc /\ report' = report
      /\ inventory' = inventory /\ known' = known /\ head' = head /\ db' = db
  BY DEF Accepted, files, repo
<1>5. TypeOK'
  BY <1>3, <1>4 DEF Inv, TypeOK, Accepted, repo
<1>6. Shape(w)'
  BY <1>1, <1>3, <1>4 DEF Shape, At, Documents, Steps
<1>7. \A v \in Checkouts \ {w} : Here(v)' = Here(v)
  BY <1>3, <1>4 DEF Here
<1> QED
  BY <1>2, <1>4, <1>5, <1>6, <1>7, OneCheckout

\* A mishap leaves a stopped recipe and whole or torn files.
LEMMA FailInv ==
  ASSUME Inv, NEW w \in Checkouts, Fail(w)
  PROVE  Inv'
<1>1. op[w] # NoOp /\ ~At(w, "passed")
  BY DEF Fail, Idle, Ended, NoOp, At
<1>2. mishaps' \in Nat
  BY DEF Fail, Mishap, Inv, TypeOK
<1>3. Stop(w, "failed") /\ UNCHANGED <<source, local, files, db, repo>>
  BY DEF Fail
<1> QED
  BY <1>1, <1>2, <1>3, GiveUpInv

LEMMA TearInv ==
  ASSUME Inv, NEW w \in Checkouts, Tear(w)
  PROVE  Inv'
<1>1. op[w] # NoOp /\ ~At(w, "passed") /\ op[w].at \in {"reduce", "accept"} /\ op[w] \in Ops
  BY DEF Tear, NoOp, At, Inv, TypeOK
<1>2. /\ source' = source /\ local' = local /\ doc' = doc /\ report' = report
      /\ head' = head /\ db' = db /\ Stop(w, "failed")
  BY DEF Tear, repo
<1>3. op' \in [Checkouts -> Ops] /\ \A v \in Checkouts \ {w} : op'[v] = op[v]
  BY <1>2, StopAt DEF Inv, Ended
<1>4. /\ inventory' \in [Checkouts -> [Names -> (SUBSET Packages) \cup {None}]]
      /\ known' \in [Checkouts -> [Names -> Baselines]]
      /\ \A v \in Checkouts \ {w} : inventory'[v] = inventory[v] /\ known'[v] = known[v]
      /\ w = Runner => known'[w] = known[w]
  <2>1. CASE At(w, "reduce") /\ UNCHANGED known
             /\ \E lines \in SUBSET Reduced(doc[w][op[w].hand.name]) :
                  inventory' = [inventory EXCEPT ![w][op[w].hand.name] = lines]
    <3>1. op[w].hand \in Refs /\ Reduced(doc[w][op[w].hand.name]) \in SUBSET Packages
      BY <2>1, ToolTypes DEF Inv, Shape
    <3> QED
      BY <2>1, <3>1 DEF Inv, TypeOK, Refs
  <2>2. CASE /\ At(w, "accept") /\ UNCHANGED inventory /\ op[w].names # {}
             /\ \E ids \in Torn(advisories(report[w][First(op[w].names)])) :
                  known' = [known EXCEPT ![w][First(op[w].names)] = ids]
    <3>0. PICK n : n = First(op[w].names)
      OBVIOUS
    <3>1. /\ n \in op[w].names /\ op[w].names \subseteq Documents(w)
          /\ db[w] \in [Advisories -> Ratings] /\ op[w].target = "scan-accept"
          /\ \A m \in Documents(w) : report[w][m] = Matches(doc[w][m], db[w])
      BY <2>2, <3>0, FirstIn DEF Inv, Shape, At
    <3>2. n \in Names /\ advisories(report[w][n]) \in SUBSET Advisories
      BY <1>1, <3>1, ToolTypes DEF Ops
    <3>3. w # Runner
      BY <1>1, <3>1 DEF Inv, Job
    <3>4. Torn(advisories(report[w][n])) \subseteq Baselines
      BY <3>2 DEF Torn, Baselines
    <3> QED
      BY <2>2, <3>0, <3>2, <3>3, <3>4 DEF Inv, TypeOK
  <2> QED
    BY <2>1, <2>2 DEF Tear
<1>5. TypeOK'
  BY <1>3, <1>4 DEF Inv, TypeOK, Tear, repo, Mishap
<1>6. \A v \in Checkouts \ {w} : Here(v)' = Here(v)
  BY <1>2, <1>3, <1>4 DEF Here
<1> QED
  BY <1>1, <1>2, <1>4, <1>5, <1>6, StopInv

-----------------------------------------------------------------------------
(* The developer, git, the machine of the job and the advisories *)

\* So do a new recipe, a new job and the end of one.
LEMMA MakeInv ==
  ASSUME Inv, NEW target \in DevTargets, Make(target)
  PROVE  Inv'
<1> DEFINE next == [NoOp EXCEPT !.target = target, !.at = FirstStep(target)]
<1>0. Dev \in Checkouts /\ Dev # Runner
  BY SupplyAssumption DEF Checkouts
<1>1. target \in {"build", "sbom", "scan-report", "scan", "scan-accept"}
  BY SupplyAssumption
<1>2. /\ next \in Ops /\ next.target = target /\ next.names = {} /\ next.refs = {}
      /\ next.at = FirstStep(target) /\ next.failed = {}
  BY <1>1 DEF Ops, NoOp, FirstStep, Steps, Targets
<1>3. Go(Dev, next)
  BY DEF Make
<1> HIDE DEF next
<1>4. op' \in [Checkouts -> Ops] /\ op'[Dev] = next /\ \A v \in Checkouts \ {Dev} : op'[v] = op[v]
  BY <1>0, <1>2, <1>3, GoTo DEF Inv
<1>5. /\ source' = source /\ local' = local /\ doc' = doc /\ report' = report
      /\ inventory' = inventory /\ known' = known /\ head' = head /\ db' = db
  BY DEF Make, files, repo
<1>6. TypeOK'
  BY <1>4, <1>5 DEF Inv, TypeOK, Make, repo
<1>7. Shape(Dev)'
  BY <1>1, <1>2, <1>4 DEF Shape, At, FirstStep, Steps
<1>8. \A v \in Checkouts \ {Dev} : Here(v)' = Here(v)
  BY <1>4, <1>5 DEF Here
<1> QED
  BY <1>0, <1>5, <1>6, <1>7, <1>8, OneCheckout

LEMMA CheckoutInv ==
  ASSUME Inv, Checkout
  PROVE  Inv'
<1> DEFINE next == [NoOp EXCEPT !.target = "job", !.at = "build"]
<1>0. Runner \in Checkouts
  BY DEF Checkouts
<1>1. /\ next \in Ops /\ next.target = "job" /\ next.names = {} /\ next.refs = {}
      /\ next.at = "build" /\ next.failed = {}
  BY DEF Ops, NoOp, Steps, Targets
<1>2. Go(Runner, next)
  BY DEF Checkout
<1> HIDE DEF next
<1>3. /\ op' \in [Checkouts -> Ops] /\ op'[Runner] = next
      /\ \A v \in Checkouts \ {Runner} : op'[v] = op[v]
  BY <1>0, <1>1, <1>2, GoTo DEF Inv
<1>4. /\ local' = local /\ doc' = doc /\ report' = report /\ db' = db
      /\ head' = committed /\ committed' = committed /\ committed \in Tree
  BY DEF Checkout, Inv, TypeOK
<1>5. /\ source' \in [Checkouts -> Composes] /\ source'[Runner] = committed.source
      /\ inventory' \in [Checkouts -> [Names -> (SUBSET Packages) \cup {None}]]
      /\ known' \in [Checkouts -> [Names -> Baselines]]
      /\ known'[Runner] = committed.known
      /\ \A v \in Checkouts \ {Runner} : /\ source'[v] = source[v] /\ known'[v] = known[v]
                                         /\ inventory'[v] = inventory[v]
  BY <1>0, <1>4 DEF Checkout, Inv, TypeOK, Tree
<1>6. TypeOK'
  BY <1>3, <1>4, <1>5 DEF Inv, TypeOK, Checkout
<1>7. ASSUME NEW v \in Checkouts PROVE Shape(v)'
  <2>1. CASE v = Runner
    BY <1>1, <1>3, <2>1 DEF Shape, At
  <2>2. CASE v # Runner
    <3>1. Shape(v) /\ Here(v)' = Here(v)
      BY <1>3, <1>4, <1>5, <2>2 DEF Inv, Here, Checkout
    <3> QED
      BY <3>1 DEF Here, Shape, Named, At, Documents
  <2> QED
    BY <2>1, <2>2
<1>8. doc[Runner] = NoFile
  BY DEF Inv, Job, Checkout, NoOp
<1>9. Job'
  BY <1>1, <1>3, <1>4, <1>5, <1>8 DEF Job, At
<1> QED
  BY <1>6, <1>7, <1>9 DEF Inv

LEMMA DiscardInv ==
  ASSUME Inv, Discard
  PROVE  Inv'
<1>0. Runner \in Checkouts
  BY DEF Checkouts
<1>1. /\ NoOp \in Ops /\ NoOp.target = "build" /\ NoOp.names = {} /\ NoOp.refs = {}
      /\ NoOp.at = "failed" /\ NoOp.failed = {}
  BY DEF Ops, NoOp, Ended, Targets
<1>2. /\ op' \in [Checkouts -> Ops] /\ op'[Runner] = NoOp
      /\ \A v \in Checkouts \ {Runner} : op'[v] = op[v]
  BY <1>0, <1>1, GoTo DEF Inv, Discard
<1>3. NoFile \in [Names -> {None}]
  BY DEF NoFile
<1>4. /\ source' = source /\ head' = head
      /\ local' \in [Checkouts -> [Names -> Digests \cup {None}]]
      /\ doc' \in [Checkouts -> [Names -> (SUBSET Entries) \cup {None}]]
      /\ report' \in [Checkouts -> [Names -> (SUBSET Matched) \cup {None}]]
      /\ inventory' \in [Checkouts -> [Names -> (SUBSET Packages) \cup {None}]]
      /\ known' \in [Checkouts -> [Names -> Baselines]]
      /\ db' \in [Checkouts -> [Advisories -> Ratings] \cup {None}]
      /\ doc'[Runner] = NoFile
  BY <1>0, <1>3 DEF Discard, Inv, TypeOK, Baselines, repo
<1>5. TypeOK'
  BY <1>2, <1>4 DEF Inv, TypeOK, Discard, repo
<1>6. Shape(Runner)'
  BY <1>1, <1>2 DEF Shape, At
<1>7. Job'
  BY <1>1, <1>2, <1>4 DEF Job, At, Steps
<1>8. \A v \in Checkouts \ {Runner} : Here(v)' = Here(v)
  BY <1>2 DEF Here, Discard, Inv, TypeOK
<1> QED
  BY <1>0, <1>4, <1>5, <1>6, <1>7, <1>8, OneCheckout

\* An edit and a retirement touch the sources, inventories and baselines of the developer.
LEMMA EditInv ==
  ASSUME Inv, Edit
  PROVE  Inv'
<1>0. Dev \in Checkouts /\ Dev # Runner
  BY SupplyAssumption DEF Checkouts
<1>1. PICK compose \in Composes : source' = [source EXCEPT ![Dev] = compose]
  BY DEF Edit
<1>2. /\ op' = op /\ local' = local /\ doc' = doc /\ report' = report
      /\ inventory' = inventory /\ known' = known /\ head' = head /\ db' = db
  BY DEF Edit, files
<1>3. TypeOK'
  <2>1. source' \in [Checkouts -> Composes]
    BY <1>1 DEF Inv, TypeOK
  <2> QED
    BY <1>2, <2>1 DEF Inv, TypeOK, Edit, Edited
<1>4. Shape(Dev)'
  BY <1>0, <1>2 DEF Inv, Shape, Named, At, Documents
<1>5. \A v \in Checkouts \ {Dev} : Here(v)' = Here(v)
  BY <1>1, <1>2 DEF Here, Inv, TypeOK
<1> QED
  BY <1>0, <1>2, <1>3, <1>4, <1>5, OneCheckout

LEMMA RetireInv ==
  ASSUME Inv, NEW n \in Names, Retire(n)
  PROVE  Inv'
<1>0. Dev \in Checkouts /\ Dev # Runner
  BY SupplyAssumption DEF Checkouts
<1>1. /\ op' = op /\ local' = local /\ doc' = doc /\ report' = report
      /\ source' = source /\ head' = head /\ db' = db
  BY DEF Retire
<1>2. /\ inventory' \in [Checkouts -> [Names -> (SUBSET Packages) \cup {None}]]
      /\ known' \in [Checkouts -> [Names -> Baselines]]
      /\ \A m \in Names : known'[Dev][m] \in {known[Dev][m], None}
      /\ \A v \in Checkouts \ {Dev} : inventory'[v] = inventory[v] /\ known'[v] = known[v]
  <2>1. /\ inventory' = [inventory EXCEPT ![Dev][n] = None]
        /\ known' = [known EXCEPT ![Dev][n] = None]
    BY DEF Retire
  <2> QED
    BY <1>0, <2>1 DEF Inv, TypeOK, Baselines
<1>3. TypeOK'
  BY <1>1, <1>2 DEF Inv, TypeOK, Retire, Edited
<1>4. Shape(Dev)'
  <2>1. Shape(Dev)
    BY <1>0 DEF Inv
  <2>2. op[Dev].target = "scan-accept" /\ op[Dev].at \in {"accept", "passed"} =>
          \A m \in Documents(Dev) \ op[Dev].names :
            known'[Dev][m] # None => known'[Dev][m] = advisories(Matches(doc[Dev][m], db[Dev]))
    BY <1>2, <2>1 DEF Shape, Documents
  <2>3. Named(Dev) => Named(Dev)'
    BY <1>1, <1>2 DEF Named, Documents, Unbaselined
  <2> QED
    BY <1>1, <2>1, <2>2, <2>3 DEF Shape, At, Documents
<1>5. \A v \in Checkouts \ {Dev} : Here(v)' = Here(v)
  BY <1>1, <1>2 DEF Here
<1> QED
  BY <1>0, <1>1, <1>3, <1>4, <1>5, OneCheckout

\* Nothing a checkout looks at has moved.
LEMMA ElsewhereInv ==
  ASSUME Inv, TypeOK', UNCHANGED <<source, local, files, db, op, head>>
  PROVE  Inv'
<1>1. ASSUME NEW v \in Checkouts PROVE Shape(v)'
  BY DEF Inv, Shape, Named, At, Documents, files
<1>2. Job'
  BY DEF Inv, Job, Named, At, Documents, AllDone, Done, Fetched, Resolved, DiffIsEmpty, files
<1> QED
  BY <1>1, <1>2 DEF Inv

\* A commit and a publication are seen by nobody before they look.
LEMMA CommitInv ==
  ASSUME Inv, NEW addInventories \in BOOLEAN, NEW addBaselines \in BOOLEAN,
         Commit(addInventories, addBaselines)
  PROVE  Inv'
<1>0. Dev \in Checkouts
  BY DEF Checkouts
<1>1. /\ source[Dev] \in Composes
      /\ inventory[Dev] \in [Names -> (SUBSET Packages) \cup {None}]
      /\ known[Dev] \in [Names -> Baselines]
  BY <1>0 DEF Inv, TypeOK
<1>2. /\ Staged(addInventories, committed.inventory, inventory[Dev])
           \in [Names -> (SUBSET Packages) \cup {None}]
      /\ Staged(addBaselines, committed.known, known[Dev])
           \in [Names -> Baselines]
  <2>1. \A add, was, S : None \in S => \A now \in [Names -> S] : Staged(add, was, now) \in [Names -> S]
    BY DEF Staged
  <2> QED
    BY <1>1, <2>1 DEF Baselines
<1>3. committed' \in Tree
  BY <1>1, <1>2 DEF Commit, Tree
<1>4. TypeOK'
  BY <1>3 DEF Inv, TypeOK, Commit, Edited, files
<1> QED
  BY <1>4, ElsewhereInv DEF Commit

LEMMA PublishInv ==
  ASSUME Inv, NEW v \in Advisories, Publish(v)
  PROVE  Inv'
<1>1. TypeOK'
  BY DEF Inv, TypeOK, Publish, files
<1> QED
  BY <1>1, ElsewhereInv DEF Publish

-----------------------------------------------------------------------------
(* The invariant and what it says *)

\* Everything is fresh in the beginning.
LEMMA Starts == Init => Inv
<1> SUFFICES ASSUME Init PROVE Inv
  OBVIOUS
<1>1. PICK compose \in Composes :
        LET named(n) == {r \in References(compose) : r.name = n}
            lines(n) == UNION {Contents[Digest(compose, r)] : r \in named(n)}
        IN  committed =
              [source |-> compose,
               inventory |-> [n \in Names |-> IF named(n) = {} THEN None ELSE lines(n)],
               known |-> [n \in Names |-> IF named(n) = {} THEN None ELSE {}]]
  BY DEF Init
<1>2. \A r \in References(compose) : Contents[Digest(compose, r)] \in SUBSET Packages
  BY SourceContents
<1>3. committed \in Tree
  <2> DEFINE named(n) == {r \in References(compose) : r.name = n}
             lines(n) == UNION {Contents[Digest(compose, r)] : r \in named(n)}
  <2>1. \A n \in Names : lines(n) \in SUBSET Packages
    BY <1>2
  <2>2. committed =
          [source |-> compose,
           inventory |-> [n \in Names |-> IF named(n) = {} THEN None ELSE lines(n)],
           known |-> [n \in Names |-> IF named(n) = {} THEN None ELSE {}]]
    BY <1>1
  <2>3. [n \in Names |-> IF named(n) = {} THEN None ELSE lines(n)]
          \in [Names -> (SUBSET Packages) \cup {None}]
    BY <2>1
  <2>4. [n \in Names |-> IF named(n) = {} THEN None ELSE {}]
          \in [Names -> Baselines]
    BY DEF Baselines
  <2> HIDE DEF named, lines
  <2> QED
    BY <2>2, <2>3, <2>4 DEF Tree
<1>4. /\ NoOp \in Ops /\ NoOp.target = "build" /\ NoOp.names = {} /\ NoOp.refs = {}
      /\ NoOp.at = "failed" /\ NoOp.failed = {}
  BY DEF Ops, NoOp, Ended, Targets
<1>5. /\ NoFile \in [Names -> Digests \cup {None}]
      /\ NoFile \in [Names -> (SUBSET Entries) \cup {None}]
      /\ NoFile \in [Names -> (SUBSET Matched) \cup {None}]
      /\ NoFile \in [Names -> (SUBSET Packages) \cup {None}]
      /\ NoFile \in [Names -> Baselines]
  <2>1. NoFile \in [Names -> {None}]
    BY DEF NoFile
  <2> QED
    BY <2>1 DEF Baselines
<1>6. /\ committed.source \in Composes
      /\ committed.inventory \in [Names -> (SUBSET Packages) \cup {None}]
      /\ committed.known \in [Names -> Baselines]
  BY <1>3 DEF Tree
<1>7. TypeOK
  BY <1>3, <1>4, <1>5, <1>6 DEF Init, TypeOK, Ratings
<1>8. ASSUME NEW w \in Checkouts PROVE op[w] = NoOp
  BY DEF Init
<1>9. ASSUME NEW w \in Checkouts PROVE Shape(w)
  BY <1>4, <1>8 DEF Shape, At
<1>10. Job
  <2>1. op[Runner] = NoOp /\ doc[Runner] = NoFile
    BY <1>8 DEF Checkouts, Init
  <2> QED
    BY <1>4, <2>1 DEF Job, At, Steps
<1> QED
  BY <1>7, <1>9, <1>10 DEF Inv

\* The steps together, and then all of the next-state relation.
LEMMA StepInv ==
  ASSUME Inv, NEW w \in Checkouts, Step(w)
  PROVE  Inv'
  BY BuildInv, ListInv, CatalogueInv, ReduceInv, CataloguedInv, DiffInv, AnyDocumentsInv,
     UpdateDbInv, ScanInv, ScannedInv, CompareInv, ComparedInv, AcceptInv, AcceptedInv
  DEF Step

LEMMA Continues == Inv /\ [Next]_vars => Inv'
<1> SUFFICES ASSUME Inv, [Next]_vars PROVE Inv'
  OBVIOUS
<1>1. ASSUME NEW target \in DevTargets, Make(target) PROVE Inv'
  BY <1>1, MakeInv
<1>2. CASE Checkout
  BY <1>2, CheckoutInv
<1>3. CASE Discard
  BY <1>3, DiscardInv
<1>4. ASSUME NEW w \in Checkouts, Step(w) \/ Fail(w) \/ Tear(w) PROVE Inv'
  BY <1>4, StepInv, FailInv, TearInv
<1>5. CASE Edit
  BY <1>5, EditInv
<1>6. ASSUME NEW n \in Names, Retire(n) PROVE Inv'
  BY <1>6, RetireInv
<1>7. ASSUME NEW a \in BOOLEAN, NEW b \in BOOLEAN, Commit(a, b) PROVE Inv'
  BY <1>7, CommitInv
<1>8. ASSUME NEW v \in Advisories, Publish(v) PROVE Inv'
  BY <1>8, PublishInv
<1>9. CASE UNCHANGED vars
  <2>1. TypeOK'
    BY <1>9 DEF Inv, TypeOK, vars, files, repo
  <2> QED
    BY <1>9, <2>1, ElsewhereInv DEF vars, repo
<1> QED
  BY <1>1, <1>2, <1>3, <1>4, <1>5, <1>6, <1>7, <1>8, <1>9 DEF Next

\* What each step of a recipe or of the job may rely on holds whenever it runs.
THEOREM Invariance == Spec => []Inv
  BY Starts, Continues, PTL DEF Spec

\* Every variable has its type.
THEOREM TypeCorrect == Spec => []TypeOK
<1>1. Inv => TypeOK
  BY DEF Inv
<1> QED
  BY <1>1, Invariance, PTL

\* A green job scanned every image the spine runs, and their gated advisories
\* are in the committed baselines.
THEOREM GreenIsKnown == Spec => []PassMeansKnown
<1>1. ASSUME Inv PROVE PassMeansKnown
  <2> SUFFICES ASSUME At(Runner, "passed"), NEW r \in Runs(source[Runner])
               PROVE  /\ Resolved(Runner, r) # None
                      /\ head.known[r.name] \notin {None, Malformed}
                      /\ Gated(Runner, r) \subseteq head.known[r.name]
    BY DEF PassMeansKnown
  <2>1. op[Runner] # NoOp
    BY DEF At, NoOp
  <2>2. /\ AllDone /\ known[Runner] = head.known
        /\ \A n \in Documents(Runner) :
             ~Unbaselined(known[Runner][n], Matches(doc[Runner][n], db[Runner]))
    <3>1. op[Runner].names = {} /\ Dev # Runner
      BY <1>1, SupplyAssumption DEF Inv, Shape, At, Checkouts
    <3> QED
      BY <1>1, <2>1, <3>1 DEF Inv, Job, At, Named
  <2>3. source[Runner] \in Composes /\ r \in References(source[Runner])
    BY <1>1 DEF Inv, TypeOK, Checkouts, Runs, References
  <2>4. r \in Refs /\ Fetched(r)
    BY <2>2, <2>3, ComposeTypes DEF AllDone, Done
  <2>5. Resolved(Runner, r) \in Digests /\ r.name \in Names
    BY <1>1, <2>4 DEF Fetched, Resolved, Refs, Inv, TypeOK, Checkouts
  <2>6. r.name \in Documents(Runner)
    BY <2>4, <2>5, ToolTypes DEF Fetched, Documents
  <2>7. ~Unbaselined(head.known[r.name], Matches(Document(Resolved(Runner, r)), db[Runner]))
    BY <2>2, <2>4, <2>6 DEF Fetched
  <2> QED
    BY <2>4, <2>7 DEF Fetched, Unbaselined, Gated
<1> QED
  BY <1>1, Invariance, PTL

\* A committed inventory of an image the spine names describes that image, when
\* the job is green.
THEOREM GreenDescribes == Spec => []TrackedInventoriesDescribe
<1>1. ASSUME Inv PROVE TrackedInventoriesDescribe
  <2> SUFFICES ASSUME At(Runner, "passed"), NEW r \in References(source[Runner])
               PROVE  head.inventory[r.name] \in {None, Contents[Resolved(Runner, r)]}
    BY DEF TrackedInventoriesDescribe
  <2>1. AllDone /\ DiffIsEmpty(Runner)
    BY <1>1 DEF Inv, Job, At
  <2>2. source[Runner] \in Composes
    BY <1>1 DEF Inv, TypeOK, Checkouts
  <2>3. r.name \in Names
    BY <2>2, ComposeTypes DEF Refs
  <2>4. inventory[Runner][r.name] = Contents[Resolved(Runner, r)]
    BY <2>1 DEF AllDone, Done
  <2> QED
    BY <2>1, <2>3, <2>4 DEF DiffIsEmpty
<1> QED
  BY <1>1, Invariance, PTL

\* Baselines a successful scan-accept leaves are those of its own scan.
THEOREM AcceptanceIsExact == Spec => []AcceptedAsScanned
<1>1. ASSUME Inv PROVE AcceptedAsScanned
  <2> SUFFICES ASSUME op[Dev].target = "scan-accept", At(Dev, "passed"), NEW n \in Documents(Dev)
               PROVE  known[Dev][n] # None =>
                        known[Dev][n] = advisories(Matches(doc[Dev][n], db[Dev]))
    BY DEF AcceptedAsScanned
  <2>1. Shape(Dev)
    BY <1>1 DEF Inv, Checkouts
  <2>2. op[Dev].at = "passed" /\ op[Dev].names = {}
    BY <2>1 DEF At, Shape
  <2> QED
    BY <2>1, <2>2 DEF Shape
<1> QED
  BY <1>1, Invariance, PTL

\* A red verdict names every image with a new advisory or no usable baseline, in
\* either checkout.
THEOREM RedNamesAll == Spec => []RefusalNamesAll
<1>1. ASSUME Inv, NEW w \in Checkouts, At(w, "refused")
      PROVE  op[w].names = {} /\ Named(w)
  BY <1>1 DEF Inv, Shape, At
<1>2. Inv => RefusalNamesAll
  BY <1>1 DEF RefusalNamesAll, Named
<1> QED
  BY <1>2, Invariance, PTL
-----------------------------------------------------------------------------
(* Coming to an end                                                        *)

Stage == [build |-> 0, list |-> 1, catalogue |-> 2, reduce |-> 2, diff |-> 3, documents |-> 4,
          update |-> 5, scan |-> 6, compare |-> 7, accept |-> 7,
          passed |-> 8, refused |-> 8, failed |-> 8]

\* A later command, or the same loop with less to do: an image is catalogued
\* and then reduced, and with that it is off the list.
Ahead(w) ==
  \/ Stage[op'[w].at] > Stage[op[w].at]
  \/ At(w, "catalogue") /\ At(w, "reduce")' /\ op'[w].refs = op[w].refs
  \/ At(w, "reduce") /\ At(w, "catalogue")' /\ op'[w].refs = op[w].refs \ {op[w].hand}
                     /\ op[w].hand \in op[w].refs
  \/ /\ op[w].at \in {"scan", "compare", "accept"} /\ op'[w].at = op[w].at
     /\ op'[w].names \subseteq op[w].names /\ op'[w].names # op[w].names

LEMMA Stages ==
  ASSUME NEW w \in Checkouts, TypeOK, Shape(w), Step(w) \/ Fail(w) \/ Tear(w)
  PROVE  Ahead(w)
<1>0. op[w] \in Ops
  BY DEF TypeOK
<1>1. \A next : Go(w, next) => op'[w] = next
  BY DEF Go, TypeOK
<1>2. ASSUME NEW how \in Ended, Stop(w, how) PROVE op'[w].at = how /\ op'[w].names = {}
  BY <1>2, StopAt
<1>3. ASSUME NEW how \in Ended, Stop(w, how), op[w].at \in Steps PROVE Ahead(w)
  BY <1>2, <1>3 DEF Ahead, Stage, Steps, Ended
<1>4. CASE Build(w)
  <2>1. op[w].at = "build" /\ op'[w].at \in {"list", "passed"}
    BY <1>0, <1>1, <1>4 DEF Build, AfterBuild, At, Ops
  <2> QED
    BY <2>1 DEF Ahead, Stage
<1>5. CASE List(w)
  <2>1. op[w].at = "list" /\ op'[w].at = "catalogue"
    BY <1>0, <1>1, <1>5 DEF List, At, Ops
  <2> QED
    BY <2>1 DEF Ahead, Stage
<1>6. CASE Catalogue(w)
  <2>1. op[w].at = "catalogue"
    BY <1>6 DEF Catalogue, At
  <2>2. CASE Stop(w, "failed")
    BY <1>3, <2>1, <2>2 DEF Ended, Steps
  <2>3. ASSUME NEW r, Go(w, [op[w] EXCEPT !.at = "reduce", !.hand = r]) PROVE Ahead(w)
    BY <1>0, <1>1, <2>1, <2>3 DEF Ops, Ahead, At
  <2> QED
    BY <1>6, <2>2, <2>3 DEF Catalogue
<1>7. CASE Reduce(w)
  <2>1. op[w].at = "reduce" /\ op[w].hand \in op[w].refs
    BY <1>7 DEF Reduce, At, Shape
  <2>2. CASE Stop(w, "failed")
    BY <1>3, <2>1, <2>2 DEF Ended, Steps
  <2>3. ASSUME Go(w, [op[w] EXCEPT !.at = "catalogue", !.hand = None,
                                   !.refs = @ \ {op[w].hand}])
        PROVE  Ahead(w)
    BY <1>0, <1>1, <2>1, <2>3 DEF Ops, Ahead, At
  <2> QED
    BY <1>7, <2>2, <2>3 DEF Reduce
<1>8. CASE Catalogued(w)
  BY <1>0, <1>1, <1>8 DEF Catalogued, AfterSbom, At, Ops, Ahead, Stage
<1>9. CASE Diff(w) \/ AnyDocuments(w)
  <2>1. op[w].at \in {"diff", "documents"}
    BY <1>9 DEF Diff, AnyDocuments, At
  <2>2. CASE Stop(w, "failed")
    BY <1>3, <2>1, <2>2 DEF Ended, Steps
  <2>3. ASSUME ~Stop(w, "failed") PROVE Ahead(w)
    <3>1. \/ op[w].at = "diff" /\ op'[w].at = "documents"
          \/ op[w].at = "documents" /\ op'[w].at = "update"
      BY <1>0, <1>1, <1>9, <2>3 DEF Diff, AnyDocuments, At, Ops
    <3> QED
      BY <3>1 DEF Ahead, Stage
  <2> QED
    BY <2>2, <2>3
<1>10. CASE UpdateDb(w)
  <2>1. op[w].at = "update" /\ op'[w].at = "scan"
    BY <1>0, <1>1, <1>10 DEF UpdateDb, At, Ops
  <2> QED
    BY <2>1 DEF Ahead, Stage
<1>11. ASSUME Scan(w) \/ Compare(w) \/ Accept(w) PROVE Ahead(w)
  <2> DEFINE n == First(op[w].names)
  <2>1. n \in op[w].names
    BY <1>11, FirstIn DEF Scan, Compare, Accept
  <2>2. op[w].at \in {"scan", "compare", "accept"}
    BY <1>11 DEF Scan, Compare, Accept, At
  <2>3. op'[w].at = op[w].at /\ op'[w].names = op[w].names \ {n}
    <3> HIDE DEF n
    <3>1. CASE Scan(w)
      BY <1>0, <1>1, <3>1 DEF Scan, Ops, n
    <3>2. CASE Compare(w)
      BY <1>0, <1>1, <3>2 DEF Compare, Ops, n
    <3>3. CASE Accept(w)
      BY <1>0, <1>1, <3>3 DEF Accept, Ops, n
    <3> QED
      BY <1>11, <3>1, <3>2, <3>3
  <2> HIDE DEF n
  <2>4. op'[w].names \subseteq op[w].names /\ op'[w].names # op[w].names
    BY <2>1, <2>3
  <2> QED
    BY <2>2, <2>3, <2>4 DEF Ahead
<1>12. CASE Scanned(w)
  <2>1. op[w].at = "scan" /\ op'[w].at \in {"passed", "accept", "compare"}
    BY <1>0, <1>1, <1>12 DEF Scanned, AfterReport, At, Ops
  <2> QED
    BY <2>1 DEF Ahead, Stage
<1>13. CASE Compared(w) \/ Accepted(w)
  BY <1>3, <1>13 DEF Compared, Accepted, Verdict, At, Ended, Steps
<1>14. CASE Fail(w) \/ Tear(w)
  <2>1. Stop(w, "failed") /\ op[w].at \in Steps
    BY <1>0, <1>14 DEF Fail, Tear, Idle, At, Ops, Steps
  <2> QED
    BY <1>3, <2>1 DEF Ended
<1> QED
  BY <1>4, <1>5, <1>6, <1>7, <1>8, <1>9, <1>10, <1>11, <1>12, <1>13, <1>14 DEF Step

\* No recipe and no job goes round in circles: every step of one under way is a
\* later command, or the same loop with strictly less to do.  With fairness
\* that is why a job ends, which NewsIsReported relies on.
THEOREM NeverInCircles ==
  Spec => [][\A w \in Checkouts : ~Idle(w) /\ op'[w] # op[w] => Ahead(w)]_vars
<1> DEFINE Advances == \A w \in Checkouts : ~Idle(w) /\ op'[w] # op[w] => Ahead(w)
<1>1. ASSUME Inv, [Next]_vars PROVE [Advances]_vars
  <2> SUFFICES ASSUME NEW w \in Checkouts, ~Idle(w), op'[w] # op[w] PROVE Ahead(w)
    OBVIOUS
  <2>0. Dev \in Checkouts /\ Runner \in Checkouts
    BY DEF Checkouts
  <2>1. ASSUME NEW v \in Checkouts, Step(v) \/ Fail(v) \/ Tear(v) PROVE v = w
    <3>1. \A next : Go(v, next) => v = w
      BY <1>1 DEF Go, Inv, TypeOK
    <3>2. \A how : Stop(v, how) => v = w
      BY <3>1 DEF Stop
    <3> QED
      BY <2>1, <3>1, <3>2 DEF Step, Build, List, Catalogue, Reduce, Catalogued, Diff,
         AnyDocuments, UpdateDb, Scan, Scanned, Compare, Compared, Accept, Accepted, Fail, Tear
  <2>2. ASSUME NEW v \in Checkouts, NEW next, Idle(v), Go(v, next) PROVE FALSE
    BY <1>1, <2>2 DEF Go, Inv, TypeOK
  <2>3. ~Checkout /\ ~Discard /\ \A target \in DevTargets : ~Make(target)
    <3>1. op[Runner] = NoOp => Idle(Runner)
      BY DEF Idle, NoOp, Ended
    <3>2. ~Checkout
      BY <2>0, <2>2, <3>1 DEF Checkout
    <3>3. ~Discard
      BY <2>0, <2>2 DEF Discard
    <3>4. ASSUME NEW target \in DevTargets PROVE ~Make(target)
      BY <2>0, <2>2 DEF Make
    <3> QED
      BY <3>2, <3>3, <3>4
  <2>4. ~Edit /\ ~(\E n \in Names : Retire(n)) /\ ~(\E v \in Advisories : Publish(v))
        /\ ~(\E a, b \in BOOLEAN : Commit(a, b)) /\ ~UNCHANGED vars
    BY DEF Edit, Retire, Publish, Commit, vars
  <2> QED
    BY <1>1, <2>1, <2>3, <2>4, Stages DEF Next, Inv
<1> QED
  BY <1>1, Invariance, PTL DEF Spec
=============================================================================
