----------------------- MODULE SupplyExceptions_proofs -----------------------
(***************************************************************************)
(* The two promises the supply-chain job breaks, and what breaks them:     *)
(* the recipe that cannot list the images, and the inventory nobody added  *)
(* to git.  Without these the promises hold.                               *)
(***************************************************************************)
EXTENDS SupplyGate_proofs

\* When the step of the job that catalogues every image succeeds, it has either
\* catalogued every image or not a single one.
AllOrNothing ==
  At(Runner, "diff") =>
    Documents(Runner) = {} \/ \A r \in References(source[Runner]) : r.name \in Documents(Runner)

LEMMA DoneIsDocumented ==
  ASSUME Inv, AllDone, NEW r \in References(source[Runner])
  PROVE  r.name \in Documents(Runner) /\ doc[Runner][r.name] # None
<1>1. source[Runner] \in Composes
  BY DEF Inv, TypeOK, Checkouts
<1>2. r \in Refs
  BY <1>1, ComposeTypes
<1>3. Fetched(r)
  BY DEF AllDone, Done
<1>4. Resolved(Runner, r) \in Digests
  BY <1>2, <1>3 DEF Fetched, Resolved, Refs, Inv, TypeOK, Checkouts
<1>5. doc[Runner][r.name] # None
  BY <1>3, <1>4, ToolTypes DEF Fetched
<1> QED
  BY <1>2, <1>5 DEF Documents, Refs

\* Whatever fails or is edited, the catalogue of a job is never partial: the
\* loop ends at the first image it cannot do, and a list it could not read
\* leaves nothing for the next step to scan.
THEOREM NeverPartial == Spec => []AllOrNothing
<1>1. ASSUME Inv PROVE AllOrNothing
  <2>1. At(Runner, "diff") => doc[Runner] = NoFile \/ AllDone
    BY <1>1 DEF Inv, Job, At
  <2>2. doc[Runner] = NoFile => Documents(Runner) = {}
    BY DEF Documents, NoFile
  <2> QED
    BY <1>1, <2>1, <2>2, DoneIsDocumented DEF AllOrNothing
<1> QED
  BY <1>1, Invariance, PTL

\* Nothing fails by accident, and supply.images can read every compose file.
ReadableAlways == MaxMishaps = 0 /\ \A c \in Composes : Listable(c)

\* The loop of sbom has left to do exactly what it has not done.
Listed ==
  /\ At(Runner, "catalogue") => \A r \in References(source[Runner]) \ op[Runner].refs : Done(r)
  /\ At(Runner, "diff") => AllDone

\* The steps that lead to the catalogue, and from it to the diff.
LEMMA Reached ==
  ASSUME Inv, [Next]_vars, op'[Runner].at \in {"catalogue", "diff"}
  PROVE  \/ List(Runner) \/ Reduce(Runner) \/ Catalogued(Runner)
         \/ Here(Runner)' = Here(Runner)
<1>0. Runner \in Checkouts /\ Dev \in Checkouts /\ Dev # Runner /\ op[Runner] \in Ops
  BY SupplyAssumption DEF Checkouts, Inv, TypeOK
<1>1. ASSUME NEW w \in Checkouts \ {Runner}, Step(w) \/ Fail(w) \/ Tear(w)
      PROVE  Here(Runner)' = Here(Runner)
  <2>1. \A next : Go(w, next) => op'[Runner] = op[Runner]
    BY <1>0, <1>1 DEF Go, Inv, TypeOK
  <2>2. \A how : Stop(w, how) => op'[Runner] = op[Runner]
    BY <2>1 DEF Stop
  <2>3. op'[Runner] = op[Runner]
    BY <1>1, <2>1, <2>2 DEF Step, Build, List, Catalogue, Reduce, Catalogued, Diff, AnyDocuments,
       UpdateDb, Scan, Scanned, Compare, Compared, Accept, Accepted, Fail, Tear
  <2>4. /\ source'[Runner] = source[Runner] /\ local'[Runner] = local[Runner]
        /\ doc'[Runner] = doc[Runner] /\ report'[Runner] = report[Runner]
        /\ inventory'[Runner] = inventory[Runner] /\ known'[Runner] = known[Runner]
        /\ db'[Runner] = db[Runner]
    BY <1>0, <1>1 DEF Step, Build, List, Catalogue, Reduce, Catalogued, Diff, AnyDocuments,
       UpdateDb, Scan, Scanned, Compare, Compared, Accept, Accepted, Fail, Tear, files, Inv, TypeOK
  <2> QED
    BY <2>3, <2>4 DEF Here
<1>2. \A next : Go(Runner, next) => op'[Runner] = next
  BY <1>0 DEF Go, Inv, TypeOK
<1>3. \A how : Stop(Runner, how) => op'[Runner].at = how
  BY <1>0, <1>2 DEF Stop, Ops
<1>4. ASSUME Step(Runner)
      PROVE  List(Runner) \/ Reduce(Runner) \/ Catalogued(Runner)
  <2>1. CASE Build(Runner)
    BY <1>0, <1>2, <2>1 DEF Build, AfterBuild, Ops
  <2>2. CASE Catalogue(Runner)
    BY <1>0, <1>2, <1>3, <2>2 DEF Catalogue, Ops
  <2>3. CASE Diff(Runner) \/ AnyDocuments(Runner) \/ UpdateDb(Runner)
    BY <1>0, <1>2, <1>3, <2>3 DEF Diff, AnyDocuments, UpdateDb, Ops
  <2>4. CASE Scan(Runner) \/ Compare(Runner) \/ Accept(Runner)
    BY <1>0, <1>2, <2>4 DEF Scan, Compare, Accept, At, Ops
  <2>5. CASE Scanned(Runner)
    BY <1>0, <1>2, <2>5 DEF Scanned, AfterReport, Ops
  <2>6. CASE Compared(Runner) \/ Accepted(Runner)
    BY <1>3, <2>6 DEF Compared, Accepted, Verdict
  <2> QED
    BY <1>4, <2>1, <2>2, <2>3, <2>4, <2>5, <2>6 DEF Step
<1>5. ~Fail(Runner) /\ ~Tear(Runner)
  BY <1>3 DEF Fail, Tear
<1>6. ~Checkout /\ ~Discard
  <2>1. [NoOp EXCEPT !.target = "job", !.at = "build"].at = "build" /\ NoOp.at = "failed"
    BY DEF NoOp
  <2>2. ~Go(Runner, NoOp) /\ ~Go(Runner, [NoOp EXCEPT !.target = "job", !.at = "build"])
    BY <1>2, <2>1
  <2> QED
    BY <2>2 DEF Checkout, Discard
<1>7. ASSUME \/ \E target \in DevTargets : Make(target)
             \/ Edit
             \/ \E n \in Names : Retire(n)
             \/ \E a, b \in BOOLEAN : Commit(a, b)
             \/ \E v \in Advisories : Publish(v)
             \/ UNCHANGED vars
      PROVE  Here(Runner)' = Here(Runner)
  BY <1>0, <1>7 DEF Make, Go, Edit, Retire, Commit, Publish, vars, files, Here, Inv, TypeOK
<1> QED
  BY <1>1, <1>4, <1>5, <1>6, <1>7 DEF Next

\* "catalogue every image" is kept, unless the recipe could not list them: the
\* exit code of supply.images that nobody looks at is the only way to miss one.
THEOREM UnlistedIsTheException ==
  ASSUME ReadableAlways
  PROVE  Spec => []EveryImageCatalogued
<1>0. Runner \in Checkouts
  BY DEF Checkouts
<1>1. Init => Listed
  BY <1>0 DEF Init, Listed, At, NoOp
<1>2. ASSUME Inv, Inv', Listed, [Next]_vars
      PROVE  Listed'
  <2>0. op[Runner] \in Ops /\ source[Runner] \in Composes
    BY <1>0, <1>2 DEF Inv, TypeOK
  <2>1. CASE Here(Runner)' = Here(Runner)
    BY <1>2, <2>1 DEF Here, Listed, At, AllDone, Done, Fetched, Resolved
  <2>2. CASE List(Runner)
    <3>1. Go(Runner, [op[Runner] EXCEPT !.at = "catalogue", !.refs = References(source[Runner])])
      <4>1. Listable(source[Runner])
        BY <2>0, ReadableAlways DEF ReadableAlways
      <4>2. ~Mishap
        BY <1>2, ReadableAlways DEF ReadableAlways, Mishap, Inv, TypeOK
      <4> QED
        BY <2>2, <4>1, <4>2 DEF List
    <3>2. op'[Runner].at = "catalogue" /\ op'[Runner].refs = References(source[Runner])
      BY <1>0, <1>2, <2>0, <3>1 DEF Go, Inv, TypeOK, Ops
    <3> QED
      BY <2>2, <3>2 DEF List, Listed, At
  <2>3. CASE Reduce(Runner)
    <3>1. SUFFICES ASSUME op'[Runner].at \in {"catalogue", "diff"} PROVE Listed'
      BY DEF Listed, At
    <3>2. op'[Runner].at = "catalogue"
      <4> DEFINE next == [op[Runner] EXCEPT !.at = "catalogue", !.hand = None,
                                            !.refs = @ \ {op[Runner].hand}]
      <4>1. ~Stop(Runner, "failed")
        BY <1>0, <1>2, <3>1, StopAt DEF Inv, Ended
      <4>2. Go(Runner, next)
        BY <2>3, <4>1 DEF Reduce
      <4>3. op'[Runner] = next
        BY <1>0, <1>2, <4>2 DEF Go, Inv, TypeOK
      <4> QED
        BY <2>0, <4>3 DEF Ops
    <3>3. /\ op[Runner].hand.name \in Names
          /\ doc'[Runner][op[Runner].hand.name] # None
      <4>1. Shape(Runner) /\ At(Runner, "reduce")
        BY <1>0, <1>2, <2>3 DEF Inv, Reduce
      <4>2. op[Runner].hand.name \in Names /\ doc[Runner][op[Runner].hand.name] # None
        BY <4>1, SupplyAssumption DEF Shape, Refs, Entries
      <4> QED
        BY <2>3, <4>2 DEF Reduce
    <3>4. doc'[Runner] # NoFile
      BY <3>3 DEF NoFile
    <3> QED
      BY <1>2, <3>2, <3>4 DEF Inv, Job, Listed, At
  <2>4. CASE Catalogued(Runner)
    <3>1. AllDone
      BY <1>2, <2>4 DEF Catalogued, Listed, AllDone
    <3>2. AllDone'
      BY <2>4, <3>1 DEF Catalogued, files, AllDone, Done, Fetched, Resolved
    <3> QED
      BY <3>2 DEF Listed, AllDone
  <2>5. CASE op'[Runner].at \notin {"catalogue", "diff"}
    BY <2>5 DEF Listed, At
  <2> QED
    BY <1>2, <2>1, <2>2, <2>3, <2>4, <2>5, Reached
<1>3. ASSUME Inv, Listed PROVE EveryImageCatalogued
  BY <1>3, DoneIsDocumented DEF Listed, EveryImageCatalogued
<1> QED
  BY <1>1, <1>2, <1>3, Invariance, PTL DEF Spec
-----------------------------------------------------------------------------
(* The inventories *)

\* References are bumped and moved, but no image gets a name of its own that
\* the spine did not have.
NamesStay ==
  \A c, d \in Composes : {r.name : r \in References(c)} = {r.name : r \in References(d)}

\* Every inventory is there: with the developer, in the repository, and in the
\* commit the job is about.
Inventoried ==
  \A c \in Composes : \A r \in References(c) :
    /\ inventory[Dev][r.name] # None
    /\ committed.inventory[r.name] # None
    /\ head.inventory[r.name] # None

\* No step takes away an inventory of an image that is still named.
LEMMA StayInventoried ==
  ASSUME NamesStay, Inv, Inventoried, [Next]_vars
  PROVE  Inventoried'
<1> SUFFICES ASSUME NEW c \in Composes, NEW r \in References(c)
             PROVE  /\ inventory'[Dev][r.name] # None
                    /\ committed'.inventory[r.name] # None
                    /\ head'.inventory[r.name] # None
  BY DEF Inventoried
<1>0. /\ Dev \in Checkouts /\ Runner \in Checkouts /\ Dev # Runner /\ r.name \in Names
      /\ source[Dev] \in Composes
      /\ inventory \in [Checkouts -> [Names -> (SUBSET Packages) \cup {None}]]
  BY SupplyAssumption, ComposeTypes DEF Checkouts, Refs, Inv, TypeOK
<1>1. /\ inventory[Dev][r.name] # None
      /\ committed.inventory[r.name] # None
      /\ head.inventory[r.name] # None
  BY DEF Inventoried
<1>2. \A lines \in SUBSET Packages : lines # None
  BY SupplyAssumption
<1>3. CASE inventory'[Dev] = inventory[Dev] /\ committed' = committed /\ head' = head
  BY <1>1, <1>3
<1>4. ASSUME NEW w \in Checkouts, Reduce(w) \/ Tear(w)
      PROVE  inventory'[Dev][r.name] # None
  <2>1. CASE inventory'[w] = inventory[w] /\ \A v \in Checkouts \ {w} : inventory'[v] = inventory[v]
    BY <1>0, <1>1, <2>1
  <2>2. CASE /\ At(w, "reduce")
             /\ \E lines \in SUBSET Reduced(doc[w][op[w].hand.name]) :
                  inventory' = [inventory EXCEPT ![w][op[w].hand.name] = lines]
    <3>1. Reduced(doc[w][op[w].hand.name]) \subseteq Packages
      BY <2>2, ToolTypes DEF Inv, Shape
    <3>2. PICK lines \in SUBSET Packages :
            inventory' = [inventory EXCEPT ![w][op[w].hand.name] = lines]
      BY <2>2, <3>1
    <3>3. lines # None
      BY <1>2
    <3> QED
      BY <1>0, <1>1, <3>2, <3>3
  <2> QED
    BY <1>0, <1>4, <2>1, <2>2 DEF Reduce, Tear, repo
<1>5. ASSUME NEW w \in Checkouts, Step(w) \/ Fail(w) \/ Tear(w)
      PROVE  /\ committed' = committed /\ head' = head
             /\ Reduce(w) \/ Tear(w) \/ inventory' = inventory
  BY <1>5 DEF Step, Build, List, Catalogue, Reduce, Catalogued, Diff, AnyDocuments,
     UpdateDb, Scan, Scanned, Compare, Compared, Accept, Accepted, Fail, Tear, files, repo
<1>6. CASE Checkout
  BY <1>0, <1>1, <1>6 DEF Checkout
<1>7. CASE Discard
  BY <1>0, <1>3, <1>7 DEF Discard, repo
<1>8. ASSUME NEW n \in Names, Retire(n)
      PROVE  inventory'[Dev][r.name] # None /\ committed' = committed /\ head' = head
  <2>1. r.name \in {s.name : s \in References(source[Dev])}
    BY <1>0, NamesStay DEF NamesStay
  <2>2. r.name # n
    BY <1>8, <2>1 DEF Retire
  <2> QED
    BY <1>0, <1>1, <1>8, <2>2 DEF Retire
<1>9. ASSUME NEW a \in BOOLEAN, NEW b \in BOOLEAN, Commit(a, b)
      PROVE  /\ committed'.inventory[r.name] # None
             /\ inventory' = inventory /\ head' = head
  BY <1>0, <1>1, <1>9 DEF Commit, Staged, files
<1>10. ASSUME \/ \E target \in DevTargets : Make(target)
              \/ Edit
              \/ \E v \in Advisories : Publish(v)
              \/ UNCHANGED vars
       PROVE  inventory' = inventory /\ committed' = committed /\ head' = head
  BY <1>10 DEF Make, Edit, Publish, vars, files, repo
<1> QED
  BY <1>1, <1>3, <1>4, <1>5, <1>6, <1>7, <1>8, <1>9, <1>10 DEF Next

\* "the committed inventories still describe these images": a green job keeps
\* that promise as long as the spine gets no image of a new name.  git diff
\* does not speak of the untracked inventory of a new one; that is the only way.
THEOREM NewNamesAreTheException ==
  ASSUME NamesStay
  PROVE  Spec => []CommittedInventoriesDescribe
<1>1. ASSUME Init PROVE Inventoried
  <2>1. PICK compose \in Composes :
          LET named(n) == {r \in References(compose) : r.name = n}
              lines(n) == UNION {Contents[Digest(compose, r)] : r \in named(n)}
          IN  /\ \A r \in References(compose) : lines(r.name) # {}
              /\ committed =
                   [source |-> compose,
                    inventory |-> [n \in Names |-> IF named(n) = {} THEN None ELSE lines(n)],
                    known |-> [n \in Names |-> IF named(n) = {} THEN None ELSE {}]]
    BY <1>1 DEF Init
  <2>2. ASSUME NEW c \in Composes, NEW r \in References(c)
        PROVE  committed.inventory[r.name] # None
    <3> DEFINE named(n) == {s \in References(compose) : s.name = n}
               lines(n) == UNION {Contents[Digest(compose, s)] : s \in named(n)}
    <3>1. r.name \in Names
      BY ComposeTypes DEF Refs
    <3>2. r.name \in {s.name : s \in References(compose)}
      BY NamesStay DEF NamesStay
    <3>3. named(r.name) # {}
      BY <3>2
    <3>4. committed.inventory[r.name] = lines(r.name)
      <4>1. committed.inventory = [n \in Names |-> IF named(n) = {} THEN None ELSE lines(n)]
        BY <2>1
      <4> HIDE DEF named, lines
      <4> QED
        BY <3>1, <3>3, <4>1
    <3>5. \A s \in References(compose) : Contents[Digest(compose, s)] \in SUBSET Packages
      BY SourceContents
    <3>6. lines(r.name) \in SUBSET Packages
      BY <3>5
    <3> HIDE DEF lines
    <3> QED
      BY <3>4, <3>6, SupplyAssumption
  <2> QED
    BY <1>1, <2>2 DEF Init, Inventoried, Checkouts
<1>2. ASSUME Inv, Inventoried, TrackedInventoriesDescribe
      PROVE  CommittedInventoriesDescribe
  BY <1>2 DEF Inv, TypeOK, Checkouts, Inventoried, TrackedInventoriesDescribe,
     CommittedInventoriesDescribe
<1>3. Inv /\ Inventoried /\ [Next]_vars => Inventoried'
  BY StayInventoried
<1> QED
  BY <1>1, <1>2, <1>3, Invariance, GreenDescribes, PTL DEF Spec
=============================================================================
