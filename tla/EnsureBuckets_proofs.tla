------------------------ MODULE EnsureBuckets_proofs ------------------------
(***************************************************************************)
(* EnsureBuckets keeps BucketsPromise for any number of provisioners, any  *)
(* command lines and any number of attempts, runs and refusals.            *)
(***************************************************************************)
EXTENDS EnsureBuckets, TLAPS

\* What the promise calls Wanted.
Named(p) == {Argv[p][i] : i \in {j \in DOMAIN Argv[p] : Configured[p]}}

\* A provisioner in its loop was told what to do, has all the buckets before
\* the one it is at, and has that one too once the store said so.  An exit
\* code appears with the exit, and a one for a reason.
Shape(p, r) ==
  /\ r.pc = "exited" <=> r.code # Running
  /\ r.pc = "main" => r.at = 1
  /\ r.pc \in {"create", "await"} =>
       /\ Configured[p]
       /\ r.at \in 1..Len(Argv[p])
       /\ \A j \in 1..(r.at - 1) : Argv[p][j] \in buckets
  /\ r.pc = "await" /\ r.reply \in {"created"} \cup ALREADY_PRESENT
       => Argv[p][r.at] \in buckets
  /\ r.code = 1 => \/ r.reply = "refused"
                   \/ r.reply \in {"none", "lost"} /\ r.attempt = MaxAttempts

Inv ==
  /\ TypeOK
  /\ \A p \in Provisioners : Shape(p, prov[p])
  /\ \A b \in late : \E p \in Provisioners : b \in Named(p)

\* The command line of a provisioner is a sequence of bucket names.
LEMMA ArgvType ==
  ASSUME NEW p \in Provisioners
  PROVE  /\ Argv[p] \in Seq(Buckets)
         /\ Len(Argv[p]) \in Nat
         /\ DOMAIN Argv[p] = 1..Len(Argv[p])
         /\ \A i \in 1..Len(Argv[p]) : Argv[p][i] \in Buckets
         /\ Argv[p] # <<>> => Len(Argv[p]) >= 1
<1>1. Argv[p] \in Seq(Buckets)
  BY ProvisionersAssumption
<1> QED
  BY <1>1

\* A fresh run is well formed.
LEMMA FreshShape ==
  ASSUME NEW p \in Provisioners, NEW run \in Nat
  PROVE  Fresh(run) \in Provs /\ Shape(p, Fresh(run))
<1>1. Fresh(run) \in Provs
  BY ProvisionersAssumption DEF Fresh, Provs, Replies, Running, ExitCodes
<1>2. Shape(p, Fresh(run))
  BY DEF Fresh, Shape, Running
<1> QED
  BY <1>1, <1>2

\* Turning to the next bucket keeps the record in its set.
LEMMA NextBucket ==
  ASSUME NEW r \in Provs
  PROVE  [r EXCEPT !.pc = "create", !.at = @ + 1, !.attempt = 1, !.reply = "none"] \in Provs
<1> DEFINE at == r.at + 1
<1>1. at \in Nat \ {0} /\ 1 \in 1..MaxAttempts /\ "none" \in Replies
  BY ProvisionersAssumption DEF Provs, Replies
<1> HIDE DEF at
<1>2. [r EXCEPT !.pc = "create", !.at = at, !.attempt = 1, !.reply = "none"] \in Provs
  BY <1>1 DEF Provs
<1> QED
  BY <1>2 DEF at

\* A bucket under way is a bucket that was named.
LEMMA BucketNamed ==
  ASSUME Inv, NEW p \in Provisioners, prov[p].pc = "await"
  PROVE  Bucket(p) \in Named(p) /\ Bucket(p) \in Buckets
  BY ArgvType DEF Inv, Shape, Bucket, Named

-----------------------------------------------------------------------------
(* The invariant *)

\* A provisioner that moves to a record of the right shape disturbs no other.
LEMMA StepInv ==
  ASSUME Inv, NEW p \in Provisioners, NEW next \in Provs,
         Step(p, next), Shape(p, next), UNCHANGED late \/ Abandon(p)
  PROVE  Inv'
<1>1. /\ prov' \in [Provisioners -> Provs] /\ prov'[p] = next
      /\ \A q \in Provisioners : q # p => prov'[q] = prov[q]
      /\ buckets' = buckets /\ refusals' = refusals
  BY DEF Inv, TypeOK, Step
<1>2. \A b \in late' : b \in Buckets /\ \E q \in Provisioners : b \in Named(q)
  BY BucketNamed DEF Inv, TypeOK, Abandon
<1>3. ASSUME NEW q \in Provisioners PROVE Shape(q, prov[q])'
  <2>1. Shape(q, prov'[q])
    BY <1>1 DEF Inv
  <2> QED
    BY <1>1, <2>1 DEF Shape
<1>4. TypeOK'
  BY <1>1, <1>2 DEF Inv, TypeOK
<1>5. \A b \in late' : \E q \in Provisioners : b \in Named(q)'
  BY <1>2 DEF Named
<1> QED
  BY <1>3, <1>4, <1>5 DEF Inv

\* The store keeps what it has and adds the bucket of the call it serves.
LEMMA ServedType ==
  ASSUME Inv, NEW b \in Buckets, NEW answer \in Answers(b), Served(b, answer)
  PROVE  /\ buckets' \in SUBSET Buckets
         /\ buckets \subseteq buckets'
         /\ refusals' \in Nat
         /\ answer \in Replies
         /\ answer \in {"created"} \cup ALREADY_PRESENT => b \in buckets'
         /\ answer # "lost" /\ answer # "none"
  BY DEF Inv, TypeOK, Served, Answers, Replies, ALREADY_PRESENT

\* A record keeps its shape while buckets are added.
LEMMA ShapeGrows ==
  ASSUME NEW p \in Provisioners, NEW r, Shape(p, r), buckets \subseteq buckets'
  PROVE  Shape(p, r)'
  BY DEF Shape

LEMMA ServeInv ==
  ASSUME Inv, NEW p \in Provisioners, Serve(p)
  PROVE  Inv'
<1>1. Bucket(p) \in Buckets
  BY BucketNamed DEF Serve
<1>2. PICK answer \in Answers(Bucket(p)) :
        /\ Served(Bucket(p), answer)
        /\ \E reply \in {answer, "lost"} : prov' = [prov EXCEPT ![p].reply = reply]
  BY DEF Serve
<1>3. PICK reply \in {answer, "lost"} : prov' = [prov EXCEPT ![p].reply = reply]
  BY <1>2
<1>4. /\ buckets' \in SUBSET Buckets /\ buckets \subseteq buckets' /\ refusals' \in Nat
      /\ reply \in Replies
      /\ reply \in {"created"} \cup ALREADY_PRESENT => Bucket(p) \in buckets'
  BY <1>1, <1>2, <1>3, ServedType DEF Replies, ALREADY_PRESENT
<1>5. /\ prov[p] \in Provs /\ prov[p].pc = "await"
      /\ prov'[p] = [prov[p] EXCEPT !.reply = reply]
      /\ \A q \in Provisioners : q # p => prov'[q] = prov[q]
      /\ DOMAIN prov' = Provisioners
  BY <1>3 DEF Inv, TypeOK, Serve
<1>6. prov'[p] \in Provs
  BY <1>4, <1>5 DEF Provs
<1>7. TypeOK'
  <2>1. prov' \in [Provisioners -> Provs]
    BY <1>3, <1>5, <1>6 DEF Inv, TypeOK
  <2> QED
    BY <1>4, <2>1 DEF Inv, TypeOK, Serve
<1>8. Shape(p, prov[p])'
  <2>1. Shape(p, prov[p])
    BY DEF Inv
  <2>2. /\ prov'[p].pc = "await" /\ prov'[p].at = prov[p].at
        /\ prov'[p].code = prov[p].code /\ prov'[p].reply = reply
    BY <1>5 DEF Provs
  <2> QED
    BY <1>4, <1>5, <2>1, <2>2 DEF Shape, Bucket, Running
<1>9. ASSUME NEW q \in Provisioners PROVE Shape(q, prov[q])'
  <2>1. CASE q = p
    BY <1>8, <2>1
  <2>2. CASE q # p
    BY <1>4, <1>5, <2>2, ShapeGrows DEF Inv
  <2> QED
    BY <2>1, <2>2
<1> QED
  BY <1>7, <1>9 DEF Inv, Serve, Named

LEMMA ServeLateInv ==
  ASSUME Inv, NEW b \in late, ServeLate(b)
  PROVE  Inv'
<1>1. b \in Buckets
  BY DEF Inv, TypeOK
<1>2. PICK answer \in Answers(b) : Served(b, answer)
  BY DEF ServeLate
<1>3. buckets' \in SUBSET Buckets /\ buckets \subseteq buckets' /\ refusals' \in Nat
  BY <1>1, <1>2, ServedType
<1>4. \A q \in Provisioners : Shape(q, prov[q])'
  BY <1>3, ShapeGrows DEF Inv, ServeLate
<1>5. late' \subseteq late
  BY DEF ServeLate
<1> QED
  BY <1>3, <1>4, <1>5 DEF Inv, TypeOK, ServeLate, Named

LEMMA ProvisionerInv ==
  ASSUME Inv, NEW p \in Provisioners, Continue(p) \/ Kill(p) \/ RunAgain(p)
  PROVE  Inv'
<1> DEFINE r == prov[p]
<1>1. r \in Provs /\ Shape(p, r)
  BY DEF Inv, TypeOK
<1>2. ASSUME NEW c \in ExitCodes,
             c = 1 => \/ r.reply = "refused"
                      \/ r.reply \in {"none", "lost"} /\ r.attempt = MaxAttempts
      PROVE  LET next == [r EXCEPT !.pc = "exited", !.code = c]
             IN next \in Provs /\ Shape(p, next)
  <2> DEFINE next == [r EXCEPT !.pc = "exited", !.code = c]
  <2>1. next \in Provs
    BY <1>1 DEF Provs
  <2>2. /\ next.pc = "exited" /\ next.code = c /\ next.reply = r.reply
        /\ next.attempt = r.attempt
    BY <1>1 DEF Provs
  <2>3. c # Running
    BY DEF ExitCodes, Running
  <2>4. Shape(p, r)
    BY <1>1
  <2> HIDE DEF next, r
  <2>5. Shape(p, next)
    BY <1>2, <2>2, <2>3, <2>4 DEF Shape
  <2> QED
    BY <2>1, <2>5 DEF next
<1>3. ASSUME NEW c \in ExitCodes, Exit(p, c), UNCHANGED late \/ Abandon(p),
             c = 1 => \/ r.reply = "refused"
                      \/ r.reply \in {"none", "lost"} /\ r.attempt = MaxAttempts
      PROVE  Inv'
  BY <1>2, <1>3, StepInv DEF Exit
<1> USE DEF ExitCodes
<1>4. CASE Main(p)
  <2>1. CASE Exit(p, 2)
    BY <1>3, <1>4, <2>1 DEF Main
  <2>2. CASE Argv[p] # <<>> /\ Configured[p] /\ Step(p, [r EXCEPT !.pc = "create"])
    <3> DEFINE next == [r EXCEPT !.pc = "create"]
    <3>1. next \in Provs
      BY <1>1 DEF Provs
    <3>2. /\ next.pc = "create" /\ next.code = r.code /\ next.at = r.at
          /\ r.pc = "main"
      BY <1>1, <1>4 DEF Provs, Main
    <3>3. Shape(p, next)
      <4> HIDE DEF next
      <4> QED
        BY <1>1, <2>2, <3>2, ArgvType DEF Shape, Running
    <3> QED
      BY <1>4, <2>2, <3>1, <3>3, StepInv DEF Main
  <2> QED
    BY <1>4, <2>1, <2>2 DEF Main
<1>5. CASE CreateBucket(p)
  <2> DEFINE next == [r EXCEPT !.pc = "await", !.reply = "none"]
  <2>1. next \in Provs
    BY <1>1 DEF Provs, Replies
  <2>2. /\ next.pc = "await" /\ next.reply = "none" /\ next.code = r.code
        /\ next.at = r.at /\ r.pc = "create"
    BY <1>1, <1>5 DEF Provs, CreateBucket
  <2>3. Shape(p, next)
    <3> HIDE DEF next
    <3> QED
      BY <1>1, <2>2 DEF Shape, Running, ALREADY_PRESENT
  <2> QED
    BY <1>5, <2>1, <2>3, StepInv DEF CreateBucket
<1>6. CASE Ensured(p)
  <2> DEFINE next == [r EXCEPT !.pc = "create", !.at = @ + 1, !.attempt = 1, !.reply = "none"]
  <2>1. CASE Exit(p, 0)
    BY <1>3, <1>6, <2>1 DEF Ensured
  <2>2. CASE ~IsLast(p) /\ Step(p, next)
    <3>1. next \in Provs
      BY <1>1, NextBucket
    <3>2. /\ next.pc = "create" /\ next.code = r.code /\ next.at = r.at + 1
          /\ r.pc = "await" /\ r.at \in Nat
          /\ r.reply \in {"created"} \cup ALREADY_PRESENT
      BY <1>1, <1>6 DEF Provs, Ensured
    <3>3. /\ Configured[p] /\ r.at \in 1..Len(Argv[p]) /\ r.code = Running
          /\ \A j \in 1..(r.at - 1) : Argv[p][j] \in buckets
          /\ Argv[p][r.at] \in buckets
      BY <1>1, <3>2 DEF Shape
    <3>4. r.at + 1 \in 1..Len(Argv[p])
      BY <2>2, <3>3, ArgvType DEF IsLast
    <3>5. \A j \in 1..r.at : Argv[p][j] \in buckets
      BY <3>2, <3>3
    <3>6. Shape(p, next)
      <4> HIDE DEF next
      <4> QED
        BY <3>2, <3>3, <3>4, <3>5 DEF Shape, Running
    <3> QED
      BY <1>6, <2>2, <3>1, <3>6, StepInv DEF Ensured
  <2> QED
    BY <1>6, <2>1, <2>2 DEF Ensured
<1>7. CASE Raise(p)
  <2>1. r.reply = "refused"
    BY <1>1, <1>7 DEF Raise, Provs, Replies, ALREADY_PRESENT
  <2> QED
    BY <1>3, <1>7, <2>1 DEF Raise
<1>8. CASE TimesOut(p)
  <2> DEFINE next == [r EXCEPT !.pc = "create", !.attempt = @ + 1]
  <2>1. CASE Exit(p, 1) /\ r.attempt = MaxAttempts
    BY <1>3, <1>8, <2>1 DEF TimesOut
  <2>2. CASE r.attempt < MaxAttempts /\ Step(p, next)
    <3>1. r.attempt + 1 \in 1..MaxAttempts
      BY <1>1, <2>2, ProvisionersAssumption DEF Provs
    <3>2. next \in Provs
      BY <1>1, <3>1 DEF Provs
    <3>3. /\ next.pc = "create" /\ next.code = r.code /\ next.at = r.at /\ r.pc = "await"
      BY <1>1, <1>8 DEF Provs, TimesOut
    <3>4. Shape(p, next)
      <4> HIDE DEF next
      <4> QED
        BY <1>1, <3>3 DEF Shape, Running
    <3> QED
      BY <1>8, <2>2, <3>2, <3>4, StepInv DEF TimesOut
  <2> QED
    BY <1>8, <2>1, <2>2 DEF TimesOut
<1>9. CASE Kill(p)
  BY <1>3, <1>9 DEF Kill
<1>10. CASE RunAgain(p)
  <2>1. prov[p].run + 1 \in Nat
    BY <1>1 DEF Provs
  <2> QED
    BY <1>10, <2>1, FreshShape, StepInv DEF RunAgain
<1> QED
  BY <1>4, <1>5, <1>6, <1>7, <1>8, <1>9, <1>10 DEF Continue

\* The invariant holds in every reachable state.
THEOREM Invariance == Spec => []Inv
<1>1. Init => Inv
  <2> SUFFICES ASSUME Init PROVE Inv
    OBVIOUS
  <2>1. \A p \in Provisioners : prov[p] = Fresh(1)
    BY DEF Init
  <2>2. \A p \in Provisioners : Fresh(1) \in Provs /\ Shape(p, Fresh(1))
    BY FreshShape
  <2>3. TypeOK
    BY <2>2 DEF Init, TypeOK
  <2> QED
    BY <2>1, <2>2, <2>3 DEF Init, Inv
<1>2. Inv /\ [Next]_vars => Inv'
  <2> SUFFICES ASSUME Inv, [Next]_vars PROVE Inv'
    OBVIOUS
  <2>1. CASE UNCHANGED vars
    BY <2>1 DEF vars, Inv, TypeOK, Shape, Named
  <2> QED
    BY <2>1, ServeInv, ServeLateInv, ProvisionerInv DEF Next
<1> QED
  BY <1>1, <1>2, PTL DEF Spec

\* Every variable stays in its set, for every choice of the constants.
THEOREM TypeCorrect == Spec => []TypeOK
<1>1. Inv => TypeOK
  BY DEF Inv
<1> QED
  BY <1>1, Invariance, PTL

\* No run fails for having lost a race, to another provisioner or to its own
\* earlier attempt.
THEOREM NoRaceFails == Spec => []RacesAreHarmless
<1>1. Inv => RacesAreHarmless
  BY DEF Inv, Shape, RacesAreHarmless
<1> QED
  BY <1>1, Invariance, PTL

-----------------------------------------------------------------------------
(* The promise *)

\* The exit codes, as the promise sees them.
codes == [p \in Provisioners |-> prov[p].code]

\* A call served for somebody creates its bucket or changes nothing.
LEMMA StoreImplements ==
  ASSUME Inv, NEW b \in Buckets, \E q \in Provisioners : b \in Named(q),
         \E answer \in Answers(b) : Served(b, answer), codes' = codes
  PROVE  Promise!Next \/ UNCHANGED <<buckets, codes>>
<1>1. buckets' = buckets \cup {b} \/ buckets' = buckets
  BY DEF Served
<1>2. CASE buckets' = buckets \cup {b}
  <2>1. Promise!Create(b)
    BY <1>2 DEF Promise!Create, Named, codes
  <2> QED
    BY <2>1 DEF Promise!Next
<1> QED
  BY <1>1, <1>2

\* A step of one provisioner changes its code and no other.
LEMMA StepCodes ==
  ASSUME Inv, NEW p \in Provisioners, NEW next \in Provs, Step(p, next)
  PROVE  codes' = [codes EXCEPT ![p] = next.code] /\ buckets' = buckets
<1>1. prov' \in [Provisioners -> Provs] /\ prov' = [prov EXCEPT ![p] = next]
  BY DEF Inv, TypeOK, Step
<1> QED
  BY <1>1 DEF codes, Inv, TypeOK, Step

\* An exit for a reason is a Finish of the promise.
LEMMA ExitImplements ==
  ASSUME Inv, NEW p \in Provisioners, NEW c \in ExitCodes, Exit(p, c),
         prov[p].pc # "exited",
         c = 0 => Named(p) # {} /\ Named(p) \subseteq buckets,
         c = 2 <=> Named(p) = {} /\ c # 137
  PROVE  Promise!Next
<1> DEFINE next == [prov[p] EXCEPT !.pc = "exited", !.code = c]
<1>1. prov[p] \in Provs /\ prov[p].code = Running
  BY DEF Inv, TypeOK, Shape
<1>2. next \in Provs /\ next.code = c
  BY <1>1 DEF Provs
<1>3. codes' = [codes EXCEPT ![p] = c] /\ buckets' = buckets
  BY <1>2, StepCodes DEF Exit
<1>4. codes[p] = -1
  BY <1>1 DEF codes, Running
<1>5. Promise!Finish(p)
  BY <1>3, <1>4 DEF Promise!Finish, Promise!ExitCodes, Promise!Running, ExitCodes, codes, Named
<1> QED
  BY <1>5 DEF Promise!Next

\* A step that leaves the code alone is invisible in the promise.
LEMMA SilentImplements ==
  ASSUME Inv, NEW p \in Provisioners, NEW next \in Provs, Step(p, next),
         next.code = prov[p].code
  PROVE  UNCHANGED <<buckets, codes>>
  BY StepCodes DEF codes

\* What is known of a provisioner in its loop.
LEMMA InLoop ==
  ASSUME Inv, NEW p \in Provisioners, prov[p].pc \in {"create", "await"}
  PROVE  Named(p) # {}
  BY ArgvType DEF Inv, Shape, Named

LEMMA ProvisionerImplements ==
  ASSUME Inv, NEW p \in Provisioners, Continue(p) \/ Kill(p) \/ RunAgain(p)
  PROVE  Promise!Next \/ UNCHANGED <<buckets, codes>>
<1> DEFINE r == prov[p]
<1>1. r \in Provs /\ Shape(p, r)
  BY DEF Inv, TypeOK
<1>2. CASE Main(p)
  <2>1. CASE Exit(p, 2) /\ (Argv[p] = <<>> \/ ~Configured[p])
    <3>1. Named(p) = {}
      BY <2>1, ArgvType DEF Named
    <3> QED
      BY <1>2, <2>1, <3>1, ExitImplements DEF Main, ExitCodes
  <2>2. CASE Step(p, [r EXCEPT !.pc = "create"])
    <3>1. [r EXCEPT !.pc = "create"] \in Provs /\ [r EXCEPT !.pc = "create"].code = r.code
      BY <1>1 DEF Provs
    <3> QED
      BY <2>2, <3>1, SilentImplements
  <2> QED
    BY <1>2, <2>1, <2>2 DEF Main
<1>3. CASE CreateBucket(p)
  <2> DEFINE next == [r EXCEPT !.pc = "await", !.reply = "none"]
  <2>1. next \in Provs /\ next.code = r.code
    BY <1>1 DEF Provs, Replies
  <2> QED
    BY <1>3, <2>1, SilentImplements DEF CreateBucket
<1>4. CASE Ensured(p)
  <2> DEFINE next == [r EXCEPT !.pc = "create", !.at = @ + 1, !.attempt = 1, !.reply = "none"]
  <2>1. CASE Exit(p, 0) /\ IsLast(p)
    <3>1. /\ r.at = Len(Argv[p]) /\ Argv[p][r.at] \in buckets
          /\ \A j \in 1..(r.at - 1) : Argv[p][j] \in buckets
      BY <1>1, <1>4, <2>1 DEF Ensured, IsLast, Shape
    <3>2. \A j \in 1..Len(Argv[p]) : Argv[p][j] \in buckets
      BY <3>1, ArgvType
    <3>3. Named(p) \subseteq buckets
      BY <3>2, ArgvType DEF Named
    <3>4. Named(p) # {} /\ r.pc # "exited"
      BY <1>4, InLoop DEF Ensured
    <3> QED
      BY <2>1, <3>3, <3>4, ExitImplements DEF ExitCodes
  <2>2. CASE Step(p, next)
    <3>1. next \in Provs /\ next.code = r.code
      BY <1>1, NextBucket DEF Provs
    <3> QED
      BY <2>2, <3>1, SilentImplements
  <2> QED
    BY <1>4, <2>1, <2>2 DEF Ensured
<1>5. CASE Raise(p)
  BY <1>5, InLoop, ExitImplements DEF Raise, ExitCodes
<1>6. CASE TimesOut(p)
  <2> DEFINE next == [r EXCEPT !.pc = "create", !.attempt = @ + 1]
  <2>1. CASE Exit(p, 1)
    BY <1>6, <2>1, InLoop, ExitImplements DEF TimesOut, ExitCodes
  <2>2. CASE r.attempt < MaxAttempts /\ Step(p, next)
    <3>1. r.attempt + 1 \in 1..MaxAttempts
      BY <1>1, <2>2, ProvisionersAssumption DEF Provs
    <3>2. next \in Provs /\ next.code = r.code
      BY <1>1, <3>1 DEF Provs
    <3> QED
      BY <2>2, <3>2, SilentImplements
  <2> QED
    BY <1>6, <2>1, <2>2 DEF TimesOut
<1>7. CASE Kill(p)
  BY <1>7, ExitImplements DEF Kill, ExitCodes
<1>8. CASE RunAgain(p)
  <2>1. r.run + 1 \in Nat /\ r.code # Running
    BY <1>1, <1>8 DEF Provs, RunAgain, Shape
  <2>2. Fresh(r.run + 1) \in Provs /\ Fresh(r.run + 1).code = Running
    BY <2>1, FreshShape DEF Fresh
  <2>3. codes' = [codes EXCEPT ![p] = Running] /\ buckets' = buckets
    BY <1>8, <2>2, StepCodes DEF RunAgain
  <2>4. Promise!Rerun(p)
    BY <2>1, <2>3 DEF Promise!Rerun, Promise!Running, Running, codes
  <2> QED
    BY <2>4 DEF Promise!Next
<1> QED
  BY <1>2, <1>3, <1>4, <1>5, <1>6, <1>7, <1>8 DEF Continue

\* EnsureBuckets implements BucketsPromise: the exit codes mean what their
\* readers take them to mean.
THEOREM KeepsPromise == Spec => PromiseKept
<1>1. Init => Promise!Init
  BY DEF Init, Promise!Init, Fresh, Running, Promise!Running
<1>2. Inv /\ [Next]_vars => [Promise!Next]_<<buckets, codes>>
  <2> SUFFICES ASSUME Inv, [Next]_vars
               PROVE  [Promise!Next]_<<buckets, codes>>
    OBVIOUS
  <2>1. CASE UNCHANGED vars
    BY <2>1 DEF vars, codes
  <2>2. ASSUME NEW b \in late, ServeLate(b) PROVE Promise!Next \/ UNCHANGED <<buckets, codes>>
    BY <2>2, StoreImplements DEF Inv, TypeOK, ServeLate, codes
  <2>3. ASSUME NEW p \in Provisioners, Serve(p)
        PROVE  Promise!Next \/ UNCHANGED <<buckets, codes>>
    <3>1. codes' = codes
      BY <2>3 DEF Inv, TypeOK, Serve, Provs, codes
    <3> QED
      BY <2>3, <3>1, BucketNamed, StoreImplements DEF Serve
  <2>4. ASSUME NEW p \in Provisioners, Continue(p) \/ Kill(p) \/ RunAgain(p)
        PROVE  Promise!Next \/ UNCHANGED <<buckets, codes>>
    BY <2>4, ProvisionerImplements
  <2> QED
    BY <2>1, <2>2, <2>3, <2>4 DEF Next
<1>3. <<buckets, codes>> = <<buckets, [p \in Provisioners |-> prov[p].code]>>
  BY DEF codes
<1> QED
  BY <1>1, <1>2, Invariance, PTL DEF Spec, PromiseKept, Promise!Spec, codes
-----------------------------------------------------------------------------
(* Coming to an end                                                        *)

Stage == [main |-> 0, create |-> 1, await |-> 2, exited |-> 3]

\* The next bucket, the next attempt, the next step of one, or an answer to it.
Later(was, now) ==
  \/ now.at = was.at + 1
  \/ now.at = was.at /\ now.attempt = was.attempt + 1
  \/ /\ now.at = was.at /\ now.attempt = was.attempt
     /\ \/ Stage[now.pc] > Stage[was.pc]
        \/ now.pc = was.pc /\ was.reply = "none" /\ now.reply # "none"

\* One step of a run.
LEMMA StepIsLater ==
  ASSUME Inv, NEW p \in Provisioners, Serve(p) \/ Continue(p) \/ Kill(p)
  PROVE  Later(prov[p], prov'[p])
<1> DEFINE r == prov[p]
<1>1. r \in Provs
  BY DEF Inv, TypeOK
<1>2. ASSUME NEW next, Step(p, next) PROVE prov'[p] = next
  BY <1>2 DEF Step, Inv, TypeOK
<1>3. ASSUME NEW code, Exit(p, code), r.pc # "exited" PROVE Later(r, prov'[p])
  <2>1. prov'[p] = [r EXCEPT !.pc = "exited", !.code = code]
    BY <1>2, <1>3 DEF Exit
  <2>2. prov'[p].at = r.at /\ prov'[p].attempt = r.attempt /\ prov'[p].pc = "exited"
    BY <1>1, <2>1 DEF Provs
  <2>3. r.pc \in {"main", "create", "await"}
    BY <1>1, <1>3 DEF Provs
  <2> QED
    BY <2>2, <2>3 DEF Later, Stage
<1>4. CASE Serve(p)
  <2>1. PICK reply \in Answers(Bucket(p)) \cup {"lost"} :
          prov' = [prov EXCEPT ![p].reply = reply]
    BY <1>4 DEF Serve
  <2>2. reply # "none" /\ r.reply = "none"
    BY <1>4, <2>1 DEF Serve, Answers
  <2>3. prov'[p] = [r EXCEPT !.reply = reply]
    BY <2>1 DEF Inv, TypeOK
  <2>4. /\ prov'[p].at = r.at /\ prov'[p].attempt = r.attempt /\ prov'[p].pc = r.pc
        /\ prov'[p].reply = reply
    BY <1>1, <2>3 DEF Provs
  <2> QED
    BY <2>2, <2>4 DEF Later
<1>5. CASE Main(p)
  <2>1. CASE Exit(p, 2)
    BY <1>3, <1>5, <2>1 DEF Main
  <2>2. CASE Step(p, [r EXCEPT !.pc = "create"])
    <3>1. prov'[p].at = r.at /\ prov'[p].attempt = r.attempt /\ prov'[p].pc = "create"
      BY <1>1, <1>2, <2>2 DEF Provs
    <3>2. r.pc = "main"
      BY <1>5 DEF Main
    <3> QED
      BY <3>1, <3>2 DEF Later, Stage
  <2> QED
    BY <1>5, <2>1, <2>2 DEF Main
<1>6. CASE CreateBucket(p)
  <2>1. prov'[p].at = r.at /\ prov'[p].attempt = r.attempt /\ prov'[p].pc = "await"
    BY <1>1, <1>2, <1>6 DEF CreateBucket, Provs
  <2>2. r.pc = "create"
    BY <1>6 DEF CreateBucket
  <2> QED
    BY <2>1, <2>2 DEF Later, Stage
<1>7. CASE Ensured(p)
  <2>1. CASE Exit(p, 0)
    BY <1>3, <1>7, <2>1 DEF Ensured
  <2>2. CASE Step(p, [r EXCEPT !.pc = "create", !.at = @ + 1, !.attempt = 1, !.reply = "none"])
    <3>1. prov'[p].at = r.at + 1
      BY <1>1, <1>2, <2>2 DEF Provs
    <3> QED
      BY <3>1 DEF Later
  <2> QED
    BY <1>7, <2>1, <2>2 DEF Ensured
<1>8. CASE TimesOut(p)
  <2>1. CASE Exit(p, 1)
    BY <1>3, <1>8, <2>1 DEF TimesOut
  <2>2. CASE Step(p, [r EXCEPT !.pc = "create", !.attempt = @ + 1])
    <3>1. prov'[p].at = r.at /\ prov'[p].attempt = r.attempt + 1
      BY <1>1, <1>2, <2>2 DEF Provs
    <3> QED
      BY <3>1 DEF Later
  <2> QED
    BY <1>8, <2>1, <2>2 DEF TimesOut
<1>9. CASE Raise(p) \/ Kill(p)
  BY <1>3, <1>9 DEF Raise, Kill
<1> QED
  BY <1>4, <1>5, <1>6, <1>7, <1>8, <1>9 DEF Continue

\* A run makes at most MaxAttempts calls for each bucket it was told to create,
\* and is never at one of them again: whatever the store does, an exit is at
\* most that far away.  With fairness that is why RunsEnd holds.
THEOREM CallsAreCounted ==
  Spec => [][\A p \in Provisioners : prov[p].pc # "exited" /\ prov'[p] # prov[p] =>
               /\ Later(prov[p], prov'[p])
               /\ prov'[p].pc \in {"create", "await"} =>
                    /\ prov'[p].at \in 1..Len(Argv[p])
                    /\ prov'[p].attempt \in 1..MaxAttempts]_vars
<1> DEFINE Counted ==
      \A p \in Provisioners : prov[p].pc # "exited" /\ prov'[p] # prov[p] =>
        /\ Later(prov[p], prov'[p])
        /\ prov'[p].pc \in {"create", "await"} =>
             /\ prov'[p].at \in 1..Len(Argv[p])
             /\ prov'[p].attempt \in 1..MaxAttempts
<1>1. ASSUME Inv, Inv', [Next]_vars PROVE [Counted]_vars
  <2> SUFFICES ASSUME NEW p \in Provisioners, prov[p].pc # "exited", prov'[p] # prov[p]
               PROVE  /\ Later(prov[p], prov'[p])
                      /\ prov'[p].pc \in {"create", "await"} =>
                           /\ prov'[p].at \in 1..Len(Argv[p])
                           /\ prov'[p].attempt \in 1..MaxAttempts
    OBVIOUS
  <2>1. Serve(p) \/ Continue(p) \/ Kill(p)
    <3>1. ASSUME NEW q \in Provisioners, NEW next, Step(q, next) PROVE q = p
      BY <1>1, <3>1 DEF Step, Inv, TypeOK
    <3>2. ASSUME NEW q \in Provisioners, Serve(q) PROVE q = p
      BY <1>1, <3>2 DEF Serve, Inv, TypeOK
    <3>3. ASSUME NEW q \in Provisioners, Continue(q) \/ Kill(q) \/ RunAgain(q)
          PROVE  q = p
      BY <3>1, <3>3 DEF Continue, Main, CreateBucket, Ensured, Raise, TimesOut, Kill, RunAgain,
                        Exit
    <3>4. ~RunAgain(p) /\ ~(\E b \in late : ServeLate(b)) /\ ~UNCHANGED vars
      BY DEF RunAgain, ServeLate, vars
    <3> QED
      BY <1>1, <3>2, <3>3, <3>4 DEF Next
  <2>2. prov'[p] \in Provs /\ Shape(p, prov[p])'
    BY <1>1 DEF Inv, TypeOK
  <2> QED
    BY <1>1, <2>1, <2>2, StepIsLater DEF Shape, Provs
<1> QED
  BY <1>1, Invariance, PTL DEF Spec
=============================================================================
