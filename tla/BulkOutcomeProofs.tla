------------------------- MODULE BulkOutcomeProofs -------------------------
(***************************************************************************)
(* Proofs about what a bulk request leaves behind, for every list of       *)
(* operations.                                                             *)
(*                                                                         *)
(* The argument is about time.  A use runs after everything that its       *)
(* references need (ReferencesSettled), and a fixup runs as soon as all    *)
(* that its resource needs has run (PendingShape).  So a resource that is  *)
(* settled has no fixup left that could fail and, as all it needs is       *)
(* settled too, refers to nothing that can still be taken back.  Only the  *)
(* settled is referred to by PUT and PATCH.                                *)
(***************************************************************************)
EXTENDS BulkProofs

-----------------------------------------------------------------------------
(* What is constant while a request runs *)

LEMMA SameRequest ==
  ASSUME UNCHANGED ops
  PROVE  /\ Index' = Index /\ Ids' = Ids /\ Declared' = Declared /\ Distinct' = Distinct
         /\ \A b : Producer(b)' = Producer(b)
         /\ \A x : IsPost(x)' = IsPost(x) /\ Kind(x)' = Kind(x)
         /\ \A x, S : Complete(x, S)' = Complete(x, S)
<1>1. Index' = Index /\ \A z : IsPost(z)' = IsPost(z)
  BY DEF Index, IsPost
<1>2. \A b : Producers(b)' = Producers(b)
  BY <1>1 DEF Producers
<1>3. Declared' = Declared /\ \A b : Producer(b)' = Producer(b)
  BY <1>2 DEF Declared, Producer
<1>4. Distinct' = Distinct
  BY <1>2 DEF Distinct
<1>5. \A x, y : Needs(x, y)' = Needs(x, y)
  BY GraphKept
<1>6. \A x, S : Complete(x, S)' = Complete(x, S)
  BY <1>1, <1>5 DEF Complete
<1> QED
  BY <1>1, <1>3, <1>4, <1>6 DEF Ids, Kind

\* A bulkId that is declared once has one producer.
LEMMA OneProducer ==
  ASSUME ops \in Inputs, Distinct, NEW i \in Index, IsPost(i), ops[i].bulkId \in BulkId
  PROVE  /\ Producer(ops[i].bulkId) = i /\ ops[i].bulkId \in Declared
         /\ \A j \in Index : IsPost(j) /\ ops[j].bulkId = ops[i].bulkId => j = i
<1> DEFINE b == ops[i].bulkId
           P == Producers(b)
<1>1. i \in P /\ P \in SUBSET Index /\ Cardinality(P) <= 1
  BY DEF Producers, Distinct
<1>2. IsFiniteSet(P) /\ Cardinality(P) \in Nat
  BY <1>1, Operations, FS_Subset, FS_CardinalityType
<1>3. ASSUME NEW j \in P PROVE j = i
  <2>1. IsFiniteSet(P \ {i}) /\ Cardinality(P \ {i}) = Cardinality(P) - 1
    BY <1>1, <1>2, FS_RemoveElement
  <2>2. Cardinality(P \ {i}) = 0
    BY <1>1, <1>2, <2>1, FS_CardinalityType
  <2>3. P \ {i} = {}
    BY <2>1, <2>2, FS_EmptySet
  <2> QED
    BY <2>3
<1>4. Min(P) = i
  <2>1. P \in SUBSET Nat /\ P # {}
    BY <1>1 DEF Index
  <2>2. Min(P) \in P
    BY <2>1, MinIsLeast
  <2> QED
    BY <1>3, <2>2
<1> QED
  BY <1>1, <1>3, <1>4 DEF Producer, Declared, Producers

\* A POST that refers to a bulkId needs its producer.
LEMMA ReferenceIsNeed ==
  ASSUME ops \in Inputs, Distinct, NEW i \in Index, ops[i].form = "fine",
         NEW p \in Index, IsPost(p), ops[p].bulkId \in BulkId,
         ops[p].bulkId \in ops[i].refs \/ ops[p].bulkId = ops[i].target
  PROVE  Needs(i, p)
<1>1. Producer(ops[p].bulkId) = p /\ ops[p].bulkId \in Declared
  BY OneProducer
<1>2. p \in DirectDeps(i)
  BY <1>1 DEF DirectDeps, Refs
<1> QED
  BY <1>2 DEF Needs

\* The code's test and Complete are one.
LEMMA ClosureComplete ==
  ASSUME ops \in Inputs, NEW x \in Index, NEW S
  PROVE  producerClosure(x) \subseteq S <=> Complete(x, S)
<1> DEFINE T == {x} \union {y \in Index : Needs(x, y)}
<1>1. producerClosure(x) \subseteq T
  <2>1. x \in T
    OBVIOUS
  <2>2. ASSUME NEW i \in T, NEW d \in DirectDeps(i) PROVE d \in T
    <3>1. d \in Index
      BY DepsArePosts
    <3>2. Needs(i, d)
      BY <3>1 DEF Needs
    <3>3. Needs(x, d)
      BY <3>2, NeedsTransitive
    <3> QED
      BY <3>1, <3>3
  <2> HIDE DEF T
  <2> QED
    BY <2>1, <2>2, ClosureIsLeast
<1>2. T \subseteq producerClosure(x)
  <2>1. x \in producerClosure(x)
    BY ClosureIsClosed
  <2>2. ASSUME NEW y \in Index, Needs(x, y) PROVE y \in producerClosure(x)
    <3>1. PICK d \in DirectDeps(x) : y \in producerClosure(d)
      BY <2>2, ClosureIsNeeds
    <3>2. d \in producerClosure(x) /\ \A i \in producerClosure(x) : DirectDeps(i) \subseteq producerClosure(x)
      BY ClosureIsClosed
    <3>3. producerClosure(d) \subseteq producerClosure(x)
      BY <3>1, <3>2, DepsArePosts, ClosureIsLeast
    <3> QED
      BY <3>1, <3>3
  <2> QED
    BY <2>1, <2>2
<1>3. producerClosure(x) \subseteq S <=> T \subseteq S
  BY <1>1, <1>2
<1> QED
  BY <1>3 DEF Complete

LEMMA CompleteGrows ==
  ASSUME NEW x, NEW S, NEW T, S \subseteq T, Complete(x, S)
  PROVE  Complete(x, T)
  BY DEF Complete

\* An operation that is no POST completes nothing but itself.
LEMMA OnlyPostsComplete ==
  ASSUME ops \in Inputs, NEW x \in Index, NEW S, NEW i, ~IsPost(i), x # i,
         Complete(x, S \union {i})
  PROVE  Complete(x, S)
  BY NeedsPosts DEF Complete

\* What is complete is complete in all that it needs.
LEMMA NeedsOfComplete ==
  ASSUME NEW x, NEW S, Complete(x, S), NEW y \in Index, Needs(x, y)
  PROVE  Complete(y, S)
  BY NeedsTransitive DEF Complete
-----------------------------------------------------------------------------
(* Fixups after an operation *)

LEMMA AfterOperationSplits ==
  ASSUME NEW X, NEW i, NEW f \in Seq(X), AfterOperation(i, f)
  PROVE  /\ Elements(fixups') \union Elements(ready') = Elements(f)
         /\ \A x \in Elements(fixups') : ~IsReady(x, Ran \union {i})
         /\ (pc' = "loop" /\ ready' = <<>>) \/ pc' = "fix"
<1> DEFINE pending == {f[k] : k \in DOMAIN f}
           due == {j \in pending : IsReady(j, Ran \union {i})}
           now == Chosen(f, due)
           later == Chosen(f, pending \ due)
<1>1. /\ ready' = now /\ fixups' = IF now = <<>> THEN f ELSE later
      /\ pc' = IF now = <<>> THEN "loop" ELSE "fix"
  BY Zenon DEF AfterOperation
<1>2. Elements(now) = Elements(f) \intersect due
  BY ChosenElements
<1>3. Elements(later) = Elements(f) \intersect (pending \ due)
  BY ChosenElements
<1>4. Elements(f) = pending
  BY DEF Elements
<1>5. \A x \in pending \ due : ~IsReady(x, Ran \union {i})
  OBVIOUS
<1>6. due \subseteq pending
  OBVIOUS
<1>7. Elements(<<>>) = {}
  BY DEF Elements
<1> HIDE DEF pending, due, now, later
<1>8. CASE now = <<>>
  <2>1. due = {} /\ fixups' = f /\ ready' = <<>> /\ pc' = "loop"
    BY <1>1, <1>2, <1>4, <1>6, <1>7, <1>8
  <2> QED
    BY <1>4, <1>5, <1>7, <2>1
<1>9. CASE now # <<>>
  <2>1. fixups' = later /\ ready' = now /\ pc' = "fix"
    BY <1>1, <1>9
  <2> QED
    BY <1>2, <1>3, <1>4, <1>5, <1>6, <2>1
<1> QED
  BY <1>8, <1>9
-----------------------------------------------------------------------------
(* What a step of the control does to what has run and what is settled *)

LEMMA RanInIndex ==
  ASSUME IndInv
  PROVE  Ran \subseteq Index /\ created \subseteq Index /\ ops \in Inputs
<1>1. order \in Seq(Index) /\ ran \in 0 .. Len(order) /\ ops \in Inputs /\ created \subseteq Ran
  BY DEF IndInv, OrderInv, OrderShape, AnswerShape
<1>2. \A k \in 1 .. ran : order[k] \in Index
  BY <1>1
<1> QED
  BY <1>1, <1>2 DEF Ran

LEMMA PassedGrows ==
  ASSUME OrderShape, UNCHANGED <<ops, order, ran>>,
         InPass' /\ ~last' => InPass /\ ~last
  PROVE  /\ Ran' = Ran /\ Passed \subseteq Passed' /\ Settled \subseteq Settled'
         /\ (InPass /\ ~last => InPass' /\ ~last') => Passed' = Passed /\ Settled' = Settled
<1>1. ran \in Nat /\ \A k : k \in 1 .. ran - 1 => k \in 1 .. ran
  BY DEF OrderShape
<1>2. Ran' = Ran
  BY DEF Ran
<1>3. Passed = IF InPass /\ ~last THEN {order[k] : k \in 1 .. ran - 1} ELSE {order[k] : k \in 1 .. ran}
  BY DEF Passed
<1>4. Passed' = IF InPass' /\ ~last' THEN {order[k] : k \in 1 .. ran - 1} ELSE {order[k] : k \in 1 .. ran}
  BY DEF Passed
<1>5. Passed \subseteq Passed'
  BY <1>1, <1>3, <1>4
<1>6. Settled' = {x \in Index : Complete(x, Passed')}
  BY SameRequest DEF Settled
<1>7. Settled \subseteq Settled'
  BY <1>5, <1>6, CompleteGrows DEF Settled
<1>8. (InPass /\ ~last => InPass' /\ ~last') => Passed' = Passed
  BY <1>3, <1>4
<1> QED
  BY <1>2, <1>5, <1>6, <1>7, <1>8 DEF Settled

LEMMA TurnPasses ==
  ASSUME IndInv, OutcomeInv, NEW i \in Index, Turn(i), pc' \in {"loop", "fix"}
  PROVE  /\ UNCHANGED <<ops, order, others>> /\ ~last /\ ~last' /\ ready = <<>>
         /\ i \notin Ran /\ Ran' = Ran \union {i} /\ Passed = Ran
         /\ i \notin created
         /\ Passed' = IF pc' = "fix" THEN Ran ELSE Ran \union {i}
         /\ Settled \subseteq Settled'
         /\ \A x \in Index : Complete(x, Ran) => x \in Settled
         /\ \A x \in Settled' : Complete(x, Passed')
<1>1. /\ pc = "loop" /\ ran' = ran + 1 /\ i = order[ran + 1]
      /\ UNCHANGED <<ops, order, last, others>>
      /\ ran \in Nat /\ Len(order) \in Nat /\ ran < Len(order)
  BY DEF Turn, IndInv, OrderInv, OrderShape
<1>2. ~last /\ ready = <<>> /\ ~InPass
  BY <1>1 DEF OutcomeInv, FixupShape, InPass, PassSteps, RollbackSteps
<1>3. Ran' = Ran \union {i} /\ result[i] = "none"
  BY TurnIsNew
<1>4. i \notin Ran
  <2>1. \A k \in 1 .. ran : k \in DOMAIN order /\ k # ran + 1
    BY <1>1 DEF IndInv, OrderInv, OrderShape
  <2>2. ran + 1 \in DOMAIN order
    BY <1>1 DEF IndInv, OrderInv, OrderShape
  <2> QED
    BY <1>1, <2>1, <2>2 DEF Ran, IndInv, OrderInv, OrderShape
<1>5. Passed = Ran
  BY <1>2 DEF Passed, Ran
<1>6. InPass' <=> pc' = "fix"
  BY DEF InPass, PassSteps, RollbackSteps
<1>7. Passed' = {order[k] : k \in 1 .. (IF pc' = "fix" THEN ran' - 1 ELSE ran')}
  BY <1>1, <1>2, <1>6 DEF Passed
<1>8. CASE pc' = "fix"
  <2>1. ran' - 1 = ran
    BY <1>1
  <2>2. Passed' = Ran
    BY <1>7, <1>8, <2>1 DEF Ran
  <2> QED
    BY <1>1, <1>2, <1>3, <1>4, <1>5, <1>8, <2>2, SameRequest
    DEF Settled, IndInv, AnswerShape
<1>9. CASE pc' = "loop"
  <2>1. Passed' = Ran \union {i}
    BY <1>1, <1>3, <1>7, <1>9 DEF Ran
  <2> QED
    BY <1>1, <1>2, <1>3, <1>4, <1>5, <1>9, <2>1, SameRequest, CompleteGrows
    DEF Settled, IndInv, AnswerShape
<1> QED
  BY <1>8, <1>9

\* Whoever uses a resource runs after everything that the resource needs.
LEMMA UsesComeAfter ==
  ASSUME IndInv, Distinct, NEW k \in DOMAIN order, ~IsPost(order[k]),
         NEW x \in Index, Needs(order[k], x)
  PROVE  Complete(x, {order[l] : l \in 1 .. k - 1})
<1> DEFINE E == {order[l] : l \in 1 .. k - 1}
<1>1. OrderShape /\ ReferencesSettled /\ order[k] \in Index /\ k \in Nat
  BY DEF IndInv, OrderInv, OrderShape
<1>2. ASSUME NEW y \in Index, Needs(order[k], y) PROVE y \in E
  <2>1. Before(y, order[k]) /\ order[k] \in Scheduled
    BY <1>1, <1>2 DEF ReferencesSettled, Scheduled
  <2>2. PICK l \in DOMAIN order : y = order[l]
    BY <2>1 DEF Before, Scheduled
  <2>3. Position(y) = l /\ Position(order[k]) = k
    BY <1>1, <2>2, PositionsDiffer
  <2>4. l < k
    BY <2>1, <2>3 DEF Before
  <2>5. l \in 1 .. k - 1
    BY <1>1, <2>4 DEF OrderShape
  <2> QED
    BY <2>2, <2>5
<1>3. x \in E
  BY <1>2
<1>4. \A y \in Index : Needs(x, y) => y \in E
  BY <1>2, NeedsTransitive
<1> QED
  BY <1>3, <1>4 DEF Complete
-----------------------------------------------------------------------------
(* Steps that change no record and no resource *)

\* No resource is being taken back, neither before nor after a step.
OutsideRollback == pc \notin RollbackSteps /\ pc' \notin RollbackSteps

LEMMA RecordKept ==
  ASSUME OutcomeInv, UNCHANGED <<ops, recordVars>>,
         \A i \in created : result'[i] = result[i],
         \A i \in Index : result'[i] = "ok" => result[i] = "ok" \/ ops[i].form = "fine",
         faults' \in Nat, others' \in Nat, last' \in BOOLEAN,
         OutsideRollback \/ UNCHANGED <<pc, ready>>
  PROVE  RecordShape' /\ Standing' = Standing
<1>1. UNCHANGED <<ops, idMap, created, rolledBack, failedIds, victim>>
  BY DEF recordVars
<1>2. Standing' = Standing
  BY <1>1 DEF Standing
<1>3. /\ victim' = NoId <=> pc' \notin RollbackSteps
      /\ victim' = NoId \/ ready' = <<>> \/ victim' = First'
  BY <1>1 DEF OutsideRollback, First, OutcomeInv, RecordShape
<1> QED
  BY <1>1, <1>2, <1>3, SameRequest DEF OutcomeInv, RecordShape

LEMMA LinksKept ==
  ASSUME OutcomeInv, UNCHANGED <<ops, deferred>>, Standing' \subseteq Standing,
         \A x \in Standing' \ touched' : x \notin touched /\ links'[x] = links[x] /\ (x \in rows => x \in rows')
  PROVE  LinkShape'
<1>1. /\ Index' = Index /\ Declared' = Declared /\ Distinct' = Distinct
      /\ \A b : Producer(b)' = Producer(b)
  BY SameRequest
<1>2. ASSUME Distinct, NEW i \in Standing' \ touched'
      PROVE  /\ i \in rows'
             /\ ops[i].refs \subseteq Declared \ {ops[i].bulkId} =>
                  links'[i] = {Producer(b) : b \in ops[i].refs \ deferred[i]}
  BY <1>2 DEF OutcomeInv, LinkShape
<1> QED
  BY <1>1, <1>2 DEF LinkShape

LEMMA ManagersKept ==
  ASSUME OutcomeInv, UNCHANGED ops,
         faults' = 0 => faults = 0,
         Distinct => Standing \intersect Settled \subseteq Standing' \intersect Settled',
         faults' = 0 => \A r \in rows' : r \in rows /\ Ours(r)' \subseteq Ours(r)
  PROVE  ManagerShape'
<1>1. /\ Index' = Index /\ Distinct' = Distinct
      /\ \A x : IsPost(x)' = IsPost(x) /\ Kind(x)' = Kind(x)
  BY SameRequest
<1>2. ASSUME Distinct, faults' = 0, NEW r \in rows', Kind(r) = "user",
             NEW x \in Ours(r)' \intersect Index
      PROVE  \/ x \in Standing' \intersect Settled'
             \/ r \in Index /\ IsPost(x) /\ ops[x].bulkId \in ops[r].refs
  BY <1>2 DEF OutcomeInv, ManagerShape
<1> QED
  BY <1>1, <1>2 DEF ManagerShape

LEMMA VersionsKept ==
  ASSUME OutcomeInv, UNCHANGED <<ops, order>>,
         others' = 0 => others = 0,
         Distinct /\ others' = 0 =>
           \A r \in (Standing' \intersect rows') \ unsure' :
             /\ r \in (Standing \intersect rows) \ unsure /\ About(r)' = About(r)
             /\ version'[r] = version[r]
             /\ \A k \in About(r) : reported'[k] = reported[k]
  PROVE  VersionShape'
<1>1. Distinct' = Distinct /\ \A x, y : Before(x, y)' = Before(x, y)
  BY SameRequest DEF Before, Scheduled, Position
<1>2. ASSUME Distinct, others' = 0, NEW r \in (Standing' \intersect rows') \ unsure'
      PROVE  \E i \in About(r)' :
               /\ \A j \in About(r)' : j = i \/ Before(j, i)
               /\ version'[r] = reported'[i]
  <2>1. PICK i \in About(r) : /\ \A j \in About(r) : j = i \/ Before(j, i)
                              /\ version[r] = reported[i]
    BY <1>2 DEF OutcomeInv, VersionShape
  <2> QED
    BY <1>2, <2>1
<1> QED
  BY <1>1, <1>2 DEF VersionShape

LEMMA AboutKept ==
  ASSUME UNCHANGED <<ops, idMap>>, NEW r,
         \A j \in Index : (result'[j] = "ok") <=> (result[j] = "ok")
  PROVE  About(r)' = About(r)
<1>1. Index' = Index /\ \A i : Target(i)' = Target(i)
  BY SameRequest DEF Target
<1> QED
  BY <1>1 DEF About

\* Steps that leave the resources alone.
LEMMA RestKept ==
  ASSUME IndInv, OutcomeInv, UNCHANGED <<ops, recordVars, dbVars, deferred, reported>>,
         order' = order \/ created = {}, readVersion' \in Nat,
         OutsideRollback \/ UNCHANGED pc,
         Ran \subseteq Ran', Standing \intersect Settled \subseteq Settled',
         faults' = 0 => faults = 0, others' = 0 => others = 0,
         \A j \in Index : (result'[j] = "ok") <=> (result[j] = "ok")
  PROVE  StoreShape' /\ LinkShape' /\ FailureShape' /\ ManagerShape' /\ VersionShape'
<1>1. UNCHANGED <<ops, idMap, created, rolledBack, failedIds, victim, rows, version, links,
                  touched, theirs, unsure, deferred, reported>>
  BY DEF recordVars, dbVars
<1>2. Standing' = Standing /\ Standing \subseteq created
  BY <1>1 DEF Standing
<1>3. /\ Index' = Index /\ Ids' = Ids /\ \A x : Kind(x)' = Kind(x)
      /\ Distinct' = Distinct
  BY <1>1, SameRequest
<1>4. \A x : Ours(x)' = Ours(x)
  BY <1>1 DEF Ours
<1>5. StoreShape'
  BY <1>1, <1>3 DEF OutcomeInv, StoreShape
<1>6. LinkShape'
  BY <1>1, <1>2, LinksKept
<1>7. pc = "unjoin" => pc' = "unjoin"
  BY DEF OutsideRollback, RollbackSteps
<1>8. FailureShape'
  BY <1>1, <1>2, <1>3, <1>4, <1>7 DEF OutcomeInv, FailureShape
<1>9. ManagerShape'
  BY <1>1, <1>2, <1>4, ManagersKept
<1>10. VersionShape'
  <2>1. CASE order' = order
    <3>1. \A r : About(r)' = About(r)
      BY <1>1, AboutKept
    <3> QED
      BY <1>1, <1>2, <2>1, <3>1, VersionsKept
  <2>2. CASE created = {}
    BY <1>2, <2>2 DEF VersionShape
  <2> QED
    BY <2>1, <2>2
<1> QED
  BY <1>5, <1>6, <1>8, <1>9, <1>10

\* What has happened although an error is reported.
LEMMA FaultKeeps ==
  ASSUME IndInv, OutcomeInv, UNCHANGED <<ops, order, recordVars, deferred, reported, others>>,
         faults' # 0,
         \A j \in Index : (result'[j] = "ok") <=> (result[j] = "ok"),
         \A x \in Standing \ touched' :
           x \notin touched /\ links'[x] = links[x] /\ (x \in rows => x \in rows'),
         \A x \in (Standing \intersect rows') \ unsure' :
           x \in rows \ unsure /\ version'[x] = version[x]
  PROVE  LinkShape' /\ FailureShape' /\ ManagerShape' /\ VersionShape'
<1>1. UNCHANGED idMap /\ Standing' = Standing
  BY DEF recordVars, Standing
<1>2. LinkShape'
  BY <1>1, LinksKept
<1>3. \A r : About(r)' = About(r)
  BY <1>1, AboutKept
<1>4. VersionShape'
  BY <1>1, <1>3, VersionsKept
<1> QED
  BY <1>2, <1>4 DEF FailureShape, ManagerShape

-----------------------------------------------------------------------------
(* What operations do to the resources *)

\* bulkIds stand for resources of this request that stand.
LEMMA LinkedStand ==
  ASSUME IndInv, OutcomeInv, NEW S \in SUBSET BulkId
  PROVE  /\ Linked(S) \subseteq Ids \union {Text}
         /\ \A x \in Linked(S) \intersect Index :
              /\ x \in Standing /\ IsPost(x) /\ ops[x].bulkId \in BulkId
              /\ ops[x].bulkId \in S
<1>1. Linked(S) \subseteq Resolved(S) \union {Text}
  BY DEF Linked
<1>2. ASSUME NEW x \in Resolved(S)
      PROVE  x \in Index /\ x \in Standing /\ IsPost(x) /\ ops[x].bulkId \in S
  <2>1. PICK b \in S : idMap[b] # NoId /\ x = idMap[b]
    BY DEF Resolved
  <2>2. x \in Standing /\ ops[x].bulkId = b
    BY <2>1 DEF OutcomeInv, RecordShape
  <2> QED
    BY <2>2, RanInIndex DEF Standing, OutcomeInv, RecordShape
<1>3. Text \notin Index
  BY BulkAssumption DEF Index
<1> QED
  BY <1>1, <1>2, <1>3 DEF Ids

\* handleBulkPost and createUserInternal: one resource is new.
LEMMA InsertEffects ==
  ASSUME IndInv, OutcomeInv, NEW i \in Index, Insert(i), UNCHANGED ops,
         Ran' = Ran \union {i}, reported' \in [Index -> Nat], readVersion' \in Nat
  PROVE  /\ StoreShape' /\ UNCHANGED <<version, touched, theirs, unsure>>
         /\ \A x \in Index : x # i => links'[x] = links[x] /\ (x \in rows' <=> x \in rows)
<1> DEFINE N == ops[i].refs \ Deferrable(i)
<1>1. /\ rows' = rows \union {i} /\ links' = [links EXCEPT ![i] = Linked(N)]
      /\ UNCHANGED <<version, touched, theirs, unsure>> /\ ops \in Inputs
  BY RanInIndex DEF Insert
<1>2. N \in SUBSET BulkId /\ i \in Ids /\ Index \subseteq Ids /\ Ids' = Ids /\ Index' = Index
  BY <1>1, Operations, SameRequest DEF Ids, Operation
<1>3. Linked(N) \subseteq Ids \union {Text}
  BY <1>2, LinkedStand
<1> HIDE DEF N
<1>4. links' \in [Ids -> SUBSET (Ids \union {Text})]
  BY <1>1, <1>2, <1>3 DEF OutcomeInv, StoreShape
<1>5. StoreShape'
  BY <1>1, <1>2, <1>4 DEF OutcomeInv, StoreShape
<1>6. \A x \in Index : x # i => links'[x] = links[x] /\ (x \in rows' <=> x \in rows)
  BY <1>1, <1>2 DEF OutcomeInv, StoreShape
<1> QED
  BY <1>1, <1>5, <1>6

\* One resource has other links and may have another version.
LEMMA StoreEffects ==
  ASSUME IndInv, OutcomeInv, NEW i \in Index, NEW bump \in {0, 1}, Store(i, bump)
  PROVE  /\ rows' = rows /\ touched' = touched \union {Target(i)}
         /\ Target(i) \in Ids /\ Target(i) \in rows /\ Kind(Target(i)) = ops[i].res
         /\ \A x \in Ids : x # Target(i) =>
              links'[x] = links[x] /\ theirs'[x] = theirs[x] /\ version'[x] = version[x]
         /\ version' \in [Ids -> Nat] /\ version'[Target(i)] = version[Target(i)] + bump
         /\ links' \in [Ids -> SUBSET (Ids \union {Text})]
         /\ theirs' \in [Ids -> SUBSET Ids]
         /\ \A x \in Index \ Ran : version'[x] = 0
         /\ \A x \in links'[Target(i)] \ theirs'[Target(i)] :
              \/ x \in Linked(ops[i].refs)
              \/ ops[i].res = "group" /\ x \in Ours(Target(i))
<1> DEFINE r == Target(i)
           old == IF ops[i].method = "PATCH" /\ ops[i].res = "group" THEN links[r] ELSE {}
           new == Linked(ops[i].refs)
<1>1. /\ r \in rows /\ Kind(r) = ops[i].res
      /\ links' = [links EXCEPT ![r] = old \union new]
      /\ theirs' = [theirs EXCEPT ![r] = (@ \intersect old) \ new]
      /\ version' = [version EXCEPT ![r] = @ + bump]
      /\ touched' = touched \union {r} /\ rows' = rows
  BY DEF Store
<1>2. ops[i].refs \in SUBSET BulkId
  BY RanInIndex, Operations DEF Operation
<1>3. new \subseteq Ids \union {Text}
  BY <1>2, LinkedStand
<1>4. /\ rows \subseteq Ids /\ version \in [Ids -> Nat]
      /\ links \in [Ids -> SUBSET (Ids \union {Text})]
      /\ theirs \in [Ids -> SUBSET Ids] /\ Index \subseteq Ids
      /\ rows \intersect Index \subseteq Ran
      /\ \A x \in Index \ Ran : version[x] = 0
  BY DEF OutcomeInv, StoreShape, Ids
<1>5. r \in Ids /\ (r \in Index => r \in Ran)
  BY <1>1, <1>4
<1>6. old \subseteq links[r] /\ (ops[i].res # "group" => old = {})
  OBVIOUS
<1> HIDE DEF r, old, new
<1>7. /\ links'[r] = old \union new /\ theirs'[r] = (theirs[r] \intersect old) \ new
      /\ version'[r] = version[r] + bump
      /\ \A x \in Ids : x # r =>
           links'[x] = links[x] /\ theirs'[x] = theirs[x] /\ version'[x] = version[x]
  BY <1>1, <1>4, <1>5
<1>8. links' \in [Ids -> SUBSET (Ids \union {Text})]
  BY <1>1, <1>3, <1>4, <1>5, <1>6
<1>9. theirs' \in [Ids -> SUBSET Ids]
  BY <1>1, <1>4, <1>5
<1>10. version' \in [Ids -> Nat]
  BY <1>1, <1>4, <1>5
<1>11. \A x \in Index \ Ran : version'[x] = 0
  BY <1>4, <1>5, <1>7
<1>12. \A x \in links'[r] \ theirs'[r] : x \in new \/ (x \in old /\ x \in links[r] \ theirs[r])
  BY <1>6, <1>7
<1>13. \A x \in links'[r] \ theirs'[r] : x \in new \/ (ops[i].res = "group" /\ x \in links[r] \ theirs[r])
  BY <1>6, <1>12
<1>14. Target(i) = r /\ Linked(ops[i].refs) = new
  BY DEF r, new
<1> QED
  BY <1>1, <1>5, <1>7, <1>8, <1>9, <1>10, <1>11, <1>13, <1>14 DEF Ours

\* What was deleted leaves nothing else behind, whichever statements took effect.
LEMMA DeleteEffects ==
  ASSUME StoreShape, NEW r, NEW done, Delete(r, done)
  PROVE  /\ rows' \subseteq rows /\ rows \ {r} \subseteq rows' /\ version' = version
         /\ unsure' = unsure
         /\ touched \subseteq touched' /\ (r \in Ids => r \in touched' /\ touched' \subseteq Ids)
         /\ links' \in [Ids -> SUBSET (Ids \union {Text})]
         /\ theirs' \in [Ids -> SUBSET Ids]
         /\ \A x \in Ids : Ours(x)' \subseteq Ours(x)
         /\ \A x \in Ids \ touched' : x # r /\ links'[x] = links[x]
         /\ "unrow" \in done => r \notin rows'
<1> DEFINE g(f) == IF "unjoin" \in done THEN Forgotten(f, r) ELSE f
           after(f) == IF "empty" \in done THEN Emptied(g(f), r) ELSE g(f)
<1>1. /\ rows' = (IF "unrow" \in done THEN rows \ {r} ELSE rows)
      /\ links' = after(links) /\ theirs' = after(theirs)
      /\ touched' = touched \union {r} \union GroupsOf(r)
      /\ UNCHANGED <<version, unsure>>
  BY DEF Delete
<1>2. /\ links \in [Ids -> SUBSET (Ids \union {Text})]
      /\ theirs \in [Ids -> SUBSET Ids] /\ touched \subseteq Ids
  BY DEF StoreShape
<1>3. ASSUME NEW S, NEW f \in [Ids -> SUBSET S]
      PROVE  /\ after(f) \in [Ids -> SUBSET S]
             /\ \A x \in Ids : after(f)[x] =
                  IF "empty" \in done /\ x = r /\ Kind(r) = "group" THEN {}
                  ELSE IF "unjoin" \in done /\ Kind(x) = "group" THEN f[x] \ {r} ELSE f[x]
  <2>1. /\ g(f) \in [Ids -> SUBSET S]
        /\ \A x \in Ids : g(f)[x] =
             IF "unjoin" \in done /\ Kind(x) = "group" THEN f[x] \ {r} ELSE f[x]
    BY DEF Forgotten
  <2>2. \A h \in [Ids -> SUBSET S] :
          /\ Emptied(h, r) \in [Ids -> SUBSET S]
          /\ \A x \in Ids : Emptied(h, r)[x] = IF x = r /\ Kind(r) = "group" THEN {} ELSE h[x]
    BY DEF Emptied
  <2> HIDE DEF g
  <2> QED
    BY <2>1, <2>2
<1> HIDE DEF after
<1>4. links' \in [Ids -> SUBSET (Ids \union {Text})] /\ theirs' \in [Ids -> SUBSET Ids]
  BY <1>1, <1>2, <1>3
<1>5. \A x \in Ids :
        /\ links'[x] = IF "empty" \in done /\ x = r /\ Kind(r) = "group" THEN {}
                      ELSE IF "unjoin" \in done /\ Kind(x) = "group" THEN links[x] \ {r} ELSE links[x]
        /\ theirs'[x] = IF "empty" \in done /\ x = r /\ Kind(r) = "group" THEN {}
                      ELSE IF "unjoin" \in done /\ Kind(x) = "group" THEN theirs[x] \ {r} ELSE theirs[x]
  BY <1>1, <1>2, <1>3
<1>6. \A x \in Ids : Ours(x)' \subseteq Ours(x)
  BY <1>5 DEF Ours
<1>7. ASSUME NEW x \in Ids \ touched'
      PROVE  x # r /\ links'[x] = links[x]
  <2>1. x # r /\ ~(Kind(x) = "group" /\ r \in links[x])
    BY <1>1, <1>7 DEF GroupsOf
  <2> QED
    BY <1>5, <2>1
<1>8. r \in Ids => r \in touched' /\ touched' \subseteq Ids
  BY <1>1, <1>2 DEF GroupsOf
<1> QED
  BY <1>1, <1>4, <1>6, <1>7, <1>8

LEMMA DeletionKeeps ==
  ASSUME IndInv, OutcomeInv, NEW r \in rows, NEW done, Delete(r, done),
         UNCHANGED <<ops, deferred, victim>>, faults' = 0 => faults = 0,
         OutsideRollback \/ UNCHANGED pc,
         Standing' = Standing, Ran \subseteq Ran', Settled \subseteq Settled',
         reported' \in [Index -> Nat], readVersion' \in Nat
  PROVE  StoreShape' /\ LinkShape' /\ FailureShape' /\ ManagerShape'
<1>1. StoreShape /\ r \in Ids
  BY DEF OutcomeInv, StoreShape
<1>2. /\ rows' \subseteq rows /\ rows \ {r} \subseteq rows' /\ version' = version
      /\ unsure' = unsure /\ touched \subseteq touched' /\ r \in touched' /\ touched' \subseteq Ids
      /\ links' \in [Ids -> SUBSET (Ids \union {Text})] /\ theirs' \in [Ids -> SUBSET Ids]
      /\ \A x \in Ids : Ours(x)' \subseteq Ours(x)
      /\ \A x \in Ids \ touched' : x # r /\ links'[x] = links[x]
  BY <1>1, DeleteEffects
<1>3. Index' = Index /\ Ids' = Ids /\ \A x : Kind(x)' = Kind(x)
  BY SameRequest
<1>4. StoreShape'
  BY <1>1, <1>2, <1>3 DEF StoreShape
<1>5. Standing \subseteq Ids /\ rows \subseteq Ids
  BY <1>1, RanInIndex DEF Standing, Ids, StoreShape
<1>6. LinkShape'
  BY <1>2, <1>5, LinksKept
<1>7. pc = "unjoin" => pc' = "unjoin"
  BY DEF OutsideRollback, RollbackSteps
<1>8. FailureShape'
  BY <1>2, <1>3, <1>7 DEF OutcomeInv, FailureShape
<1>9. ManagerShape'
  BY <1>2, <1>5, ManagersKept
<1> QED
  BY <1>4, <1>6, <1>8, <1>9
-----------------------------------------------------------------------------
(* The fixups after a turn *)

LEMMA TurnFixups ==
  ASSUME IndInv, OutcomeInv, NEW i \in Index, Turn(i),
         NEW f, f \in Seq(Ran \union {i}), AfterOperation(i, f),
         RecordShape', rolledBack' = rolledBack, failedIds' = failedIds,
         created \subseteq created', created' \subseteq created \union {i},
         Elements(f) \subseteq created',
         Elements(f) \subseteq Elements(fixups) \union {i},
         deferred' \in [Index -> SUBSET BulkId],
         \A j \in Standing' :
           /\ deferred'[j] \subseteq ops[j].refs
           /\ deferred'[j] # {} => j \in Elements(f)
           /\ Distinct => ops[j].refs \intersect failedIds \subseteq deferred'[j]
  PROVE  FixupShape' /\ PendingShape' /\ CascadeShape'
<1>1. /\ Elements(fixups') \union Elements(ready') = Elements(f)
      /\ \A x \in Elements(fixups') : ~IsReady(x, Ran \union {i})
      /\ (pc' = "loop" /\ ready' = <<>>) \/ pc' = "fix"
  BY AfterOperationSplits
<1>2. /\ UNCHANGED <<ops, order, others>> /\ ~last' /\ i \notin Ran /\ Ran' = Ran \union {i}
      /\ Passed' = IF pc' = "fix" THEN Ran ELSE Ran \union {i}
      /\ \A x \in Index : Complete(x, Ran) => x \in Settled
      /\ \A x \in Settled' : Complete(x, Passed')
  BY <1>1, TurnPasses
<1>3. /\ Index' = Index /\ Distinct' = Distinct /\ ops' = ops
      /\ \A x, S : Complete(x, S)' = Complete(x, S)
      /\ \A x : IsPost(x)' = IsPost(x)
  BY <1>2, SameRequest
<1>4. InPass' <=> pc' = "fix"
  BY <1>1 DEF InPass, PassSteps, RollbackSteps
<1>5. FixupShape'
  BY <1>1, <1>2, <1>3, <1>4 DEF FixupShape
<1>6. created' \subseteq Index /\ Standing' \subseteq Standing \union {i} /\ Standing \subseteq created
  BY RanInIndex DEF Standing
<1>7. ASSUME Distinct, NEW x \in Elements(fixups') PROVE ~Complete(x, Ran \union {i})
  <2>1. x \in created' /\ x \in Index
    BY <1>1, <1>6
  <2>2. IsPost(x) /\ ops[x].bulkId \in BulkId
    BY <1>3, <2>1 DEF RecordShape
  <2>3. Producer(ops[x].bulkId) = x
    BY <1>7, <2>1, <2>2, OneProducer DEF IndInv, OrderInv, OrderShape
  <2>4. ~(producerClosure(x) \subseteq Ran \union {i})
    BY <1>1, <2>3 DEF IsReady
  <2> QED
    BY <2>1, <2>4, ClosureComplete DEF IndInv, OrderInv, OrderShape
<1>8. ASSUME Distinct, NEW x \in Elements(ready') PROVE x \notin Settled'
  <2>1. pc' = "fix" /\ Passed' = Ran
    BY <1>1, <1>2, <1>8 DEF Elements
  <2>2. x \in Elements(fixups) \union {i}
    BY <1>1
  <2>3. ~Complete(x, Ran)
    BY <1>2, <1>8, <2>2 DEF OutcomeInv, PendingShape, Complete
  <2> QED
    BY <1>2, <2>1, <2>3
<1>9. PendingShape'
  BY <1>2, <1>3, <1>7, <1>8 DEF PendingShape
<1>10. ASSUME Distinct, NEW x \in Standing' \intersect Settled'
       PROVE  ops[x].refs \intersect failedIds = {}
  <2>1. Complete(x, Passed') /\ x \in Index
    BY <1>2, <1>3, <1>10 DEF Settled
  <2>2. CASE pc' = "fix"
    <3>1. Complete(x, Ran)
      BY <1>2, <2>1, <2>2
    <3>2. x # i
      BY <1>2, <3>1 DEF Complete
    <3>3. x \in Standing \intersect Settled
      BY <1>2, <1>6, <1>10, <2>1, <3>1, <3>2
    <3> QED
      BY <1>10, <3>3 DEF OutcomeInv, CascadeShape
  <2>3. CASE pc' # "fix"
    <3>1. Complete(x, Ran \union {i}) /\ Elements(ready') = {}
      BY <1>1, <1>2, <2>1, <2>3 DEF Elements
    <3>2. x \notin Elements(f)
      BY <1>1, <1>7, <1>10, <3>1
    <3> QED
      BY <1>10, <3>2
  <2> QED
    BY <2>2, <2>3
<1>11. CascadeShape'
  BY <1>3, <1>10 DEF CascadeShape
<1> QED
  BY <1>5, <1>9, <1>11
\* A turn that creates nothing.
LEMMA QuietTurn ==
  ASSUME IndInv, OutcomeInv, NEW i \in Index, Turn(i), AfterOperation(i, fixups),
         UNCHANGED <<recordVars, deferred>>,
         \A j \in created : result'[j] = result[j], faults' \in Nat,
         \A j \in Index : result'[j] = "ok" => result[j] = "ok" \/ ops[j].form = "fine"
  PROVE  /\ RecordShape' /\ FixupShape' /\ PendingShape' /\ CascadeShape'
         /\ Standing' = Standing /\ Ran \subseteq Ran' /\ Settled \subseteq Settled'
         /\ UNCHANGED <<ops, order, others>> /\ i \notin created /\ i \notin Ran
         /\ OutsideRollback /\ Ran' = Ran \union {i}
<1>1. UNCHANGED <<idMap, created, rolledBack, failedIds, deferred>>
  BY DEF recordVars
<1>2. fixups \in Seq(Ran) /\ fixups \in Seq(Ran \union {i})
  BY DEF IndInv, AnswerShape
<1>3. pc' \in {"loop", "fix"}
  BY <1>2, AfterOperationFits
<1>4. /\ UNCHANGED <<ops, order, others>> /\ ~last' /\ ready = <<>>
      /\ i \notin Ran /\ Ran' = Ran \union {i} /\ i \notin created
      /\ Settled \subseteq Settled'
  BY <1>3, TurnPasses
<1>5. others' \in Nat /\ last' \in BOOLEAN
  BY <1>4 DEF OutcomeInv, RecordShape, Turn
<1>6. RecordShape' /\ Standing' = Standing /\ OutsideRollback
  <2>1. OutsideRollback
    BY <1>3 DEF OutsideRollback, RollbackSteps, Turn
  <2> QED
    BY <1>4, <1>5, <2>1, RecordKept
<1>7. /\ Elements(fixups) \subseteq created /\ deferred \in [Index -> SUBSET BulkId]
      /\ \A j \in Standing :
           /\ deferred[j] \subseteq ops[j].refs
           /\ deferred[j] # {} => j \in Elements(fixups)
           /\ Distinct => ops[j].refs \intersect failedIds \subseteq deferred[j]
  <2>1. Elements(ready) = {} /\ pc = "loop"
    BY <1>4 DEF Elements, Turn
  <2> QED
    BY <2>1 DEF OutcomeInv, FixupShape, CascadeShape
<1>8. FixupShape' /\ PendingShape' /\ CascadeShape'
  BY <1>1, <1>2, <1>6, <1>7, TurnFixups
<1> QED
  BY <1>4, <1>6, <1>8

\* What it stores although it answers with an error makes the versions unsure.
LEMMA FailedTurn ==
  ASSUME IndInv, OutcomeInv, NEW i \in Index, Turn(i),
         OperationFails(i) \/ OperationPanics(i)
  PROVE  OutcomeInv'
<1>1. /\ AfterOperation(i, fixups) /\ UNCHANGED <<recordVars, deferred, readVersion>>
      /\ reported' = reported /\ (NothingDone \/ DoneAllTheSame(i))
      /\ \/ result' = [result EXCEPT ![i] = "error"]
         \/ result' = result
  <2>1. CASE OperationFails(i)
    BY <2>1 DEF OperationFails, Fail
  <2>2. CASE OperationPanics(i)
    BY <2>2 DEF OperationPanics, answerVars
  <2> QED
    BY <2>1, <2>2
<1>2. /\ result \in [Index -> {"none", "ok", "error"}] /\ result[i] = "none"
      /\ Ran' = Ran \union {i}
  BY TurnIsNew DEF IndInv, AnswerShape
<1>3. /\ faults' \in Nat /\ (faults' = 0 => faults = 0) /\ (DoneAllTheSame(i) => faults' # 0)
      /\ readVersion' \in Nat /\ reported' \in [Index -> Nat] /\ Index' = Index
  <2>1. faults \in Nat /\ readVersion \in Nat /\ reported \in [Index -> Nat]
    BY DEF OutcomeInv, RecordShape, StoreShape
  <2>2. /\ NothingDone => faults' = faults
        /\ DoneAllTheSame(i) => faults' = faults + 1
    BY DEF NothingDone, DoneAllTheSame
  <2>3. Index' = Index
    BY SameRequest DEF Turn
  <2> QED
    BY <1>1, <2>1, <2>2, <2>3
<1>4. i \notin created
  BY <1>2 DEF OutcomeInv, RecordShape
<1>5. /\ \A j \in created : result'[j] = result[j]
      /\ \A j \in Index : (result'[j] = "ok") <=> (result[j] = "ok")
  BY <1>1, <1>2, <1>4, RanInIndex
<1>6. /\ RecordShape' /\ FixupShape' /\ PendingShape' /\ CascadeShape'
      /\ Standing' = Standing /\ Ran \subseteq Ran' /\ Settled \subseteq Settled'
      /\ UNCHANGED <<ops, order, others>> /\ OutsideRollback /\ i \notin Ran
  BY <1>1, <1>3, <1>5, QuietTurn
<1>7. ASSUME UNCHANGED dbVars
      PROVE  StoreShape' /\ LinkShape' /\ FailureShape' /\ ManagerShape' /\ VersionShape'
  BY <1>1, <1>3, <1>5, <1>6, <1>7, RestKept
<1>8. ASSUME DoneAllTheSame(i), Insert(i)
      PROVE  StoreShape' /\ LinkShape' /\ FailureShape' /\ ManagerShape' /\ VersionShape'
  <2>1. StoreShape' /\ UNCHANGED <<version, touched, unsure>>
        /\ \A x \in Index : x # i => links'[x] = links[x] /\ (x \in rows' <=> x \in rows)
    BY <1>1, <1>2, <1>3, <1>6, <1>8, InsertEffects
  <2> QED
    BY <1>1, <1>3, <1>4, <1>5, <1>6, <1>8, <2>1, FaultKeeps, RanInIndex DEF Standing
<1>9. ASSUME DoneAllTheSame(i), NEW bump \in {0, 1}, Store(i, bump), unsure' = unsure \union {Target(i)}
      PROVE  StoreShape' /\ LinkShape' /\ FailureShape' /\ ManagerShape' /\ VersionShape'
  <2>1. /\ rows' = rows /\ touched' = touched \union {Target(i)} /\ Target(i) \in Ids
        /\ \A x \in Ids : x # Target(i) => links'[x] = links[x] /\ version'[x] = version[x]
        /\ version' \in [Ids -> Nat] /\ links' \in [Ids -> SUBSET (Ids \union {Text})]
        /\ theirs' \in [Ids -> SUBSET Ids]
        /\ \A x \in Index \ Ran : version'[x] = 0
    BY <1>9, StoreEffects
  <2>2. Ids' = Ids /\ Standing \subseteq Ids
    BY <1>6, SameRequest, RanInIndex DEF Standing, Ids
  <2>3. StoreShape'
    BY <1>2, <1>3, <1>9, <2>1, <2>2 DEF OutcomeInv, StoreShape
  <2> QED
    BY <1>1, <1>3, <1>5, <1>6, <1>9, <2>1, <2>2, <2>3, FaultKeeps
<1>10. ASSUME DoneAllTheSame(i), NEW done \in SUBSET RollbackSteps, Target(i) \in rows,
              Delete(Target(i), done)
       PROVE  StoreShape' /\ LinkShape' /\ FailureShape' /\ ManagerShape' /\ VersionShape'
  <2>1. StoreShape' /\ LinkShape' /\ FailureShape' /\ ManagerShape'
    BY <1>1, <1>3, <1>6, <1>10, DeletionKeeps DEF recordVars
  <2>2. rows' \subseteq rows /\ UNCHANGED <<version, unsure>>
    BY <1>10, DeleteEffects DEF OutcomeInv, StoreShape
  <2>3. UNCHANGED idMap
    BY <1>1 DEF recordVars
  <2>4. \A r : About(r)' = About(r)
    BY <1>5, <1>6, <2>3, AboutKept
  <2>5. VersionShape'
    BY <1>1, <1>6, <2>2, <2>4, VersionsKept
  <2> QED
    BY <2>1, <2>5
<1>11. StoreShape' /\ LinkShape' /\ FailureShape' /\ ManagerShape' /\ VersionShape'
  BY <1>1, <1>7, <1>8, <1>9, <1>10 DEF NothingDone, DoneAllTheSame
<1> QED
  BY <1>6, <1>11 DEF OutcomeInv

\* An absent operation is no POST, so no fixup can have waited for it.
LEMMA SkippedTurn ==
  ASSUME IndInv, OutcomeInv, NEW i \in Index, Turn(i), Skip(i)
  PROVE  OutcomeInv'
<1>1. /\ UNCHANGED <<pc, answerVars, recordVars, deferred, fixups, ready, readVersion, dbVars, faults>>
      /\ pc = "loop" /\ pc' = "loop" /\ last' = last /\ ~IsPost(i)
  BY DEF Skip, Turn, IsPost
<1>2. /\ UNCHANGED <<ops, order, others>> /\ ~last /\ i \notin Ran /\ Ran' = Ran \union {i}
      /\ i \notin created /\ Settled \subseteq Settled' /\ Passed' = Ran \union {i}
      /\ \A x \in Index : Complete(x, Ran) => x \in Settled
      /\ \A x \in Settled' : Complete(x, Passed')
  BY <1>1, TurnPasses
<1>3. UNCHANGED <<idMap, created, rolledBack, failedIds, result, reported, dbVars>> /\ OutsideRollback
  BY <1>1 DEF recordVars, answerVars, OutsideRollback, RollbackSteps
<1>4. faults' \in Nat /\ others' \in Nat /\ last' \in BOOLEAN /\ readVersion' \in Nat
  BY <1>1, <1>2 DEF OutcomeInv, RecordShape, StoreShape
<1>5. RecordShape' /\ Standing' = Standing
  BY <1>1, <1>2, <1>3, <1>4, RecordKept
<1>6. StoreShape' /\ LinkShape' /\ FailureShape' /\ ManagerShape' /\ VersionShape'
  BY <1>1, <1>2, <1>3, <1>4, RestKept
<1>7. /\ Index' = Index /\ Distinct' = Distinct /\ ops' = ops
      /\ \A x, S : Complete(x, S)' = Complete(x, S)
  BY <1>2, SameRequest
<1>8. FixupShape'
  BY <1>1, <1>2, <1>3, <1>5, <1>7 DEF OutcomeInv, FixupShape, InPass
<1>9. ASSUME Distinct, NEW x \in Elements(fixups) PROVE ~Complete(x, Ran \union {i})
  <2>1. x \in created /\ x \in Index /\ x # i /\ ops \in Inputs
    BY <1>2, RanInIndex DEF OutcomeInv, FixupShape
  <2>2. ~Complete(x, Ran)
    BY <1>9 DEF OutcomeInv, PendingShape
  <2> QED
    BY <1>1, <2>1, <2>2, OnlyPostsComplete
<1>10. ready' = <<>> /\ Elements(ready') = {} /\ ready = <<>>
  BY <1>1 DEF OutcomeInv, FixupShape, InPass, Elements, PassSteps, RollbackSteps
<1>11. PendingShape'
  BY <1>1, <1>2, <1>7, <1>9, <1>10 DEF PendingShape
<1>12. ASSUME Distinct, NEW x \in Standing
       PROVE  /\ ops[x].refs \intersect failedIds \subseteq deferred[x]
              /\ deferred[x] # {} => x \in Elements(fixups)
  BY <1>1, <1>10, <1>12 DEF OutcomeInv, CascadeShape, FixupShape
<1>13. CascadeShape'
  BY <1>1, <1>2, <1>3, <1>5, <1>7, <1>9, <1>12 DEF CascadeShape
<1> QED
  BY <1>5, <1>6, <1>8, <1>11, <1>13 DEF OutcomeInv
-----------------------------------------------------------------------------
(* POST *)

LEMMA MappedIsProducer ==
  ASSUME IndInv, OutcomeInv, Distinct, NEW b \in BulkId, idMap[b] # NoId
  PROVE  /\ idMap[b] = Producer(b) /\ idMap[b] \in Standing /\ idMap[b] \in Index
         /\ \A j \in Index : IsPost(j) /\ ops[j].bulkId = b => j = idMap[b]
<1>1. idMap[b] \in Standing /\ ops[idMap[b]].bulkId = b
  BY DEF OutcomeInv, RecordShape
<1>2. idMap[b] \in Index /\ IsPost(idMap[b]) /\ ops \in Inputs
  BY <1>1, RanInIndex DEF Standing, OutcomeInv, RecordShape
<1> QED
  BY <1>1, <1>2, OneProducer

\* What a bulkId stood for that failed is gone, and nobody else declares it.
LEMMA FailedUnmapped ==
  ASSUME IndInv, OutcomeInv, Distinct, NEW b \in failedIds
  PROVE  /\ b \in BulkId /\ idMap[b] = NoId
         /\ \E k \in rolledBack : ops[k].bulkId = b
         /\ Producer(b) \in rolledBack /\ b \in Declared
<1>1. PICK k \in rolledBack : ops[k].bulkId = b
  BY DEF OutcomeInv, RecordShape
<1>2. k \in created /\ k \in Index /\ IsPost(k) /\ b \in BulkId /\ ops \in Inputs
  BY <1>1, RanInIndex DEF OutcomeInv, RecordShape
<1>3. Producer(b) = k /\ b \in Declared
  BY <1>1, <1>2, OneProducer
<1>4. idMap[b] = NoId
  BY <1>1, <1>2, MappedIsProducer DEF Standing
<1> QED
  BY <1>1, <1>2, <1>3, <1>4

\* A use of a resource has run after everything that the resource needs.
LEMMA UsedIsSettled ==
  ASSUME IndInv, OutcomeInv, Distinct, NEW j \in Index, result[j] = "ok",
         NEW r \in Index, IsPost(r), ops[r].bulkId \in BulkId, ops[j].target = ops[r].bulkId
  PROVE  r \in Ran /\ r \in Settled
<1>1. j \in Ran /\ ops[j].form = "fine" /\ ops \in Inputs
  BY RanInIndex DEF IndInv, AnswerShape, OutcomeInv, RecordShape
<1>2. ~IsPost(j)
  BY <1>1, Operations, BulkOrderAssumption DEF IsPost
<1>3. PICK k \in 1 .. ran : j = order[k]
  BY <1>1 DEF Ran
<1>4. k \in DOMAIN order /\ ran \in Nat
  BY DEF IndInv, OrderInv, OrderShape
<1>5. Needs(order[k], r)
  BY <1>1, <1>3, ReferenceIsNeed
<1>6. Complete(r, {order[l] : l \in 1 .. k - 1})
  BY <1>2, <1>3, <1>4, <1>5, UsesComeAfter
<1>7. {order[l] : l \in 1 .. k - 1} \subseteq Passed
  <2>1. \A l \in 1 .. k - 1 : l \in 1 .. ran - 1 /\ l \in 1 .. ran
    BY <1>4
  <2> QED
    BY <2>1 DEF Passed
<1>8. {order[l] : l \in 1 .. k - 1} \subseteq Ran
  BY <1>4 DEF Ran
<1> QED
  BY <1>6, <1>7, <1>8, CompleteGrows DEF Settled, Complete

LEMMA PostTurn ==
  ASSUME IndInv, OutcomeInv, NEW i \in Index, Turn(i), Post(i)
  PROVE  OutcomeInv'
<1> DEFINE b == ops[i].bulkId
           D == Deferrable(i)
           N == ops[i].refs \ D
           f == IF D = {} THEN fixups ELSE Append(fixups, i)
<1>1. /\ IsPost(i) /\ ops[i].form = "fine" /\ b # NoId
      /\ rows' = rows \union {i} /\ links' = [links EXCEPT ![i] = Linked(N)]
      /\ UNCHANGED <<version, touched, theirs, unsure, victim>>
      /\ result' = [result EXCEPT ![i] = "ok"] /\ reported' = [reported EXCEPT ![i] = 0]
      /\ idMap' = [idMap EXCEPT ![b] = i]
      /\ created' = created \union {i} /\ deferred' = [deferred EXCEPT ![i] = D]
      /\ AfterOperation(i, f)
      /\ UNCHANGED <<rolledBack, failedIds, readVersion, faults>>
  BY DEF Post, Insert, Succeed, Record
<1>2. /\ ops \in Inputs /\ Ran \subseteq Index /\ created \subseteq Index
      /\ b \in BulkId /\ ops[i].refs \in SUBSET BulkId /\ ops[i].target = NoId
  BY <1>1, RanInIndex, Operations DEF Operation, IsPost
<1>3. D \subseteq ops[i].refs
  BY DEF Deferrable, Unresolved
<1>4. fixups \in Seq(Ran) /\ f \in Seq(Ran \union {i})
  BY DEF IndInv, AnswerShape
<1>5. Elements(f) = IF D = {} THEN Elements(fixups) ELSE Elements(fixups) \union {i}
  <2>1. ASSUME NEW q \in Seq(Index) PROVE Elements(Append(q, i)) = Elements(q) \union {i}
    BY DEF Elements
  <2>2. fixups \in Seq(Index)
    BY <1>2, <1>4
  <2> QED
    BY <2>1, <2>2
<1> HIDE DEF f
<1>6. pc' \in {"loop", "fix"}
  BY <1>1, <1>4, AfterOperationFits
<1>7. /\ UNCHANGED <<ops, order, others>> /\ ~last /\ ~last' /\ ready = <<>> /\ i \notin Ran
      /\ Ran' = Ran \union {i} /\ i \notin created /\ Settled \subseteq Settled'
  BY <1>6, TurnPasses
<1>8. /\ Index' = Index /\ Ids' = Ids /\ Declared' = Declared /\ Distinct' = Distinct
      /\ \A x : Producer(x)' = Producer(x)
      /\ \A x : IsPost(x)' = IsPost(x) /\ Kind(x)' = Kind(x)
  BY <1>7, SameRequest
<1>9. /\ result \in [Index -> {"none", "ok", "error"}] /\ result[i] = "none"
      /\ victim = NoId /\ victim' = NoId /\ pc = "loop" /\ pc' \notin RollbackSteps
      /\ NoId \notin created /\ i \notin rolledBack /\ Standing' = Standing \union {i} /\ i \notin Standing
      /\ Standing \subseteq Index
  <2>1. pc = "loop" /\ pc' \notin RollbackSteps /\ "loop" \notin RollbackSteps
    BY <1>6 DEF Turn, RollbackSteps
  <2>2. victim = NoId
    BY <2>1 DEF OutcomeInv, RecordShape
  <2>3. NoId \notin created
    <3>1. NoId \notin Index
      BY BulkAssumption, BulkOrderAssumption DEF Index
    <3> QED
      BY <1>2, <3>1
  <2>4. /\ result \in [Index -> {"none", "ok", "error"}] /\ result[i] = "none"
        /\ i \notin rolledBack /\ Standing' = Standing \union {i} /\ i \notin Standing
        /\ Standing \subseteq Index
    BY <1>1, <1>2, <1>7, TurnIsNew DEF Standing, IndInv, AnswerShape, OutcomeInv, RecordShape
  <2> QED
    BY <1>1, <2>1, <2>2, <2>3, <2>4
<1>10. RecordShape'
  <2>1. /\ faults' \in Nat /\ others' \in Nat /\ last' \in BOOLEAN
        /\ rolledBack' \subseteq created'
    BY <1>1, <1>7 DEF OutcomeInv, RecordShape, Turn
  <2>2. ASSUME NEW j \in created'
        PROVE  /\ IsPost(j) /\ ops[j].form = "fine" /\ ops[j].bulkId \in BulkId
               /\ result'[j] = IF j \in rolledBack' \ {victim'} THEN "error" ELSE "ok"
    <3>1. rolledBack' = rolledBack /\ rolledBack \ {NoId} = rolledBack
      BY <1>1, <1>9 DEF OutcomeInv, RecordShape
    <3> QED
      BY <1>1, <1>2, <1>7, <1>9, <3>1 DEF OutcomeInv, RecordShape
  <2>3. idMap' \in [BulkId -> Index \union {NoId}]
    BY <1>1, <1>2 DEF OutcomeInv, RecordShape
  <2>4. ASSUME NEW x \in BulkId, idMap'[x] # NoId
        PROVE  idMap'[x] \in Standing' /\ ops[idMap'[x]].bulkId = x
    BY <1>1, <1>2, <1>9, <2>4 DEF OutcomeInv, RecordShape
  <2>5. failedIds' = {ops[j].bulkId : j \in rolledBack}
    BY <1>1 DEF OutcomeInv, RecordShape
  <2>6. \A j \in Index : result'[j] = "ok" => ops[j].form = "fine"
    BY <1>1, <1>9 DEF OutcomeInv, RecordShape
  <2> QED
    BY <1>1, <1>7, <1>8, <1>9, <2>1, <2>2, <2>3, <2>4, <2>5, <2>6 DEF RecordShape
<1>11. ASSUME Distinct PROVE ops[i].refs \intersect failedIds \subseteq D
  <2> SUFFICES ASSUME NEW x \in ops[i].refs \intersect failedIds PROVE x \in D
    OBVIOUS
  <2>1. /\ x \in BulkId /\ idMap[x] = NoId /\ x \in Declared
        /\ \E k \in rolledBack : ops[k].bulkId = x
    BY <1>11, FailedUnmapped
  <2>2. x # b
    <3>1. PICK k \in rolledBack : ops[k].bulkId = x
      BY <2>1
    <3>2. k \in Index /\ IsPost(k) /\ k # i
      BY <1>2, <1>9 DEF OutcomeInv, RecordShape
    <3> QED
      BY <1>1, <1>2, <1>11, <3>1, <3>2, OneProducer
  <2> QED
    BY <2>1, <2>2 DEF Deferrable, Unresolved
<1>12. FixupShape' /\ PendingShape' /\ CascadeShape'
  <2>1. Elements(ready) = {} /\ pc = "loop"
    BY <1>7 DEF Elements, Turn
  <2>2. /\ Elements(fixups) \subseteq created /\ deferred \in [Index -> SUBSET BulkId]
        /\ \A j \in Standing :
             /\ deferred[j] \subseteq ops[j].refs
             /\ deferred[j] # {} => j \in Elements(fixups)
             /\ Distinct => ops[j].refs \intersect failedIds \subseteq deferred[j]
    BY <2>1 DEF OutcomeInv, FixupShape, CascadeShape
  <2>3. ASSUME NEW j \in Standing'
        PROVE  /\ deferred'[j] \subseteq ops[j].refs
               /\ deferred'[j] # {} => j \in Elements(f)
               /\ Distinct => ops[j].refs \intersect failedIds \subseteq deferred'[j]
    <3>1. CASE j = i
      BY <1>1, <1>3, <1>5, <1>11, <2>2, <3>1
    <3>2. CASE j \in Standing /\ j # i
      BY <1>1, <1>5, <1>9, <2>2, <3>2
    <3> QED
      BY <1>9, <3>1, <3>2
  <2>4. deferred' \in [Index -> SUBSET BulkId]
    BY <1>1, <1>2, <1>3, <2>2
  <2>5. Elements(f) \subseteq created' /\ Elements(f) \subseteq Elements(fixups) \union {i}
    BY <1>1, <1>5, <2>2
  <2> QED
    BY <1>1, <1>4, <1>10, <2>3, <2>4, <2>5, TurnFixups
<1>13. N \in SUBSET BulkId /\ i \in Ids
  BY <1>2 DEF Ids
<1>14. /\ Linked(N) \subseteq Ids \union {Text}
       /\ \A x \in Linked(N) \intersect Index :
            /\ x \in Standing /\ IsPost(x) /\ ops[x].bulkId \in BulkId
            /\ ops[x].bulkId \in N
  BY <1>13, LinkedStand
<1>15. /\ links \in [Ids -> SUBSET (Ids \union {Text})] /\ links'[i] = Linked(N)
       /\ \A x \in Ids : x # i => links'[x] = links[x]
       /\ Ours(i)' \subseteq Linked(N) /\ \A x \in Ids : x # i => Ours(x)' = Ours(x)
  BY <1>1, <1>13 DEF OutcomeInv, StoreShape, Ours
<1>16. StoreShape'
  BY <1>1, <1>7, <1>8, <1>13, <1>14 DEF OutcomeInv, StoreShape, Ids
<1>17. LinkShape'
  <2>1. ASSUME Distinct, NEW j \in Standing' \ touched'
        PROVE  /\ j \in rows'
               /\ ops[j].refs \subseteq Declared \ {ops[j].bulkId} =>
                    links'[j] = {Producer(x) : x \in ops[j].refs \ deferred'[j]}
    <3>1. CASE j # i
      <4>1. j \in Standing \ touched /\ j \in Ids /\ deferred'[j] = deferred[j]
        BY <1>1, <1>9, <2>1, <3>1 DEF Ids, OutcomeInv, FixupShape
      <4> QED
        BY <1>1, <1>15, <2>1, <3>1, <4>1 DEF OutcomeInv, LinkShape
    <3>2. CASE j = i
      <4>1. ASSUME ops[i].refs \subseteq Declared \ {b} PROVE Linked(N) = {Producer(x) : x \in N}
        <5>1. Unresolved(N) = {}
          BY <4>1 DEF Unresolved, Deferrable
        <5>2. \A x \in N : idMap[x] # NoId /\ idMap[x] = Producer(x)
          BY <1>13, <2>1, <5>1, MappedIsProducer DEF Unresolved
        <5>3. Linked(N) = Resolved(N)
          BY <5>1 DEF Linked
        <5>4. Resolved(N) = {idMap[x] : x \in N}
          BY <5>2 DEF Resolved
        <5> HIDE DEF N
        <5> QED
          BY <5>2, <5>3, <5>4
      <4>2. deferred'[i] = D
        BY <1>1 DEF OutcomeInv, FixupShape
      <4> QED
        BY <1>1, <1>15, <3>2, <4>1, <4>2
    <3> QED
      BY <3>1, <3>2
  <2> QED
    BY <1>7, <1>8, <2>1 DEF LinkShape
<1> HIDE DEF N, D
<1>18. FailureShape'
  <2>1. ASSUME faults' = 0, NEW r \in Ids, Kind(r) = "group", NEW x \in Ours(r)' \intersect Index
        PROVE  x \in Standing'
    BY <1>1, <1>9, <1>14, <1>15, <2>1 DEF OutcomeInv, FailureShape
  <2>2. ASSUME faults' = 0, NEW x \in rows' \intersect Index PROVE x \in Standing' \union {victim'}
    BY <1>1, <1>9, <2>2 DEF OutcomeInv, FailureShape
  <2> QED
    BY <1>8, <2>1, <2>2 DEF FailureShape
<1>19. ManagerShape'
  <2>1. ASSUME Distinct, faults' = 0, NEW r \in rows', Kind(r) = "user",
               NEW x \in Ours(r)' \intersect Index
        PROVE  \/ x \in Standing' \intersect Settled'
               \/ r \in Index /\ IsPost(x) /\ ops[x].bulkId \in ops[r].refs
    <3>1. CASE r # i
      <4>1. r \in rows /\ r \in Ids
        BY <1>1, <3>1 DEF OutcomeInv, StoreShape
      <4> QED
        BY <1>1, <1>7, <1>9, <1>15, <2>1, <3>1, <4>1 DEF OutcomeInv, ManagerShape
    <3>2. CASE r = i
      BY <1>14, <1>15, <2>1, <3>2 DEF N
    <3> QED
      BY <3>1, <3>2
  <2> QED
    BY <1>7, <1>8, <2>1 DEF ManagerShape
<1>20. VersionShape'
  <2>1. \A x, y : Before(x, y)' = Before(x, y)
    BY <1>7 DEF Before, Scheduled, Position
  <2>2. NoId \notin Index /\ NoId \notin BulkId
    BY BulkAssumption, BulkOrderAssumption DEF Index
  <2>3. ASSUME Distinct, others' = 0, NEW r \in (Standing' \intersect rows') \ unsure'
        PROVE  \E k \in About(r)' : /\ \A j \in About(r)' : j = k \/ Before(j, k)
                                    /\ version'[r] = reported'[k]
    <3>0. \A j \in Index : Target(j)' = IF ops[j].target \in BulkId THEN idMap'[ops[j].target] ELSE ops[j].target
      BY <1>7 DEF Target
    <3>1. Target(i)' = NoId
      BY <1>2, <2>2, <3>0
    <3>2. \A j \in Index : j # i => result'[j] = result[j]
      BY <1>1, <1>9
    <3>3. About(r)' = {j \in Index : result'[j] = "ok" /\ (j = r \/ Target(j)' = r)}
      BY <1>8 DEF About
    <3>4. CASE r # i
      <4>1. r \in (Standing \intersect rows) \ unsure /\ r \in Index
        BY <1>1, <1>9, <2>3, <3>4
      <4>2. PICK k \in About(r) : /\ \A j \in About(r) : j = k \/ Before(j, k)
                                  /\ version[r] = reported[k]
        BY <1>7, <2>3, <4>1 DEF OutcomeInv, VersionShape
      <4>3. ASSUME NEW j \in Index, j # i PROVE Target(j)' = r <=> Target(j) = r
        <5>1. CASE ops[j].target = b
          <6>1. Target(j) = idMap[b] /\ Target(j)' = i
            BY <1>1, <1>2, <3>0, <5>1 DEF Target, OutcomeInv, RecordShape
          <6>2. idMap[b] # r
            BY <1>1, <1>2, <1>9, <2>2, <2>3, <4>1, MappedIsProducer
          <6> QED
            BY <3>4, <6>1, <6>2
        <5>2. CASE ops[j].target # b
          BY <1>1, <1>2, <3>0, <5>2 DEF Target, OutcomeInv, RecordShape
        <5> QED
          BY <5>1, <5>2
      <4>4. About(r)' = About(r)
        <5>1. i \notin About(r)' /\ i \notin About(r)
          BY <1>9, <2>2, <3>1, <3>3, <3>4, <4>1 DEF About
        <5>2. \A j \in Index : j # i => (j \in About(r)' <=> j \in About(r))
          BY <3>2, <3>3, <4>3 DEF About
        <5>3. About(r)' \subseteq Index /\ About(r) \subseteq Index
          BY <3>3 DEF About
        <5> QED
          BY <5>1, <5>2, <5>3
      <4>5. k # i /\ k \in Index /\ reported'[k] = reported[k]
        BY <1>1, <1>9, <4>2 DEF About, OutcomeInv, StoreShape
      <4> QED
        BY <1>1, <4>2, <4>4, <4>5
    <3>5. CASE r = i
      <4>1. i \in About(r)'
        BY <1>1, <1>9, <3>3, <3>5
      <4>2. ASSUME NEW j \in About(r)', j # i PROVE FALSE
        <5>1. j \in Index /\ result[j] = "ok" /\ Target(j)' = i
          BY <3>2, <3>3, <3>5, <4>2
        <5>2. j \in Ran
          BY <5>1 DEF IndInv, AnswerShape
        <5>3. ops[j].target = b
          <6>1. ops[j].target \in BulkId
            BY <1>2, <3>0, <5>1, Operations, BulkAssumption, <2>2 DEF Operation, Index
          <6>2. idMap'[ops[j].target] = i
            BY <3>0, <5>1, <6>1
          <6>3. idMap[ops[j].target] # i
            BY <1>9, <2>2, <6>1 DEF OutcomeInv, RecordShape
          <6> QED
            BY <1>1, <6>1, <6>2, <6>3 DEF OutcomeInv, RecordShape
        <5> QED
          BY <1>1, <1>2, <1>7, <2>3, <5>1, <5>3, UsedIsSettled
      <4>3. version'[i] = 0 /\ reported'[i] = 0
        BY <1>1, <1>7 DEF OutcomeInv, StoreShape
      <4> QED
        BY <3>5, <4>1, <4>2, <4>3
    <3> QED
      BY <3>4, <3>5
  <2> QED
    BY <1>8, <2>1, <2>3 DEF VersionShape
<1> QED
  BY <1>10, <1>12, <1>16, <1>17, <1>18, <1>19, <1>20 DEF OutcomeInv
-----------------------------------------------------------------------------
(* PUT, PATCH, DELETE and other clients *)

LEMMA RanBefore ==
  ASSUME IndInv, NEW i \in Index, Turn(i), NEW j \in Ran
  PROVE  Before(j, i)
<1>1. ran \in Nat /\ ran + 1 \in DOMAIN order /\ i = order[ran + 1] /\ OrderShape
  BY DEF IndInv, OrderInv, OrderShape, Turn
<1>2. PICK l \in 1 .. ran : j = order[l]
  BY DEF Ran
<1>3. l \in DOMAIN order /\ l < ran + 1
  BY <1>1, <1>2 DEF OrderShape
<1>4. Position(j) = l /\ Position(i) = ran + 1
  BY <1>1, <1>2, <1>3, PositionsDiffer
<1> QED
  BY <1>1, <1>2, <1>3, <1>4 DEF Before, Scheduled

\* The answer to a PUT, PATCH or DELETE names the version of its target.
LEMMA UseKeepsVersions ==
  ASSUME IndInv, OutcomeInv, NEW i \in Index, Turn(i), NEW v, Succeed(i, v),
         UNCHANGED <<ops, order, idMap, others>>, Standing' = Standing, i \notin created,
         rows' \subseteq rows, unsure \subseteq unsure' \union {Target(i)},
         \A x \in rows' \intersect Index : x # Target(i) => version'[x] = version[x],
         Target(i) \in rows' => version'[Target(i)] = v
  PROVE  VersionShape'
<1>1. /\ result' = [result EXCEPT ![i] = "ok"] /\ reported' = [reported EXCEPT ![i] = v]
      /\ result \in [Index -> {"none", "ok", "error"}] /\ result[i] = "none"
      /\ reported \in [Index -> Nat]
  BY TurnIsNew DEF Succeed, IndInv, AnswerShape, OutcomeInv, StoreShape
<1>2. /\ Index' = Index /\ Distinct' = Distinct
      /\ \A x, y : Before(x, y)' = Before(x, y)
      /\ \A x : Target(x)' = Target(x)
  BY SameRequest DEF Before, Scheduled, Position, Target
<1>3. ASSUME Distinct, others' = 0, NEW r \in (Standing' \intersect rows') \ unsure'
      PROVE  \E k \in About(r)' : /\ \A j \in About(r)' : j = k \/ Before(j, k)
                                  /\ version'[r] = reported'[k]
  <2>1. r \in Standing \intersect rows /\ r \in Index /\ r # i
    BY RanInIndex DEF Standing
  <2>3. About(r)' = {j \in Index : result'[j] = "ok" /\ (j = r \/ Target(j) = r)}
    BY <1>2 DEF About
  <2>4. CASE Target(i) = r
    <3>1. i \in About(r)' /\ version'[r] = reported'[i]
      BY <1>1, <2>3, <2>4
    <3>2. ASSUME NEW j \in About(r)', j # i PROVE Before(j, i)
      <4>1. j \in Index /\ result[j] = "ok"
        BY <1>1, <2>3, <3>2
      <4>2. j \in Ran
        BY <4>1 DEF IndInv, AnswerShape
      <4> QED
        BY <4>2, RanBefore
    <3> QED
      BY <3>1, <3>2
  <2>5. CASE Target(i) # r
    <3>0. PICK k \in About(r) : /\ \A j \in About(r) : j = k \/ Before(j, k)
                                /\ version[r] = reported[k]
      <4>1. r \notin unsure
        BY <1>3, <2>5
      <4> QED
        BY <1>3, <2>1, <4>1 DEF OutcomeInv, VersionShape
    <3>1. About(r)' = About(r)
      BY <1>1, <2>1, <2>3, <2>5 DEF About
    <3>2. reported'[k] = reported[k] /\ version'[r] = version[r]
      BY <1>1, <2>1, <3>0, <2>5 DEF About
    <3> QED
      BY <3>0, <3>1, <3>2
  <2> QED
    BY <2>4, <2>5
<1> QED
  BY <1>2, <1>3 DEF VersionShape

LEMMA RemoveTurn ==
  ASSUME IndInv, OutcomeInv, NEW i \in Index, Turn(i), Remove(i)
  PROVE  OutcomeInv'
<1>0. PICK done \in SUBSET RollbackSteps :
        /\ Delete(Target(i), done) /\ "unrow" \in done
        /\ faults' = faults \/ faults' = faults + 1
  <2>1. ASSUME NEW done \in SUBSET {"unjoin", "empty"} PROVE done \union {"unrow"} \in SUBSET RollbackSteps
    BY DEF RollbackSteps
  <2>2. "unrow" \in RollbackSteps
    BY DEF RollbackSteps
  <2> QED
    BY <2>1, <2>2 DEF Remove
<1>1. /\ Target(i) \in rows /\ Succeed(i, 0) /\ AfterOperation(i, fixups)
      /\ UNCHANGED <<recordVars, deferred, readVersion>> /\ ops[i].form = "fine"
  BY DEF Remove
<1>2. /\ result \in [Index -> {"none", "ok", "error"}] /\ result[i] = "none"
      /\ result' = [result EXCEPT ![i] = "ok"] /\ reported' = [reported EXCEPT ![i] = 0]
      /\ faults' \in Nat /\ readVersion' \in Nat /\ reported \in [Index -> Nat]
      /\ (faults' = 0 => faults = 0)
  BY <1>0, <1>1, TurnIsNew DEF IndInv, AnswerShape, Succeed, OutcomeInv, RecordShape, StoreShape
<1>3. i \notin created
  BY <1>2 DEF OutcomeInv, RecordShape
<1>4. /\ \A j \in created : result'[j] = result[j]
      /\ \A j \in Index : result'[j] = "ok" => result[j] = "ok" \/ ops[j].form = "fine"
      /\ reported' \in [Index -> Nat]
  BY <1>1, <1>2, <1>3, RanInIndex
<1>5. /\ RecordShape' /\ FixupShape' /\ PendingShape' /\ CascadeShape'
      /\ Standing' = Standing /\ Ran \subseteq Ran' /\ Settled \subseteq Settled'
      /\ UNCHANGED <<ops, order, others>> /\ OutsideRollback
  BY <1>1, <1>2, <1>4, QuietTurn
<1>6. StoreShape' /\ LinkShape' /\ FailureShape' /\ ManagerShape'
  BY <1>0, <1>1, <1>2, <1>4, <1>5, DeletionKeeps DEF recordVars
<1>7. /\ rows' \subseteq rows /\ version' = version /\ unsure' = unsure
      /\ Target(i) \notin rows' /\ idMap' = idMap
  BY <1>0, <1>1, DeleteEffects DEF recordVars, OutcomeInv
<1>8. VersionShape'
  BY <1>1, <1>3, <1>5, <1>7, UseKeepsVersions
<1> QED
  BY <1>5, <1>6, <1>8 DEF OutcomeInv

LEMMA ChangeTurn ==
  ASSUME IndInv, OutcomeInv, NEW i \in Index, Turn(i), Change(i)
  PROVE  OutcomeInv'
<1>1. /\ ops[i].form = "fine" /\ AfterOperation(i, fixups)
      /\ UNCHANGED <<recordVars, deferred, readVersion, faults>>
      /\ unsure' = unsure \ {Target(i)}
  BY DEF Change
<1>2. PICK bump \in {0, 1} : Store(i, bump) /\ Succeed(i, version[Target(i)] + bump)
  BY DEF Change
<1>3. PICK r : r = Target(i)
  OBVIOUS
<1>4. /\ rows' = rows /\ touched' = touched \union {r}
      /\ r \in Ids /\ r \in rows /\ Kind(r) = ops[i].res
      /\ \A x \in Ids : x # r =>
           links'[x] = links[x] /\ theirs'[x] = theirs[x] /\ version'[x] = version[x]
      /\ version' \in [Ids -> Nat] /\ version'[r] = version[r] + bump
      /\ links' \in [Ids -> SUBSET (Ids \union {Text})] /\ theirs' \in [Ids -> SUBSET Ids]
      /\ \A x \in Index \ Ran : version'[x] = 0
      /\ \A x \in links'[r] \ theirs'[r] :
           x \in Linked(ops[i].refs) \/ (ops[i].res = "group" /\ x \in Ours(r))
  BY <1>2, <1>3, StoreEffects
<1>5. /\ \A x \in Ids : x # r => Ours(x)' = Ours(x)
      /\ \A x \in Ours(r)' : x \in Linked(ops[i].refs) \/ (ops[i].res = "group" /\ x \in Ours(r))
  BY <1>4 DEF Ours
<1>6. /\ result \in [Index -> {"none", "ok", "error"}] /\ result[i] = "none"
      /\ result' = [result EXCEPT ![i] = "ok"]
      /\ reported' = [reported EXCEPT ![i] = version'[r]]
      /\ faults' \in Nat /\ readVersion' \in Nat /\ reported \in [Index -> Nat]
      /\ version'[r] \in Nat
  BY <1>1, <1>2, <1>3, <1>4, TurnIsNew DEF IndInv, AnswerShape, Succeed, OutcomeInv, RecordShape, StoreShape
<1>7. i \notin created
  BY <1>6 DEF OutcomeInv, RecordShape
<1>8. /\ \A j \in created : result'[j] = result[j]
      /\ \A j \in Index : result'[j] = "ok" => result[j] = "ok" \/ ops[j].form = "fine"
  BY <1>1, <1>6, <1>7, RanInIndex
<1>9. /\ RecordShape' /\ FixupShape' /\ PendingShape' /\ CascadeShape'
      /\ Standing' = Standing /\ Ran \subseteq Ran' /\ Settled \subseteq Settled'
      /\ UNCHANGED <<ops, order, others>> /\ OutsideRollback
  BY <1>1, <1>6, <1>8, QuietTurn
<1>10. /\ Index' = Index /\ Ids' = Ids /\ Distinct' = Distinct
       /\ \A x : IsPost(x)' = IsPost(x) /\ Kind(x)' = Kind(x)
  BY <1>9, SameRequest
<1>11. /\ ops \in Inputs /\ ops[i].refs \in SUBSET BulkId /\ ~IsPost(i)
       /\ ops[i].res \in {"user", "group"}
  <2>1. ops[i].method \in {"PUT", "PATCH"}
    BY <1>2 DEF Store
  <2> QED
    BY <2>1, RanInIndex, Operations DEF Operation, IsPost
<1>12. \A x \in Linked(ops[i].refs) \intersect Index :
            /\ x \in Standing /\ IsPost(x) /\ ops[x].bulkId \in BulkId
            /\ ops[x].bulkId \in ops[i].refs
  BY <1>11, LinkedStand
<1>13. /\ rows \subseteq Ids /\ Standing \subseteq Ids /\ touched \subseteq Ids
       /\ unsure \subseteq Ids /\ rows \intersect Index \subseteq Ran
  BY RanInIndex DEF OutcomeInv, StoreShape, Standing, Ids
<1>14. StoreShape'
  <2>1. reported' \in [Index -> Nat]
    BY <1>6
  <2>2. touched' \subseteq Ids /\ unsure' \subseteq Ids
    BY <1>1, <1>4, <1>13
  <2> QED
    BY <1>4, <1>6, <1>9, <1>10, <1>13, <2>1, <2>2 DEF StoreShape
<1>15. LinkShape'
  BY <1>1, <1>4, <1>9, <1>13, LinksKept
<1>16. FailureShape'
  <2>1. victim' = victim /\ pc # "unjoin" /\ faults' = faults
    BY <1>1, <1>9 DEF recordVars, OutsideRollback, RollbackSteps
  <2>2. ASSUME faults' = 0, NEW q \in Ids, Kind(q) = "group", NEW x \in Ours(q)' \intersect Index
        PROVE  x \in Standing
    <3>1. CASE q = r
      BY <1>5, <1>12, <2>1, <2>2, <3>1 DEF OutcomeInv, FailureShape
    <3>2. CASE q # r
      BY <1>5, <2>1, <2>2, <3>2 DEF OutcomeInv, FailureShape
    <3> QED
      BY <3>1, <3>2
  <2>3. faults' = 0 => rows' \intersect Index \subseteq Standing \union {victim}
    BY <1>4, <2>1 DEF OutcomeInv, FailureShape
  <2> QED
    BY <1>9, <1>10, <2>1, <2>2, <2>3 DEF FailureShape
<1>17. ManagerShape'
  <2>1. ASSUME Distinct, faults' = 0, NEW q \in rows', Kind(q) = "user",
               NEW x \in Ours(q)' \intersect Index
        PROVE  \/ x \in Standing' \intersect Settled'
               \/ q \in Index /\ IsPost(x) /\ ops[x].bulkId \in ops[q].refs
    <3>1. CASE q = r
      <4>1. x \in Linked(ops[i].refs) \intersect Index
        BY <1>4, <1>5, <2>1, <3>1
      <4>2. x \in Standing /\ Needs(i, x)
        BY <1>1, <1>11, <1>12, <2>1, <4>1, ReferenceIsNeed
      <4>3. ran \in Nat /\ ran + 1 \in DOMAIN order /\ i = order[ran + 1]
        BY DEF IndInv, OrderInv, OrderShape, Turn
      <4>4. Complete(x, {order[l] : l \in 1 .. (ran + 1) - 1})
        BY <1>11, <2>1, <4>2, <4>3, UsesComeAfter
      <4>5. Complete(x, Ran)
        <5>1. (ran + 1) - 1 = ran
          BY <4>3
        <5> QED
          BY <4>4, <5>1 DEF Ran
      <4>6. pc' \in {"loop", "fix"}
        BY <1>1, AfterOperationFits DEF IndInv, AnswerShape
      <4>7. x \in Settled
        BY <2>1, <4>5, <4>6, TurnPasses
      <4> QED
        BY <1>9, <4>2, <4>7
    <3>2. CASE q # r
      BY <1>1, <1>4, <1>5, <1>9, <1>13, <2>1, <3>2 DEF OutcomeInv, ManagerShape
    <3> QED
      BY <3>1, <3>2
  <2> QED
    BY <1>9, <1>10, <2>1 DEF ManagerShape
<1>18. VersionShape'
  <2>1. idMap' = idMap
    BY <1>1 DEF recordVars
  <2>2. \A x \in rows' \intersect Index : x # r => version'[x] = version[x]
    BY <1>4, <1>13
  <2> QED
    BY <1>1, <1>2, <1>3, <1>4, <1>7, <1>9, <2>1, <2>2, UseKeepsVersions
<1> QED
  BY <1>9, <1>14, <1>15, <1>16, <1>17, <1>18 DEF OutcomeInv

-----------------------------------------------------------------------------
(* Steps of the control *)

LEMMA SamePass ==
  ASSUME OutcomeInv, UNCHANGED <<ops, recordVars, deferred>>, Ran' = Ran, Settled' = Settled,
         Elements(fixups') \subseteq Elements(fixups), Elements(ready') \subseteq Elements(ready),
         pc' \in {"loop", "done"} => pc \in {"loop", "done"}
  PROVE  PendingShape' /\ CascadeShape'
<1>1. /\ Index' = Index /\ Distinct' = Distinct /\ ops' = ops
      /\ \A x, S : Complete(x, S)' = Complete(x, S)
  BY SameRequest
<1>2. UNCHANGED <<created, rolledBack, failedIds>> /\ Standing' = Standing
  BY DEF recordVars, Standing
<1>3. PendingShape'
  BY <1>1 DEF OutcomeInv, PendingShape
<1>4. CascadeShape'
  BY <1>1, <1>2 DEF OutcomeInv, CascadeShape
<1> QED
  BY <1>3, <1>4

LEMMA ControlStep ==
  ASSUME IndInv, OutcomeInv,
         UNCHANGED <<ops, order, ran, recordVars, dbVars, deferred, result, reported, others>>,
         InPass' /\ ~last' => InPass /\ ~last,
         faults' = faults \/ faults' = faults + 1,
         readVersion' \in Nat, last' \in BOOLEAN,
         OutsideRollback \/ UNCHANGED <<pc, ready>>,
         FixupShape', PendingShape', CascadeShape'
  PROVE  OutcomeInv'
<1>2. Ran' = Ran /\ Settled \subseteq Settled'
  BY PassedGrows DEF IndInv, OrderInv
<1>3. faults' \in Nat /\ (faults' = 0 => faults = 0) /\ others' \in Nat
  <2>1. faults \in Nat /\ others \in Nat /\ others' = others
    BY DEF OutcomeInv, RecordShape
  <2> QED
    BY <2>1
<1>4. RecordShape'
  BY <1>3, RecordKept
<1>5. StoreShape' /\ LinkShape' /\ FailureShape' /\ ManagerShape' /\ VersionShape'
  BY <1>2, <1>3, RestKept
<1> QED
  BY <1>4, <1>5 DEF OutcomeInv

LEMMA NothingYet ==
  ASSUME IndInv, OutcomeInv, pc \in {"read", "order"}
  PROVE  ran = 0 /\ Ran = {} /\ created = {} /\ Standing = {} /\ fixups = <<>> /\ ready = <<>> /\ ~last
<1>1. ran = 0
  BY DEF IndInv, AnswerShape
<1>2. Ran = {}
  BY <1>1 DEF Ran
<1>3. created = {} /\ fixups \in Seq({})
  BY <1>2 DEF IndInv, AnswerShape
<1>4. fixups = <<>>
  BY <1>3
<1> QED
  BY <1>1, <1>2, <1>3, <1>4 DEF OutcomeInv, FixupShape, InPass, PassSteps, RollbackSteps, Standing

LEMMA BeforeLoop ==
  ASSUME IndInv, OutcomeInv, Refuse \/ Accept \/ Planned
  PROVE  OutcomeInv'
<1>1. /\ pc \in {"read", "order"} /\ pc' \in {"done", "order", "loop"}
      /\ UNCHANGED <<orderVars, answerVars, recordVars, fixVars, dbVars, envVars>>
  BY DEF Refuse, Accept, Planned
<1>2. ran = 0 /\ Ran = {} /\ created = {} /\ Standing = {} /\ fixups = <<>> /\ ready = <<>> /\ ~last
  BY <1>1, NothingYet
<1>3. UNCHANGED <<ops, order, ran, recordVars, dbVars, deferred, fixups, ready, last,
                  readVersion, result, reported, others, faults, created, rolledBack, failedIds>>
  BY <1>1 DEF orderVars, answerVars, recordVars, fixVars, envVars
<1>4. ~InPass' /\ ~InPass /\ OutsideRollback
  BY <1>1 DEF InPass, PassSteps, OutsideRollback, RollbackSteps
<1>5. Standing' = {} /\ Index' = Index
  BY <1>2, <1>3, SameRequest DEF Standing
<1>6. FixupShape'
  BY <1>1, <1>2, <1>3, <1>4, <1>5 DEF OutcomeInv, FixupShape
<1>7. Elements(fixups') = {} /\ Elements(ready') = {}
  BY <1>2, <1>3 DEF Elements
<1>8. PendingShape' /\ CascadeShape'
  BY <1>5, <1>7 DEF PendingShape, CascadeShape
<1>9. readVersion' \in Nat /\ last' \in BOOLEAN
  BY <1>3 DEF OutcomeInv, RecordShape, StoreShape
<1> QED
  BY <1>3, <1>4, <1>6, <1>8, <1>9, ControlStep

LEMMA PlanStep ==
  ASSUME IndInv, OutcomeInv, Plan
  PROVE  OutcomeInv'
<1>1. /\ pc = "order" /\ UNCHANGED <<pc, ran, answerVars, recordVars, fixVars, dbVars, envVars>>
      /\ ops' = ops
  BY DEF Plan, Schedule
<1>2. ran = 0 /\ Ran = {} /\ created = {} /\ Standing = {} /\ fixups = <<>> /\ ready = <<>> /\ ~last
  BY <1>1, NothingYet
<1>3. UNCHANGED <<ops, ran, recordVars, dbVars, deferred, fixups, ready, last,
                  readVersion, result, reported, others, faults, created, rolledBack, failedIds>>
  BY <1>1 DEF answerVars, recordVars, fixVars, envVars
<1>4. OutsideRollback
  BY <1>1 DEF OutsideRollback, RollbackSteps
<1>5. Standing' = {} /\ Index' = Index
  BY <1>2, <1>3, SameRequest DEF Standing
<1>6. FixupShape'
  BY <1>1, <1>2, <1>3, <1>5 DEF OutcomeInv, FixupShape, InPass, PassSteps
<1>7. Elements(fixups') = {} /\ Elements(ready') = {}
  BY <1>2, <1>3 DEF Elements
<1>8. PendingShape' /\ CascadeShape'
  BY <1>5, <1>7 DEF PendingShape, CascadeShape
<1>9. /\ readVersion' \in Nat /\ last' \in BOOLEAN /\ faults' \in Nat /\ others' \in Nat
      /\ faults' = faults /\ others' = others
  BY <1>3 DEF OutcomeInv, RecordShape, StoreShape
<1>10. RecordShape'
  BY <1>3, <1>4, <1>9, RecordKept
<1>11. StoreShape' /\ LinkShape' /\ FailureShape' /\ ManagerShape' /\ VersionShape'
  BY <1>2, <1>3, <1>4, <1>9, RestKept
<1> QED
  BY <1>6, <1>8, <1>10, <1>11 DEF OutcomeInv

LEMMA LoopEndsStep ==
  ASSUME IndInv, OutcomeInv, LoopEnds
  PROVE  OutcomeInv'
<1>1. /\ pc = "loop" /\ last' = TRUE /\ ready' = fixups /\ fixups' = <<>>
      /\ pc' = IF fixups = <<>> THEN "done" ELSE "fix"
      /\ UNCHANGED <<orderVars, answerVars, recordVars, deferred, readVersion, dbVars, envVars>>
  BY DEF LoopEnds
<1>2. UNCHANGED <<ops, order, ran, recordVars, dbVars, deferred,
                  readVersion, result, reported, others, faults, created, rolledBack, failedIds>>
  BY <1>1 DEF orderVars, answerVars, recordVars, envVars
<1>3. ~InPass /\ ready = <<>> /\ ~last /\ OutsideRollback
  BY <1>1 DEF OutcomeInv, FixupShape, InPass, PassSteps, OutsideRollback, RollbackSteps
<1>4. /\ Index' = Index /\ Distinct' = Distinct /\ Standing' = Standing
      /\ \A x, S : Complete(x, S)' = Complete(x, S)
  BY <1>2, SameRequest DEF Standing
<1>5. Ran' = Ran /\ Settled' = Settled /\ Passed = Ran
  <2>1. Ran' = Ran /\ Settled' = Settled
    BY <1>1, <1>2, <1>3, PassedGrows DEF IndInv, OrderInv
  <2> QED
    BY <1>3, <2>1 DEF Passed, Ran
<1>6. Elements(<<>>) = {}
  BY DEF Elements
<1>7. FixupShape'
  BY <1>1, <1>2, <1>3, <1>4, <1>6 DEF OutcomeInv, FixupShape, InPass, PassSteps, RollbackSteps
<1>8. PendingShape'
  BY <1>1, <1>4, <1>5, <1>6 DEF OutcomeInv, PendingShape, Settled
<1>9. CascadeShape'
  BY <1>1, <1>2, <1>4, <1>5 DEF OutcomeInv, CascadeShape
<1>10. readVersion' \in Nat
  BY <1>2 DEF OutcomeInv, StoreShape
<1> QED
  BY <1>1, <1>2, <1>3, <1>7, <1>8, <1>9, <1>10, ControlStep

\* The fixup at the head of ready.
LEMMA FirstIsCreated ==
  ASSUME IndInv, OutcomeInv, ready # <<>>
  PROVE  /\ First \in created /\ First \in Index /\ First \in Elements(ready)
         /\ Kind(First) = ops[First].res
         /\ Elements(ready) = {First} \union Elements(Tail(ready))
         /\ Tail(ready) \in Seq(Ran)
<1>1. ready \in Seq(Ran) /\ Elements(ready) \subseteq created
  BY DEF IndInv, AnswerShape, OutcomeInv, FixupShape
<1>2. 1 \in DOMAIN ready /\ Tail(ready) \in Seq(Ran) /\ Len(ready) \in Nat
  BY <1>1
<1>3. Elements(ready) = {First} \union Elements(Tail(ready))
  <2>1. /\ DOMAIN ready = 1 .. Len(ready) /\ Len(Tail(ready)) = Len(ready) - 1
        /\ DOMAIN Tail(ready) = 1 .. Len(ready) - 1
        /\ \A k \in DOMAIN Tail(ready) : Tail(ready)[k] = ready[k + 1]
    BY <1>1
  <2>2. ASSUME NEW k \in DOMAIN ready, k # 1
        PROVE  k - 1 \in DOMAIN Tail(ready) /\ Tail(ready)[k - 1] = ready[k]
    BY <1>2, <2>1, <2>2
  <2>3. \A k \in DOMAIN Tail(ready) : k + 1 \in DOMAIN ready
    BY <1>2, <2>1
  <2>4. \A x : x \in Elements(ready) <=> (x = First \/ x \in Elements(Tail(ready)))
    <3>1. ASSUME NEW x \in Elements(ready) PROVE x = First \/ x \in Elements(Tail(ready))
      <4>1. PICK k \in DOMAIN ready : x = ready[k]
        BY DEF Elements
      <4>2. CASE k = 1
        BY <4>1, <4>2 DEF First
      <4>3. CASE k # 1
        <5>1. k - 1 \in DOMAIN Tail(ready) /\ Tail(ready)[k - 1] = x
          BY <2>2, <4>1, <4>3
        <5> QED
          BY <5>1, Zenon DEF Elements
      <4> QED
        BY <4>2, <4>3
    <3>2. ASSUME NEW x \in Elements(Tail(ready)) PROVE x \in Elements(ready)
      <4>1. PICK k \in DOMAIN Tail(ready) : x = Tail(ready)[k]
        BY Zenon DEF Elements
      <4>2. k + 1 \in DOMAIN ready /\ x = ready[k + 1]
        BY <2>1, <2>3, <4>1
      <4> QED
        BY <4>2, Zenon DEF Elements
    <3>3. First \in Elements(ready)
      BY <1>2 DEF Elements, First
    <3> QED
      BY <3>1, <3>2, <3>3
  <2> QED
    BY <2>4
<1>4. First \in created /\ First \in Index
  BY <1>1, <1>3, RanInIndex
<1>5. First \notin OldId
  BY <1>4, BulkAssumption DEF Index
<1> QED
  BY <1>2, <1>3, <1>4, <1>5 DEF Kind

LEMMA PassControl ==
  ASSUME IndInv, OutcomeInv,
         \/ FixupOver \/ UpdateUserFails \/ StartCascade
         \/ \E b \in BulkId : AddMemberFails(b) \/ LoadUser(b),
         UNCHANGED dbVars
  PROVE  OutcomeInv'
<1>1. /\ pc \in {"fix", "update"} /\ pc' \in {"fix", "update", "undo", "cascade"}
      /\ UNCHANGED <<orderVars, last, others, answerVars, recordVars, deferred, fixups, dbVars>>
      /\ (faults' = faults \/ faults' = faults + 1)
      /\ ready' = ready \/ FixupOver
      /\ readVersion' = readVersion \/ \E b \in BulkId : LoadUser(b)
      /\ pc' = "update" => \E b \in BulkId : LoadUser(b)
      /\ pc' = "cascade" => StartCascade
      /\ pc' = "undo" => pc = "update" \/ (ready' = ready /\ First \in Standing)
  <2>1. CASE FixupOver
    BY <2>1 DEF FixupOver, Fixing
  <2>2. CASE UpdateUserFails
    BY <2>2 DEF UpdateUserFails, Fixing, NothingDone
  <2>3. CASE StartCascade
    BY <2>3 DEF StartCascade, Fixing
  <2>4. ASSUME NEW b \in BulkId, AddMemberFails(b)
        PROVE  /\ pc = "fix" /\ pc' = "undo"
               /\ UNCHANGED <<orderVars, last, others, answerVars, recordVars, deferred, fixups,
                              ready, readVersion>>
               /\ (faults' = faults \/ faults' = faults + 1)
               /\ ready # <<>> /\ First \notin rolledBack
    BY <2>4 DEF AddMemberFails, Fixing, NothingDone
  <2>5. ASSUME NEW b \in BulkId, LoadUser(b)
        PROVE  /\ pc = "fix" /\ pc' \in {"update", "undo"}
               /\ UNCHANGED <<orderVars, last, others, answerVars, recordVars, deferred, fixups, dbVars,
                              ready>>
               /\ (faults' = faults \/ faults' = faults + 1)
               /\ ready # <<>> /\ First \notin rolledBack
    BY <2>5 DEF LoadUser, Fixing
  <2>6. ready # <<>> /\ First \notin rolledBack => First \in Standing
    BY FirstIsCreated DEF Standing
  <2> QED
    BY <2>1, <2>2, <2>3, <2>4, <2>5, <2>6
<1>2. UNCHANGED <<ops, order, ran, recordVars, dbVars, deferred, fixups, last,
                  result, reported, others, created, rolledBack, failedIds, idMap>>
  BY <1>1 DEF orderVars, answerVars, recordVars
<1>3. UNCHANGED <<version, rows>>
  BY <1>1 DEF dbVars
<1>4. InPass /\ InPass' /\ OutsideRollback
  BY <1>1 DEF InPass, PassSteps, OutsideRollback, RollbackSteps
<1>5. Ran' = Ran /\ Settled' = Settled
  BY <1>2, <1>4, PassedGrows DEF IndInv, OrderInv
<1>6. Index' = Index /\ Standing' = Standing
  BY <1>2, SameRequest DEF Standing
<1>7. /\ Elements(ready') \subseteq Elements(ready)
      /\ \A i \in Standing : deferred[i] # {} => i \in Elements(fixups) \union Elements(ready')
  <2>1. CASE ready' = ready
    BY <2>1 DEF OutcomeInv, FixupShape
  <2>2. CASE FixupOver
    <3>1. /\ ready # <<>> /\ ready' = Tail(ready)
          /\ First \in rolledBack \/ deferred[First] = {}
      BY <2>2 DEF FixupOver
    <3>2. Elements(ready) = {First} \union Elements(Tail(ready))
      BY <3>1, FirstIsCreated
    <3> QED
      BY <3>1, <3>2 DEF OutcomeInv, FixupShape, Standing
  <2> QED
    BY <1>1, <2>1, <2>2
<1>8. readVersion' \in Nat
  <2>1. ASSUME NEW b \in BulkId, LoadUser(b) PROVE readVersion' = readVersion \/ (readVersion' = version[First] /\ First \in rows)
    BY <2>1 DEF LoadUser
  <2>2. version \in [Ids -> Nat] /\ rows \subseteq Ids /\ readVersion \in Nat
    BY DEF OutcomeInv, StoreShape
  <2> QED
    BY <1>1, <2>1, <2>2
<1>9. pc' = "cascade" => ready' = <<>>
  BY <1>1, <1>2 DEF StartCascade
<1>10. ASSUME pc' = "update"
       PROVE  /\ First' \in Standing /\ ops[First'].res = "user"
              /\ \A x \in deferred[First'] : idMap[x] # NoId
  <2>1. PICK b \in BulkId : LoadUser(b)
    BY <1>1, <1>10
  <2>2. /\ ready # <<>> /\ ready' = ready /\ First \notin rolledBack /\ Kind(First) = "user"
        /\ b \in deferred[First] /\ idMap[b] # NoId
    BY <1>10, <2>1 DEF LoadUser
  <2>3. First' = First
    BY <2>2 DEF First
  <2>4. First \in Standing /\ First \in Index /\ ops[First].res = "user"
    BY <2>2, FirstIsCreated DEF Standing
  <2>5. deferred[First] \subseteq ops[First].refs
    BY <2>4 DEF OutcomeInv, FixupShape
  <2>6. ASSUME NEW x \in deferred[First] PROVE x = b
    <3>1. \A c, d \in ops[First].refs : c = d
      BY <2>4, RanInIndex, Operations, BulkAssumption
    <3> QED
      BY <2>2, <2>5, <3>1
  <2> QED
    BY <2>2, <2>3, <2>4, <2>6
<1>11. pc' = "undo" => First' \in Standing
  BY <1>1 DEF First, FixupOver, OutcomeInv, FixupShape
<1>14. FixupShape'
  BY <1>1, <1>2, <1>4, <1>6, <1>7, <1>9, <1>10, <1>11 DEF OutcomeInv, FixupShape
<1>12. PendingShape' /\ CascadeShape'
  BY <1>1, <1>2, <1>5, <1>7, SamePass
<1>13. last' \in BOOLEAN
  BY <1>2 DEF OutcomeInv, RecordShape
<1> QED
  BY <1>1, <1>2, <1>4, <1>8, <1>12, <1>13, <1>14, ControlStep
LEMMA FixupsDoneStep ==
  ASSUME IndInv, OutcomeInv, FixupsDone
  PROVE  OutcomeInv'
<1>1. /\ pc = "cascade" /\ Orphaned = {} /\ pc' = IF last THEN "done" ELSE "loop"
      /\ UNCHANGED <<orderVars, last, others, result, reported, recordVars, deferred, fixups, ready,
                     readVersion, dbVars, faults>>
  BY DEF FixupsDone, Fixing
<1>2. UNCHANGED <<ops, order, ran, recordVars, dbVars, deferred, fixups, ready, last,
                  result, reported, others, created, rolledBack, failedIds, idMap>>
  BY <1>1 DEF orderVars, recordVars
<1>3. ~InPass' /\ InPass /\ ready = <<>> /\ last \in BOOLEAN /\ OutsideRollback
  BY <1>1 DEF InPass, PassSteps, OutsideRollback, RollbackSteps, OutcomeInv, FixupShape, RecordShape
<1>4. /\ Index' = Index /\ Distinct' = Distinct /\ Standing' = Standing
      /\ \A x, S : Complete(x, S)' = Complete(x, S)
  BY <1>2, SameRequest DEF Standing
<1>5. Ran' = Ran
  BY <1>2 DEF Ran
<1>6. FixupShape'
  BY <1>1, <1>2, <1>3, <1>4 DEF OutcomeInv, FixupShape
<1>7. Elements(ready') = {}
  BY <1>2, <1>3 DEF Elements
<1>8. PendingShape'
  BY <1>2, <1>4, <1>5, <1>7 DEF OutcomeInv, PendingShape
<1>9. \A x \in Standing : ops[x].refs \intersect failedIds = {}
  BY <1>1 DEF Orphaned, Standing
<1>10. CascadeShape'
  BY <1>2, <1>4, <1>9 DEF CascadeShape
<1>11. readVersion' \in Nat
  BY <1>1 DEF OutcomeInv, StoreShape
<1> QED
  BY <1>1, <1>2, <1>3, <1>6, <1>8, <1>10, <1>11, ControlStep
-----------------------------------------------------------------------------
(* Fixups *)

\* What a step of a pass leaves alone when it changes no record.
LEMMA PassStep ==
  ASSUME IndInv, OutcomeInv, pc \in {"fix", "update"},
         pc' = "fix" \/ (pc' = "undo" /\ First \in Standing),
         UNCHANGED <<orderVars, last, others, result, recordVars, fixups, ready>>,
         faults' = faults \/ faults' = faults + 1,
         deferred' \in [Index -> SUBSET BulkId],
         \A i \in Standing : deferred'[i] \subseteq deferred[i]
  PROVE  /\ RecordShape' /\ FixupShape' /\ PendingShape' /\ CascadeShape'
         /\ Standing' = Standing /\ Ran' = Ran /\ Settled' = Settled
         /\ UNCHANGED <<ops, order, idMap, victim, others>> /\ OutsideRollback
<1>1. UNCHANGED <<ops, order, ran, last, others, result, recordVars, created, rolledBack, failedIds, idMap,
                  victim, fixups, ready>>
  BY DEF orderVars, recordVars
<1>2. /\ Index' = Index /\ Distinct' = Distinct /\ Standing' = Standing
      /\ \A x, S : Complete(x, S)' = Complete(x, S)
  BY <1>1, SameRequest DEF Standing
<1>3. InPass /\ InPass' /\ OutsideRollback
  BY DEF InPass, PassSteps, OutsideRollback, RollbackSteps
<1>4. Ran' = Ran /\ Settled' = Settled
  BY <1>1, <1>3, PassedGrows DEF IndInv, OrderInv
<1>5. faults' \in Nat /\ others' \in Nat /\ last' \in BOOLEAN
  BY <1>1 DEF OutcomeInv, RecordShape
<1>6. RecordShape'
  BY <1>1, <1>3, <1>5, RecordKept
<1>7. FixupShape'
  <2>1. First' = First
    BY <1>1 DEF First
  <2> QED
    BY <1>1, <1>2, <1>3, <2>1 DEF OutcomeInv, FixupShape
<1>8. PendingShape'
  BY <1>1, <1>2, <1>4 DEF OutcomeInv, PendingShape
<1>9. CascadeShape'
  BY <1>1, <1>2, <1>4 DEF OutcomeInv, CascadeShape
<1> QED
  BY <1>1, <1>2, <1>3, <1>4, <1>6, <1>7, <1>8, <1>9

LEMMA AddMemberStep ==
  ASSUME IndInv, OutcomeInv, NEW b \in BulkId, AddMember(b)
  PROVE  OutcomeInv'
<1>1. /\ pc = "fix" /\ pc' = "fix" /\ ready # <<>> /\ Kind(First) = "group" /\ b \in deferred[First]
      /\ First \notin rolledBack /\ idMap[b] \in rows
      /\ links' = [links EXCEPT ![First] = @ \union {idMap[b]}]
      /\ theirs' = [theirs EXCEPT ![First] = @ \ {idMap[b]}]
      /\ deferred' = [deferred EXCEPT ![First] = @ \ {b}]
      /\ UNCHANGED <<orderVars, last, others, answerVars, recordVars, fixups, ready, readVersion, rows,
                     version, touched, unsure, faults>>
  BY DEF AddMember, Join, Fixing
<1>2. result' = result /\ reported' = reported
  BY <1>1 DEF answerVars
<1>3. PICK F : F = First
  OBVIOUS
<1>4. F \in Standing /\ F \in Index /\ F \in Ids
  BY <1>1, <1>3, FirstIsCreated DEF Standing, Ids
<1>5. /\ deferred \in [Index -> SUBSET BulkId] /\ deferred[F] \subseteq ops[F].refs
      /\ links \in [Ids -> SUBSET (Ids \union {Text})] /\ theirs \in [Ids -> SUBSET Ids] /\ rows \subseteq Ids
      /\ Standing \subseteq Index /\ Index \subseteq Ids
  BY <1>4, RanInIndex DEF OutcomeInv, FixupShape, StoreShape, Standing, Ids
<1>6. /\ deferred' \in [Index -> SUBSET BulkId] /\ deferred'[F] = deferred[F] \ {b}
      /\ \A x \in Index : x # F => deferred'[x] = deferred[x]
  BY <1>1, <1>3, <1>4, <1>5
<1>7. /\ links' \in [Ids -> SUBSET (Ids \union {Text})] /\ links'[F] = links[F] \union {idMap[b]}
      /\ theirs' \in [Ids -> SUBSET Ids] /\ theirs'[F] = theirs[F] \ {idMap[b]}
      /\ \A x \in Ids : x # F => links'[x] = links[x] /\ theirs'[x] = theirs[x]
      /\ \A x \in Ids : x # F => Ours(x)' = Ours(x)
      /\ Ours(F)' = Ours(F) \union {idMap[b]}
  BY <1>1, <1>3, <1>4, <1>5 DEF Ours
<1>8. idMap[b] # NoId /\ idMap[b] \in Standing
  <2>1. NoId \notin Ids
    BY BulkAssumption, BulkOrderAssumption DEF Ids, Index
  <2> QED
    BY <1>1, <1>5, <2>1 DEF OutcomeInv, RecordShape
<1>9. /\ RecordShape' /\ FixupShape' /\ PendingShape' /\ CascadeShape'
      /\ Standing' = Standing /\ Ran' = Ran /\ Settled' = Settled
      /\ UNCHANGED <<ops, order, idMap, victim, others>> /\ OutsideRollback
  <2>2. \A i \in Standing : deferred'[i] \subseteq deferred[i]
    BY <1>5, <1>6
  <2> QED
    BY <1>1, <1>2, <1>6, <2>2, PassStep
<1>10. /\ Index' = Index /\ Ids' = Ids /\ Declared' = Declared /\ Distinct' = Distinct
       /\ \A x : Producer(x)' = Producer(x)
       /\ \A x : IsPost(x)' = IsPost(x) /\ Kind(x)' = Kind(x)
  BY <1>9, SameRequest
<1>11. StoreShape'
  BY <1>1, <1>2, <1>7, <1>9, <1>10 DEF OutcomeInv, StoreShape
<1>12. LinkShape'
  <2>1. ASSUME Distinct, NEW j \in Standing \ touched
        PROVE  /\ j \in rows
               /\ ops[j].refs \subseteq Declared \ {ops[j].bulkId} =>
                    links'[j] = {Producer(x) : x \in ops[j].refs \ deferred'[j]}
    <3>1. CASE j # F
      BY <1>5, <1>6, <1>7, <2>1, <3>1 DEF OutcomeInv, LinkShape
    <3>2. CASE j = F
      <4>1. idMap[b] = Producer(b)
        BY <1>8, <2>1, MappedIsProducer
      <4>2. b \in ops[F].refs /\ ops[F].refs \ deferred'[F] = (ops[F].refs \ deferred[F]) \union {b}
        BY <1>1, <1>3, <1>5, <1>6
      <4>3. /\ F \in rows
            /\ ops[F].refs \subseteq Declared \ {ops[F].bulkId} =>
                 links[F] = {Producer(x) : x \in ops[F].refs \ deferred[F]}
        BY <2>1, <3>2 DEF OutcomeInv, LinkShape
      <4>4. \A y : y \in {Producer(x) : x \in ops[F].refs \ deferred'[F]}
                     <=> y \in {Producer(x) : x \in ops[F].refs \ deferred[F]} \/ y = Producer(b)
        BY <4>2
      <4>5. {Producer(x) : x \in ops[F].refs \ deferred'[F]} =
              {Producer(x) : x \in ops[F].refs \ deferred[F]} \union {Producer(b)}
        BY <4>4
      <4> QED
        BY <1>7, <3>2, <4>1, <4>3, <4>5
    <3> QED
      BY <3>1, <3>2
  <2> QED
    BY <1>1, <1>9, <1>10, <2>1 DEF LinkShape
<1>13. FailureShape'
  <2>0. pc # "unjoin"
    BY <1>1
  <2>1. ASSUME faults' = 0, NEW q \in Ids, Kind(q) = "group", NEW x \in Ours(q)' \intersect Index
        PROVE  x \in Standing
    BY <1>1, <1>7, <1>8, <1>9, <2>0, <2>1 DEF OutcomeInv, FailureShape
  <2> QED
    BY <1>1, <1>9, <1>10, <2>1 DEF OutcomeInv, FailureShape
<1>14. ManagerShape'
  <2>1. ASSUME Distinct, faults' = 0, NEW q \in rows', Kind(q) = "user",
               NEW x \in Ours(q)' \intersect Index
        PROVE  \/ x \in Standing \intersect Settled
               \/ q \in Index /\ IsPost(x) /\ ops[x].bulkId \in ops[q].refs
    <3>1. q # F /\ q \in rows /\ q \in Ids
      BY <1>1, <1>3, <1>5, <2>1
    <3> QED
      BY <1>1, <1>7, <1>9, <2>1, <3>1 DEF OutcomeInv, ManagerShape
  <2> QED
    BY <1>9, <1>10, <2>1 DEF ManagerShape
<1>15. VersionShape'
  <2>1. \A r : About(r)' = About(r)
    BY <1>2, <1>9, AboutKept
  <2>2. \A r \in (Standing' \intersect rows') \ unsure' : r \in (Standing \intersect rows) \ unsure
    BY <1>1, <1>9
  <2>3. version' = version
    BY <1>1
  <2> QED
    BY <1>2, <1>9, <2>1, <2>2, <2>3, VersionsKept
<1> QED
  BY <1>9, <1>11, <1>12, <1>13, <1>14, <1>15 DEF OutcomeInv

\* Operations whose path stands for a resource that was created.
LEMMA TargetOfUse ==
  ASSUME IndInv, OutcomeInv, NEW j \in Index, NEW r \in Index, Target(j) = r
  PROVE  /\ ops[j].target = ops[r].bulkId /\ ops[r].bulkId \in BulkId
         /\ IsPost(r) /\ r \in Standing /\ ~IsPost(j)
<1>1. ops \in Inputs /\ r \notin OldId /\ r # NoId /\ NoId \notin BulkId
  BY RanInIndex, BulkAssumption, BulkOrderAssumption DEF Index
<1>2. ops[j].target \in BulkId \union OldId \union {NoId} /\ (ops[j].method = "POST" => ops[j].target = NoId)
  BY <1>1, Operations DEF Operation
<1>3. ops[j].target \in BulkId /\ idMap[ops[j].target] = r
  BY <1>1, <1>2 DEF Target
<1>4. r \in Standing /\ ops[r].bulkId = ops[j].target
  BY <1>1, <1>3 DEF OutcomeInv, RecordShape
<1>5. IsPost(r)
  BY <1>4 DEF OutcomeInv, RecordShape, Standing
<1> QED
  BY <1>1, <1>2, <1>3, <1>4, <1>5 DEF IsPost

LEMMA PostHasNoTarget ==
  ASSUME IndInv, NEW i \in Index, IsPost(i), NEW r \in Index
  PROVE  Target(i) = NoId /\ Target(i) # r
<1>1. ops[i].target = NoId
  BY RanInIndex, Operations DEF IsPost
<1> QED
  BY <1>1, BulkAssumption, BulkOrderAssumption DEF Target, Index

LEMMA UpdateUserStep ==
  ASSUME IndInv, OutcomeInv, NEW b \in BulkId, UpdateUser(b)
  PROVE  OutcomeInv'
<1>1. /\ pc = "update" /\ pc' = "fix" /\ b \in deferred[First]
      /\ First \in rows /\ version[First] = readVersion
      /\ links' = [links EXCEPT ![First] = {idMap[b]}]
      /\ theirs' = [theirs EXCEPT ![First] = {}]
      /\ version' = [version EXCEPT ![First] = @ + 1]
      /\ reported' = [reported EXCEPT ![First] = readVersion + 1]
      /\ deferred' = [deferred EXCEPT ![First] = {}]
      /\ UNCHANGED <<orderVars, last, others, errors, undone, result, recordVars, fixups, ready, readVersion,
                     rows, touched, unsure, faults>>
  BY DEF UpdateUser, SetManager, Fixing
<1>2. /\ ready # <<>> /\ First \in Standing /\ ops[First].res = "user" /\ idMap[b] # NoId
  BY <1>1 DEF IndInv, AnswerShape, OutcomeInv, FixupShape
<1>3. PICK F : F = First
  OBVIOUS
<1>4. /\ F \in Standing /\ F \in Index /\ F \in Ids /\ F \in Elements(ready) /\ Kind(F) = "user"
      /\ IsPost(F) /\ ops[F].bulkId \in BulkId /\ result[F] = "ok"
  BY <1>2, <1>3, FirstIsCreated DEF Ids, OutcomeInv, RecordShape, Standing
<1>5. /\ deferred \in [Index -> SUBSET BulkId] /\ deferred[F] \subseteq ops[F].refs
      /\ links \in [Ids -> SUBSET (Ids \union {Text})] /\ rows \subseteq Ids
      /\ theirs \in [Ids -> SUBSET Ids]
      /\ version \in [Ids -> Nat] /\ reported \in [Index -> Nat] /\ readVersion \in Nat
      /\ Standing \subseteq Index /\ Index \subseteq Ids
  BY <1>4, RanInIndex DEF OutcomeInv, FixupShape, StoreShape, Standing, Ids
<1>6. /\ deferred' \in [Index -> SUBSET BulkId] /\ deferred'[F] = {}
      /\ \A x \in Index : x # F => deferred'[x] = deferred[x]
  BY <1>1, <1>3, <1>4, <1>5
<1>7. idMap[b] \in Standing /\ ops[idMap[b]].bulkId = b /\ idMap[b] \in Index /\ IsPost(idMap[b])
      /\ b \in ops[F].refs
  BY <1>1, <1>2, <1>3, <1>5 DEF OutcomeInv, RecordShape, Standing
<1>8. /\ links' \in [Ids -> SUBSET (Ids \union {Text})] /\ links'[F] = {idMap[b]}
      /\ theirs' \in [Ids -> SUBSET Ids] /\ theirs'[F] = {}
      /\ \A x \in Ids : x # F => links'[x] = links[x] /\ theirs'[x] = theirs[x]
      /\ \A x \in Ids : x # F => Ours(x)' = Ours(x)
      /\ Ours(F)' = {idMap[b]}
  BY <1>1, <1>3, <1>4, <1>5, <1>7 DEF Ours
<1>9. /\ version' \in [Ids -> Nat] /\ version'[F] = readVersion + 1
      /\ \A x \in Ids : x # F => version'[x] = version[x]
      /\ reported' \in [Index -> Nat] /\ reported'[F] = readVersion + 1
      /\ \A x \in Index : x # F => reported'[x] = reported[x]
  BY <1>1, <1>3, <1>4, <1>5
<1>10. /\ RecordShape' /\ FixupShape' /\ PendingShape' /\ CascadeShape'
       /\ Standing' = Standing /\ Ran' = Ran /\ Settled' = Settled
       /\ UNCHANGED <<ops, order, idMap, victim, others>> /\ OutsideRollback
  <2>2. \A i \in Standing : deferred'[i] \subseteq deferred[i]
    BY <1>5, <1>6
  <2> QED
    BY <1>1, <1>6, <2>2, PassStep
<1>11. /\ Index' = Index /\ Ids' = Ids /\ Declared' = Declared /\ Distinct' = Distinct
       /\ \A x : Producer(x)' = Producer(x)
       /\ \A x : IsPost(x)' = IsPost(x) /\ Kind(x)' = Kind(x)
  BY <1>10, SameRequest
<1>12. StoreShape'
  <2>1. F \in Ran
    BY <1>4 DEF Standing, IndInv, AnswerShape
  <2>2. \A x \in Index \ Ran : version'[x] = 0
    BY <1>5, <1>9, <2>1 DEF OutcomeInv, StoreShape
  <2> QED
    BY <1>1, <1>5, <1>8, <1>9, <1>10, <1>11, <2>2 DEF OutcomeInv, StoreShape
<1>13. LinkShape'
  <2>1. ASSUME Distinct, NEW j \in Standing \ touched
        PROVE  /\ j \in rows
               /\ ops[j].refs \subseteq Declared \ {ops[j].bulkId} =>
                    links'[j] = {Producer(x) : x \in ops[j].refs \ deferred'[j]}
    <3>1. CASE j # F
      BY <1>5, <1>6, <1>8, <2>1, <3>1 DEF OutcomeInv, LinkShape
    <3>2. CASE j = F
      <4>1. idMap[b] = Producer(b)
        BY <1>2, <2>1, MappedIsProducer
      <4>2. \A c, d \in ops[F].refs : c = d
        BY <1>2, <1>3, <1>4, RanInIndex, Operations, BulkAssumption
      <4>3. ops[F].refs \ deferred'[F] = {b}
        BY <1>6, <1>7, <4>2
      <4> QED
        BY <1>1, <1>3, <1>8, <3>2, <4>1, <4>3
    <3> QED
      BY <3>1, <3>2
  <2> QED
    BY <1>1, <1>10, <1>11, <2>1 DEF LinkShape
<1>14. FailureShape'
  <2>1. ASSUME faults' = 0, NEW q \in Ids, Kind(q) = "group", NEW x \in Ours(q)' \intersect Index
        PROVE  x \in Standing
    <3>1. q # F /\ pc # "unjoin"
      BY <1>1, <1>4, <2>1
    <3> QED
      BY <1>1, <1>8, <1>10, <2>1, <3>1 DEF OutcomeInv, FailureShape
  <2> QED
    BY <1>1, <1>10, <1>11, <2>1 DEF OutcomeInv, FailureShape
<1>15. ManagerShape'
  <2>1. ASSUME Distinct, faults' = 0, NEW q \in rows', Kind(q) = "user",
               NEW x \in Ours(q)' \intersect Index
        PROVE  \/ x \in Standing \intersect Settled
               \/ q \in Index /\ IsPost(x) /\ ops[x].bulkId \in ops[q].refs
    <3>1. CASE q = F
      BY <1>4, <1>7, <1>8, <2>1, <3>1
    <3>2. CASE q # F
      <4>1. q \in rows /\ q \in Ids
        BY <1>1, <1>5, <2>1
      <4> QED
        BY <1>1, <1>8, <1>10, <2>1, <3>2, <4>1 DEF OutcomeInv, ManagerShape
    <3> QED
      BY <3>1, <3>2
  <2> QED
    BY <1>10, <1>11, <2>1 DEF ManagerShape
<1>16. VersionShape'
  <2>1. \A r : About(r)' = About(r)
    BY <1>1, <1>10, AboutKept
  <2>2. \A x, y : Before(x, y)' = Before(x, y)
    BY <1>10 DEF Before, Scheduled, Position
  <2>3. ASSUME Distinct, others' = 0, NEW r \in (Standing' \intersect rows') \ unsure'
        PROVE  \E k \in About(r) : /\ \A j \in About(r) : j = k \/ Before(j, k)
                                   /\ version'[r] = reported'[k]
    <3>1. r \in (Standing \intersect rows) \ unsure /\ r \in Index /\ r \in Ids
      BY <1>1, <1>5, <1>10
    <3>2. CASE r = F
      <4>1. F \in About(F)
        BY <1>4 DEF About
      <4>2. ASSUME NEW j \in About(F), j # F PROVE FALSE
        <5>1. j \in Index /\ result[j] = "ok" /\ Target(j) = F
          BY <4>2 DEF About
        <5>2. ops[j].target = ops[F].bulkId
          BY <1>4, <5>1, TargetOfUse
        <5>3. F \in Settled
          BY <1>4, <2>3, <5>1, <5>2, UsedIsSettled
        <5> QED
          BY <1>4, <2>3, <5>3 DEF OutcomeInv, PendingShape
      <4> QED
        BY <1>9, <3>2, <4>1, <4>2
    <3>3. CASE r # F
      <4>1. PICK k \in About(r) : /\ \A j \in About(r) : j = k \/ Before(j, k)
                                  /\ version[r] = reported[k]
        BY <1>10, <2>3, <3>1 DEF OutcomeInv, VersionShape
      <4>2. k \in Index /\ k # F
        BY <1>4, <3>1, <3>3, PostHasNoTarget DEF About
      <4> QED
        BY <1>9, <3>1, <3>3, <4>1, <4>2
    <3> QED
      BY <3>2, <3>3
  <2> QED
    BY <1>11, <2>1, <2>2, <2>3 DEF VersionShape
<1> QED
  BY <1>10, <1>12, <1>13, <1>14, <1>15, <1>16 DEF OutcomeInv

\* A fixup that has taken effect although an error is reported.
LEMMA FixupFails ==
  ASSUME IndInv, OutcomeInv, UpdateUserFails \/ \E b \in BulkId : AddMemberFails(b)
  PROVE  OutcomeInv'
<1>1. CASE UNCHANGED dbVars
  BY <1>1, PassControl
<1>2. CASE ~UNCHANGED dbVars
  <2>1. /\ pc \in {"fix", "update"} /\ pc' = "undo" /\ First \in Standing
        /\ UNCHANGED <<orderVars, last, others, answerVars, recordVars, deferred, fixups, ready,
                       readVersion, rows>>
        /\ faults' = faults + 1 /\ touched' = touched \union {First}
        /\ \E b \in BulkId :
             \/ /\ idMap[b] \in Ids
                /\ links' = [links EXCEPT ![First] = @ \union {idMap[b]}]
                /\ theirs' = [theirs EXCEPT ![First] = @ \ {idMap[b]}]
                /\ version' = version /\ unsure' = unsure
             \/ /\ idMap[b] \in Ids
                /\ links' = [links EXCEPT ![First] = {idMap[b]}]
                /\ theirs' = [theirs EXCEPT ![First] = {}]
                /\ version' = [version EXCEPT ![First] = @ + 1]
                /\ unsure' = unsure \union {First}
    <3>1. CASE UpdateUserFails
      <4>1. PICK b \in deferred[First] : SetManager(b)
        BY <1>2, <3>1 DEF UpdateUserFails, NothingDone
      <4>2. /\ touched' = touched \union {First} /\ unsure' = unsure \union {First}
            /\ faults' = faults + 1 /\ pc = "update" /\ pc' = "undo"
            /\ UNCHANGED <<orderVars, last, others, answerVars, recordVars, deferred, fixups, ready,
                           readVersion>>
        BY <1>2, <3>1 DEF UpdateUserFails, NothingDone, Fixing
      <4>3. First \in Standing /\ idMap[b] # NoId /\ deferred[First] \subseteq BulkId
        BY <4>1, <4>2, RanInIndex DEF OutcomeInv, FixupShape, Standing
      <4>4. idMap[b] \in Standing /\ Standing \subseteq Ids
        BY <4>1, <4>3, RanInIndex DEF OutcomeInv, RecordShape, Standing, Ids
      <4> QED
        BY <4>1, <4>2, <4>3, <4>4 DEF SetManager
    <3>2. ASSUME NEW b \in BulkId, AddMemberFails(b)
          PROVE  /\ pc = "fix" /\ pc' = "undo" /\ First \in Standing
                 /\ UNCHANGED <<orderVars, last, others, answerVars, recordVars, deferred, fixups, ready,
                                readVersion, rows>>
                 /\ faults' = faults + 1 /\ touched' = touched \union {First}
                 /\ idMap[b] \in Ids
                 /\ links' = [links EXCEPT ![First] = @ \union {idMap[b]}]
                 /\ theirs' = [theirs EXCEPT ![First] = @ \ {idMap[b]}]
                 /\ version' = version /\ unsure' = unsure
      <4>1. /\ idMap[b] \in rows /\ Join(First, idMap[b])
            /\ touched' = touched \union {First} /\ unsure' = unsure /\ faults' = faults + 1
        BY <1>2, <3>2 DEF AddMemberFails, NothingDone
      <4>2. /\ pc = "fix" /\ pc' = "undo" /\ ready # <<>> /\ First \notin rolledBack
            /\ UNCHANGED <<orderVars, last, others, answerVars, recordVars, deferred, fixups, ready,
                           readVersion>>
        BY <3>2 DEF AddMemberFails, Fixing
      <4>3. First \in Standing /\ rows \subseteq Ids
        BY <4>2, FirstIsCreated DEF Standing, OutcomeInv, StoreShape
      <4> QED
        BY <4>1, <4>2, <4>3 DEF Join
    <3> QED
      BY <3>1, <3>2
  <2>2. PICK F : F = First
    OBVIOUS
  <2>3. F \in Ids /\ F \in Ran /\ Standing \subseteq Ids
    BY <2>1, <2>2, RanInIndex DEF Standing, Ids, IndInv, AnswerShape
  <2>4. /\ faults' # 0 /\ faults \in Nat /\ readVersion' \in Nat /\ reported' \in [Index -> Nat]
        /\ result' = result /\ reported' = reported
    BY <2>1 DEF OutcomeInv, RecordShape, StoreShape, answerVars
  <2>5. /\ RecordShape' /\ FixupShape' /\ PendingShape' /\ CascadeShape'
        /\ Standing' = Standing /\ Ran' = Ran /\ Settled' = Settled
        /\ UNCHANGED <<ops, order, idMap, victim, others>> /\ OutsideRollback
    <3>1. deferred' \in [Index -> SUBSET BulkId] /\ \A i \in Standing : deferred'[i] \subseteq deferred[i]
      BY <2>1 DEF OutcomeInv, FixupShape
    <3> QED
      BY <2>1, <2>4, <3>1, PassStep
  <2>6. Ids' = Ids /\ Index' = Index /\ Index \subseteq Ids
    BY <2>5, SameRequest DEF Ids
  <2>7. /\ links \in [Ids -> SUBSET (Ids \union {Text})] /\ theirs \in [Ids -> SUBSET Ids]
        /\ version \in [Ids -> Nat] /\ touched \subseteq Ids /\ unsure \subseteq Ids
    BY DEF OutcomeInv, StoreShape
  <2>8. /\ links' \in [Ids -> SUBSET (Ids \union {Text})] /\ theirs' \in [Ids -> SUBSET Ids]
        /\ version' \in [Ids -> Nat] /\ unsure' \subseteq Ids /\ touched' = touched \union {F}
        /\ \A x \in Ids : x # F => links'[x] = links[x] /\ version'[x] = version[x]
        /\ version' = version \/ F \in unsure'
        /\ unsure \subseteq unsure'
    BY <2>1, <2>2, <2>3, <2>7
  <2>9. StoreShape'
    BY <2>1, <2>3, <2>4, <2>5, <2>6, <2>7, <2>8 DEF OutcomeInv, StoreShape
  <2>10. \A x \in (Standing \intersect rows') \ unsure' : x \in rows \ unsure /\ version'[x] = version[x]
    BY <2>1, <2>3, <2>8
  <2>11. LinkShape' /\ FailureShape' /\ ManagerShape' /\ VersionShape'
    BY <2>1, <2>3, <2>4, <2>5, <2>8, <2>10, FaultKeeps
  <2> QED
    BY <2>5, <2>9, <2>11 DEF OutcomeInv
<1> QED
  BY <1>1, <1>2

-----------------------------------------------------------------------------
(* Rollbacks *)

\* Nobody but the POST itself and its uses is about a resource.
LEMMA AboutOthers ==
  ASSUME IndInv, OutcomeInv, Distinct, NEW i \in created, TakeBack(i), ops' = ops,
         NEW r \in Standing, r # i
  PROVE  About(r)' = About(r)
<1>1. /\ idMap' = [idMap EXCEPT ![ops[i].bulkId] = NoId]
      /\ result' = result
  BY DEF TakeBack, answerVars
<1>2. /\ i \in Index /\ r \in Index /\ IsPost(i) /\ IsPost(r) /\ ops \in Inputs
      /\ ops[i].bulkId \in BulkId /\ ops[r].bulkId \in BulkId
      /\ idMap \in [BulkId -> Index \union {NoId}]
  BY RanInIndex DEF Standing, OutcomeInv, RecordShape
<1>3. ops[r].bulkId # ops[i].bulkId
  BY <1>2, OneProducer
<1>4. Index' = Index
  BY SameRequest
<1>5. r # NoId
  BY <1>2, BulkAssumption DEF Index
<1>6. ASSUME NEW j \in Index PROVE Target(j)' = r <=> Target(j) = r
  <2>1. CASE ops[j].target = ops[i].bulkId
    <3>1. Target(j)' = NoId
      BY <1>1, <1>2, <2>1 DEF Target
    <3>2. Target(j) # r
      BY <1>2, <1>3, <2>1, TargetOfUse
    <3> QED
      BY <1>5, <3>1, <3>2
  <2>2. CASE ops[j].target # ops[i].bulkId
    BY <1>1, <1>2, <2>2 DEF Target
  <2> QED
    BY <2>1, <2>2
<1>7. ASSUME NEW j \in Index
      PROVE  (result'[j] = "ok" /\ (j = r \/ Target(j)' = r)) <=> (result[j] = "ok" /\ (j = r \/ Target(j) = r))
  BY <1>1, <1>6
<1> QED
  BY <1>4, <1>7 DEF About

\* A rollback begins: the resource no longer stands, and it was not settled.
LEMMA TakeBackStep ==
  ASSUME IndInv, OutcomeInv, NEW i \in Standing, TakeBack(i), pc \in {"undo", "cascade"},
         Distinct => i \notin Settled, ready = <<>> \/ i = First,
         UNCHANGED <<orderVars, last, others>>
  PROVE  OutcomeInv'
<1> DEFINE b == ops[i].bulkId
<1>1. /\ rolledBack' = rolledBack \union {i} /\ failedIds' = failedIds \union {b}
      /\ idMap' = [idMap EXCEPT ![b] = NoId] /\ victim' = i /\ pc' = "unjoin"
      /\ UNCHANGED <<result, reported, created, ops, order, ran, last, others, deferred, fixups, ready,
                     readVersion, rows, version, links, touched, theirs, unsure, faults>>
  BY DEF TakeBack, orderVars, answerVars, dbVars
<1>2. pc \in PassSteps /\ pc' \in PassSteps /\ pc \notin RollbackSteps /\ pc' \in RollbackSteps
  BY <1>1 DEF PassSteps, RollbackSteps
<1>3. /\ i \in Index /\ i \in created /\ IsPost(i) /\ b \in BulkId /\ ops \in Inputs
      /\ created \subseteq Index /\ Standing \subseteq Index /\ i \notin rolledBack
      /\ idMap \in [BulkId -> Index \union {NoId}]
      /\ faults \in Nat /\ others \in Nat /\ last \in BOOLEAN
      /\ rolledBack \subseteq created /\ failedIds = {ops[k].bulkId : k \in rolledBack}
      /\ victim = NoId /\ NoId \notin Index
  BY <1>2, RanInIndex, BulkAssumption DEF Standing, OutcomeInv, RecordShape, Index
<1>4. Standing' = Standing \ {i}
  BY <1>1 DEF Standing
<1>5. /\ Index' = Index /\ Ids' = Ids /\ Distinct' = Distinct
      /\ \A x : IsPost(x)' = IsPost(x) /\ Kind(x)' = Kind(x)
      /\ \A x, S : Complete(x, S)' = Complete(x, S)
  BY <1>1, SameRequest
<1>6. InPass /\ InPass' /\ Ran' = Ran /\ Settled' = Settled
  <2>1. InPass /\ InPass'
    BY <1>2 DEF InPass
  <2>2. OrderShape /\ UNCHANGED <<ops, order, ran, last>>
    BY <1>1 DEF IndInv, OrderInv
  <2> QED
    BY ONLY <2>1, <2>2, PassedGrows
<1>7. \A x : Ours(x)' = Ours(x)
  BY <1>1 DEF Ours
<1>8. First' = First
  BY <1>1 DEF First
<1>9. RecordShape'
  <2>1. \A j \in created : result'[j] = IF j \in rolledBack' \ {victim'} THEN "error" ELSE "ok"
    <3>1. rolledBack' \ {victim'} = rolledBack /\ rolledBack \ {victim} = rolledBack
      BY <1>1, <1>3
    <3> QED
      BY <1>1, <3>1 DEF OutcomeInv, RecordShape
  <2>2. \A j \in Index : result'[j] = "ok" => ops[j].form = "fine"
    BY <1>1 DEF OutcomeInv, RecordShape
  <2>3. idMap' \in [BulkId -> Index \union {NoId}]
    BY <1>1, <1>3
  <2>4. ASSUME NEW c \in BulkId, idMap'[c] # NoId
        PROVE  idMap'[c] \in Standing' /\ ops[idMap'[c]].bulkId = c
    <3>1. c # b /\ idMap'[c] = idMap[c]
      BY <1>1, <1>3, <2>4
    <3>2. idMap[c] \in Standing /\ ops[idMap[c]].bulkId = c
      BY <2>4, <3>1 DEF OutcomeInv, RecordShape
    <3> QED
      BY <1>4, <3>1, <3>2
  <2>5. failedIds' = {ops'[k].bulkId : k \in rolledBack'}
    <3>1. failedIds' = {ops[k].bulkId : k \in rolledBack'}
      BY <1>1, <1>3
    <3>2. ops' = ops
      BY <1>1
    <3> QED
      BY ONLY <3>1, <3>2
  <2>6. rolledBack' \subseteq created /\ victim' \in rolledBack' \union {NoId}
    BY <1>1, <1>3
  <2>7. \A j \in created : IsPost(j) /\ ops[j].form = "fine" /\ ops[j].bulkId \in BulkId
    BY DEF OutcomeInv, RecordShape
  <2>8. /\ ops' = ops /\ created' = created /\ Index' = Index /\ \A x : IsPost(x)' = IsPost(x)
        /\ faults' \in Nat /\ others' \in Nat /\ last' \in BOOLEAN
    BY <1>1, <1>3, <1>5
  <2>9. /\ victim' = NoId <=> pc' \notin RollbackSteps
        /\ victim' = NoId \/ ready' = <<>> \/ victim' = First'
    BY <1>1, <1>2, <1>3, <1>8
  <2> QED
    BY ONLY <2>1, <2>2, <2>3, <2>4, <2>5, <2>6, <2>7, <2>8, <2>9 DEF RecordShape
<1>10. FixupShape'
  <2>1. /\ Elements(fixups') \subseteq created' /\ Elements(ready') \subseteq created'
        /\ deferred' \in [Index -> SUBSET BulkId]
    BY <1>1 DEF OutcomeInv, FixupShape
  <2>2. ASSUME NEW j \in Standing'
        PROVE  /\ deferred[j] \subseteq ops[j].refs
               /\ deferred[j] # {} => j \in Elements(fixups) \union Elements(ready)
    BY <1>4, <2>2 DEF OutcomeInv, FixupShape
  <2>3. last => fixups = <<>>
    BY DEF OutcomeInv, FixupShape
  <2> QED
    BY <1>1, <1>5, <1>6, <2>1, <2>2, <2>3 DEF FixupShape
<1>11. StoreShape'
  BY <1>1, <1>5, <1>6 DEF OutcomeInv, StoreShape
<1>12. LinkShape'
  BY <1>1, <1>4, LinksKept
<1>13. FailureShape'
  BY <1>1, <1>3, <1>4, <1>5, <1>7 DEF OutcomeInv, FailureShape
<1>14. PendingShape'
  BY <1>1, <1>5, <1>6 DEF OutcomeInv, PendingShape
<1>15. CascadeShape'
  <2>1. ASSUME Distinct, NEW x \in (Standing \ {i}) \intersect Settled
        PROVE  ops[x].refs \intersect failedIds' = {}
    <3>1. ops[x].refs \intersect failedIds = {}
      BY <2>1 DEF OutcomeInv, CascadeShape
    <3>2. b \notin ops[x].refs
      <4>1. SUFFICES ASSUME b \in ops[x].refs PROVE FALSE
        OBVIOUS
      <4>2. x \in Index /\ ops[x].form = "fine"
        BY <1>3, <2>1 DEF OutcomeInv, RecordShape, Standing
      <4>3. Needs(x, i)
        BY <1>3, <2>1, <4>1, <4>2, ReferenceIsNeed
      <4>4. Complete(x, Passed)
        BY <2>1 DEF Settled
      <4>5. Complete(i, Passed)
        BY <1>3, <4>3, <4>4, NeedsOfComplete
      <4> QED
        BY <1>3, <2>1, <4>5 DEF Settled
    <3> QED
      BY <1>1, <3>1, <3>2
  <2> QED
    BY <1>1, <1>4, <1>5, <1>6, <2>1 DEF CascadeShape
<1>16. ManagerShape'
  <2>1. Distinct => Standing \intersect Settled \subseteq Standing' \intersect Settled'
    BY <1>4, <1>6
  <2> QED
    BY <1>1, <1>7, <2>1, ManagersKept
<1>17. VersionShape'
  <2>1. ASSUME Distinct, NEW r \in (Standing' \intersect rows') \ unsure'
        PROVE  /\ r \in (Standing \intersect rows) \ unsure /\ About(r)' = About(r)
               /\ version'[r] = version[r]
               /\ \A k \in About(r) : reported'[k] = reported[k]
    <3>1. r \in (Standing \intersect rows) \ unsure /\ r # i
      BY <1>1, <1>4, <2>1
    <3>2. About(r)' = About(r)
      BY <1>1, <1>3, <2>1, <3>1, AboutOthers
    <3> QED
      BY <1>1, <3>1, <3>2
  <2>2. others' = 0 => others = 0
    BY <1>1
  <2> QED
    BY <1>1, <2>1, <2>2, VersionsKept
<1> QED
  BY <1>9, <1>10, <1>11, <1>12, <1>13, <1>14, <1>15, <1>16, <1>17 DEF OutcomeInv

\* Those that are taken back are the resource of a fixup that failed, and whoever
\* refers to what was taken back before.
LEMMA BeginsRollback ==
  ASSUME IndInv, OutcomeInv, UndoFixup \/ \E i \in Index : Cascade(i)
  PROVE  OutcomeInv'
<1>1. CASE UndoFixup
  <2>1. /\ pc = "undo" /\ TakeBack(First) /\ UNCHANGED <<orderVars, last, others>>
    BY <1>1 DEF UndoFixup, Fixing
  <2>2. ready # <<>>
    BY <2>1 DEF IndInv, AnswerShape
  <2>3. First \in Standing /\ First \in Elements(ready)
    BY <2>1, <2>2, FirstIsCreated DEF OutcomeInv, FixupShape
  <2>4. Distinct => First \notin Settled
    BY <2>3 DEF OutcomeInv, PendingShape
  <2> QED
    BY <2>1, <2>3, <2>4, TakeBackStep
<1>2. ASSUME NEW i \in Index, Cascade(i) PROVE OutcomeInv'
  <2>1. /\ pc = "cascade" /\ i \in Orphaned /\ TakeBack(i) /\ UNCHANGED <<orderVars, last, others>>
    BY <1>2 DEF Cascade, Fixing
  <2>2. ready = <<>>
    BY <2>1 DEF OutcomeInv, FixupShape
  <2>3. i \in Standing /\ ops[i].refs \intersect failedIds # {}
    BY <2>1 DEF Orphaned, Standing
  <2>4. Distinct => i \notin Settled
    BY <2>3 DEF OutcomeInv, CascadeShape
  <2> QED
    BY <2>1, <2>2, <2>3, <2>4, TakeBackStep
<1> QED
  BY <1>1, <1>2

\* What is being taken back was created by a POST and does not stand.
LEMMA VictimIsCreated ==
  ASSUME IndInv, OutcomeInv, pc \in RollbackSteps
  PROVE  /\ victim \in rolledBack /\ victim \in created /\ victim \in Index
         /\ victim \notin Standing /\ IsPost(victim) /\ NoId \notin Index
         /\ faults \in Nat /\ InPass
<1>1. victim \in rolledBack /\ rolledBack \subseteq created /\ faults \in Nat
  BY DEF OutcomeInv, RecordShape
<1>2. InPass
  BY DEF InPass, PassSteps
<1> QED
  BY <1>1, <1>2, RanInIndex, BulkAssumption DEF Standing, OutcomeInv, RecordShape, Index

\* The memberships go first, those in other groups and then its own.
LEMMA MembershipsGone ==
  ASSUME IndInv, OutcomeInv, RemoveFromGroups \/ RemoveMembers
  PROVE  OutcomeInv'
<1>1. /\ pc \in {"unjoin", "empty"} /\ pc' \in {"empty", "unrow"}
      /\ UNCHANGED <<orderVars, last, others, answerVars, recordVars, deferred, fixups, ready,
                     readVersion, version, unsure, rows>>
      /\ \/ RemoveFromGroups /\ pc = "unjoin"
         \/ RemoveMembers /\ pc = "empty"
  BY DEF RemoveFromGroups, RemoveMembers, Fixing, Attempt
<1>2. UNCHANGED <<ops, order, ran, result, reported, created, rolledBack, failedIds, idMap, victim>>
  BY <1>1 DEF orderVars, answerVars, recordVars
<1>3. pc \in RollbackSteps /\ pc' \in RollbackSteps /\ pc' \in PassSteps
  BY <1>1 DEF RollbackSteps, PassSteps
<1>4. /\ victim \in Index /\ victim \notin Standing /\ faults \in Nat /\ InPass /\ NoId \notin Index
  BY <1>3, VictimIsCreated
<1>5. /\ Index' = Index /\ Ids' = Ids /\ Distinct' = Distinct /\ Standing' = Standing
      /\ \A x : IsPost(x)' = IsPost(x) /\ Kind(x)' = Kind(x)
      /\ \A x, S : Complete(x, S)' = Complete(x, S)
  BY <1>2, SameRequest DEF Standing
<1>6. InPass' /\ Ran' = Ran /\ Settled' = Settled
  <2>1. InPass'
    BY <1>3 DEF InPass
  <2>2. OrderShape /\ UNCHANGED <<ops, order, ran, last>> /\ InPass
    BY <1>1, <1>2, <1>4 DEF IndInv, OrderInv
  <2> QED
    BY ONLY <2>1, <2>2, PassedGrows
<1>7. First' = First
  BY <1>1 DEF First
<1>8. /\ links \in [Ids -> SUBSET (Ids \union {Text})] /\ theirs \in [Ids -> SUBSET Ids]
      /\ touched \subseteq Ids
  BY DEF OutcomeInv, StoreShape
<1>9. /\ links' \in [Ids -> SUBSET (Ids \union {Text})] /\ theirs' \in [Ids -> SUBSET Ids]
      /\ touched \subseteq touched' /\ touched' \subseteq Ids
      /\ \A x \in Ids : Ours(x)' \subseteq Ours(x)
      /\ \A x \in Ids : links'[x] = links[x] \/ x \in touched' \/ x = victim
      /\ (faults' = faults /\ pc = "unjoin") => \A x \in Ids : Kind(x) = "group" => victim \notin Ours(x)'
      /\ faults' = faults \/ faults' = faults + 1
  <2>1. CASE UNCHANGED <<links, theirs, touched>> /\ faults' = faults + 1
    BY <1>4, <1>8, <2>1 DEF Ours
  <2>2. CASE /\ pc = "unjoin" /\ faults' = faults
             /\ links' = Forgotten(links, victim) /\ theirs' = Forgotten(theirs, victim)
             /\ touched' = touched \union GroupsOf(victim)
    <3>1. /\ links' \in [Ids -> SUBSET (Ids \union {Text})] /\ theirs' \in [Ids -> SUBSET Ids]
          /\ \A x \in Ids : /\ links'[x] = IF Kind(x) = "group" THEN links[x] \ {victim} ELSE links[x]
                            /\ theirs'[x] = IF Kind(x) = "group" THEN theirs[x] \ {victim} ELSE theirs[x]
      BY <1>8, <2>2 DEF Forgotten
    <3>2. ASSUME NEW x \in Ids \ touched'
          PROVE  links'[x] = links[x]
      <4>1. ~(Kind(x) = "group" /\ victim \in links[x])
        BY <2>2, <3>2 DEF GroupsOf
      <4> QED
        BY <3>1, <4>1
    <3>3. \A x \in Ids : Ours(x)' \subseteq Ours(x)
      BY <3>1 DEF Ours
    <3>4. \A x \in Ids : Kind(x) = "group" => victim \notin Ours(x)'
      BY <3>1 DEF Ours
    <3>5. GroupsOf(victim) \subseteq Ids
      BY DEF GroupsOf
    <3> QED
      BY <1>8, <2>2, <3>1, <3>2, <3>3, <3>4, <3>5
  <2>3. CASE /\ pc = "empty" /\ faults' = faults
             /\ links' = Emptied(links, victim) /\ theirs' = Emptied(theirs, victim)
             /\ touched' = touched
    <3>1. /\ links' \in [Ids -> SUBSET (Ids \union {Text})] /\ theirs' \in [Ids -> SUBSET Ids]
          /\ \A x \in Ids : /\ links'[x] = IF x = victim /\ Kind(victim) = "group" THEN {} ELSE links[x]
                            /\ theirs'[x] = IF x = victim /\ Kind(victim) = "group" THEN {} ELSE theirs[x]
      BY <1>8, <2>3 DEF Emptied
    <3> QED
      BY <1>8, <2>3, <3>1 DEF Ours
  <2> QED
    BY <1>1, <2>1, <2>2, <2>3 DEF RemoveFromGroups, RemoveMembers, Attempt
<1>10. faults' \in Nat /\ (faults' = 0 => faults = 0 /\ faults' = faults)
       /\ others' \in Nat /\ last' \in BOOLEAN
  BY <1>1, <1>4, <1>9 DEF OutcomeInv, RecordShape
<1>11. RecordShape'
  <2>1. /\ victim' = NoId <=> pc' \notin RollbackSteps
        /\ victim' = NoId \/ ready' = <<>> \/ victim' = First'
    BY <1>1, <1>2, <1>3, <1>7 DEF OutcomeInv, RecordShape
  <2> QED
    BY <1>2, <1>5, <1>10, <2>1 DEF OutcomeInv, RecordShape
<1>12. FixupShape'
  BY <1>1, <1>2, <1>4, <1>5, <1>6, <1>7 DEF OutcomeInv, FixupShape
<1>13. StoreShape'
  BY <1>1, <1>2, <1>5, <1>6, <1>9 DEF OutcomeInv, StoreShape
<1>14. LinkShape'
  <2>1. \A x \in Standing \ touched' : x \in Ids /\ x # victim
    BY <1>4, RanInIndex DEF Standing, Ids
  <2> QED
    BY <1>1, <1>2, <1>5, <1>9, <2>1, LinksKept
<1>15. FailureShape'
  <2>1. ASSUME faults' = 0, NEW r \in Ids, Kind(r) = "group" PROVE Ours(r)' \intersect Index \subseteq Standing
    <3>1. faults = 0 /\ faults' = faults
      BY <1>10, <2>1
    <3>2. CASE pc = "unjoin"
      BY <1>9, <2>1, <3>1, <3>2 DEF OutcomeInv, FailureShape
    <3>3. CASE pc # "unjoin"
      BY <1>9, <2>1, <3>1, <3>3 DEF OutcomeInv, FailureShape
    <3> QED
      BY <3>2, <3>3
  <2>2. faults' = 0 => rows' \intersect Index \subseteq Standing \union {victim}
    BY <1>1, <1>10 DEF OutcomeInv, FailureShape
  <2> QED
    BY <1>2, <1>5, <2>1, <2>2 DEF FailureShape
<1>16. PendingShape' /\ CascadeShape'
  <2>1. pc' \notin {"loop", "done"}
    BY <1>1
  <2> QED
    BY <1>1, <1>2, <1>6, <2>1, SamePass
<1>17. ManagerShape'
  <2>1. rows \subseteq Ids
    BY DEF OutcomeInv, StoreShape
  <2> QED
    BY <1>1, <1>2, <1>5, <1>6, <1>9, <1>10, <2>1, ManagersKept
<1>18. VersionShape'
  <2>1. \A r : About(r)' = About(r)
    BY <1>2, AboutKept
  <2> QED
    BY <1>1, <1>2, <1>5, <2>1, VersionsKept
<1> QED
  BY <1>11, <1>12, <1>13, <1>14, <1>15, <1>16, <1>17, <1>18 DEF OutcomeInv

\* The row goes last, and the answer is an error.
LEMMA RowGone ==
  ASSUME IndInv, OutcomeInv, RemoveRow
  PROVE  OutcomeInv'
<1>1. /\ pc = "unrow" /\ pc' = IF ready = <<>> THEN "cascade" ELSE "fix"
      /\ ready' = IF ready = <<>> THEN ready ELSE Tail(ready)
      /\ victim' = NoId /\ result' = [result EXCEPT ![victim] = "error"]
      /\ UNCHANGED <<orderVars, last, others, reported, idMap, created, rolledBack, failedIds,
                     deferred, fixups, readVersion, version, unsure, links, theirs, touched>>
      /\ \/ rows' = rows \ {victim} /\ faults' = faults
         \/ rows' = rows /\ faults' = faults + 1
  BY DEF RemoveRow, RollbackEnds, Fixing, Attempt
<1>2. UNCHANGED <<ops, order, ran>>
  BY <1>1 DEF orderVars
<1>3. pc \in RollbackSteps /\ pc' \notin RollbackSteps /\ pc' \in PassSteps /\ pc' \in {"fix", "cascade"}
  BY <1>1 DEF RollbackSteps, PassSteps
<1>4. /\ victim \in Index /\ victim \in created /\ victim \in rolledBack /\ victim \notin Standing
      /\ IsPost(victim) /\ faults \in Nat /\ InPass /\ NoId \notin Index
  BY <1>3, VictimIsCreated
<1>5. /\ Index' = Index /\ Ids' = Ids /\ Distinct' = Distinct /\ Standing' = Standing
      /\ \A x : IsPost(x)' = IsPost(x) /\ Kind(x)' = Kind(x)
      /\ \A x, S : Complete(x, S)' = Complete(x, S)
  BY <1>1, <1>2, SameRequest DEF Standing
<1>6. InPass' /\ Ran' = Ran /\ Settled' = Settled
  <2>1. InPass'
    BY <1>3 DEF InPass
  <2>2. OrderShape /\ UNCHANGED <<ops, order, ran, last>> /\ InPass
    BY <1>1, <1>2, <1>4 DEF IndInv, OrderInv
  <2> QED
    BY ONLY <2>1, <2>2, PassedGrows
<1>7. /\ faults' \in Nat /\ (faults' = 0 => faults = 0 /\ rows' = rows \ {victim})
      /\ others' \in Nat /\ last' \in BOOLEAN
  BY <1>1, <1>4 DEF OutcomeInv, RecordShape
<1>8. /\ result \in [Index -> {"none", "ok", "error"}] /\ created \subseteq Index
      /\ rolledBack \subseteq created
  BY RanInIndex DEF IndInv, AnswerShape, OutcomeInv, RecordShape
<1>9. /\ Elements(ready') \subseteq Elements(ready)
      /\ \A x \in Standing \intersect Elements(ready) : x \in Elements(ready')
      /\ ready = <<>> => ready' = <<>>
  <2>1. CASE ready = <<>>
    BY <1>1, <2>1
  <2>2. CASE ready # <<>>
    <3>1. ready' = Tail(ready) /\ Elements(ready) = {First} \union Elements(Tail(ready))
      BY <1>1, <2>2, FirstIsCreated
    <3>2. victim = First
      BY <1>4, <2>2 DEF OutcomeInv, RecordShape
    <3> QED
      BY <1>4, <2>2, <3>1, <3>2
  <2> QED
    BY <2>1, <2>2
<1>10. \A x : Ours(x)' = Ours(x)
  BY <1>1 DEF Ours
<1>11. RecordShape'
  <2>1. ASSUME NEW j \in created
        PROVE  /\ IsPost(j) /\ ops[j].form = "fine" /\ ops[j].bulkId \in BulkId
               /\ result'[j] = IF j \in rolledBack' \ {victim'} THEN "error" ELSE "ok"
    <3>1. rolledBack' \ {victim'} = rolledBack
      BY <1>1, <1>4, <1>8
    <3>2. CASE j = victim
      BY <1>1, <1>4, <1>8, <3>1, <3>2 DEF OutcomeInv, RecordShape
    <3>3. CASE j # victim
      BY <1>1, <1>8, <3>1, <3>3 DEF OutcomeInv, RecordShape
    <3> QED
      BY <3>2, <3>3
  <2>2. \A j \in Index : result'[j] = "ok" => ops[j].form = "fine"
    BY <1>1, <1>8 DEF OutcomeInv, RecordShape
  <2> QED
    BY <1>1, <1>2, <1>3, <1>5, <1>7, <2>1, <2>2 DEF OutcomeInv, RecordShape
<1>12. FixupShape'
  <2>1. ASSUME NEW j \in Standing
        PROVE  /\ deferred[j] \subseteq ops[j].refs
               /\ deferred[j] # {} => j \in Elements(fixups) \union Elements(ready')
    BY <1>9, <2>1 DEF OutcomeInv, FixupShape
  <2>2. pc' = "cascade" => ready' = <<>>
    BY <1>1
  <2> QED
    BY <1>1, <1>2, <1>3, <1>5, <1>6, <1>9, <2>1, <2>2 DEF OutcomeInv, FixupShape
<1>13. StoreShape'
  BY <1>1, <1>2, <1>5, <1>6 DEF OutcomeInv, StoreShape
<1>14. LinkShape'
  BY <1>1, <1>2, <1>4, <1>5, LinksKept
<1>15. FailureShape'
  <2>1. pc # "unjoin"
    BY <1>1
  <2>2. ASSUME faults' = 0
        PROVE  /\ rows' \intersect Index \subseteq Standing
               /\ \A r \in Ids : Kind(r) = "group" => Ours(r)' \intersect Index \subseteq Standing
    BY <1>7, <1>10, <2>1, <2>2 DEF OutcomeInv, FailureShape
  <2> QED
    BY <1>5, <2>2 DEF FailureShape
<1>16. PendingShape'
  BY <1>1, <1>2, <1>5, <1>6, <1>9 DEF OutcomeInv, PendingShape
<1>17. CascadeShape'
  BY <1>1, <1>2, <1>3, <1>5, <1>6 DEF OutcomeInv, CascadeShape
<1>18. ManagerShape'
  BY <1>1, <1>2, <1>5, <1>6, <1>7, <1>10, ManagersKept
<1>19. VersionShape'
  <2>1. ASSUME NEW r \in Standing PROVE About(r)' = About(r)
    <3>1. r # victim /\ r \in Index
      BY <1>4, <1>8, <2>1 DEF Standing
    <3>2. Target(victim) # r
      BY <1>4, <3>1, PostHasNoTarget
    <3>3. \A j \in Index : j # victim => result'[j] = result[j]
      BY <1>1, <1>8
    <3>4. \A j : Target(j)' = Target(j)
      BY <1>1, <1>2 DEF Target
    <3> QED
      BY <1>5, <3>1, <3>2, <3>3, <3>4 DEF About
  <2> QED
    BY <1>1, <1>2, <1>5, <2>1, VersionsKept
<1> QED
  BY <1>11, <1>12, <1>13, <1>14, <1>15, <1>16, <1>17, <1>18, <1>19 DEF OutcomeInv

-----------------------------------------------------------------------------
(* Other clients *)

\* What others cannot reach.
LEMMA RequestKept ==
  ASSUME IndInv, OutcomeInv,
         UNCHANGED <<orderVars, pc, answerVars, recordVars, fixVars, faults>>, others' \in Nat
  PROVE  /\ RecordShape' /\ FixupShape' /\ PendingShape' /\ CascadeShape'
         /\ Standing' = Standing /\ Ran' = Ran /\ Settled' = Settled
         /\ UNCHANGED <<ops, order, ran, pc, last, deferred, readVersion, result, reported, recordVars, faults>>
<1>1. UNCHANGED <<ops, order, ran, pc, last, deferred, fixups, ready, readVersion, result, reported,
                  recordVars, faults>>
  BY DEF orderVars, answerVars, fixVars
<1>2. UNCHANGED <<created, rolledBack, failedIds, idMap>>
  BY DEF recordVars
<1>3. Index' = Index /\ Standing' = Standing
  BY <1>1, <1>2, SameRequest DEF Standing
<1>4. /\ OrderShape /\ UNCHANGED <<ops, order, ran>> /\ InPass' = InPass /\ last' = last
  BY <1>1 DEF IndInv, OrderInv, InPass
<1>5. Ran' = Ran /\ Settled' = Settled
  BY ONLY <1>4, PassedGrows
<1>6. faults' \in Nat /\ last' \in BOOLEAN
  BY <1>1 DEF OutcomeInv, RecordShape
<1>7. RecordShape'
  BY <1>1, <1>6, RecordKept
<1>8. First' = First
  BY <1>1 DEF First
<1>9. FixupShape'
  BY <1>1, <1>2, <1>3, <1>4, <1>8 DEF OutcomeInv, FixupShape
<1>10. PendingShape' /\ CascadeShape'
  BY <1>1, <1>5, SamePass
<1> QED
  BY <1>1, <1>3, <1>5, <1>7, <1>9, <1>10

LEMMA OthersStep ==
  ASSUME IndInv, OutcomeInv, NEW r \in Ids, OtherDeletes(r) \/ OtherWrites(r)
  PROVE  OutcomeInv'
<1>1. /\ UNCHANGED <<orderVars, pc, answerVars, recordVars, fixVars, faults>>
      /\ others' = others + 1 /\ r \in rows
  BY DEF OtherDeletes, OtherWrites
<1>2. others' \in Nat /\ others' # 0
  <2>1. others \in Nat
    BY DEF OutcomeInv, RecordShape
  <2> QED
    BY <1>1, <2>1
<1>3. /\ RecordShape' /\ FixupShape' /\ PendingShape' /\ CascadeShape'
      /\ Standing' = Standing /\ Ran' = Ran /\ Settled' = Settled
      /\ UNCHANGED <<ops, order, pc, deferred, readVersion, reported, faults, victim>>
  BY <1>1, <1>2, RequestKept DEF recordVars
<1>4. VersionShape'
  BY <1>2 DEF VersionShape
<1>5. /\ reported' \in [Index -> Nat] /\ readVersion' \in Nat
      /\ version \in [Ids -> Nat] /\ rows \subseteq Ids
      /\ rows \intersect Index \subseteq Ran
      /\ \A i \in Index \ Ran : version[i] = 0
      /\ links \in [Ids -> SUBSET (Ids \union {Text})]
      /\ theirs \in [Ids -> SUBSET Ids] /\ touched \subseteq Ids /\ unsure \subseteq Ids
      /\ Standing \subseteq Ids
  BY <1>3, RanInIndex DEF OutcomeInv, StoreShape, Standing, Ids
<1>6. CASE OtherDeletes(r)
  <2>1. PICK done \in SUBSET RollbackSteps : Delete(r, done)
    BY <1>6 DEF OtherDeletes
  <2>2. StoreShape' /\ LinkShape' /\ FailureShape' /\ ManagerShape'
    BY <1>1, <1>3, <1>5, <2>1, DeletionKeeps
  <2> QED
    BY <1>3, <1>4, <2>2 DEF OutcomeInv
<1>7. CASE OtherWrites(r)
  <2>1. PICK old \in {{}, links[r]}, new \in {{}} \union {{x} : x \in Known} :
          /\ links' = [links EXCEPT ![r] = old \union new]
          /\ theirs' = [theirs EXCEPT ![r] = (@ \intersect (old \union new)) \union (new \ links[r])]
    BY <1>7 DEF OtherWrites
  <2>2. /\ version' = [version EXCEPT ![r] = @ + 1]
        /\ touched' = touched \union {r} /\ rows' = rows /\ unsure' = unsure
    BY <1>7 DEF OtherWrites
  <2>3. new \subseteq Ids /\ old \subseteq links[r] /\ links[r] \subseteq Ids \union {Text}
    <3>1. Known \subseteq Ids
      BY <1>5, RanInIndex DEF Known, Ids
    <3> QED
      BY <1>5, <2>1, <3>1
  <2>4. /\ version' \in [Ids -> Nat] /\ \A x \in Ids : x # r => version'[x] = version[x]
    BY <1>5, <2>2
  <2>5. /\ links' \in [Ids -> SUBSET (Ids \union {Text})] /\ theirs' \in [Ids -> SUBSET Ids]
        /\ links'[r] = old \union new
        /\ theirs'[r] = (theirs[r] \intersect (old \union new)) \union (new \ links[r])
        /\ \A x \in Ids : x # r => links'[x] = links[x] /\ theirs'[x] = theirs[x]
    BY <1>5, <2>1, <2>3
  <2>6. \A x \in Ids : Ours(x)' \subseteq Ours(x)
    BY <2>3, <2>5 DEF Ours
  <2>7. Index' = Index /\ Ids' = Ids /\ \A x : Kind(x)' = Kind(x)
    BY <1>3, SameRequest
  <2>8. \A i \in Index \ Ran : version'[i] = 0
    BY <1>1, <1>5, <2>4 DEF Ids
  <2>9. StoreShape'
    BY <1>3, <1>5, <2>2, <2>4, <2>5, <2>7, <2>8 DEF StoreShape
  <2>10. LinkShape'
    BY <1>3, <1>5, <2>2, <2>5, LinksKept
  <2>11. FailureShape'
    BY <1>3, <2>2, <2>6, <2>7 DEF OutcomeInv, FailureShape
  <2>12. ManagerShape'
    BY <1>3, <1>5, <2>2, <2>6, ManagersKept
  <2> QED
    BY <1>3, <1>4, <2>9, <2>10, <2>11, <2>12 DEF OutcomeInv
<1> QED
  BY <1>6, <1>7
-----------------------------------------------------------------------------
(* The invariant *)

LEMMA OutcomeInit ==
  ASSUME Init
  PROVE  OutcomeInv
<1>1. /\ created = {} /\ rolledBack = {} /\ failedIds = {} /\ fixups = <<>> /\ ready = <<>>
      /\ last = FALSE /\ readVersion = 0 /\ pc = "read" /\ ran = 0
      /\ faults = 0 /\ others = 0 /\ rows = OldId
      /\ result = [i \in Index |-> "none"] /\ reported = [i \in Index |-> 0]
      /\ idMap = [b \in BulkId |-> NoId] /\ deferred = [i \in Index |-> {}]
      /\ version = [r \in Ids |-> 0] /\ links = [r \in Ids |-> {}]
      /\ victim = NoId /\ theirs = [r \in Ids |-> {}] /\ touched = {} /\ unsure = {}
  BY DEF Init
<1>2. Standing = {} /\ Elements(<<>>) = {}
  BY <1>1 DEF Standing, Elements
<1>3. RecordShape
  <2>1. failedIds = {ops[i].bulkId : i \in rolledBack}
    BY <1>1
  <2>2. \A b \in BulkId : idMap[b] = NoId
    BY <1>1
  <2>3. idMap \in [BulkId -> Index \union {NoId}]
    BY <1>1
  <2>4. \A i \in Index : result[i] # "ok"
    BY <1>1
  <2> QED
    BY <1>1, <2>1, <2>2, <2>3, <2>4 DEF RecordShape, RollbackSteps
<1>4. FixupShape
  BY <1>1, <1>2 DEF FixupShape, InPass, PassSteps, RollbackSteps
<1>5. StoreShape
  <2>1. rows \subseteq Ids /\ rows \intersect Index = {}
    BY <1>1, BulkAssumption DEF Ids, Index
  <2>2. Index \subseteq Ids
    BY DEF Ids
  <2> QED
    BY <1>1, <2>1, <2>2 DEF StoreShape
<1>6. LinkShape /\ PendingShape /\ CascadeShape /\ VersionShape
  BY <1>1, <1>2 DEF LinkShape, PendingShape, CascadeShape, VersionShape
<1>7. FailureShape /\ ManagerShape
  <2>1. \A r \in Ids : Ours(r) = {}
    BY <1>1 DEF Ours
  <2>2. rows \intersect Index = {} /\ rows \subseteq Ids
    BY <1>1, BulkAssumption DEF Index, Ids
  <2> QED
    BY <2>1, <2>2 DEF FailureShape, ManagerShape
<1> QED
  BY <1>3, <1>4, <1>5, <1>6, <1>7 DEF OutcomeInv

LEMMA OutcomeStep ==
  ASSUME IndInv, OutcomeInv, [Next]_vars
  PROVE  OutcomeInv'
<1>1. CASE ProcessBulk
  <2>1. CASE Refuse \/ Accept \/ Planned
    BY <2>1, BeforeLoop
  <2>2. CASE Plan
    BY <2>2, PlanStep
  <2>3. CASE Operate
    <3>1. PICK i \in Index :
            /\ Turn(i)
            /\ \/ Skip(i) \/ OperationFails(i) \/ OperationPanics(i)
               \/ Post(i) \/ Change(i) \/ Remove(i)
      BY <2>3 DEF Operate
    <3> QED
      BY <3>1, SkippedTurn, FailedTurn, PostTurn, ChangeTurn, RemoveTurn
  <2>4. CASE LoopEnds
    BY <2>4, LoopEndsStep
  <2>5. CASE Fix
    <3>1. CASE \E b \in BulkId : AddMember(b) \/ AddMemberFails(b) \/ LoadUser(b) \/ UpdateUser(b)
      <4>1. ASSUME NEW b \in BulkId, LoadUser(b) PROVE UNCHANGED dbVars
        BY <4>1 DEF LoadUser
      <4> QED
        BY <3>1, <4>1, AddMemberStep, UpdateUserStep, FixupFails, PassControl
    <3>2. CASE FixupOver \/ UpdateUserFails \/ StartCascade
      <4>1. FixupOver \/ StartCascade => UNCHANGED dbVars
        BY DEF FixupOver, StartCascade
      <4> QED
        BY <3>2, <4>1, FixupFails, PassControl
    <3>3. CASE UndoFixup \/ \E i \in Index : Cascade(i)
      BY <3>3, BeginsRollback
    <3>4. CASE RemoveFromGroups \/ RemoveMembers \/ RemoveRow
      BY <3>4, MembershipsGone, RowGone
    <3>5. CASE FixupsDone
      BY <3>5, FixupsDoneStep
    <3> QED
      BY <2>5, <3>1, <3>2, <3>3, <3>4, <3>5 DEF Fix
  <2> QED
    BY <1>1, <2>1, <2>2, <2>3, <2>4, <2>5 DEF ProcessBulk
<1>2. CASE Others
  BY <1>2, OthersStep DEF Others
<1>3. CASE UNCHANGED vars
  <2>1. UNCHANGED <<orderVars, pc, answerVars, recordVars, fixVars, dbVars, envVars>>
    BY <1>3 DEF vars
  <2>2. UNCHANGED <<faults, others>> /\ others' \in Nat
    BY <2>1 DEF envVars, OutcomeInv, RecordShape
  <2>3. /\ FixupShape' /\ PendingShape' /\ CascadeShape'
        /\ UNCHANGED <<ops, order, ran, pc, last, deferred, readVersion, result, reported, recordVars, faults>>
    BY <2>1, <2>2, RequestKept
  <2>4. InPass' = InPass /\ readVersion' \in Nat /\ last' \in BOOLEAN
    BY <2>3 DEF InPass, OutcomeInv, StoreShape, RecordShape
  <2>5. UNCHANGED <<pc, ready>>
    BY <2>1 DEF fixVars
  <2> QED
    BY <2>1, <2>2, <2>3, <2>4, <2>5, ControlStep
<1> QED
  BY <1>1, <1>2, <1>3 DEF Next, Answered
-----------------------------------------------------------------------------
\* What stands, what is settled and what still waits for its fixup, and what that
\* says of rows, members, managers and versions, at every step of a request.
THEOREM OutcomeInvariance == Spec => []OutcomeInv
<1>1. Init => OutcomeInv
  BY OutcomeInit
<1>2. IndInv /\ OutcomeInv /\ [Next]_vars => OutcomeInv'
  BY OutcomeStep
<1> QED
  BY <1>1, <1>2, Invariance, PTL DEF Spec, SafetySpec

\* When the request is answered nothing waits for a fixup.
LEMMA NothingDeferred ==
  ASSUME OutcomeInv, pc = "done", NEW i \in Standing
  PROVE  deferred[i] = {}
<1>1. fixups = <<>> /\ ready = <<>>
  BY DEF OutcomeInv, FixupShape, InPass, PassSteps, RollbackSteps
<1>2. Elements(fixups) = {} /\ Elements(ready) = {}
  BY <1>1 DEF Elements
<1> QED
  BY <1>2 DEF OutcomeInv, FixupShape

\* A POST answered with an error has left no row and no membership that this request
\* made, and at the end nothing this request stored refers to what was rolled back,
\* users' managers included.  This is so for every list of operations as long as the
\* statements work, although a rollback is several of them and other clients run in
\* between: what they add to a doomed resource, or about it, is all that can stay.
THEOREM FailuresAreComplete == Spec => []FailureIsComplete
<1>1. IndInv /\ OutcomeInv => FailedLeavesNothing
  <2>1. SUFFICES ASSUME IndInv, OutcomeInv, faults = 0, NEW i \in Index, result[i] = "error"
                 PROVE  /\ i \notin rows
                        /\ \A g \in rows : Kind(g) = "group" => i \notin Ours(g)
    BY DEF FailedLeavesNothing
  <2>2. i \notin Standing /\ i # victim
    BY <2>1, BulkAssumption DEF Standing, OutcomeInv, RecordShape, Index
  <2>3. rows \subseteq Ids
    BY <2>1 DEF OutcomeInv, StoreShape
  <2> QED
    BY <2>1, <2>2, <2>3 DEF OutcomeInv, FailureShape
<1>2. IndInv /\ OutcomeInv => NothingRefersToRolledBack
  <2>1. SUFFICES ASSUME IndInv, OutcomeInv, pc = "done", Distinct, faults = 0,
                        NEW r \in rows, NEW x \in Ours(r) \intersect rolledBack
                 PROVE  FALSE
    BY DEF NothingRefersToRolledBack
  <2>0. victim = NoId /\ NoId \notin Index
    BY <2>1, BulkAssumption DEF OutcomeInv, RecordShape, RollbackSteps, Index
  <2>2. x \in created /\ x \in Index /\ x \notin Standing /\ ops[x].bulkId \in failedIds
    BY <2>1, RanInIndex DEF OutcomeInv, RecordShape, Standing
  <2>3. r \in Ids
    BY <2>1 DEF OutcomeInv, StoreShape
  <2>4. Kind(r) \in {"user", "group"}
    <3>1. CASE r \in OldId
      BY <3>1, BulkAssumption DEF Kind
    <3>2. CASE r \notin OldId
      BY <2>1, <2>3, <3>2, RanInIndex, Operations DEF Kind, Ids, Operation
    <3> QED
      BY <3>1, <3>2
  <2>5. CASE Kind(r) = "group"
    BY <2>1, <2>2, <2>3, <2>5 DEF OutcomeInv, FailureShape
  <2>6. CASE Kind(r) = "user"
    <3>1. r \in Index /\ ops[x].bulkId \in ops[r].refs
      BY <2>1, <2>2, <2>6 DEF OutcomeInv, ManagerShape
    <3>2. r \in Standing
      BY <2>0, <2>1, <3>1 DEF OutcomeInv, FailureShape
    <3>3. ops[r].refs \intersect failedIds \subseteq deferred[r]
      BY <2>1, <3>2 DEF OutcomeInv, CascadeShape
    <3> QED
      BY <2>1, <2>2, <3>1, <3>2, <3>3, NothingDeferred
  <2> QED
    BY <2>4, <2>5, <2>6
<1>3. IndInv /\ OutcomeInv => FailureIsComplete
  BY <1>1, <1>2 DEF FailureIsComplete
<1> QED
  BY <1>3, Invariance, OutcomeInvariance, PTL

\* A POST answered with success that nobody touched has its row and, when its
\* references can be resolved, each of them: no fixup is forgotten, in whatever
\* order the operations ran and wherever the loop stopped.
THEOREM SuccessesAreComplete == Spec => []SuccessIsComplete
<1>1. IndInv /\ OutcomeInv => SuccessIsComplete
  <2>1. SUFFICES ASSUME IndInv, OutcomeInv, pc = "done", Distinct,
                        NEW i \in created, result[i] = "ok", i \notin touched
                 PROVE  /\ i \in rows
                        /\ ops[i].refs \subseteq Declared \ {ops[i].bulkId} =>
                             links[i] = {Producer(b) : b \in ops[i].refs}
    BY DEF SuccessIsComplete
  <2>2. i \in Standing
    <3>1. victim = NoId /\ NoId \notin Index
      BY <2>1, BulkAssumption DEF OutcomeInv, RecordShape, RollbackSteps, Index
    <3>2. i # victim
      BY <2>1, <3>1, RanInIndex
    <3> QED
      BY <2>1, <3>2 DEF Standing, OutcomeInv, RecordShape
  <2>3. deferred[i] = {}
    BY <2>1, <2>2, NothingDeferred
  <2>4. ops[i].refs \ deferred[i] = ops[i].refs
    BY <2>3
  <2> QED
    BY <2>1, <2>2, <2>4 DEF OutcomeInv, LinkShape
<1> QED
  BY <1>1, Invariance, OutcomeInvariance, PTL

\* The last of two operations is one.
LEMMA LastIsOne ==
  ASSUME OrderShape, NEW i, NEW k, Before(i, k), Before(k, i)
  PROVE  FALSE
<1>1. PICK m \in DOMAIN order : i = order[m]
  BY DEF Before, Scheduled
<1>2. PICK n \in DOMAIN order : k = order[n]
  BY DEF Before, Scheduled
<1>3. Position(i) = m /\ Position(k) = n
  BY <1>1, <1>2, PositionsDiffer
<1>4. m < n /\ n < m /\ m \in Nat /\ n \in Nat
  BY <1>3 DEF Before, OrderShape
<1> QED
  BY <1>4

\* A client that takes the version from the last success about a resource has the
\* version the resource has, as long as nobody else writes and no later write takes
\* effect without being answered with success.  The fixup that moves the version also
\* corrects the answer, and comes before every other operation on the resource.
THEOREM ReportedVersionsCurrent == Spec => []ReportedVersionCurrent
<1>1. IndInv /\ OutcomeInv => ReportedVersionCurrent
  <2>1. SUFFICES ASSUME IndInv, OutcomeInv, others = 0, Distinct,
                        NEW r \in (created \intersect rows) \ (rolledBack \union unsure)
                 PROVE  version[r] = reported[CHOOSE i \in About(r) :
                                       \A j \in About(r) : j = i \/ Before(j, i)]
    BY Zenon DEF ReportedVersionCurrent, About
  <2>2. r \in (Standing \intersect rows) \ unsure
    BY <2>1 DEF Standing
  <2>3. PICK k \in About(r) : /\ \A j \in About(r) : j = k \/ Before(j, k)
                              /\ version[r] = reported[k]
    BY <2>1, <2>2 DEF OutcomeInv, VersionShape
  <2>4. ASSUME NEW i \in About(r), \A j \in About(r) : j = i \/ Before(j, i)
        PROVE  i = k
    BY <2>1, <2>3, <2>4, LastIsOne DEF IndInv, OrderInv
  <2>5. (CHOOSE i \in About(r) : \A j \in About(r) : j = i \/ Before(j, i)) = k
    BY <2>3, <2>4
  <2> QED
    BY <2>3, <2>5
<1> QED
  BY <1>1, Invariance, OutcomeInvariance, PTL
=============================================================================
