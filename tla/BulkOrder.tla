----------------------------- MODULE BulkOrder -----------------------------
(***************************************************************************)
(* The order in which a bulk request runs its operations: handler/bulk.go, *)
(* computePostProducerClosure and computeBulkExecutionOrder.               *)
(*                                                                         *)
(* A POST declares a bulkId; other operations, and other POSTs, refer to   *)
(* it in their data or, unless they are POSTs, in their path.  The order   *)
(* is computed before anything runs, here in one step per operation, since *)
(* the choice of the next depends only on those already scheduled.         *)
(***************************************************************************)
EXTENDS Naturals, Sequences, FiniteSets, FiniteSetsExt

CONSTANTS
  BulkId,   \* bulkIds a client may use
  NoId,     \* no bulkId, no path beyond the collection
  OldId,    \* resources that exist before the request
  Inputs    \* the lists of operations clients may send

\* An operation.  refs are the bulkIds its data refers to, target what its path
\* names beyond the collection.  A "broken" operation is an object that
\* processOperationInternal or parseBulkTarget refuses; "absent" stands for an
\* element of Operations that is no object.
Operation ==
  [method : {"POST", "PUT", "PATCH", "DELETE"}, res : {"user", "group"},
   bulkId : BulkId \union {NoId}, target : BulkId \union OldId \union {NoId},
   refs : SUBSET BulkId, form : {"fine", "broken", "absent"}]

ASSUME BulkOrderAssumption ==
  /\ NoId \notin BulkId /\ BulkId \intersect OldId = {} /\ NoId \notin OldId
  /\ Inputs \subseteq Seq(Operation)
  /\ \A list \in Inputs : \A i \in DOMAIN list :
       /\ list[i].method = "POST" => list[i].target = NoId
       /\ list[i].method = "DELETE" => list[i].refs = {}

VARIABLES
  ops,      \* the operations as the client listed them
  order     \* those scheduled so far, in order

Index == 1 .. Len(ops)
Scheduled == {order[k] : k \in DOMAIN order}
IsPost(i) == ops[i].form # "absent" /\ ops[i].method = "POST"

\* producerByBulkID: the first POST that declares b.
Producers(b) == {i \in Index : IsPost(i) /\ ops[i].bulkId = b}
Declared == {b \in BulkId : Producers(b) # {}}
Producer(b) == Min(Producers(b))

\* extractBulkIDRefs of path and data.
Refs(i) ==
  IF ops[i].form = "absent" THEN {}
  ELSE ops[i].refs \union ({ops[i].target} \intersect BulkId)

DirectDeps(i) == {Producer(b) : b \in Refs(i) \intersect Declared}

\* The producers that p needs, directly or not, and p itself: each round adds
\* the neighbours of the ones found.
producerClosure(p) ==
  LET reach[k \in Nat] ==
        IF k = 0 THEN {p}
        ELSE LET found == reach[k - 1]
             IN  found \union UNION {DirectDeps(i) : i \in found}
  IN  reach[Len(ops)]

SamePath(i, j) ==
  /\ ops[i].form # "absent" /\ ops[j].form # "absent"
  /\ ops[i].target # NoId
  /\ ops[i].target = ops[j].target /\ ops[i].res = ops[j].res

\* The last operation before i in the list that has i's path.
PreviousOnPath(i) ==
  LET before == {j \in 1 .. i - 1 : SamePath(i, j)}
  IN  IF before = {} THEN {} ELSE {Max(before)}

\* Faulty variant: a reference waits for its producer only.
WaitsForShallow(i) ==
  (PreviousOnPath(i) \union DirectDeps(i)) \ {i}

\* The operations with an edge to i.
WaitsFor(i) ==
  (PreviousOnPath(i) \union DirectDeps(i) \union
     UNION {IF i \in producerClosure(p) THEN {} ELSE producerClosure(p) :
              p \in DirectDeps(i)}) \ {i}

\* The first operation that waits for nothing; within a cycle the first POST.
NextOp ==
  LET left == Index \ Scheduled
      free == {i \in left : WaitsFor(i) \subseteq Scheduled}
      posts == {i \in left : IsPost(i)}
  IN  Min(IF free # {} THEN free ELSE IF posts # {} THEN posts ELSE left)

InitOrder == ops \in Inputs /\ order = <<>>

Schedule(i) ==
  /\ Scheduled # Index /\ i = NextOp
  /\ order' = Append(order, i)
  /\ UNCHANGED ops
-----------------------------------------------------------------------------
\* The plan is a list of operations of the request, none of them twice.
OrderTypeOK ==
  /\ \A i \in Index : ops[i] \in Operation
  /\ order \in Seq(Index) /\ Cardinality(Scheduled) = Len(order)

\* What "needs" means, independently of the algorithm: the least relation that
\* contains the direct dependencies and is transitive.
Needs(i, p) ==
  \A S \in SUBSET Index :
    (DirectDeps(i) \subseteq S /\ \A j \in S : DirectDeps(j) \subseteq S) => p \in S

Position(i) == CHOOSE k \in DOMAIN order : order[k] = i
Before(i, j) ==
  i \in Scheduled /\ (j \notin Scheduled \/ Position(i) < Position(j))
=============================================================================
