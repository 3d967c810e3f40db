-------------------------------- MODULE Bulk --------------------------------
(***************************************************************************)
(* One bulk request: handler/bulk.go, ProcessBulk.                         *)
(*                                                                         *)
(* Phase 1 runs the operations in the order of BulkOrder.  A POST whose    *)
(* references are not all resolved is created without them and a fixup is  *)
(* deferred; phase 2 applies a fixup as soon as everything it needs has    *)
(* run.  A fixup that fails takes its resource back, and with it every     *)
(* created resource that refers to it.                                     *)
(*                                                                         *)
(* The handlers that operations call are in modules Users and Groups       *)
(* statement by statement; here each is one step that succeeds or fails.   *)
(* Everything of phase 2 is outside of any transaction, so every statement *)
(* of it is a step, those of a rollback included, and other clients run    *)
(* between any two steps.  A statement, or a handler, that reports an      *)
(* error may have taken effect all the same.                               *)
(***************************************************************************)
EXTENDS BulkOrder

CONSTANTS
  OldKind,         \* "user" or "group", of resources that exist before
  Text,            \* a reference stored as the text "bulkId:..."
  MaxOperations,   \* maxOperations
  FailOnErrors,    \* values of failOnErrors clients send; 0 is none
  MaxOthers,       \* steps of other clients
  MaxFaults        \* operations and statements that fail although nothing is
                   \* wrong, and panics

\* The resource an operation creates is named by its index.
ResourceId == Nat \union OldId

ASSUME BulkAssumption ==
  /\ OldKind \in [OldId -> {"user", "group"}]
  /\ OldId \intersect Nat = {} /\ Text \notin Nat \union OldId /\ NoId \notin Nat
  /\ FailOnErrors \subseteq Nat
  /\ MaxOperations \in Nat /\ MaxOthers \in Nat /\ MaxFaults \in Nat
  /\ \A list \in Inputs : \A i \in DOMAIN list :
       list[i].res = "user" => \A b, c \in list[i].refs : b = c

VARIABLES
  pc,             \* where ProcessBulk stands
  ran,            \* how many operations of the order have had their turn
  failOn,         \* failOnErrors
  errors,         \* errorCount
  undone,         \* rollbackErrors of the running applyDeferredBulkFixups
  result,         \* indexedResults: per operation, the kind of answer
  reported,       \* the version in that answer
  idMap,          \* bulkIdMap: what a bulkId stands for, NoId if nothing
  created,        \* createdPosts
  rolledBack,     \* records of createdPosts that were rolled back
  failedIds,      \* rolledBackBulkIDs
  victim,         \* the POST whose record is being rolled back, or NoId
  deferred,       \* per POST, the references its fixup is to add
  fixups, ready,  \* deferred fixups, and those being applied
  last,           \* whether this is the pass after the loop
  readVersion,    \* version of the user that a manager fixup has loaded
  rows, version,  \* resources with a row, and their versions
  links,          \* members of a group, manager of a user
  touched,        \* history: resources changed other than by their POST
  theirs,         \* history: the links that are another client's work
  unsure,         \* history: whose last change was answered with an error
  others, faults  \* steps of other clients, and faults, so far

orderVars == <<ops, order, ran>>
answerVars == <<errors, undone, result, reported>>
recordVars == <<idMap, created, rolledBack, failedIds, victim>>
fixVars == <<deferred, fixups, ready, last, readVersion>>
dbVars == <<rows, version, links, touched, theirs, unsure>>
envVars == <<others, faults>>
vars == <<orderVars, pc, failOn, answerVars, recordVars, fixVars, dbVars, envVars>>

Ids == Index \union OldId

\* Where applyDeferredBulkFixups may stand, and rollbackRecord in it.
RollbackSteps == {"unjoin", "empty", "unrow"}
PassSteps == {"fix", "update", "undo", "cascade"} \union RollbackSteps
Ran == {order[k] : k \in 1 .. ran}
Kind(r) == IF r \in OldId THEN OldKind[r] ELSE ops[r].res

TypeOK ==
  /\ OrderTypeOK
  /\ ran \in 0 .. Len(order)
  /\ pc \in {"read", "order", "loop", "done"} \union PassSteps
  /\ failOn \in FailOnErrors /\ errors \in Nat /\ undone \in Nat
  /\ result \in [Index -> {"none", "ok", "error"}]
  /\ reported \in [Index -> Nat]
  /\ idMap \in [BulkId -> Index \union {NoId}]
  /\ rolledBack \subseteq created /\ created \subseteq Ran
  /\ failedIds \subseteq BulkId /\ victim \in rolledBack \union {NoId}
  /\ deferred \in [Index -> SUBSET BulkId]
  /\ fixups \in Seq(created) /\ ready \in Seq(created)
  /\ last \in BOOLEAN
  /\ readVersion \in Nat
  /\ rows \subseteq Ids /\ version \in [Ids -> Nat]
  /\ links \in [Ids -> SUBSET (Ids \union {Text})]
  /\ touched \subseteq Ids /\ unsure \subseteq Ids
  /\ theirs \in [Ids -> SUBSET Ids] /\ \A r \in Ids : theirs[r] \subseteq links[r]
  /\ others \in 0 .. MaxOthers /\ faults \in 0 .. MaxFaults

Init ==
  /\ InitOrder
  /\ pc = "read" /\ ran = 0
  /\ failOn \in FailOnErrors /\ errors = 0 /\ undone = 0
  /\ result = [i \in Index |-> "none"] /\ reported = [i \in Index |-> 0]
  /\ idMap = [b \in BulkId |-> NoId]
  /\ created = {} /\ rolledBack = {} /\ failedIds = {} /\ victim = NoId
  /\ deferred = [i \in Index |-> {}]
  /\ fixups = <<>> /\ ready = <<>> /\ last = FALSE /\ readVersion = 0
  /\ rows = OldId /\ version = [r \in Ids |-> 0]
  /\ links = [r \in Ids |-> {}] /\ touched = {}
  /\ theirs = [r \in Ids |-> {}] /\ unsure = {}
  /\ others = 0 /\ faults = 0
-----------------------------------------------------------------------------
Resolved(S) == {idMap[b] : b \in {x \in S : idMap[x] # NoId}}
Unresolved(S) == {b \in S : idMap[b] = NoId}

\* extractDeferredGroupMembers, extractDeferredUserManager.
Deferrable(i) ==
  {b \in Unresolved(ops[i].refs) : b \in Declared /\ b # ops[i].bulkId}

\* What the data refers to once it is resolved; for a user any text will do.
Linked(S) == Resolved(S) \union (IF Unresolved(S) = {} THEN {} ELSE {Text})

\* addMemberTx asks for a row of each member; managers are not looked up.
Acceptable(i, S) == ops[i].res = "group" => Linked(S) \subseteq rows

\* The resource that the path of operation i names.
Target(i) ==
  IF ops[i].target \in BulkId THEN idMap[ops[i].target] ELSE ops[i].target

GroupsOf(r) == {x \in Ids : Kind(x) = "group" /\ r \in links[x]}

\* The groups r is a member of forget it.
Forgotten(f, r) == [x \in Ids |-> IF Kind(x) = "group" THEN f[x] \ {r} ELSE f[x]]

\* A group r forgets its members.  Managers keep their value.
Emptied(f, r) == IF Kind(r) = "group" THEN [f EXCEPT ![r] = {}] ELSE f

\* executeDeleteGroup, executeDeleteUser: done are the statements that take effect.
Delete(r, done) ==
  LET after(f) ==
        LET left == IF "unjoin" \in done THEN Forgotten(f, r) ELSE f
        IN  IF "empty" \in done THEN Emptied(left, r) ELSE left
  IN  /\ rows' = IF "unrow" \in done THEN rows \ {r} ELSE rows
      /\ links' = after(links) /\ theirs' = after(theirs)
      /\ touched' = touched \union {r} \union GroupsOf(r)
      /\ UNCHANGED <<version, unsure>>

Budget == failOn > 0 => errors < failOn

\* Fixups whose producer has nothing left to wait for.
IsReady(i, completed) ==
  IF i = Producer(ops[i].bulkId) THEN producerClosure(i) \subseteq completed ELSE TRUE

\* The elements of s that are in S, in their order.  This is SelectSeq, written as
\* a function: one can prove something about it.
Chosen(s, S) ==
  LET upTo[n \in Nat] ==
        IF n = 0 THEN <<>>
        ELSE IF n \in DOMAIN s /\ s[n] \in S THEN Append(upTo[n - 1], s[n])
        ELSE upTo[n - 1]
  IN  upTo[Len(s)]

\* After operation i: fixups that are ready are applied at once.
AfterOperation(i, newFixups) ==
  LET pending == {newFixups[k] : k \in DOMAIN newFixups}
      due == {j \in pending : IsReady(j, Ran \union {i})}
      now == Chosen(newFixups, due)
      later == Chosen(newFixups, pending \ due)
  IN  /\ ready' = now
      /\ fixups' = IF now = <<>> THEN newFixups ELSE later
      /\ pc' = IF now = <<>> THEN "loop" ELSE "fix"

\* The operation's turn, at the head of the loop.  The actions below, up to Remove,
\* are what may happen then.
Turn(i) ==
  /\ pc = "loop" /\ Budget
  /\ ran < Len(order) /\ i = order[ran + 1] /\ ran' = ran + 1
  /\ UNCHANGED <<ops, order, failOn, last, others>>

Fail(i) ==
  /\ result' = [result EXCEPT ![i] = "error"]
  /\ errors' = errors + 1
  /\ UNCHANGED <<undone, reported>>

Succeed(i, v) ==
  /\ result' = [result EXCEPT ![i] = "ok"]
  /\ reported' = [reported EXCEPT ![i] = v]
  /\ UNCHANGED <<errors, undone>>

\* The checks before the first operation; the request may fail any of them.
Refuse ==
  /\ pc = "read" /\ pc' = "done"
  /\ UNCHANGED <<orderVars, failOn, answerVars, recordVars, fixVars, dbVars, envVars>>

Accept ==
  /\ pc = "read" /\ pc' = "order"
  /\ Len(ops) <= MaxOperations
  /\ UNCHANGED <<orderVars, failOn, answerVars, recordVars, fixVars, dbVars, envVars>>

\* computeBulkExecutionOrder.
Plan ==
  /\ pc = "order" /\ \E i \in Index : Schedule(i)
  /\ UNCHANGED <<pc, ran, failOn, answerVars, recordVars, fixVars, dbVars, envVars>>

Planned ==
  /\ pc = "order" /\ Scheduled = Index /\ pc' = "loop"
  /\ UNCHANGED <<orderVars, failOn, answerVars, recordVars, fixVars, dbVars, envVars>>

\* An element of Operations that is no object: no result, and no look at fixups.
Skip(i) ==
  /\ ops[i].form = "absent"
  /\ UNCHANGED <<pc, answerVars, recordVars, deferred, fixups, ready, readVersion,
                 dbVars, faults>>

\* createUserInternal, createGroupInternal, without what is deferred.
Insert(i) ==
  LET now == ops[i].refs \ Deferrable(i) IN
  /\ IsPost(i) /\ ops[i].bulkId # NoId
  /\ Acceptable(i, now)
  /\ rows' = rows \union {i}
  /\ links' = [links EXCEPT ![i] = Linked(now)]
  /\ UNCHANGED <<version, touched, theirs, unsure>>

\* replaceUserInternal and the like: the new links replace the old ones or, in a
\* PATCH of a group, join them.  Other attributes are not modelled, but may move
\* the version.
Store(i, bump) ==
  LET r == Target(i)
      old == IF ops[i].method = "PATCH" /\ ops[i].res = "group" THEN links[r] ELSE {}
      new == Linked(ops[i].refs)
  IN  /\ ops[i].method \in {"PUT", "PATCH"}
      /\ r \in rows /\ Kind(r) = ops[i].res
      /\ Acceptable(i, ops[i].refs)
      /\ links' = [links EXCEPT ![r] = old \union new]
      /\ theirs' = [theirs EXCEPT ![r] = (@ \intersect old) \ new]
      /\ old \union new # links[r] => bump = 1
      /\ version' = [version EXCEPT ![r] = @ + bump]
      /\ touched' = touched \union {r}
      /\ UNCHANGED rows

\* An operation that is not answered with success has done nothing, unless there is
\* a fault: then any of it may have happened, and what was changed is unsure.
NothingDone == UNCHANGED <<dbVars, faults>>

DoneAllTheSame(i) ==
  /\ ops[i].form = "fine"
  /\ faults < MaxFaults /\ faults' = faults + 1
  /\ \/ UNCHANGED dbVars
     \/ Insert(i)
     \/ /\ \E bump \in {0, 1} : Store(i, bump)
        /\ unsure' = unsure \union {Target(i)}
     \/ /\ ops[i].method = "DELETE" /\ Target(i) \in rows /\ Kind(Target(i)) = ops[i].res
        /\ \E done \in SUBSET RollbackSteps : Delete(Target(i), done)

\* An operation is refused, or its handler answers with an error.
OperationFails(i) ==
  /\ ops[i].form # "absent"
  /\ Fail(i)
  /\ AfterOperation(i, fixups)
  /\ NothingDone \/ DoneAllTheSame(i)
  /\ UNCHANGED <<recordVars, deferred, readVersion>>

\* A panic is recovered, but processOperationInternal then returns no result.
OperationPanics(i) ==
  /\ DoneAllTheSame(i)
  /\ AfterOperation(i, fixups)
  /\ UNCHANGED <<answerVars, recordVars, deferred, readVersion>>

Record(i) == created' = created \union {i}

\* handleBulkPost.
Post(i) ==
  /\ ops[i].form = "fine" /\ Insert(i)
  /\ Succeed(i, 0)
  /\ idMap' = [idMap EXCEPT ![ops[i].bulkId] = i]
  /\ Record(i)
  /\ deferred' = [deferred EXCEPT ![i] = Deferrable(i)]
  /\ AfterOperation(i, IF Deferrable(i) = {} THEN fixups ELSE Append(fixups, i))
  /\ UNCHANGED <<rolledBack, failedIds, victim, readVersion, faults>>

\* handleBulkPut, handleBulkPatch.
Change(i) ==
  /\ ops[i].form = "fine"
  /\ \E bump \in {0, 1} : Store(i, bump) /\ Succeed(i, version[Target(i)] + bump)
  /\ unsure' = unsure \ {Target(i)}
  /\ AfterOperation(i, fixups)
  /\ UNCHANGED <<recordVars, deferred, readVersion, faults>>

\* handleBulkDelete.  That memberships cannot be deleted is logged and forgotten.
Remove(i) ==
  LET r == Target(i) IN
  /\ ops[i].form = "fine" /\ ops[i].method = "DELETE"
  /\ r \in rows /\ Kind(r) = ops[i].res
  /\ \/ Delete(r, RollbackSteps) /\ UNCHANGED faults
     \/ /\ \E done \in SUBSET {"unjoin", "empty"} : Delete(r, done \union {"unrow"})
        /\ faults < MaxFaults /\ faults' = faults + 1
  /\ Succeed(i, 0)
  /\ AfterOperation(i, fixups)
  /\ UNCHANGED <<recordVars, deferred, readVersion>>
-----------------------------------------------------------------------------
\* applyDeferredBulkFixups: the fixup at the head of ready.
Fixing(where) == pc = where /\ UNCHANGED <<orderVars, failOn, last, others>>
First == ready[1]

\* The resource has been taken back already, or a group's members are all in.
FixupOver ==
  /\ Fixing("fix") /\ ready # <<>>
  /\ First \in rolledBack \/ deferred[First] = {}
  /\ ready' = Tail(ready)
  /\ UNCHANGED <<pc, answerVars, recordVars, deferred, fixups, readVersion, dbVars,
                 faults>>

\* Group g gets the member x; its version stays.
Join(g, x) ==
  /\ links' = [links EXCEPT ![g] = @ \union {x}]
  /\ theirs' = [theirs EXCEPT ![g] = @ \ {x}]
  /\ UNCHANGED <<rows, version>>

\* addMemberTx for the next member.  Nobody checks the group itself: it may be
\* gone, and then the schema decides whether the row can be inserted.
AddMember(b) ==
  /\ Fixing("fix") /\ ready # <<>>
  /\ First \notin rolledBack /\ Kind(First) = "group" /\ b \in deferred[First]
  /\ idMap[b] \in rows
  /\ Join(First, idMap[b])
  /\ deferred' = [deferred EXCEPT ![First] = @ \ {b}]
  /\ UNCHANGED <<pc, answerVars, recordVars, fixups, ready, readVersion, touched,
                 unsure, faults>>

\* The member does not exist, or the group is gone, or the statement fails.
AddMemberFails(b) ==
  /\ Fixing("fix") /\ ready # <<>>
  /\ First \notin rolledBack /\ Kind(First) = "group" /\ b \in deferred[First]
  /\ \/ (idMap[b] \notin rows \/ First \notin rows) /\ NothingDone
     \/ /\ faults < MaxFaults /\ faults' = faults + 1
        /\ \/ UNCHANGED dbVars
           \/ /\ idMap[b] \in rows /\ Join(First, idMap[b])
              /\ touched' = touched \union {First} /\ UNCHANGED unsure
  /\ pc' = "undo"
  /\ UNCHANGED <<answerVars, recordVars, deferred, fixups, ready, readVersion>>

\* The manager is resolved and the user loaded.
LoadUser(b) ==
  /\ Fixing("fix") /\ ready # <<>>
  /\ First \notin rolledBack /\ Kind(First) = "user" /\ b \in deferred[First]
  /\ \/ /\ idMap[b] # NoId /\ First \in rows
        /\ pc' = "update" /\ readVersion' = version[First]
        /\ UNCHANGED faults
     \/ /\ idMap[b] = NoId \/ First \notin rows
        /\ pc' = "undo" /\ UNCHANGED <<readVersion, faults>>
     \/ /\ faults < MaxFaults /\ faults' = faults + 1
        /\ pc' = "undo" /\ UNCHANGED readVersion
  /\ UNCHANGED <<answerVars, recordVars, deferred, fixups, ready, dbVars>>

\* userRepo.Update, which asks for the version that was loaded.
SetManager(b) ==
  /\ First \in rows /\ version[First] = readVersion
  /\ links' = [links EXCEPT ![First] = {idMap[b]}]
  /\ theirs' = [theirs EXCEPT ![First] = {}]
  /\ version' = [version EXCEPT ![First] = @ + 1]
  /\ UNCHANGED rows

\* Faulty variant: the version in the answer stays that of the POST.
UpdateUserSilent(b) ==
  /\ Fixing("update") /\ b \in deferred[First]
  /\ SetManager(b)
  /\ UNCHANGED reported
  /\ deferred' = [deferred EXCEPT ![First] = {}]
  /\ pc' = "fix"
  /\ UNCHANGED <<errors, undone, result, recordVars, fixups, ready, readVersion,
                 touched, unsure, faults>>

UpdateUser(b) ==
  /\ Fixing("update") /\ b \in deferred[First]
  /\ SetManager(b)
  /\ reported' = [reported EXCEPT ![First] = readVersion + 1]
  /\ deferred' = [deferred EXCEPT ![First] = {}]
  /\ pc' = "fix"
  /\ UNCHANGED <<errors, undone, result, recordVars, fixups, ready, readVersion,
                 touched, unsure, faults>>

UpdateUserFails ==
  /\ Fixing("update")
  /\ \/ (First \notin rows \/ version[First] # readVersion) /\ NothingDone
     \/ /\ faults < MaxFaults /\ faults' = faults + 1
        /\ \/ UNCHANGED dbVars
           \/ /\ \E b \in deferred[First] : SetManager(b)
              /\ touched' = touched \union {First} /\ unsure' = unsure \union {First}
  /\ pc' = "undo"
  /\ UNCHANGED <<answerVars, recordVars, deferred, fixups, ready, readVersion>>
-----------------------------------------------------------------------------
\* rollbackRecord for POST i: what was created is to be deleted, in two or three
\* statements of their own.
TakeBack(i) ==
  /\ rolledBack' = rolledBack \union {i}
  /\ idMap' = [idMap EXCEPT ![ops[i].bulkId] = NoId]
  /\ failedIds' = failedIds \union {ops[i].bulkId}
  /\ victim' = i /\ pc' = "unjoin"
  /\ UNCHANGED <<answerVars, created, deferred, fixups, ready, readVersion, dbVars,
                 faults>>

\* A statement of the rollback takes effect, or fails and its error is dropped.
Attempt(done) ==
  \/ done /\ UNCHANGED faults
  \/ /\ faults < MaxFaults /\ faults' = faults + 1
     /\ UNCHANGED <<rows, links, theirs, touched>>

\* DeleteByMemberValue.
RemoveFromGroups ==
  /\ Fixing("unjoin")
  /\ Attempt(/\ links' = Forgotten(links, victim) /\ theirs' = Forgotten(theirs, victim)
             /\ touched' = touched \union GroupsOf(victim)
             /\ UNCHANGED rows)
  /\ pc' = IF Kind(victim) = "group" THEN "empty" ELSE "unrow"
  /\ UNCHANGED <<answerVars, recordVars, deferred, fixups, ready, readVersion,
                 version, unsure>>

\* DeleteByGroupID.
RemoveMembers ==
  /\ Fixing("empty")
  /\ Attempt(/\ links' = Emptied(links, victim) /\ theirs' = Emptied(theirs, victim)
             /\ UNCHANGED <<rows, touched>>)
  /\ pc' = "unrow"
  /\ UNCHANGED <<answerVars, recordVars, deferred, fixups, ready, readVersion,
                 version, unsure>>

\* The rollback ends, and applyDeferredBulkFixups goes on where it began: with the
\* next fixup, or in the cascade.
RollbackEnds ==
  /\ ready' = IF ready = <<>> THEN ready ELSE Tail(ready)
  /\ pc' = IF ready = <<>> THEN "cascade" ELSE "fix"
  /\ victim' = NoId
  /\ result' = [result EXCEPT ![victim] = "error"]

\* Faulty variant: errors of a rollback are not counted.
RemoveRowUncounted ==
  /\ Fixing("unrow")
  /\ Attempt(rows' = rows \ {victim} /\ UNCHANGED <<links, theirs, touched>>)
  /\ RollbackEnds
  /\ UNCHANGED <<undone, errors, reported, idMap, created, rolledBack, failedIds,
                 deferred, fixups, readVersion, version, unsure>>

\* The row goes last, and the answer to the POST becomes an error.
RemoveRow ==
  /\ Fixing("unrow")
  /\ Attempt(rows' = rows \ {victim} /\ UNCHANGED <<links, theirs, touched>>)
  /\ RollbackEnds
  /\ undone' = IF result[victim] # "error" THEN undone + 1 ELSE undone
  /\ UNCHANGED <<errors, reported, idMap, created, rolledBack, failedIds, deferred,
                 fixups, readVersion, version, unsure>>

UndoFixup == Fixing("undo") /\ TakeBack(First)

StartCascade ==
  /\ Fixing("fix") /\ ready = <<>>
  /\ pc' = "cascade"
  /\ UNCHANGED <<answerVars, recordVars, deferred, fixups, ready, readVersion, dbVars,
                 faults>>

\* Faulty variant: only the resources whose fixup failed are taken back.
OrphanedNone == {}

\* Faulty variant: what was taken back is looked at again.
OrphanedAgain == {i \in created : ops[i].refs \intersect failedIds # {}}

\* depBulkIDs are the references of the data before anything was resolved.
Orphaned == {i \in created \ rolledBack : ops[i].refs \intersect failedIds # {}}

\* createdPosts is a map: its records come in any order.
Cascade(i) ==
  /\ Fixing("cascade") /\ i \in Orphaned /\ TakeBack(i)

FixupsDone ==
  /\ Fixing("cascade") /\ Orphaned = {}
  /\ errors' = IF last THEN errors ELSE errors + undone
  /\ undone' = 0
  /\ pc' = IF last THEN "done" ELSE "loop"
  /\ UNCHANGED <<result, reported, recordVars, deferred, fixups, ready, readVersion,
                 dbVars, faults>>

\* Faulty variant: what is deferred when the loop stops early is forgotten.
LoopEndsForgetful ==
  /\ pc = "loop" /\ (ran = Len(order) \/ ~Budget)
  /\ last' = TRUE /\ ready' = <<>> /\ fixups' = <<>>
  /\ pc' = "done"
  /\ UNCHANGED <<orderVars, failOn, answerVars, recordVars, deferred, readVersion,
                 dbVars, envVars>>

\* The loop is over, or failOnErrors is reached: the remaining fixups are due.
LoopEnds ==
  /\ pc = "loop" /\ (ran = Len(order) \/ ~Budget)
  /\ last' = TRUE /\ ready' = fixups /\ fixups' = <<>>
  /\ pc' = IF fixups = <<>> THEN "done" ELSE "fix"
  /\ UNCHANGED <<orderVars, failOn, answerVars, recordVars, deferred, readVersion,
                 dbVars, envVars>>
-----------------------------------------------------------------------------
\* Other clients delete resources, statement by statement, and write to them.
OtherDeletes(r) ==
  /\ pc \notin {"read", "order", "done"} /\ others < MaxOthers /\ others' = others + 1
  /\ r \in rows /\ \E done \in SUBSET RollbackSteps : Delete(r, done)
  /\ UNCHANGED <<orderVars, pc, failOn, answerVars, recordVars, fixVars, faults>>

\* What other clients may know and refer to.  A member that was looked up may be
\* gone when the reference to it is committed, and managers are not looked up.
Known == OldId \union created \union rows

\* They keep or drop the links of r, and may add one: another member, or a manager.
OtherWrites(r) ==
  /\ pc \notin {"read", "order", "done"} /\ others < MaxOthers /\ others' = others + 1
  /\ r \in rows
  /\ \E old \in {{}, links[r]}, new \in {{}} \union {{x} : x \in Known} :
       /\ Kind(r) = "user" => old = {} \/ new = {}
       /\ links' = [links EXCEPT ![r] = old \union new]
       /\ theirs' = [theirs EXCEPT ![r] = (@ \intersect (old \union new)) \union
                                        (new \ links[r])]
  /\ version' = [version EXCEPT ![r] = @ + 1]
  /\ touched' = touched \union {r}
  /\ UNCHANGED <<orderVars, pc, failOn, answerVars, recordVars, fixVars, rows, unsure,
                 faults>>

Operate ==
  \E i \in Index :
    /\ Turn(i)
    /\ \/ Skip(i) \/ OperationFails(i) \/ OperationPanics(i)
       \/ Post(i) \/ Change(i) \/ Remove(i)

Fix ==
  \/ \E b \in BulkId : AddMember(b) \/ AddMemberFails(b) \/ LoadUser(b) \/ UpdateUser(b)
  \/ FixupOver \/ UpdateUserFails \/ UndoFixup
  \/ RemoveFromGroups \/ RemoveMembers \/ RemoveRow
  \/ StartCascade \/ (\E i \in Index : Cascade(i)) \/ FixupsDone

ProcessBulk == Refuse \/ Accept \/ Plan \/ Planned \/ Operate \/ LoopEnds \/ Fix

Others == \E r \in Ids : OtherDeletes(r) \/ OtherWrites(r)

Answered == pc = "done" /\ UNCHANGED vars

Next == ProcessBulk \/ Others \/ Answered

SafetySpec == Init /\ [][Next]_vars
Spec == SafetySpec /\ WF_vars(ProcessBulk)
-----------------------------------------------------------------------------
OnCycle(i) == Needs(i, i)

\* A PUT, PATCH or DELETE is to run after everything its references need, cycles
\* among those POSTs included: its bulkIds are final when it runs.
ReferencesSettled ==
  \A j \in Scheduled : ~IsPost(j) =>
    \A p \in Index : Needs(j, p) => Before(p, j)

\* Operations with one path keep the order in which the client listed them.
ClientOrderKept ==
  \A i, j \in Index : i < j /\ SamePath(i, j) /\ j \in Scheduled => Before(i, j)

\* A POST overtakes a POST that it needs only where the client's references
\* form a cycle that it needs, or lies on.
OnlyCyclesBroken ==
  \A j \in Scheduled : \A p \in Index \ {j} :
    Needs(j, p) /\ ~Before(p, j) =>
      IsPost(j) /\ \E c \in Index : Needs(j, c) /\ OnCycle(c)

\* The order of execution is right in all three respects, for every graph of
\* references and paths, while it is computed and when it is complete.
OrderSound ==
  pc = "order" => ReferencesSettled /\ ClientOrderKept /\ OnlyCyclesBroken

Distinct == \A b \in BulkId : Cardinality(Producers(b)) <= 1

\* errorCount, which decides when to stop, is the number of errors in the answer:
\* an operation that succeeded and was taken back later counts, and counts once.
ErrorCountExact ==
  pc = "loop" => errors = Cardinality({i \in Index : result[i] = "error"})

\* What r refers to by the work of this request.
Ours(r) == links[r] \ theirs[r]

\* A POST that is answered with an error leaves nothing behind, no row and no
\* membership in a group.  bulk_integration_test.go asks for it after a failed
\* cycle.  A rollback does not look at the errors of its own statements, so this
\* needs them to work; and a membership that another client adds after the first of
\* them stays.
FailedLeavesNothing ==
  faults = 0 =>
    \A i \in Index : IsPost(i) /\ result[i] = "error" =>
      /\ i \notin rows
      /\ \A g \in rows : Kind(g) = "group" => i \notin Ours(g)

\* At the end nothing that this request created or changed refers to what it rolled
\* back, users' managers included.  What other clients made refer to it meanwhile,
\* as managers or between the statements of a rollback, does.
NothingRefersToRolledBack ==
  pc = "done" /\ Distinct /\ faults = 0 =>
    \A r \in rows : Ours(r) \intersect rolledBack = {}

\* Failure is complete: what failed is gone, and of this request's work nothing that
\* stays depends on it.
FailureIsComplete == FailedLeavesNothing /\ NothingRefersToRolledBack

\* A POST that is answered with success has all the references of its data, to
\* the resources that were created for them, unless somebody changed it since.
SuccessIsComplete ==
  pc = "done" /\ Distinct =>
    \A i \in created : result[i] = "ok" /\ i \notin touched =>
      /\ i \in rows
      /\ ops[i].refs \subseteq Declared \ {ops[i].bulkId} =>
           links[i] = {Producer(b) : b \in ops[i].refs}

\* The last success that is answered about a resource names the version it then
\* has, unless another client has written to it, or a later operation was answered
\* with an error, or with nothing, although it took effect.
ReportedVersionCurrent ==
  pc = "done" /\ others = 0 /\ Distinct =>
    \A r \in (created \intersect rows) \ (rolledBack \union unsure) :
      LET about == {i \in Index : result[i] = "ok" /\ (i = r \/ Target(i) = r)}
      IN  version[r] = reported[CHOOSE i \in about :
                          \A j \in about : j = i \/ Before(j, i)]

\* A bulk request is answered, whatever the references and the failures.
EventuallyAnswered == <>(pc = "done")
-----------------------------------------------------------------------------
\* What the proofs need beyond the properties.

\* The plan and how far it has been followed: no operation is run twice.
OrderShape ==
  /\ ops \in Inputs
  /\ order \in Seq(Index) /\ ran \in 0 .. Len(order)
  /\ \A k, l \in DOMAIN order : order[k] = order[l] => k = l

OrderInv == OrderShape /\ ReferencesSettled /\ ClientOrderKept /\ OnlyCyclesBroken

\* The control state, as far as it decides what is an error.
AnswerShape ==
  /\ pc \in {"read", "order", "loop", "done"} \union PassSteps
  /\ pc \in {"read", "order"} => ran = 0
  /\ errors \in Nat /\ undone \in Nat
  /\ result \in [Index -> {"none", "ok", "error"}]
  /\ \A i \in Index \ Ran : result[i] = "none"
  /\ created \subseteq Ran /\ fixups \in Seq(Ran) /\ ready \in Seq(Ran)
  /\ pc \in {"update", "undo"} => ready # <<>>
  /\ pc \in RollbackSteps => victim \in Ran
  /\ pc \in {"read", "order", "loop"} => undone = 0

\* errorCount and the errors that running fixups have yet to add to it.
ErrorsCounted ==
  pc # "done" => errors + undone = Cardinality({i \in Index : result[i] = "error"})

IndInv == OrderInv /\ AnswerShape /\ ErrorsCounted
-----------------------------------------------------------------------------
\* What stands, what is settled, and what that says about rows, links and versions:
\* FailureIsComplete, SuccessIsComplete and ReportedVersionCurrent follow from it.

Elements(s) == {s[k] : k \in DOMAIN s}
Standing == created \ rolledBack
InPass == pc \in PassSteps

\* What had run when the last pass over the fixups began.
Passed == {order[k] : k \in 1 .. (IF InPass /\ ~last THEN ran - 1 ELSE ran)}

\* Operations whose needs had all run by then: their fixups are over.
Complete(x, S) == x \in S /\ \A y \in Index : Needs(x, y) => y \in S
Settled == {x \in Index : Complete(x, Passed)}

\* What is recorded about a POST agrees with its answer.
RecordShape ==
  /\ faults \in Nat /\ others \in Nat /\ last \in BOOLEAN
  /\ rolledBack \subseteq created
  /\ victim \in rolledBack \union {NoId}
  /\ victim = NoId <=> pc \notin RollbackSteps
  /\ victim = NoId \/ ready = <<>> \/ victim = First
  /\ \A i \in created :
       /\ IsPost(i) /\ ops[i].form = "fine" /\ ops[i].bulkId \in BulkId
       /\ result[i] = IF i \in rolledBack \ {victim} THEN "error" ELSE "ok"
  /\ \A i \in Index : result[i] = "ok" => ops[i].form = "fine"
  /\ idMap \in [BulkId -> Index \union {NoId}]
  /\ \A b \in BulkId : idMap[b] # NoId => idMap[b] \in Standing /\ ops[idMap[b]].bulkId = b
  /\ failedIds = {ops[i].bulkId : i \in rolledBack}

\* Whoever still has to get references waits for its fixup.
FixupShape ==
  /\ Elements(fixups) \subseteq created /\ Elements(ready) \subseteq created
  /\ deferred \in [Index -> SUBSET BulkId]
  /\ \A i \in Standing :
       /\ deferred[i] \subseteq ops[i].refs
       /\ deferred[i] # {} => i \in Elements(fixups) \union Elements(ready)
  /\ ~InPass \/ pc = "cascade" => ready = <<>>
  /\ pc \in {"read", "order", "loop"} => ~last
  /\ last \/ pc = "done" => fixups = <<>>
  /\ pc \in {"update", "undo"} => First \in Standing
  /\ pc = "update" => /\ ops[First].res = "user"
                      /\ \A b \in deferred[First] : idMap[b] # NoId

StoreShape ==
  /\ rows \subseteq Ids /\ rows \intersect Index \subseteq Ran
  /\ version \in [Ids -> Nat] /\ \A i \in Index \ Ran : version[i] = 0
  /\ links \in [Ids -> SUBSET (Ids \union {Text})]
  /\ reported \in [Index -> Nat] /\ readVersion \in Nat
  /\ theirs \in [Ids -> SUBSET Ids] /\ touched \subseteq Ids /\ unsure \subseteq Ids

\* A resource that nobody has touched has the references that are not deferred.
LinkShape ==
  Distinct => \A i \in Standing \ touched :
    /\ i \in rows
    /\ ops[i].refs \subseteq Declared \ {ops[i].bulkId} =>
         links[i] = {Producer(b) : b \in ops[i].refs \ deferred[i]}

\* While nothing fails, the table has what stands, groups have only that by this
\* request's work, and what is being taken back goes statement by statement.
FailureShape ==
  faults = 0 =>
    /\ rows \intersect Index \subseteq Standing \union {victim}
    /\ \A r \in Ids : Kind(r) = "group" =>
         Ours(r) \intersect Index \subseteq
           Standing \union (IF pc = "unjoin" THEN {victim} ELSE {})

\* A fixup runs as soon as all that its resource needs has run.
PendingShape ==
  Distinct =>
    /\ \A x \in Elements(fixups) : ~Complete(x, Ran)
    /\ \A x \in Elements(ready) : x \notin Settled

\* What is settled refers to nothing that was rolled back, and after a pass nothing
\* does but for references that are still deferred.
CascadeShape ==
  Distinct =>
    /\ \A x \in Standing \intersect Settled : ops[x].refs \intersect failedIds = {}
    /\ pc \in {"loop", "done"} =>
         \A x \in Standing : ops[x].refs \intersect failedIds \subseteq deferred[x]

\* A manager is settled, or a reference of the user's own POST.
ManagerShape ==
  Distinct /\ faults = 0 =>
    \A r \in rows : Kind(r) = "user" =>
      \A x \in Ours(r) \intersect Index :
        \/ x \in Standing \intersect Settled
        \/ r \in Index /\ IsPost(x) /\ ops[x].bulkId \in ops[r].refs

\* The successful operations on the resource that POST r created.
About(r) == {i \in Index : result[i] = "ok" /\ (i = r \/ Target(i) = r)}

\* The last of them names the version.
VersionShape ==
  Distinct /\ others = 0 =>
    \A r \in (Standing \intersect rows) \ unsure :
      \E i \in About(r) :
        /\ \A j \in About(r) : j = i \/ Before(j, i)
        /\ version[r] = reported[i]

OutcomeInv ==
  /\ RecordShape /\ FixupShape /\ StoreShape /\ LinkShape /\ FailureShape
  /\ PendingShape /\ CascadeShape /\ ManagerShape /\ VersionShape
=============================================================================
