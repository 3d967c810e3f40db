# A verification project for the SCIM sandbox server (Go)

TLA+ models, model-checking runs and machine-checked proofs for the server in
`src/`: a multi-tenant SCIM 2.0 service whose handlers run concurrently over
one PostgreSQL database.  Paths below are relative to `src/internal/`.

## 1. The system

| Component | State | Operations | Talks to | What makes it correct |
|---|---|---|---|---|
| Asynchronous requests (`handler/async_event.go`, `repository/async_event.go`, `service/async_event_cleanup_service.go`) | the channel `asyncWorkerSem`, table `scim_async_events`, worker goroutines, one cleanup goroutine | dispatch, worker, poll (`GetEvent`), prune, reap | called by the Users and Groups handlers; runs their `execute...` functions | no slot is lost; a result never changes; "completed" is true; every event ends |
| Users (`handler/user.go`, `repository/user.go`, `scim/mapper.go`) | table `scim_users` with a version column and a unique index on names | GET, POST, PUT, PATCH, DELETE, list, search | memberships, manager of another user, workspace stamp | no lost update; a version names one content of the row; names are unique |
| Groups (`handler/group.go`, `repository/group.go`) | tables `scim_groups`, `scim_group_memberships` | the same, with members | looks up users and groups; deletes of users unlink | all or nothing; version moves with content; no dangling members |
| Bulk (`handler/bulk.go`) | maps of bulkIds, deferred fixups, created resources of one request | order, execute, fix up, roll back | calls the Users and Groups handlers | references resolve to what was created; failure cascades; nothing half-made stays |
| Pagination, cursors, root search (`handler/pagination.go`, `scim/cursor.go`, `handler/discovery.go`) | none; signed cursors travel with the client | parse, page, encode, decode | list and search handlers | pages cover what did not move; bounds |
| Patch engine, filters, mapping, schemas (`scim/`) | none | pure functions | handlers | e.g. at most one primary entry |
| Request log, workspace expiry (`middleware/logging.go`, `repository/workspace.go`, `service/*cleanup*`) | tables `scim_request_logs`, `workspaces`, timers | log, prune, touch, expire | every request | keep the newest; do not expire what is in use |
| Authentication, throttling, metrics (`middleware/`, `httpapi/`) | token table, a semaphore, counters | per request | every request | a token opens its own workspace only; counters balance |
| Database access (`jdbc/`) | the pool | exec, query, transaction | repositories | every way out commits or rolls back |
| Life cycle, configuration (`app/`, `configloader/`) | listeners, cleanup goroutines | start, stop | everything | cleanup goroutines are awaited; asynchronous workers are not |

The hard parts are what happens between two SQL statements: a user request is
a sequence of statements that commit one by one, a group request is one READ
COMMITTED transaction, a deletion is three statements, and an asynchronous
worker outlives its HTTP request, may lose its status write, may die with the
process and competes with a reaper that believes it dead.  A bulk request has
no transaction at all: it creates resources in an order of its own, completes
them later and takes them back when that fails.  Pages are cut out of lists
that move, staleness of a workspace is read from a stamp that is set after the
write it stands for, and several processes prune the same tables.  The patch
engine and the filter parser run alone, but over many attributes, operators
and legal sequences of operations.  `PROJECT.json` lists these hazards with
their lines.

## 2. Modules

| Module | Models |
|---|---|
| `AsyncEvents` | dispatch, worker pool, event table, polling, pruning, reaping, crash and restart |
| `AsyncEventContract` | what a polling client may rely on, abstractly |
| `AsyncEventsProofs` | proofs about the two |
| `UserRequests` | what a user request asks for: content, headers, `checkETagMatch` |
| `UserStore` | the Users endpoint as if every request ran alone |
| `Users` | the Users endpoint, one step per SQL statement |
| `UsersProofs` | proofs about `Users` and `UserStore` |
| `Groups` | the Groups endpoint over READ COMMITTED transactions with row locks |
| `GroupsProofs` | proofs about it |
| `BulkOrder` | the order in which a bulk request runs its operations; extended by `Bulk` |
| `Bulk` | one bulk request over that order, with other clients beside it |
| `BulkProofs` | proofs about the order and the count of errors |
| `BulkOutcomeProofs` | proofs about what a bulk request leaves behind |
| `Paging` | a client that walks through users, or users and groups, page by page |
| `PagingProofs` | proofs about it |
| `UserPatch` | what PATCH and PUT do to the attributes of a user |
| `UserPatchProofs` | proofs about it |
| `Filter` | the filter parser, its SQL and the rows that this selects |
| `Workspaces` | rate limit, tokens, touching and expiry of workspaces, request log |
| `WorkspacesProofs` | proofs about it |
| `MC...` | small instances of these for TLC |

`TypeOK` of the modules from `BulkOrder` on documents their variables and is not among the
properties of the runs; for `Workspaces`, `Paging` and `UserPatch` it is
proved instead.  At the end of a
module stands what its proofs need beyond the properties: the conjuncts of its
inductive invariant.

Definitions whose comment begins with "Faulty variant" are not part of a
specification.  Each states a plausible mistake in the definition that follows
it, and a run that uses it in that definition's place must fail: this shows
that the property depends on the code it is about.

### AsyncEvents

`phase[t]` is the program counter of a request: `new`, `create` (slot taken,
INSERT pending), then the worker's `check`, `op`, `applied`, `complete` or
`fail`, then how it ended.  `slots` is the number of tokens in
`asyncWorkerSem`; `status`, `payload` and `created` are columns; a payload is
reduced to who wrote it (`set` by a successful worker, `error` by a failing
one, `stale` by the reaper).  `cleaner`, `wsTodo` and `stale` are the local
state of the one cleanup goroutine, which prunes and then reaps.  `applied`
and `seen` are history: whether the change was committed, and what the client
was last told.

Each database statement is one action and has a failing twin where the code
tells errors apart (`CreateEventError`, `WorkerCheckError`, `RecordError`,
`PruneError`, `FindStaleError`, `ReapError`).  An INSERT may take effect
although its request reports an error (`orphan`).  `Crash` stands for a crash
and for a graceful stop, because `app/serve_internal.go` does not wait for
workers.  Time is a counter; `Tick` does not pass the deadline of a worker's
context, i.e. **a database call is assumed to return when its context
expires**.  `StaleVerdictExplained` rests on this assumption.

### Users

A request runs one statement per step; `pc[r]` is the next statement.
`nextContent` and `readVersion` are the `ScimUser` struct in memory.  Content is a
name (up to case, as the index compares it), one value for all other columns
a client writes, and the manager's display, which `resolveManagerMetadata`
reads from elsewhere and which is a free choice here.  A PUT without a name
keeps the old one and resets everything else (`ClearMutableAttributes`); a PATCH
keeps what it does not mention.  `valid` says whether the mapper accepts the
body.  Reads that fail are reported as 404 by the code, so `FindNothing` is
always possible.  A statement that reports an error may have taken effect
(`InsertError`, `WriteError`, `RemoveError`).

`UserStore` has four actions, one per effect; `LeaveAlone` says which answers
may be given without an effect, and when they are true.

`ETagDeterminesContent` is about the columns of the row, which is what an update with
`If-Match` and the version column is checked against.  It is not about the whole
response of `GetUser`, which also has the user's `groups`: see 16 below.

### Groups

POST, PUT and PATCH run in `jdbc.InTransaction`.  A transaction's own inserts
and deletes (`ins`, `del`) are invisible to others until `Publish`; `lock` says which
transaction has written a group row, and the name it will have counts for the
unique index.  A DELETE statement collects the rows it sees and then waits for
their locks, in two steps (`ClearMembers`, `ClearedMembers`): that is READ
COMMITTED as PostgreSQL has it, and what makes the findings below possible.
A PATCH that removes a list of members runs one DELETE per member, so two of
them can lock each other out; `DeadlockDetected` is PostgreSQL's answer.
Within one statement all row locks are taken at once: a deadlock inside the
lock order of two single statements would look like `Fail`.
`Fail` ends a transaction at any statement, `CommitUnacknowledged` commits and
reports an error.  `executeDeleteGroup` and the unlinking part of
`executeDeleteUser` commit statement by statement, and errors of their first
statements are only logged (`DeleteLogged`).

### BulkOrder and Bulk

`ops` is the list of operations the client sent, `order` those scheduled so
far.  An operation is a method, a kind of resource, the bulkId it declares, the
target of its path, and the bulkIds its data refers to.  `computeBulkExecutionOrder` picks
the first operation that waits for nothing, and within a cycle the first POST;
`Plan` does this step by step, before the first operation runs.  The properties of
the order use `Needs`, a definition of transitive dependency by least fixed point,
and not the code's closure.  Both are iterations written as recursive functions on
numbers, and so is `Chosen`, the `SelectSeq` of `Bulk`: one can prove something about those.

`Bulk` extends `BulkOrder`.  `ran` counts the operations of the order that have run; `idMap`, `created`, `rolledBack`, `failedIds`, `fixups` are
`bulkIdMap`, `createdPosts`, its `rolledBack` flags, `rolledBackBulkIDs` and the
deferred fixups; `rows`, `version`, `links` are the database: resources, their
versions, and members or manager.  The resource that operation `i` creates is
named `i`.  The handlers an operation calls are one step each
(`Post`, `Change`, `Remove`, `OperationFails`, `OperationPanics`): their own races are in
`Users` and `Groups`.  Any operation, of whatever method, may take effect although it is answered
with an error, or with nothing (`DoneAllTheSame`).  Everything after that is outside of any
transaction, and every statement of it is a step: those of a fixup (`AddMember`, `LoadUser`,
`UpdateUser`), and those of `rollbackRecord`, which marks the resource as gone (`TakeBack`) and then deletes
its memberships, its members and its row (`RemoveFromGroups`, `RemoveMembers`, `RemoveRow`); `victim`
is the resource a rollback is about.  Each may fail, and other clients come in between: they
delete, and they drop links and add new ones, to a resource that is being rolled back, too
(`OtherDeletes`, `OtherWrites`).  `theirs` and `unsure` are history: the links
another client has made, and the resources whose last change was not answered with success.
`createdPosts` is a Go map, so `Cascade` takes its records in any order.
A panic is recovered, but the function's result is not a named one and is
lost: the operation then has no answer.

### Paging

`parsePagination`, the counting and the listing statements, and
`buildListResponse` are steps; `RootSearch` counts and lists two tables.  A cursor
is an offset, a page size, an expiry and a workspace.  `ToInt` is Go's conversion
of a `float64` that does not fit an `int`: implementation-specific, here a choice
between the smallest and the largest.  The client is external: it follows
`nextCursor`, or adds what it got to `startIndex`.  Rows have a place in the sort
order, the number of rows that come before (`Before`, `Sorted`).  `RootSearch` with
`sortBy` has two orders: SQL cuts a prefix of each table in its own (`place`, `Foremost`), and
`sortResources` sorts the two prefixes together in the other, in which rows are numbered.
`place` may be any of `Places`; `SortsAlike` says that the two agree on the rows of each table, and
the properties that need it say so (see 17 below).  `Backward` uses the size of the page before, which travels in the cursor.

### UserPatch

One user, stored (`user`) and as a PATCH works on it (`work`).  An operator such as
`setPassword` or `applyFilteredUpdate` yields the set of users that may result:
empty when the request is refused, several when the outcome depends on salt or on the
order in which Go iterates over a map.  An item of a multi-valued attribute has a value
with a spelling (surrounding space, letter case), a type and the primary flag;
`attr` says which of the eight attributes it is, because they canonicalise,
validate and compare differently.  `title` stands for all optional strings, `familyName` and
`givenName` for the parts of a name.  `Response` is `UserToScimResponse` as far
as a PUT of it would have an effect, so that reading and putting back can be
checked.  A loop of the code is `FoldUp`, which is the `FoldLeft` of the community modules
written as a function of the steps done.  `Sent` lists the values that clients
send for a path.

### Filter

A filter is a sequence of tokens that grows by one token per step, so that TLC
visits every filter up to a length that is not refused earlier.  `Parser` is one
recursive function with a level for each method of the parser; a result is a condition with
numbered parameters, its arguments and the place of the next token.  `Eval` is
SQL's three-valued logic.  `Meanings` is the reference: a
grammar with the rows each expression means, written as sets of splits and
without a parser.

### Workspaces

A request goes through `throttlingMiddleware`, `BearerTokenAuth`, its handler, `touchWorkspace`
and `RequestResponseLogging`.  The limiter may let it wait (`Send`, `Admit`, `Throttle`), and the token
is looked at inside of the limiter, in two steps: the statement that finds a token that is not
revoked (`FindToken`), and the clock (`CheckExpiry`).  A request of kind `config` needs no token: a GET
without `Authorization` of a path that ends in `/ServiceProviderConfig`.  The code goes by
the end of the path; the other handlers that are reached in this way answer with 404 or
with a static document.  The time that goes into a statement is read one step
before the statement runs.  Requests that only read do not touch their workspace.
Each server process has a `cleaner` (`WorkspaceCleanupService`) and a `pruner`
(`RequestLogCleanupService`), which deletes in two steps: the subquery picks rows,
and those still there are deleted.  `touched`, `inserted` and the `good` of a request, whether its
token was good when the limiter let it through, are history.
`Tick` waits for requests that have been running for `MaxDelay`, i.e. **no request takes
longer than `MaxDelay`**; `TouchedKept` is stated up to that delay.  `Init` admits
every configuration of the services, earlier deletions and revocations, and any time;
`MCWorkspaces` picks scenes from it.

The schema is not part of the repository.  The models assume the unique
indexes that the code names (`userNameConstraints`, `isGroupDisplayNameConflict`),
and that what belongs to a workspace is deleted with it; a further constraint
could only make statements fail.

## 3. Runs

| Run | Instance | Shows |
|---|---|---|
| `async` | 2 requests, 1 slot, 1 kept event, batches of 1, clock to 3, 1 crash | slots balance; completed means applied; the reaper's verdicts are explained; answers are final; pruning keeps the newest; every slot returns; the client contract is implemented, with its progress: every PENDING event ends |
| `users` | 3 requests out of 15, 3 ids, 3 names | ETags identify content; no lost update; refinement of `UserStore` |
| `users_delete` | 2 requests | **violated**: a conditional DELETE removes a version it does not name |
| `groups` | every pair of 14 requests | a failed transaction leaves nothing; versions and names move together; a PUT overwrites only what it read; lock waits and deadlocks end |
| `groups_put_exact` | 2 requests | **violated**: a PUT ends with members it did not list |
| `groups_dangling` | 2 requests | **violated**: a deleted group is still a member |
| `bulk` | lists of up to 4 operations with chains, cycles, duplicates and uses; 1 failing statement or panic; 1 step of another client | `OrderSound`: everything but POSTs runs after all it needs, in the client's order per path, and only cycles are broken; errors are counted once; failures leave nothing of this request's work; success is complete; versions in the answer are true; the request is answered |
| `paging` | 5 rows, 2 writes, 1 fault, 3 endpoints, 3 SQL orders | pages are bounded; a quiet walk is complete; deletions repeat nothing; the previous page is the one before; walks end |
| `patch` | all eight attributes, up to 3 items; single attributes, 2 managers | one primary item; no duplicates; adding keeps; filters select; repeating an operation changes nothing; no manager is left over; reading back changes nothing |
| `filter` | up to 10 tokens of nested operators, 7 with comparisons, 6 with value paths | the grammar is accepted, the rows that are meant are selected |
| `workspaces` | three scenes, clock to 4, stale after 2 | what was touched is kept; nobody is served without a good token; the newest rows of the log stay |
| `services_liveness` | 1 workspace that always fails | pruning gets round it; services stop |

Why the bounds are enough.  One slot and two requests make a full pool and a
refusal; one kept event and two results make pruning necessary; a clock of 3
with a cutoff of 2 lets a row become stale, be reaped and be polled again, and
`ArrivalsOpen` keeps requests out that could no longer become stale.  In
`users` two updates and a deletion race at one user, and a third name makes
both renaming and creating conflict.  For groups, pairs reach every conflict of
locks and every overwritten version.  `MaxTime`, `MaxCrashes`,
`ReapLimit` and `PruneBatchSize` are parameters, so the proofs do not depend on
their values.  Requests are interchangeable, hence the symmetry sets of the runs
without liveness properties.

Three bulkIds make a cycle with somebody who depends on it, and a cycle that is
itself depended on; a fourth operation uses what was created, before or after
the cycle is resolved.  One step of another client can remove a resource, or refer to it,
between any two statements, which is what fixups and rollbacks have to survive.  What
failures leave behind is only stated without a failing statement, because the
rollback drops the errors of its own, and of links that other clients did not make.  Five rows and pages of 0, 1, 2, 3 or
(clamped) 4 make first, middle, last, empty and overlong pages, and pages that
span users and groups; in SQL rows are sorted as in Go, in reverse, or only the groups in reverse;
`MaxResults` is 4 in place of 200 and `MaxInt` 9.  Three
items are enough for a duplicate, a primary item and an innocent one; a request
on them has one operation, since requests follow each other without end, and one
on single attributes has two, where an error in the second must undo the first.
Ten tokens hold `( a or b ) and c`, seven two comparisons and a connective, six a
value path and its comparison; values of titles include null, a
capital and another letter.  The scenes of `workspaces` are two requests that
race with the cleanup of their workspace, one request with any token to any
workspace, and two processes that prune while two requests are logged; a clock
of 4 and a limit of 2 let a workspace become stale, be touched and be deleted; a
touch may be delayed by one unit, like the request it belongs to.

Fairness.  `AsyncEvents`: goroutines are scheduled, the ticker fires, time
passes and a supervisor restarts the process (weak fairness); the database
does not fail every single attempt to list stale rows or to reap a given row
(strong fairness of `FindStale` and `Reap`).  Nothing is assumed of a worker
beyond being scheduled: it may fail, panic or lose its write.  `Groups`: every
request is scheduled and waits end when locks are released or a deadlock is
found (weak fairness of `Progress`); no failure is assumed to happen.  `Bulk`: the
handler goes on (weak fairness of `ProcessBulk`).  `Paging`: client and server go
on (weak fairness of `Walk`), which may end in a refusal.  `Workspaces`: handlers and services
are scheduled and tickers fire (weak fairness of `RequestStep`, `CleanerStep`,
`PrunerStep`); pruning may fail forever for some workspaces and now and then for
others.  Clients, signals, administrators and other writers need not do
anything.

Deadlock checking is on in every run.  `AllAnswered` marks the end of
`Users` and `Groups`, `Answered`, `WalkOver`, `Terminated` and `Done` that of
the others; in `AsyncEvents` the cleanup goroutine never stops, and `UserPatch`
goes from request to request.

## 4. Findings

Three have a run that ends in a counterexample:

1. `If-Match` on DELETE is checked before the statement and not by it; PUT and
   PATCH repeat it through the version column (`users_delete`).
2. The version check protects a PUT of a group only from writers that raise the
   version, and its DELETE does not see what is not committed: it can commit with
   foreign members (`groups_put_exact`).
3. `executeDeleteGroup` is neither a transaction nor does it stop at an error;
   the deleted group can remain a member of another (`groups_dangling`).

The others were met while modelling; where a property would fail because of one
of them, it states the exception.

4. The reaper is documented to sweep *orphaned* events, but only the defaults
   (2 min + 10 s against 5 min) make that so: validation accepts any positive
   `stale_pending_after`, and the worker then goes on to apply a change that was
   reported as failed.  `StaleVerdictExplained` names the case.
5. A PATCH of a group decides by comparing with the members it loaded whether
   to raise the version.  Members committed meanwhile are overwritten without
   a new version.
6. The rollback of a bulk request drops the errors of its DELETE statements; a
   resource whose POST is answered with an error can stay.  It deletes statement by statement
   and never looks for managers: another client can make the doomed resource a manager, or a
   member after the DELETE of its memberships, and that reference stays.  `FailureIsComplete`
   is about requests without such an error, and about this request's own references.
7. Deferred members are added to a group whose version, and ETag, stay the same;
   a deferred manager does move the version of its user.  An operation that takes effect although it
   is answered with an error moves the version as well; the success before it then names an old
   one (`unsure`).
8. A sorted search at the root ends at 200 rows per table: further pages are
   empty and have no `nextCursor`, although `totalResults` promises more.
   `WalkComplete` is about walks within that limit.
9. `count` in a JSON body is converted to `int` before it is compared with the
   limit; a number that does not fit may turn negative and become 0 (`ToInt`).
10. A filtered PATCH that makes items primary looks at items it has demoted
    itself; with the filter `primary eq "false"` an item that did not match wins.
    `UpdateOnlyMatching` leaves that filter out.
11. Filters of PATCH paths are reduced to their first `eq` clause, for removal, too;
    the parser for queries refuses such filters.
12. PATCH of `manager.value` keeps the old `$ref` when the new manager is not found.
    PUT of what was read is then refused, hence the condition in `ReadBackUnchanged`.
13. `not` over an attribute without a value is null in SQL and selects nothing,
    other than `ne`.  `SelectsMeant` leaves such rows out for filters with `not`.
14. `eq` ignores letter case and `ge` does not, in columns that the schema
    announces as not case-exact.
15. A workspace is deleted by its stamp, which a write sets afterwards in a
    statement that may be late or fail.  `TouchedKept` is about the touch and not
    about the write.
16. The version of a user does not move when it joins or leaves a group, but the response of
    `GetUser` lists its `groups` (`handler/user.go:308`); a client that asks with `If-None-Match` is
    told 304 (`user.go:302`) although the representation has changed.  A group is in the same
    position: deferred members (7) and deleted users change `members` but not
    the version that `GetGroup` compares (`group.go:344`).
17. A sorted search at the root cuts prefixes in the order of SQL and merges them in another
    (`handler/discovery.go:302-319`).  Attributes that `buildOrderClause` does not know, such as
    `meta.version`, are sorted by name there and by value in `sortResources`; `emails` is a list, which
    `extractSortAttr` prints as a whole; an attribute that the projection leaves out is missing
    when the merge looks for it; and a database that does not collate like `strings.ToLower` differs even
    for names.  Where the orders differ, a quiet walk can repeat and skip resources, far below 200
    rows.  `WalkComplete` and `DeletionsNeverRepeat` are about `SortsAlike`.

## 5. Proofs

All theorems hold for every value of the constants that satisfies the ASSUMEs
of the modules (which TLC evaluates on each run): any number of requests,
users, workers, any timeouts and bounds.

`AsyncEventsProofs` proves `SafetySpec => []IndInv`.  `SlotAccounting` needs the
cardinality of the set of slot holders to change by one with each acquisition
and release (lemmas `HoldersAfter...`).  `StaleVerdictExplained` is not
inductive alone: the reaper writes long after it read, so `DeadlineShape` keeps
what a row in its list implies about the clock, and where a live worker's
deadlines lie.  `AnswerShape` ties what a client was told to the row until the
row is gone, which gives `AnswersFinal`; `SuccessShape` follows a commit to the
answer.  `Refinement` maps each step to a step of the contract or a stutter.

`UsersProofs` proves `Spec => []IndInv`.  The heart is `PendingWrite`: what a
request is about to write derives from the content that had the version it
read.  With `ETagDeterminesContent` and `HistoryShape` an UPDATE whose WHERE
clause finds that version finds that very content (`WriteHitsWhatWasRead`), so
the write amounts to an atomic read-modify-write, and `NoLostUpdate` and the
refinement of `UserStore` follow.  `UniqueNames` makes the answer 409 truthful.

`AsyncEventsProofs` also proves that pruning keeps the newest (`KeepsNewest`): a row that `Offset`
does not skip has a rank of `MaxCount` or more, so all skipped rows are newer, and there are
that many (`OffsetSkips`).

`GroupsProofs` proves `Spec => []IndInv`.  `RowsAnswered` says that the writer of a committed
row has ended with an answer that admits it: a failed request leaves nothing.
`LockShape` is the heart: who holds a group's lock is about to create that group, or about
to commit an update of the version it read, which nobody can have raised meanwhile.
So each version gets one displayName (`ETagDeterminesName`, with `HistoryShape`), and a PUT that
commits raises the version by one.  It assumes that there is a name at all (`Name # {}`).

`WorkspacesProofs` proves that no request is served whose token was not good
when the limiter let it through, however long it waited before (`AuthShape`: a token found after that and
unexpired later was good then, because expiry and revocation are for ever); that the newest rows of the request log stay
(`PickedShape`: what a subquery picked keeps its `MaxCount` newer rows however many are inserted); and that
a workspace stays for the period after it was touched (`TimeShape` bounds the age of a time
about to be written, `TouchShape` the lag of the column, `CutoffShape` the cleaner's limit).

`BulkProofs` shows that the code's closure is the least fixed point `Needs` (`ClosureIsNeeds`).
The induction theorems take an operator and cannot be used here, so inductions
go over sets of numbers: a counterexample would have a least one.  It then shows
that every next operation keeps `OrderInv`.  When every operation left waits,
the chosen POST is excused by a cycle (`StuckOnCycle`): of the POSTs left, the one that
needs fewest needs one that needs as many, hence itself.  For the errors, an order
without repetitions and records of operations that have run make `errors + undone`
the number of errors in the answer (`ErrorsCounted`), also while fixups run.

`BulkOutcomeProofs` proves `Spec => []OutcomeInv`, on top of `IndInv`, and from it the three properties
about what a request leaves behind.  The argument is about time.  A resource *stands* while it
is created and not rolled back, and is *settled* when everything it needs, in the sense of `Needs`,
had run before the last pass over the fixups began.

- A fixup runs as soon as all that its resource needs has run (`PendingShape`), so what is
  settled has no fixup left that could fail.  What a settled resource needs is settled too, so no
  cascade reaches it either (`CascadeShape`): a settled resource is never taken back.
- `ReferencesSettled` makes a PUT or PATCH run after all it needs, so it can only store references to
  settled resources.  Managers are not looked up and not cleaned up by a delete;
  this is why no user is left with a manager that was rolled back (`ManagerShape`).  Groups and
  the table are cleaned by each delete (`FailureShape`), statement by statement: while a rollback is
  under way, what it has not come to yet may still refer to `victim`.  Both speak of `Ours`, the
  links without `theirs`, which no step of another client can add to.
- Whoever stands and lacks a reference is in `fixups` or `ready` (`FixupShape`), both empty at the
  end, and what it has is exact (`LinkShape`): success is complete.
- A manager's fixup moves the version and corrects the answer.  An operation that uses the resource
  would make it settled, so none precedes the fixup, and the last success names the version
  (`VersionShape`), unless the resource is `unsure`.

The invariant was checked on all inputs of run `bulk` before it was proved.  `BulkAssumption` says of the constants that names of
resources, indices and the absent id differ, and that a user's data has at most one
manager reference.  As in the properties, each bulkId has one POST (`Distinct`).

`PagingProofs` proves every invariant of the run.  Positions are counted, and a pigeonhole argument
gives each position up to the number of rows exactly one row.  `WalkShape` ties the cursor and
`startIndex` to the pages shown.  While rows are only deleted (`Placed`) what was shown and still exists
lies before the start of the next page, because deletions only move rows
forward; `RootPlaces` and `SortedPlaces` carry this across the statements of one
request.  Of sorted results this needs `SortsAlike`: what SQL puts first is then what comes first
(`ForemostFirst`), sorted (`FirstSorted`).  While nothing changes, what was seen is a prefix of the order (`Prefix`), and
`MergedPrefix` shows that two lists cut at the fetch limit merge to the start of the
whole list.

`UserPatchProofs` proves `Spec => []IndInv` and from it the five invariants of run `patch`, for
lists, filters, maps and requests of any length.  `IndInv` says that stored items are as the builders make
them (`Canonical`), that no two have the same key and that at most one is primary (`Sound`), of the
stored user and of the copy, and that nothing is left of a manager that is gone.

- Each loop gets an invariant over the steps done (`LoopExists`, `LoopStays`, with a least
  counterexample in place of induction).  `DedupInv` says that the items kept have the keys of those
  seen, each once, and that one is primary exactly when one seen with its key was.  A list
  with at most one primary item therefore keeps at most one (`DeduplicateSound`).  Appending
  demotes the others (`ExtendedFlags`), and so does a filtered update (`UpdateInv`).
- `OthersKept`: neither merging nor demoting changes a key, and an update touches only
  items that matched when their turn came.  Demotion can change a match only through the
  primary flag, hence the condition of `UpdateOnlyMatching`.
- `ReadBackUnchanged` needs `Canonical`: the builders map stored items to themselves
  (`ItemBack`), and a list without duplicates is not merged (`DeduplicateFixed`).
- `RetryChangesNothing`: the second time, every item finds its key in the list already and the
  flags come out the same (`AddingTwice`); each other setter undoes nothing it did.

`UserPatchAssumption` says that null, an absent member, a value of another type and an opaque `$ref`
differ from each other and from strings and ids.  `SentAssumption` says that clients
send lists of items and that each clause of a filter compares one attribute.

Only model-checked, and out of reach: the liveness properties (fairness), and `Filter`, which is
recursive, so that nothing can be proved about what it computes for every filter.

The proofs led to corrections of the models.  CASE arms in `BulkOrder`, `Bulk`, `Filter`, `Paging` and
`UserPatch` overlapped; TLC takes the first that holds, but TLA+ leaves the choice open, so
nothing was provable about them.  They are disjoint now.

## 6. Not modelled, and the plan

Done: `AsyncEvents`, `Users`, `Groups`, `BulkOrder` and `Bulk`, `Paging`, `UserPatch`, `Filter`,
`Workspaces`.  Left to do: PATCHes of groups with several operations, and the member
attributes `display` and `type`.

Not used by any handler, and not modelled: `InTransactionWithLock` of `jdbc/`.

Left out, because it is text or has no state: cutting filters into tokens and the
substring operators `co`, `sw`, `ew`, dates in filters, formatting of tokens, the documents of
schemas and resource types, error wording, SQL strings, redaction in the request
log, hashing of tokens and signing of cursors, logging, values of metrics,
loading of configuration, test support.
