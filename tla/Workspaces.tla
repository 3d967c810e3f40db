----------------------------- MODULE Workspaces -----------------------------
(***************************************************************************)
(* What surrounds every request: the rate limiter, the bearer token, the   *)
(* write and the touch of its workspace, and the request log; and the two  *)
(* background services that run beside the requests in every server        *)
(* process, which delete workspaces nobody wrote to for long and the       *)
(* excess of the request log.                                              *)
(*                                                                         *)
(* Every SQL statement is a step, and so is every reading of the clock     *)
(* whose result goes into one.  Deleting a workspace takes its rows with   *)
(* it: the schema is not part of the repository, and a foreign key that    *)
(* did not cascade would make the deletion impossible.                     *)
(***************************************************************************)
EXTENDS Integers, FiniteSets

CONSTANTS
  Workspace,
  Token,
  TokenWorkspace,   \* the workspace of a token
  TokenExpiry,      \* the last time at which a token is good; MaxTime when it does not expire
  Requests,         \* numbers of requests, each of which is sent once
  Kinds,            \* what clients do: "write", "read" or "config"
  Cleaners,         \* processes that run WorkspaceCleanupService
  Pruners,          \* processes that run RequestLogCleanupService
  StaleAfter,       \* cleanup.stale_after
  MaxCount,         \* cleanup.request_logs.max_count
  BatchSize,        \* DefaultPruneBatchSize
  Unprunable,       \* workspaces for which the deletion always fails
  MaxFailures,      \* bound on the other failures of the log cleanup
  OldLogs,          \* rows of the request log from earlier on
  MaxTime,          \* bound on the clock
  MaxDelay          \* how long a request takes at most

ASSUME WorkspacesAssumption ==
  /\ TokenWorkspace \in [Token -> Workspace]
  /\ TokenExpiry \in [Token -> 0 .. MaxTime]
  /\ Requests \subseteq Nat /\ Kinds \subseteq {"write", "read", "config"}
  /\ StaleAfter \in Nat /\ MaxFailures \in Nat /\ MaxTime \in Nat /\ MaxDelay \in Nat
  /\ MaxCount \in Nat \ {0} /\ BatchSize \in Nat \ {0}
  /\ Unprunable \subseteq Workspace
  /\ OldLogs \subseteq [ws : Workspace, at : {0}, id : Nat \ Requests] /\ IsFiniteSet(OldLogs)

Process == Cleaners \union Pruners

VARIABLES
  now,
  alive, updated,     \* rows of workspaces, and their updated_at
  revoked,            \* tokens
  req,                \* requests
  logs,               \* rows of scim_request_logs: workspace, created_at, id
  cancelled,          \* processes whose context is cancelled
  cleaner, pruner,
  failures,
  touched,            \* ghost: when a workspace was last touched
  inserted            \* ghost: all log rows there have ever been

vars == <<now, alive, updated, revoked, req, logs, cancelled, cleaner, pruner, failures,
                 touched, inserted>>

Log == [ws : Workspace, at : 0 .. MaxTime, id : Requests \union {l.id : l \in OldLogs}]

Request == [pc : {"idle", "sent", "admitted", "found", "served", "written", "touching",
                  "answered", "logging", "done"},
            ws : Workspace, token : Token, kind : {"write", "read", "config"},
            since : 0 .. MaxTime, good : BOOLEAN, at : 0 .. MaxTime]

TypeOK ==
  /\ now \in 0 .. MaxTime /\ alive \subseteq Workspace
  /\ updated \in [Workspace -> 0 .. MaxTime] /\ revoked \subseteq Token
  /\ req \in [Requests -> Request]
  /\ logs \subseteq inserted /\ inserted \subseteq Log
  /\ cancelled \subseteq Process /\ failures \in 0 .. MaxFailures
  /\ cleaner \in [Cleaners -> [pc : {"idle", "deleting", "stopped"}, cutoff : Int]]
  /\ pruner \in [Pruners -> [pc : {"idle", "next", "picked", "stopped"},
                             todo : SUBSET Workspace, current : SUBSET Workspace,
                             picked : SUBSET Log]]
  /\ touched \in [Workspace -> 0 .. MaxTime]

\* A pruner that goes on with the workspaces of todo, or waits for its ticker.
Onward(todo) ==
  [pc |-> IF todo = {} THEN "idle" ELSE "next", todo |-> todo, current |-> {}, picked |-> {}]

Waiting == [pc |-> "idle", cutoff |-> 0]
Stopped == [Onward({}) EXCEPT !.pc = "stopped"]

\* serve: the configuration switches the services on or off, the log cleanup only
\* together with the other one; a process that was told to stop has stopped.
\* Workspaces may have been deleted and tokens revoked before.
Init ==
  /\ now \in 0 .. MaxTime /\ alive \in SUBSET Workspace
  /\ updated \in [Workspace -> 0 .. now] /\ touched = updated
  /\ revoked \in SUBSET Token /\ cancelled \in SUBSET Process /\ failures = 0
  /\ logs \in SUBSET {l \in OldLogs : l.ws \in alive} /\ inserted = logs
  /\ req \in [Requests -> {q \in Request : q.pc \in {"idle", "done"} /\ q.since = 0 /\ q.at = 0
                                           /\ ~q.good /\ q.kind \in Kinds}]
  /\ cleaner \in [Cleaners -> [pc : {"idle", "stopped"}, cutoff : {0}]]
  /\ pruner \in [Pruners -> {Onward({}), Stopped}]
  /\ \A p \in cancelled \intersect Cleaners : cleaner[p].pc = "stopped"
  /\ \A p \in cancelled \intersect Pruners : pruner[p] = Stopped
  /\ \A p \in Cleaners \intersect Pruners : cleaner[p].pc = "stopped" => pruner[p] = Stopped
-----------------------------------------------------------------------------
Goes(r, pc) == req' = [req EXCEPT ![r].pc = pc]

\* A ghost: the token is good at this moment.
Good(q) ==
  /\ TokenWorkspace[q.token] = q.ws
  /\ q.token \notin revoked /\ TokenExpiry[q.token] >= now

\* A client sends a request.
Send(r) ==
  /\ req[r].pc = "idle"
  /\ req' = [req EXCEPT ![r].pc = "sent", ![r].since = now]
  /\ UNCHANGED <<now, alive, updated, revoked, logs, cancelled, cleaner, pruner, failures,
                 touched, inserted>>

\* throttlingMiddleware: the limiter does not let the request through in time, or
\* its client goes away while it waits.
Throttle(r) ==
  /\ req[r].pc = "sent" /\ Goes(r, "done")
  /\ UNCHANGED <<now, alive, updated, revoked, logs, cancelled, cleaner, pruner, failures,
                 touched, inserted>>

\* It lets the request through, which may have waited; what is inside of it,
\* ExtractWorkspaceID and BearerTokenAuth, comes after.
Admit(r) ==
  /\ req[r].pc = "sent"
  /\ req' = [req EXCEPT ![r].pc = "admitted", ![r].good = Good(req[r])]
  /\ UNCHANGED <<now, alive, updated, revoked, logs, cancelled, cleaner, pruner, failures,
                 touched, inserted>>

\* BearerTokenAuth, the statement: FindByTokenHashNotRevoked, and FindByID for
\* ServiceProviderConfig, which needs no token but a workspace.  It may fail.
FindToken(r) ==
  LET q == req[r] IN
  /\ q.pc = "admitted"
  /\ \/ q.kind = "config" /\ q.ws \in alive /\ Goes(r, "served")
     \/ /\ q.kind # "config" /\ q.token \notin revoked /\ TokenWorkspace[q.token] = q.ws
        /\ Goes(r, "found")
     \/ Goes(r, "done")
  /\ UNCHANGED <<now, alive, updated, revoked, logs, cancelled, cleaner, pruner, failures,
                 touched, inserted>>

\* Faulty variant: the time is the one at which the request arrived.
UnexpiredOnArrival(q) == q.since <= TokenExpiry[q.token]

Unexpired(q) == now <= TokenExpiry[q.token]

\* BearerTokenAuth, the clock, which is read after the statement.
CheckExpiry(r) ==
  /\ req[r].pc = "found"
  /\ Goes(r, IF Unexpired(req[r]) THEN "served" ELSE "done")
  /\ UNCHANGED <<now, alive, updated, revoked, logs, cancelled, cleaner, pruner, failures,
                 touched, inserted>>

\* The handler.  A write to a workspace that is gone is refused by the database.
Handle(r) ==
  LET q == req[r] IN
  /\ q.pc = "served"
  /\ IF q.kind = "write" /\ q.ws \in alive
     THEN Goes(r, "written") ELSE Goes(r, "answered")
  /\ UNCHANGED <<now, alive, updated, revoked, logs, cancelled, cleaner, pruner, failures,
                 touched, inserted>>

\* touchWorkspace reads the clock ...
TouchTime(r) ==
  /\ req[r].pc = "written"
  /\ req' = [req EXCEPT ![r].pc = "touching", ![r].at = now]
  /\ UNCHANGED <<now, alive, updated, revoked, logs, cancelled, cleaner, pruner, failures,
                 touched, inserted>>

\* Faulty variant: the workspace is not touched.
TouchUpdatedAtNot(w, at) == updated

\* UPDATE workspaces SET updated_at.
TouchUpdatedAt(w, at) == IF w \in alive THEN [updated EXCEPT ![w] = at] ELSE updated

\* ... and writes it down.  The answer goes out after that.
Touch(r) ==
  LET q == req[r] IN
  /\ q.pc = "touching" /\ Goes(r, "answered")
  /\ updated' = TouchUpdatedAt(q.ws, q.at)
  /\ touched' = [touched EXCEPT ![q.ws] = IF q.ws \in alive THEN now ELSE @]
  /\ UNCHANGED <<now, alive, revoked, logs, cancelled, cleaner, pruner, failures, inserted>>

\* A failure of touchWorkspace is only logged.
TouchFails(r) ==
  /\ req[r].pc = "touching" /\ Goes(r, "answered")
  /\ UNCHANGED <<now, alive, updated, revoked, logs, cancelled, cleaner, pruner, failures,
                 touched, inserted>>

\* RequestResponseLogging, after the answer: Create reads the clock and inserts.
LogTime(r) ==
  /\ req[r].pc = "answered"
  /\ req' = [req EXCEPT ![r].pc = "logging", ![r].at = now]
  /\ UNCHANGED <<now, alive, updated, revoked, logs, cancelled, cleaner, pruner, failures,
                 touched, inserted>>

CreateLog(r) ==
  LET row == [ws |-> req[r].ws, at |-> req[r].at, id |-> r] IN
  /\ req[r].pc = "logging" /\ req[r].ws \in alive /\ Goes(r, "done")
  /\ logs' = logs \union {row} /\ inserted' = inserted \union {row}
  /\ UNCHANGED <<now, alive, updated, revoked, cancelled, cleaner, pruner, failures, touched>>

\* A row that cannot be inserted is lost.
CreateLogFails(r) ==
  /\ req[r].pc = "logging" /\ Goes(r, "done")
  /\ UNCHANGED <<now, alive, updated, revoked, logs, cancelled, cleaner, pruner, failures,
                 touched, inserted>>
-----------------------------------------------------------------------------
\* WorkspaceCleanupService.Start: the ticker fires, cleanup computes the limit.  If
\* the context is cancelled at the same time the statement fails at once.
CleanupStarts(p) ==
  /\ p \notin cancelled /\ cleaner[p].pc = "idle"
  /\ cleaner' = [cleaner EXCEPT ![p] = [pc |-> "deleting", cutoff |-> now - StaleAfter]]
  /\ UNCHANGED <<now, alive, updated, revoked, req, logs, cancelled, pruner, failures,
                 touched, inserted>>

Stale(before) == {w \in alive : updated[w] < before}

\* DeleteStale, with the rows that belong to the workspaces.
DeleteStale(p) ==
  /\ cleaner[p].pc = "deleting"
  /\ alive' = alive \ Stale(cleaner[p].cutoff)
  /\ logs' = {l \in logs : l.ws \in alive'} /\ inserted' = {l \in inserted : l.ws \in alive'}
  /\ cleaner' = [cleaner EXCEPT ![p] = Waiting]
  /\ UNCHANGED <<now, updated, revoked, req, cancelled, pruner, failures, touched>>

\* The statement fails, because the context is cancelled or otherwise.
DeleteStaleFails(p) ==
  /\ cleaner[p].pc = "deleting" /\ cleaner' = [cleaner EXCEPT ![p] = Waiting]
  /\ UNCHANGED <<now, alive, updated, revoked, req, logs, cancelled, pruner, failures,
                 touched, inserted>>

\* Faulty variant: the loop waits for its ticker only.
CleanerStopsNever(p) == p \in cancelled /\ cleaner[p].pc = "idle" /\ UNCHANGED vars

CleanerStops(p) ==
  /\ p \in cancelled /\ cleaner[p].pc = "idle"
  /\ cleaner' = [cleaner EXCEPT ![p].pc = "stopped"]
  /\ UNCHANGED <<now, alive, updated, revoked, req, logs, cancelled, pruner, failures,
                 touched, inserted>>
-----------------------------------------------------------------------------
LogsOf(w, rows) == {l \in rows : l.ws = w}

Newer(l, m) == l.at > m.at \/ (l.at = m.at /\ l.id > m.id)

\* The n newest rows, ORDER BY created_at DESC, id DESC.
Newest(rows, n) == {l \in rows : Cardinality({m \in rows : Newer(m, l)}) < n}

\* ListWorkspaceIDsExceedingLogCount.
Exceeding == {w \in Workspace : Cardinality(LogsOf(w, logs)) > MaxCount}

\* CleanupOnce begins: at the start of the process, and when the ticker fires.  A
\* listing that fails or finds nothing changes nothing.
ListExceeding(p) ==
  /\ p \notin cancelled /\ pruner[p].pc = "idle" /\ Exceeding # {}
  /\ pruner' = [pruner EXCEPT ![p].pc = "next", ![p].todo = Exceeding]
  /\ UNCHANGED <<now, alive, updated, revoked, req, logs, cancelled, cleaner, failures,
                 touched, inserted>>

\* Faulty variant: one row too many is deleted.
OffsetLess == MaxCount - 1

\* The rows that OFFSET skips.
Offset == MaxCount

\* OFFSET and LIMIT of the subquery in DeleteOldLogsForWorkspace.
Excess(w) ==
  LET rows == LogsOf(w, logs)
  IN  Newest(rows \ Newest(rows, Offset), BatchSize)

\* The statement sees the rows it is to delete.  Workspaces come in any order.
PickExcess(p) ==
  \E w \in pruner[p].todo :
    /\ pruner[p].pc = "next" /\ p \notin cancelled /\ w \notin Unprunable
    /\ pruner[p].current \subseteq {w}
    /\ pruner' = [pruner EXCEPT ![p].pc = "picked", ![p].picked = Excess(w), ![p].current = {w}]
    /\ UNCHANGED <<now, alive, updated, revoked, req, logs, cancelled, cleaner, failures,
                 touched, inserted>>

\* It deletes those that another process has not deleted.  A batch that is not
\* full is the last one for its workspace.
DeleteExcess(p) ==
  LET gone == pruner[p].picked \intersect logs IN
  /\ pruner[p].pc = "picked"
  /\ logs' = logs \ gone
  /\ pruner' = [pruner EXCEPT ![p] = IF Cardinality(gone) < BatchSize
                                     THEN Onward(@.todo \ @.current)
                                     ELSE [@ EXCEPT !.pc = "next", !.picked = {}]]
  /\ UNCHANGED <<now, alive, updated, revoked, req, cancelled, cleaner, failures,
                 touched, inserted>>

\* Faulty variant: the first workspace that fails ends the cycle.
AfterFailureStop(todo, w) == {}

\* A failure for one workspace leaves the others to do.
AfterFailure(todo, w) == todo \ {w}

PruneFails(p) ==
  \E w \in pruner[p].todo :
    /\ pruner[p].pc = "next" /\ p \notin cancelled
    /\ pruner[p].current \subseteq {w} /\ (w \in Unprunable \/ failures < MaxFailures)
    /\ failures' = IF w \in Unprunable THEN failures ELSE failures + 1
    /\ pruner' = [pruner EXCEPT ![p] = Onward(AfterFailure(@.todo, w))]
    /\ UNCHANGED <<now, alive, updated, revoked, req, logs, cancelled, cleaner,
                   touched, inserted>>

\* The context is looked at before every workspace and every batch, and while the
\* service waits for its ticker; a statement that runs is interrupted.
PrunerStops(p) ==
  /\ p \in cancelled /\ pruner[p].pc # "stopped"
  /\ pruner' = [pruner EXCEPT ![p] = Stopped]
  /\ UNCHANGED <<now, alive, updated, revoked, req, logs, cancelled, cleaner, failures,
                 touched, inserted>>
-----------------------------------------------------------------------------
\* serve: a signal cancels the context of the services and waits for them.
Cancel(p) ==
  /\ p \notin cancelled /\ cancelled' = cancelled \union {p}
  /\ UNCHANGED <<now, alive, updated, revoked, req, logs, cleaner, pruner, failures,
                 touched, inserted>>

\* An administrator, outside of this program, revokes a token.
Revoke(t) ==
  /\ t \notin revoked /\ revoked' = revoked \union {t}
  /\ UNCHANGED <<now, alive, updated, req, logs, cancelled, cleaner, pruner, failures,
                 touched, inserted>>

\* No request takes longer than MaxDelay.
Tick ==
  /\ now < MaxTime
  /\ \A r \in Requests : req[r].pc \notin {"idle", "done"} => now - req[r].since < MaxDelay
  /\ now' = now + 1
  /\ UNCHANGED <<alive, updated, revoked, req, logs, cancelled, cleaner, pruner, failures,
                 touched, inserted>>

\* Every request is answered and every service has stopped.
Terminated ==
  /\ \A r \in Requests : req[r].pc = "done"
  /\ \A p \in Cleaners : cleaner[p].pc = "stopped"
  /\ \A p \in Pruners : pruner[p].pc = "stopped"
  /\ UNCHANGED vars

RequestStep(r) ==
  \/ Throttle(r) \/ Admit(r) \/ FindToken(r) \/ CheckExpiry(r) \/ Handle(r)
  \/ TouchTime(r) \/ Touch(r) \/ TouchFails(r)
  \/ LogTime(r) \/ CreateLog(r) \/ CreateLogFails(r)

CleanerStep(p) ==
  CleanupStarts(p) \/ DeleteStale(p) \/ DeleteStaleFails(p) \/ CleanerStops(p)

PrunerStep(p) ==
  ListExceeding(p) \/ PickExcess(p) \/ DeleteExcess(p) \/ PruneFails(p) \/ PrunerStops(p)

Next ==
  \/ \E r \in Requests : Send(r) \/ RequestStep(r)
  \/ \E p \in Cleaners : CleanerStep(p)
  \/ \E p \in Pruners : PrunerStep(p)
  \/ \E p \in Process : Cancel(p)
  \/ \E t \in Token : Revoke(t)
  \/ Tick \/ Terminated

Spec == Init /\ [][Next]_vars

\* The handlers and the services run; clients, signals and administrators need not
\* do anything.
Fairness ==
  /\ \A r \in Requests : WF_vars(RequestStep(r))
  /\ \A p \in Cleaners : WF_vars(CleanerStep(p))
  /\ \A p \in Pruners : WF_vars(PrunerStep(p))

FairSpec == Spec /\ Fairness
-----------------------------------------------------------------------------
Served(r) == req[r].pc \notin {"idle", "sent", "admitted", "found", "done"}

\* A request that has reached its handler came with a token of its own workspace that
\* was still neither revoked nor expired when the limiter let it through, however
\* long it had waited; the two checks come after that, one after the other.
ServedWithGoodToken ==
  \A r \in Requests : Served(r) /\ req[r].kind # "config" => req[r].good

\* The limit of a cleanup is computed before the deletion, and touches may arrive
\* out of order: even so, a workspace that was touched within StaleAfter is not
\* deleted, but for the time that a request takes.
TouchedKept ==
  [][\A w \in alive \ alive' : touched[w] < now - StaleAfter + MaxDelay]_vars

\* Whatever is inserted out of order, however many processes prune and wherever
\* they fail, the newest MaxCount rows of a workspace are there.
NewestRetained ==
  \A w \in alive : Newest(LogsOf(w, inserted), MaxCount) \subseteq logs

\* The excess is pruned sooner or later, as long as some process runs the service,
\* and the workspaces for which this fails do not stand in the way of others.
PrunedEventually ==
  []<>(Exceeding \subseteq Unprunable \/ Pruners \subseteq cancelled)

\* serve waits for the services, which end once they are cancelled.
ServicesStop ==
  \A p \in Process :
    p \in cancelled ~> /\ p \in Cleaners => cleaner[p].pc = "stopped"
                       /\ p \in Pruners => pruner[p].pc = "stopped"
-----------------------------------------------------------------------------
(* What the proofs need beyond the properties *)

\* A token that was not good when its request was let through is not good later; if
\* the statement found it nevertheless, it has expired.
AuthShape(r) ==
  LET q == req[r] IN
  /\ q.pc = "admitted" /\ ~q.good => \/ TokenWorkspace[q.token] # q.ws
                                     \/ q.token \in revoked \/ TokenExpiry[q.token] < now
  /\ q.pc = "found" /\ ~q.good => TokenExpiry[q.token] < now
  /\ Served(r) /\ q.kind # "config" => q.good

\* A time that is about to be written is at most MaxDelay old.
TimeShape(r) ==
  LET q == req[r] IN
  q.pc \notin {"idle", "done"} =>
    /\ q.since <= now /\ now - q.since <= MaxDelay
    /\ q.pc \in {"touching", "logging"} => q.since <= q.at /\ q.at <= now

\* The column lags behind the touches by as much, the limit behind the clock.
TouchShape == \A w \in Workspace : touched[w] <= updated[w] + MaxDelay
CutoffShape(p) == cleaner[p].pc = "deleting" => cleaner[p].cutoff <= now - StaleAfter

\* A row picked for deletion has MaxCount newer ones, whatever was inserted since.
PickedShape(p) ==
  pruner[p].pc = "picked" =>
    \A l \in pruner[p].picked :
      l.ws \in alive =>
        Cardinality({m \in LogsOf(l.ws, inserted) : Newer(m, l)}) >= MaxCount

RequestsInv == \A r \in Requests : AuthShape(r) /\ TimeShape(r)
TouchInv == TouchShape /\ \A p \in Cleaners : CutoffShape(p)
LogInv == IsFiniteSet(inserted) /\ NewestRetained /\ \A p \in Pruners : PickedShape(p)

IndInv == TypeOK /\ RequestsInv /\ TouchInv /\ LogInv
=============================================================================
