---------------------------- MODULE AsyncEvents ----------------------------
(***************************************************************************)
(* Asynchronous SCIM requests ("Prefer: respond-async"): the worker pool   *)
(* of handler/async_event.go, the scim_async_events table of               *)
(* repository/async_event.go, and the cleanup goroutine of                 *)
(* service/async_event_cleanup_service.go, which prunes old results and    *)
(* reaps PENDING rows that nobody will ever finish.                        *)
(*                                                                         *)
(* Every database statement is one step, so workers, clients that poll,    *)
(* the cleanup goroutine, crashes and the clock interleave between any two *)
(* of them.  A database error may be reported before or, for an INSERT     *)
(* whose request was cancelled, after the statement took effect.           *)
(***************************************************************************)
EXTENDS Naturals, FiniteSets

CONSTANTS
  Txn,            \* transaction ids; numbers, for ORDER BY ... txn_id DESC
  Workspace,      \* tenants
  WorkspaceOf,    \* the workspace of each transaction
  MaxWorkers,     \* maxConcurrentAsyncWorkers
  OpLimit,        \* timeout of workerCtx
  StatusLimit,    \* timeout of statusCtx
  StaleAfter,     \* stalePendingAfter
  MaxCount,       \* terminal events kept per workspace
  PruneBatchSize, \* DefaultEventPruneBatchSize
  ReapLimit,      \* rows FindStalePendingEvents returns at most
  MaxTime,        \* bound: the clock stops here
  MaxCrashes      \* bound: how often the process dies

ASSUME ConstantsAssumption ==
  /\ Txn \subseteq Nat /\ IsFiniteSet(Txn)
  /\ WorkspaceOf \in [Txn -> Workspace]
  /\ MaxWorkers \in Nat \ {0} /\ PruneBatchSize \in Nat \ {0}
  /\ ReapLimit \in Nat \ {0} /\ MaxCount \in Nat \ {0}
  /\ OpLimit \in Nat /\ StatusLimit \in Nat /\ StaleAfter \in Nat \ {0}
  /\ MaxTime \in Nat /\ MaxCrashes \in Nat

VARIABLES
  now,       \* wall clock
  up,        \* the server process is running
  crashes,   \* how often it died so far
  slots,     \* tokens in the channel asyncWorkerSem
  phase,     \* where the request handler, then the worker, of a txn stands
  due,       \* deadline of the context a worker runs under
  started,   \* when the worker of a txn started
  status,    \* column status, "ABSENT" when there is no row
  payload,   \* column set_payload: who wrote it, or "none"
  created,   \* column created_at
  applied,   \* the operation's change was committed to the resource tables
  seen,      \* last thing the server told the client about a txn
  cleaner,   \* step of the cleanup goroutine
  wsTodo,    \* workspaces left to prune in this cycle
  stale      \* rows left to reap in this cycle, as they were read

dispatchVars == <<slots, phase, due, started>>
rowVars == <<status, payload, created>>
cleanerVars == <<cleaner, wsTodo, stale>>
processVars == <<up, crashes>>
vars == <<now, processVars, dispatchVars, rowVars, applied, seen, cleanerVars>>

Terminal == {"COMPLETED", "FAILED"}
Status == {"ABSENT", "PENDING"} \union Terminal
Payload == {"none", "set", "error", "stale"}
Answer == {"none", "202", "404"} \union (Payload \ {"none"})

\* The worker goroutine exists; its first three phases run under workerCtx.
Working == {"check", "op", "applied"}
Reporting == {"complete", "fail"}
Live == Working \union Reporting

\* A slot of asyncWorkerSem is held from the acquisition in the request
\* handler until the worker's deferred release.
Holding == {"create"} \union Live

\* How a txn can end: refused, row inserted although the handler saw an
\* error, worker finished, worker could not write its result, worker died
\* with the process.
Ended == {"refused", "orphan", "done", "lost", "dead"}

\* No row was ever inserted for the txn.
NeverInserted == {"new", "create", "refused"}

Phase == {"new"} \union Holding \union Ended

TypeOK ==
  /\ now \in 0..MaxTime
  /\ up \in BOOLEAN
  /\ crashes \in 0..MaxCrashes
  /\ slots \in 0..MaxWorkers
  /\ phase \in [Txn -> Phase]
  /\ due \in [Txn -> Nat]
  /\ started \in [Txn -> Nat]
  /\ status \in [Txn -> Status]
  /\ payload \in [Txn -> Payload]
  /\ created \in [Txn -> Nat]
  /\ applied \in [Txn -> BOOLEAN]
  /\ seen \in [Txn -> Answer]
  /\ cleaner \in {"idle", "prune", "reap"}
  /\ wsTodo \subseteq Workspace
  /\ stale \subseteq Txn

Init ==
  /\ now = 0
  /\ up = TRUE
  /\ crashes = 0
  /\ slots = 0
  /\ phase = [t \in Txn |-> "new"]
  /\ due = [t \in Txn |-> 0]
  /\ started = [t \in Txn |-> 0]
  /\ status = [t \in Txn |-> "ABSENT"]
  /\ payload = [t \in Txn |-> "none"]
  /\ created = [t \in Txn |-> 0]
  /\ applied = [t \in Txn |-> FALSE]
  /\ seen = [t \in Txn |-> "none"]
  /\ cleaner = "idle"
  /\ wsTodo = {}
  /\ stale = {}

-----------------------------------------------------------------------------
(* dispatchAsyncOperation *)

\* Bound: requests arrive early enough for their row to become stale
\* before the clock stops.
ArrivalsOpen == now + StaleAfter < MaxTime

\* Faulty variant: the slot is taken whether or not the channel is full.
AcquireSlotUnbounded(t) ==
  /\ up /\ phase[t] = "new" /\ ArrivalsOpen
  /\ slots' = slots + 1
  /\ phase' = [phase EXCEPT ![t] = "create"]
  /\ created' = [created EXCEPT ![t] = now]
  /\ UNCHANGED <<now, processVars, due, started, status, payload, applied,
                 seen, cleanerVars>>

\* select { case asyncWorkerSem <- struct{}{}: ... }; created_at is read here,
\* before the INSERT.
AcquireSlot(t) ==
  /\ up /\ phase[t] = "new" /\ ArrivalsOpen
  /\ slots < MaxWorkers
  /\ slots' = slots + 1
  /\ phase' = [phase EXCEPT ![t] = "create"]
  /\ created' = [created EXCEPT ![t] = now]
  /\ UNCHANGED <<now, processVars, due, started, status, payload, applied,
                 seen, cleanerVars>>

\* default: 503 tooMany, no row.
RejectTooMany(t) ==
  /\ up /\ phase[t] = "new" /\ ArrivalsOpen
  /\ slots >= MaxWorkers
  /\ phase' = [phase EXCEPT ![t] = "refused"]
  /\ UNCHANGED <<now, processVars, slots, due, started, rowVars, applied,
                 seen, cleanerVars>>

\* INSERT succeeded: 202 with the event's Location, and the worker starts.
CreateEvent(t) ==
  /\ up /\ phase[t] = "create"
  /\ status' = [status EXCEPT ![t] = "PENDING"]
  /\ phase' = [phase EXCEPT ![t] = "check"]
  /\ started' = [started EXCEPT ![t] = now]
  /\ due' = [due EXCEPT ![t] = now + OpLimit]
  /\ seen' = [seen EXCEPT ![t] = "202"]
  /\ UNCHANGED <<now, processVars, slots, payload, created, applied,
                 cleanerVars>>

\* Faulty variant: the error return forgets to give the slot back.
CreateEventErrorLeak(t) ==
  /\ up /\ phase[t] = "create"
  /\ phase' = [phase EXCEPT ![t] = "refused"]
  /\ UNCHANGED <<now, processVars, slots, due, started, rowVars, applied, seen,
                 cleanerVars>>

\* INSERT reported an error: the slot goes back and the client gets 500.  The
\* row may be there all the same (the request was cancelled while the
\* statement committed).
CreateEventError(t) ==
  /\ up /\ phase[t] = "create"
  /\ slots' = slots - 1
  /\ \/ /\ phase' = [phase EXCEPT ![t] = "refused"]
        /\ UNCHANGED status
     \/ /\ phase' = [phase EXCEPT ![t] = "orphan"]
        /\ status' = [status EXCEPT ![t] = "PENDING"]
  /\ UNCHANGED <<now, processVars, due, started, payload, created, applied,
                 seen, cleanerVars>>
-----------------------------------------------------------------------------
(* runAsyncWorkerWithAcquiredSlot *)

\* The deferred <-asyncWorkerSem and the cancellation of the context.
WorkerEnds(t, how) ==
  /\ slots' = slots - 1
  /\ phase' = [phase EXCEPT ![t] = how]
  /\ due' = [due EXCEPT ![t] = 0]

\* FindByTxnIDAndWorkspaceID: only a row that is there and not PENDING stops
\* the worker; a missing row does not, and neither does a failed read.
WorkerCheck(t) ==
  /\ up /\ phase[t] = "check"
  /\ \/ /\ status[t] \in Terminal
        /\ WorkerEnds(t, "done")
     \/ /\ status[t] \notin Terminal
        /\ phase' = [phase EXCEPT ![t] = "op"]
        /\ UNCHANGED <<slots, due>>
  /\ UNCHANGED <<now, processVars, started, rowVars, applied, seen,
                 cleanerVars>>

WorkerCheckError(t) ==
  /\ up /\ phase[t] = "check"
  /\ phase' = [phase EXCEPT ![t] = "op"]
  /\ UNCHANGED <<now, processVars, slots, due, started, rowVars, applied,
                 seen, cleanerVars>>

\* op commits its change (a PATCH that changes nothing counts as committed).
OpCommit(t) ==
  /\ up /\ phase[t] = "op"
  /\ phase' = [phase EXCEPT ![t] = "applied"]
  /\ applied' = [applied EXCEPT ![t] = TRUE]
  /\ UNCHANGED <<now, processVars, slots, due, started, rowVars, seen,
                 cleanerVars>>

\* op returns; the status write runs under a fresh context.
OpReturns(t, how) ==
  /\ phase' = [phase EXCEPT ![t] = how]
  /\ due' = [due EXCEPT ![t] = now + StatusLimit]
  /\ UNCHANGED <<now, processVars, slots, started, rowVars, applied, seen,
                 cleanerVars>>

\* Faulty variant: the error of op is not looked at.
OpErrorIgnored(t) == up /\ phase[t] \in {"op", "applied"} /\ OpReturns(t, "complete")

OpSucceeds(t) == up /\ phase[t] = "applied" /\ OpReturns(t, "complete")

\* An error or a recovered panic, before the change or (an error from
\* buildSETJson, a panic) after it.
OpFails(t) == up /\ phase[t] \in {"op", "applied"} /\ OpReturns(t, "fail")

\* Faulty variant: WHERE txn_id = $1, whatever the status.
UpdateUnguarded(t, newStatus, newPayload) ==
  IF status[t] # "ABSENT"
  THEN /\ status' = [status EXCEPT ![t] = newStatus]
       /\ payload' = [payload EXCEPT ![t] = newPayload]
  ELSE UNCHANGED <<status, payload>>

\* UPDATE ... WHERE txn_id = $1 AND status = 'PENDING'
UpdateStatusAndPayload(t, newStatus, newPayload) ==
  IF status[t] = "PENDING"
  THEN /\ status' = [status EXCEPT ![t] = newStatus]
       /\ payload' = [payload EXCEPT ![t] = newPayload]
  ELSE UNCHANGED <<status, payload>>

RecordCompleted(t) ==
  /\ up /\ phase[t] = "complete"
  /\ UpdateStatusAndPayload(t, "COMPLETED", "set")
  /\ WorkerEnds(t, "done")
  /\ UNCHANGED <<now, processVars, started, created, applied, seen,
                 cleanerVars>>

RecordFailed(t) ==
  /\ up /\ phase[t] = "fail"
  /\ UpdateStatusAndPayload(t, "FAILED", "error")
  /\ WorkerEnds(t, "done")
  /\ UNCHANGED <<now, processVars, started, created, applied, seen,
                 cleanerVars>>

\* The error of UpdateStatusAndPayload is discarded: nothing was written.
RecordError(t) ==
  /\ up /\ phase[t] \in Reporting
  /\ WorkerEnds(t, "lost")
  /\ UNCHANGED <<now, processVars, started, rowVars, applied, seen,
                 cleanerVars>>
-----------------------------------------------------------------------------
(* GetEvent *)

\* What a poll answers for the row as it is.
EventAnswer(t) ==
  CASE status[t] = "PENDING" -> "202"
    [] status[t] \in Terminal -> payload[t]
    [] OTHER -> "404"

\* Only a client that was sent the Location knows the txn id.
GetEvent(t) ==
  /\ up /\ seen[t] # "none"
  /\ seen' = [seen EXCEPT ![t] = EventAnswer(t)]
  /\ UNCHANGED <<now, processVars, dispatchVars, rowVars, applied, cleanerVars>>
-----------------------------------------------------------------------------
(* AsyncEventCleanupService: one goroutine, pruning then reaping *)

TerminalOf(w) == {t \in Txn : WorkspaceOf[t] = w /\ status[t] \in Terminal}

\* ORDER BY created_at DESC, txn_id DESC: u comes before t.
Newer(u, t) ==
  \/ created[u] > created[t]
  \/ created[u] = created[t] /\ u > t

\* Faulty variant: one row too many is past the offset.
OffsetByOne(S, n) == {t \in S : Cardinality({u \in S : Newer(u, t)}) >= n - 1}

\* What is left of a set of rows after OFFSET n, and its first n rows.
Offset(S, n) == {t \in S : Cardinality({u \in S : Newer(u, t)}) >= n}
Limit(S, n) == {t \in S : Cardinality({u \in S : Newer(u, t)}) < n}

\* ListWorkspaceIDsExceedingEventCount; on an error the cycle prunes nothing.
\* It runs at start-up and on every tick.
ListExceeding ==
  /\ up /\ cleaner = "idle"
  /\ cleaner' = "prune"
  /\ \/ wsTodo' = {w \in Workspace : Cardinality(TerminalOf(w)) > MaxCount}
     \/ wsTodo' = {}
  /\ UNCHANGED <<now, processVars, dispatchVars, rowVars, applied, seen, stale>>

\* One DELETE of DeleteOldEventsForWorkspace; a full batch means go again.
PruneBatch(w) ==
  LET batch == Limit(Offset(TerminalOf(w), MaxCount), PruneBatchSize)
  IN /\ up /\ cleaner = "prune" /\ w \in wsTodo
     /\ status' = [t \in Txn |-> IF t \in batch THEN "ABSENT" ELSE status[t]]
     /\ payload' = [t \in Txn |-> IF t \in batch THEN "none" ELSE payload[t]]
     /\ wsTodo' = IF Cardinality(batch) < PruneBatchSize THEN wsTodo \ {w}
                                                         ELSE wsTodo
     /\ UNCHANGED <<now, processVars, dispatchVars, created, applied, seen,
                    cleaner, stale>>

\* A failed DELETE skips to the next workspace.
PruneError(w) ==
  /\ up /\ cleaner = "prune" /\ w \in wsTodo
  /\ wsTodo' = wsTodo \ {w}
  /\ UNCHANGED <<now, processVars, dispatchVars, rowVars, applied, seen,
                 cleaner, stale>>

\* Faulty variant: a row counts as stale one tick too early.
StaleTooEarly ==
  {t \in Txn : status[t] = "PENDING" /\ created[t] + StaleAfter <= now}

StalePending ==
  {t \in Txn : status[t] = "PENDING" /\ created[t] + StaleAfter < now}

\* FindStalePendingEvents: the oldest ReapLimit rows, ties in any order.
FindStale ==
  /\ up /\ cleaner = "prune" /\ wsTodo = {}
  /\ cleaner' = "reap"
  /\ \E S \in SUBSET StalePending :
       /\ S = StalePending \/ Cardinality(S) = ReapLimit
       /\ Cardinality(S) <= ReapLimit
       /\ \A t \in S, u \in StalePending \ S : created[t] <= created[u]
       /\ stale' = S
  /\ UNCHANGED <<now, processVars, dispatchVars, rowVars, applied, seen, wsTodo>>

\* The query failed: this cycle reaps nothing.
FindStaleError ==
  /\ up /\ cleaner = "prune" /\ wsTodo = {}
  /\ cleaner' = "idle"
  /\ UNCHANGED <<now, processVars, dispatchVars, rowVars, applied, seen,
                 wsTodo, stale>>

\* TransitionPendingToFailed: UPDATE ... WHERE txn_id = $1 AND status = 'PENDING'
Reap(t) ==
  /\ up /\ cleaner = "reap" /\ t \in stale
  /\ UpdateStatusAndPayload(t, "FAILED", "stale")
  /\ stale' = stale \ {t}
  /\ UNCHANGED <<now, processVars, dispatchVars, created, applied, seen,
                 cleaner, wsTodo>>

\* A failed UPDATE is logged and the next row is tried.
ReapError(t) ==
  /\ up /\ cleaner = "reap" /\ t \in stale
  /\ stale' = stale \ {t}
  /\ UNCHANGED <<now, processVars, dispatchVars, rowVars, applied, seen,
                 cleaner, wsTodo>>

ReapDone ==
  /\ up /\ cleaner = "reap" /\ stale = {}
  /\ cleaner' = "idle"
  /\ UNCHANGED <<now, processVars, dispatchVars, rowVars, applied, seen,
                 wsTodo, stale>>
-----------------------------------------------------------------------------
(* The process and the clock *)

\* Workers are not awaited at shutdown, so a graceful stop and a crash look
\* alike: goroutines and the semaphore vanish, the tables stay.
Crash ==
  /\ up /\ crashes < MaxCrashes
  /\ up' = FALSE
  /\ crashes' = crashes + 1
  /\ slots' = 0
  /\ phase' = [t \in Txn |-> IF phase[t] \in Live THEN "dead"
                             ELSE IF phase[t] = "create" THEN "refused"
                             ELSE phase[t]]
  /\ due' = [t \in Txn |-> 0]
  /\ cleaner' = "idle" /\ wsTodo' = {} /\ stale' = {}
  /\ UNCHANGED <<now, started, rowVars, applied, seen>>

Restart ==
  /\ ~up
  /\ up' = TRUE
  /\ UNCHANGED <<now, crashes, dispatchVars, rowVars, applied, seen, cleanerVars>>

\* A database call returns when its context expires, so the clock does not
\* pass the deadline of a worker that has not moved on.
Tick ==
  /\ now < MaxTime
  /\ \A t \in Txn : phase[t] \in Live => now < due[t]
  /\ now' = now + 1
  /\ UNCHANGED <<processVars, dispatchVars, rowVars, applied, seen, cleanerVars>>

Dispatch(t) == AcquireSlot(t) \/ RejectTooMany(t) \/ CreateEvent(t)
                 \/ CreateEventError(t)

Worker(t) == WorkerCheck(t) \/ WorkerCheckError(t) \/ OpCommit(t)
               \/ OpSucceeds(t) \/ OpFails(t) \/ RecordCompleted(t)
               \/ RecordFailed(t) \/ RecordError(t)

Prune(w) == PruneBatch(w) \/ PruneError(w)

Cleaner ==
  \/ ListExceeding
  \/ \E w \in Workspace : Prune(w)
  \/ FindStale
  \/ FindStaleError
  \/ \E t \in Txn : Reap(t) \/ ReapError(t)
  \/ ReapDone

Next ==
  \/ \E t \in Txn : Dispatch(t) \/ Worker(t) \/ GetEvent(t)
  \/ Cleaner
  \/ Crash
  \/ Restart
  \/ Tick

SafetySpec == Init /\ [][Next]_vars

\* The Go scheduler runs every goroutine, the supervisor restarts the server,
\* the ticker fires, time passes.  The two strong conditions say that the
\* database does not fail each and every attempt of the reaper.
Fairness ==
  /\ \A t \in Txn : WF_vars(Worker(t)) /\ SF_vars(Reap(t))
  /\ \A t \in Txn : WF_vars(CreateEvent(t) \/ CreateEventError(t))
  /\ WF_vars(Cleaner) /\ SF_vars(FindStale)
  /\ WF_vars(Restart) /\ WF_vars(Tick)

Spec == SafetySpec /\ Fairness
-----------------------------------------------------------------------------
(* Properties *)

\* No slot of asyncWorkerSem leaks or is released twice, whatever the order of
\* refusals, insert errors, early returns, panics, lost status writes and
\* crashes: the channel holds one token for each handler or worker that
\* still owes a release.
SlotAccounting == slots = Cardinality({t \in Txn : phase[t] \in Holding})

\* A client is told "completed" (and a row says so) only when the change was
\* really committed to the resource tables.
CompletedMeansApplied ==
  \A t \in Txn : status[t] = "COMPLETED" \/ seen[t] = "set" => applied[t]

\* The reaper's verdict on a row is right about its worker: the worker died
\* with the process, or never existed, or could not write its result; or it
\* started so late that its two timeouts reach past the stale cutoff.  With
\* the defaults (2 min + 10 s against 5 min) that takes an INSERT of almost
\* three minutes.
StaleVerdictExplained ==
  \A t \in Txn : payload[t] = "stale" =>
    \/ phase[t] \in {"dead", "orphan", "lost"}
    \/ started[t] + OpLimit + StatusLimit > created[t] + StaleAfter

\* A result, once given to a client, never changes: later polls repeat it or,
\* after pruning, answer 404, and a 404 is final.  Late workers, a reaper
\* working from an old snapshot and restarts all write the same row.
AnswersFinal ==
  [][\A t \in Txn :
       /\ seen[t] \in Payload \ {"none"} => seen'[t] \in {seen[t], "404"}
       /\ seen[t] = "404" => seen'[t] = "404"]_vars

\* Pruning deletes a row only if it is terminal and MaxCount newer terminal
\* rows of the same workspace stay behind.
PruneKeepsNewest ==
  [][\A t \in Txn : status[t] # "ABSENT" /\ status'[t] = "ABSENT" =>
       /\ status[t] \in Terminal
       /\ Cardinality({u \in Txn : /\ WorkspaceOf[u] = WorkspaceOf[t]
                                   /\ status'[u] \in Terminal
                                   /\ Newer(u, t)}) >= MaxCount]_vars

\* Once no more requests come, every slot of the pool is given back and stays
\* free.
SlotsReturn == <>[](slots = 0)
-----------------------------------------------------------------------------
(* What a client may rely on *)

\* The row's life as AsyncEventContract sees it.  No row was ever inserted
\* in the phases before CreateEvent and after a refusal; in any other phase a
\* missing row has been pruned.
outcomeOf ==
  [t \in Txn |->
     CASE status[t] = "PENDING" -> "pending"
       [] status[t] \in Terminal -> payload[t]
       [] OTHER -> IF phase[t] \in NeverInserted THEN "unknown" ELSE "gone"]

Contract == INSTANCE AsyncEventContract WITH outcome <- outcomeOf, answer <- seen

\* The tables, workers and cleaner together implement the client contract.
ImplementsContract == Contract!Spec
-----------------------------------------------------------------------------
(* The inductive invariant behind the safety properties, proved in          *)
(* AsyncEventsProofs.                                                       *)

\* Which rows and answers go with which phase, and which payload with which
\* status: a finished worker left no PENDING row behind.
RowShape(t) ==
  /\ phase[t] \in NeverInserted => status[t] = "ABSENT"
  /\ phase[t] \in NeverInserted \union {"orphan"} => seen[t] = "none"
  /\ phase[t] = "done" => status[t] # "PENDING"
  /\ status[t] \in {"ABSENT", "PENDING"} <=> payload[t] = "none"
  /\ status[t] = "COMPLETED" <=> payload[t] = "set"

\* Success is only ever reported downstream of a commit.
SuccessShape(t) ==
  phase[t] \in {"applied", "complete"} \/ payload[t] = "set" \/ seen[t] = "set"
    => applied[t]

\* What a client was told is what the row says, until the row is gone.
AnswerShape(t) ==
  /\ seen[t] \in Payload \ {"none"} => status[t] = "ABSENT" \/ payload[t] = seen[t]
  /\ seen[t] = "404" => status[t] = "ABSENT"

\* Where the deadlines of a live worker lie, and what a snapshot of stale rows
\* still knows about them.
DeadlineShape(t) ==
  /\ phase[t] \in Live => now <= due[t]
  /\ phase[t] \in Working => due[t] = started[t] + OpLimit
  /\ phase[t] \in Reporting => due[t] <= started[t] + OpLimit + StatusLimit
  /\ t \in stale => created[t] + StaleAfter < now /\ phase[t] \notin NeverInserted

TxnShape(t) == RowShape(t) /\ SuccessShape(t) /\ AnswerShape(t) /\ DeadlineShape(t)

IndInv ==
  /\ TypeOK
  /\ SlotAccounting
  /\ StaleVerdictExplained
  /\ \A t \in Txn : TxnShape(t)
=========================================================================
