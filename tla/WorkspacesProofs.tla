-------------------------- MODULE WorkspacesProofs --------------------------
(***************************************************************************)
(* Proofs about Workspaces, for any number of workspaces, tokens, requests *)
(* and processes, and for any limits.                                      *)
(***************************************************************************)
EXTENDS Workspaces, FiniteSetTheorems, TLAPS

USE WorkspacesAssumption DEF vars

PCs == {"idle", "sent", "admitted", "found", "served", "written", "touching", "answered",
        "logging", "done"}
-----------------------------------------------------------------------------
(* Requests *)

\* A step of request r to the record q.
Moves(r, q) == req' = [req EXCEPT ![r] = q]

LEMMA RequestFields ==
  ASSUME TypeOK, NEW r \in Requests
  PROVE  /\ req[r] \in Request /\ req[r].pc \in PCs
         /\ req[r].ws \in Workspace /\ req[r].token \in Token
         /\ req[r].since \in 0 .. MaxTime /\ req[r].at \in 0 .. MaxTime
         /\ req[r].good \in BOOLEAN /\ now \in 0 .. MaxTime
  BY DEF TypeOK, Request, PCs

\* Only the place in the program changes.
LEMMA GoesMoves ==
  ASSUME TypeOK, NEW r \in Requests, NEW p \in PCs, Goes(r, p)
  PROVE  /\ req' \in [Requests -> Request]
         /\ \A s \in Requests \ {r} : req'[s] = req[s]
         /\ req'[r] = [req[r] EXCEPT !.pc = p]
         /\ req'[r].pc = p /\ req'[r].ws = req[r].ws /\ req'[r].token = req[r].token
         /\ req'[r].kind = req[r].kind /\ req'[r].since = req[r].since
         /\ req'[r].good = req[r].good /\ req'[r].at = req[r].at
<1> DEFINE q == [req[r] EXCEPT !.pc = p]
<1>1. /\ q \in Request /\ q.pc = p /\ q.ws = req[r].ws /\ q.token = req[r].token
      /\ q.kind = req[r].kind /\ q.since = req[r].since
      /\ q.good = req[r].good /\ q.at = req[r].at
  BY RequestFields DEF Request, PCs
<1>2. req' = [req EXCEPT ![r] = q] /\ req \in [Requests -> Request]
  BY DEF Goes, TypeOK
<1>3. q = [req[r] EXCEPT !.pc = p]
  OBVIOUS
<1> HIDE DEF q
<1>4. /\ req' \in [Requests -> Request] /\ req'[r] = q
      /\ \A s \in Requests \ {r} : req'[s] = req[s]
  BY <1>1, <1>2
<1> QED
  BY ONLY <1>1, <1>3, <1>4

\* The requests that do not move, while the clock stands.
LEMMA RequestsRest ==
  ASSUME RequestsInv, NEW S \in SUBSET Requests, \A s \in S : req'[s] = req[s],
         now' = now, revoked \subseteq revoked'
  PROVE  \A s \in S : (AuthShape(s) /\ TimeShape(s))'
  BY DEF RequestsInv, AuthShape, TimeShape, Served

\* A request goes on within the limits of what it has.
LEMMA RequestMoved ==
  ASSUME TypeOK, RequestsInv, NEW r \in Requests, NEW p \in PCs, Goes(r, p),
         UNCHANGED <<now, revoked>>, req[r].pc \notin {"idle", "done"},
         p \in {"found", "served", "written", "answered", "done"},
         p = "found" => /\ req[r].pc = "admitted" /\ req[r].token \notin revoked
                        /\ TokenWorkspace[req[r].token] = req[r].ws,
         p = "served" => \/ req[r].kind = "config"
                         \/ req[r].pc = "found" /\ Unexpired(req[r]),
         p \in {"written", "answered"} => Served(r)
  PROVE  RequestsInv'
<1>1. AuthShape(r) /\ TimeShape(r)
  BY DEF RequestsInv
<1>2. AuthShape(r)'
  <2>1. TokenExpiry[req[r].token] \in Int /\ now \in Int
    BY RequestFields
  <2>2. /\ req'[r].pc = p /\ req'[r].ws = req[r].ws /\ req'[r].token = req[r].token
        /\ req'[r].kind = req[r].kind /\ req'[r].good = req[r].good
    BY GoesMoves
  <2>3. p = "found" /\ ~req[r].good => TokenExpiry[req[r].token] < now
    BY <1>1 DEF AuthShape
  <2>4. p \notin {"found", "done"} /\ req[r].kind # "config" => req[r].good
    BY <1>1, <2>1 DEF AuthShape, Unexpired
  <2> QED
    BY <2>2, <2>3, <2>4 DEF AuthShape, Served
<1>3. TimeShape(r)'
  BY <1>1, GoesMoves DEF TimeShape
<1>4. \A s \in Requests \ {r} : (AuthShape(s) /\ TimeShape(s))'
  BY GoesMoves, RequestsRest
<1> QED
  BY <1>2, <1>3, <1>4 DEF RequestsInv

\* It is let through, with a token that is good or not.
LEMMA RequestAdmitted ==
  ASSUME TypeOK, RequestsInv, NEW r \in Requests, Admit(r)
  PROVE  RequestsInv' /\ req' \in [Requests -> Request]
<1> DEFINE q == [req[r] EXCEPT !.pc = "admitted", !.good = Good(req[r])]
<1>1. AuthShape(r) /\ TimeShape(r)
  BY DEF RequestsInv
<1>2. Good(req[r]) \in BOOLEAN
  BY DEF Good
<1>3. /\ q \in Request /\ q.pc = "admitted" /\ (q.good <=> Good(req[r]))
      /\ q.ws = req[r].ws /\ q.token = req[r].token /\ q.since = req[r].since
  BY <1>2, RequestFields DEF Request
<1>4. /\ req' = [req EXCEPT ![r] = q] /\ req[r].pc = "sent"
      /\ UNCHANGED <<now, revoked>>
  BY DEF Admit, TypeOK
<1> HIDE DEF q
<1>5. /\ req' \in [Requests -> Request] /\ req'[r] = q
      /\ \A s \in Requests \ {r} : req'[s] = req[s]
  BY <1>3, <1>4 DEF TypeOK
<1>6. AuthShape(r)'
  <2>1. TokenExpiry[req[r].token] \in Int /\ now \in Int
    BY RequestFields
  <2>2. ~q.good => \/ TokenWorkspace[q.token] # q.ws
                  \/ q.token \in revoked \/ TokenExpiry[q.token] < now
    BY <1>3, <2>1 DEF Good
  <2> QED
    BY <1>3, <1>4, <1>5, <2>2 DEF AuthShape, Served
<1>7. TimeShape(r)'
  BY <1>1, <1>3, <1>4, <1>5 DEF TimeShape
<1> QED
  BY <1>4, <1>5, <1>6, <1>7, RequestsRest DEF RequestsInv

\* It is sent, or reads the clock.
LEMMA RequestStamped ==
  ASSUME TypeOK, RequestsInv, NEW r \in Requests, Send(r) \/ TouchTime(r) \/ LogTime(r)
  PROVE  RequestsInv' /\ req' \in [Requests -> Request]
<1>1. AuthShape(r) /\ TimeShape(r)
  BY DEF RequestsInv
<1>2. \A s \in Requests \ {r} : (AuthShape(s) /\ TimeShape(s))'
  <2>1. \A s \in Requests \ {r} : req'[s] = req[s]
    BY DEF Send, TouchTime, LogTime, TypeOK
  <2> QED
    BY <2>1, RequestsRest DEF Send, TouchTime, LogTime
<1>3. CASE Send(r)
  <2>1. /\ req' \in [Requests -> Request]
        /\ req'[r].pc = "sent" /\ req'[r].since = now
    <3> DEFINE q == [req[r] EXCEPT !.pc = "sent", !.since = now]
    <3>1. q \in Request /\ q.pc = "sent" /\ q.since = now
      BY RequestFields DEF Request
    <3>2. req' = [req EXCEPT ![r] = q]
      BY <1>3 DEF Send, TypeOK
    <3> HIDE DEF q
    <3> QED
      BY <3>1, <3>2 DEF TypeOK
  <2>2. AuthShape(r)'
    BY <2>1 DEF AuthShape, Served
  <2>3. TimeShape(r)'
    BY <1>3, <2>1, RequestFields DEF TimeShape, Send
  <2> QED
    BY <1>2, <2>1, <2>2, <2>3 DEF RequestsInv
<1>4. CASE TouchTime(r) \/ LogTime(r)
  <2>1. /\ req' \in [Requests -> Request]
        /\ req'[r].pc \in {"touching", "logging"} /\ req'[r].at = now
        /\ req'[r].since = req[r].since /\ req'[r].good = req[r].good
        /\ req'[r].kind = req[r].kind
        /\ req[r].pc \in {"written", "answered"} /\ UNCHANGED <<now, revoked>>
    <3>1. PICK p \in {"touching", "logging"} :
            req' = [req EXCEPT ![r] = [req[r] EXCEPT !.pc = p, !.at = now]]
      BY <1>4 DEF TouchTime, LogTime, TypeOK
    <3> DEFINE q == [req[r] EXCEPT !.pc = p, !.at = now]
    <3>2. /\ q \in Request /\ q.pc = p /\ q.at = now /\ q.since = req[r].since
          /\ q.good = req[r].good /\ q.kind = req[r].kind
      BY RequestFields DEF Request
    <3>3. req[r].pc \in {"written", "answered"} /\ UNCHANGED <<now, revoked>>
      BY <1>4 DEF TouchTime, LogTime
    <3> HIDE DEF q
    <3>4. req' = [req EXCEPT ![r] = q]
      BY <3>1 DEF q
    <3> QED
      BY <3>2, <3>3, <3>4 DEF TypeOK
  <2>2. AuthShape(r)'
    BY <1>1, <2>1 DEF AuthShape, Served
  <2>3. TimeShape(r)'
    <3>1. /\ req[r].since <= now /\ now - req[r].since <= MaxDelay
          /\ req[r].since \in Int /\ now \in Int
      BY <1>1, <2>1, RequestFields DEF TimeShape
    <3> QED
      BY <2>1, <3>1 DEF TimeShape
  <2> QED
    BY <1>2, <2>1, <2>2, <2>3 DEF RequestsInv
<1> QED
  BY <1>3, <1>4
\* The parts of the invariant that a step does not touch.
LEMMA RequestsFrame ==
  ASSUME RequestsInv, UNCHANGED <<now, req>>, revoked \subseteq revoked'
  PROVE  RequestsInv'
  BY RequestsRest DEF RequestsInv

LEMMA TouchFrame ==
  ASSUME TouchInv, UNCHANGED <<now, updated, touched, cleaner>>
  PROVE  TouchInv'
  BY DEF TouchInv, TouchShape, CutoffShape

LEMMA LogFrame ==
  ASSUME LogInv, UNCHANGED <<alive, logs, inserted, pruner>>
  PROVE  LogInv'
  BY DEF LogInv, NewestRetained, PickedShape, Newest, LogsOf
-----------------------------------------------------------------------------
(* The request log *)

\* The rows of S that are newer than l and in its workspace.
NewerIn(l, S) == {m \in LogsOf(l.ws, S) : Newer(m, l)}

LEMMA NewerGrows ==
  ASSUME NEW S, NEW T, IsFiniteSet(T), S \subseteq T, NEW l
  PROVE  /\ Cardinality(NewerIn(l, S)) \in Nat /\ Cardinality(NewerIn(l, T)) \in Nat
         /\ Cardinality(NewerIn(l, S)) <= Cardinality(NewerIn(l, T))
<1>1. NewerIn(l, S) \subseteq NewerIn(l, T) /\ NewerIn(l, T) \subseteq T
  BY DEF NewerIn, LogsOf
<1>2. IsFiniteSet(NewerIn(l, T)) /\ IsFiniteSet(NewerIn(l, S))
  BY <1>1, FS_Subset
<1> QED
  BY <1>1, <1>2, FS_Subset, FS_CardinalityType

\* A row is retained as long as few enough are newer.
LEMMA RetainedMeans ==
  NewestRetained <=>
    \A l \in inserted :
      l.ws \in alive /\ Cardinality(NewerIn(l, inserted)) < MaxCount => l \in logs
  BY DEF NewestRetained, Newest, LogsOf, NewerIn

LEMMA PickedMeans ==
  ASSUME NEW p
  PROVE  PickedShape(p) <=>
           (pruner[p].pc = "picked" =>
              \A l \in pruner[p].picked :
                l.ws \in alive => Cardinality(NewerIn(l, inserted)) >= MaxCount)
  BY DEF PickedShape, NewerIn

\* What a statement sees beyond OFFSET has MaxCount newer rows among all there were.
LEMMA ExcessIsOld ==
  ASSUME TypeOK, LogInv, NEW w \in Workspace, NEW l \in Excess(w)
  PROVE  /\ l \in logs /\ l.ws = w
         /\ Cardinality(NewerIn(l, inserted)) >= MaxCount
<1> DEFINE rows == LogsOf(w, logs)
<1>1. l \in rows /\ l \notin Newest(rows, MaxCount)
  BY DEF Excess, Newest, Offset
<1>2. l \in logs /\ l.ws = w
  BY <1>1 DEF LogsOf
<1>3. {m \in rows : Newer(m, l)} = NewerIn(l, logs)
  BY <1>2 DEF NewerIn, LogsOf
<1>4. ~(Cardinality(NewerIn(l, logs)) < MaxCount)
  BY <1>1, <1>3 DEF Newest
<1>5. logs \subseteq inserted /\ IsFiniteSet(inserted)
  BY DEF TypeOK, LogInv
<1> QED
  BY <1>2, <1>4, <1>5, NewerGrows

\* The deletion of workspaces takes all of their rows and none of the others.
LEMMA WorkspacesGone ==
  ASSUME TypeOK, LogInv, alive' \subseteq alive, pruner' = pruner,
         logs' = {l \in logs : l.ws \in alive'},
         inserted' = {l \in inserted : l.ws \in alive'}
  PROVE  LogInv'
<1>1. IsFiniteSet(inserted)'
  BY FS_Subset DEF LogInv
<1>2. \A l : l.ws \in alive' => NewerIn(l, inserted') = NewerIn(l, inserted)
  BY DEF NewerIn, LogsOf
<1>3. NewestRetained'
  <2>1. \A l \in inserted' :
          l.ws \in alive' /\ Cardinality(NewerIn(l, inserted')) < MaxCount => l \in logs'
    BY <1>2, RetainedMeans DEF LogInv
  <2> QED
    BY <2>1 DEF NewestRetained, Newest, LogsOf, NewerIn
<1>4. ASSUME NEW p \in Pruners PROVE PickedShape(p)'
  <2>1. pruner'[p].pc = "picked" =>
          \A l \in pruner'[p].picked :
            l.ws \in alive' => Cardinality(NewerIn(l, inserted')) >= MaxCount
    BY <1>2, PickedMeans DEF LogInv
  <2> QED
    BY <2>1 DEF PickedShape, NewerIn
<1> QED
  BY <1>1, <1>3, <1>4 DEF LogInv

\* A row more: it is there, and the others have no fewer newer ones.
LEMMA RowAdded ==
  ASSUME TypeOK, LogInv, NEW row, UNCHANGED <<alive, pruner>>,
         logs' = logs \union {row}, inserted' = inserted \union {row}
  PROVE  LogInv'
<1>1. IsFiniteSet(inserted) /\ IsFiniteSet(inserted')
  BY FS_AddElement DEF LogInv
<1>2. \A l : /\ Cardinality(NewerIn(l, inserted)) \in Nat
             /\ Cardinality(NewerIn(l, inserted')) \in Nat
             /\ Cardinality(NewerIn(l, inserted)) <= Cardinality(NewerIn(l, inserted'))
  BY <1>1, NewerGrows
<1>3. NewestRetained'
  <2>1. \A l \in inserted' :
          l.ws \in alive' /\ Cardinality(NewerIn(l, inserted')) < MaxCount => l \in logs'
    BY <1>2, RetainedMeans DEF LogInv
  <2> QED
    BY <2>1 DEF NewestRetained, Newest, LogsOf, NewerIn
<1>4. ASSUME NEW p \in Pruners PROVE PickedShape(p)'
  <2>1. ASSUME pruner'[p].pc = "picked", NEW l \in pruner'[p].picked, l.ws \in alive'
        PROVE  Cardinality(NewerIn(l, inserted')) >= MaxCount
    <3>1. Cardinality(NewerIn(l, inserted)) >= MaxCount
      BY <2>1, PickedMeans DEF LogInv
    <3>2. /\ Cardinality(NewerIn(l, inserted)) \in Nat
          /\ Cardinality(NewerIn(l, inserted')) \in Nat
          /\ Cardinality(NewerIn(l, inserted)) <= Cardinality(NewerIn(l, inserted'))
      BY <1>2
    <3> QED
      BY <3>1, <3>2
  <2> QED
    BY <2>1 DEF PickedShape, NewerIn
<1> QED
  BY <1>1, <1>3, <1>4 DEF LogInv

\* A pruner moves and deletes at most what it has picked.
LEMMA PrunerMoved ==
  ASSUME TypeOK, LogInv, NEW p \in Pruners, UNCHANGED <<alive, inserted>>,
         \A s \in Pruners \ {p} : pruner'[s] = pruner[s],
         PickedShape(p)',
         \/ logs' = logs
         \/ pruner[p].pc = "picked" /\ logs' = logs \ (pruner[p].picked \intersect logs)
  PROVE  LogInv'
<1>1. \A s \in Pruners : PickedShape(s)'
  BY DEF LogInv, PickedShape, LogsOf
<1>2. NewestRetained'
  <2> SUFFICES ASSUME NEW l \in inserted, l.ws \in alive,
                      Cardinality(NewerIn(l, inserted)) < MaxCount
               PROVE  l \in logs'
    BY DEF NewestRetained, Newest, LogsOf, NewerIn
  <2>1. l \in logs
    BY RetainedMeans DEF LogInv
  <2>2. Cardinality(NewerIn(l, inserted)) \in Nat
    BY NewerGrows DEF LogInv
  <2>3. pruner[p].pc = "picked" => l \notin pruner[p].picked
    BY <2>2, PickedMeans DEF LogInv
  <2> QED
    BY <2>1, <2>3
<1> QED
  BY <1>1, <1>2 DEF LogInv
-----------------------------------------------------------------------------
(* The actions *)

LEMMA InitEstablishes == Init => IndInv
<1> SUFFICES ASSUME Init PROVE IndInv
  OBVIOUS
<1>1. inserted \subseteq OldLogs /\ logs = inserted
  BY DEF Init
<1>2. TypeOK
  <2>1. inserted \subseteq Log
    <3>1. \A l \in OldLogs : l = [ws |-> l.ws, at |-> l.at, id |-> l.id]
                             /\ l.ws \in Workspace /\ l.at = 0
      OBVIOUS
    <3> QED
      BY <1>1, <3>1 DEF Log
  <2>2. /\ now \in 0 .. MaxTime /\ alive \subseteq Workspace /\ revoked \subseteq Token
        /\ cancelled \subseteq Process /\ failures \in 0 .. MaxFailures
        /\ updated \in [Workspace -> 0 .. MaxTime] /\ touched = updated
    BY DEF Init
  <2>3. req \in [Requests -> Request]
    BY DEF Init
  <2>4. cleaner \in [Cleaners -> [pc : {"idle", "deleting", "stopped"}, cutoff : Int]]
    <3>1. [pc : {"idle", "stopped"}, cutoff : {0}]
            \subseteq [pc : {"idle", "deleting", "stopped"}, cutoff : Int]
      OBVIOUS
    <3> QED
      BY <3>1 DEF Init
  <2>5. pruner \in [Pruners -> [pc : {"idle", "next", "picked", "stopped"},
                                todo : SUBSET Workspace, current : SUBSET Workspace,
                                picked : SUBSET Log]]
    BY DEF Init, Onward, Stopped
  <2> QED
    BY <1>1, <2>1, <2>2, <2>3, <2>4, <2>5 DEF TypeOK
<1>3. RequestsInv
  <2>1. \A r \in Requests : req[r].pc \in {"idle", "done"}
    BY DEF Init
  <2> QED
    BY <2>1 DEF RequestsInv, AuthShape, TimeShape, Served
<1>4. TouchInv
  <2>1. \A w \in Workspace : updated[w] \in Int /\ touched[w] = updated[w]
    BY <1>2 DEF Init, TypeOK
  <2>2. \A p \in Cleaners : cleaner[p].pc # "deleting"
    BY DEF Init
  <2> QED
    BY <2>1, <2>2 DEF TouchInv, TouchShape, CutoffShape
<1>5. LogInv
  <2>1. IsFiniteSet(inserted)
    BY <1>1, FS_Subset
  <2>2. NewestRetained
    BY <1>1 DEF NewestRetained, Newest, LogsOf
  <2>3. \A p \in Pruners : pruner[p].pc # "picked"
    BY DEF Init, Onward, Stopped
  <2> QED
    BY <2>1, <2>2, <2>3 DEF LogInv, PickedShape
<1> QED
  BY <1>2, <1>3, <1>4, <1>5 DEF IndInv

LEMMA SendKeeps ==
  ASSUME IndInv, NEW r \in Requests, Send(r) \/ Admit(r) \/ TouchTime(r) \/ LogTime(r)
  PROVE  IndInv'
<1>1. UNCHANGED <<now, alive, updated, revoked, logs, cancelled, cleaner, pruner, failures,
                  touched, inserted>>
  BY DEF Send, Admit, TouchTime, LogTime
<1>2. RequestsInv' /\ req' \in [Requests -> Request]
  BY RequestStamped, RequestAdmitted DEF IndInv
<1>3. TypeOK'
  BY <1>1, <1>2 DEF IndInv, TypeOK
<1> QED
  BY <1>1, <1>2, <1>3, TouchFrame, LogFrame DEF IndInv

\* The requests that go on without a write.
LEMMA QuietRequestKeeps ==
  ASSUME IndInv, NEW r \in Requests,
         \/ Throttle(r) \/ FindToken(r) \/ CheckExpiry(r) \/ Handle(r)
         \/ TouchFails(r) \/ CreateLogFails(r)
  PROVE  IndInv'
<1>1. UNCHANGED <<now, alive, updated, revoked, logs, cancelled, cleaner, pruner, failures,
                  touched, inserted>>
  BY DEF Throttle, FindToken, CheckExpiry, Handle, TouchFails, CreateLogFails
<1>2. PICK p \in {"found", "served", "written", "answered", "done"} :
        /\ Goes(r, p) /\ req[r].pc \notin {"idle", "done"}
        /\ p = "found" => /\ req[r].pc = "admitted" /\ req[r].token \notin revoked
                          /\ TokenWorkspace[req[r].token] = req[r].ws
        /\ p = "served" => \/ req[r].kind = "config"
                           \/ req[r].pc = "found" /\ Unexpired(req[r])
        /\ p \in {"written", "answered"} => Served(r)
  <2>1. CASE FindToken(r)
    BY <2>1 DEF FindToken
  <2>2. CASE Throttle(r) \/ CheckExpiry(r) \/ CreateLogFails(r)
    BY <2>2 DEF Throttle, CheckExpiry, CreateLogFails
  <2>3. CASE Handle(r) \/ TouchFails(r)
    BY <2>3 DEF Handle, TouchFails, Served
  <2> QED
    BY <2>1, <2>2, <2>3
<1>3. p \in PCs
  BY DEF PCs
<1>4. RequestsInv' /\ req' \in [Requests -> Request]
  BY <1>1, <1>2, <1>3, RequestMoved, GoesMoves DEF IndInv
<1>5. TypeOK'
  BY <1>1, <1>4 DEF IndInv, TypeOK
<1> QED
  BY <1>1, <1>4, <1>5, TouchFrame, LogFrame DEF IndInv

\* The time that is written down was read less than MaxDelay ago.
LEMMA TouchKeeps ==
  ASSUME IndInv, NEW r \in Requests, Touch(r)
  PROVE  IndInv'
<1> DEFINE w == req[r].ws
<1>1. /\ req[r].pc = "touching" /\ Goes(r, "answered") /\ "answered" \in PCs
      /\ updated' = IF w \in alive THEN [updated EXCEPT ![w] = req[r].at] ELSE updated
      /\ touched' = [touched EXCEPT ![w] = IF w \in alive THEN now ELSE @]
      /\ UNCHANGED <<now, alive, revoked, logs, cancelled, cleaner, pruner, failures,
                     inserted>>
  BY DEF Touch, TouchUpdatedAt, PCs
<1>2. RequestsInv' /\ req' \in [Requests -> Request]
  BY <1>1, RequestMoved, GoesMoves DEF IndInv, Served
<1>3. /\ w \in Workspace /\ req[r].at \in 0 .. MaxTime /\ now \in 0 .. MaxTime
      /\ req[r].since \in 0 .. MaxTime
  BY RequestFields DEF IndInv
<1>4. TypeOK'
  BY <1>1, <1>2, <1>3 DEF IndInv, TypeOK
<1>5. now <= req[r].at + MaxDelay
  <2>1. now - req[r].since <= MaxDelay /\ req[r].since <= req[r].at
    BY <1>1 DEF IndInv, RequestsInv, TimeShape
  <2> QED
    BY <1>3, <2>1
<1>6. TouchInv'
  <2>1. TouchShape'
    <3>1. \A v \in Workspace : touched[v] <= updated[v] + MaxDelay
      BY DEF IndInv, TouchInv, TouchShape
    <3>2. updated \in [Workspace -> 0 .. MaxTime] /\ touched \in [Workspace -> 0 .. MaxTime]
      BY DEF IndInv, TypeOK
    <3> QED
      BY <1>1, <1>3, <1>5, <3>1, <3>2 DEF TouchShape
  <2> QED
    BY <1>1, <2>1 DEF IndInv, TouchInv, CutoffShape
<1> QED
  BY <1>1, <1>2, <1>4, <1>6, LogFrame DEF IndInv

LEMMA CreateLogKeeps ==
  ASSUME IndInv, NEW r \in Requests, CreateLog(r)
  PROVE  IndInv'
<1> DEFINE row == [ws |-> req[r].ws, at |-> req[r].at, id |-> r]
<1>1. /\ req[r].pc = "logging" /\ Goes(r, "done") /\ "done" \in PCs
      /\ logs' = logs \union {row} /\ inserted' = inserted \union {row}
      /\ UNCHANGED <<now, alive, updated, revoked, cancelled, cleaner, pruner, failures,
                     touched>>
  BY DEF CreateLog, PCs
<1>2. RequestsInv' /\ req' \in [Requests -> Request]
  BY <1>1, RequestMoved, GoesMoves DEF IndInv, Served
<1>3. row \in Log
  BY RequestFields DEF Log, IndInv
<1> HIDE DEF row
<1>4. TypeOK'
  BY <1>1, <1>2, <1>3 DEF IndInv, TypeOK
<1> QED
  BY <1>1, <1>2, <1>4, RowAdded, TouchFrame DEF IndInv

LEMMA RequestKeeps ==
  ASSUME IndInv, NEW r \in Requests, Send(r) \/ RequestStep(r)
  PROVE  IndInv'
  BY SendKeeps, QuietRequestKeeps, TouchKeeps, CreateLogKeeps DEF RequestStep

LEMMA CleanerKeeps ==
  ASSUME IndInv, NEW p \in Cleaners, CleanerStep(p)
  PROVE  IndInv'
<1>1. UNCHANGED <<now, updated, revoked, req, cancelled, pruner, failures, touched>>
  BY DEF CleanerStep, CleanupStarts, DeleteStale, DeleteStaleFails, CleanerStops
<1>2. PICK c \in [pc : {"idle", "deleting", "stopped"}, cutoff : Int] :
        /\ cleaner' = [cleaner EXCEPT ![p] = c]
        /\ c.pc = "deleting" => c.cutoff = now - StaleAfter
  <2>1. now \in Int
    BY DEF IndInv, TypeOK
  <2>2. CASE CleanupStarts(p)
    <3> DEFINE c == [pc |-> "deleting", cutoff |-> now - StaleAfter]
    <3>1. c \in [pc : {"idle", "deleting", "stopped"}, cutoff : Int] /\ c.cutoff = now - StaleAfter
      BY <2>1
    <3>2. cleaner' = [cleaner EXCEPT ![p] = c]
      BY <2>2 DEF CleanupStarts
    <3> HIDE DEF c
    <3> QED
      BY <3>1, <3>2
  <2>3. CASE DeleteStale(p) \/ DeleteStaleFails(p)
    <3>1. Waiting \in [pc : {"idle", "deleting", "stopped"}, cutoff : Int]
          /\ Waiting.pc # "deleting"
      BY DEF Waiting
    <3>2. cleaner' = [cleaner EXCEPT ![p] = Waiting]
      BY <2>3 DEF DeleteStale, DeleteStaleFails
    <3> QED
      BY <3>1, <3>2
  <2>4. CASE CleanerStops(p)
    <3>1. cleaner' = [cleaner EXCEPT ![p] = [cleaner[p] EXCEPT !.pc = "stopped"]]
      BY <2>4 DEF CleanerStops
    <3>2. [cleaner[p] EXCEPT !.pc = "stopped"]
            \in [pc : {"idle", "deleting", "stopped"}, cutoff : Int]
      BY DEF IndInv, TypeOK
    <3> QED
      BY <3>1, <3>2
  <2> QED
    BY <2>2, <2>3, <2>4 DEF CleanerStep
<1>3. /\ alive' \subseteq alive
      /\ \/ UNCHANGED <<alive, logs, inserted>>
         \/ /\ logs' = {l \in logs : l.ws \in alive'}
            /\ inserted' = {l \in inserted : l.ws \in alive'}
  BY DEF CleanerStep, CleanupStarts, DeleteStale, DeleteStaleFails, CleanerStops
<1>4. LogInv'
  BY <1>1, <1>3, WorkspacesGone, LogFrame DEF IndInv
<1>5. TypeOK'
  <2>1. logs' \subseteq inserted' /\ inserted' \subseteq Log /\ alive' \subseteq Workspace
    BY <1>3 DEF IndInv, TypeOK
  <2> QED
    BY <1>1, <1>2, <2>1 DEF IndInv, TypeOK
<1>6. TouchInv'
  <2>1. now - StaleAfter <= now - StaleAfter
    BY DEF IndInv, TypeOK
  <2> QED
    BY <1>1, <1>2, <2>1 DEF IndInv, TypeOK, TouchInv, TouchShape, CutoffShape
<1> QED
  BY <1>1, <1>4, <1>5, <1>6, RequestsFrame DEF IndInv
\* The states of a pruner.
PrunerState == [pc : {"idle", "next", "picked", "stopped"}, todo : SUBSET Workspace,
                current : SUBSET Workspace, picked : SUBSET Log]

LEMMA PrunerStates ==
  /\ \A todo \in SUBSET Workspace :
       Onward(todo) \in PrunerState /\ Onward(todo).pc # "picked"
  /\ Stopped \in PrunerState /\ Stopped.pc # "picked"
  BY DEF PrunerState, Onward, Stopped

LEMMA PrunerKeeps ==
  ASSUME IndInv, NEW p \in Pruners, PrunerStep(p)
  PROVE  IndInv'
<1> USE PrunerStates
<1> DEFINE s == pruner[p]
           gone == s.picked \intersect logs
<1>1. /\ s \in PrunerState /\ s.todo \in SUBSET Workspace /\ logs \subseteq Log
      /\ s.todo \ s.current \in SUBSET Workspace
  BY DEF IndInv, TypeOK, PrunerState
<1>2. /\ UNCHANGED <<now, alive, updated, revoked, req, cancelled, cleaner, touched, inserted>>
      /\ failures' \in 0 .. MaxFailures
      /\ logs' = logs \/ (s.pc = "picked" /\ logs' = logs \ gone)
  <2>1. failures \in 0 .. MaxFailures
    BY DEF IndInv, TypeOK
  <2>2. CASE PruneFails(p)
    BY <2>1, <2>2 DEF PruneFails
  <2>3. CASE ListExceeding(p) \/ PickExcess(p) \/ DeleteExcess(p) \/ PrunerStops(p)
    BY <2>1, <2>3 DEF ListExceeding, PickExcess, DeleteExcess, PrunerStops
  <2> QED
    BY <2>2, <2>3 DEF PrunerStep
<1>3. PICK c \in PrunerState :
        /\ pruner' = [pruner EXCEPT ![p] = c]
        /\ c.pc = "picked" => \E w \in Workspace : c.picked = Excess(w)
  <2>1. CASE ListExceeding(p)
    <3> DEFINE c == [s EXCEPT !.pc = "next", !.todo = Exceeding]
    <3>1. c \in PrunerState /\ c.pc = "next"
      BY <1>1 DEF PrunerState, Exceeding
    <3>2. pruner' = [pruner EXCEPT ![p] = c]
      BY <2>1 DEF ListExceeding, IndInv, TypeOK
    <3> HIDE DEF c
    <3> QED
      BY <3>1, <3>2
  <2>2. CASE PickExcess(p)
    <3>1. PICK w \in s.todo :
            pruner' = [pruner EXCEPT ![p].pc = "picked", ![p].picked = Excess(w),
                                     ![p].current = {w}]
      BY <2>2 DEF PickExcess
    <3> DEFINE c == [s EXCEPT !.pc = "picked", !.picked = Excess(w), !.current = {w}]
    <3>2. w \in Workspace /\ Excess(w) \in SUBSET Log
      BY <1>1, ExcessIsOld DEF IndInv
    <3>3. c \in PrunerState /\ c.picked = Excess(w)
      BY <1>1, <3>2 DEF PrunerState
    <3>4. pruner' = [pruner EXCEPT ![p] = c]
      BY <3>1 DEF IndInv, TypeOK
    <3> HIDE DEF c
    <3> QED
      BY <3>2, <3>3, <3>4
  <2>3. CASE DeleteExcess(p)
    <3>1. CASE Cardinality(gone) < BatchSize
      <4>1. pruner' = [pruner EXCEPT ![p] = Onward(s.todo \ s.current)]
        BY <2>3, <3>1 DEF DeleteExcess
      <4> QED
        BY <1>1, <4>1
    <3>2. CASE ~(Cardinality(gone) < BatchSize)
      <4> DEFINE c == [s EXCEPT !.pc = "next", !.picked = {}]
      <4>1. pruner' = [pruner EXCEPT ![p] = c]
        BY <2>3, <3>2 DEF DeleteExcess
      <4>2. c \in PrunerState /\ c.pc = "next"
        BY <1>1 DEF PrunerState
      <4> HIDE DEF c
      <4> QED
        BY <4>1, <4>2
    <3> QED
      BY <3>1, <3>2
  <2>4. CASE PruneFails(p)
    <3>1. PICK w \in s.todo :
            pruner' = [pruner EXCEPT ![p] = Onward(AfterFailure(s.todo, w))]
      BY <2>4 DEF PruneFails
    <3>2. AfterFailure(s.todo, w) \in SUBSET Workspace
      BY <1>1 DEF AfterFailure
    <3> QED
      BY <3>1, <3>2
  <2>5. CASE PrunerStops(p)
    BY <2>5 DEF PrunerStops
  <2> QED
    BY <2>1, <2>2, <2>3, <2>4, <2>5 DEF PrunerStep
<1>4. /\ pruner' \in [Pruners -> PrunerState] /\ pruner'[p] = c
      /\ \A q \in Pruners \ {p} : pruner'[q] = pruner[q]
  BY <1>3 DEF IndInv, TypeOK, PrunerState
<1>5. PickedShape(p)'
  <2> SUFFICES ASSUME c.pc = "picked", NEW l \in c.picked, l.ws \in alive
               PROVE  Cardinality(NewerIn(l, inserted)) >= MaxCount
    BY <1>2, <1>4 DEF PickedShape, NewerIn, LogsOf
  <2> QED
    BY <1>3, ExcessIsOld DEF IndInv
<1>6. LogInv'
  BY <1>2, <1>4, <1>5, PrunerMoved DEF IndInv
<1>7. TypeOK'
  BY <1>2, <1>4 DEF IndInv, TypeOK, PrunerState
<1> QED
  BY <1>2, <1>6, <1>7, RequestsFrame, TouchFrame DEF IndInv

\* Time passes, tokens are revoked and processes told to stop.
LEMMA OutsideKeeps ==
  ASSUME IndInv,
         Tick \/ (\E p \in Process : Cancel(p)) \/ (\E t \in Token : Revoke(t))
  PROVE  IndInv'
<1>1. CASE Tick
  <2>1. /\ now' = now + 1 /\ now < MaxTime
        /\ UNCHANGED <<alive, updated, revoked, req, logs, cancelled, cleaner, pruner,
                       failures, touched, inserted>>
        /\ \A r \in Requests :
             req[r].pc \notin {"idle", "done"} => now - req[r].since < MaxDelay
    BY <1>1 DEF Tick
  <2>2. now \in 0 .. MaxTime /\ now \in Int
    BY DEF IndInv, TypeOK
  <2>3. TypeOK'
    BY <2>1, <2>2 DEF IndInv, TypeOK
  <2>4. ASSUME NEW r \in Requests PROVE (AuthShape(r) /\ TimeShape(r))'
    <3>1. AuthShape(r) /\ TimeShape(r)
      BY DEF IndInv, RequestsInv
    <3>2. /\ req[r].since \in Int /\ req[r].at \in Int /\ TokenExpiry[req[r].token] \in Int
      BY RequestFields DEF IndInv
    <3>3. AuthShape(r)'
      BY <2>1, <2>2, <3>1, <3>2 DEF AuthShape, Served
    <3>4. TimeShape(r)'
      <4>1. req'[r] = req[r] /\ now' = now + 1
        BY <2>1
      <4>2. CASE req[r].pc \in {"idle", "done"}
        BY <4>1, <4>2 DEF TimeShape
      <4>3. CASE req[r].pc \notin {"idle", "done"}
        <5>1. /\ req[r].since <= now /\ now - req[r].since < MaxDelay
              /\ req[r].pc \in {"touching", "logging"} =>
                   req[r].since <= req[r].at /\ req[r].at <= now
          BY <2>1, <3>1, <4>3 DEF TimeShape
        <5> QED
          BY <2>2, <3>2, <4>1, <4>3, <5>1 DEF TimeShape
      <4> QED
        BY <4>2, <4>3
    <3> QED
      BY <3>3, <3>4
  <2>5. TouchInv'
    BY <2>1, <2>2 DEF IndInv, TypeOK, TouchInv, TouchShape, CutoffShape
  <2> QED
    BY <2>1, <2>3, <2>4, <2>5, LogFrame DEF IndInv, RequestsInv
<1>2. CASE \E p \in Process : Cancel(p)
  <2>1. TypeOK'
    BY <1>2 DEF IndInv, TypeOK, Cancel
  <2> QED
    BY <1>2, <2>1, RequestsFrame, TouchFrame, LogFrame DEF IndInv, Cancel
<1>3. CASE \E t \in Token : Revoke(t)
  <2>1. TypeOK'
    BY <1>3 DEF IndInv, TypeOK, Revoke
  <2> QED
    BY <1>3, <2>1, RequestsFrame, TouchFrame, LogFrame DEF IndInv, Revoke
<1> QED
  BY <1>1, <1>2, <1>3

LEMMA StutterKeeps ==
  ASSUME IndInv, UNCHANGED vars
  PROVE  IndInv'
<1>1. TypeOK'
  BY DEF IndInv, TypeOK
<1> QED
  BY <1>1, RequestsFrame, TouchFrame, LogFrame DEF IndInv
-----------------------------------------------------------------------------
(* The theorems *)

THEOREM Invariance == Spec => []IndInv
<1>1. IndInv /\ [Next]_vars => IndInv'
  BY RequestKeeps, CleanerKeeps, PrunerKeeps, OutsideKeeps, StutterKeeps
  DEF Next, Terminated
<1> QED
  BY InitEstablishes, <1>1, PTL DEF Spec

\* Every variable keeps its type, and no row of the request log is there that was
\* not inserted.
THEOREM TypeCorrect == Spec => []TypeOK
<1>1. IndInv => TypeOK
  BY DEF IndInv
<1> QED
  BY Invariance, <1>1, PTL

\* No handler serves a request whose token was revoked, expired or of another
\* workspace when the limiter let the request through, after whatever wait.
THEOREM OnlyGoodTokensServed == Spec => []ServedWithGoodToken
<1>1. IndInv => ServedWithGoodToken
  BY DEF IndInv, RequestsInv, AuthShape, ServedWithGoodToken
<1> QED
  BY Invariance, <1>1, PTL

\* However many processes prune at the same time, the newest MaxCount rows of every
\* workspace stay in the request log.
THEOREM NewestStay == Spec => []NewestRetained
<1>1. IndInv => NewestRetained
  BY DEF IndInv, LogInv
<1> QED
  BY Invariance, <1>1, PTL

\* Only a DeleteStale takes workspaces away, those of its limit.
LEMMA OnlyStaleGo ==
  ASSUME Next, NEW w \in alive \ alive'
  PROVE  \E p \in Cleaners : DeleteStale(p) /\ w \in Stale(cleaner[p].cutoff)
<1>1. ~\E r \in Requests : Send(r) \/ RequestStep(r)
  BY DEF Send, RequestStep, Throttle, Admit, FindToken, CheckExpiry, Handle, TouchTime, Touch, TouchFails,
     LogTime, CreateLog, CreateLogFails
<1>2. ~\E p \in Pruners : PrunerStep(p)
  BY DEF PrunerStep, ListExceeding, PickExcess, DeleteExcess, PruneFails, PrunerStops
<1>3. ~((\E p \in Process : Cancel(p)) \/ (\E t \in Token : Revoke(t)) \/ Tick \/ Terminated)
  BY DEF Cancel, Revoke, Tick, Terminated
<1>4. PICK p \in Cleaners : CleanerStep(p)
  BY <1>1, <1>2, <1>3 DEF Next
<1>5. DeleteStale(p)
  BY <1>4 DEF CleanerStep, CleanupStarts, DeleteStaleFails, CleanerStops
<1> QED
  BY <1>5 DEF DeleteStale

\* A workspace is deleted only when it was last touched StaleAfter ago, but for the
\* time a request takes, although the limit of the cleanup is older than the
\* deletion and the column older than the touch.
THEOREM TouchedStay == Spec => TouchedKept
<1>1. IndInv /\ [Next]_vars =>
        [\A w \in alive \ alive' : touched[w] < now - StaleAfter + MaxDelay]_vars
  <2> SUFFICES ASSUME IndInv, Next, NEW w \in alive \ alive'
               PROVE  touched[w] < now - StaleAfter + MaxDelay
    BY Zenon
  <2>1. PICK p \in Cleaners : DeleteStale(p) /\ w \in Stale(cleaner[p].cutoff)
    BY OnlyStaleGo
  <2>2. updated[w] < cleaner[p].cutoff
    BY <2>1 DEF Stale
  <2>3. cleaner[p].cutoff <= now - StaleAfter
    BY <2>1 DEF DeleteStale, IndInv, TouchInv, CutoffShape
  <2>4. w \in Workspace
    BY DEF IndInv, TypeOK
  <2>5. touched[w] <= updated[w] + MaxDelay
    BY <2>4 DEF IndInv, TouchInv, TouchShape
  <2>6. /\ touched[w] \in Int /\ updated[w] \in Int /\ now \in Int
        /\ cleaner[p].cutoff \in Int
    BY <2>4 DEF IndInv, TypeOK
  <2> QED
    BY <2>2, <2>3, <2>5, <2>6
<1> QED
  BY Invariance, <1>1, PTL DEF Spec, TouchedKept
=============================================================================
