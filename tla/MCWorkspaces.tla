---------------------------- MODULE MCWorkspaces ----------------------------
EXTENDS Workspaces, TLC

CONSTANTS w1, w2, t1, t2, p1, p2

\* The token t1 does not expire, the token t2 expires at once.
Home == t1 :> w1 @@ t2 :> w2
Expiry == t1 :> MaxTime @@ t2 :> 0

\* Only t1.
OneHome == t1 :> w1
NeverExpires == t1 :> MaxTime

\* w1 has an excess of one row, w2 has as many as are kept.
Rows(w, ids) == {[ws |-> w, at |-> 0, id |-> i] : i \in ids}
SomeLogs == Rows(w1, {11, 12}) \union Rows(w2, {13})

\* Requests that are to be sent with a token, and those that are never sent.
Asks(kind, w, t) == [pc |-> "idle", ws |-> w, token |-> t, kind |-> kind,
                     since |-> 0, good |-> FALSE, at |-> 0]
Silent == [Asks("read", w1, t1) EXCEPT !.pc = "done"]
Asking(kinds, ws, ts) == {Asks(k, w, t) : k \in kinds, w \in ws, t \in ts}

\* Two requests to one workspace race with its cleanup.
Touching ==
  /\ now = 0 /\ alive = {w1} /\ revoked = {t2} /\ logs = {} /\ cancelled = {p2}
  /\ pruner = [p \in Pruners |-> Stopped]
  /\ req \in [Requests -> Asking({"write", "read"}, {w1}, {t1})]

\* One request with any token to any workspace.
Admitting ==
  /\ now = 0 /\ alive = Workspace /\ revoked = {} /\ logs = {} /\ cancelled = {p2}
  /\ pruner = [p \in Pruners |-> Stopped]
  /\ req \in [Requests -> Asking({"write", "config"}, Workspace, Token) \union {Silent}]
  /\ req[2] = Silent

\* Two processes prune the log while two requests add to it.
Pruning ==
  /\ now = MaxTime - 1 /\ alive = Workspace /\ revoked = Token /\ logs = OldLogs
  /\ cancelled = {} /\ pruner = [p \in Pruners |-> Onward({})]
  /\ req \in [Requests -> Asking({"config"}, Workspace, {t1})] /\ req[1].ws = w1

Scene ==
  /\ Touching \/ Admitting \/ Pruning
  /\ cleaner = [p \in Cleaners |-> Waiting] /\ updated = [w \in Workspace |-> now]

SceneInit == Scene /\ Init
SceneSpec == SceneInit /\ [][Next]_vars

\* The log cleanup at one instant, in a process that also runs the other service.
FairScene ==
  /\ now = 0 /\ alive = Workspace /\ revoked = {} /\ logs = OldLogs /\ cancelled = {}
  /\ pruner = [p \in Pruners |-> Onward({})] /\ cleaner = [p \in Cleaners |-> Waiting]
  /\ updated = [w \in Workspace |-> 0]
  /\ req \in [Requests -> Asking({"config"}, Workspace, Token)]

FairInit == FairScene /\ Init
FairSceneSpec == FairInit /\ [][Next]_vars /\ Fairness
=============================================================================
