CONSTANTS
  w1 = w1
  w2 = w2
  t1 = t1
  t2 = t2
  p1 = p1
  p2 = p2
  Workspace = {w1, w2}
  Token = {t1, t2}
  TokenWorkspace <- Home
  TokenExpiry <- Expiry
  Requests = {1, 2}
  Kinds = {"write", "read", "config"}
  Cleaners = {p1}
  Pruners = {p1, p2}
  StaleAfter = 2
  MaxCount = 1
  BatchSize = 1
  Unprunable = {}
  MaxFailures = 1
  OldLogs <- SomeLogs
  MaxTime = 4
  MaxDelay = 1
SPECIFICATION SceneSpec
INVARIANTS ServedWithGoodToken NewestRetained
PROPERTY TouchedKept
