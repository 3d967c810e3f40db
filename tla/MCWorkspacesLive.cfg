CONSTANTS
  w1 = w1
  w2 = w2
  t1 = t1
  t2 = t2
  p1 = p1
  p2 = p2
  Workspace = {w1, w2}
  Token = {t1}
  TokenWorkspace <- OneHome
  TokenExpiry <- NeverExpires
  Requests = {1, 2}
  Kinds = {"config"}
  Cleaners = {p1}
  Pruners = {p1}
  StaleAfter = 2
  MaxCount = 1
  BatchSize = 1
  Unprunable = {w1}
  MaxFailures = 1
  OldLogs <- SomeLogs
  MaxTime = 0
  MaxDelay = 1
SPECIFICATION FairSceneSpec
PROPERTIES PrunedEventually ServicesStop
