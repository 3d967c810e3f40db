CONSTANTS
  Txn = {1, 2}
  Workspace = {w1}
  WorkspaceOf <- OneWorkspace
  MaxWorkers = 1
  OpLimit = 1
  StatusLimit = 1
  StaleAfter = 2
  MaxCount = 1
  PruneBatchSize = 1
  ReapLimit = 1
  MaxTime = 3
  MaxCrashes = 1
SPECIFICATION Spec
INVARIANTS TypeOK SlotAccounting CompletedMeansApplied StaleVerdictExplained
PROPERTIES AnswersFinal PruneKeepsNewest SlotsReturn ImplementsContract
