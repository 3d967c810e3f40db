------------------------- MODULE AsyncEventsProofs -------------------------
(***************************************************************************)
(* Proofs about AsyncEvents, for any number of transactions, workspaces    *)
(* and workers and for any timeouts.                                       *)
(***************************************************************************)
EXTENDS AsyncEvents, FiniteSetTheorems, TLAPS

HoldingTxns == {t \in Txn : phase[t] \in Holding}

\* The semaphore never holds more tokens than there are transactions, and
\* taking, keeping or releasing one changes the count of holders accordingly.
LEMMA HoldingFinite == IsFiniteSet(HoldingTxns) /\ IsFiniteSet(HoldingTxns')
  BY ConstantsAssumption, FS_Subset DEF HoldingTxns

LEMMA HoldersAfterAcquire ==
  ASSUME TypeOK, SlotAccounting, NEW t \in Txn, phase[t] \notin Holding,
         NEW p \in Holding, phase' = [phase EXCEPT ![t] = p], slots' = slots + 1
  PROVE  SlotAccounting'
<1>1. HoldingTxns' = HoldingTxns \union {t}
  BY DEF TypeOK, HoldingTxns
<1>2. t \notin HoldingTxns
  BY DEF HoldingTxns
<1>3. Cardinality(HoldingTxns') = Cardinality(HoldingTxns) + 1
  BY <1>1, <1>2, HoldingFinite, FS_AddElement
<1> QED
  BY <1>3 DEF SlotAccounting, HoldingTxns

\* Releasing a held token: there is one to release, and the count follows.
LEMMA HoldersAfterRelease ==
  ASSUME TypeOK, SlotAccounting, NEW t \in Txn, phase[t] \in Holding,
         NEW p \in Phase \ Holding, phase' = [phase EXCEPT ![t] = p],
         slots' = slots - 1
  PROVE  SlotAccounting' /\ slots' \in 0..MaxWorkers
<1>1. HoldingTxns' = HoldingTxns \ {t}
  BY DEF TypeOK, HoldingTxns
<1>2. t \in HoldingTxns
  BY DEF HoldingTxns
<1>3. /\ Cardinality(HoldingTxns') = Cardinality(HoldingTxns) - 1
      /\ Cardinality(HoldingTxns') \in Nat
  BY <1>1, <1>2, HoldingFinite, FS_RemoveElement, FS_CardinalityType
<1> QED
  BY <1>3, ConstantsAssumption DEF SlotAccounting, HoldingTxns, TypeOK

\* A step that keeps the holders keeps the count.
LEMMA HoldersKept ==
  ASSUME SlotAccounting, slots' = slots,
         \A t \in Txn : phase'[t] \in Holding <=> phase[t] \in Holding
  PROVE  SlotAccounting'
  BY DEF SlotAccounting
-----------------------------------------------------------------------------
USE DEF vars, dispatchVars, rowVars, cleanerVars, processVars, Terminal, Status,
        Payload, Answer, Working, Reporting, Live, Holding, Ended, NeverInserted,
        Phase

LEMMA InitEstablishes == Init => IndInv
<1> SUFFICES ASSUME Init PROVE IndInv
  OBVIOUS
<1>1. TypeOK
  BY ConstantsAssumption DEF Init, TypeOK
<1>2. SlotAccounting
  <2>1. {t \in Txn : phase[t] \in Holding} = {}
    BY DEF Init
  <2> QED
    BY <2>1, FS_EmptySet DEF SlotAccounting, Init
<1>3. StaleVerdictExplained /\ \A t \in Txn : TxnShape(t)
  BY DEF Init, StaleVerdictExplained, TxnShape, RowShape, SuccessShape,
         AnswerShape, DeadlineShape
<1> QED
  BY <1>1, <1>2, <1>3 DEF IndInv

\* The request handler's steps preserve the invariant.
LEMMA DispatchStep ==
  ASSUME IndInv, NEW t \in Txn, Dispatch(t)
  PROVE  IndInv'
<1>1. CASE AcquireSlot(t)
  <2>2. SlotAccounting'
    BY <1>1, HoldersAfterAcquire DEF IndInv, AcquireSlot
  <2>1. TypeOK'
    BY <1>1, ConstantsAssumption DEF IndInv, TypeOK, AcquireSlot
  <2>3. StaleVerdictExplained'
    BY <1>1, ConstantsAssumption
    DEF IndInv, TypeOK, StaleVerdictExplained, TxnShape, RowShape, DeadlineShape,
        AcquireSlot
  <2>4. \A u \in Txn : TxnShape(u)'
    BY <1>1, ConstantsAssumption
    DEF IndInv, TypeOK, TxnShape, RowShape, SuccessShape, AnswerShape,
        DeadlineShape, AcquireSlot
  <2> QED
    BY <2>1, <2>2, <2>3, <2>4 DEF IndInv
<1>2. CASE RejectTooMany(t)
  <2>1. TypeOK'
    BY <1>2, ConstantsAssumption DEF IndInv, TypeOK, RejectTooMany
  <2>2. SlotAccounting'
    BY <1>2, HoldersKept DEF IndInv, TypeOK, RejectTooMany
  <2>3. StaleVerdictExplained'
    BY <1>2, ConstantsAssumption
    DEF IndInv, TypeOK, StaleVerdictExplained, TxnShape, RowShape, DeadlineShape,
        RejectTooMany
  <2>4. \A u \in Txn : TxnShape(u)'
    BY <1>2, ConstantsAssumption
    DEF IndInv, TypeOK, TxnShape, RowShape, SuccessShape, AnswerShape,
        DeadlineShape, RejectTooMany
  <2> QED
    BY <2>1, <2>2, <2>3, <2>4 DEF IndInv
<1>3. CASE CreateEvent(t)
  <2>1. TypeOK'
    BY <1>3, ConstantsAssumption DEF IndInv, TypeOK, CreateEvent
  <2>2. SlotAccounting'
    BY <1>3, HoldersKept DEF IndInv, TypeOK, CreateEvent
  <2>3. StaleVerdictExplained'
    BY <1>3, ConstantsAssumption
    DEF IndInv, TypeOK, StaleVerdictExplained, TxnShape, RowShape, DeadlineShape,
        CreateEvent
  <2>4. \A u \in Txn : TxnShape(u)'
    BY <1>3, ConstantsAssumption
    DEF IndInv, TypeOK, TxnShape, RowShape, SuccessShape, AnswerShape,
        DeadlineShape, CreateEvent
  <2> QED
    BY <2>1, <2>2, <2>3, <2>4 DEF IndInv
<1>4. CASE CreateEventError(t)
  <2>2. SlotAccounting' /\ slots' \in 0..MaxWorkers
    BY <1>4, HoldersAfterRelease DEF IndInv, CreateEventError
  <2>1. TypeOK'
    BY <1>4, <2>2, ConstantsAssumption DEF IndInv, TypeOK, CreateEventError
  <2>3. StaleVerdictExplained'
    BY <1>4, ConstantsAssumption
    DEF IndInv, TypeOK, StaleVerdictExplained, TxnShape, RowShape, DeadlineShape,
        CreateEventError
  <2>4. \A u \in Txn : TxnShape(u)'
    BY <1>4, ConstantsAssumption
    DEF IndInv, TypeOK, TxnShape, RowShape, SuccessShape, AnswerShape,
        DeadlineShape, CreateEventError
  <2> QED
    BY <2>1, <2>2, <2>3, <2>4 DEF IndInv
<1> QED
  BY <1>1, <1>2, <1>3, <1>4 DEF Dispatch

\* The worker's steps preserve the invariant.
LEMMA WorkerStep ==
  ASSUME IndInv, NEW t \in Txn, Worker(t)
  PROVE  IndInv'
<1>1. CASE WorkerCheck(t) /\ status[t] \in Terminal
  <2>2. SlotAccounting' /\ slots' \in 0..MaxWorkers
    BY <1>1, HoldersAfterRelease DEF IndInv, WorkerCheck, WorkerEnds
  <2>1. TypeOK'
    BY <1>1, <2>2, ConstantsAssumption DEF IndInv, TypeOK, WorkerCheck, WorkerEnds
  <2>3. StaleVerdictExplained'
    BY <1>1, ConstantsAssumption
    DEF IndInv, TypeOK, StaleVerdictExplained, TxnShape, RowShape, DeadlineShape,
        WorkerCheck, WorkerEnds
  <2>4. \A u \in Txn : TxnShape(u)'
    BY <1>1, ConstantsAssumption
    DEF IndInv, TypeOK, TxnShape, RowShape, SuccessShape, AnswerShape,
        DeadlineShape, WorkerCheck, WorkerEnds
  <2> QED
    BY <2>1, <2>2, <2>3, <2>4 DEF IndInv
<1>2. CASE WorkerCheck(t) /\ status[t] \notin Terminal
  <2>1. TypeOK'
    BY <1>2, ConstantsAssumption DEF IndInv, TypeOK, WorkerCheck
  <2>2. SlotAccounting'
    BY <1>2, HoldersKept DEF IndInv, TypeOK, WorkerCheck
  <2>3. StaleVerdictExplained'
    BY <1>2, ConstantsAssumption
    DEF IndInv, TypeOK, StaleVerdictExplained, TxnShape, RowShape, DeadlineShape,
        WorkerCheck
  <2>4. \A u \in Txn : TxnShape(u)'
    BY <1>2, ConstantsAssumption
    DEF IndInv, TypeOK, TxnShape, RowShape, SuccessShape, AnswerShape,
        DeadlineShape, WorkerCheck
  <2> QED
    BY <2>1, <2>2, <2>3, <2>4 DEF IndInv
<1>3. CASE WorkerCheckError(t)
  <2>1. TypeOK'
    BY <1>3, ConstantsAssumption DEF IndInv, TypeOK, WorkerCheckError
  <2>2. SlotAccounting'
    BY <1>3, HoldersKept DEF IndInv, TypeOK, WorkerCheckError
  <2>3. StaleVerdictExplained'
    BY <1>3, ConstantsAssumption
    DEF IndInv, TypeOK, StaleVerdictExplained, TxnShape, RowShape, DeadlineShape,
        WorkerCheckError
  <2>4. \A u \in Txn : TxnShape(u)'
    BY <1>3, ConstantsAssumption
    DEF IndInv, TypeOK, TxnShape, RowShape, SuccessShape, AnswerShape,
        DeadlineShape, WorkerCheckError
  <2> QED
    BY <2>1, <2>2, <2>3, <2>4 DEF IndInv
<1>4. CASE OpCommit(t)
  <2>1. TypeOK'
    BY <1>4, ConstantsAssumption DEF IndInv, TypeOK, OpCommit
  <2>2. SlotAccounting'
    BY <1>4, HoldersKept DEF IndInv, TypeOK, OpCommit
  <2>3. StaleVerdictExplained'
    BY <1>4, ConstantsAssumption
    DEF IndInv, TypeOK, StaleVerdictExplained, TxnShape, RowShape, DeadlineShape,
        OpCommit
  <2>4. \A u \in Txn : TxnShape(u)'
    BY <1>4, ConstantsAssumption
    DEF IndInv, TypeOK, TxnShape, RowShape, SuccessShape, AnswerShape,
        DeadlineShape, OpCommit
  <2> QED
    BY <2>1, <2>2, <2>3, <2>4 DEF IndInv
<1>5. CASE OpSucceeds(t)
  <2>1. TypeOK'
    BY <1>5, ConstantsAssumption DEF IndInv, TypeOK, OpSucceeds, OpReturns
  <2>2. SlotAccounting'
    BY <1>5, HoldersKept DEF IndInv, TypeOK, OpSucceeds, OpReturns
  <2>3. StaleVerdictExplained'
    BY <1>5, ConstantsAssumption
    DEF IndInv, TypeOK, StaleVerdictExplained, TxnShape, RowShape, DeadlineShape,
        OpSucceeds, OpReturns
  <2>4. \A u \in Txn : TxnShape(u)'
    BY <1>5, ConstantsAssumption
    DEF IndInv, TypeOK, TxnShape, RowShape, SuccessShape, AnswerShape,
        DeadlineShape, OpSucceeds, OpReturns
  <2> QED
    BY <2>1, <2>2, <2>3, <2>4 DEF IndInv
<1>6. CASE OpFails(t)
  <2>1. TypeOK'
    BY <1>6, ConstantsAssumption DEF IndInv, TypeOK, OpFails, OpReturns
  <2>2. SlotAccounting'
    BY <1>6, HoldersKept DEF IndInv, TypeOK, OpFails, OpReturns
  <2>3. StaleVerdictExplained'
    BY <1>6, ConstantsAssumption
    DEF IndInv, TypeOK, StaleVerdictExplained, TxnShape, RowShape, DeadlineShape,
        OpFails, OpReturns
  <2>4. \A u \in Txn : TxnShape(u)'
    BY <1>6, ConstantsAssumption
    DEF IndInv, TypeOK, TxnShape, RowShape, SuccessShape, AnswerShape,
        DeadlineShape, OpFails, OpReturns
  <2> QED
    BY <2>1, <2>2, <2>3, <2>4 DEF IndInv
<1>7. CASE RecordCompleted(t)
  <2>2. SlotAccounting' /\ slots' \in 0..MaxWorkers
    BY <1>7, HoldersAfterRelease DEF IndInv, RecordCompleted, WorkerEnds, UpdateStatusAndPayload
  <2>1. TypeOK'
    BY <1>7, <2>2, ConstantsAssumption DEF IndInv, TypeOK, RecordCompleted, WorkerEnds, UpdateStatusAndPayload
  <2>3. StaleVerdictExplained'
    BY <1>7, ConstantsAssumption
    DEF IndInv, TypeOK, StaleVerdictExplained, TxnShape, RowShape, DeadlineShape,
        RecordCompleted, WorkerEnds, UpdateStatusAndPayload
  <2>4. \A u \in Txn : TxnShape(u)'
    BY <1>7, ConstantsAssumption
    DEF IndInv, TypeOK, TxnShape, RowShape, SuccessShape, AnswerShape,
        DeadlineShape, RecordCompleted, WorkerEnds, UpdateStatusAndPayload
  <2> QED
    BY <2>1, <2>2, <2>3, <2>4 DEF IndInv
<1>8. CASE RecordFailed(t)
  <2>2. SlotAccounting' /\ slots' \in 0..MaxWorkers
    BY <1>8, HoldersAfterRelease DEF IndInv, RecordFailed, WorkerEnds, UpdateStatusAndPayload
  <2>1. TypeOK'
    BY <1>8, <2>2, ConstantsAssumption DEF IndInv, TypeOK, RecordFailed, WorkerEnds, UpdateStatusAndPayload
  <2>3. StaleVerdictExplained'
    BY <1>8, ConstantsAssumption
    DEF IndInv, TypeOK, StaleVerdictExplained, TxnShape, RowShape, DeadlineShape,
        RecordFailed, WorkerEnds, UpdateStatusAndPayload
  <2>4. \A u \in Txn : TxnShape(u)'
    BY <1>8, ConstantsAssumption
    DEF IndInv, TypeOK, TxnShape, RowShape, SuccessShape, AnswerShape,
        DeadlineShape, RecordFailed, WorkerEnds, UpdateStatusAndPayload
  <2> QED
    BY <2>1, <2>2, <2>3, <2>4 DEF IndInv
<1>9. CASE RecordError(t)
  <2>2. SlotAccounting' /\ slots' \in 0..MaxWorkers
    BY <1>9, HoldersAfterRelease DEF IndInv, RecordError, WorkerEnds
  <2>1. TypeOK'
    BY <1>9, <2>2, ConstantsAssumption DEF IndInv, TypeOK, RecordError, WorkerEnds
  <2>3. StaleVerdictExplained'
    BY <1>9, ConstantsAssumption
    DEF IndInv, TypeOK, StaleVerdictExplained, TxnShape, RowShape, DeadlineShape,
        RecordError, WorkerEnds
  <2>4. \A u \in Txn : TxnShape(u)'
    BY <1>9, ConstantsAssumption
    DEF IndInv, TypeOK, TxnShape, RowShape, SuccessShape, AnswerShape,
        DeadlineShape, RecordError, WorkerEnds
  <2> QED
    BY <2>1, <2>2, <2>3, <2>4 DEF IndInv
<1> QED
  BY <1>1, <1>2, <1>3, <1>4, <1>5, <1>6, <1>7, <1>8, <1>9 DEF Worker

\* A poll preserves the invariant.
LEMMA GetEventStep ==
  ASSUME IndInv, NEW t \in Txn, GetEvent(t)
  PROVE  IndInv'
<1>1. TypeOK'
  BY ConstantsAssumption DEF IndInv, TypeOK, GetEvent, EventAnswer
<1>2. SlotAccounting'
  BY HoldersKept DEF IndInv, TypeOK, GetEvent, EventAnswer
<1>3. StaleVerdictExplained'
  BY ConstantsAssumption
  DEF IndInv, TypeOK, StaleVerdictExplained, TxnShape, RowShape, DeadlineShape,
      GetEvent, EventAnswer
<1>4. \A u \in Txn : TxnShape(u)'
  BY ConstantsAssumption
  DEF IndInv, TypeOK, TxnShape, RowShape, SuccessShape, AnswerShape,
      DeadlineShape, GetEvent, EventAnswer
<1> QED
  BY <1>1, <1>2, <1>3, <1>4 DEF IndInv
\* One DELETE of the pruner preserves the invariant: it only removes terminal
\* rows, and what clients were told about them stays consistent.
LEMMA PruneStep ==
  ASSUME IndInv, NEW w \in Workspace, Prune(w)
  PROVE  IndInv'
<1>1. CASE PruneBatch(w)
  <2> DEFINE batch == Limit(Offset(TerminalOf(w), MaxCount), PruneBatchSize)
  <2>0. /\ \A t \in batch : t \in Txn /\ status[t] \in Terminal
        /\ status' = [t \in Txn |-> IF t \in batch THEN "ABSENT" ELSE status[t]]
        /\ payload' = [t \in Txn |-> IF t \in batch THEN "none" ELSE payload[t]]
        /\ wsTodo' \subseteq wsTodo
        /\ UNCHANGED <<now, processVars, dispatchVars, created, applied, seen,
                       cleaner, stale>>
    BY <1>1 DEF PruneBatch, Limit, Offset, TerminalOf
  <2> HIDE DEF batch
  <2>1. TypeOK'
    BY <2>0 DEF IndInv, TypeOK
  <2>2. SlotAccounting'
    BY <2>0, HoldersKept DEF IndInv
  <2>3. StaleVerdictExplained'
    BY <2>0 DEF IndInv, TypeOK, StaleVerdictExplained
  <2>4. \A u \in Txn : TxnShape(u)'
    BY <2>0 DEF IndInv, TypeOK, TxnShape, RowShape, SuccessShape, AnswerShape,
                DeadlineShape
  <2> QED
    BY <2>1, <2>2, <2>3, <2>4 DEF IndInv
<1>2. CASE PruneError(w)
  <2>1. TypeOK'
    BY <1>2, ConstantsAssumption DEF IndInv, TypeOK, PruneError
  <2>2. SlotAccounting'
    BY <1>2, HoldersKept DEF IndInv, TypeOK, PruneError
  <2>3. StaleVerdictExplained'
    BY <1>2, ConstantsAssumption
    DEF IndInv, TypeOK, StaleVerdictExplained, TxnShape, RowShape, DeadlineShape,
        PruneError
  <2>4. \A u \in Txn : TxnShape(u)'
    BY <1>2, ConstantsAssumption
    DEF IndInv, TypeOK, TxnShape, RowShape, SuccessShape, AnswerShape,
        DeadlineShape, PruneError
  <2> QED
    BY <2>1, <2>2, <2>3, <2>4 DEF IndInv
<1> QED
  BY <1>1, <1>2 DEF Prune

\* The reaper's steps preserve the invariant: what it read about a row may be
\* old, but the row's age only grows and its UPDATE looks at the status again.
LEMMA ReaperStep ==
  ASSUME IndInv, NEW t \in Txn, Reap(t) \/ ReapError(t)
  PROVE  IndInv'
<1>1. CASE Reap(t)
  <2>1. TypeOK'
    BY <1>1, ConstantsAssumption DEF IndInv, TypeOK, Reap, UpdateStatusAndPayload
  <2>2. SlotAccounting'
    BY <1>1, HoldersKept DEF IndInv, TypeOK, Reap, UpdateStatusAndPayload
  <2>3. StaleVerdictExplained'
    BY <1>1, ConstantsAssumption
    DEF IndInv, TypeOK, StaleVerdictExplained, TxnShape, RowShape, DeadlineShape,
        Reap, UpdateStatusAndPayload
  <2>4. \A u \in Txn : TxnShape(u)'
    BY <1>1, ConstantsAssumption
    DEF IndInv, TypeOK, TxnShape, RowShape, SuccessShape, AnswerShape,
        DeadlineShape, Reap, UpdateStatusAndPayload
  <2> QED
    BY <2>1, <2>2, <2>3, <2>4 DEF IndInv
<1>2. CASE ReapError(t)
  <2>1. TypeOK'
    BY <1>2, ConstantsAssumption DEF IndInv, TypeOK, ReapError
  <2>2. SlotAccounting'
    BY <1>2, HoldersKept DEF IndInv, TypeOK, ReapError
  <2>3. StaleVerdictExplained'
    BY <1>2, ConstantsAssumption
    DEF IndInv, TypeOK, StaleVerdictExplained, TxnShape, RowShape, DeadlineShape,
        ReapError
  <2>4. \A u \in Txn : TxnShape(u)'
    BY <1>2, ConstantsAssumption
    DEF IndInv, TypeOK, TxnShape, RowShape, SuccessShape, AnswerShape,
        DeadlineShape, ReapError
  <2> QED
    BY <2>1, <2>2, <2>3, <2>4 DEF IndInv
<1> QED
  BY <1>1, <1>2

\* The cleanup goroutine's bookkeeping preserves the invariant.
LEMMA CleanerStep ==
  ASSUME IndInv, Cleaner
  PROVE  IndInv'
<1>1. CASE ListExceeding
  <2>1. TypeOK'
    BY <1>1, ConstantsAssumption DEF IndInv, TypeOK, ListExceeding
  <2>2. SlotAccounting'
    BY <1>1, HoldersKept DEF IndInv, TypeOK, ListExceeding
  <2>3. StaleVerdictExplained'
    BY <1>1, ConstantsAssumption
    DEF IndInv, TypeOK, StaleVerdictExplained, TxnShape, RowShape, DeadlineShape,
        ListExceeding
  <2>4. \A u \in Txn : TxnShape(u)'
    BY <1>1, ConstantsAssumption
    DEF IndInv, TypeOK, TxnShape, RowShape, SuccessShape, AnswerShape,
        DeadlineShape, ListExceeding
  <2> QED
    BY <2>1, <2>2, <2>3, <2>4 DEF IndInv
<1>2. CASE FindStale
  <2>1. TypeOK'
    BY <1>2, ConstantsAssumption DEF IndInv, TypeOK, FindStale, StalePending
  <2>2. SlotAccounting'
    BY <1>2, HoldersKept DEF IndInv, TypeOK, FindStale, StalePending
  <2>3. StaleVerdictExplained'
    BY <1>2, ConstantsAssumption
    DEF IndInv, TypeOK, StaleVerdictExplained, TxnShape, RowShape, DeadlineShape,
        FindStale, StalePending
  <2>4. \A u \in Txn : TxnShape(u)'
    BY <1>2, ConstantsAssumption
    DEF IndInv, TypeOK, TxnShape, RowShape, SuccessShape, AnswerShape,
        DeadlineShape, FindStale, StalePending
  <2> QED
    BY <2>1, <2>2, <2>3, <2>4 DEF IndInv
<1>3. CASE FindStaleError
  <2>1. TypeOK'
    BY <1>3, ConstantsAssumption DEF IndInv, TypeOK, FindStaleError
  <2>2. SlotAccounting'
    BY <1>3, HoldersKept DEF IndInv, TypeOK, FindStaleError
  <2>3. StaleVerdictExplained'
    BY <1>3, ConstantsAssumption
    DEF IndInv, TypeOK, StaleVerdictExplained, TxnShape, RowShape, DeadlineShape,
        FindStaleError
  <2>4. \A u \in Txn : TxnShape(u)'
    BY <1>3, ConstantsAssumption
    DEF IndInv, TypeOK, TxnShape, RowShape, SuccessShape, AnswerShape,
        DeadlineShape, FindStaleError
  <2> QED
    BY <2>1, <2>2, <2>3, <2>4 DEF IndInv
<1>4. CASE ReapDone
  <2>1. TypeOK'
    BY <1>4, ConstantsAssumption DEF IndInv, TypeOK, ReapDone
  <2>2. SlotAccounting'
    BY <1>4, HoldersKept DEF IndInv, TypeOK, ReapDone
  <2>3. StaleVerdictExplained'
    BY <1>4, ConstantsAssumption
    DEF IndInv, TypeOK, StaleVerdictExplained, TxnShape, RowShape, DeadlineShape,
        ReapDone
  <2>4. \A u \in Txn : TxnShape(u)'
    BY <1>4, ConstantsAssumption
    DEF IndInv, TypeOK, TxnShape, RowShape, SuccessShape, AnswerShape,
        DeadlineShape, ReapDone
  <2> QED
    BY <2>1, <2>2, <2>3, <2>4 DEF IndInv
<1> QED
  BY <1>1, <1>2, <1>3, <1>4, PruneStep, ReaperStep DEF Cleaner

\* Crash, restart and the clock preserve the invariant.
LEMMA ProcessStep ==
  ASSUME IndInv, Crash \/ Restart \/ Tick
  PROVE  IndInv'
<1>1. CASE Crash
  <2>1. TypeOK'
    <3>1. slots' \in 0..MaxWorkers /\ crashes' \in 0..MaxCrashes
      BY <1>1, ConstantsAssumption DEF IndInv, TypeOK, Crash
    <3>2. phase' \in [Txn -> Phase] /\ due' \in [Txn -> Nat]
      BY <1>1 DEF IndInv, TypeOK, Crash
    <3> QED
      BY <1>1, <3>1, <3>2 DEF IndInv, TypeOK, Crash
  <2>2. SlotAccounting'
    <3>1. {u \in Txn : phase'[u] \in Holding} = {}
      BY <1>1 DEF IndInv, TypeOK, Crash
    <3> QED
      BY <1>1, <3>1, FS_EmptySet DEF SlotAccounting, Crash
  <2>3. StaleVerdictExplained'
    BY <1>1 DEF IndInv, TypeOK, StaleVerdictExplained, Crash
  <2>4. \A u \in Txn : TxnShape(u)'
    BY <1>1 DEF IndInv, TypeOK, TxnShape, RowShape, SuccessShape, AnswerShape,
                DeadlineShape, Crash
  <2> QED
    BY <2>1, <2>2, <2>3, <2>4 DEF IndInv
<1>2. CASE Restart
  <2>1. TypeOK'
    BY <1>2, ConstantsAssumption DEF IndInv, TypeOK, Restart
  <2>2. SlotAccounting'
    BY <1>2, HoldersKept DEF IndInv, TypeOK, Restart
  <2>3. StaleVerdictExplained'
    BY <1>2, ConstantsAssumption
    DEF IndInv, TypeOK, StaleVerdictExplained, TxnShape, RowShape, DeadlineShape,
        Restart
  <2>4. \A u \in Txn : TxnShape(u)'
    BY <1>2, ConstantsAssumption
    DEF IndInv, TypeOK, TxnShape, RowShape, SuccessShape, AnswerShape,
        DeadlineShape, Restart
  <2> QED
    BY <2>1, <2>2, <2>3, <2>4 DEF IndInv
<1>3. CASE Tick
  <2>1. TypeOK'
    BY <1>3, ConstantsAssumption DEF IndInv, TypeOK, Tick
  <2>2. SlotAccounting'
    BY <1>3, HoldersKept DEF IndInv, TypeOK, Tick
  <2>3. StaleVerdictExplained'
    BY <1>3, ConstantsAssumption
    DEF IndInv, TypeOK, StaleVerdictExplained, TxnShape, RowShape, DeadlineShape,
        Tick
  <2>4. \A u \in Txn : TxnShape(u)'
    BY <1>3, ConstantsAssumption
    DEF IndInv, TypeOK, TxnShape, RowShape, SuccessShape, AnswerShape,
        DeadlineShape, Tick
  <2> QED
    BY <2>1, <2>2, <2>3, <2>4 DEF IndInv
<1> QED
  BY <1>1, <1>2, <1>3

LEMMA Stuttering ==
  ASSUME IndInv, UNCHANGED vars
  PROVE  IndInv'
<1>1. TypeOK' /\ StaleVerdictExplained'
  BY DEF IndInv, TypeOK, StaleVerdictExplained
<1>2. SlotAccounting'
  BY HoldersKept DEF IndInv
<1>3. \A u \in Txn : TxnShape(u)'
  BY DEF IndInv, TxnShape, RowShape, SuccessShape, AnswerShape, DeadlineShape
<1> QED
  BY <1>1, <1>2, <1>3 DEF IndInv

\* The inductive invariant holds in every reachable state.
THEOREM Invariance == SafetySpec => []IndInv
<1>1. IndInv /\ [Next]_vars => IndInv'
  BY DispatchStep, WorkerStep, GetEventStep, CleanerStep, ProcessStep, Stuttering
  DEF Next
<1> QED
  BY InitEstablishes, <1>1, PTL DEF SafetySpec

\* Types: in particular the semaphore never exceeds its capacity and is never
\* released when empty.
THEOREM TypeCorrect == SafetySpec => []TypeOK
<1>1. IndInv => TypeOK
  BY DEF IndInv
<1> QED
  BY Invariance, <1>1, PTL

\* asyncWorkerSem neither leaks nor gains a slot.
THEOREM SlotsAccounted == SafetySpec => []SlotAccounting
<1>1. IndInv => SlotAccounting
  BY DEF IndInv
<1> QED
  BY Invariance, <1>1, PTL

\* Reported success is real.
THEOREM SuccessIsReal == SafetySpec => []CompletedMeansApplied
<1>1. IndInv => CompletedMeansApplied
  BY DEF IndInv, TxnShape, RowShape, SuccessShape, CompletedMeansApplied
<1> QED
  BY Invariance, <1>1, PTL

\* The reaper's verdict is explained by the worker's fate or its late start.
THEOREM StaleVerdicts == SafetySpec => []StaleVerdictExplained
<1>1. IndInv => StaleVerdictExplained
  BY DEF IndInv
<1> QED
  BY Invariance, <1>1, PTL

\* Only a poll changes what a client knows, and it answers from the row.
LEMMA AnswerStep ==
  ASSUME IndInv, Next, NEW t \in Txn
  PROVE  seen'[t] = seen[t] \/ CreateEvent(t) \/ GetEvent(t)
<1>1. ASSUME NEW u \in Txn, Dispatch(u) \/ Worker(u) \/ GetEvent(u)
      PROVE  seen'[t] = seen[t] \/ CreateEvent(t) \/ GetEvent(t)
  BY <1>1 DEF IndInv, TypeOK, Dispatch, AcquireSlot, RejectTooMany, CreateEvent,
              CreateEventError, Worker, WorkerCheck, WorkerCheckError, OpCommit,
              OpSucceeds, OpFails, OpReturns, RecordCompleted, RecordFailed,
              RecordError, GetEvent
<1>2. Cleaner \/ Crash \/ Restart \/ Tick => seen' = seen
  BY DEF Cleaner, ListExceeding, Prune, PruneBatch, PruneError, FindStale,
         FindStaleError, Reap, ReapError, ReapDone, Crash, Restart, Tick
<1> QED
  BY <1>1, <1>2 DEF Next

\* A result given to a client is final, for any number of workers, polls,
\* reaper cycles and crashes.
THEOREM ResultsFinal == SafetySpec => AnswersFinal
<1> DEFINE Final == \A t \in Txn :
              /\ seen[t] \in Payload \ {"none"} => seen'[t] \in {seen[t], "404"}
              /\ seen[t] = "404" => seen'[t] = "404"
<1>1. ASSUME IndInv, [Next]_vars
      PROVE  Final
  <2> SUFFICES ASSUME NEW t \in Txn
               PROVE  /\ seen[t] \in Payload \ {"none"} => seen'[t] \in {seen[t], "404"}
                      /\ seen[t] = "404" => seen'[t] = "404"
    OBVIOUS
  <2>1. CASE seen'[t] = seen[t]
    BY <2>1
  <2>2. CASE CreateEvent(t)
    BY <1>1, <2>2 DEF IndInv, TxnShape, RowShape, CreateEvent
  <2>3. CASE GetEvent(t)
    BY <1>1, <2>3 DEF IndInv, TypeOK, TxnShape, RowShape, AnswerShape, GetEvent,
                      EventAnswer
  <2>4. CASE UNCHANGED vars
    BY <2>4
  <2> QED
    BY <1>1, <2>1, <2>2, <2>3, <2>4, AnswerStep
<1>2. IndInv /\ [Next]_vars => [Final]_vars
  BY <1>1
<1> QED
  BY Invariance, <1>2, PTL DEF SafetySpec, AnswersFinal
-----------------------------------------------------------------------------
(* Pruning.  A window of the sorted rows is given by ranks: how many rows   *)
(* are newer.                                                               *)

LEMMA LeastNumber ==
  ASSUME NEW T \in SUBSET Nat, T # {}
  PROVE  \E x \in T : \A y \in T : x <= y
<1>1. PICK x \in T : \A y \in T : ~(<<y, x>> \in OpToRel(<, Nat))
  BY NatLessThanWellFounded, WFMin
<1>2. \A y \in T : ~(y < x)
  BY <1>1 DEF OpToRel
<1> QED
  BY <1>2

\* ORDER BY created_at DESC, txn_id DESC is a strict order.
LEMMA NewerOrders ==
  ASSUME TypeOK
  PROVE  /\ \A t \in Txn : ~Newer(t, t)
         /\ \A t, u, v \in Txn : Newer(t, u) /\ Newer(u, v) => Newer(t, v)
<1>1. Txn \subseteq Nat /\ \A t \in Txn : created[t] \in Nat
  BY ConstantsAssumption DEF TypeOK
<1> QED
  BY <1>1 DEF Newer

Rank(S, t) == Cardinality({u \in S : Newer(u, t)})

\* The rank of a newer row is smaller.
LEMMA RankFalls ==
  ASSUME TypeOK, NEW S \in SUBSET Txn, NEW t \in S, NEW u \in S, Newer(u, t)
  PROVE  Rank(S, u) \in Nat /\ Rank(S, t) \in Nat /\ Rank(S, u) < Rank(S, t)
<1> DEFINE N(v) == {x \in S : Newer(x, v)}
<1>1. IsFiniteSet(N(t)) /\ IsFiniteSet(N(u))
  BY ConstantsAssumption, FS_Subset
<1>2. N(u) \subseteq N(t) /\ N(u) # N(t)
  <2>1. S \subseteq Txn
    OBVIOUS
  <2>2. N(u) \subseteq N(t)
    BY <2>1, NewerOrders
  <2>3. u \in N(t) /\ u \notin N(u)
    BY <2>1, NewerOrders
  <2> QED
    BY <2>2, <2>3
<1>3. /\ Cardinality(N(u)) <= Cardinality(N(t))
      /\ Cardinality(N(u)) # Cardinality(N(t))
  BY <1>1, <1>2, FS_Subset
<1>4. Cardinality(N(u)) \in Nat /\ Cardinality(N(t)) \in Nat
  BY <1>1, FS_CardinalityType
<1> QED
  BY <1>3, <1>4 DEF Rank

\* LIMIT k returns k rows when there are as many: otherwise everything newer
\* than the first of the rows left out would be among fewer than k.
LEMMA LimitFills ==
  ASSUME TypeOK, NEW S \in SUBSET Txn, NEW k \in Nat, k <= Cardinality(S)
  PROVE  Cardinality(Limit(S, k)) >= k
<1>1. SUFFICES ASSUME ~(Cardinality(Limit(S, k)) >= k) PROVE FALSE
  OBVIOUS
<1>2. Limit(S, k) = {t \in S : Rank(S, t) < k}
  BY DEF Limit, Rank
<1>3. IsFiniteSet(S) /\ IsFiniteSet(Limit(S, k))
  BY <1>2, ConstantsAssumption, FS_Subset
<1>4. /\ Cardinality(Limit(S, k)) \in Nat /\ Cardinality(S) \in Nat
      /\ Cardinality(Limit(S, k)) < k
  BY <1>1, <1>3, FS_CardinalityType
<1> DEFINE R == S \ Limit(S, k)
<1>5. R # {}
  BY <1>2, <1>4
<1>6. \A t \in S : IsFiniteSet({u \in S : Newer(u, t)}) /\ Rank(S, t) \in Nat
  BY <1>3, FS_Subset, FS_CardinalityType DEF Rank
<1>7. PICK t \in R : \A u \in R : Rank(S, t) <= Rank(S, u)
  <2> DEFINE D == {Rank(S, u) : u \in R}
  <2>1. D \in SUBSET Nat /\ D # {}
    BY <1>5, <1>6
  <2>2. PICK d \in D : \A e \in D : d <= e
    BY <2>1, LeastNumber
  <2> QED
    BY <2>2
<1>8. {u \in S : Newer(u, t)} \subseteq Limit(S, k)
  <2> SUFFICES ASSUME NEW u \in S, Newer(u, t), u \in R PROVE FALSE
    OBVIOUS
  <2> QED
    BY <1>7, RankFalls
<1>9. Rank(S, t) <= Cardinality(Limit(S, k))
  BY <1>3, <1>8, FS_Subset DEF Rank
<1>10. Rank(S, t) < k
  <2>1. t \in S
    OBVIOUS
  <2>2. Rank(S, t) \in Nat
    BY <1>6, <2>1
  <2> QED
    BY ONLY k \in Nat, <1>4, <1>9, <2>2
<1> QED
  BY <1>2, <1>10

\* A row past OFFSET k is behind k rows that the offset skips.
LEMMA OffsetSkips ==
  ASSUME TypeOK, NEW S \in SUBSET Txn, NEW k \in Nat, NEW t \in Offset(S, k)
  PROVE  Cardinality({u \in S \ Offset(S, k) : Newer(u, t)}) >= k
<1> DEFINE N == {u \in S : Newer(u, t)}
           K == {u \in S \ Offset(S, k) : Newer(u, t)}
<1>1. t \in S /\ t \in Txn /\ N \in SUBSET Txn /\ Cardinality(N) >= k
  BY DEF Offset
<1>2. IsFiniteSet(N) /\ IsFiniteSet(K)
  BY ConstantsAssumption, FS_Subset
<1>3. Cardinality(N) \in Nat /\ k <= Cardinality(N)
  BY <1>1, <1>2, FS_CardinalityType
<1>4. Cardinality(Limit(N, k)) >= k
  BY <1>1, <1>3, LimitFills
<1>5. Limit(N, k) \subseteq K
  <2> SUFFICES ASSUME NEW x \in Limit(N, k) PROVE x \in K
    OBVIOUS
  <2>1. x \in S /\ x \in Txn /\ Newer(x, t) /\ Cardinality({u \in N : Newer(u, x)}) < k
    BY DEF Limit
  <2>2. {u \in N : Newer(u, x)} = {u \in S : Newer(u, x)}
    <3>1. \A u \in S : u \in Txn
      OBVIOUS
    <3> QED
      BY <1>1, <2>1, <3>1, NewerOrders
  <2>3. Cardinality({u \in S : Newer(u, x)}) \in Nat
    BY <2>2, ConstantsAssumption, FS_Subset, FS_CardinalityType
  <2>4. x \notin Offset(S, k)
    BY <2>1, <2>2, <2>3 DEF Offset
  <2> QED
    BY <2>1, <2>4
<1>6. /\ Cardinality(Limit(N, k)) <= Cardinality(K)
      /\ Cardinality(Limit(N, k)) \in Nat /\ Cardinality(K) \in Nat
  BY <1>2, <1>5, FS_Subset, FS_CardinalityType
<1> QED
  BY <1>4, <1>6

\* No other step deletes a row.
LEMMA OnlyPruningDeletes ==
  ASSUME IndInv, [Next]_vars, NEW t \in Txn,
         status[t] # "ABSENT", status'[t] = "ABSENT"
  PROVE  \E w \in Workspace : PruneBatch(w)
<1>1. \A u \in Txn : ~Dispatch(u)
  BY DEF IndInv, TypeOK, TxnShape, RowShape, Dispatch, AcquireSlot, RejectTooMany,
         CreateEvent, CreateEventError
<1>2. \A u \in Txn : ~Worker(u)
  BY DEF IndInv, TypeOK, Worker, WorkerCheck, WorkerCheckError, OpCommit,
         OpSucceeds, OpFails, OpReturns, RecordCompleted, RecordFailed,
         RecordError, UpdateStatusAndPayload
<1>3. \A u \in Txn : ~(GetEvent(u) \/ Reap(u) \/ ReapError(u))
  BY DEF IndInv, TypeOK, GetEvent, Reap, ReapError, UpdateStatusAndPayload
<1>4. ~(Crash \/ Restart \/ Tick \/ UNCHANGED vars)
  BY DEF Crash, Restart, Tick
<1>5. ~(ListExceeding \/ FindStale \/ FindStaleError \/ ReapDone)
  BY DEF ListExceeding, FindStale, FindStaleError, ReapDone
<1>6. \A w \in Workspace : ~PruneError(w)
  BY DEF PruneError
<1> QED
  BY <1>1, <1>2, <1>3, <1>4, <1>5, <1>6 DEF Next, Cleaner, Prune

\* A batch deletes terminal rows with MaxCount newer ones left behind.
LEMMA BatchKeepsNewest ==
  ASSUME IndInv, NEW w \in Workspace, PruneBatch(w), NEW t \in Txn,
         status[t] # "ABSENT", status'[t] = "ABSENT"
  PROVE  /\ status[t] \in Terminal
         /\ Cardinality({u \in Txn : /\ WorkspaceOf[u] = WorkspaceOf[t]
                                     /\ status'[u] \in Terminal
                                     /\ Newer(u, t)}) >= MaxCount
<1> DEFINE S == TerminalOf(w)
           batch == Limit(Offset(S, MaxCount), PruneBatchSize)
           Kept == {u \in S \ Offset(S, MaxCount) : Newer(u, t)}
           Left == {u \in Txn : /\ WorkspaceOf[u] = WorkspaceOf[t]
                                /\ status'[u] \in Terminal
                                /\ Newer(u, t)}
<1>1. status' = [x \in Txn |-> IF x \in batch THEN "ABSENT" ELSE status[x]]
  BY DEF PruneBatch
<1>2. t \in batch /\ batch \subseteq Offset(S, MaxCount)
  BY <1>1 DEF Limit
<1>3. TypeOK /\ S \in SUBSET Txn /\ t \in Offset(S, MaxCount) /\ MaxCount \in Nat
  BY <1>2, ConstantsAssumption DEF IndInv, TerminalOf
<1>4. Cardinality(Kept) >= MaxCount
  BY <1>3, OffsetSkips
<1>5. t \in S
  BY <1>2 DEF Offset
<1>6. Kept \subseteq Left
  BY <1>1, <1>2, <1>5 DEF TerminalOf
<1>7. IsFiniteSet(Left) /\ IsFiniteSet(Kept)
  BY <1>3, ConstantsAssumption, FS_Subset
<1>8. /\ Cardinality(Kept) <= Cardinality(Left)
      /\ Cardinality(Kept) \in Nat /\ Cardinality(Left) \in Nat
  BY <1>6, <1>7, FS_Subset, FS_CardinalityType
<1>9. status[t] \in Terminal
  BY <1>5 DEF TerminalOf
<1> QED
  BY <1>3, <1>4, <1>8, <1>9

\* Pruning deletes finished events only, and never one of the MaxCount newest
\* of its workspace, whatever the batch size and however many rows tie.
THEOREM KeepsNewest == SafetySpec => PruneKeepsNewest
<1> DEFINE Keeps == \A t \in Txn : status[t] # "ABSENT" /\ status'[t] = "ABSENT" =>
              /\ status[t] \in Terminal
              /\ Cardinality({u \in Txn : /\ WorkspaceOf[u] = WorkspaceOf[t]
                                          /\ status'[u] \in Terminal
                                          /\ Newer(u, t)}) >= MaxCount
<1>1. IndInv /\ [Next]_vars => Keeps
  BY OnlyPruningDeletes, BatchKeepsNewest
<1>2. IndInv /\ [Next]_vars => [Keeps]_vars
  BY <1>1
<1> QED
  BY Invariance, <1>2, PTL DEF SafetySpec, PruneKeepsNewest
-----------------------------------------------------------------------------
(* AsyncEvents implements AsyncEventContract. *)

\* The refinement mapping, case by case, before and after a step.
LEMMA OutcomeCases ==
  ASSUME IndInv, NEW t \in Txn
  PROVE  /\ status[t] = "PENDING" => outcomeOf[t] = "pending"
         /\ status[t] \in Terminal => outcomeOf[t] = payload[t]
         /\ status[t] = "ABSENT" /\ phase[t] \in NeverInserted
              => outcomeOf[t] = "unknown"
         /\ status[t] = "ABSENT" /\ phase[t] \notin NeverInserted
              => outcomeOf[t] = "gone"
  BY DEF IndInv, TypeOK, outcomeOf

LEMMA OutcomeCasesNext ==
  ASSUME IndInv', NEW t \in Txn
  PROVE  /\ status'[t] = "PENDING" => outcomeOf'[t] = "pending"
         /\ status'[t] \in Terminal => outcomeOf'[t] = payload'[t]
         /\ status'[t] = "ABSENT" /\ phase'[t] \in NeverInserted
              => outcomeOf'[t] = "unknown"
         /\ status'[t] = "ABSENT" /\ phase'[t] \notin NeverInserted
              => outcomeOf'[t] = "gone"
  BY DEF IndInv, TypeOK, outcomeOf

LEMMA OutcomeFunction ==
  /\ outcomeOf = [t \in Txn |-> outcomeOf[t]]
  /\ outcomeOf' = [t \in Txn |-> outcomeOf'[t]]
  BY DEF outcomeOf

\* Two ways to know the whole mapping after a step.
LEMMA OutcomeUnchanged ==
  ASSUME \A u \in Txn : outcomeOf'[u] = outcomeOf[u]
  PROVE  outcomeOf' = outcomeOf
<1> DEFINE f == outcomeOf  g == outcomeOf'
<1>1. f = [t \in Txn |-> f[t]] /\ g = [t \in Txn |-> g[t]]
  BY OutcomeFunction
<1>2. \A u \in Txn : g[u] = f[u]
  OBVIOUS
<1> HIDE DEF f, g
<1>3. g = f
  BY <1>1, <1>2
<1> QED
  BY <1>3 DEF f, g

LEMMA OutcomeUpdated ==
  ASSUME NEW t \in Txn, NEW v, outcomeOf'[t] = v,
         \A u \in Txn \ {t} : outcomeOf'[u] = outcomeOf[u]
  PROVE  outcomeOf' = [outcomeOf EXCEPT ![t] = v]
<1> DEFINE f == outcomeOf  g == outcomeOf'
<1>1. f = [u \in Txn |-> f[u]] /\ g = [u \in Txn |-> g[u]]
  BY OutcomeFunction
<1>2. g[t] = v /\ \A u \in Txn \ {t} : g[u] = f[u]
  OBVIOUS
<1> HIDE DEF f, g
<1>3. g = [f EXCEPT ![t] = v]
  BY <1>1, <1>2
<1> QED
  BY <1>3 DEF f, g

ContractStep == [Contract!ContractNext]_(Contract!contractVars)

\* Inserting a row is Accept; every other step of the handler is invisible.
LEMMA DispatchRefines ==
  ASSUME IndInv, IndInv', NEW t \in Txn, Dispatch(t)
  PROVE  ContractStep
<1>1. CASE AcquireSlot(t) \/ RejectTooMany(t)
            \/ (CreateEventError(t) /\ UNCHANGED status /\ phase'[t] = "refused")
  <2>1. \A u \in Txn : outcomeOf'[u] = outcomeOf[u]
    BY <1>1, OutcomeCases, OutcomeCasesNext
    DEF IndInv, TypeOK, AcquireSlot, RejectTooMany, CreateEventError
  <2>2. seen' = seen
    BY <1>1 DEF AcquireSlot, RejectTooMany, CreateEventError
  <2> QED
    BY <2>1, <2>2, OutcomeUnchanged DEF ContractStep, Contract!contractVars
<1>2. CASE CreateEvent(t) \/ (CreateEventError(t) /\ phase'[t] = "orphan")
  <2>1. /\ status[t] = "ABSENT" /\ phase[t] \in NeverInserted
        /\ status' = [status EXCEPT ![t] = "PENDING"] /\ payload' = payload
        /\ \A u \in Txn \ {t} : phase'[u] = phase[u]
        /\ seen' = [seen EXCEPT ![t] = "202"] \/ seen' = seen
    BY <1>2 DEF IndInv, TypeOK, TxnShape, RowShape, CreateEvent, CreateEventError
  <2>2. outcomeOf[t] = "unknown" /\ outcomeOf'[t] = "pending"
    BY <2>1, OutcomeCases, OutcomeCasesNext DEF IndInv, TypeOK
  <2>3. \A u \in Txn \ {t} : outcomeOf'[u] = outcomeOf[u]
    BY <2>1, OutcomeCases, OutcomeCasesNext DEF IndInv, TypeOK
  <2>4. Contract!Accept(t)
    BY <2>1, <2>2, <2>3, OutcomeUpdated DEF Contract!Accept
  <2> QED
    BY <2>4 DEF ContractStep, Contract!ContractNext
<1> QED
  BY <1>1, <1>2 DEF Dispatch, CreateEventError, IndInv, TypeOK

\* A guarded UPDATE to a terminal status is Resolve, or changes nothing.
LEMMA UpdateRefines ==
  ASSUME IndInv, IndInv', NEW t \in Txn, NEW st \in Terminal,
         NEW pl \in {"set", "error", "stale"}, UpdateStatusAndPayload(t, st, pl),
         seen' = seen,
         \A u \in Txn : phase'[u] \in NeverInserted <=> phase[u] \in NeverInserted
  PROVE  ContractStep
<1>1. CASE status[t] = "PENDING"
  <2>1. outcomeOf[t] = "pending" /\ outcomeOf'[t] = pl
    BY <1>1, OutcomeCases, OutcomeCasesNext DEF IndInv, TypeOK, UpdateStatusAndPayload
  <2>2. \A u \in Txn \ {t} : outcomeOf'[u] = outcomeOf[u]
    BY <1>1, OutcomeCases, OutcomeCasesNext DEF IndInv, TypeOK, UpdateStatusAndPayload
  <2>3. Contract!Resolve(t)
    BY <2>1, <2>2, OutcomeUpdated DEF Contract!Resolve, Contract!Result
  <2> QED
    BY <2>3 DEF ContractStep, Contract!ContractNext
<1>2. CASE status[t] # "PENDING"
  <2>1. \A u \in Txn : outcomeOf'[u] = outcomeOf[u]
    BY <1>2, OutcomeCases, OutcomeCasesNext DEF IndInv, TypeOK, UpdateStatusAndPayload
  <2> QED
    BY <2>1, OutcomeUnchanged DEF ContractStep, Contract!contractVars
<1> QED
  BY <1>1, <1>2

\* A step that leaves rows and answers alone, and inserts nothing, is invisible.
LEMMA QuietRefines ==
  ASSUME IndInv, IndInv', UNCHANGED <<status, payload, seen>>,
         \A u \in Txn : phase'[u] \in NeverInserted <=> phase[u] \in NeverInserted
  PROVE  ContractStep
<1>1. \A u \in Txn : outcomeOf'[u] = outcomeOf[u]
  BY OutcomeCases, OutcomeCasesNext DEF IndInv, TypeOK
<1> QED
  BY <1>1, OutcomeUnchanged DEF ContractStep, Contract!contractVars

LEMMA WorkerRefines ==
  ASSUME IndInv, IndInv', NEW t \in Txn, Worker(t)
  PROVE  ContractStep
<1>1. CASE RecordCompleted(t)
  BY <1>1, UpdateRefines DEF RecordCompleted, WorkerEnds, IndInv, TypeOK
<1>2. CASE RecordFailed(t)
  BY <1>2, UpdateRefines DEF RecordFailed, WorkerEnds, IndInv, TypeOK
<1>3. CASE WorkerCheck(t) \/ WorkerCheckError(t) \/ OpCommit(t) \/ OpSucceeds(t)
             \/ OpFails(t) \/ RecordError(t)
  BY <1>3, QuietRefines
  DEF WorkerCheck, WorkerCheckError, OpCommit, OpSucceeds, OpFails, OpReturns,
      RecordError, WorkerEnds, IndInv, TypeOK
<1> QED
  BY <1>1, <1>2, <1>3 DEF Worker

LEMMA GetEventRefines ==
  ASSUME IndInv, IndInv', NEW t \in Txn, GetEvent(t)
  PROVE  ContractStep
<1>1. \A u \in Txn : outcomeOf'[u] = outcomeOf[u]
  BY OutcomeCases, OutcomeCasesNext DEF IndInv, TypeOK, GetEvent
<1>2. EventAnswer(t) = Contract!Say(outcomeOf[t])
  BY OutcomeCases
  DEF EventAnswer, Contract!Say, Contract!Result, IndInv, TypeOK, TxnShape, RowShape
<1>3. Contract!Ask(t)
  BY <1>1, <1>2, OutcomeUnchanged DEF Contract!Ask, GetEvent
<1> QED
  BY <1>3 DEF ContractStep, Contract!ContractNext

LEMMA PruneRefines ==
  ASSUME IndInv, IndInv', NEW w \in Workspace, PruneBatch(w)
  PROVE  ContractStep
<1> DEFINE batch == Limit(Offset(TerminalOf(w), MaxCount), PruneBatchSize)
<1>1. /\ \A t \in batch : t \in Txn /\ status[t] \in Terminal
      /\ status' = [t \in Txn |-> IF t \in batch THEN "ABSENT" ELSE status[t]]
      /\ payload' = [t \in Txn |-> IF t \in batch THEN "none" ELSE payload[t]]
      /\ phase' = phase /\ seen' = seen
  BY DEF PruneBatch, Limit, Offset, TerminalOf
<1> HIDE DEF batch
<1>2. \A t \in batch : outcomeOf[t] \in Contract!Result /\ outcomeOf'[t] = "gone"
  BY <1>1, OutcomeCases, OutcomeCasesNext
  DEF Contract!Result, IndInv, TypeOK, TxnShape, RowShape
<1>3. \A t \in Txn \ batch : outcomeOf'[t] = outcomeOf[t]
  BY <1>1, OutcomeCases, OutcomeCasesNext DEF IndInv, TypeOK
<1> DEFINE g == outcomeOf'
<1>4. g = [t \in Txn |-> g[t]]
  BY OutcomeFunction
<1>5. \A t \in Txn : g[t] = IF t \in batch THEN "gone" ELSE outcomeOf[t]
  BY <1>2, <1>3
<1> HIDE DEF g
<1>6. g = [t \in Txn |-> IF t \in batch THEN "gone" ELSE outcomeOf[t]]
  BY <1>4, <1>5
<1>7. batch \in SUBSET {t \in Txn : outcomeOf[t] \in Contract!Result}
  BY <1>1, <1>2
<1>8. Contract!Forget
  BY <1>1, <1>6, <1>7 DEF Contract!Forget, g
<1> QED
  BY <1>8 DEF ContractStep, Contract!ContractNext

LEMMA CleanerRefines ==
  ASSUME IndInv, IndInv', Cleaner
  PROVE  ContractStep
<1>1. CASE ListExceeding \/ FindStale \/ FindStaleError \/ ReapDone
             \/ (\E w \in Workspace : PruneError(w)) \/ (\E t \in Txn : ReapError(t))
  BY <1>1, QuietRefines
  DEF ListExceeding, FindStale, FindStaleError, ReapDone, PruneError, ReapError
<1>2. CASE \E t \in Txn : Reap(t)
  BY <1>2, UpdateRefines DEF Reap
<1> QED
  BY <1>1, <1>2, PruneRefines DEF Cleaner, Prune

LEMMA ProcessRefines ==
  ASSUME IndInv, IndInv', Crash \/ Restart \/ Tick
  PROVE  ContractStep
<1>1. CASE Crash
  BY <1>1, QuietRefines DEF Crash, IndInv, TypeOK
<1>2. CASE Restart \/ Tick
  BY <1>2, QuietRefines DEF Restart, Tick
<1> QED
  BY <1>1, <1>2

\* Whatever the interleaving of workers, polls, pruning, reaping and crashes,
\* clients see the contract: one outcome per accepted request, which stands
\* until the event is forgotten.
THEOREM Refinement == SafetySpec => Contract!ContractSafety
<1>1. Init => Contract!ContractInit
  BY DEF Init, Contract!ContractInit, outcomeOf
<1>2. IndInv /\ IndInv' /\ [Next]_vars => ContractStep
  <2> SUFFICES ASSUME IndInv, IndInv', [Next]_vars
               PROVE  ContractStep
    OBVIOUS
  <2>1. CASE UNCHANGED vars
    BY <2>1, QuietRefines
  <2>2. CASE Next
    BY <2>2, DispatchRefines, WorkerRefines, GetEventRefines, CleanerRefines,
       ProcessRefines DEF Next
  <2> QED
    BY <2>1, <2>2
<1> QED
  BY Invariance, <1>1, <1>2, PTL DEF SafetySpec, Contract!ContractSafety, ContractStep
=============================================================================
