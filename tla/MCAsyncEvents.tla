--------------------------- MODULE MCAsyncEvents ---------------------------
(* Small instances of AsyncEvents for TLC. *)
EXTENDS AsyncEvents

\* All transactions belong to the same workspace.
OneWorkspace == [t \in Txn |-> CHOOSE w \in Workspace : TRUE]
=============================================================================
