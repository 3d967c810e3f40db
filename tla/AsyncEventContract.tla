------------------------ MODULE AsyncEventContract ------------------------
(***************************************************************************)
(* What GET /Events/{txnId} promises a client, with no table, worker or    *)
(* cleanup in sight: an accepted request is pending until it gets exactly  *)
(* one outcome, which stands until the server forgets the whole event.     *)
(***************************************************************************)
CONSTANT Txn

VARIABLES
  outcome,  \* what became of each transaction
  answer    \* what the client was last told

Result == {"set", "error", "stale"}
Outcome == {"unknown", "pending", "gone"} \union Result

contractVars == <<outcome, answer>>

ContractInit ==
  /\ outcome = [t \in Txn |-> "unknown"]
  /\ answer = [t \in Txn |-> "none"]

\* The event is recorded, and the client is told so unless its request failed.
Accept(t) ==
  /\ outcome[t] = "unknown"
  /\ outcome' = [outcome EXCEPT ![t] = "pending"]
  /\ \/ answer' = [answer EXCEPT ![t] = "202"]
     \/ UNCHANGED answer

Resolve(t) ==
  /\ outcome[t] = "pending"
  /\ \E r \in Result : outcome' = [outcome EXCEPT ![t] = r]
  /\ UNCHANGED answer

\* Retention deletes any number of finished events at once.
Forget ==
  /\ \E S \in SUBSET {t \in Txn : outcome[t] \in Result} :
       outcome' = [t \in Txn |-> IF t \in S THEN "gone" ELSE outcome[t]]
  /\ UNCHANGED answer

Say(o) == IF o = "pending" THEN "202" ELSE IF o \in Result THEN o ELSE "404"

Ask(t) ==
  /\ answer[t] # "none"
  /\ answer' = [answer EXCEPT ![t] = Say(outcome[t])]
  /\ UNCHANGED outcome

ContractNext == Forget \/ \E t \in Txn : Accept(t) \/ Resolve(t) \/ Ask(t)

ContractSafety == ContractInit /\ [][ContractNext]_contractVars

Spec == ContractSafety /\ \A t \in Txn : WF_contractVars(Resolve(t))
=============================================================================
