----------------------------- MODULE UserStore -----------------------------
(***************************************************************************)
(* What the Users endpoint promises, as if every request ran alone: each   *)
(* one takes effect at most once, in a single step, on the user as it is   *)
(* at that moment, and its answer says which effect that was.              *)
(***************************************************************************)
EXTENDS UserRequests

CONSTANTS
  Seed,   \* users that exist at the start
  Start   \* their content

VARIABLES present, issued, content, version, input, answer

storeVars == <<present, issued, content, version, input, answer>>

NameUsed(n) == \E u \in present : content[u].name = n
NameUsedByOther(n, u) == \E w \in present \ {u} : content[w].name = n

StoreInit ==
  /\ present = Seed /\ issued = Seed
  /\ content = Start
  /\ version = [u \in UserId |-> 0]
  /\ input \in [Req -> Inputs]
  /\ answer = [r \in Req |-> "none"]

Says(r, code) ==
  /\ answer[r] = "none"
  /\ answer' = [answer EXCEPT ![r] = code]
  /\ UNCHANGED input

\* A user appears under a new id and an unused name.
CreateNow(r) ==
  /\ input[r].op = "create"
  /\ ~NameUsed(input[r].name)
  /\ \E u \in UserId \ issued, d \in Display :
       /\ present' = present \union {u} /\ issued' = issued \union {u}
       /\ content' = [content EXCEPT ![u] = NewUser(input[r], d)]
       /\ version' = [version EXCEPT ![u] = 0]
  /\ \E code \in {"201", "500"} : Says(r, code)

\* The current content, at a version the client agreed to, is changed as asked.
UpdateNow(r) ==
  LET u == input[r].id
  IN /\ input[r].op \in {"replace", "patch"}
     /\ u \in present
     /\ checkETagMatch(input[r].cond, version[u])
     /\ \E d \in Display :
          content' = [content EXCEPT ![u] = Applied(input[r], content[u], d)]
     /\ ~NameUsedByOther(OrOld(input[r].name, content[u].name), u)
     /\ version' = [version EXCEPT ![u] = version[u] + 1]
     /\ UNCHANGED <<present, issued>>
     /\ \E code \in {"200", "500"} : Says(r, code)

\* Deletion is unconditional once the request got this far.
DeleteNow(r) ==
  /\ input[r].op = "delete"
  /\ present' = present \ {input[r].id}
  /\ UNCHANGED <<issued, content, version>>
  /\ \E code \in {"204", "500"} : Says(r, code)

\* Nothing changes.  "Conflict" is true when it is said, "OK" without a change
\* means there was nothing to change, "not modified" that the tag is current.
LeaveAlone(r) ==
  LET q == input[r]
      found == q.id \in present /\ checkETagMatch(q.cond, version[q.id])
  IN /\ UNCHANGED <<present, issued, content, version>>
     /\ \/ \E code \in {"400", "404", "412", "500"} : Says(r, code)
        \/ NameUsed(q.name) /\ Says(r, "409")
        \/ q.op = "get" /\ q.id \in present /\ Says(r, "200")
        \/ q.op = "get" /\ q.cond # NoHeader /\ found /\ Says(r, "304")
        \/ /\ q.op = "patch" /\ found
           /\ \E d \in Display : Applied(q, content[q.id], d) = content[q.id]
           /\ Says(r, "200")

StoreNext ==
  \E r \in Req : CreateNow(r) \/ UpdateNow(r) \/ DeleteNow(r) \/ LeaveAlone(r)

StoreSpec == StoreInit /\ [][StoreNext]_storeVars
=============================================================================
