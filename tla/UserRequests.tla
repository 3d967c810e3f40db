--------------------------- MODULE UserRequests ---------------------------
(***************************************************************************)
(* The vocabulary of user requests: what a request asks for, what content  *)
(* it makes of a user, and when its conditional header is satisfied.       *)
(***************************************************************************)
EXTENDS Naturals

CONSTANTS
  Req,      \* requests; each is sent once
  UserId,   \* uuids
  Name,     \* userNames up to case
  Attr,     \* everything else a client writes, the spelling of the name included
  Display,  \* what resolveManagerMetadata may fill in
  Keep,     \* "this request does not mention the attribute"
  Inputs    \* the requests clients may send

Content == [name : Name, attr : Attr, mgr : Display]

\* An If-Match or If-None-Match header: W/"n" tags, perhaps with "*".
Header == [star : BOOLEAN, tags : SUBSET Nat]
NoHeader == [star |-> FALSE, tags |-> {}]

Op == {"create", "replace", "patch", "delete", "get"}

\* valid: ApplyFromScimInput or ApplyPatchOperations accepts the body.
Request == [op : Op, id : UserId, name : Name \union {Keep},
            attr : Attr \union {Keep}, valid : BOOLEAN, cond : Header]

\* A PUT resets what it does not mention, so only its name can be kept.
ASSUME RequestsAssumption ==
  /\ Keep \notin Name /\ Keep \notin Attr
  /\ Inputs \subseteq Request
  /\ \A q \in Inputs : q.op \in {"create", "replace"} => q.attr # Keep

\* No header and "*" match any version.
checkETagMatch(h, v) == h = NoHeader \/ h.star \/ v \in h.tags

\* Faulty variant: an attribute that is not mentioned is written all the same.
AsGiven(x, old) == x

OrOld(x, old) == IF x = Keep THEN old ELSE x

\* What PUT or PATCH makes of content c when the manager's display is d.
Applied(q, c, d) ==
  [name |-> OrOld(q.name, c.name), attr |-> OrOld(q.attr, c.attr), mgr |-> d]

NewUser(q, d) == [name |-> q.name, attr |-> q.attr, mgr |-> d]
=============================================================================
