------------------------------ MODULE MCUsers ------------------------------
EXTENDS Users, TLC

CONSTANTS u1, n1, n2, n3, a1, a2, d1

Tags(S) == [star |-> FALSE, tags |-> S]
Star == [star |-> TRUE, tags |-> {}]

Ask(op, name, attr, valid, cond) ==
  [op |-> op, id |-> u1, name |-> name, attr |-> attr, valid |-> valid, cond |-> cond]

\* u1 is called n1 and u2 is called n2; n3 is free.  Most requests meet at u1.
SomeContent == [u \in UserId |-> [name |-> IF u = u1 THEN n1 ELSE n2,
                                  attr |-> a1, mgr |-> d1]]

SomeInputs ==
  {Ask("create", n3, a1, TRUE, NoHeader), Ask("create", Keep, a1, TRUE, NoHeader),
   Ask("create", n3, a2, FALSE, NoHeader),
   Ask("replace", n3, a1, TRUE, NoHeader), Ask("replace", Keep, a2, TRUE, Tags({0})),
   Ask("replace", n3, a2, FALSE, Star), Ask("replace", n1, a2, FALSE, NoHeader),
   Ask("patch", Keep, a2, TRUE, NoHeader), Ask("patch", n3, Keep, TRUE, Tags({0, 1})),
   Ask("patch", n2, Keep, TRUE, NoHeader), Ask("patch", Keep, a2, FALSE, NoHeader),
   Ask("delete", Keep, Keep, TRUE, Tags({0})), Ask("delete", Keep, Keep, TRUE, NoHeader),
   Ask("get", Keep, Keep, TRUE, Tags({1})), Ask("get", Keep, Keep, TRUE, Star)}

Interchangeable == Permutations(Req)
=============================================================================
