------------------------------ MODULE MCGroups ------------------------------
EXTENDS Groups, TLC

CONSTANTS g1, g2, u1, u2, n1, n2, n3

Ask(op, id, name, members, valid, tags) ==
  [op |-> op, id |-> id, name |-> name, members |-> members, valid |-> valid,
   tags |-> tags]

\* Group g1, called n1, has user u1 and group g2 as members; g2, called n2, is
\* empty.
SomeNames == [g \in GroupId |-> IF g = g1 THEN n1 ELSE n2]
SomeMembers == {[by |-> Nobody, grp |-> g1, mem |-> m] : m \in {u1, g2}}

Patches ==
  {Ask("add", g1, Keep, {u2}, TRUE, {}),
   Ask("overwrite", g1, Keep, {u1, g2}, TRUE, {}),
   Ask("remove", g1, Keep, {u1, g2}, TRUE, {}),
   Ask("remove", g1, Keep, {}, FALSE, {0}),
   Ask("rename", g1, n3, {}, TRUE, {})}
Puts ==
  {Ask("replace", g1, n1, {u1}, TRUE, {0}), Ask("replace", g1, n3, {u2}, FALSE, {1}),
   Ask("replace", g1, n3, {g2}, TRUE, {})}
Others ==
  {Ask("create", g1, n3, {u1}, TRUE, {}), Ask("create", g1, n2, {}, FALSE, {}),
   Ask("rename", g2, n3, {}, TRUE, {0}),
   Ask("delete", g1, Keep, {}, TRUE, {0}), Ask("delete", g2, Keep, {}, TRUE, {}),
   Ask("deleteUser", u1, Keep, {}, TRUE, {})}

AllRequests == Patches \union Puts \union Others

Interchangeable == Permutations(Req)
=============================================================================
