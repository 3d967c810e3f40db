------------------------------ MODULE MCPaging ------------------------------
EXTENDS Paging

\* Users and groups alternate in the sort order, with room to insert.
SomeUsers == {1, 3, 5}
SomeGroups == {2, 4}
Seed == {1, 3, 2, 4}

\* SQL sorts like the server, or the other way round, or only the groups so.
Orders ==
  {[x \in 1 .. 5 |-> x], [x \in 1 .. 5 |-> 6 - x],
   [x \in 1 .. 5 |-> IF x \in SomeUsers THEN x ELSE 6 - x]}
=============================================================================
