------------------------------- MODULE MCBulk -------------------------------
EXTENDS Bulk

CONSTANTS a, b, c, g, u

Op(method, res, bulkId, target, refs, form) ==
  [method |-> method, res |-> res, bulkId |-> bulkId, target |-> target,
   refs |-> refs, form |-> form]
PostUser(x, refs) == Op("POST", "user", x, NoId, refs, "fine")
PostGroup(x, refs) == Op("POST", "group", x, NoId, refs, "fine")

\* Before the request there are a group g and a user u.
Kinds == [r \in OldId |-> IF r = g THEN "group" ELSE "user"]

\* Forward and backward references, cycles of two and three, cycles with
\* somebody behind them, references to nothing and to oneself.
Chains ==
  {<<PostGroup(a, {b}), PostUser(b, {})>>, <<PostUser(a, {b}), PostUser(b, {a})>>,
   <<PostGroup(a, {b}), PostGroup(b, {a}), PostUser(c, {c})>>,
   <<PostUser(a, {b}), PostUser(b, {c}), PostUser(c, {a})>>,
   <<PostGroup(c, {a, b}), PostUser(a, {b}), PostUser(b, {a})>>,
   <<PostGroup(a, {b, c}), PostGroup(b, {a}), PostUser(c, {})>>,
   <<PostUser(c, {a}), PostGroup(a, {b}), PostGroup(b, {a, c})>>,
   <<PostGroup(a, {c}), PostGroup(b, {b})>>}

\* Operations on what was created, and on what was there, before, between and
\* after POSTs that form a cycle; broken and absent ones.
Uses ==
  {Op("PATCH", "group", NoId, g, {a}, "fine"), Op("PATCH", "user", NoId, u, {a}, "fine"),
   Op("PUT", "user", NoId, u, {b}, "fine"), Op("PUT", "group", NoId, g, {a, b}, "fine"),
   Op("PATCH", "user", NoId, a, {}, "fine"), Op("DELETE", "user", NoId, a, {}, "fine"),
   Op("DELETE", "user", NoId, b, {}, "fine"), Op("PUT", "user", NoId, u, {}, "broken"),
   Op("DELETE", "group", NoId, g, {}, "absent")}
Pairs ==
  {<<Op("PATCH", "user", NoId, a, {}, "fine"), Op("PATCH", "user", NoId, a, {}, "fine")>>,
   <<Op("PATCH", "user", NoId, a, {}, "fine"), Op("PUT", "user", NoId, u, {}, "broken")>>,
   <<Op("DELETE", "user", NoId, b, {}, "fine"), Op("PUT", "group", NoId, g, {a, b}, "fine")>>,
   <<Op("PUT", "user", NoId, u, {b}, "fine"), Op("PATCH", "user", NoId, u, {a}, "fine")>>,
   <<Op("DELETE", "group", NoId, g, {}, "absent"), Op("DELETE", "user", NoId, a, {}, "fine")>>}
Mixed ==
  {<<x, p, q>> : x \in Uses, p \in {PostUser(a, {b})},
                 q \in {PostUser(b, {a}), PostGroup(b, {a})}} \union
  {<<PostUser(a, {b}), x[1], PostUser(b, {a}), x[2]>> : x \in Pairs}

\* bulkIds that are declared twice.
Doubles ==
  {<<PostUser(a, {b}), PostGroup(a, {b}), PostUser(b, {a})>>,
   <<PostUser(a, {}), PostGroup(a, {b}), PostGroup(b, {c}), PostGroup(c, {b})>>}

\* Uses of three groups that refer to each other, or not, listed before them; and
\* two operations on one path around a reference.
Trios ==
  {<<Op("PATCH", "group", NoId, g, {a}, "fine"), PostGroup(a, ra), PostGroup(b, rb),
     PostGroup(c, {b})>> : ra \in {{}, {b}}, rb \in {{a}, {c}}} \union
  {<<Op("PUT", "group", NoId, a, {c}, "fine"), PostGroup(a, {b}), PostGroup(b, {c}),
     PostGroup(c, {a})>>} \union
  {<<Op("PATCH", "group", NoId, g, {a}, "fine"), x, PostUser(a, {})>> :
     x \in {Op("DELETE", "group", NoId, g, {}, "fine"), Op("PUT", "group", NoId, g, {}, "fine")}}

Some == Chains \union Mixed \union Doubles \union Trios
=============================================================================
