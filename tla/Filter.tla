------------------------------- MODULE Filter -------------------------------
(***************************************************************************)
(* SCIM filters: the recursive descent parser of scim/filter.go, the SQL   *)
(* condition it builds with numbered parameters, and what PostgreSQL makes *)
(* of it.  The state is a filter that grows token by token; the invariants *)
(* compare what the code makes of it with a grammar and a two-valued       *)
(* meaning that are written down independently of the parser.              *)
(*                                                                         *)
(* A token is a string: a parenthesis, a keyword, an operator, an          *)
(* attribute, a value, or the opening "emails[" and the closing "]" or     *)
(* "].value" of a value path.  Quoted strings and words are not told       *)
(* apart, except that a word is not taken for a keyword after an operator. *)
(***************************************************************************)
EXTENDS Integers, Sequences, FiniteSets, SequencesExt

CONSTANTS
  Vocabularies,     \* sets of tokens: a filter is made of the tokens of one of them
  MaxTokens,        \* the length of the longest filter of a vocabulary
  CrossResource,    \* the filter comes from the root endpoint and is for users
  Row               \* rows of scim_users: a text column, a Boolean one and a JSON one

ASSUME FilterAssumption ==
  /\ MaxTokens \in [Vocabularies -> Nat] /\ CrossResource \in BOOLEAN
  /\ \A row \in Row : /\ row.title \in {"null", "x", "X", "y"} /\ row.active \in BOOLEAN
                      /\ \A e \in row.emails : {e.type, e.value} \subseteq {"", "x", "X", "y"}

VARIABLES tokens

Lower(v) == IF v = "X" THEN "x" ELSE v

\* The collation: any deterministic one tells capitals from small letters, here the
\* order of their codes.
Collation == <<"", "(", ")", "X", "]", "].value", "active", "and", "emails[", "eq", "false",
               "ge", "members", "ne", "not", "or", "pr", "title", "true", "x", "y">>

Rank(v) == CHOOSE i \in DOMAIN Collation : Collation[i] = v
-----------------------------------------------------------------------------
\* The parser.  A result is a condition, the arguments it goes with and the place
\* of the next token; a failure has the place of the token that is to blame.
Fail(at) == [ok |-> FALSE, pos |-> at]
Built(sql, args, pos) == [ok |-> TRUE, sql |-> sql, args |-> args, pos |-> pos]

Peek(ts, pos) == IF pos <= Len(ts) THEN ts[pos] ELSE "end"
IsParen(t) == t \in {"(", ")"}
ComparisonOps == {"eq", "ne", "ge"}

\* Faulty variant: the parameters made before are forgotten.
ParamFirst(idx, args) == idx

\* nextParam: the parameters are numbered in the order in which they are made.
Param(idx, args) == idx + Len(args)

Const(b) == [kind |-> "const", value |-> b]

\* isValidAnyResourceAttr: attributes that only groups have.
OtherResource == {"members"}

\* buildComparisonWithRaw, resolveColumn.
Comparison(attr, op, value, idx, pos) ==
  IF \/ op \notin ComparisonOps
     \/ attr \notin {"title", "active"} /\ ~(attr \in OtherResource /\ CrossResource)
     \/ attr = "active" /\ (op = "ge" \/ value \notin {"true", "false"})
  THEN Fail(pos - 1)
  ELSE IF attr \in OtherResource THEN Built(Const("F"), <<>>, pos)
  ELSE Built([kind |-> "compare", col |-> attr, op |-> op, param |-> Param(idx, <<>>)],
             <<value>>, pos)

\* buildPresentFilter.
Present(attr, pos) ==
  CASE attr \in {"title", "active"} -> Built([kind |-> "notnull", col |-> attr], <<>>, pos)
    [] attr \in OtherResource /\ CrossResource -> Built(Const("F"), <<>>, pos)
    [] OTHER -> Fail(pos - 1)

\* buildElemCondition.
ElemCondition(sub, op, idx) == [sub |-> sub, op |-> op, param |-> idx]

\* buildJSONContainsFilter: the clause in brackets and the comparison after it
\* hold of the same element.
HasElement(conds, args, pos) ==
  Built([kind |-> "exists", conds |-> conds], args, pos)

CloseAt(ts, pos) ==
  LET S == {i \in pos .. Len(ts) : ts[i] \in {"]", "].value"}}
  IN  IF S = {} THEN 0 ELSE CHOOSE i \in S : \A j \in S : i <= j

\* The clause in brackets: the attribute is part of the opening token and not
\* shown; an operator and a value follow it, or pr, or nothing, which is pr, too.
InnerClause(inner) ==
  CASE inner = <<>> -> [ok |-> TRUE, op |-> "pr", args |-> <<>>]
    [] Len(inner) = 1 -> [ok |-> inner[1] = "pr", op |-> "pr", args |-> <<>>]
    [] Len(inner) = 2 -> [ok |-> inner[1] \in ComparisonOps, op |-> inner[1],
                          args |-> <<inner[2]>>]
    [] OTHER -> [ok |-> FALSE, op |-> "", args |-> <<>>]

\* parseValuePathFilter, from the token after the opening one on.
ValuePath(ts, pos, idx) ==
  LET close == CloseAt(ts, pos)
      inner == SubSeq(ts, pos, close - 1)
      bad   == {i \in pos .. close - 1 : IsParen(ts[i]) \/ ts[i] \in {"and", "or", "not"}}
      c     == InnerClause(inner)
      first == ElemCondition("type", c.op, Param(idx, <<>>))
      sub   == IF ts[close] = "]" THEN {} ELSE {"value"}
      op    == Peek(ts, close + 1)
      second(o, n) == {ElemCondition(s, o, n) : s \in sub}
  IN IF close = 0 THEN Fail(Len(ts) + 1)
     ELSE IF bad # {} \/ ~c.ok THEN Fail(close)
     ELSE IF op \in {"end", "and", "or", "not", "(", ")"}
     THEN HasElement({first} \union second("pr", 0), c.args, close + 1)
     ELSE IF op = "pr" THEN HasElement({first} \union second("pr", 0), c.args, close + 2)
     ELSE IF op \notin ComparisonOps THEN Fail(close + 1)
     ELSE IF Peek(ts, close + 2) = "end" THEN Fail(Len(ts) + 1)
     ELSE HasElement({first} \union second(op, Param(idx, c.args)),
                     IF sub = {} THEN c.args ELSE Append(c.args, ts[close + 2]),
                     close + 3)

\* The rest of parseAtom: attribute, operator and value.  Every token is taken for
\* a value, a parenthesis as well.
Regular(ts, pos, idx) ==
  IF IsParen(ts[pos]) THEN Fail(pos)
  ELSE IF Peek(ts, pos + 1) = "end" THEN Fail(Len(ts) + 1)
  ELSE IF ts[pos + 1] = "pr" THEN Present(ts[pos], pos + 2)
  ELSE IF IsParen(ts[pos + 1]) THEN Fail(pos + 1)
  ELSE IF Peek(ts, pos + 2) = "end" THEN Fail(Len(ts) + 1)
  ELSE Comparison(ts[pos], ts[pos + 1], ts[pos + 2], idx, pos + 3)

Joined(kind, left, right) ==
  Built([kind |-> kind, left |-> left.sql, right |-> right.sql],
        left.args \o right.args, right.pos)

\* parseOrExpression and parseAndExpression join what they find from left to right,
\* or fail with the last operand.
JoinAll(kind, operands) ==
  IF ~Last(operands).ok THEN Last(operands)
  ELSE FoldLeft(LAMBDA l, r : Joined(kind, l, r), Head(operands), Tail(operands))

Negated(inner) ==
  IF inner.ok THEN [inner EXCEPT !.sql = [kind |-> "not", of |-> inner.sql]] ELSE inner

\* Faulty variant: the end of the filter closes what is open.
ClosedByEnd(ts, inner) ==
  IF ~inner.ok THEN inner
  ELSE IF Peek(ts, inner.pos) \notin {")", "end"} THEN Fail(inner.pos)
  ELSE [inner EXCEPT !.pos = @ + 1]

\* A grouped expression needs its closing parenthesis.
Closed(ts, inner) ==
  IF ~inner.ok THEN inner
  ELSE IF Peek(ts, inner.pos) # ")" THEN Fail(inner.pos)
  ELSE [inner EXCEPT !.pos = @ + 1]

\* The methods of the parser, one per level, from a token and the number of the next
\* parameter on.  The loops "ors" and "ands" yield the operands.
Parser(ts) ==
  LET parse[level \in {"or", "ors", "and", "ands", "not", "atom"},
            pos \in 1 .. Len(ts) + 2, idx \in 1 .. Len(ts) + 1] ==
        LET operands(word, operand, loop) ==
              LET first == parse[operand, pos, idx]
              IN  IF first.ok /\ Peek(ts, first.pos) = word
                  THEN <<first>> \o parse[loop, first.pos + 1, Param(idx, first.args)]
                  ELSE <<first>>
        IN CASE level = "or" -> JoinAll("or", parse["ors", pos, idx])
             [] level = "ors" -> operands("or", "and", "ors")
             [] level = "and" -> JoinAll("and", parse["ands", pos, idx])
             [] level = "ands" -> operands("and", "not", "ands")
             \* parseNotExpression: not takes one atom, which may be in parentheses.
             [] level = "not" -> IF Peek(ts, pos) = "not" THEN Negated(parse["atom", pos + 1, idx])
                                ELSE parse["atom", pos, idx]
             [] level = "atom" ->
                  CASE Peek(ts, pos) = "end" -> Fail(Len(ts) + 1)
                    [] Peek(ts, pos) = "(" -> Closed(ts, parse["or", pos + 1, idx])
                    [] Peek(ts, pos) = "emails[" -> ValuePath(ts, pos + 1, idx)
                    [] OTHER -> Regular(ts, pos, idx)
  IN  parse["or", 1, 1]

\* parseEntityFilter: nothing may be left over.
Parse(ts) ==
  LET r == Parser(ts)
  IN  IF r.ok /\ r.pos <= Len(ts) THEN Fail(r.pos) ELSE r
-----------------------------------------------------------------------------
\* PostgreSQL: truth values are T, F and N, for null.
Truth(b) == IF b THEN "T" ELSE "F"

And3(a, b) == CASE a = "F" \/ b = "F" -> "F" [] a = "T" /\ b = "T" -> "T" [] OTHER -> "N"
Not3(a) == CASE a = "T" -> "F" [] a = "F" -> "T" [] OTHER -> "N"

\* The conditions of buildComparisonWithRaw: eq and ne ignore case, the order does
\* not, and ne is true of null.
SqlCompare(op, v, arg) ==
  CASE op = "ne" -> Truth(v = "null" \/ Lower(v) # Lower(arg))
    [] op = "eq" -> IF v = "null" THEN "N" ELSE Truth(Lower(v) = Lower(arg))
    [] op = "ge" -> IF v = "null" THEN "N" ELSE Truth(Rank(v) >= Rank(arg))

\* The conditions of buildElemCondition, which ignore case throughout.
ElemHolds(elem, c, args) ==
  LET v == elem[c.sub] IN
  CASE c.op = "pr" -> v # ""
    [] c.op = "eq" -> Lower(v) = Lower(args[c.param])
    [] c.op = "ne" -> Lower(v) # Lower(args[c.param])
    [] c.op = "ge" -> Rank(Lower(v)) >= Rank(Lower(args[c.param]))

ColumnOf(row, col) == IF col = "title" THEN row.title ELSE IF row.active THEN "true" ELSE "false"

RECURSIVE Eval(_, _, _)
Eval(sql, args, row) ==
  CASE sql.kind = "const" -> sql.value
    [] sql.kind = "compare" -> SqlCompare(sql.op, ColumnOf(row, sql.col), args[sql.param])
    [] sql.kind = "notnull" -> Truth(ColumnOf(row, sql.col) # "null")
    [] sql.kind = "exists" ->
         Truth(\E elem \in row.emails : \A c \in sql.conds : ElemHolds(elem, c, args))
    [] sql.kind = "not" -> Not3(Eval(sql.of, args, row))
    [] sql.kind = "and" -> And3(Eval(sql.left, args, row), Eval(sql.right, args, row))
    [] sql.kind = "or" ->
         Not3(And3(Not3(Eval(sql.left, args, row)), Not3(Eval(sql.right, args, row))))

\* The rows that the query returns.
Selected(r) == {row \in Row : Eval(r.sql, r.args, row) = "T"}
-----------------------------------------------------------------------------
Init == tokens = <<>>

\* A filter that is refused because of a token it has is not made longer.
Viable(ts) == LET r == Parse(ts) IN r.ok \/ r.pos > Len(ts)

\* The vocabularies that a longer filter may be of.
Room(ts) == {V \in Vocabularies : Range(ts) \subseteq V /\ Len(ts) < MaxTokens[V]}

Extend ==
  /\ Room(tokens) # {} /\ (tokens = <<>> \/ Viable(tokens))
  /\ \E t \in UNION Room(tokens) : tokens' = Append(tokens, t)

\* Nothing is to be added: every filter is a case of its own.
Done ==
  /\ Room(tokens) = {} \/ (tokens # <<>> /\ ~Viable(tokens))
  /\ UNCHANGED tokens

Next == Extend \/ Done

Spec == Init /\ [][Next]_tokens
-----------------------------------------------------------------------------
\* What filters mean, as the sets of rows that satisfy them: a comparison with an
\* attribute that has no value is false, but for ne.
MeantCompare(op, v, arg) ==
  CASE op = "pr" -> v # "null"
    [] op = "eq" -> Lower(v) = Lower(arg)
    [] op = "ne" -> Lower(v) # Lower(arg)
    [] op = "ge" -> v # "null" /\ Rank(Lower(v)) >= Rank(Lower(arg))

\* An attribute expression is an attribute, an operator and, unless that is pr, a
\* value; active is only compared for equality with a Boolean.
AttributeExpressions(ts) ==
  IF /\ Len(ts) \in {2, 3}
     /\ IF Len(ts) = 2 THEN ts[2] = "pr" ELSE ts[2] \in ComparisonOps
     /\ \/ ts[1] = "title" \/ (CrossResource /\ ts[1] \in OtherResource)
        \/ ts[1] = "active" /\ (Len(ts) = 3 => ts[2] # "ge" /\ ts[3] \in {"true", "false"})
  THEN {IF ts[1] \in OtherResource THEN {}
        ELSE {row \in Row : MeantCompare(ts[2], ColumnOf(row, ts[1]), Last(ts))}}
  ELSE {}

\* A value path: one element satisfies the clause in brackets and what follows.
ClauseOf(ts) == IF ts = <<>> THEN <<"pr">> ELSE ts
IsClause(ts) == ts = <<"pr">> \/ (Len(ts) = 2 /\ ts[1] \in ComparisonOps)

ValuePaths(ts) ==
  IF ts = <<>> \/ ts[1] # "emails[" THEN {}
  ELSE UNION {LET inner == ClauseOf(SubSeq(ts, 2, i - 1))
                  outer == ClauseOf(SubSeq(ts, i + 1, Len(ts)))
                  meant(v, c) == MeantCompare(c[1], IF v = "" THEN "null" ELSE v, Last(c))
              IN  IF /\ ts[i] \in {"]", "].value"} /\ \A j \in 2 .. i - 1 : ts[j] \notin {"]", "].value"}
                     /\ IsClause(inner) /\ IsClause(outer)
                     /\ \A j \in 2 .. i - 1 : ts[j] \notin {"(", ")", "and", "or", "not"}
                  THEN {{row \in Row : \E e \in row.emails :
                           meant(e.type, inner) /\ (ts[i] = "].value" => meant(e.value, outer))}}
                  ELSE {} : i \in 2 .. Len(ts)}

\* The meanings of the tokens from i to j as an operand of not, of and, of or, and
\* as a whole: one for every way to read them.
Meanings(ts) ==
  LET n == Len(ts)
      mean[level \in {"atom", "not", "and", "or"}, i \in 1 .. n + 1, j \in 0 .. n] ==
        LET part == SubSeq(ts, i, j)
            split(word) == {k \in i .. j : ts[k] = word}
        IN IF i > j THEN {}
           ELSE
           CASE level = "atom" ->
                  AttributeExpressions(part) \union ValuePaths(part) \union
                  (IF ts[i] = "(" /\ ts[j] = ")" THEN mean["or", i + 1, j - 1] ELSE {})
             [] level = "not" ->
                  mean["atom", i, j] \union
                  (IF ts[i] = "not" THEN {Row \ m : m \in mean["atom", i + 1, j]} ELSE {})
             [] level = "and" ->
                  mean["not", i, j] \union
                  UNION {{l \intersect r : l \in mean["and", i, k - 1], r \in mean["not", k + 1, j]} :
                           k \in split("and")}
             [] level = "or" ->
                  mean["and", i, j] \union
                  UNION {{l \union r : l \in mean["or", i, k - 1], r \in mean["and", k + 1, j]} :
                           k \in split("or")}
  IN  mean["or", 1, n]

Result == Parse(tokens)

\* The parser accepts the filters of the grammar and no others, whatever is left
\* open or left over.
AcceptsGrammar == Result.ok <=> Meanings(tokens) # {}

HasNot == \E i \in DOMAIN tokens : tokens[i] = "not"

\* The query returns the rows that the filter means: precedence, the numbers of the
\* parameters and the two conditions of a value path are right.  Rows without a
\* title are left out for filters with not.
SelectsMeant ==
  Result.ok => LET rows == {row \in Row : HasNot => row.title # "null"}
               IN  {m \intersect rows : m \in Meanings(tokens)} =
                     {Selected(Result) \intersect rows}
=============================================================================
