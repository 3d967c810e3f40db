------------------------------ MODULE MCFilter ------------------------------
EXTENDS Filter

\* Rows that differ in their columns, and rows that differ in their addresses.
ColumnRows == [title : {"null", "X", "y"}, active : BOOLEAN, emails : {{}}]
Mails == {[type |-> "x", value |-> ""], [type |-> "x", value |-> "X"],
          [type |-> "y", value |-> "X"], [type |-> "y", value |-> "y"]}
MailRows == {[title |-> "y", active |-> TRUE, emails |-> {e, f}] : e, f \in Mails}
Rows == ColumnRows \union MailRows

\* Filters with every nesting of the operators, of comparisons, and of value paths.
Nested == {"(", ")", "not", "and", "or", "title", "active", "pr"}
Compared == {"not", "and", "or", "(", ")", "title", "active", "members", "pr", "eq", "x", "true"}
Paths == {"emails[", "]", "].value", "not", "and", "pr", "eq", "ne", "ge", "x", "y"}
Tokens == {Nested, Compared, Paths}
Longest == [V \in Tokens |-> CASE V = Nested -> 10 [] V = Compared -> 7 [] V = Paths -> 6]
=============================================================================
