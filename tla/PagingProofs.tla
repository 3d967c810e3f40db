---------------------------- MODULE PagingProofs ----------------------------
(***************************************************************************)
(* Proofs about Paging, for any rows, page sizes, limits and any number of *)
(* concurrent writes.                                                      *)
(***************************************************************************)
EXTENDS Paging, FiniteSetTheorems, SequenceTheorems, TLAPS

-----------------------------------------------------------------------------
(* Positions in a sorted set of rows *)

Rows == {S \in SUBSET Nat : IsFiniteSet(S)}

LEMMA BeforeType ==
  ASSUME NEW S \in Rows, NEW x \in Nat
  PROVE  /\ IsFiniteSet({y \in S : y < x}) /\ IsFiniteSet(S)
         /\ Before(S, x) \in Nat /\ Cardinality(S) \in Nat
         /\ Before(S, x) <= Cardinality(S)
<1>1. IsFiniteSet(S)
  BY DEF Rows
<1>2. IsFiniteSet({y \in S : y < x}) /\ Before(S, x) <= Cardinality(S)
  BY <1>1, FS_Subset DEF Before
<1> QED
  BY <1>1, <1>2, FS_CardinalityType DEF Before

\* Fewer rows, or a lower bound: fewer before it.
LEMMA BeforeMonotone ==
  ASSUME NEW S \in Rows, NEW T \in SUBSET S, NEW x \in Nat, NEW y \in Nat, x <= y
  PROVE  T \in Rows /\ Before(T, x) <= Before(S, y)
<1>1. IsFiniteSet(S) /\ S \in SUBSET Nat
  BY DEF Rows
<1>2. T \in Rows
  BY <1>1, FS_Subset DEF Rows
<1>3. {z \in T : z < x} \subseteq {z \in S : z < y}
  <2>1. \A z \in T : z \in S /\ z \in Nat
    BY <1>1
  <2>2. \A z \in T : z < x => z < y
    BY <2>1
  <2> QED
    BY <2>1, <2>2
<1>4. IsFiniteSet({z \in S : z < y})
  BY BeforeType
<1> QED
  BY <1>2, <1>3, <1>4, FS_Subset DEF Before

\* A row is before the rows after it.
LEMMA BeforeRises ==
  ASSUME NEW S \in Rows, NEW x \in S, NEW y \in Nat, x < y
  PROVE  Before(S, x) < Before(S, y)
<1>1. IsFiniteSet(S) /\ S \in SUBSET Nat /\ x \in Nat
  BY DEF Rows
<1> DEFINE A == {z \in S : z < x}  B == {z \in S : z < y}
<1>2. IsFiniteSet(A) /\ IsFiniteSet(B)
  BY <1>1, BeforeType
<1>3. A \subseteq B /\ A # B
  <2>1. A \subseteq B
    BY <1>1
  <2>2. x \in B /\ x \notin A
    BY <1>1
  <2> QED
    BY <2>1, <2>2
<1>4. Cardinality(A) <= Cardinality(B) /\ Cardinality(A) # Cardinality(B)
  BY <1>2, <1>3, FS_Subset
<1>5. Cardinality(A) \in Nat /\ Cardinality(B) \in Nat
  BY <1>2, FS_CardinalityType
<1> QED
  BY <1>4, <1>5 DEF Before

LEMMA BeforeBound ==
  ASSUME NEW S \in Rows, NEW x \in S
  PROVE  x \in Nat /\ Before(S, x) \in 0 .. Cardinality(S) - 1
<1>1. IsFiniteSet(S) /\ S \in SUBSET Nat /\ x \in Nat
  BY DEF Rows
<1> DEFINE A == {z \in S : z < x}
<1>2. A \subseteq S /\ x \notin A
  BY <1>1
<1>3. Cardinality(A) <= Cardinality(S) /\ Cardinality(A) # Cardinality(S)
  BY <1>1, <1>2, FS_Subset
<1>4. Cardinality(A) \in Nat /\ Cardinality(S) \in Nat
  BY <1>1, <1>2, FS_Subset, FS_CardinalityType
<1>5. Before(S, x) \in 0 .. Cardinality(S) - 1
  BY <1>3, <1>4 DEF Before
<1> QED
  BY <1>1, <1>5

LEMMA BeforeOrders ==
  ASSUME NEW S \in Rows, NEW x \in S, NEW y \in S
  PROVE  (Before(S, x) = Before(S, y) => x = y) /\ (Before(S, x) < Before(S, y) <=> x < y)
<1>1. x \in Nat /\ y \in Nat /\ Before(S, x) \in Nat /\ Before(S, y) \in Nat
  BY BeforeBound
<1>2. x < y => Before(S, x) < Before(S, y)
  BY <1>1, BeforeRises
<1>3. y < x => Before(S, y) < Before(S, x)
  BY <1>1, BeforeRises
<1> QED
  BY <1>1, <1>2, <1>3

\* Every position is taken, by one row.
LEMMA EveryPosition ==
  ASSUME NEW S \in Rows, NEW i \in 1 .. Cardinality(S)
  PROVE  /\ Sorted(S)[i] \in S
         /\ Before(S, Sorted(S)[i]) = i - 1
         /\ \A x \in S : Before(S, x) = i - 1 => x = Sorted(S)[i]
<1> DEFINE n == Cardinality(S)
           f == [x \in S |-> Before(S, x)]
           T == 0 .. n - 1
<1>1. IsFiniteSet(S) /\ n \in Nat
  BY FS_CardinalityType DEF Rows
<1>2. f \in Injection(S, T)
  <2>1. f \in [S -> T]
    BY BeforeBound
  <2>2. \A x, y \in S : f[x] = f[y] => x = y
    BY BeforeOrders
  <2> QED
    BY <2>1, <2>2 DEF Injection, IsInjective
<1>3. IsFiniteSet(T) /\ Cardinality(T) = n
  <2>1. 0 \in Int /\ n - 1 \in Int
    BY <1>1
  <2>2. IsFiniteSet(T) /\ Cardinality(T) = IF 0 > n - 1 THEN 0 ELSE n - 1 - 0 + 1
    BY <2>1, FS_Interval
  <2> QED
    BY <1>1, <2>2
<1>4. f \in Surjection(S, T)
  BY <1>2, <1>3, FS_Injection
<1>5. PICK x \in S : f[x] = i - 1
  <2>1. i - 1 \in T
    BY <1>1
  <2>2. \A k \in T : \E x \in S : f[x] = k
    BY <1>4, Zenon DEF Surjection
  <2> QED
    BY <2>1, <2>2
<1>6. Before(S, x) = i - 1
  BY <1>5
<1>7. Sorted(S)[i] = CHOOSE y \in S : Before(S, y) = i - 1
  BY DEF Sorted
<1>8. Sorted(S)[i] \in S /\ Before(S, Sorted(S)[i]) = i - 1
  BY <1>6, <1>7
<1> QED
  BY <1>8, BeforeOrders

\* Sorted lists each row once, in ascending order.
LEMMA SortedRows ==
  ASSUME NEW S \in Rows
  PROVE  /\ Sorted(S) \in Seq(S) /\ Len(Sorted(S)) = Cardinality(S)
         /\ Cardinality(S) \in Nat
         /\ \A x \in S : /\ Before(S, x) + 1 \in 1 .. Cardinality(S)
                         /\ Sorted(S)[Before(S, x) + 1] = x
<1>1. Cardinality(S) \in Nat
  BY FS_CardinalityType DEF Rows
<1>2. \A i \in 1 .. Cardinality(S) : Sorted(S)[i] \in S
  BY EveryPosition
<1>3. Sorted(S) \in [1 .. Cardinality(S) -> S]
  BY <1>2 DEF Sorted
<1>4. Sorted(S) \in Seq(S) /\ Len(Sorted(S)) = Cardinality(S)
  BY <1>1, <1>3
<1>5. ASSUME NEW x \in S
      PROVE  /\ Before(S, x) + 1 \in 1 .. Cardinality(S)
             /\ Sorted(S)[Before(S, x) + 1] = x
  <2>1. Before(S, x) + 1 \in 1 .. Cardinality(S) /\ Before(S, x) \in Nat
    BY <1>1, BeforeBound
  <2>2. (Before(S, x) + 1) - 1 = Before(S, x)
    BY <2>1
  <2> QED
    BY <2>1, <2>2, EveryPosition
<1> QED
  BY <1>1, <1>4, <1>5
\* What one statement returns: the rows at the positions k, ..., k + n - 1.
LEMMA ListedRows ==
  ASSUME NEW S \in Rows, NEW k \in Nat, NEW n \in Nat
  PROVE  /\ Listed(S, k, n) \in Seq(S)
         /\ Len(Listed(S, k, n)) =
              IF k < Cardinality(S) THEN AtMost(Cardinality(S), k + n) - k ELSE 0
         /\ \A i \in 1 .. Len(Listed(S, k, n)) :
              /\ Listed(S, k, n)[i] = Sorted(S)[k + i]
              /\ Listed(S, k, n)[i] \in S
              /\ Before(S, Listed(S, k, n)[i]) = k + i - 1
<1> DEFINE m == AtMost(Cardinality(S), k + n)
           L == Listed(S, k, n)
<1>1. Cardinality(S) \in Nat /\ m \in Nat /\ m <= Cardinality(S) /\ m <= k + n
  BY SortedRows DEF AtMost
<1>2. \A i \in k + 1 .. m : i \in 1 .. Cardinality(S) /\ Sorted(S)[i] \in S
  BY <1>1, EveryPosition
<1>3. L = SubSeq(Sorted(S), k + 1, m)
  BY DEF Listed
<1>4. k + 1 \in Int /\ m \in Int
  BY <1>1
<1>5. /\ L \in Seq(S)
      /\ Len(L) = IF k + 1 <= m THEN m - (k + 1) + 1 ELSE 0
      /\ \A i \in 1 .. m - (k + 1) + 1 : L[i] = Sorted(S)[k + 1 + i - 1]
  BY <1>2, <1>3, <1>4, SubSeqProperties
<1>6. Len(L) = IF k < Cardinality(S) THEN m - k ELSE 0
  BY <1>1, <1>5 DEF AtMost
<1>7. ASSUME NEW i \in 1 .. Len(L)
      PROVE  L[i] = Sorted(S)[k + i] /\ L[i] \in S /\ Before(S, L[i]) = k + i - 1
  <2>1. i \in 1 .. m - (k + 1) + 1 /\ k + 1 + i - 1 = k + i /\ k + i \in k + 1 .. m
    BY <1>1, <1>5
  <2>2. L[i] = Sorted(S)[k + i]
    BY <1>5, <2>1
  <2>3. k + i \in 1 .. Cardinality(S)
    BY <1>2, <2>1
  <2> QED
    BY <2>2, <2>3, EveryPosition
<1> QED
  BY <1>5, <1>6, <1>7

\* No row comes twice.
LEMMA ListedOnce ==
  ASSUME NEW S \in Rows, NEW k \in Nat, NEW n \in Nat,
         NEW i \in 1 .. Len(Listed(S, k, n)), NEW j \in 1 .. Len(Listed(S, k, n)),
         Listed(S, k, n)[i] = Listed(S, k, n)[j]
  PROVE  i = j
<1>1. k + i - 1 = k + j - 1
  BY ListedRows
<1>2. i \in Int /\ j \in Int
  BY ListedRows
<1> QED
  BY <1>1, <1>2

\* The first n rows.
First(S, n) == {x \in S : Before(S, x) < n}

LEMMA FirstRows ==
  ASSUME NEW S \in Rows, NEW n \in Nat
  PROVE  Range(Listed(S, 0, n)) = First(S, n)
<1> DEFINE L == Listed(S, 0, n)
<1>1. L \in Seq(S) /\ Cardinality(S) \in Nat /\ DOMAIN L = 1 .. Len(L)
  BY ListedRows, SortedRows
<1>2. Len(L) = IF 0 < Cardinality(S) THEN AtMost(Cardinality(S), 0 + n) - 0 ELSE 0
  BY ListedRows
<1>3. \A i \in 1 .. Len(L) :
        L[i] = Sorted(S)[0 + i] /\ L[i] \in S /\ Before(S, L[i]) = 0 + i - 1
  BY ListedRows
<1>4. \A i \in 1 .. Len(L) : L[i] \in First(S, n)
  BY <1>1, <1>2, <1>3 DEF First, AtMost
<1>5. ASSUME NEW x \in First(S, n)
      PROVE  \E i \in 1 .. Len(L) : L[i] = x
  <2>1. /\ x \in S /\ Before(S, x) < n
        /\ Before(S, x) + 1 \in 1 .. Cardinality(S)
        /\ Sorted(S)[Before(S, x) + 1] = x /\ Before(S, x) \in Nat
    BY SortedRows, BeforeBound DEF First
  <2>2. Before(S, x) + 1 \in 1 .. Len(L) /\ 0 + (Before(S, x) + 1) = Before(S, x) + 1
    BY <1>1, <1>2, <2>1 DEF AtMost
  <2> QED
    BY <1>3, <2>1, <2>2
<1> QED
  BY <1>1, <1>4, <1>5 DEF Range

\* Positions among the first n rows are those among all, up to n.
LEMMA BeforeFirst ==
  ASSUME NEW S \in Rows, NEW n \in Nat, NEW x \in Nat
  PROVE  First(S, n) \in Rows /\ Before(First(S, n), x) = AtMost(n, Before(S, x))
<1>1. /\ Before(S, x) \in Nat /\ Cardinality(S) \in Nat /\ Before(S, x) <= Cardinality(S)
      /\ IsFiniteSet(S) /\ S \in SUBSET Nat
  BY BeforeType DEF Rows
<1>2. First(S, n) \subseteq S
  BY DEF First
<1>3. First(S, n) \in Rows
  BY <1>1, <1>2, FS_Subset DEF Rows
<1>4. CASE Before(S, x) <= n
  <2>1. \A y \in S : y < x => Before(S, y) < n
    <3> SUFFICES ASSUME NEW y \in S, y < x PROVE Before(S, y) < n
      OBVIOUS
    <3>1. Before(S, y) < Before(S, x) /\ Before(S, y) \in Nat
      BY BeforeRises, BeforeBound
    <3> QED
      BY <1>1, <1>4, <3>1
  <2>2. {y \in First(S, n) : y < x} = {y \in S : y < x}
    BY <2>1 DEF First
  <2> QED
    BY <1>1, <1>3, <1>4, <2>2 DEF Before, AtMost
<1>5. CASE n < Before(S, x)
  <2>1. n + 1 \in 1 .. Cardinality(S) /\ (n + 1) - 1 = n
    BY <1>1, <1>5
  <2>2. PICK z \in S : Before(S, z) = n
    BY <2>1, EveryPosition
  <2>3. z \in Nat
    BY <1>1
  <2>4. \A y \in S : y < x \/ ~(Before(S, y) < n)
    <3> SUFFICES ASSUME NEW y \in S, ~(y < x) PROVE ~(Before(S, y) < n)
      OBVIOUS
    <3>1. y \in Nat /\ x <= y
      BY <1>1
    <3>2. Before(S, x) <= Before(S, y) /\ Before(S, y) \in Nat
      BY <3>1, BeforeMonotone, BeforeBound
    <3> QED
      BY <1>1, <1>5, <3>2
  <2>5. \A y \in S : Before(S, y) < n <=> y < z
    BY <2>2, BeforeOrders
  <2>6. {y \in First(S, n) : y < x} = {y \in S : y < z}
    BY <2>4, <2>5 DEF First
  <2>7. Before(First(S, n), x) = n
    BY <2>2, <2>6 DEF Before
  <2> QED
    BY <1>1, <1>3, <1>5, <2>7 DEF AtMost
<1> QED
  BY <1>1, <1>4, <1>5

\* Rows of two tables.
LEMMA BeforeUnion ==
  ASSUME NEW S \in Rows, NEW T \in Rows, S \intersect T = {}, NEW x \in Nat
  PROVE  /\ S \union T \in Rows
         /\ Before(S \union T, x) = Before(S, x) + Before(T, x)
         /\ Cardinality(S \union T) = Cardinality(S) + Cardinality(T)
<1> DEFINE A == {y \in S : y < x}  B == {y \in T : y < x}
<1>1. IsFiniteSet(S) /\ IsFiniteSet(T) /\ IsFiniteSet(A) /\ IsFiniteSet(B)
  BY BeforeType
<1>2. {y \in S \union T : y < x} = A \union B
  OBVIOUS
<1>3. A \intersect B = {}
  OBVIOUS
<1>4. Cardinality({}) = 0
  BY FS_EmptySet
<1>5. /\ Cardinality(A \union B) = Cardinality(A) + Cardinality(B) - Cardinality(A \intersect B)
      /\ Cardinality(S \union T) = Cardinality(S) + Cardinality(T) - Cardinality(S \intersect T)
      /\ IsFiniteSet(S \union T)
  BY <1>1, FS_Union
<1>6. /\ Cardinality(A) \in Nat /\ Cardinality(B) \in Nat
      /\ Cardinality(S) \in Nat /\ Cardinality(T) \in Nat
  BY <1>1, FS_CardinalityType
<1>7. S \union T \in Rows
  BY <1>5 DEF Rows
<1>8. Cardinality(A \union B) = Cardinality(A) + Cardinality(B)
  BY <1>3, <1>4, <1>5, <1>6
<1>9. Cardinality(S \union T) = Cardinality(S) + Cardinality(T)
  <2>1. Cardinality(S \intersect T) = 0
    BY <1>4
  <2> QED
    BY <1>5, <1>6, <2>1
<1> QED
  BY <1>2, <1>7, <1>8, <1>9 DEF Before
-----------------------------------------------------------------------------
(* Types, pages and cursors *)

LEMMA ConstantTypes ==
  /\ MaxResults \in Nat /\ MaxResults > 0 /\ MaxInt \in Nat /\ CursorTimeout \in Nat
  /\ MaxWrites \in Nat /\ MaxFaults \in Nat /\ MaxTime \in Nat
  /\ Row \subseteq Nat /\ Counts \subseteq Int
<1>1. MaxWrites \in Nat /\ MaxFaults \in Nat /\ MaxTime \in Nat
  BY PagingAssumption, Zenon
<1> QED
  BY <1>1, PagingAssumption DEF Row

LEMMA NumberTypes ==
  ASSUME TypeOK
  PROVE  /\ offset \in Nat /\ prevSize \in Nat /\ count \in 0 .. MaxResults
         /\ count \in Nat /\ now \in Nat /\ faults \in Nat /\ startIndex \in Int
         /\ totUsers \in Nat /\ totGroups \in Nat /\ total \in Nat /\ asked \in Int
         /\ Len(page) \in Nat /\ Len(fetched) \in Nat /\ Len(seen) \in Nat
<1>1. asked \in Int
  BY ConstantTypes DEF TypeOK
<1>2. page \in Seq(Row) /\ fetched \in Seq(Row) /\ seen \in Seq(Row)
  BY DEF TypeOK
<1>3. Len(page) \in Nat /\ Len(fetched) \in Nat /\ Len(seen) \in Nat
  BY <1>2, LenProperties
<1>4. /\ offset \in Nat /\ prevSize \in Nat /\ count \in 0 .. MaxResults
      /\ now \in 0 .. MaxTime /\ faults \in 0 .. MaxFaults /\ startIndex \in Int
      /\ totUsers \in Nat /\ totGroups \in Nat /\ total \in Nat
  BY DEF TypeOK
<1>5. count \in Nat /\ now \in Nat /\ faults \in Nat
  BY ONLY <1>4, ConstantTypes
<1> QED
  BY <1>1, <1>3, <1>4, <1>5

USE DEF walkVars, clientVars, pageVars, readVars, dbVars, vars

LEMMA TablesAreRows ==
  ASSUME TypeOK, FiniteTables
  PROVE  /\ rows \in Rows /\ Users \in Rows /\ Groups \in Rows
         /\ rows = Users \union Groups /\ Users \intersect Groups = {}
         /\ Users \subseteq UserRow /\ Groups \subseteq GroupRow
         /\ Cardinality(Users) \in Nat /\ Cardinality(Groups) \in Nat
<1>1. rows \subseteq Nat /\ IsFiniteSet(rows)
  BY PagingAssumption DEF TypeOK, FiniteTables, Row
<1>2. Users \subseteq rows /\ Groups \subseteq rows
  BY DEF Users, Groups
<1>3. IsFiniteSet(Users) /\ IsFiniteSet(Groups)
  BY <1>1, <1>2, FS_Subset
<1>4. Users \in Rows /\ Groups \in Rows /\ rows \in Rows
  BY <1>1, <1>2, <1>3 DEF Rows
<1>5. rows = Users \union Groups /\ Users \intersect Groups = {}
  BY PagingAssumption DEF TypeOK, Users, Groups, Row
<1> QED
  BY <1>3, <1>4, <1>5, FS_CardinalityType DEF Users, Groups

LEMMA ListedType ==
  ASSUME NEW S \in Rows, S \subseteq Row, NEW k \in Nat, NEW n \in Nat
  PROVE  /\ Listed(S, k, n) \in Seq(Row) /\ Len(Listed(S, k, n)) \in Nat
         /\ Len(Listed(S, k, n)) <= n
<1>1. Listed(S, k, n) \in Seq(S)
  BY ListedRows
<1>2. Listed(S, k, n) \in Seq(Row) /\ Len(Listed(S, k, n)) \in Nat
  BY <1>1
<1>3. Cardinality(S) \in Nat
  BY SortedRows
<1>4. Len(Listed(S, k, n)) =
        IF k < Cardinality(S) THEN AtMost(Cardinality(S), k + n) - k ELSE 0
  BY ListedRows
<1>5. Len(Listed(S, k, n)) <= n
  BY <1>3, <1>4 DEF AtMost
<1> QED
  BY <1>2, <1>5

\* Parse reads what the client sent.
LEMMA ParseEffect ==
  ASSUME TypeOK, Parse
  PROVE  /\ pc = "ask" /\ pc' \in {"count", "refused"}
         /\ count' \in 0 .. MaxResults
         /\ offset' \in Nat /\ prevSize' \in Nat
         /\ pc' = "count" => /\ offset' = NextStart
                             /\ isCursor => Decodes(token)
         /\ prevSize' = IF pc' = "count" /\ token # NoCursor THEN token.size ELSE 0
         /\ UNCHANGED <<walkVars, clientVars, readVars, dbVars, faults, now>>
<1>1. PICK n \in ToInt(asked) :
        LET ok == isCursor => Decodes(token) /\ n <= MaxResults IN
        /\ pc' = IF ok THEN "count" ELSE "refused"
        /\ count' = IF ok THEN Clamped(n) ELSE count
  BY DEF Parse
<1>2. n \in Int
  BY NumberTypes, ConstantTypes DEF ToInt
<1>3. Clamped(n) \in 0 .. MaxResults
  BY <1>2, PagingAssumption DEF Clamped, AtLeast, AtMost
<1>4. /\ pc' \in {"count", "refused"} /\ count' \in 0 .. MaxResults
      /\ pc' = "count" => (isCursor => Decodes(token))
  BY <1>1, <1>3 DEF TypeOK
<1>5. token # NoCursor => token.offset \in Nat /\ token.size \in Nat
  BY DEF TypeOK, Cursor
<1>6. startIndex \in Int /\ offset \in Nat
  BY DEF TypeOK
<1>7. CASE pc' = "refused"
  <2>1. offset' = offset
    BY <1>7 DEF Parse
  <2> QED
    BY <1>4, <1>5, <1>6, <1>7, <2>1 DEF Parse
<1>8. CASE pc' = "count" /\ isCursor
  <2>1. offset' = IF token = NoCursor THEN 0 ELSE token.offset
    BY <1>8 DEF Parse
  <2> QED
    BY <1>4, <1>5, <1>6, <1>8, <2>1 DEF Parse, NextStart
<1>9. CASE pc' = "count" /\ ~isCursor
  <2>1. offset' = AtLeast(0, AtLeast(1, startIndex) - 1)
    BY <1>9 DEF Parse
  <2>2. offset' = NextStart /\ offset' \in Nat
    BY <1>6, <1>9, <2>1 DEF NextStart, AtLeast
  <2> QED
    BY <1>4, <1>5, <1>6, <1>9, <2>2 DEF Parse
<1> QED
  BY <1>4, <1>7, <1>8, <1>9

\* What an answer leaves with the client.
LEMMA AnswerTypes ==
  ASSUME TypeOK, NEW resources \in Seq(Row), NEW tot \in Nat, Answer(resources, tot)
  PROVE  /\ page' \in Seq(Row) /\ seen' \in Seq(Row) /\ fetched' \in Seq(Row)
         /\ trail' \in Seq(Nat) /\ prevOffset' \in Nat \union {-1} /\ total' \in Nat
         /\ token' \in Cursor \union {NoCursor} /\ startIndex' \in Int /\ pc' = "got"
<1> DEFINE n == Len(resources)
<1>1. n \in Nat /\ offset \in Nat /\ prevSize \in Nat /\ count \in Nat /\ now \in Nat
      /\ startIndex \in Int
  BY NumberTypes
<1>2. page' \in Seq(Row) /\ seen' \in Seq(Row) /\ fetched' \in Seq(Row) /\ total' \in Nat
      /\ pc' = "got"
  <2>1. seen \in Seq(Row)
    BY DEF TypeOK
  <2>2. seen \o resources \in Seq(Row)
    BY <2>1, ConcatProperties
  <2> QED
    BY <2>2 DEF Answer
<1>3. trail' \in Seq(Nat)
  <2>1. CASE trail = <<>>
    BY <1>1, <2>1 DEF Answer
  <2>2. CASE trail # <<>>
    <3>1. Last(trail) \in Nat
      <4>1. trail \in Seq(Nat)
        BY DEF TypeOK
      <4>2. Len(trail) \in 1 .. Len(trail)
        BY ONLY <2>2, <4>1, EmptySeq
      <4>3. trail[Len(trail)] \in Nat
        BY ONLY <4>1, <4>2, ElementOfSeq
      <4> QED
        BY <4>3 DEF Last
    <3> QED
      BY <1>1, <2>2, <3>1 DEF Answer
  <2> QED
    BY <2>1, <2>2
<1>4. Backward(n) \in Nat
  BY <1>1 DEF Backward, AtLeast
<1>5. prevOffset' \in Nat \union {-1}
  BY <1>4 DEF Answer
<1>6. startIndex' \in Int
  BY <1>1 DEF Answer, AtLeast
<1>7. token' \in Cursor \union {NoCursor}
  <2>1. now + CursorTimeout \in Nat /\ NextOffset(n) \in Nat
    BY <1>1, PagingAssumption DEF NextOffset
  <2> QED
    BY <1>1, <2>1 DEF Answer, Cursor
<1> QED
  BY <1>2, <1>3, <1>5, <1>6, <1>7
LEMMA TrailAfter ==
  ASSUME TypeOK, NEW s, s = (IF trail = <<>> THEN <<offset>> ELSE <<Last(trail), offset>>)
  PROVE  /\ s # <<>> /\ Len(s) <= 2 /\ Last(s) = offset
         /\ Len(s) = 2 => trail # <<>> /\ s[1] = Last(trail)
<1>1. CASE trail = <<>>
  <2>1. s = <<offset>>
    BY <1>1
  <2>2. Len(s) = 1 /\ s # <<>> /\ s[1] = offset
    BY <2>1
  <2> QED
    BY <2>2 DEF Last
<1>2. CASE trail # <<>>
  <2>1. s = <<Last(trail), offset>>
    BY <1>2
  <2>2. Len(s) = 2 /\ s # <<>> /\ s[1] = Last(trail) /\ s[2] = offset
    BY <2>1
  <2> QED
    BY <1>2, <2>2 DEF Last
<1> QED
  BY <1>1, <1>2

\* The page that a client gets, and the cursors with it.
LEMMA AnswerStep ==
  ASSUME WalkInv, pc \in InPage, NEW resources \in Seq(Row), Len(resources) <= count,
         NEW tot \in Nat, Answer(resources, tot),
         UNCHANGED <<walkVars, pageVars, dbVars, now>>,
         totUsers' \in Nat, totGroups' \in Nat, faults' \in 0 .. MaxFaults
  PROVE  WalkInv'
<1> DEFINE n == Len(resources)
<1>0. TypeOK /\ WalkShape
  BY DEF WalkInv
<1>1. TypeOK' /\ FiniteTables'
  <2>1. /\ page' \in Seq(Row) /\ seen' \in Seq(Row) /\ fetched' \in Seq(Row)
        /\ trail' \in Seq(Nat) /\ prevOffset' \in Nat \union {-1} /\ total' \in Nat
        /\ token' \in Cursor \union {NoCursor} /\ startIndex' \in Int /\ pc' = "got"
    BY <1>0, AnswerTypes
  <2> QED
    BY <1>0, <2>1 DEF WalkInv, TypeOK, FiniteTables
<1>2. /\ n \in Nat /\ offset \in Nat /\ prevSize \in Nat /\ count \in Nat
      /\ startIndex \in Int
  BY <1>0, NumberTypes, LenProperties
<1>3. /\ page' = resources /\ total' = tot /\ pc' = "got" /\ fetched' = <<>>
      /\ trail' = (IF trail = <<>> THEN <<offset>> ELSE <<Last(trail), offset>>)
      /\ prevOffset' = IF isCursor /\ offset > 0 THEN Backward(n) ELSE -1
      /\ startIndex' = IF isCursor THEN startIndex ELSE AtLeast(1, startIndex) + n
      /\ UNCHANGED <<isCursor, endpoint, offset, count, prevSize>>
  BY DEF Answer
<1>4. PageShape' /\ PageBounded'
  BY <1>3 DEF PageShape, PageBounded
<1>5. /\ trail' # <<>> /\ Len(trail') <= 2 /\ Last(trail') = offset
      /\ Len(trail') = 2 => trail # <<>> /\ trail'[1] = Last(trail)
  BY <1>0, <1>3, TrailAfter
<1>6. /\ isCursor /\ token' # NoCursor => token'.size = n /\ token'.offset = offset + n
                                          /\ n > 0
      /\ isCursor /\ token' = NoCursor => ~HasNext(n, tot)
  <2>1. CASE isCursor /\ HasNext(n, tot)
    <3>1. token' = [own |-> TRUE, offset |-> NextOffset(n), size |-> n,
                    exp |-> now + CursorTimeout]
      BY <2>1 DEF Answer
    <3>2. now + CursorTimeout \in Nat /\ NextOffset(n) \in Nat
      BY <1>0, <1>2, NumberTypes, ConstantTypes DEF NextOffset
    <3>3. token' \in [own : BOOLEAN, offset : Nat, size : Nat, exp : Nat]
      BY <1>2, <3>1, <3>2
    <3> QED
      BY <2>1, <3>1, <3>3, PagingAssumption DEF HasNext, NextOffset
  <2>2. CASE ~(isCursor /\ HasNext(n, tot))
    BY <2>2 DEF Answer
  <2> QED
    BY <2>1, <2>2
<1>7. NextStart' = offset + n \/ (isCursor /\ token' = NoCursor)
  <2>1. CASE isCursor
    BY <1>3, <1>6, <2>1 DEF NextStart
  <2>2. CASE ~isCursor
    <3>1. offset = AtLeast(1, startIndex) - 1
      BY <1>0, <2>2 DEF WalkShape, NextStart
    <3>2. startIndex' = offset + 1 + n /\ NextStart' = AtLeast(1, startIndex') - 1
      BY <1>2, <1>3, <2>2, <3>1 DEF NextStart, AtLeast
    <3> QED
      BY <1>2, <3>2 DEF AtLeast
  <2> QED
    BY <2>1, <2>2
<1>8. WalkShape'
  <2>1. pc' \notin InPage \union {"ask"}
    BY <1>3 DEF InPage
  <2>2. HasNext(Len(page), total)' <=> HasNext(n, tot)
    BY <1>3 DEF HasNext
  <2>3. isCursor /\ token' # NoCursor =>
          token'.size > 0 /\ token'.offset = Last(trail') + token'.size
    BY <1>5, <1>6
  <2>4. (offset + Len(page))' = offset + n
    BY <1>3
  <2> QED
    BY <1>3, <1>5, <1>6, <1>7, <2>1, <2>2, <2>3, <2>4 DEF WalkShape
<1>9. PreviousIsPageBefore'
  <2> SUFFICES ASSUME isCursor, Len(trail') = 2
               PROVE  prevOffset' = trail'[1]
    BY <1>3 DEF PreviousIsPageBefore
  <2>1. trail # <<>> /\ trail'[1] = Last(trail)
    BY <1>5
  <2>2. token # NoCursor
    BY <1>0, <2>1 DEF WalkShape
  <2>3. /\ offset = token.offset /\ prevSize = token.size
        /\ token.size > 0 /\ token.offset = Last(trail) + token.size
    BY <1>0, <2>1, <2>2 DEF WalkShape, NextStart
  <2>4. Last(trail) \in Nat
    <3>1. trail \in Seq(Nat)
      BY <1>0 DEF TypeOK
    <3>2. Len(trail) \in 1 .. Len(trail)
      BY ONLY <2>1, <3>1, EmptySeq
    <3>3. trail[Len(trail)] \in Nat
      BY ONLY <3>1, <3>2, ElementOfSeq
    <3> QED
      BY <3>3 DEF Last
  <2>5. prevSize > 0 /\ offset > 0 /\ offset - prevSize = Last(trail)
    BY <1>2, <2>3, <2>4
  <2>6. Backward(n) = Last(trail)
    BY <1>2, <2>4, <2>5 DEF Backward, AtLeast
  <2> QED
    BY <1>3, <2>1, <2>5, <2>6
<1> QED
  BY <1>1, <1>4, <1>8, <1>9 DEF WalkInv
\* A page that is not complete yet.
LEMMA ReadOn ==
  ASSUME WalkInv, pc \in InPage, pc' \in InPage, PageShape',
         fetched' \in Seq(Row), totUsers' \in Nat, totGroups' \in Nat,
         faults' \in 0 .. MaxFaults,
         UNCHANGED <<walkVars, clientVars, pageVars, dbVars, now>>
  PROVE  WalkInv'
<1>1. TypeOK' /\ FiniteTables'
  BY DEF WalkInv, TypeOK, FiniteTables, InPage
<1>2. pc' # "got" /\ NextStart' = NextStart
  BY DEF InPage, NextStart
<1>3. PageBounded' /\ PreviousIsPageBefore'
  BY <1>2 DEF PageBounded, PreviousIsPageBefore
<1>4. WalkShape'
  BY <1>2 DEF WalkInv, WalkShape
<1> QED
  BY <1>1, <1>3, <1>4 DEF WalkInv

LEMMA FaultRoom ==
  ASSUME TypeOK, faults < MaxFaults
  PROVE  faults + 1 \in 0 .. MaxFaults
<1>1. faults \in Nat /\ MaxFaults \in Nat
  BY NumberTypes, ConstantTypes
<1> QED
  BY <1>1

\* A list that may fail to be read.
LEMMA ReadOrFault ==
  ASSUME TypeOK, NEW part \in Seq(Row), NEW got,
         got \in {part} \union (IF faults < MaxFaults THEN {<<>>} ELSE {}),
         faults' = IF got = part THEN faults ELSE faults + 1
  PROVE  /\ got \in {part, <<>>} /\ got \in Seq(Row)
         /\ faults' \in 0 .. MaxFaults
         /\ faults' = 0 => faults = 0 /\ got = part
<1>1. CASE got = part
  BY <1>1 DEF TypeOK
<1>2. CASE got # part
  <2>1. faults < MaxFaults /\ got = <<>> /\ faults' = faults + 1
    BY <1>2
  <2>2. <<>> \in Seq(Row)
    OBVIOUS
  <2>3. faults + 1 # 0
    BY NumberTypes
  <2> QED
    BY <2>1, <2>2, <2>3, FaultRoom
<1> QED
  BY <1>1, <1>2

LEMMA CountUsersStep ==
  ASSUME WalkInv, CountUsers
  PROVE  WalkInv'
<1>0. TypeOK /\ FiniteTables /\ PageShape
  BY DEF WalkInv
<1>1. /\ pc = "count" /\ fetched = <<>> /\ faults' \in 0 .. MaxFaults
      /\ UNCHANGED <<walkVars, pageVars, dbVars, now>>
  BY <1>0 DEF CountUsers, Reading, PageShape, TypeOK
<1>2. Cardinality(Users) \in Nat /\ totUsers' \in Nat /\ totGroups' \in Nat
  BY <1>0, TablesAreRows DEF CountUsers
<1>3. CASE endpoint = "users" /\ count = 0
  <2>1. Answer(<<>>, Cardinality(Users))
    BY <1>3 DEF CountUsers
  <2>2. <<>> \in Seq(Row) /\ Len(<<>>) <= count
    BY <1>3
  <2> QED
    BY <1>1, <1>2, <2>1, <2>2, AnswerStep DEF InPage
<1>4. CASE ~(endpoint = "users" /\ count = 0)
  <2>1. /\ pc' = IF endpoint = "users" THEN "list" ELSE "count groups"
        /\ UNCHANGED <<clientVars, fetched>>
    BY <1>4 DEF CountUsers
  <2>2. PageShape' /\ fetched' \in Seq(Row)
    BY <1>0, <1>1, <2>1 DEF PageShape, TypeOK
  <2> QED
    BY <1>1, <1>2, <2>1, <2>2, ReadOn DEF InPage
<1> QED
  BY <1>3, <1>4

LEMMA CountGroupsStep ==
  ASSUME WalkInv, CountGroups
  PROVE  WalkInv'
<1>0. TypeOK /\ FiniteTables /\ PageShape
  BY DEF WalkInv
<1>1. /\ pc = "count groups" /\ fetched = <<>> /\ faults' \in 0 .. MaxFaults
      /\ endpoint # "users"
      /\ UNCHANGED <<walkVars, pageVars, dbVars, now>>
  BY <1>0 DEF CountGroups, Reading, PageShape, TypeOK
<1>2. /\ Cardinality(Groups) \in Nat /\ totUsers \in Nat /\ totUsers' = totUsers
      /\ totGroups' \in Nat /\ totUsers + Cardinality(Groups) \in Nat
  <2>1. Cardinality(Groups) \in Nat /\ totUsers \in Nat
    BY <1>0, TablesAreRows, NumberTypes
  <2>2. totGroups' = Cardinality(Groups) /\ totUsers' = totUsers
    BY DEF CountGroups
  <2> QED
    BY <2>1, <2>2
<1>3. CASE count = 0 /\ Answer(<<>>, totUsers + Cardinality(Groups))
  <2>1. <<>> \in Seq(Row) /\ Len(<<>>) <= count
    BY <1>3
  <2> QED
    BY <1>1, <1>2, <1>3, <2>1, AnswerStep DEF InPage
<1>4. CASE /\ pc' = IF endpoint = "root" /\ offset >= totUsers THEN "list groups" ELSE "list"
           /\ UNCHANGED <<clientVars, fetched>>
  <2>1. offset \in Nat /\ count \in Nat
    BY <1>0, NumberTypes
  <2>2. PageShape' /\ fetched' \in Seq(Row)
    <3>1. Len(fetched') = 0 /\ fetched' = <<>> /\ fetched' \in Seq(Row)
      <4>1. fetched' = <<>>
        BY <1>1, <1>4
      <4> QED
        BY ONLY <4>1
    <3>2. /\ endpoint' = endpoint /\ offset' = offset /\ count' = count
          /\ totUsers' = totUsers
          /\ pc' = IF endpoint = "root" /\ offset >= totUsers THEN "list groups" ELSE "list"
      BY <1>1, <1>2, <1>4
    <3>3. pc' = "list" /\ endpoint = "root" => offset < totUsers
      BY <1>2, <2>1, <3>2
    <3>4. pc' \in {"list", "list groups"}
      BY <3>2
    <3>5. Len(fetched') <= count'
      <4>1. Len(fetched') = 0
        BY <3>1
      <4>2. count' = count
        BY <3>2
      <4> QED
        BY ONLY <2>1, <4>1, <4>2
    <3> QED
      BY ONLY <1>1, <3>1, <3>2, <3>3, <3>4, <3>5 DEF PageShape
  <2> QED
    BY <1>1, <1>2, <1>4, <2>2, ReadOn DEF InPage
<1> QED
  BY <1>3, <1>4 DEF CountGroups

LEMMA StatementFailsStep ==
  ASSUME WalkInv, StatementFails
  PROVE  WalkInv'
<1>0. TypeOK /\ FiniteTables /\ PageShape /\ WalkShape
  BY DEF WalkInv
<1>1. /\ pc \in InPage /\ pc' = "ask" /\ fetched' = <<>> /\ faults' \in 0 .. MaxFaults
      /\ UNCHANGED <<walkVars, pageVars, dbVars, now, clientVars, totUsers, totGroups>>
  BY <1>0, FaultRoom DEF StatementFails, Reading, InPage
<1>2. TypeOK' /\ FiniteTables'
  <2>1. fetched' \in Seq(Row)
    BY <1>1
  <2> QED
    BY <1>0, <1>1, <2>1 DEF TypeOK, FiniteTables
<1>3. PageShape' /\ PageBounded' /\ PreviousIsPageBefore'
  BY <1>1 DEF PageShape, PageBounded, PreviousIsPageBefore
<1>4. WalkShape'
  BY <1>0, <1>1 DEF WalkShape, InPage
<1> QED
  BY <1>2, <1>3, <1>4 DEF WalkInv

LEMMA ListUsersStep ==
  ASSUME WalkInv, ListUsers
  PROVE  WalkInv'
<1>0. TypeOK /\ FiniteTables
  BY DEF WalkInv
<1>1. /\ pc \in InPage /\ Answer(Listed(Users, offset, count), totUsers)
      /\ UNCHANGED <<walkVars, pageVars, dbVars, now, totUsers, totGroups, faults>>
  BY DEF ListUsers, Reading, InPage
<1>2. /\ offset \in Nat /\ count \in Nat /\ totUsers \in Nat /\ totGroups \in Nat
      /\ faults \in 0 .. MaxFaults
  BY <1>0, NumberTypes DEF TypeOK
<1>3. Users \in Rows /\ Users \subseteq Row
  BY <1>0, TablesAreRows DEF Row
<1>4. Listed(Users, offset, count) \in Seq(Row) /\ Len(Listed(Users, offset, count)) <= count
  BY <1>2, <1>3, ListedType
<1> QED
  BY <1>1, <1>2, <1>4, AnswerStep

\* What the two statements of RootSearch read, and the page they make.
LEMMA RootUsersEffect ==
  ASSUME WalkInv, ListRootUsers
  PROVE  \E got \in Seq(Row) :
           LET n == AtMost(count, totUsers - offset)
               part == Listed(Users, offset, n)
           IN
           /\ pc = "list" /\ endpoint = "root" /\ offset < totUsers
           /\ n \in Nat /\ n <= count /\ n <= totUsers - offset
           /\ Len(part) <= n /\ Len(part) \in Nat
           /\ got \in {part, <<>>} /\ Len(got) <= n
           /\ faults' \in 0 .. MaxFaults /\ (faults' = 0 => faults = 0 /\ got = part)
           /\ \/ /\ Len(got) < count /\ fetched' = got /\ pc' = "list groups"
                 /\ UNCHANGED clientVars
              \/ Len(got) = count /\ Answer(got, totUsers + totGroups)
           /\ UNCHANGED <<walkVars, pageVars, dbVars, now, totUsers, totGroups>>
<1> DEFINE n == AtMost(count, totUsers - offset)
           part == Listed(Users, offset, n)
<1>0. TypeOK /\ FiniteTables /\ PageShape
  BY DEF WalkInv
<1>1. /\ offset \in Nat /\ count \in Nat /\ totUsers \in Nat
  BY <1>0, NumberTypes
<1>2. pc = "list" /\ endpoint = "root" /\ offset < totUsers
  BY <1>0 DEF ListRootUsers, Reading, PageShape
<1>3. n \in Nat /\ n <= count /\ n <= totUsers - offset
  BY <1>1, <1>2 DEF AtMost
<1>4. Users \in Rows /\ Users \subseteq Row
  BY <1>0, TablesAreRows DEF Row
<1>5. part \in Seq(Row) /\ Len(part) \in Nat /\ Len(part) <= n
  BY <1>1, <1>3, <1>4, ListedType
<1>6. PICK got \in {part} \union (IF faults < MaxFaults THEN {<<>>} ELSE {}) :
        /\ faults' = IF got = part THEN faults ELSE faults + 1
        /\ IF Len(got) < count
           THEN fetched' = got /\ pc' = "list groups" /\ UNCHANGED clientVars
           ELSE Answer(got, totUsers + totGroups)
  BY DEF ListRootUsers
<1> HIDE DEF n, part
<1>7. /\ got \in {part, <<>>} /\ got \in Seq(Row) /\ faults' \in 0 .. MaxFaults
      /\ faults' = 0 => faults = 0 /\ got = part
  BY <1>0, <1>5, <1>6, ReadOrFault
<1>8. Len(got) <= n /\ Len(got) \in Nat
  BY <1>3, <1>5, <1>7
<1>9. UNCHANGED <<walkVars, pageVars, dbVars, now, totUsers, totGroups>>
  BY DEF ListRootUsers, Reading
<1>10. Len(got) < count \/ Len(got) = count
  BY <1>1, <1>3, <1>8
<1>11. \/ /\ Len(got) < count /\ fetched' = got /\ pc' = "list groups"
          /\ UNCHANGED clientVars
       \/ Len(got) = count /\ Answer(got, totUsers + totGroups)
  BY <1>6, <1>10, <1>1, <1>8
<1> QED
  BY <1>2, <1>3, <1>5, <1>7, <1>8, <1>9, <1>11 DEF n, part

LEMMA ListRootUsersStep ==
  ASSUME WalkInv, ListRootUsers
  PROVE  WalkInv'
<1>0. TypeOK
  BY DEF WalkInv
<1>1. PICK got \in Seq(Row) :
           /\ pc = "list" /\ endpoint = "root" /\ offset < totUsers
           /\ Len(got) <= count
           /\ faults' \in 0 .. MaxFaults
           /\ \/ /\ Len(got) < count /\ fetched' = got /\ pc' = "list groups"
                 /\ UNCHANGED clientVars
              \/ Len(got) = count /\ Answer(got, totUsers + totGroups)
           /\ UNCHANGED <<walkVars, pageVars, dbVars, now, totUsers, totGroups>>
  <2>1. PICK got \in Seq(Row) :
           LET n == AtMost(count, totUsers - offset)
               part == Listed(Users, offset, n)
           IN
           /\ pc = "list" /\ endpoint = "root" /\ offset < totUsers
           /\ n \in Nat /\ n <= count /\ n <= totUsers - offset
           /\ Len(part) <= n /\ Len(part) \in Nat
           /\ got \in {part, <<>>} /\ Len(got) <= n
           /\ faults' \in 0 .. MaxFaults /\ (faults' = 0 => faults = 0 /\ got = part)
           /\ \/ /\ Len(got) < count /\ fetched' = got /\ pc' = "list groups"
                 /\ UNCHANGED clientVars
              \/ Len(got) = count /\ Answer(got, totUsers + totGroups)
           /\ UNCHANGED <<walkVars, pageVars, dbVars, now, totUsers, totGroups>>
    BY RootUsersEffect
  <2>2. Len(got) \in Nat /\ count \in Nat
    BY <1>0, NumberTypes, LenProperties
  <2> DEFINE n == AtMost(count, totUsers - offset)
  <2>3. n \in Nat /\ n <= count /\ Len(got) <= n
    BY <2>1
  <2>4. Len(got) <= count
    <3> HIDE DEF n
    <3> QED
      BY ONLY <2>2, <2>3
  <2> QED
    BY <2>1, <2>4
<1>2. totUsers \in Nat /\ totGroups \in Nat /\ totUsers + totGroups \in Nat /\ offset \in Nat
  BY <1>0, NumberTypes
<1>3. CASE fetched' = got /\ pc' = "list groups" /\ UNCHANGED clientVars
  <2>0. UNCHANGED <<walkVars, pageVars, dbVars, now, totUsers, totGroups>>
    BY <1>1
  <2>1. endpoint' = endpoint /\ offset' = offset /\ count' = count /\ totUsers' = totUsers
    BY ONLY <2>0
  <2>2. PageShape'
    <3>1. ~(offset >= totUsers) /\ endpoint = "root" /\ Len(got) <= count
      <4>1. offset < totUsers /\ endpoint = "root" /\ Len(got) <= count
        BY <1>1, Zenon
      <4> QED
        BY ONLY <1>2, <4>1
    <3> QED
      BY ONLY <1>3, <2>1, <3>1 DEF PageShape
  <2> QED
    BY <1>1, <1>2, <1>3, <2>2, ReadOn DEF InPage
<1>4. CASE Answer(got, totUsers + totGroups)
  BY <1>1, <1>2, <1>4, AnswerStep DEF InPage
<1> QED
  BY <1>1, <1>3, <1>4
\* What ListRootGroups asks for.
RootPart == IF offset >= totUsers THEN Listed(Groups, GroupOffset, count)
            ELSE Listed(Groups, 0, Wanted(Len(fetched)))

LEMMA RootGroupsEffect ==
  ASSUME WalkInv, ListRootGroups
  PROVE  /\ pc = "list groups" /\ endpoint = "root" /\ RootPart \in Seq(Row)
         /\ Len(fetched) <= count /\ (offset >= totUsers => fetched = <<>>)
         /\ \E got \in Seq(Row) :
              /\ got \in {RootPart, <<>>} /\ Len(fetched) + Len(got) <= count
              /\ faults' \in 0 .. MaxFaults /\ (faults' = 0 => faults = 0 /\ got = RootPart)
              /\ Answer(fetched \o got, totUsers + totGroups)
         /\ UNCHANGED <<walkVars, pageVars, dbVars, now, totUsers, totGroups>>
<1>0. TypeOK /\ FiniteTables /\ PageShape
  BY DEF WalkInv
<1>1. /\ offset \in Nat /\ count \in Nat /\ totUsers \in Nat /\ Len(fetched) \in Nat
  BY <1>0, NumberTypes
<1>2. pc = "list groups" /\ endpoint = "root"
  BY DEF ListRootGroups, Reading
<1>3. Len(fetched) <= count /\ (offset >= totUsers => fetched = <<>>)
  BY <1>0, <1>2 DEF PageShape
<1>4. Groups \in Rows /\ Groups \subseteq Row
  BY <1>0, TablesAreRows DEF Row
<1>5. RootPart \in Seq(Row) /\ Len(RootPart) \in Nat /\ Len(fetched) + Len(RootPart) <= count
  <2>1. CASE offset >= totUsers
    <3>1. GroupOffset \in Nat
      BY <1>1, <2>1 DEF GroupOffset
    <3>2. /\ Listed(Groups, GroupOffset, count) \in Seq(Row)
          /\ Len(Listed(Groups, GroupOffset, count)) \in Nat
          /\ Len(Listed(Groups, GroupOffset, count)) <= count
      BY <1>1, <1>4, <3>1, ListedType
    <3>3. Len(fetched) = 0
      BY <1>3, <2>1
    <3>4. RootPart = Listed(Groups, GroupOffset, count)
      BY <2>1 DEF RootPart
    <3> QED
      BY <1>1, <3>2, <3>3, <3>4
  <2>2. CASE ~(offset >= totUsers)
    <3>1. Wanted(Len(fetched)) \in Nat /\ Len(fetched) + Wanted(Len(fetched)) = count
      BY <1>1, <1>3 DEF Wanted
    <3>2. /\ Listed(Groups, 0, Wanted(Len(fetched))) \in Seq(Row)
          /\ Len(Listed(Groups, 0, Wanted(Len(fetched)))) \in Nat
          /\ Len(Listed(Groups, 0, Wanted(Len(fetched)))) <= Wanted(Len(fetched))
      BY <1>4, <3>1, ListedType
    <3>3. RootPart = Listed(Groups, 0, Wanted(Len(fetched)))
      BY <2>2 DEF RootPart
    <3> QED
      BY <1>1, <3>1, <3>2, <3>3
  <2> QED
    BY <2>1, <2>2
<1>6. PICK got \in {RootPart} \union (IF faults < MaxFaults THEN {<<>>} ELSE {}) :
        /\ faults' = IF got = RootPart THEN faults ELSE faults + 1
        /\ Answer(fetched \o got, totUsers + totGroups)
  BY Zenon DEF ListRootGroups, RootPart
<1>7. /\ got \in {RootPart, <<>>} /\ got \in Seq(Row) /\ faults' \in 0 .. MaxFaults
      /\ faults' = 0 => faults = 0 /\ got = RootPart
  BY <1>0, <1>5, <1>6, ReadOrFault
<1>8. Len(fetched) + Len(got) <= count
  <2>1. CASE got = RootPart
    BY <1>5, <2>1
  <2>2. CASE got = <<>>
    <3>1. Len(got) = 0
      BY <2>2
    <3> QED
      BY <1>1, <1>3, <3>1
  <2> QED
    BY <1>7, <2>1, <2>2
<1>9. UNCHANGED <<walkVars, pageVars, dbVars, now, totUsers, totGroups>>
  BY DEF ListRootGroups, Reading
<1> QED
  BY <1>2, <1>3, <1>5, <1>6, <1>7, <1>8, <1>9

LEMMA ListRootGroupsStep ==
  ASSUME WalkInv, ListRootGroups
  PROVE  WalkInv'
<1>0. TypeOK
  BY DEF WalkInv
<1>1. /\ pc = "list groups" /\ faults' \in 0 .. MaxFaults
      /\ UNCHANGED <<walkVars, pageVars, dbVars, now, totUsers, totGroups>>
  BY RootGroupsEffect
<1>2. PICK got \in Seq(Row) : /\ Len(fetched) + Len(got) <= count
                              /\ Answer(fetched \o got, totUsers + totGroups)
  BY RootGroupsEffect
<1>3. fetched \in Seq(Row)
  BY <1>0 DEF TypeOK
<1>4. fetched \o got \in Seq(Row) /\ Len(fetched \o got) = Len(fetched) + Len(got)
  BY <1>3, ConcatProperties
<1>5. totUsers \in Nat /\ totGroups \in Nat /\ totUsers + totGroups \in Nat
  BY <1>0, NumberTypes
<1>6. Len(fetched \o got) <= count
  BY <1>2, <1>4
<1> QED
  BY <1>1, <1>2, <1>4, <1>5, <1>6, AnswerStep DEF InPage

LEMMA RangeOfRows ==
  ASSUME NEW s \in Seq(Row)
  PROVE  Range(s) \in Rows /\ Range(s) \subseteq Row
<1>1. s \in [1 .. Len(s) -> Row] /\ Len(s) \in Nat /\ DOMAIN s = 1 .. Len(s)
  BY LenProperties
<1>2. Range(s) \subseteq Row
  BY <1>1 DEF Range
<1>3. s \in Surjection(1 .. Len(s), Range(s))
  BY <1>1 DEF Surjection, Range
<1>4. IsFiniteSet(1 .. Len(s))
  BY <1>1, FS_Interval
<1>5. IsFiniteSet(Range(s))
  BY <1>3, <1>4, FS_Surjection
<1> QED
  BY <1>2, <1>5, ConstantTypes DEF Rows

\* The rows that RootSearch with sortBy merges.
Combined(got) == Range(fetched) \union got

LEMMA FetchLimitType ==
  ASSUME TypeOK
  PROVE  FetchLimit \in Nat /\ FetchLimit <= MaxResults /\ FetchLimit <= offset + count
         /\ (FetchLimit = MaxResults \/ FetchLimit = offset + count)
<1>1. offset \in Nat /\ count \in Nat /\ MaxResults \in Nat
  BY NumberTypes, ConstantTypes
<1> QED
  BY <1>1 DEF FetchLimit, AtMost

\* What SQL puts first, in the order of the server.
LEMMA ForemostRows ==
  ASSUME NEW S \in Rows, S \subseteq Row, NEW n \in Nat
  PROVE  /\ Foremost(S, n) \in Rows /\ Foremost(S, n) \subseteq Row
         /\ Sorted(Foremost(S, n)) \in Seq(Row)
<1>1. Foremost(S, n) \subseteq S
  BY DEF Foremost
<1>2. Foremost(S, n) \in Rows /\ Foremost(S, n) \subseteq Row
  BY <1>1, FS_Subset DEF Rows
<1>3. Sorted(Foremost(S, n)) \in Seq(Foremost(S, n))
  BY <1>2, SortedRows
<1> QED
  BY <1>2, <1>3

\* Where both sort alike, SQL puts first what comes first.
LEMMA ForemostFirst ==
  ASSUME SortsAlike, NEW S \in Rows, S \subseteq UserRow \/ S \subseteq GroupRow,
         NEW n \in Nat
  PROVE  Foremost(S, n) = First(S, n)
<1>1. \A x \in S : {y \in S : place[y] < place[x]} = {y \in S : y < x}
  <2>1. PICK T \in {UserRow, GroupRow} : S \subseteq T
    OBVIOUS
  <2>2. \A x, y \in T : x < y <=> place[x] < place[y]
    BY <2>1 DEF SortsAlike
  <2> QED
    BY <2>1, <2>2
<1>2. \A x \in S : Cardinality({y \in S : place[y] < place[x]}) = Before(S, x)
  BY <1>1 DEF Before
<1> QED
  BY <1>2 DEF Foremost, First

LEMMA FirstSorted ==
  ASSUME NEW S \in Rows, NEW n \in Nat
  PROVE  Sorted(First(S, n)) = Listed(S, 0, n)
<1> DEFINE F == First(S, n)
           L == Listed(S, 0, n)
<1>1. S \in SUBSET Nat /\ F \in Rows /\ F \subseteq S /\ Cardinality(S) \in Nat
  BY BeforeFirst, SortedRows DEF Rows, First
<1>2. \A x \in S : Before(F, x) = AtMost(n, Before(S, x)) /\ Before(S, x) \in Nat
  BY <1>1, BeforeFirst, BeforeBound
<1>3. Cardinality(F) = AtMost(n, Cardinality(S))
  <2>1. CASE Cardinality(S) <= n
    <3>1. \A x \in S : Before(S, x) < n
      BY <1>1, <2>1, SortedRows, <1>2
    <3>2. F = S
      BY <3>1 DEF First
    <3> QED
      BY <1>1, <2>1, <3>2 DEF AtMost
  <2>2. CASE n < Cardinality(S)
    <3>1. n + 1 \in 1 .. Cardinality(S) /\ (n + 1) - 1 = n
      BY <1>1, <2>2
    <3>2. PICK z \in S : Before(S, z) = n
      BY <3>1, EveryPosition
    <3>3. \A y \in S : Before(S, y) < n <=> y < z
      BY <3>2, BeforeOrders
    <3>4. {y \in F : y < z} = F
      BY <3>3 DEF First
    <3>5. Cardinality(F) = Before(F, z)
      BY <3>4 DEF Before
    <3> QED
      BY <1>1, <1>2, <2>2, <3>2, <3>5 DEF AtMost
  <2> QED
    BY <1>1, <2>1, <2>2
<1>4. /\ Sorted(F) \in Seq(F) /\ Len(Sorted(F)) = Cardinality(F)
      /\ \A x \in F : Sorted(F)[Before(F, x) + 1] = x
  BY <1>1, SortedRows
<1>5. /\ L \in Seq(S)
      /\ Len(L) = IF 0 < Cardinality(S) THEN AtMost(Cardinality(S), 0 + n) - 0 ELSE 0
      /\ \A i \in 1 .. Len(L) : L[i] \in S /\ Before(S, L[i]) = 0 + i - 1
  BY ListedRows
<1>6. Len(L) = Len(Sorted(F)) /\ Len(L) <= n
  BY <1>1, <1>3, <1>4, <1>5 DEF AtMost
<1> HIDE DEF F, L
<1>7. ASSUME NEW i \in 1 .. Len(L)
      PROVE  Sorted(F)[i] = L[i]
  <2>1. i \in Nat /\ i >= 1 /\ i <= n
    BY <1>5, <1>6
  <2>2. L[i] \in S /\ Before(S, L[i]) = i - 1
    BY <1>5, <2>1
  <2>3. L[i] \in F
    BY <2>1, <2>2 DEF F, First
  <2>4. Before(F, L[i]) + 1 = i
    BY <1>2, <2>1, <2>2 DEF AtMost
  <2> QED
    BY <1>4, <2>3, <2>4
<1>8. Sorted(F) \in Seq(S) /\ L \in Seq(S)
  <2>1. F \subseteq S /\ Sorted(F) \in Seq(F)
    BY <1>1, <1>4
  <2>2. Sorted(F) \in Seq(S)
    BY ONLY <2>1
  <2> QED
    BY <1>5, <2>2
<1>9. Sorted(F) = L
  BY <1>6, <1>7, <1>8, SeqEqual
<1> QED
  BY <1>9 DEF F, L

LEMMA SortedGroupsEffect ==
  ASSUME WalkInv, ListSortedGroups
  PROVE  /\ pc = "list groups" /\ endpoint = "sorted"
         /\ \E got \in SUBSET Row :
              /\ faults' \in 0 .. MaxFaults
              /\ faults' = 0 => faults = 0
              /\ faults' = 0 /\ SortsAlike => got = First(Groups, FetchLimit)
              /\ Combined(got) \in Rows /\ Combined(got) \subseteq Row
              /\ Answer(Listed(Combined(got), offset, count), totUsers + totGroups)
         /\ UNCHANGED <<walkVars, pageVars, dbVars, now, totUsers, totGroups>>
<1> DEFINE part == Foremost(Groups, FetchLimit)
<1>0. TypeOK /\ FiniteTables
  BY DEF WalkInv
<1>1. FetchLimit \in Nat /\ fetched \in Seq(Row)
  BY <1>0, FetchLimitType DEF TypeOK
<1>2. pc = "list groups" /\ endpoint = "sorted"
  BY DEF ListSortedGroups, Reading
<1>3. Groups \in Rows /\ Groups \subseteq Row /\ Groups \subseteq GroupRow
  BY <1>0, TablesAreRows DEF Row
<1>4. part \in Rows /\ part \subseteq Row /\ (SortsAlike => part = First(Groups, FetchLimit))
  BY <1>1, <1>3, ForemostRows, ForemostFirst
<1>5. PICK got \in {part} \union (IF faults < MaxFaults THEN {{}} ELSE {}) :
        /\ faults' = IF got = part THEN faults ELSE faults + 1
        /\ Answer(SubSeq(Sorted(Combined(got)), offset + 1,
                         AtMost(Len(Sorted(Combined(got))), offset + count)),
                  totUsers + totGroups)
  BY Zenon DEF ListSortedGroups, Combined
<1> HIDE DEF part
<1>6. /\ got \in {part, {}} /\ faults' \in 0 .. MaxFaults
      /\ faults' = 0 => faults = 0 /\ got = part
  <2>1. CASE got = part
    BY <1>0, <1>5, <2>1 DEF TypeOK
  <2>2. CASE got # part
    <3>1. faults < MaxFaults /\ got = {} /\ faults' = faults + 1
      BY <1>5, <2>2
    <3>2. faults + 1 # 0
      BY <1>0, NumberTypes
    <3> QED
      BY <1>0, <3>1, <3>2, FaultRoom
  <2> QED
    BY <2>1, <2>2
<1>7. Combined(got) \in Rows /\ Combined(got) \subseteq Row /\ got \subseteq Row
  <2>1. Range(fetched) \in Rows /\ Range(fetched) \subseteq Row
    BY <1>1, RangeOfRows
  <2>2. got \in Rows /\ got \subseteq Row
    BY <1>4, <1>6, FS_EmptySet DEF Rows
  <2>3. IsFiniteSet(Range(fetched) \union got)
    BY <2>1, <2>2, FS_Union DEF Rows
  <2> QED
    BY <2>1, <2>2, <2>3 DEF Rows, Combined
<1>8. Len(Sorted(Combined(got))) = Cardinality(Combined(got))
  BY <1>7, SortedRows
<1>9. Answer(Listed(Combined(got), offset, count), totUsers + totGroups)
  BY <1>5, <1>8 DEF Listed
<1>10. UNCHANGED <<walkVars, pageVars, dbVars, now, totUsers, totGroups>>
  BY DEF ListSortedGroups, Reading
<1> QED
  BY <1>2, <1>4, <1>6, <1>7, <1>9, <1>10

LEMMA ListSortedGroupsStep ==
  ASSUME WalkInv, ListSortedGroups
  PROVE  WalkInv'
<1>0. TypeOK
  BY DEF WalkInv
<1>1. /\ pc = "list groups" /\ faults' \in 0 .. MaxFaults
      /\ UNCHANGED <<walkVars, pageVars, dbVars, now, totUsers, totGroups>>
  BY SortedGroupsEffect
<1>2. PICK got \in SUBSET Row :
        /\ Combined(got) \in Rows /\ Combined(got) \subseteq Row
        /\ Answer(Listed(Combined(got), offset, count), totUsers + totGroups)
  BY SortedGroupsEffect
<1>3. offset \in Nat /\ count \in Nat /\ totUsers \in Nat /\ totGroups \in Nat
      /\ totUsers + totGroups \in Nat
  BY <1>0, NumberTypes
<1>4. /\ Listed(Combined(got), offset, count) \in Seq(Row)
      /\ Len(Listed(Combined(got), offset, count)) <= count
  BY <1>2, <1>3, ListedType
<1> QED
  BY <1>1, <1>2, <1>3, <1>4, AnswerStep DEF InPage

LEMMA SortedUsersEffect ==
  ASSUME WalkInv, ListSortedUsers
  PROVE  /\ pc = "list" /\ endpoint = "sorted" /\ pc' = "list groups"
         /\ fetched' \in Seq(Row) /\ faults' \in 0 .. MaxFaults
         /\ faults' = 0 => faults = 0
         /\ faults' = 0 /\ SortsAlike => fetched' = Listed(Users, 0, FetchLimit)
         /\ UNCHANGED <<walkVars, clientVars, pageVars, dbVars, now, totUsers, totGroups>>
<1>0. TypeOK /\ FiniteTables
  BY DEF WalkInv
<1> DEFINE part == Sorted(Foremost(Users, FetchLimit))
<1>1. /\ Users \in Rows /\ Users \subseteq Row /\ Users \subseteq UserRow
      /\ FetchLimit \in Nat
  BY <1>0, TablesAreRows, FetchLimitType DEF Row
<1>2. part \in Seq(Row) /\ (SortsAlike => part = Listed(Users, 0, FetchLimit))
  <2>1. part \in Seq(Row)
    BY <1>1, ForemostRows
  <2>2. SortsAlike => part = Sorted(First(Users, FetchLimit))
    BY <1>1, ForemostFirst
  <2> QED
    BY <1>1, <2>1, <2>2, FirstSorted
<1>3. /\ pc = "list" /\ endpoint = "sorted" /\ pc' = "list groups"
      /\ UNCHANGED <<walkVars, clientVars, pageVars, dbVars, now, totUsers, totGroups>>
  BY DEF ListSortedUsers, Reading
<1>4. CASE fetched' = part /\ UNCHANGED faults
  BY <1>0, <1>2, <1>3, <1>4 DEF TypeOK
<1>5. CASE fetched' = <<>> /\ faults < MaxFaults /\ faults' = faults + 1
  <2>1. fetched' \in Seq(Row)
    BY <1>5
  <2>2. faults + 1 \in 0 .. MaxFaults /\ faults + 1 # 0
    BY <1>0, <1>5, FaultRoom, NumberTypes
  <2> QED
    BY <1>3, <1>5, <2>1, <2>2
<1> QED
  BY <1>4, <1>5 DEF ListSortedUsers

LEMMA ListSortedUsersStep ==
  ASSUME WalkInv, ListSortedUsers
  PROVE  WalkInv'
<1>0. TypeOK
  BY DEF WalkInv
<1>1. totUsers \in Nat /\ totGroups \in Nat
  BY <1>0, NumberTypes
<1>2. PageShape'
  BY SortedUsersEffect DEF PageShape
<1> QED
  BY <1>1, <1>2, SortedUsersEffect, ReadOn DEF InPage
LEMMA ParseStep ==
  ASSUME WalkInv, Parse
  PROVE  WalkInv'
<1>0. TypeOK /\ FiniteTables /\ PageShape /\ WalkShape
  BY DEF WalkInv
<1>1. /\ pc = "ask" /\ pc' \in {"count", "refused"}
      /\ count' \in 0 .. MaxResults /\ offset' \in Nat /\ prevSize' \in Nat
      /\ pc' = "count" => offset' = NextStart /\ (isCursor => Decodes(token))
      /\ prevSize' = IF pc' = "count" /\ token # NoCursor THEN token.size ELSE 0
      /\ UNCHANGED <<walkVars, clientVars, readVars, dbVars, faults, now>>
  BY <1>0, ParseEffect
<1>2. TypeOK' /\ FiniteTables'
  BY <1>0, <1>1 DEF TypeOK, FiniteTables
<1>3. PageShape' /\ PageBounded' /\ PreviousIsPageBefore'
  BY <1>0, <1>1 DEF PageShape, PageBounded, PreviousIsPageBefore
<1>4. NextStart' = NextStart
  BY <1>1 DEF NextStart
<1>5. isCursor /\ trail = <<>> /\ pc' = "count" => token = NoCursor
  <2>1. Foreign.own = FALSE
    BY DEF Foreign
  <2> QED
    BY <1>0, <1>1, <2>1 DEF WalkShape, Decodes
<1>6. WalkShape'
  BY <1>0, <1>1, <1>4, <1>5 DEF WalkShape, InPage
<1> QED
  BY <1>2, <1>3, <1>6 DEF WalkInv

LEMMA ProceedStep ==
  ASSUME WalkInv, Proceed
  PROVE  WalkInv'
<1>0. TypeOK /\ FiniteTables /\ PageShape /\ WalkShape
  BY DEF WalkInv
<1>1. /\ pc = "got" /\ pc' \in {"ask", "end"}
      /\ pc' = "ask" /\ isCursor => token # NoCursor
      /\ UNCHANGED <<walkVars, clientVars, pageVars, readVars, dbVars, faults, now>>
  BY DEF Proceed
<1>2. TypeOK' /\ FiniteTables'
  BY <1>0, <1>1 DEF TypeOK, FiniteTables
<1>3. PageShape' /\ PageBounded' /\ PreviousIsPageBefore'
  BY <1>0, <1>1 DEF PageShape, PageBounded, PreviousIsPageBefore
<1>4. WalkShape'
  BY <1>0, <1>1 DEF WalkShape, InPage
<1> QED
  BY <1>2, <1>3, <1>4 DEF WalkInv

\* Other requests and the clock.
LEMMA OthersStep ==
  ASSUME WalkInv, UNCHANGED <<walkVars, clientVars, pc, pageVars, readVars, faults>>,
         rows' \subseteq Row, inserted' \subseteq Row, deleted' \subseteq Row,
         FiniteTables', now' \in 0 .. MaxTime
  PROVE  WalkInv'
<1>1. TypeOK'
  BY DEF WalkInv, TypeOK
<1>2. PageShape' /\ PageBounded' /\ PreviousIsPageBefore'
  BY DEF WalkInv, PageShape, PageBounded, PreviousIsPageBefore
<1>3. NextStart' = NextStart /\ (HasNext(Len(page), total)' <=> HasNext(Len(page), total))
  BY DEF NextStart, HasNext
<1>4. WalkShape'
  BY <1>3 DEF WalkInv, WalkShape
<1> QED
  BY <1>1, <1>2, <1>4 DEF WalkInv

LEMMA WriteStep ==
  ASSUME WalkInv, NEW x \in Row, RowInserted(x) \/ RowDeleted(x)
  PROVE  WalkInv'
<1>1. rows \subseteq Row /\ inserted \subseteq Row /\ deleted \subseteq Row
      /\ IsFiniteSet(rows) /\ IsFiniteSet(inserted) /\ IsFiniteSet(deleted)
      /\ now \in 0 .. MaxTime
  BY DEF WalkInv, TypeOK, FiniteTables
<1>2. CASE RowInserted(x)
  <2>1. /\ rows' = rows \union {x} /\ inserted' = inserted \union {x} /\ deleted' = deleted
        /\ now' = now /\ UNCHANGED <<walkVars, clientVars, pc, pageVars, readVars, faults>>
    BY <1>2 DEF RowInserted
  <2>2. FiniteTables'
    BY <1>1, <2>1, FS_AddElement DEF FiniteTables
  <2> QED
    BY <1>1, <2>1, <2>2, OthersStep
<1>3. CASE RowDeleted(x)
  <2>1. /\ rows' = rows \ {x} /\ deleted' = deleted \union {x} /\ inserted' = inserted
        /\ now' = now /\ UNCHANGED <<walkVars, clientVars, pc, pageVars, readVars, faults>>
    BY <1>3 DEF RowDeleted
  <2>2. FiniteTables'
    BY <1>1, <2>1, FS_AddElement, FS_RemoveElement DEF FiniteTables
  <2> QED
    BY <1>1, <2>1, <2>2, OthersStep
<1> QED
  BY <1>2, <1>3

LEMMA TickStep ==
  ASSUME WalkInv, Tick
  PROVE  WalkInv'
<1>1. /\ now' \in 0 .. MaxTime
      /\ UNCHANGED <<walkVars, clientVars, pc, pageVars, readVars, dbVars, faults>>
  <2>1. now \in Nat /\ MaxTime \in Nat
    BY NumberTypes, ConstantTypes DEF WalkInv
  <2> QED
    BY <2>1 DEF Tick
<1>2. rows' \subseteq Row /\ inserted' \subseteq Row /\ deleted' \subseteq Row /\ FiniteTables'
  BY <1>1 DEF WalkInv, TypeOK, FiniteTables
<1> QED
  BY <1>1, <1>2, OthersStep

LEMMA StutterStep ==
  ASSUME WalkInv, UNCHANGED vars
  PROVE  WalkInv'
<1>1. /\ rows' \subseteq Row /\ inserted' \subseteq Row /\ deleted' \subseteq Row
      /\ FiniteTables' /\ now' \in 0 .. MaxTime
  BY DEF WalkInv, TypeOK, FiniteTables
<1> QED
  BY <1>1, OthersStep

LEMMA WalkInit == Init => WalkInv
<1> SUFFICES ASSUME Init PROVE WalkInv
  OBVIOUS
<1>1. <<>> \in Seq(Row) /\ <<>> \in Seq(Nat) /\ Len(<<>>) = 0
  OBVIOUS
<1>2. Foreign \in Cursor
  BY ConstantTypes DEF Foreign, Cursor
<1>3. token \in Cursor \union {NoCursor}
  BY <1>2 DEF Init
<1>8. place \in [Row -> Nat]
  <2>1. [x \in Row |-> x] \in [Row -> Nat]
    BY ConstantTypes
  <2>2. Places \subseteq [Row -> Nat]
    BY PagingAssumption DEF Row
  <2> QED
    BY <2>1, <2>2 DEF Init
<1>4. TypeOK
  BY <1>1, <1>3, <1>8, ConstantTypes, PagingAssumption DEF Init, TypeOK, Row
<1>5. FiniteTables
  BY PagingAssumption, FS_EmptySet DEF Init, FiniteTables
<1>6. PageShape /\ PageBounded /\ PreviousIsPageBefore
  BY DEF Init, PageShape, PageBounded, PreviousIsPageBefore
<1>7. WalkShape
  BY <1>1 DEF Init, WalkShape, InPage
<1> QED
  BY <1>4, <1>5, <1>6, <1>7 DEF WalkInv

LEMMA WalkStep == WalkInv /\ [Next]_vars => WalkInv'
<1> SUFFICES ASSUME WalkInv, [Next]_vars PROVE WalkInv'
  OBVIOUS
<1>1. CASE Walk
  BY <1>1, ParseStep, CountUsersStep, CountGroupsStep, StatementFailsStep, ListUsersStep,
     ListRootUsersStep, ListRootGroupsStep, ListSortedUsersStep, ListSortedGroupsStep,
     ProceedStep, Zenon DEF Walk
<1>2. CASE \E x \in Row : RowInserted(x) \/ RowDeleted(x)
  BY <1>2, WriteStep
<1>3. CASE Tick
  BY <1>3, TickStep
<1>4. CASE WalkOver \/ UNCHANGED vars
  BY <1>4, StutterStep DEF WalkOver
<1> QED
  BY <1>1, <1>2, <1>3, <1>4 DEF Next

\* Types, and what page, cursors and trail have to do with each other, in every
\* reachable state.
THEOREM Invariance == SafetySpec => []WalkInv
  BY WalkInit, WalkStep, PTL DEF SafetySpec

\* Offsets, limits and counts stay in their ranges: in particular LIMIT and OFFSET
\* are never negative, whatever counts and cursors clients send.
THEOREM TypeCorrect == SafetySpec => []TypeOK
<1>1. WalkInv => TypeOK
  BY DEF WalkInv
<1> QED
  BY Invariance, <1>1, PTL

\* A page never holds more than was asked for, whatever is written or fails between
\* the counts and the lists it is made of.
THEOREM PagesBounded == SafetySpec => []PageBounded
<1>1. WalkInv => PageBounded
  BY DEF WalkInv
<1> QED
  BY Invariance, <1>1, PTL

\* previousCursor leads back to where the page before began.
THEOREM PreviousLeadsBack == SafetySpec => []PreviousIsPageBefore
<1>1. WalkInv => PreviousIsPageBefore
  BY DEF WalkInv
<1> QED
  BY Invariance, <1>1, PTL
-----------------------------------------------------------------------------
(* Deletions never show a resource twice. *)

LEMMA AtMostRises ==
  ASSUME NEW h \in Nat, NEW i \in Nat, NEW m \in Nat, NEW n \in Nat, h <= i, m <= n
  PROVE  /\ AtMost(h, m) \in Nat /\ AtMost(h, m) <= AtMost(i, n)
         /\ AtMost(h, m) <= m /\ AtMost(h, m) <= h
  BY DEF AtMost

LEMMA AtMostType ==
  ASSUME NEW h \in Nat, NEW m \in Nat
  PROVE  AtMost(h, m) \in Nat
  BY DEF AtMost

\* What the client asks, and how SQL sorts it, stays.
LEMMA AlikeForGood ==
  ASSUME [Next]_vars
  PROVE  endpoint' = endpoint /\ place' = place /\ (SortsAlike' <=> SortsAlike)
<1>1. endpoint' = endpoint /\ place' = place
  BY Zenon DEF Next, Walk, Parse, CountUsers, CountGroups, StatementFails, ListUsers,
     ListRootUsers, ListRootGroups, ListSortedUsers, ListSortedGroups, Proceed, Reading,
     RowInserted, RowDeleted, Tick, WalkOver
<1> QED
  BY <1>1 DEF SortsAlike

LEMMA DisturbedForGood ==
  ASSUME TypeOK, [Next]_vars, Undisturbed'
  PROVE  Undisturbed /\ ~(\E x \in Row : RowInserted(x)) /\ ~StatementFails
<1>1. faults \in Nat
  BY NumberTypes
<1>2. \A x \in Row : ~RowInserted(x)
  BY DEF RowInserted, Undisturbed
<1>3. ~StatementFails
  <2>1. faults + 1 # 0
    BY <1>1
  <2> QED
    BY <2>1 DEF StatementFails, Undisturbed
<1>4. inserted = {}
  BY <1>2 DEF Next, Walk, Parse, CountUsers, CountGroups, StatementFails, ListUsers,
     ListRootUsers, ListRootGroups, ListSortedUsers, ListSortedGroups, Proceed, Reading,
     RowDeleted, Tick, WalkOver, Undisturbed
<1>5. faults = 0
  <2>1. faults' = faults \/ faults' = faults + 1
    BY <1>2, <1>3, Zenon DEF Next, Walk, Parse, CountUsers, CountGroups, ListUsers,
       ListRootUsers, ListRootGroups, ListSortedUsers, ListSortedGroups, Proceed, Reading,
       RowDeleted, Tick, WalkOver
  <2> QED
    BY <1>1, <2>1 DEF Undisturbed
<1>6. endpoint = "sorted" => SortsAlike
  BY AlikeForGood DEF Undisturbed
<1> QED
  BY <1>2, <1>3, <1>4, <1>5, <1>6 DEF Undisturbed

\* The same rows, resources and place.
LEMMA PlacedStill ==
  ASSUME NEW X, NEW k, Placed(X, k), UNCHANGED <<rows, endpoint>>
  PROVE  Placed(X, k)'
  BY DEF Placed, Users, Groups

\* Rows are deleted.
LEMMA PlacedAfterDeletion ==
  ASSUME WalkInv, NEW X, NEW k \in Nat, Placed(X, k), rows' \subseteq rows,
         endpoint' = endpoint
  PROVE  Placed(X, k)'
<1>1. /\ Users \in Rows /\ Groups \in Rows /\ rows \in Rows
      /\ Users' \subseteq Users /\ Groups' \subseteq Groups
      /\ \A x \in rows : x \in Nat
  BY TablesAreRows DEF WalkInv, Users, Groups, Rows
<1> PICK U \in SUBSET Users : U = Users'
  BY <1>1
<1> PICK G \in SUBSET Groups : G = Groups'
  BY <1>1
<1>2. ASSUME NEW x \in Nat
      PROVE  /\ Before(U, x) \in Nat /\ Before(Users, x) \in Nat
             /\ Before(U, x) <= Before(Users, x)
             /\ Before(G, x) \in Nat /\ Before(Groups, x) \in Nat
             /\ Before(G, x) <= Before(Groups, x)
  <2>1. x <= x
    OBVIOUS
  <2>2. Before(U, x) <= Before(Users, x) /\ U \in Rows
    BY <1>1, <2>1, BeforeMonotone
  <2>3. Before(G, x) <= Before(Groups, x) /\ G \in Rows
    BY <1>1, <2>1, BeforeMonotone
  <2> QED
    BY <1>1, <2>2, <2>3, BeforeType
<1>3. Cardinality(U) <= Cardinality(Users) /\ Cardinality(U) \in Nat
      /\ Cardinality(Users) \in Nat
  BY <1>1, FS_Subset, FS_CardinalityType DEF Rows
<1>4. endpoint # "sorted" => \A x \in X \intersect U : Before(U, x) < k
  <2> SUFFICES ASSUME endpoint # "sorted", NEW x \in X \intersect U
               PROVE  Before(U, x) < k
    OBVIOUS
  <2>1. x \in Nat /\ x \in Users
    BY <1>1 DEF Rows
  <2>2. Before(Users, x) < k
    BY <2>1 DEF Placed
  <2> QED
    BY <1>2, <2>1, <2>2
<1>5. endpoint = "root" => \A x \in X \intersect G : Cardinality(U) + Before(G, x) < k
  <2> SUFFICES ASSUME endpoint = "root", NEW x \in X \intersect G
               PROVE  Cardinality(U) + Before(G, x) < k
    OBVIOUS
  <2>1. x \in Nat /\ x \in Groups
    BY <1>1 DEF Rows
  <2>2. Cardinality(Users) + Before(Groups, x) < k
    BY <2>1 DEF Placed
  <2> QED
    BY <1>2, <1>3, <2>1, <2>2
<1>6. endpoint = "sorted" =>
        \A x \in X \intersect rows' :
          AtMost(MaxResults, Before(U, x)) + AtMost(MaxResults, Before(G, x)) < k
  <2> SUFFICES ASSUME endpoint = "sorted", NEW x \in X, x \in rows'
               PROVE  AtMost(MaxResults, Before(U, x)) + AtMost(MaxResults, Before(G, x)) < k
    OBVIOUS
  <2>1. x \in Nat /\ x \in rows
    BY <1>1
  <2>2. AtMost(MaxResults, Before(Users, x)) + AtMost(MaxResults, Before(Groups, x)) < k
    BY <2>1 DEF Placed
  <2>3. /\ AtMost(MaxResults, Before(U, x)) <= AtMost(MaxResults, Before(Users, x))
        /\ AtMost(MaxResults, Before(G, x)) <= AtMost(MaxResults, Before(Groups, x))
        /\ AtMost(MaxResults, Before(U, x)) \in Nat /\ AtMost(MaxResults, Before(G, x)) \in Nat
        /\ AtMost(MaxResults, Before(Users, x)) \in Nat
        /\ AtMost(MaxResults, Before(Groups, x)) \in Nat
    <3>1. /\ MaxResults \in Nat /\ MaxResults <= MaxResults
          /\ Before(U, x) \in Nat /\ Before(Users, x) \in Nat
          /\ Before(G, x) \in Nat /\ Before(Groups, x) \in Nat
          /\ Before(U, x) <= Before(Users, x) /\ Before(G, x) <= Before(Groups, x)
      BY <1>2, <2>1, ConstantTypes
    <3> QED
      BY ONLY <3>1, AtMostRises, AtMostType
  <2> QED
    BY ONLY <2>2, <2>3, k \in Nat
<1> QED
  BY <1>4, <1>5, <1>6 DEF Placed

LEMMA PlacedTogether ==
  ASSUME NEW X, NEW Y, NEW j \in Nat, NEW k \in Nat, j <= k, WalkInv, Placed(X, j), Placed(Y, k)
  PROVE  Placed(X \union Y, k)
<1>1. Users \in Rows /\ Groups \in Rows /\ (\A x \in rows : x \in Nat)
      /\ (\A x \in Users : x \in Nat) /\ (\A x \in Groups : x \in Nat)
      /\ Cardinality(Users) \in Nat
  BY TablesAreRows DEF WalkInv, Rows
<1>2. \A x \in Nat : Before(Users, x) \in Nat /\ Before(Groups, x) \in Nat
  BY <1>1, BeforeType
<1>3. \A x \in Nat : /\ AtMost(MaxResults, Before(Users, x)) \in Nat
                     /\ AtMost(MaxResults, Before(Groups, x)) \in Nat
  BY <1>2, ConstantTypes, AtMostType
<1>4. endpoint # "sorted" =>
        \A x \in (X \union Y) \intersect Users : Before(Users, x) < k
  BY <1>1, <1>2 DEF Placed
<1>5. endpoint = "root" =>
        \A x \in (X \union Y) \intersect Groups : Cardinality(Users) + Before(Groups, x) < k
  BY <1>1, <1>2 DEF Placed
<1>6. endpoint = "sorted" =>
        \A x \in (X \union Y) \intersect rows :
          AtMost(MaxResults, Before(Users, x)) + AtMost(MaxResults, Before(Groups, x)) < k
  BY <1>1, <1>3 DEF Placed
<1> QED
  BY <1>4, <1>5, <1>6 DEF Placed
Once(s) == \A i, j \in DOMAIN s : s[i] = s[j] => i = j

LEMMA Joined ==
  ASSUME NEW s \in Seq(Row), NEW t \in Seq(Row)
  PROVE  /\ s \o t \in Seq(Row) /\ Len(s \o t) = Len(s) + Len(t)
         /\ Range(s \o t) = Range(s) \union Range(t)
         /\ Once(s) /\ Once(t) /\ Range(s) \intersect Range(t) = {} => Once(s \o t)
<1> DEFINE m == Len(s)  n == Len(t)
<1>1. /\ m \in Nat /\ DOMAIN s = 1 .. m /\ n \in Nat /\ DOMAIN t = 1 .. n
  BY LenProperties
<1>2. /\ s \o t \in Seq(Row) /\ Len(s \o t) = m + n
      /\ \A i \in 1 .. m + n : (s \o t)[i] = IF i <= m THEN s[i] ELSE t[i - m]
  BY ConcatProperties
<1>3. DOMAIN (s \o t) = 1 .. m + n
  BY <1>2, LenProperties
<1> PICK u : u = s \o t
  OBVIOUS
<1> HIDE DEF m, n
<1>4. \A i \in 1 .. m : i \in 1 .. m + n /\ u[i] = s[i]
  BY <1>1, <1>2
<1>5. \A i \in 1 .. n : m + i \in 1 .. m + n /\ u[m + i] = t[i]
  <2> SUFFICES ASSUME NEW i \in 1 .. n
               PROVE  m + i \in 1 .. m + n /\ u[m + i] = t[i]
    OBVIOUS
  <2>1. m + i \in 1 .. m + n /\ ~(m + i <= m) /\ (m + i) - m = i
    BY <1>1
  <2> QED
    BY <1>2, <2>1
<1>6. \A i \in 1 .. m + n : \/ i \in 1 .. m /\ u[i] = s[i]
                            \/ ~(i <= m) /\ i - m \in 1 .. n /\ u[i] = t[i - m]
  BY <1>1, <1>2
<1>7. Range(u) = Range(s) \union Range(t)
  <2>1. \A i \in 1 .. m + n : u[i] \in Range(s) \union Range(t)
    BY <1>1, <1>6 DEF Range
  <2>2. \A i \in 1 .. m : s[i] \in Range(u)
    BY <1>3, <1>4 DEF Range
  <2>3. \A i \in 1 .. n : t[i] \in Range(u)
    BY <1>3, <1>5 DEF Range
  <2> QED
    BY <1>1, <1>3, <2>1, <2>2, <2>3 DEF Range
<1>9. /\ \A i \in 1 .. m : u[i] \in Range(s)
      /\ \A i \in 1 .. m + n : ~(i <= m) => u[i] \in Range(t)
  <2>1. \A i \in DOMAIN s : s[i] \in Range(s)
    BY DEF Range
  <2>2. \A i \in DOMAIN t : t[i] \in Range(t)
    BY DEF Range
  <2>3. \A i \in 1 .. m + n : ~(i <= m) => i - m \in DOMAIN t /\ u[i] = t[i - m]
    BY <1>1, <1>6
  <2> QED
    BY <1>1, <1>4, <2>1, <2>2, <2>3
<1>8. ASSUME Once(s), Once(t), Range(s) \intersect Range(t) = {}
      PROVE  Once(u)
  <2> SUFFICES ASSUME NEW i \in 1 .. m + n, NEW j \in 1 .. m + n, u[i] = u[j]
               PROVE  i = j
    BY <1>3 DEF Once
  <2>1. CASE i \in 1 .. m /\ j \in 1 .. m
    BY <1>1, <1>4, <1>8, <2>1 DEF Once
  <2>2. CASE ~(i <= m) /\ ~(j <= m)
    <3>1. i - m \in 1 .. n /\ j - m \in 1 .. n /\ t[i - m] = t[j - m]
      BY <1>1, <1>6, <2>2
    <3>2. i - m = j - m
      BY <1>1, <1>8, <3>1 DEF Once
    <3> QED
      BY <1>1, <3>2
  <2>3. CASE i \in 1 .. m /\ ~(j <= m)
    <3>1. u[i] \in Range(s) /\ u[j] \in Range(t)
      BY <1>9, <2>3
    <3> QED
      BY <1>8, <3>1
  <2>4. CASE ~(i <= m) /\ j \in 1 .. m
    <3>1. u[j] \in Range(s) /\ u[i] \in Range(t)
      BY <1>9, <2>4
    <3> QED
      BY <1>8, <3>1
  <2> QED
    BY <1>6, <2>1, <2>2, <2>3, <2>4
<1> QED
  BY <1>2, <1>7, <1>8 DEF m, n

\* Nothing the client holds, and no row, has changed.
LEMMA QuietPlaces ==
  ASSUME PlacesInv, Undisturbed, pc # "end", Reached' = Reached,
         UNCHANGED <<rows, endpoint, seen>>
  PROVE  PlacesKept' /\ DeletionsNeverRepeat'
<1>1. Placed(Range(seen), Reached)
  BY DEF PlacesInv, PlacesKept
<1> PICK X : X = Range(seen)
  OBVIOUS
<1> PICK k : k = Reached
  OBVIOUS
<1>2. Placed(X, k)'
  BY <1>1, PlacedStill
<1>3. X = Range(seen') /\ k = Reached'
  OBVIOUS
<1>4. PlacesKept'
  BY <1>2, <1>3 DEF PlacesKept, Placed
<1> QED
  BY <1>4 DEF PlacesInv, DeletionsNeverRepeat, Undisturbed

LEMMA AnswerPlaces ==
  ASSUME WalkInv, PlacesInv, Undisturbed, pc \in InPage, NEW resources \in Seq(Row),
         NEW tot, Answer(resources, tot), UNCHANGED <<walkVars, pageVars, dbVars>>,
         Once(resources), Range(resources) \intersect Range(seen) = {},
         Placed(Range(resources), offset + Len(resources))
  PROVE  PlacesInv'
<1>0. /\ TypeOK /\ offset \in Nat /\ Len(resources) \in Nat /\ seen \in Seq(Row)
      /\ offset + Len(resources) \in Nat /\ offset <= offset + Len(resources)
  <2>1. TypeOK
    BY DEF WalkInv
  <2>2. offset \in Nat /\ Len(resources) \in Nat /\ seen \in Seq(Row)
    BY <2>1, NumberTypes, LenProperties DEF TypeOK
  <2> QED
    BY <2>1, <2>2
<1>1. Reached = offset /\ pc # "end"
  BY DEF WalkInv, WalkShape, Reached, InPage
<1>2. seen' = seen \o resources /\ page' = resources /\ pc' = "got"
  BY DEF Answer
<1>3. Placed(Range(seen), offset)
  BY <1>1 DEF PlacesInv, PlacesKept
<1> PICK X : X = Range(seen) \union Range(resources)
  OBVIOUS
<1> PICK k \in Nat : k = offset + Len(resources)
  BY <1>0
<1>4. Placed(X, k)
  BY <1>0, <1>3, PlacedTogether
<1>5. Placed(X, k)'
  BY <1>4, PlacedStill
<1>6. Range(seen') = X
  BY <1>0, <1>2, Joined
<1>7. Reached' = k
  BY <1>2 DEF Reached
<1>8. PlacesKept'
  BY <1>5, <1>6, <1>7 DEF PlacesKept, Placed
<1>9. DeletionsNeverRepeat'
  <2>1. Once(seen)
    BY DEF PlacesInv, DeletionsNeverRepeat, Undisturbed, Once
  <2>2. Once(seen \o resources)
    BY <1>0, <2>1, Joined
  <2> QED
    BY <1>2, <2>2 DEF DeletionsNeverRepeat, Once
<1>10. RootPlaces' /\ SortedPlaces'
  BY <1>2 DEF RootPlaces, SortedPlaces
<1> QED
  BY <1>8, <1>9, <1>10 DEF PlacesInv

LEMMA EmptyPage ==
  ASSUME TypeOK
  PROVE  /\ <<>> \in Seq(Row) /\ Once(<<>>) /\ Range(<<>>) \intersect Range(seen) = {}
         /\ Placed(Range(<<>>), offset + Len(<<>>))
<1>1. Range(<<>>) = {}
  BY DEF Range
<1> QED
  BY <1>1 DEF Once, Placed

LEMMA CountUsersPlaces ==
  ASSUME WalkInv, PlacesInv, Undisturbed, CountUsers
  PROVE  PlacesInv'
<1>0. TypeOK /\ FiniteTables
  BY DEF WalkInv
<1>1. /\ pc = "count" /\ totUsers' = Cardinality(Users)
      /\ UNCHANGED <<walkVars, pageVars, dbVars>>
  BY DEF CountUsers, Reading
<1>2. CASE endpoint = "users" /\ count = 0
  <2>1. Answer(<<>>, Cardinality(Users))
    BY <1>2 DEF CountUsers
  <2> QED
    BY <1>0, <1>1, <2>1, EmptyPage, AnswerPlaces DEF InPage
<1>3. CASE ~(endpoint = "users" /\ count = 0)
  <2>1. /\ pc' = IF endpoint = "users" THEN "list" ELSE "count groups"
        /\ UNCHANGED <<clientVars, fetched>>
    BY <1>3 DEF CountUsers
  <2>2. Reached' = Reached /\ Reached = offset
    BY <1>1, <2>1 DEF Reached, NextStart, WalkInv, WalkShape, InPage
  <2>3. PlacesKept' /\ DeletionsNeverRepeat'
    BY <1>1, <2>1, <2>2, QuietPlaces
  <2>4. SortedPlaces'
    BY <2>1 DEF SortedPlaces
  <2>5. RootPlaces'
    <3> SUFFICES ASSUME endpoint = "root"
                 PROVE  /\ Cardinality(Users)' <= totUsers'
                        /\ \A x \in Range(seen') \intersect Groups' :
                             totUsers' + Before(Groups, x)' < offset'
      BY <1>1, <2>1 DEF RootPlaces
    <3>1. \A x \in Range(seen) \intersect Groups :
            Cardinality(Users) + Before(Groups, x) < offset
      BY <1>1, <2>2 DEF PlacesInv, PlacesKept, Placed
    <3>2. Cardinality(Users) \in Nat /\ Users' = Users /\ Groups' = Groups
      BY <1>0, <1>1, TablesAreRows DEF Users, Groups
    <3>3. totUsers' = Cardinality(Users) /\ seen' = seen /\ offset' = offset
      BY <1>1, <2>1
    <3>4. Cardinality(Users)' = Cardinality(Users) /\ \A x : Before(Groups, x)' = Before(Groups, x)
      BY <3>2 DEF Before
    <3>5. Cardinality(Users) <= totUsers'
      BY ONLY <3>2, <3>3
    <3> QED
      BY ONLY <3>1, <3>2, <3>3, <3>4, <3>5
  <2> QED
    BY <2>3, <2>4, <2>5 DEF PlacesInv
<1> QED
  BY <1>2, <1>3

LEMMA CountGroupsPlaces ==
  ASSUME WalkInv, PlacesInv, Undisturbed, CountGroups
  PROVE  PlacesInv'
<1>0. TypeOK /\ FiniteTables
  BY DEF WalkInv
<1>1. /\ pc = "count groups" /\ totUsers' = totUsers
      /\ UNCHANGED <<walkVars, pageVars, dbVars>>
  BY DEF CountGroups, Reading
<1>2. CASE Answer(<<>>, totUsers + Cardinality(Groups))
  BY <1>0, <1>1, <1>2, EmptyPage, AnswerPlaces DEF InPage
<1>3. CASE /\ pc' = IF endpoint = "root" /\ offset >= totUsers THEN "list groups" ELSE "list"
           /\ UNCHANGED <<clientVars, fetched>>
  <2>1. Reached' = Reached
    BY <1>1, <1>3 DEF Reached, NextStart
  <2>2. PlacesKept' /\ DeletionsNeverRepeat'
    BY <1>1, <1>3, <2>1, QuietPlaces
  <2>3. SortedPlaces'
    BY <1>1, <1>3 DEF SortedPlaces
  <2>4. RootPlaces'
    <3> SUFFICES ASSUME endpoint = "root"
                 PROVE  /\ Cardinality(Users)' <= totUsers'
                        /\ \A x \in Range(seen') \intersect Groups' :
                             totUsers' + Before(Groups, x)' < offset'
                        /\ ~(pc' = "list groups" /\ offset' < totUsers')
      BY <1>1 DEF RootPlaces
    <3>1. /\ Cardinality(Users) <= totUsers
          /\ \A x \in Range(seen) \intersect Groups : totUsers + Before(Groups, x) < offset
      BY <1>1 DEF PlacesInv, RootPlaces
    <3>2. Users' = Users /\ Groups' = Groups
      BY <1>1 DEF Users, Groups
    <3>3. ~(pc' = "list groups" /\ offset' < totUsers')
      <4>1. offset \in Nat /\ totUsers \in Nat
        BY <1>0, NumberTypes
      <4>2. pc' = "list groups" => offset >= totUsers
        BY <1>3
      <4>3. offset' = offset /\ totUsers' = totUsers
        BY <1>1
      <4>4. ASSUME offset >= totUsers PROVE ~(offset < totUsers)
        BY ONLY <4>1, <4>4
      <4> QED
        BY ONLY <4>2, <4>3, <4>4, Zenon
    <3> QED
      BY <1>1, <1>3, <3>1, <3>2, <3>3 DEF Before
  <2> QED
    BY <2>2, <2>3, <2>4 DEF PlacesInv
<1> QED
  BY <1>2, <1>3 DEF CountGroups
\* A page of one table: each row once, at the places asked for.
LEMMA ListedPlaces ==
  ASSUME NEW S \in Rows, NEW k \in Nat, NEW n \in Nat
  PROVE  /\ Once(Listed(S, k, n)) /\ Range(Listed(S, k, n)) \subseteq S
         /\ Len(Listed(S, k, n)) \in Nat
         /\ \A x \in Range(Listed(S, k, n)) :
              /\ x \in Nat /\ Before(S, x) \in Nat
              /\ k <= Before(S, x) /\ Before(S, x) < k + Len(Listed(S, k, n))
<1> PICK L : L = Listed(S, k, n)
  OBVIOUS
<1>1. L \in Seq(S) /\ \A i \in 1 .. Len(L) : L[i] \in S /\ Before(S, L[i]) = k + i - 1
  BY ListedRows
<1>2. Len(L) \in Nat /\ DOMAIN L = 1 .. Len(L)
  BY <1>1, LenProperties
<1>3. Once(L)
  BY <1>2, ListedOnce DEF Once
<1>4. Range(L) \subseteq S
  BY <1>1, <1>2 DEF Range
<1>5. ASSUME NEW x \in Range(L)
      PROVE  /\ x \in Nat /\ Before(S, x) \in Nat
             /\ k <= Before(S, x) /\ Before(S, x) < k + Len(L)
  <2>1. PICK i \in 1 .. Len(L) : x = L[i]
    BY <1>2 DEF Range
  <2>2. x \in S /\ Before(S, x) = k + i - 1
    BY <1>1, <2>1
  <2>3. x \in Nat
    BY <2>2 DEF Rows
  <2> QED
    BY <1>2, <2>2, <2>3
<1> QED
  BY <1>2, <1>3, <1>4, <1>5

LEMMA ListUsersPlaces ==
  ASSUME WalkInv, PlacesInv, Undisturbed, ListUsers
  PROVE  PlacesInv'
<1> PICK L : L = Listed(Users, offset, count)
  OBVIOUS
<1>0. TypeOK /\ FiniteTables
  BY DEF WalkInv
<1>1. /\ pc = "list" /\ endpoint = "users" /\ Answer(L, totUsers)
      /\ UNCHANGED <<walkVars, pageVars, dbVars>>
  BY DEF ListUsers, Reading
<1>2. offset \in Nat /\ count \in Nat /\ Users \in Rows /\ Users \subseteq Row
  BY <1>0, NumberTypes, TablesAreRows DEF Row
<1>3. L \in Seq(Row)
  BY <1>2, ListedType
<1>4. /\ Once(L) /\ Range(L) \subseteq Users /\ Len(L) \in Nat
      /\ \A x \in Range(L) : /\ Before(Users, x) \in Nat
                             /\ offset <= Before(Users, x)
                             /\ Before(Users, x) < offset + Len(L)
  BY <1>2, ListedPlaces
<1>5. Reached = offset
  BY <1>1 DEF WalkInv, WalkShape, Reached, InPage
<1>6. \A x \in Range(seen) \intersect Users : Before(Users, x) < offset
  BY <1>1, <1>5 DEF PlacesInv, PlacesKept, Placed
<1>7. Range(L) \intersect Range(seen) = {}
  BY <1>2, <1>4, <1>6
<1>8. Placed(Range(L), offset + Len(L))
  BY <1>1, <1>4 DEF Placed
<1> QED
  BY <1>1, <1>3, <1>4, <1>7, <1>8, AnswerPlaces DEF InPage

LEMMA ListRootUsersPlaces ==
  ASSUME WalkInv, PlacesInv, Undisturbed, ListRootUsers, Undisturbed'
  PROVE  PlacesInv'
<1>0. TypeOK /\ FiniteTables
  BY DEF WalkInv
<1> PICK n : n = AtMost(count, totUsers - offset)
  OBVIOUS
<1> PICK L : L = Listed(Users, offset, n)
  OBVIOUS
<1>1. PICK got \in Seq(Row) :
        /\ pc = "list" /\ endpoint = "root" /\ offset < totUsers
        /\ n \in Nat /\ n <= count /\ n <= totUsers - offset
        /\ faults' = 0 => got = L
        /\ \/ /\ Len(got) < count /\ fetched' = got /\ pc' = "list groups"
              /\ UNCHANGED clientVars
           \/ Answer(got, totUsers + totGroups)
        /\ UNCHANGED <<walkVars, pageVars, dbVars, now, totUsers, totGroups>>
  BY RootUsersEffect
<1>2. got = L /\ L \in Seq(Row)
  BY <1>1 DEF Undisturbed
<1>3. /\ offset \in Nat /\ count \in Nat /\ totUsers \in Nat
      /\ Users \in Rows /\ Users \subseteq UserRow /\ Cardinality(Users) \in Nat
      /\ UserRow \intersect Groups = {}
  BY <1>0, NumberTypes, TablesAreRows, PagingAssumption
<1>4. /\ Once(L) /\ Range(L) \subseteq Users /\ Len(L) \in Nat
      /\ \A x \in Range(L) : /\ Before(Users, x) \in Nat
                             /\ offset <= Before(Users, x)
                             /\ Before(Users, x) < offset + Len(L)
  BY <1>1, <1>3, ListedPlaces
<1>5. Reached = offset
  BY <1>1 DEF WalkInv, WalkShape, Reached, InPage
<1>6. /\ \A x \in Range(seen) \intersect Users : Before(Users, x) < offset
      /\ Cardinality(Users) <= totUsers
      /\ \A x \in Range(seen) \intersect Groups : totUsers + Before(Groups, x) < offset
  BY <1>1, <1>5 DEF PlacesInv, PlacesKept, Placed, RootPlaces
<1>7. Range(L) \intersect Range(seen) = {}
  BY <1>3, <1>4, <1>6
<1>8. CASE Answer(L, totUsers + totGroups)
  <2>1. Placed(Range(L), offset + Len(L))
    BY <1>1, <1>3, <1>4 DEF Placed
  <2> QED
    BY <1>1, <1>2, <1>4, <1>7, <1>8, <2>1, AnswerPlaces DEF InPage
<1>9. CASE Len(L) < count /\ fetched' = L /\ pc' = "list groups" /\ UNCHANGED clientVars
  <2>0. UNCHANGED <<walkVars, pageVars, dbVars, now, totUsers, totGroups>>
    BY <1>1
  <2>1. Reached' = Reached /\ pc # "end"
    <3>1. /\ pc = "list" /\ pc' = "list groups" /\ isCursor' = isCursor
          /\ token' = token /\ startIndex' = startIndex
      BY <1>1, <1>9, <2>0
    <3> QED
      BY ONLY <3>1 DEF Reached, NextStart
  <2>2. PlacesKept' /\ DeletionsNeverRepeat'
    BY <1>9, <2>0, <2>1, QuietPlaces
  <2>3. SortedPlaces'
    BY <1>1, <2>0 DEF SortedPlaces
  <2>4. Cardinality(Users) <= offset + Len(L)
    <3>0. Users \in Rows /\ offset \in Nat /\ n \in Nat
      BY <1>1, <1>3
    <3>1. Len(L) = IF offset < Cardinality(Users)
                   THEN AtMost(Cardinality(Users), offset + n) - offset ELSE 0
      BY <3>0, ListedRows
    <3>2. n = count \/ n = totUsers - offset
      BY DEF AtMost
    <3>3. /\ offset \in Nat /\ count \in Nat /\ totUsers \in Nat /\ n \in Nat
          /\ Cardinality(Users) \in Nat /\ Cardinality(Users) <= totUsers
          /\ Len(L) \in Nat /\ Len(L) < count
      BY <1>1, <1>3, <1>4, <1>6, <1>9
    <3> QED
      BY ONLY <3>1, <3>2, <3>3 DEF AtMost
  <2>5. /\ Users' = Users /\ Groups' = Groups /\ seen' = seen /\ fetched' = L
        /\ offset' = offset /\ totUsers' = totUsers
    BY <1>9, <2>0 DEF Users, Groups
  <2>6. \A i, j \in DOMAIN L : L[i] = L[j] => i = j
    BY <1>4 DEF Once
  <2>7. Range(L) \subseteq UserRow \ Range(seen)
    BY <1>3, <1>4, <1>7
  <2>8. RootPlaces'
    BY <1>4, <1>6, <2>4, <2>5, <2>6, <2>7 DEF RootPlaces, Before
  <2> QED
    BY <2>2, <2>3, <2>8 DEF PlacesInv
<1> QED
  BY <1>1, <1>2, <1>8, <1>9
LEMMA ListRootGroupsPlaces ==
  ASSUME WalkInv, PlacesInv, Undisturbed, ListRootGroups, Undisturbed'
  PROVE  PlacesInv'
<1>0. TypeOK /\ FiniteTables
  BY DEF WalkInv
<1> PICK L : L = RootPart
  OBVIOUS
<1>1. /\ pc = "list groups" /\ endpoint = "root" /\ L \in Seq(Row)
      /\ Len(fetched) <= count /\ (offset >= totUsers => fetched = <<>>)
      /\ UNCHANGED <<walkVars, pageVars, dbVars>>
      /\ Answer(fetched \o L, totUsers + totGroups)
  BY RootGroupsEffect DEF Undisturbed
<1>2. /\ offset \in Nat /\ count \in Nat /\ totUsers \in Nat /\ Len(fetched) \in Nat
      /\ fetched \in Seq(Row) /\ Groups \in Rows /\ Cardinality(Users) \in Nat
      /\ Users \subseteq UserRow /\ Groups \subseteq GroupRow
      /\ UserRow \intersect GroupRow = {}
  BY <1>0, NumberTypes, TablesAreRows, PagingAssumption DEF TypeOK
<1>3. /\ Cardinality(Users) <= totUsers
      /\ \A x \in Range(seen) \intersect Groups : totUsers + Before(Groups, x) < offset
      /\ offset < totUsers =>
           /\ Cardinality(Users) <= offset + Len(fetched)
           /\ Once(fetched) /\ Range(fetched) \subseteq UserRow \ Range(seen)
           /\ \A x \in Range(fetched) \intersect Users :
                Before(Users, x) < offset + Len(fetched)
  BY <1>1 DEF PlacesInv, RootPlaces, Once
<1>4. /\ Once(fetched) /\ Range(fetched) \subseteq UserRow \ Range(seen)
      /\ \A x \in Range(fetched) \intersect Users : Before(Users, x) < offset + Len(fetched)
  <2>1. CASE offset < totUsers
    BY <1>3, <2>1
  <2>2. CASE ~(offset < totUsers)
    <3>1. offset >= totUsers
      BY ONLY <1>2, <2>2
    <3>2. fetched = <<>>
      BY <1>1, <3>1, Zenon
    <3> QED
      BY <3>2 DEF Once, Range
  <2> QED
    BY <2>1, <2>2
<1>5. /\ Once(L) /\ Range(L) \subseteq Groups /\ Len(L) \in Nat
      /\ Range(L) \intersect Range(seen) = {}
      /\ \A x \in Range(L) :
           /\ Before(Groups, x) \in Nat
           /\ Cardinality(Users) + Before(Groups, x) < offset + (Len(fetched) + Len(L))
  <2>1. CASE offset < totUsers
    <3>1. Wanted(Len(fetched)) \in Nat /\ L = Listed(Groups, 0, Wanted(Len(fetched)))
      <4>1. Wanted(Len(fetched)) \in Nat
        <5>1. Len(fetched) <= count
          BY <1>1
        <5> QED
          BY ONLY <1>2, <5>1 DEF Wanted
      <4>2. ~(offset >= totUsers)
        BY ONLY <1>2, <2>1
      <4> QED
        BY <4>1, <4>2 DEF RootPart
    <3>2. /\ Once(L) /\ Range(L) \subseteq Groups /\ Len(L) \in Nat
          /\ \A x \in Range(L) : Before(Groups, x) \in Nat /\ Before(Groups, x) < 0 + Len(L)
      BY <1>2, <3>1, ListedPlaces
    <3>3. \A x \in Range(L) : x \notin Range(seen)
      <4>1. \A b \in Nat : ~(totUsers + b < offset)
        BY ONLY <1>2, <2>1
      <4> QED
        BY ONLY <1>3, <3>2, <4>1
    <3>4. \A b \in Nat : b < 0 + Len(L) =>
            Cardinality(Users) + b < offset + (Len(fetched) + Len(L))
      <4>1. Cardinality(Users) <= offset + Len(fetched)
        BY <1>3, <2>1
      <4> QED
        BY ONLY <1>2, <3>2, <4>1
    <3> QED
      BY ONLY <3>2, <3>3, <3>4
  <2>2. CASE ~(offset < totUsers)
    <3>1. /\ GroupOffset \in Nat /\ L = Listed(Groups, GroupOffset, count)
          /\ GroupOffset = offset - totUsers
      <4>1. offset >= totUsers
        BY ONLY <1>2, <2>2
      <4>2. GroupOffset \in Nat
        BY ONLY <1>2, <4>1 DEF GroupOffset
      <4> QED
        BY <4>1, <4>2 DEF RootPart, GroupOffset
    <3>2. /\ Once(L) /\ Range(L) \subseteq Groups /\ Len(L) \in Nat
          /\ \A x \in Range(L) : /\ Before(Groups, x) \in Nat
                                 /\ GroupOffset <= Before(Groups, x)
                                 /\ Before(Groups, x) < GroupOffset + Len(L)
      BY <1>2, <3>1, ListedPlaces
    <3>3. \A x \in Range(L) : x \notin Range(seen)
      <4>1. \A b \in Nat : GroupOffset <= b => ~(totUsers + b < offset)
        BY ONLY <1>2, <3>1
      <4> QED
        BY ONLY <1>3, <3>2, <4>1
    <3>4. \A b \in Nat : b < GroupOffset + Len(L) =>
            Cardinality(Users) + b < offset + (Len(fetched) + Len(L))
      <4>1. Cardinality(Users) <= totUsers
        BY <1>3
      <4> QED
        BY ONLY <1>2, <3>1, <3>2, <4>1
    <3> QED
      BY ONLY <3>2, <3>3, <3>4
  <2> QED
    BY <2>1, <2>2
<1>6. /\ fetched \o L \in Seq(Row) /\ Len(fetched \o L) = Len(fetched) + Len(L)
      /\ Range(fetched \o L) = Range(fetched) \union Range(L) /\ Once(fetched \o L)
  <2>1. Range(fetched) \intersect Range(L) = {}
    BY <1>2, <1>4, <1>5
  <2> QED
    BY <1>1, <1>2, <1>4, <1>5, <2>1, Joined
<1>7. Range(fetched \o L) \intersect Range(seen) = {}
  BY <1>4, <1>5, <1>6
<1>8. Placed(Range(fetched \o L), offset + Len(fetched \o L))
  <2> PICK k : k = offset + (Len(fetched) + Len(L))
    OBVIOUS
  <2>1. \A x \in Users : x \notin Range(L)
    BY <1>2, <1>5
  <2>2. \A x \in Groups : x \notin Range(fetched)
    BY <1>2, <1>4
  <2>3. \A x \in Range(fetched) \intersect Users : Before(Users, x) < k
    <3>1. ASSUME NEW x \in Range(fetched) \intersect Users PROVE Before(Users, x) < k
      <4>1. Before(Users, x) \in Nat /\ Before(Users, x) < offset + Len(fetched)
        <5>1. Users \in Rows /\ x \in Users
          BY <1>0, TablesAreRows
        <5> QED
          BY <1>4, <5>1, BeforeBound
      <4> QED
        BY ONLY <1>2, <1>5, <4>1, k = offset + (Len(fetched) + Len(L))
    <3> QED
      BY <3>1
  <2>4. \A x \in Range(L) : Cardinality(Users) + Before(Groups, x) < k
    BY <1>5
  <2>5. Placed(Range(fetched) \union Range(L), k)
    BY <1>1, <2>1, <2>2, <2>3, <2>4 DEF Placed
  <2> QED
    BY <1>6, <2>5
<1> QED
  BY <1>1, <1>6, <1>7, <1>8, AnswerPlaces DEF InPage
LEMMA ListSortedUsersPlaces ==
  ASSUME WalkInv, PlacesInv, Undisturbed, ListSortedUsers, Undisturbed'
  PROVE  PlacesInv'
<1>0. TypeOK /\ FiniteTables
  BY DEF WalkInv
<1> PICK L : L = Listed(Users, 0, FetchLimit)
  OBVIOUS
<1> PICK F : F = Range(L)
  OBVIOUS
<1>1. /\ pc = "list" /\ endpoint = "sorted" /\ pc' = "list groups" /\ fetched' = L
      /\ UNCHANGED <<walkVars, clientVars, pageVars, dbVars, now, totUsers, totGroups>>
  BY SortedUsersEffect DEF Undisturbed
<1>2. /\ rows' = rows /\ inserted' = inserted /\ deleted' = deleted
      /\ endpoint' = endpoint /\ isCursor' = isCursor /\ token' = token
      /\ startIndex' = startIndex /\ seen' = seen /\ offset' = offset /\ count' = count
  BY <1>1
<1>3. Reached' = Reached /\ pc # "end"
  <2>1. pc = "list" /\ pc' = "list groups"
    BY <1>1
  <2> QED
    BY ONLY <2>1, <1>2 DEF Reached, NextStart
<1>4. PlacesKept' /\ DeletionsNeverRepeat'
  BY <1>2, <1>3, QuietPlaces
<1>5. RootPlaces'
  BY <1>1, <1>2 DEF RootPlaces
<1>6. /\ Users \in Rows /\ Groups \in Rows /\ Users \subseteq UserRow /\ FetchLimit \in Nat
      /\ FetchLimit <= MaxResults /\ MaxResults \in Nat /\ Groups \subseteq rows /\ Users \subseteq rows
      /\ offset \in Nat
  BY <1>0, TablesAreRows, FetchLimitType, NumberTypes, ConstantTypes
<1>7. F = First(Users, FetchLimit) /\ F \subseteq Users
  BY <1>6, FirstRows DEF First
<1>8. ASSUME NEW x \in Nat
      PROVE  /\ Before(F, x) = AtMost(FetchLimit, Before(Users, x)) /\ Before(F, x) \in Nat
             /\ Before(Users, x) \in Nat /\ Before(Groups, x) \in Nat
  <2>1. Before(Users, x) \in Nat /\ Before(Groups, x) \in Nat
    BY <1>6, BeforeType
  <2>2. Before(F, x) = AtMost(FetchLimit, Before(Users, x))
    BY <1>6, <1>7, BeforeFirst
  <2> QED
    BY <1>6, <2>1, <2>2, AtMostType
<1>9. ASSUME NEW x \in Range(seen) \intersect (F \union Groups)
      PROVE  Before(F, x) + AtMost(FetchLimit, Before(Groups, x)) < offset
  <2>1. Reached = offset
    BY <1>1 DEF WalkInv, WalkShape, Reached, InPage
  <2>2. x \in rows /\ x \in Nat
    BY <1>0, <1>6, <1>7, TablesAreRows DEF Rows
  <2>3. AtMost(MaxResults, Before(Users, x)) + AtMost(MaxResults, Before(Groups, x)) < offset
    BY <1>1, <1>3, <2>1, <2>2 DEF PlacesInv, PlacesKept, Placed
  <2>4. /\ Before(F, x) = AtMost(FetchLimit, Before(Users, x)) /\ Before(F, x) \in Nat
        /\ Before(Users, x) \in Nat /\ Before(Groups, x) \in Nat
    BY <1>8, <2>2
  <2> QED
    BY ONLY <1>6, <2>3, <2>4 DEF AtMost
<1>10. \A x \in Row : AtMost(FetchLimit, Before(Users, x)) <= Before(F, x)
  <2> SUFFICES ASSUME NEW x \in Row
               PROVE  AtMost(FetchLimit, Before(Users, x)) <= Before(F, x)
    OBVIOUS
  <2>1. x \in Nat
    BY ConstantTypes
  <2>2. Before(F, x) = AtMost(FetchLimit, Before(Users, x)) /\ Before(F, x) \in Nat
    BY <1>8, <2>1
  <2> QED
    BY ONLY <2>2
<1>11. SortedPlaces'
  <2>1. /\ Users' = Users /\ Groups' = Groups /\ FetchLimit' = FetchLimit
        /\ Range(fetched)' = F
    BY <1>1, <1>2 DEF Users, Groups, FetchLimit, Range
  <2>2. \A x : /\ Before(Range(fetched), x)' = Before(F, x)
               /\ Before(Users, x)' = Before(Users, x)
               /\ Before(Groups, x)' = Before(Groups, x)
    BY <2>1 DEF Before
  <2>3. /\ Range(fetched)' \subseteq UserRow
        /\ \A x \in Range(seen)' \intersect (Range(fetched)' \union Groups') :
             Before(Range(fetched), x)' + AtMost(FetchLimit, Before(Groups, x))' < offset'
    <3>1. Range(seen)' = Range(seen)
      BY <1>2 DEF Range
    <3> QED
      BY <1>2, <1>6, <1>7, <1>9, <2>1, <2>2, <3>1 DEF AtMost
  <2>4. \A x \in Row : AtMost(FetchLimit, Before(Users, x))' <= Before(Range(fetched), x)'
    BY <1>10, <2>1, <2>2 DEF AtMost
  <2> QED
    BY <2>3, <2>4 DEF SortedPlaces
<1> QED
  BY <1>4, <1>5, <1>11 DEF PlacesInv
\* The merged list: who was shown lies before the page, and who is shown now lies
\* before the next one.
LEMMA ListSortedGroupsPlaces ==
  ASSUME WalkInv, PlacesInv, Undisturbed, ListSortedGroups, Undisturbed'
  PROVE  PlacesInv'
<1>0. TypeOK /\ FiniteTables
  BY DEF WalkInv
<1> PICK got : got = First(Groups, FetchLimit)
  OBVIOUS
<1> PICK C : C = Combined(got)
  OBVIOUS
<1> PICK F : F = Range(fetched)
  OBVIOUS
<1> PICK G : G = First(Groups, FetchLimit)
  OBVIOUS
<1> PICK L : L = Listed(C, offset, count)
  OBVIOUS
<1>1. /\ pc = "list groups" /\ endpoint = "sorted"
      /\ C \in Rows /\ C \subseteq Row /\ Answer(L, totUsers + totGroups)
      /\ UNCHANGED <<walkVars, pageVars, dbVars>>
  BY SortedGroupsEffect DEF Undisturbed
<1>2. /\ Users \in Rows /\ Groups \in Rows /\ Groups \subseteq GroupRow
      /\ FetchLimit \in Nat /\ FetchLimit <= MaxResults /\ MaxResults \in Nat
      /\ (FetchLimit = MaxResults \/ FetchLimit = offset + count)
      /\ offset \in Nat /\ count \in Nat /\ UserRow \intersect GroupRow = {}
      /\ rows = Users \union Groups /\ fetched \in Seq(Row)
  BY <1>0, TablesAreRows, FetchLimitType, NumberTypes, ConstantTypes, PagingAssumption
     DEF TypeOK
<1>3. /\ F \subseteq UserRow
      /\ \A x \in Range(seen) \intersect (F \union Groups) :
           Before(F, x) + AtMost(FetchLimit, Before(Groups, x)) < offset
      /\ \A x \in Row : AtMost(FetchLimit, Before(Users, x)) <= Before(F, x)
  BY <1>1 DEF PlacesInv, SortedPlaces
<1>4. /\ F \in Rows /\ G \in Rows /\ G \subseteq Groups /\ F \intersect G = {}
      /\ C = F \union G
  <2>1. F \in Rows
    BY <1>2, RangeOfRows
  <2>2. G \in Rows /\ G \subseteq Groups
    <3>1. 0 \in Nat
      OBVIOUS
    <3> QED
      BY <1>2, <3>1, BeforeFirst DEF First
  <2>3. C = F \union G
    BY DEF Combined
  <2> QED
    BY <1>2, <1>3, <2>1, <2>2, <2>3
<1>5. ASSUME NEW x \in Nat
      PROVE  /\ Before(C, x) = Before(F, x) + AtMost(FetchLimit, Before(Groups, x))
             /\ Before(F, x) \in Nat /\ Before(Groups, x) \in Nat
             /\ Before(Users, x) \in Nat
  <2>1. Before(F, x) \in Nat /\ Before(Groups, x) \in Nat /\ Before(Users, x) \in Nat
    BY <1>2, <1>4, BeforeType
  <2>2. Before(G, x) = AtMost(FetchLimit, Before(Groups, x))
    BY <1>2, BeforeFirst
  <2> QED
    BY <1>4, <2>1, <2>2, BeforeUnion
<1>6. /\ Once(L) /\ Range(L) \subseteq C /\ Len(L) \in Nat /\ L \in Seq(Row)
      /\ \A x \in Range(L) : /\ x \in Nat /\ Before(C, x) \in Nat
                             /\ offset <= Before(C, x)
                             /\ Before(C, x) < offset + Len(L)
  BY <1>1, <1>2, ListedPlaces, ListedType
<1>7. Range(L) \intersect Range(seen) = {}
  <2> SUFFICES ASSUME NEW x \in Range(L), x \in Range(seen)
               PROVE  FALSE
    OBVIOUS
  <2>1. x \in F \union Groups
    BY <1>4, <1>6
  <2>2. Before(F, x) + AtMost(FetchLimit, Before(Groups, x)) < offset
    BY <1>3, <2>1
  <2>3. Before(C, x) < offset /\ Before(C, x) \in Nat /\ offset <= Before(C, x)
    BY <1>5, <1>6, <2>2
  <2> QED
    BY ONLY <1>2, <2>3
<1>8. Placed(Range(L), offset + Len(L))
  <2> SUFFICES ASSUME NEW x \in Range(L) \intersect rows
               PROVE  AtMost(MaxResults, Before(Users, x))
                        + AtMost(MaxResults, Before(Groups, x)) < offset + Len(L)
    BY <1>1 DEF Placed
  <2>1. /\ x \in Nat /\ x \in Row /\ x \in C /\ Before(C, x) \in Nat
        /\ Before(C, x) < offset + Len(L)
    BY <1>1, <1>6
  <2>2. /\ Before(C, x) = Before(F, x) + AtMost(FetchLimit, Before(Groups, x))
        /\ Before(F, x) \in Nat /\ Before(Groups, x) \in Nat /\ Before(Users, x) \in Nat
    BY <1>5, <2>1
  <2>3. AtMost(FetchLimit, Before(Users, x)) <= Before(F, x)
    BY <1>3, <2>1
  <2>4. Len(L) \in Nat /\ Len(L) <= count
    BY <1>1, <1>2, ListedType
  <2>5. CASE FetchLimit = MaxResults
    BY ONLY <1>2, <2>1, <2>2, <2>3, <2>4, <2>5 DEF AtMost
  <2>6. CASE FetchLimit = offset + count
    BY ONLY <1>2, <2>1, <2>2, <2>3, <2>4, <2>6 DEF AtMost
  <2> QED
    BY <1>2, <2>5, <2>6
<1> QED
  BY <1>1, <1>6, <1>7, <1>8, AnswerPlaces DEF InPage
LEMMA RowDeletedPlaces ==
  ASSUME WalkInv, PlacesInv, Undisturbed, NEW r, RowDeleted(r)
  PROVE  PlacesInv'
<1>0. TypeOK /\ FiniteTables
  BY DEF WalkInv
<1>1. /\ rows' \subseteq rows /\ pc' = pc /\ pc # "end" /\ endpoint' = endpoint
      /\ isCursor' = isCursor /\ token' = token /\ startIndex' = startIndex
      /\ page' = page /\ seen' = seen /\ offset' = offset /\ count' = count
      /\ totUsers' = totUsers /\ fetched' = fetched
      /\ inserted' = inserted /\ faults' = faults
  BY DEF RowDeleted
<1>2. /\ Users \in Rows /\ Groups \in Rows /\ Users' \subseteq Users /\ Groups' \subseteq Groups
      /\ offset \in Nat /\ totUsers \in Nat /\ Len(fetched) \in Nat /\ fetched \in Seq(Row)
      /\ FetchLimit \in Nat
  BY <1>0, <1>1, TablesAreRows, NumberTypes, FetchLimitType DEF Users, Groups, TypeOK
<1> PICK U \in SUBSET Users : U = Users'
  BY <1>2
<1> PICK G \in SUBSET Groups : G = Groups'
  BY <1>2
<1>3. ASSUME NEW x \in Nat
      PROVE  /\ Before(U, x) \in Nat /\ Before(Users, x) \in Nat
             /\ Before(U, x) <= Before(Users, x)
             /\ Before(G, x) \in Nat /\ Before(Groups, x) \in Nat
             /\ Before(G, x) <= Before(Groups, x)
  <2>1. x <= x
    OBVIOUS
  <2>2. /\ Before(U, x) <= Before(Users, x) /\ U \in Rows
        /\ Before(G, x) <= Before(Groups, x) /\ G \in Rows
    BY <1>2, <2>1, BeforeMonotone
  <2> QED
    BY <1>2, <2>2, BeforeType
<1>4. /\ Cardinality(U) <= Cardinality(Users) /\ Cardinality(U) \in Nat
      /\ Cardinality(Users) \in Nat
  BY <1>2, FS_Subset, FS_CardinalityType DEF Rows
<1>5. /\ \A x \in U : x \in Users /\ x \in Nat
      /\ \A x \in G : x \in Groups /\ x \in Nat
  BY <1>2 DEF Rows
<1>6. PlacesKept'
  <2>1. Placed(Range(seen), Reached)
    BY <1>1 DEF PlacesInv, PlacesKept
  <2> PICK X : X = Range(seen)
    OBVIOUS
  <2>2. Reached \in Nat
    <3>1. Reached = IF pc = "got" THEN offset + Len(page) ELSE NextStart
      BY DEF Reached
    <3>2. NextStart \in Nat
      <4>1. token # NoCursor => token.offset \in Nat
        BY <1>0 DEF TypeOK, Cursor
      <4>2. startIndex \in Int
        BY <1>0 DEF TypeOK
      <4> QED
        BY <4>1, <4>2 DEF NextStart, AtLeast
    <3>3. offset \in Nat /\ Len(page) \in Nat
      BY <1>0, NumberTypes
    <3> QED
      BY ONLY <3>1, <3>2, <3>3
  <2> PICK k \in Nat : k = Reached
    BY <2>2
  <2>3. Placed(X, k)'
    BY <1>1, <2>1, PlacedAfterDeletion
  <2>4. Reached' = k
    BY ONLY <1>1, k = Reached DEF Reached, NextStart
  <2>5. Range(seen)' = X
    BY <1>1 DEF Range
  <2> QED
    BY <2>3, <2>4, <2>5 DEF PlacesKept, Placed
<1>7. DeletionsNeverRepeat'
  BY <1>1 DEF PlacesInv, DeletionsNeverRepeat, Undisturbed
<1>8. RootPlaces'
  <2> SUFFICES ASSUME endpoint = "root"
               PROVE  /\ pc \in {"count groups", "list", "list groups"} =>
                           /\ Cardinality(U) <= totUsers
                           /\ \A x \in Range(seen) \intersect G :
                                totUsers + Before(G, x) < offset
                      /\ pc = "list groups" /\ offset < totUsers =>
                           /\ Cardinality(U) <= offset + Len(fetched)
                           /\ \A i, j \in DOMAIN fetched : fetched[i] = fetched[j] => i = j
                           /\ Range(fetched) \subseteq UserRow \ Range(seen)
                           /\ \A x \in Range(fetched) \intersect U :
                                Before(U, x) < offset + Len(fetched)
    BY <1>1 DEF RootPlaces, Before, Range
  <2>1. ASSUME pc \in {"count groups", "list", "list groups"}
        PROVE  /\ Cardinality(U) <= totUsers
               /\ \A x \in Range(seen) \intersect G : totUsers + Before(G, x) < offset
    <3>1. /\ Cardinality(Users) <= totUsers
          /\ \A x \in Range(seen) \intersect Groups : totUsers + Before(Groups, x) < offset
      BY <2>1 DEF PlacesInv, RootPlaces
    <3>2. Cardinality(U) <= totUsers
      BY ONLY <1>2, <1>4, <3>1
    <3>3. ASSUME NEW x \in Range(seen) \intersect G PROVE totUsers + Before(G, x) < offset
      <4>1. /\ totUsers + Before(Groups, x) < offset /\ Before(G, x) <= Before(Groups, x)
            /\ Before(G, x) \in Nat /\ Before(Groups, x) \in Nat
        BY <1>3, <1>5, <3>1
      <4> QED
        BY ONLY <1>2, <4>1
    <3> QED
      BY <3>2, <3>3
  <2>2. ASSUME pc = "list groups", offset < totUsers
        PROVE  /\ Cardinality(U) <= offset + Len(fetched)
               /\ \A i, j \in DOMAIN fetched : fetched[i] = fetched[j] => i = j
               /\ Range(fetched) \subseteq UserRow \ Range(seen)
               /\ \A x \in Range(fetched) \intersect U :
                    Before(U, x) < offset + Len(fetched)
    <3>1. /\ Cardinality(Users) <= offset + Len(fetched)
          /\ \A i, j \in DOMAIN fetched : fetched[i] = fetched[j] => i = j
          /\ Range(fetched) \subseteq UserRow \ Range(seen)
          /\ \A x \in Range(fetched) \intersect Users :
               Before(Users, x) < offset + Len(fetched)
      BY <2>2 DEF PlacesInv, RootPlaces
    <3>2. Cardinality(U) <= offset + Len(fetched)
      BY ONLY <1>2, <1>4, <3>1
    <3>3. ASSUME NEW x \in Range(fetched) \intersect U
          PROVE  Before(U, x) < offset + Len(fetched)
      <4>1. /\ Before(Users, x) < offset + Len(fetched) /\ Before(U, x) <= Before(Users, x)
            /\ Before(U, x) \in Nat /\ Before(Users, x) \in Nat
        BY <1>3, <1>5, <3>1
      <4> QED
        BY ONLY <1>2, <4>1
    <3> QED
      BY ONLY <3>1, <3>2, <3>3
  <2> QED
    BY <2>1, <2>2
<1>9. SortedPlaces'
  <2> PICK F : F = Range(fetched)
    OBVIOUS
  <2> SUFFICES ASSUME endpoint = "sorted", pc = "list groups"
               PROVE  /\ F \subseteq UserRow
                      /\ \A x \in Range(seen) \intersect (F \union G) :
                           Before(F, x) + AtMost(FetchLimit, Before(G, x)) < offset
                      /\ \A x \in Row : AtMost(FetchLimit, Before(U, x)) <= Before(F, x)
    <3>1. FetchLimit' = FetchLimit /\ Range(fetched)' = F /\ Range(seen)' = Range(seen)
      BY <1>1 DEF FetchLimit, Range
    <3> QED
      BY <1>1, <3>1 DEF SortedPlaces, Before, AtMost
  <2>1. /\ F \subseteq UserRow
        /\ \A x \in Range(seen) \intersect (F \union Groups) :
             Before(F, x) + AtMost(FetchLimit, Before(Groups, x)) < offset
        /\ \A x \in Row : AtMost(FetchLimit, Before(Users, x)) <= Before(F, x)
    BY DEF PlacesInv, SortedPlaces
  <2>2. F \in Rows /\ F \subseteq Row /\ \A x \in F : x \in Nat
    BY <1>2, RangeOfRows, ConstantTypes
  <2>3. ASSUME NEW x \in Range(seen) \intersect (F \union G)
        PROVE  Before(F, x) + AtMost(FetchLimit, Before(G, x)) < offset
    <3>1. x \in Nat /\ x \in F \union Groups
      BY <1>5, <2>2
    <3>2. /\ Before(F, x) + AtMost(FetchLimit, Before(Groups, x)) < offset
          /\ Before(G, x) <= Before(Groups, x)
          /\ Before(G, x) \in Nat /\ Before(Groups, x) \in Nat /\ Before(F, x) \in Nat
      BY <1>3, <2>1, <2>2, <3>1, BeforeType
    <3> QED
      BY ONLY <1>2, <3>2 DEF AtMost
  <2>4. ASSUME NEW x \in Row
        PROVE  AtMost(FetchLimit, Before(U, x)) <= Before(F, x)
    <3>1. x \in Nat
      BY ConstantTypes
    <3>2. /\ AtMost(FetchLimit, Before(Users, x)) <= Before(F, x)
          /\ Before(U, x) <= Before(Users, x)
          /\ Before(U, x) \in Nat /\ Before(Users, x) \in Nat /\ Before(F, x) \in Nat
      BY <1>3, <2>1, <2>2, <3>1, BeforeType
    <3> QED
      BY ONLY <1>2, <3>2 DEF AtMost
  <2> QED
    BY <2>1, <2>3, <2>4
<1> QED
  BY <1>6, <1>7, <1>8, <1>9 DEF PlacesInv
LEMMA ParsePlaces ==
  ASSUME WalkInv, PlacesInv, Undisturbed, Parse
  PROVE  PlacesInv'
<1>0. TypeOK
  BY DEF WalkInv
<1>1. /\ pc = "ask" /\ pc' \in {"count", "refused"}
      /\ UNCHANGED <<walkVars, clientVars, readVars, dbVars, faults, now>>
  BY <1>0, ParseEffect
<1>2. /\ rows' = rows /\ endpoint' = endpoint /\ isCursor' = isCursor /\ token' = token
      /\ startIndex' = startIndex /\ seen' = seen /\ pc = "ask"
      /\ pc' # "got" /\ pc' # "end"
  BY <1>1
<1>3. Reached' = Reached /\ pc # "end"
  BY ONLY <1>2 DEF Reached, NextStart
<1>4. PlacesKept' /\ DeletionsNeverRepeat'
  BY <1>2, <1>3, QuietPlaces
<1> QED
  BY <1>1, <1>4 DEF PlacesInv, RootPlaces, SortedPlaces

\* Going on, the client asks for what follows the page it got.
LEMMA ProceedPlaces ==
  ASSUME WalkInv, PlacesInv, Undisturbed, Proceed
  PROVE  PlacesInv'
<1>1. /\ pc = "got" /\ pc' \in {"ask", "end"}
      /\ pc' = "ask" /\ isCursor => token # NoCursor
      /\ UNCHANGED <<walkVars, clientVars, pageVars, readVars, dbVars, faults, now>>
  BY DEF Proceed
<1>2. /\ rows' = rows /\ endpoint' = endpoint /\ isCursor' = isCursor /\ token' = token
      /\ startIndex' = startIndex /\ seen' = seen /\ inserted' = inserted /\ faults' = faults
  BY <1>1
<1>3. PlacesKept' /\ DeletionsNeverRepeat'
  <2>1. CASE pc' = "ask"
    <3>1. NextStart = offset + Len(page)
      BY <1>1, <2>1 DEF WalkInv, WalkShape
    <3>2. pc = "got"
      BY <1>1
    <3>3. Reached' = Reached /\ pc # "end"
      BY ONLY <1>2, <2>1, <3>1, <3>2 DEF Reached, NextStart
    <3> QED
      BY <1>2, <3>3, QuietPlaces
  <2>2. CASE pc' = "end"
    BY <1>2, <2>2 DEF PlacesKept, PlacesInv, DeletionsNeverRepeat, Undisturbed
  <2> QED
    BY <1>1, <2>1, <2>2
<1> QED
  BY <1>1, <1>3 DEF PlacesInv, RootPlaces, SortedPlaces

LEMMA StillPlaces ==
  ASSUME PlacesInv, UNCHANGED <<walkVars, clientVars, pc, pageVars, readVars, dbVars, faults>>
  PROVE  PlacesInv'
<1>1. /\ rows' = rows /\ endpoint' = endpoint /\ isCursor' = isCursor /\ token' = token
      /\ startIndex' = startIndex /\ seen' = seen /\ inserted' = inserted /\ faults' = faults
      /\ pc' = pc /\ offset' = offset /\ count' = count /\ page' = page
      /\ totUsers' = totUsers /\ fetched' = fetched
  OBVIOUS
<1>0. Undisturbed' <=> Undisturbed
  BY DEF Undisturbed, SortsAlike
<1>2. Reached' = Reached
  BY ONLY <1>1 DEF Reached, NextStart
<1>3. PlacesKept' /\ DeletionsNeverRepeat'
  <2>1. CASE Undisturbed /\ pc # "end"
    BY <1>1, <1>2, <2>1, QuietPlaces
  <2>2. CASE ~(Undisturbed /\ pc # "end")
    BY <1>0, <1>1, <2>2 DEF PlacesInv, PlacesKept, DeletionsNeverRepeat, Undisturbed
  <2> QED
    BY <2>1, <2>2
<1>4. RootPlaces'
  BY ONLY <1>0, <1>1, PlacesInv DEF PlacesInv, RootPlaces, Users, Groups, Before, Range
<1>5. SortedPlaces'
  <2>1. /\ FetchLimit' = FetchLimit /\ Users' = Users /\ Groups' = Groups
        /\ Range(fetched)' = Range(fetched) /\ Range(seen)' = Range(seen)
    BY <1>1 DEF FetchLimit, Users, Groups, Range
  <2> QED
    BY <1>0, <1>1, <2>1 DEF PlacesInv, SortedPlaces, Before, AtMost
<1> QED
  BY <1>3, <1>4, <1>5 DEF PlacesInv

LEMMA PlacesInit == Init => PlacesInv
<1> SUFFICES ASSUME Init PROVE PlacesInv
  OBVIOUS
<1>1. seen = <<>> /\ pc = "ask" /\ Range(seen) = {}
  BY DEF Init, Range
<1> QED
  BY <1>1 DEF PlacesInv, PlacesKept, Placed, RootPlaces, SortedPlaces, DeletionsNeverRepeat

LEMMA PlacesStep == WalkInv /\ PlacesInv /\ [Next]_vars => PlacesInv'
<1> SUFFICES ASSUME WalkInv, PlacesInv, [Next]_vars PROVE PlacesInv'
  OBVIOUS
<1>1. CASE ~Undisturbed'
  BY <1>1 DEF PlacesInv, PlacesKept, RootPlaces, SortedPlaces, DeletionsNeverRepeat, Undisturbed
<1>2. CASE Undisturbed'
  <2>1. Undisturbed /\ ~(\E x \in Row : RowInserted(x)) /\ ~StatementFails
    BY <1>2, DisturbedForGood DEF WalkInv
  <2>2. CASE Parse
    BY <2>1, <2>2, ParsePlaces
  <2>3. CASE CountUsers
    BY <2>1, <2>3, CountUsersPlaces
  <2>4. CASE CountGroups
    BY <2>1, <2>4, CountGroupsPlaces
  <2>5. CASE ListUsers
    BY <2>1, <2>5, ListUsersPlaces
  <2>6. CASE ListRootUsers
    BY <1>2, <2>1, <2>6, ListRootUsersPlaces
  <2>7. CASE ListRootGroups
    BY <1>2, <2>1, <2>7, ListRootGroupsPlaces
  <2>8. CASE ListSortedUsers
    BY <1>2, <2>1, <2>8, ListSortedUsersPlaces
  <2>9. CASE ListSortedGroups
    BY <1>2, <2>1, <2>9, ListSortedGroupsPlaces
  <2>10. CASE Proceed
    BY <2>1, <2>10, ProceedPlaces
  <2>11. CASE \E x \in Row : RowDeleted(x)
    BY <2>1, <2>11, RowDeletedPlaces
  <2>12. CASE Tick \/ WalkOver \/ UNCHANGED vars
    <3>1. UNCHANGED <<walkVars, clientVars, pc, pageVars, readVars, dbVars, faults>>
      BY <2>12 DEF Tick, WalkOver
    <3> QED
      BY <3>1, StillPlaces
  <2> QED
    BY <2>1, <2>2, <2>3, <2>4, <2>5, <2>6, <2>7, <2>8, <2>9, <2>10, <2>11, <2>12
       DEF Next, Walk
<1> QED
  BY <1>1, <1>2

\* When rows are only deleted, and no statement fails, no page shows a resource that
\* an earlier one showed, whichever of the statements of RootSearch the deletions
\* fall between: a cursor points past everything the client got, for good.  Sorted
\* results of two tables need ORDER BY and sortResources to sort rows alike.
THEOREM DeletionsOnce == SafetySpec => []DeletionsNeverRepeat
<1>1. WalkInv /\ PlacesInv /\ [Next]_vars => (WalkInv /\ PlacesInv)'
  BY WalkStep, PlacesStep
<1>2. Init => WalkInv /\ PlacesInv
  BY WalkInit, PlacesInit
<1>3. PlacesInv => DeletionsNeverRepeat
  BY DEF PlacesInv
<1> QED
  BY <1>1, <1>2, <1>3, PTL DEF SafetySpec
-----------------------------------------------------------------------------
(* Undisturbed, the walk yields the whole collection. *)

\* What a complete walk is to yield, by the tables it is made of.
LEMMA OrderShape ==
  ASSUME TypeOK, FiniteTables, rows = SeedRows
  PROVE  /\ InOrder \in Seq(Row) /\ Len(InOrder) \in Nat
         /\ endpoint = "users" =>
              InOrder = Sorted(Users) /\ Len(InOrder) = Cardinality(Users)
         /\ endpoint = "root" =>
              /\ Len(InOrder) = Cardinality(Users) + Cardinality(Groups)
              /\ \A i \in 1 .. Cardinality(Users) : InOrder[i] = Sorted(Users)[i]
              /\ \A i \in 1 .. Cardinality(Groups) :
                   InOrder[Cardinality(Users) + i] = Sorted(Groups)[i]
         /\ endpoint = "sorted" =>
              /\ InOrder = Sorted(rows) /\ Len(InOrder) = Cardinality(rows)
              /\ Cardinality(rows) = Cardinality(Users) + Cardinality(Groups)
<1>1. /\ rows \in Rows /\ Users \in Rows /\ Groups \in Rows
      /\ rows = Users \union Groups /\ Users \intersect Groups = {}
      /\ rows \subseteq Row
  BY TablesAreRows DEF TypeOK
<1>2. Users = SeedRows \intersect UserRow /\ Groups = SeedRows \intersect GroupRow
  BY DEF Users, Groups
<1> PICK s : s = Sorted(Users)
  OBVIOUS
<1> PICK t : t = Sorted(Groups)
  OBVIOUS
<1> PICK m : m = Cardinality(Users)
  OBVIOUS
<1> PICK n : n = Cardinality(Groups)
  OBVIOUS
<1>3. /\ s \in Seq(Row) /\ Len(s) = m /\ m \in Nat /\ t \in Seq(Row) /\ Len(t) = n /\ n \in Nat
  <2>1. /\ s \in Seq(Users) /\ Len(s) = m /\ m \in Nat
        /\ t \in Seq(Groups) /\ Len(t) = n /\ n \in Nat
    BY <1>1, SortedRows
  <2>2. Users \subseteq Row /\ Groups \subseteq Row
    BY <1>1
  <2>3. s \in Seq(Row) /\ t \in Seq(Row)
    BY ONLY <2>1, <2>2
  <2> QED
    BY <2>1, <2>3
<1>4. CASE endpoint = "users"
  <2>1. InOrder = s
    BY <1>2, <1>4 DEF InOrder, Collection
  <2> QED
    BY <1>3, <1>4, <2>1
<1>5. CASE endpoint = "root"
  <2>1. InOrder = s \o t
    BY <1>2, <1>5 DEF InOrder, Collection
  <2>2. /\ s \o t \in Seq(Row) /\ Len(s \o t) = m + n
        /\ \A i \in 1 .. m + n : (s \o t)[i] = IF i <= m THEN s[i] ELSE t[i - m]
    BY ONLY <1>3, ConcatProperties
  <2>3. \A i \in 1 .. m : (s \o t)[i] = s[i]
    <3> SUFFICES ASSUME NEW i \in 1 .. m PROVE (s \o t)[i] = s[i]
      OBVIOUS
    <3>1. i \in 1 .. m + n /\ i <= m
      BY ONLY <1>3, i \in 1 .. m
    <3> QED
      BY <2>2, <3>1
  <2>4. \A i \in 1 .. n : (s \o t)[m + i] = t[i]
    <3> SUFFICES ASSUME NEW i \in 1 .. n PROVE (s \o t)[m + i] = t[i]
      OBVIOUS
    <3>1. m + i \in 1 .. m + n /\ ~(m + i <= m) /\ (m + i) - m = i
      BY ONLY <1>3, i \in 1 .. n
    <3> QED
      BY <2>2, <3>1
  <2> QED
    BY <1>3, <1>5, <2>1, <2>2, <2>3, <2>4
<1>6. CASE endpoint = "sorted"
  <2>1. InOrder = Sorted(rows)
    BY <1>6 DEF InOrder, Collection
  <2>2. Sorted(rows) \in Seq(rows) /\ Len(Sorted(rows)) = Cardinality(rows)
        /\ Cardinality(rows) \in Nat
    BY <1>1, SortedRows
  <2>3. Sorted(rows) \in Seq(Row)
    BY ONLY <1>1, <2>2
  <2>4. Cardinality(rows) = m + n
    <3>1. 0 \in Nat
      OBVIOUS
    <3> QED
      BY <1>1, <3>1, BeforeUnion
  <2> QED
    BY <1>6, <2>1, <2>2, <2>3, <2>4
<1>7. endpoint \in {"users", "root", "sorted"}
  BY PagingAssumption DEF TypeOK
<1> QED
  BY <1>4, <1>5, <1>6, <1>7

LEMMA UntouchedForGood ==
  ASSUME TypeOK, [Next]_vars, Untouched'
  PROVE  /\ Untouched /\ rows' = rows /\ endpoint' = endpoint
         /\ ~(\E x \in Row : RowInserted(x) \/ RowDeleted(x)) /\ ~StatementFails
<1>1. Undisturbed'
  BY DEF Untouched, Undisturbed
<1>2. Undisturbed /\ ~(\E x \in Row : RowInserted(x)) /\ ~StatementFails
  BY <1>1, DisturbedForGood
<1>3. \A x \in Row : ~RowDeleted(x)
  BY DEF RowDeleted, Untouched
<1>4. rows' = rows /\ deleted' = deleted /\ endpoint' = endpoint
  BY <1>2, <1>3, Zenon DEF Next, Walk, Parse, CountUsers, CountGroups, ListUsers,
     ListRootUsers, ListRootGroups, ListSortedUsers, ListSortedGroups, Proceed, Reading,
     Tick, WalkOver
<1>5. endpoint = "sorted" => SortsAlike /\ Cardinality(SeedRows) <= MaxResults
  BY AlikeForGood DEF Untouched
<1> QED
  BY <1>2, <1>3, <1>4, <1>5 DEF Untouched, Undisturbed
\* A page that is the next part of the collection.
LEMMA AnswerPrefix ==
  ASSUME WalkInv, Prefix, Untouched, rows' = rows, pc \in InPage,
         NEW resources \in Seq(Row), NEW tot,
         Answer(resources, tot), UNCHANGED <<walkVars, pageVars>>,
         tot = Len(InOrder), offset + Len(resources) <= Len(InOrder),
         \A i \in 1 .. Len(resources) : resources[i] = InOrder[offset + i],
         count > 0 /\ resources = <<>> => offset = Len(InOrder)
  PROVE  PrefixInv'
<1>0. TypeOK /\ FiniteTables
  BY DEF WalkInv
<1>1. rows = SeedRows
  BY DEF Prefix
<1> PICK order : order = InOrder
  OBVIOUS
<1> PICK n : n = Len(resources)
  OBVIOUS
<1>2. /\ offset \in Nat /\ n \in Nat /\ seen \in Seq(Row) /\ Len(order) \in Nat
  BY <1>0, <1>1, NumberTypes, LenProperties, OrderShape DEF TypeOK
<1>3. /\ seen' = seen \o resources /\ page' = resources /\ pc' = "got" /\ total' = tot
      /\ endpoint' = endpoint /\ offset' = offset /\ count' = count
  BY DEF Answer
<1>4. Len(seen) = offset /\ \A i \in 1 .. Len(seen) : seen[i] = order[i]
  BY DEF Prefix, WalkInv, WalkShape, Reached, InPage
<1>5. /\ Len(seen') = offset + n
      /\ \A i \in 1 .. offset + n :
           seen'[i] = IF i <= offset THEN seen[i] ELSE resources[i - offset]
  BY <1>2, <1>3, <1>4, ConcatProperties
<1>6. InOrder' = order
  BY <1>3 DEF InOrder, Collection
<1>7. \A i \in 1 .. offset + n : seen'[i] = order[i]
  <2> SUFFICES ASSUME NEW i \in 1 .. offset + n PROVE seen'[i] = order[i]
    OBVIOUS
  <2>1. CASE i <= offset
    <3>1. i \in 1 .. Len(seen)
      BY ONLY <1>2, <1>4, <2>1, i \in 1 .. offset + n
    <3> QED
      BY <1>4, <1>5, <2>1, <3>1
  <2>2. CASE ~(i <= offset)
    <3>1. i - offset \in 1 .. n /\ offset + (i - offset) = i
      BY ONLY <1>2, <2>2, i \in 1 .. offset + n
    <3>2. resources[i - offset] = order[offset + (i - offset)]
      BY <3>1
    <3>3. seen'[i] = resources[i - offset]
      BY <1>5, <2>2
    <3> QED
      BY ONLY <3>1, <3>2, <3>3
  <2> QED
    BY <2>1, <2>2
<1>8. Reached' = Len(seen')
  BY <1>3, <1>5 DEF Reached
<1>9. page' = <<>> /\ count' > 0 => Len(seen') = Len(order)
  <2>1. resources = <<>> => n = 0
    BY EmptySeq
  <2>2. resources = <<>> /\ count > 0 => offset = Len(order)
    OBVIOUS
  <2>3. n = 0 /\ offset = Len(order) => Len(seen') = Len(order)
    BY ONLY <1>2, <1>5
  <2> QED
    BY ONLY <1>3, <2>1, <2>2, <2>3, Zenon
<1>10. Prefix'
  <2>1. rows' = SeedRows
    BY <1>1
  <2>2. Len(seen') <= Len(order) /\ total' = Len(order)
    BY <1>3, <1>5
  <2> QED
    BY <1>3, <1>5, <1>6, <1>7, <1>8, <1>9, <2>1, <2>2 DEF Prefix, InPage
<1>11. WalkComplete'
  BY <1>3 DEF WalkComplete
<1> QED
  BY <1>10, <1>11 DEF PrefixInv

\* A part of a table.
LEMMA ListedPart ==
  ASSUME NEW S \in Rows, S \subseteq Row, NEW k \in Nat, NEW n \in Nat, k <= Cardinality(S)
  PROVE  /\ Listed(S, k, n) \in Seq(Row) /\ Len(Listed(S, k, n)) \in Nat
         /\ Len(Listed(S, k, n)) <= n
         /\ k + Len(Listed(S, k, n)) <= Cardinality(S)
         /\ Len(Listed(S, k, n)) = n \/ k + Len(Listed(S, k, n)) = Cardinality(S)
         /\ \A i \in 1 .. Len(Listed(S, k, n)) :
              k + i \in 1 .. Cardinality(S) /\ Listed(S, k, n)[i] = Sorted(S)[k + i]
<1> PICK L : L = Listed(S, k, n)
  OBVIOUS
<1> PICK c : c = Cardinality(S)
  OBVIOUS
<1>1. L \in Seq(Row) /\ Len(L) \in Nat /\ Len(L) <= n /\ c \in Nat
  BY ListedType, SortedRows
<1>2. Len(L) = IF k < c THEN AtMost(c, k + n) - k ELSE 0
  BY ListedRows
<1>3. \A i \in 1 .. Len(L) : L[i] = Sorted(S)[k + i]
  BY ListedRows
<1>4. k + Len(L) <= c /\ (Len(L) = n \/ k + Len(L) = c)
  BY ONLY <1>1, <1>2, k \in Nat, n \in Nat, k <= c DEF AtMost
<1>5. \A i \in 1 .. Len(L) : k + i \in 1 .. c
  BY ONLY <1>1, <1>4, k \in Nat
<1> QED
  BY <1>1, <1>3, <1>4, <1>5

LEMMA EmptyAtEnd ==
  ASSUME WalkInv, Prefix, Untouched, pc \in InPage, count = 0
  PROVE  /\ <<>> \in Seq(Row) /\ offset + Len(<<>>) <= Len(InOrder)
         /\ \A i \in 1 .. Len(<<>>) : <<>>[i] = InOrder[offset + i]
         /\ ~(count > 0)
<1>1. TypeOK /\ FiniteTables /\ rows = SeedRows
  BY DEF WalkInv, Prefix
<1>2. offset \in Nat /\ Len(InOrder) \in Nat
  BY <1>1, NumberTypes, OrderShape
<1>3. offset <= Len(InOrder)
  BY DEF Prefix, WalkInv, WalkShape, Reached, InPage
<1>4. Len(<<>>) = 0 /\ <<>> \in Seq(Row)
  OBVIOUS
<1>5. offset + Len(<<>>) <= Len(InOrder) /\ \A i \in 1 .. Len(<<>>) : FALSE
  BY ONLY <1>2, <1>3, <1>4
<1> QED
  BY <1>4, <1>5
LEMMA ReadPrefix ==
  ASSUME WalkInv, Prefix, Untouched, rows' = rows, pc \in InPage, pc' \in InPage,
         UNCHANGED <<walkVars, clientVars, pageVars>>,
         pc' # "count" => totUsers' = Cardinality(Users),
         pc' \in {"list", "list groups"} /\ endpoint # "users" =>
           totGroups' = Cardinality(Groups),
         pc' = "list groups" /\ endpoint = "root" /\ offset < totUsers' =>
           fetched' = Listed(Users, offset, totUsers' - offset),
         pc' = "list groups" /\ endpoint = "sorted" =>
           fetched' = Listed(Users, 0, FetchLimit)
  PROVE  PrefixInv'
<1>1. /\ endpoint' = endpoint /\ isCursor' = isCursor /\ token' = token
      /\ startIndex' = startIndex /\ seen' = seen /\ offset' = offset /\ count' = count
      /\ pc # "got" /\ pc' # "got" /\ pc # "end" /\ pc' # "end" /\ pc # "refused"
  BY DEF InPage
<1>2. Reached' = Reached
  BY ONLY <1>1 DEF Reached, NextStart
<1>3. InOrder' = InOrder
  BY <1>1 DEF InOrder, Collection
<1>4. Users' = Users /\ Groups' = Groups /\ FetchLimit' = FetchLimit
  BY <1>1 DEF Users, Groups, FetchLimit
<1>5. /\ Cardinality(Users)' = Cardinality(Users) /\ Cardinality(Groups)' = Cardinality(Groups)
      /\ Listed(Users, 0, FetchLimit)' = Listed(Users, 0, FetchLimit)
      /\ Listed(Users, offset, totUsers - offset)' = Listed(Users, offset, totUsers' - offset)
  <2>1. Cardinality(Users)' = Cardinality(Users) /\ Cardinality(Groups)' = Cardinality(Groups)
    BY <1>4
  <2>2. Listed(Users, 0, FetchLimit)' = Listed(Users, 0, FetchLimit)
    BY <1>4
  <2>3. Listed(Users, offset, totUsers - offset)' = Listed(Users, offset, totUsers' - offset)
    BY <1>1, <1>4
  <2> QED
    BY <2>1, <2>2, <2>3
<1>6. /\ Len(seen) = Reached /\ Len(seen) <= Len(InOrder)
      /\ \A i \in 1 .. Len(seen) : seen[i] = InOrder[i]
      /\ rows = SeedRows
  BY <1>1 DEF Prefix
<1>7. /\ rows' = SeedRows
      /\ Len(seen)' = Reached' /\ Len(seen)' <= Len(InOrder)'
      /\ \A i \in 1 .. Len(seen)' : seen'[i] = InOrder'[i]
  BY <1>1, <1>2, <1>3, <1>6
<1>8. /\ pc' \in InPage \ {"count"} => totUsers' = Cardinality(Users)'
      /\ pc' \in {"list", "list groups"} /\ endpoint' # "users" =>
           totGroups' = Cardinality(Groups)'
      /\ pc' = "list groups" /\ endpoint' = "root" /\ offset' < totUsers' =>
           fetched' = Listed(Users, offset, totUsers - offset)'
      /\ pc' = "list groups" /\ endpoint' = "sorted" =>
           fetched' = Listed(Users, 0, FetchLimit)'
  BY <1>1, <1>5
<1>9. Prefix'
  BY <1>1, <1>7, <1>8 DEF Prefix, InPage
<1>10. WalkComplete'
  BY <1>1 DEF WalkComplete
<1> QED
  BY <1>9, <1>10 DEF PrefixInv

LEMMA CountUsersPrefix ==
  ASSUME WalkInv, Prefix, Untouched, rows' = rows, CountUsers
  PROVE  PrefixInv'
<1>0. TypeOK /\ FiniteTables /\ rows = SeedRows
  BY DEF WalkInv, Prefix
<1>1. /\ pc = "count" /\ pc \in InPage /\ totUsers' = Cardinality(Users)
      /\ UNCHANGED <<walkVars, pageVars>>
  BY DEF CountUsers, Reading, InPage
<1>2. CASE endpoint = "users" /\ count = 0
  <2>1. Answer(<<>>, Cardinality(Users))
    BY <1>2 DEF CountUsers
  <2>2. /\ <<>> \in Seq(Row) /\ offset + Len(<<>>) <= Len(InOrder)
        /\ \A i \in 1 .. Len(<<>>) : <<>>[i] = InOrder[offset + i]
        /\ ~(count > 0)
    BY <1>1, <1>2, EmptyAtEnd
  <2>3. Cardinality(Users) = Len(InOrder)
    BY <1>0, <1>2, OrderShape
  <2> QED
    BY <1>1, <2>1, <2>2, <2>3, AnswerPrefix
<1>3. CASE ~(endpoint = "users" /\ count = 0)
  <2>1. /\ pc' = IF endpoint = "users" THEN "list" ELSE "count groups"
        /\ UNCHANGED <<clientVars, fetched>>
    BY <1>3 DEF CountUsers
  <2>2. pc' \in InPage /\ pc' # "list groups" /\ (pc' = "list" => endpoint = "users")
    BY <2>1 DEF InPage
  <2> QED
    BY <1>1, <2>1, <2>2, ReadPrefix
<1> QED
  BY <1>2, <1>3

LEMMA CountGroupsPrefix ==
  ASSUME WalkInv, Prefix, Untouched, rows' = rows, CountGroups
  PROVE  PrefixInv'
<1>0. TypeOK /\ FiniteTables /\ rows = SeedRows
  BY DEF WalkInv, Prefix
<1>1. /\ pc = "count groups" /\ pc \in InPage /\ endpoint # "users"
      /\ totUsers' = totUsers /\ totGroups' = Cardinality(Groups)
      /\ UNCHANGED <<walkVars, pageVars>>
  BY DEF CountGroups, Reading, InPage, WalkInv, PageShape
<1>2. totUsers = Cardinality(Users)
  BY <1>1 DEF Prefix
<1>3. CASE count = 0 /\ Answer(<<>>, totUsers + Cardinality(Groups))
  <2>1. /\ <<>> \in Seq(Row) /\ offset + Len(<<>>) <= Len(InOrder)
        /\ \A i \in 1 .. Len(<<>>) : <<>>[i] = InOrder[offset + i]
        /\ ~(count > 0)
    BY <1>1, <1>3, EmptyAtEnd
  <2>2. endpoint \in {"root", "sorted"}
    BY <1>0, <1>1, PagingAssumption DEF TypeOK
  <2>3. totUsers + Cardinality(Groups) = Len(InOrder)
    BY <1>0, <1>2, <2>2, OrderShape
  <2> QED
    BY <1>1, <1>3, <2>1, <2>3, AnswerPrefix
<1>4. CASE /\ pc' = IF endpoint = "root" /\ offset >= totUsers THEN "list groups" ELSE "list"
           /\ UNCHANGED <<clientVars, fetched>>
  <2>1. pc' \in InPage /\ ~(pc' = "list groups" /\ endpoint = "sorted")
    BY <1>4 DEF InPage
  <2>2. ~(pc' = "list groups" /\ offset < totUsers')
    <3>1. offset \in Nat /\ totUsers \in Nat
      BY <1>0, NumberTypes
    <3>2. ASSUME offset >= totUsers PROVE ~(offset < totUsers)
      BY ONLY <3>1, <3>2
    <3> QED
      BY <1>1, <1>4, <3>2
  <2> QED
    BY <1>1, <1>2, <1>4, <2>1, <2>2, ReadPrefix
<1> QED
  BY <1>3, <1>4 DEF CountGroups

LEMMA ListUsersPrefix ==
  ASSUME WalkInv, Prefix, Untouched, rows' = rows, ListUsers
  PROVE  PrefixInv'
<1>0. TypeOK /\ FiniteTables /\ rows = SeedRows
  BY DEF WalkInv, Prefix
<1> PICK L : L = Listed(Users, offset, count)
  OBVIOUS
<1>1. /\ pc = "list" /\ pc \in InPage /\ endpoint = "users" /\ Answer(L, totUsers)
      /\ UNCHANGED <<walkVars, pageVars>>
  BY DEF ListUsers, Reading, InPage
<1>2. totUsers = Cardinality(Users) /\ offset <= Len(InOrder)
  BY <1>1 DEF Prefix, WalkInv, WalkShape, Reached, InPage
<1>3. InOrder = Sorted(Users) /\ Len(InOrder) = Cardinality(Users)
  BY <1>0, <1>1, OrderShape
<1>4. /\ Users \in Rows /\ Users \subseteq Row /\ offset \in Nat /\ count \in Nat
      /\ offset <= Cardinality(Users) /\ Cardinality(Users) \in Nat
  BY <1>0, <1>2, <1>3, TablesAreRows, NumberTypes DEF Row
<1>5. /\ L \in Seq(Row) /\ Len(L) \in Nat /\ offset + Len(L) <= Cardinality(Users)
      /\ Len(L) = count \/ offset + Len(L) = Cardinality(Users)
      /\ \A i \in 1 .. Len(L) : L[i] = Sorted(Users)[offset + i]
  BY <1>4, ListedPart
<1>6. count > 0 /\ L = <<>> => offset = Len(InOrder)
  <2>1. L = <<>> => Len(L) = 0
    BY EmptySeq
  <2> QED
    BY ONLY <1>3, <1>4, <1>5, <2>1
<1> QED
  BY <1>1, <1>2, <1>3, <1>5, <1>6, AnswerPrefix
LEMMA ListRootUsersPrefix ==
  ASSUME WalkInv, Prefix, Untouched, Untouched', rows' = rows, ListRootUsers
  PROVE  PrefixInv'
<1>0. TypeOK /\ FiniteTables /\ rows = SeedRows
  BY DEF WalkInv, Prefix
<1> PICK n : n = AtMost(count, totUsers - offset)
  OBVIOUS
<1> PICK L : L = Listed(Users, offset, n)
  OBVIOUS
<1>1. /\ pc = "list" /\ pc \in InPage /\ endpoint = "root" /\ offset < totUsers
      /\ n \in Nat /\ n <= count /\ n <= totUsers - offset
      /\ \/ /\ Len(L) < count /\ fetched' = L /\ pc' = "list groups"
            /\ UNCHANGED clientVars
         \/ Answer(L, totUsers + totGroups)
      /\ UNCHANGED <<walkVars, pageVars, totUsers, totGroups>>
  BY RootUsersEffect DEF Untouched, InPage
<1>2. totUsers = Cardinality(Users) /\ totGroups = Cardinality(Groups)
  BY <1>1 DEF Prefix
<1>3. /\ Users \in Rows /\ Users \subseteq Row /\ offset \in Nat /\ count \in Nat
      /\ totUsers \in Nat /\ totGroups \in Nat
  BY <1>0, TablesAreRows, NumberTypes DEF Row
<1>4. /\ L \in Seq(Row) /\ Len(L) \in Nat /\ offset + Len(L) <= totUsers
      /\ Len(L) = n \/ offset + Len(L) = totUsers
      /\ \A i \in 1 .. Len(L) :
           offset + i \in 1 .. totUsers /\ L[i] = Sorted(Users)[offset + i]
  <2>1. offset < totUsers /\ n \in Nat
    BY <1>1
  <2>2. offset <= Cardinality(Users)
    BY ONLY <1>2, <1>3, <2>1
  <2>3. /\ Users \in Rows /\ Users \subseteq Row /\ offset \in Nat /\ n \in Nat
        /\ offset <= Cardinality(Users) /\ totUsers = Cardinality(Users)
        /\ L = Listed(Users, offset, n)
    BY <1>2, <1>3, <2>1, <2>2
  <2> QED
    BY ONLY <2>3, ListedPart
<1>5. /\ Len(InOrder) = totUsers + totGroups
      /\ \A i \in 1 .. totUsers : InOrder[i] = Sorted(Users)[i]
  BY <1>0, <1>1, <1>2, OrderShape
<1>6. n = count \/ n = totUsers - offset
  BY DEF AtMost
<1>7. CASE Answer(L, totUsers + totGroups)
  <2>1. \A i \in 1 .. Len(L) : L[i] = InOrder[offset + i]
    BY <1>4, <1>5
  <2>2. offset + Len(L) <= Len(InOrder)
    BY ONLY <1>3, <1>4, <1>5
  <2>3. ~(count > 0 /\ L = <<>>)
    <3>1. L = <<>> => Len(L) = 0
      BY EmptySeq
    <3>2. offset < totUsers
      BY <1>1
    <3> QED
      BY ONLY <1>3, <1>4, <1>6, <3>1, <3>2
  <2> QED
    BY <1>1, <1>4, <1>5, <1>7, <2>1, <2>2, <2>3, AnswerPrefix
<1>8. CASE Len(L) < count /\ fetched' = L /\ pc' = "list groups" /\ UNCHANGED clientVars
  <2>1. n = totUsers - offset
    <3>1. offset < totUsers /\ n \in Nat /\ n <= totUsers - offset /\ Len(L) < count
      BY <1>1, <1>8
    <3> QED
      BY ONLY <1>3, <1>4, <1>6, <3>1
  <2>2. fetched' = Listed(Users, offset, totUsers' - offset)
    BY <1>1, <1>8, <2>1
  <2>3. totUsers' = Cardinality(Users) /\ totGroups' = Cardinality(Groups)
    BY <1>1, <1>2
  <2> QED
    BY <1>1, <1>8, <2>2, <2>3, ReadPrefix DEF InPage
<1> QED
  BY <1>1, <1>7, <1>8

LEMMA ListRootGroupsPrefix ==
  ASSUME WalkInv, Prefix, Untouched, Untouched', rows' = rows, ListRootGroups
  PROVE  PrefixInv'
<1>0. TypeOK /\ FiniteTables /\ rows = SeedRows
  BY DEF WalkInv, Prefix
<1> PICK L : L = RootPart
  OBVIOUS
<1> PICK f : f = fetched
  OBVIOUS
<1> PICK u : u = Cardinality(Users)
  OBVIOUS
<1> PICK g : g = Cardinality(Groups)
  OBVIOUS
<1>1. /\ pc = "list groups" /\ pc \in InPage /\ endpoint = "root" /\ L \in Seq(Row)
      /\ Len(f) <= count /\ (offset >= totUsers => f = <<>>)
      /\ UNCHANGED <<walkVars, pageVars>>
      /\ Answer(f \o L, totUsers + totGroups)
  BY RootGroupsEffect DEF Untouched, InPage
<1>2. totUsers = u /\ totGroups = g /\ offset <= Len(InOrder)
      /\ (offset < u => f = Listed(Users, offset, u - offset))
  BY <1>1 DEF Prefix, WalkInv, WalkShape, Reached, InPage
<1>3. /\ Users \in Rows /\ Users \subseteq Row /\ Groups \in Rows /\ Groups \subseteq Row
      /\ offset \in Nat /\ count \in Nat /\ u \in Nat /\ g \in Nat
  BY <1>0, TablesAreRows, NumberTypes DEF Row
<1>4. /\ Len(InOrder) = u + g
      /\ \A i \in 1 .. u : InOrder[i] = Sorted(Users)[i]
      /\ \A i \in 1 .. g : InOrder[u + i] = Sorted(Groups)[i]
  BY <1>0, <1>1, OrderShape
<1>5. /\ f \o L \in Seq(Row) /\ offset + Len(f \o L) <= Len(InOrder)
      /\ \A i \in 1 .. Len(f \o L) : (f \o L)[i] = InOrder[offset + i]
      /\ count > 0 /\ f \o L = <<>> => offset = Len(InOrder)
  <2>1. CASE offset < u
    <3>1. f = Listed(Users, offset, u - offset) /\ u - offset \in Nat /\ offset <= u
      BY <1>2, <1>3, <2>1
    <3>2. /\ f \in Seq(Row) /\ Len(f) \in Nat /\ offset + Len(f) <= u /\ Len(f) <= u - offset
          /\ Len(f) = u - offset \/ offset + Len(f) = u
          /\ \A i \in 1 .. Len(f) : offset + i \in 1 .. u /\ f[i] = Sorted(Users)[offset + i]
      <4> PICK k : k = u - offset
        OBVIOUS
      <4>1. /\ Users \in Rows /\ Users \subseteq Row /\ offset \in Nat /\ k \in Nat
            /\ offset <= u /\ u = Cardinality(Users) /\ f = Listed(Users, offset, k)
        BY <1>3, <3>1
      <4>2. /\ f \in Seq(Row) /\ Len(f) \in Nat /\ offset + Len(f) <= u /\ Len(f) <= k
            /\ Len(f) = k \/ offset + Len(f) = u
            /\ \A i \in 1 .. Len(f) :
                 offset + i \in 1 .. u /\ f[i] = Sorted(Users)[offset + i]
        BY ONLY <4>1, ListedPart
      <4> QED
        BY <4>2
    <3>3. Len(f) = u - offset
      BY ONLY <1>3, <3>1, <3>2
    <3>4. /\ Wanted(Len(fetched)) \in Nat /\ L = Listed(Groups, 0, Wanted(Len(fetched)))
      <4>1. Len(fetched) <= count /\ Len(fetched) \in Nat
        BY <1>1, <3>2
      <4>2. Wanted(Len(fetched)) \in Nat
        BY ONLY <1>3, <4>1 DEF Wanted
      <4>3. ~(offset >= totUsers)
        <5>1. totUsers = u
          BY <1>2
        <5> QED
          BY ONLY <1>3, <2>1, <5>1
      <4> QED
        BY <4>2, <4>3 DEF RootPart
    <3>5. /\ Len(L) \in Nat /\ 0 + Len(L) <= g
          /\ \A i \in 1 .. Len(L) : 0 + i \in 1 .. g /\ L[i] = Sorted(Groups)[0 + i]
      <4> PICK k : k = Wanted(Len(fetched))
        OBVIOUS
      <4>1. 0 \in Nat /\ 0 <= g
        BY ONLY <1>3
      <4>2. /\ Groups \in Rows /\ Groups \subseteq Row /\ k \in Nat
            /\ g = Cardinality(Groups) /\ L = Listed(Groups, 0, k)
        BY <1>3, <3>4
      <4> QED
        BY ONLY <4>1, <4>2, ListedPart
    <3>6. /\ f \o L \in Seq(Row) /\ Len(f \o L) = Len(f) + Len(L)
          /\ \A i \in 1 .. Len(f) + Len(L) :
               (f \o L)[i] = IF i <= Len(f) THEN f[i] ELSE L[i - Len(f)]
      <4>1. f \in Seq(Row) /\ L \in Seq(Row)
        BY <1>1, <3>2
      <4> QED
        BY ONLY <4>1, ConcatProperties
    <3>7. ASSUME NEW i \in 1 .. Len(f \o L) PROVE (f \o L)[i] = InOrder[offset + i]
      <4>1. i \in 1 .. Len(f) + Len(L) /\ i \in Nat
        BY <3>2, <3>5, <3>6
      <4>2. CASE i <= Len(f)
        <5>1. i \in 1 .. Len(f)
          BY ONLY <3>2, <4>1, <4>2
        <5> QED
          BY <1>4, <3>2, <3>6, <4>1, <4>2, <5>1
      <4>3. CASE ~(i <= Len(f))
        <5>1. i - Len(f) \in 1 .. Len(L) /\ u + (i - Len(f)) = offset + i
          BY ONLY <1>3, <3>2, <3>3, <3>5, <4>1, <4>3
        <5>2. (f \o L)[i] = L[i - Len(f)]
          BY <3>6, <4>1, <4>3
        <5> PICK j : j = i - Len(f)
          OBVIOUS
        <5>3. j \in 1 .. Len(L) /\ j \in 1 .. g /\ 0 + j = j /\ u + j = offset + i
          <6>1. j \in 1 .. Len(L) /\ u + j = offset + i
            BY <5>1
          <6>2. Len(L) <= g /\ Len(L) \in Nat
            BY ONLY <1>3, <3>5
          <6> QED
            BY ONLY <1>3, <6>1, <6>2
        <5>4. L[j] = Sorted(Groups)[j]
          BY <3>5, <5>3
        <5>5. InOrder[u + j] = Sorted(Groups)[j]
          BY <1>4, <5>3
        <5> QED
          BY <5>2, <5>3, <5>4, <5>5
      <4> QED
        BY <4>2, <4>3
    <3>8. offset + Len(f \o L) <= Len(InOrder)
      BY ONLY <1>3, <1>4, <3>2, <3>3, <3>5, <3>6
    <3>9. f \o L # <<>>
      <4>1. Len(f \o L) # 0
        BY ONLY <1>3, <2>1, <3>3, <3>5, <3>6
      <4> QED
        BY <4>1
    <3> QED
      BY <3>6, <3>7, <3>8, <3>9
  <2>2. CASE ~(offset < u)
    <3>1. offset >= u /\ offset - u \in Nat /\ offset - u <= g
      BY ONLY <1>2, <1>3, <1>4, <2>2
    <3>2. f = <<>> /\ L = Listed(Groups, offset - u, count)
      <4>1. offset >= totUsers /\ GroupOffset = offset - u
        BY <1>2, <3>1 DEF GroupOffset
      <4> QED
        BY <1>1, <4>1 DEF RootPart
    <3>3. f \o L = L
      <4>1. f = <<>> /\ L \in Seq(Row)
        BY <1>1, <3>2
      <4>2. f \in Seq(Row)
        BY ONLY <4>1
      <4> QED
        BY ONLY <4>1, <4>2, ConcatEqualIffEmpty
    <3>4. /\ Len(L) \in Nat /\ (offset - u) + Len(L) <= g
          /\ Len(L) = count \/ (offset - u) + Len(L) = g
          /\ \A i \in 1 .. Len(L) : /\ (offset - u) + i \in 1 .. g
                                    /\ L[i] = Sorted(Groups)[(offset - u) + i]
      <4> PICK k : k = offset - u
        OBVIOUS
      <4>1. /\ Groups \in Rows /\ Groups \subseteq Row /\ k \in Nat /\ count \in Nat
            /\ k <= g /\ g = Cardinality(Groups) /\ L = Listed(Groups, k, count)
        BY <1>3, <3>1, <3>2
      <4>2. k = offset - u
        OBVIOUS
      <4> QED
        BY ONLY <4>1, <4>2, ListedPart
    <3>5. ASSUME NEW i \in 1 .. Len(L) PROVE L[i] = InOrder[offset + i]
      <4> PICK j : j = (offset - u) + i
        OBVIOUS
      <4>1. j \in 1 .. g /\ L[i] = Sorted(Groups)[j]
        BY <3>4
      <4>2. u + j = offset + i
        BY ONLY <1>3, i \in 1 .. Len(L), j = (offset - u) + i
      <4>3. InOrder[u + j] = Sorted(Groups)[j]
        BY <1>4, <4>1
      <4> QED
        BY <4>1, <4>2, <4>3
    <3>6. offset + Len(L) <= Len(InOrder)
      BY ONLY <1>3, <1>4, <3>1, <3>4
    <3>7. count > 0 /\ L = <<>> => offset = Len(InOrder)
      <4>1. L = <<>> => Len(L) = 0
        BY EmptySeq
      <4> QED
        BY ONLY <1>3, <1>4, <3>1, <3>4, <4>1
    <3> QED
      BY <1>1, <3>3, <3>5, <3>6, <3>7
  <2> QED
    BY <2>1, <2>2
<1>6. totUsers + totGroups = Len(InOrder)
  BY <1>2, <1>4
<1> QED
  BY <1>1, <1>5, <1>6, AnswerPrefix
LEMMA ListSortedUsersPrefix ==
  ASSUME WalkInv, Prefix, Untouched, Untouched', rows' = rows, ListSortedUsers
  PROVE  PrefixInv'
<1>1. /\ pc = "list" /\ endpoint = "sorted" /\ pc' = "list groups"
      /\ fetched' = Listed(Users, 0, FetchLimit)
      /\ UNCHANGED <<walkVars, clientVars, pageVars, totUsers, totGroups>>
  BY SortedUsersEffect DEF Untouched
<1>2. totUsers' = Cardinality(Users) /\ totGroups' = Cardinality(Groups)
  BY <1>1 DEF Prefix, InPage
<1>3. ~(endpoint = "root") /\ pc \in InPage /\ pc' \in InPage
  BY <1>1 DEF InPage
<1> QED
  BY <1>1, <1>2, <1>3, ReadPrefix

Merged(S, T, n) == First(S, n) \union First(T, n)

\* What was merged starts like the whole list, up to the fetch limit.
LEMMA MergedPrefix ==
  ASSUME NEW S \in Rows, NEW T \in Rows, S \intersect T = {}, NEW m \in Nat,
         NEW C, C = Merged(S, T, m)
  PROVE  /\ C \in Rows /\ C \subseteq S \union T /\ Cardinality(C) <= Cardinality(S \union T)
         /\ \A p \in 1 .. Cardinality(S \union T) :
              p <= m => p <= Cardinality(C) /\ Sorted(C)[p] = Sorted(S \union T)[p]
<1> PICK A : A = First(S, m)
  OBVIOUS
<1> PICK B : B = First(T, m)
  OBVIOUS
<1> PICK R : R = S \union T
  OBVIOUS
<1>0. C = A \union B
  BY DEF Merged
<1>1. A \in Rows /\ B \in Rows /\ A \subseteq S /\ B \subseteq T /\ A \intersect B = {}
  <2>1. 0 \in Nat
    OBVIOUS
  <2> QED
    BY <2>1, BeforeFirst DEF First
<1>2. C \in Rows /\ R \in Rows /\ C \subseteq R
  <2>1. 0 \in Nat
    OBVIOUS
  <2>2. A \union B \in Rows /\ S \union T \in Rows
    BY <1>1, <2>1, BeforeUnion
  <2> QED
    BY <1>0, <1>1, <2>2
<1>3. ASSUME NEW x \in Nat
      PROVE  /\ Before(C, x) = AtMost(m, Before(S, x)) + AtMost(m, Before(T, x))
             /\ Before(R, x) = Before(S, x) + Before(T, x)
             /\ Before(S, x) \in Nat /\ Before(T, x) \in Nat
  <2>1. Before(C, x) = Before(A, x) + Before(B, x)
    <3>1. Before(A \union B, x) = Before(A, x) + Before(B, x)
      BY <1>1, BeforeUnion
    <3> QED
      BY <1>0, <3>1
  <2>2. Before(A, x) = AtMost(m, Before(S, x)) /\ Before(B, x) = AtMost(m, Before(T, x))
    BY BeforeFirst
  <2>3. Before(R, x) = Before(S, x) + Before(T, x)
    BY BeforeUnion
  <2>4. Before(S, x) \in Nat /\ Before(T, x) \in Nat
    BY BeforeType
  <2> QED
    BY <2>1, <2>2, <2>3, <2>4
<1>4. /\ Cardinality(C) \in Nat /\ Cardinality(R) \in Nat /\ Cardinality(C) <= Cardinality(R)
  BY <1>2, FS_Subset, FS_CardinalityType DEF Rows
<1>5. ASSUME NEW x \in R, Before(R, x) < m
      PROVE  x \in C /\ Before(C, x) = Before(R, x)
  <2>1. x \in Nat
    BY <1>2 DEF Rows
  <2>2. /\ Before(C, x) = AtMost(m, Before(S, x)) + AtMost(m, Before(T, x))
        /\ Before(R, x) = Before(S, x) + Before(T, x)
        /\ Before(S, x) \in Nat /\ Before(T, x) \in Nat
    BY <1>3, <2>1
  <2>3. Before(S, x) < m /\ Before(T, x) < m /\ Before(C, x) = Before(R, x)
    BY ONLY <1>5, <2>2, m \in Nat DEF AtMost
  <2>4. x \in C
    BY <1>0, <2>3 DEF First
  <2> QED
    BY <2>3, <2>4
<1>6. ASSUME NEW x \in R PROVE Before(R, x) < Cardinality(R) /\ Before(R, x) \in Nat
  BY <1>2, <1>4, BeforeBound
<1>7. ASSUME NEW p \in 1 .. Cardinality(R), p <= m
      PROVE  p <= Cardinality(C) /\ Sorted(C)[p] = Sorted(R)[p]
  <2> PICK x : x = Sorted(R)[p]
    OBVIOUS
  <2>1. x \in R /\ Before(R, x) = p - 1
    BY <1>2, EveryPosition
  <2>2. p - 1 < m
    BY ONLY <1>4, <1>7, m \in Nat, p \in 1 .. Cardinality(R)
  <2>3. x \in C /\ Before(C, x) = p - 1
    BY <1>5, <2>1, <2>2
  <2>4. p - 1 \in 0 .. Cardinality(C) - 1
    BY <1>2, <2>3, BeforeBound
  <2>5. p \in 1 .. Cardinality(C)
    BY ONLY <1>4, <2>4, p \in 1 .. Cardinality(R)
  <2>6. x = Sorted(C)[p]
    BY <1>2, <2>3, <2>5, EveryPosition
  <2> QED
    BY <2>5, <2>6
<1> QED
  BY <1>2, <1>4, <1>7

LEMMA ListSortedGroupsPrefix ==
  ASSUME WalkInv, Prefix, Untouched, Untouched', rows' = rows, ListSortedGroups
  PROVE  PrefixInv'
<1>0. TypeOK /\ FiniteTables /\ rows = SeedRows
  BY DEF WalkInv, Prefix
<1> PICK m : m = FetchLimit
  OBVIOUS
<1> PICK C : C = Combined(First(Groups, m))
  OBVIOUS
<1> PICK L : L = Listed(C, offset, count)
  OBVIOUS
<1> PICK c : c = Cardinality(C)
  OBVIOUS
<1> PICK n : n = Cardinality(rows)
  OBVIOUS
<1>1. /\ pc = "list groups" /\ pc \in InPage /\ endpoint = "sorted"
      /\ Answer(L, totUsers + totGroups) /\ UNCHANGED <<walkVars, pageVars>>
      /\ C \in Rows /\ C \subseteq Row
  BY SortedGroupsEffect DEF Untouched, InPage
<1>2. /\ totUsers = Cardinality(Users) /\ totGroups = Cardinality(Groups)
      /\ offset <= Len(InOrder) /\ fetched = Listed(Users, 0, m)
  BY <1>1 DEF Prefix, WalkInv, WalkShape, Reached, InPage
<1>3. /\ Users \in Rows /\ Groups \in Rows /\ rows \in Rows
      /\ rows = Users \union Groups /\ Users \intersect Groups = {}
      /\ offset \in Nat /\ count \in Nat /\ m \in Nat
  BY <1>0, TablesAreRows, NumberTypes, FetchLimitType
<1>4. /\ InOrder = Sorted(rows) /\ Len(InOrder) = n /\ n = totUsers + totGroups
  BY <1>0, <1>1, <1>2, OrderShape
<1>5. c \in Nat /\ n \in Nat
  BY <1>1, <1>3, SortedRows
<1>6. m = offset + count \/ n <= m
  <2>1. n <= MaxResults
    BY <1>0, <1>1 DEF Untouched
  <2> QED
    BY <1>0, <2>1, FetchLimitType
<1>7. C = Merged(Users, Groups, m)
  BY <1>2, <1>3, FirstRows DEF Combined, Merged
<1>8. /\ c <= n
      /\ \A i \in 1 .. count :
           /\ offset + i <= c => Sorted(C)[offset + i] = Sorted(rows)[offset + i]
           /\ offset + i <= n => offset + i <= c
  <2>1. /\ c <= n
        /\ \A p \in 1 .. n : p <= m => p <= c /\ Sorted(C)[p] = Sorted(rows)[p]
    <3>1. /\ Cardinality(C) <= Cardinality(Users \union Groups)
          /\ \A p \in 1 .. Cardinality(Users \union Groups) :
               p <= m => p <= Cardinality(C) /\ Sorted(C)[p] = Sorted(Users \union Groups)[p]
      BY ONLY <1>3, <1>7, MergedPrefix
    <3> QED
      BY <1>3, <3>1
  <2>2. ASSUME NEW i \in 1 .. count
        PROVE  /\ offset + i <= c => Sorted(C)[offset + i] = Sorted(rows)[offset + i]
               /\ offset + i <= n => offset + i <= c
    <3> PICK p : p = offset + i
      OBVIOUS
    <3>1. /\ p <= c => p \in 1 .. n /\ p <= m
          /\ p <= n => p \in 1 .. n /\ p <= m
      BY ONLY <1>3, <1>5, <1>6, <2>1, i \in 1 .. count, p = offset + i
    <3> QED
      BY <2>1, <3>1
  <2> QED
    BY <2>1, <2>2
<1>9. /\ L \in Seq(Row) /\ Len(L) \in Nat /\ Len(L) <= count
      /\ Len(L) = IF offset < c THEN AtMost(c, offset + count) - offset ELSE 0
      /\ \A i \in 1 .. Len(L) : L[i] = Sorted(C)[offset + i]
  <2>1. C \in Rows /\ C \subseteq Row /\ offset \in Nat /\ count \in Nat
    BY <1>1, <1>3
  <2>2. /\ Listed(C, offset, count) \in Seq(Row) /\ Len(Listed(C, offset, count)) \in Nat
        /\ Len(Listed(C, offset, count)) <= count
    BY ONLY <2>1, ListedType
  <2>3. /\ Len(Listed(C, offset, count)) =
             IF offset < Cardinality(C) THEN AtMost(Cardinality(C), offset + count) - offset
             ELSE 0
        /\ \A i \in 1 .. Len(Listed(C, offset, count)) :
             Listed(C, offset, count)[i] = Sorted(C)[offset + i]
    BY ONLY <2>1, ListedRows
  <2> QED
    BY <2>2, <2>3
<1>10. offset + Len(L) <= n /\ (Len(L) > 0 => offset + Len(L) <= c)
  <2>1. offset <= n /\ c <= n
    BY <1>2, <1>4, <1>8
  <2>2. Len(L) = IF offset < c THEN AtMost(c, offset + count) - offset ELSE 0
    BY <1>9
  <2> QED
    BY ONLY <1>3, <1>5, <2>1, <2>2 DEF AtMost
<1>11. \A i \in 1 .. Len(L) : L[i] = InOrder[offset + i]
  <2> SUFFICES ASSUME NEW i \in 1 .. Len(L) PROVE L[i] = InOrder[offset + i]
    OBVIOUS
  <2>1. Len(L) \in Nat /\ Len(L) <= count
    BY <1>9
  <2>2. i \in 1 .. count /\ offset + i <= c
    BY ONLY <1>3, <1>5, <1>10, <2>1, i \in 1 .. Len(L)
  <2> QED
    BY <1>4, <1>8, <1>9, <2>2
<1>12. count > 0 /\ L = <<>> => offset = Len(InOrder)
  <2> SUFFICES ASSUME count > 0, L = <<>> PROVE offset = n
    BY <1>4
  <2>1. Len(L) = 0
    BY EmptySeq
  <2>2. 1 \in 1 .. count
    BY ONLY <1>3, count > 0
  <2>3. offset + 1 <= n => offset + 1 <= c
    BY <1>8, <2>2
  <2>4. Len(L) = IF offset < c THEN AtMost(c, offset + count) - offset ELSE 0
    BY <1>9
  <2>5. offset <= n
    BY <1>2, <1>4
  <2> QED
    BY ONLY <1>3, <1>5, <2>1, <2>3, <2>4, <2>5, count > 0 DEF AtMost
<1>13. offset + Len(L) <= Len(InOrder) /\ totUsers + totGroups = Len(InOrder)
  BY <1>4, <1>10
<1> QED
  BY <1>1, <1>9, <1>11, <1>12, <1>13, AnswerPrefix

LEMMA ParsePrefix ==
  ASSUME WalkInv, Prefix, Untouched, rows' = rows, Parse
  PROVE  PrefixInv'
<1>0. TypeOK
  BY DEF WalkInv
<1>1. /\ pc = "ask" /\ pc' \in {"count", "refused"}
      /\ UNCHANGED <<walkVars, clientVars, readVars, dbVars, faults, now>>
  BY <1>0, ParseEffect
<1>2. /\ endpoint' = endpoint /\ isCursor' = isCursor /\ token' = token
      /\ startIndex' = startIndex /\ seen' = seen /\ pc = "ask"
      /\ pc' # "got" /\ pc' # "end"
  BY <1>1
<1>3. Reached' = Reached
  BY ONLY <1>2 DEF Reached, NextStart
<1>4. InOrder' = InOrder
  BY <1>2 DEF InOrder, Collection
<1>5. /\ Len(seen) = Reached /\ Len(seen) <= Len(InOrder)
      /\ \A i \in 1 .. Len(seen) : seen[i] = InOrder[i]
      /\ rows = SeedRows
  BY <1>1 DEF Prefix
<1>6. Prefix'
  BY <1>1, <1>2, <1>3, <1>4, <1>5 DEF Prefix, InPage
<1>7. WalkComplete'
  BY <1>2 DEF WalkComplete
<1> QED
  BY <1>6, <1>7 DEF PrefixInv

\* The client stops when there is nothing left.
LEMMA ProceedPrefix ==
  ASSUME WalkInv, Prefix, Untouched, rows' = rows, Proceed
  PROVE  PrefixInv'
<1>0. TypeOK /\ FiniteTables /\ rows = SeedRows
  BY DEF WalkInv, Prefix
<1>1. /\ pc = "got"
      /\ pc' = IF (IF isCursor THEN token # NoCursor ELSE page # <<>> /\ startIndex <= total)
               THEN "ask" ELSE "end"
      /\ UNCHANGED <<walkVars, clientVars, pageVars, readVars, dbVars, faults, now>>
  BY DEF Proceed
<1>2. /\ endpoint' = endpoint /\ isCursor' = isCursor /\ token' = token /\ page' = page
      /\ startIndex' = startIndex /\ seen' = seen /\ count' = count /\ offset' = offset
  BY <1>1
<1>3. InOrder' = InOrder
  BY <1>2 DEF InOrder, Collection
<1>4. /\ Len(seen) = offset + Len(page) /\ Len(seen) <= Len(InOrder)
      /\ \A i \in 1 .. Len(seen) : seen[i] = InOrder[i]
      /\ count > 0 => total = Len(InOrder) /\ (page = <<>> => Len(seen) = Len(InOrder))
  BY <1>1 DEF Prefix, Reached
<1>5. (isCursor => token # NoCursor) => NextStart = offset + Len(page)
  BY <1>1 DEF WalkInv, WalkShape
<1>6. /\ offset \in Nat /\ total \in Nat /\ startIndex \in Int /\ Len(page) \in Nat
      /\ Len(seen) \in Nat /\ Len(InOrder) \in Nat
      /\ InOrder \in Seq(Row) /\ seen \in Seq(Row) /\ page \in Seq(Row)
  BY <1>0, NumberTypes, OrderShape DEF TypeOK
<1>7. CASE pc' = "ask"
  <2>1. isCursor => token # NoCursor
    BY <1>1, <1>7
  <2>2. Reached' = Len(seen)
    <3>1. NextStart = Len(seen)
      BY <1>4, <1>5, <2>1
    <3> QED
      BY ONLY <1>2, <1>7, <3>1 DEF Reached, NextStart
  <2>3. Prefix'
    BY <1>0, <1>2, <1>3, <1>4, <1>7, <2>2 DEF Prefix, InPage
  <2>4. WalkComplete'
    BY <1>7 DEF WalkComplete
  <2> QED
    BY <2>3, <2>4 DEF PrefixInv
<1>8. CASE pc' = "end"
  <2>1. ASSUME count > 0
        PROVE  Len(seen) = Len(InOrder)
    <3>1. total = Len(InOrder)
      BY <1>4, <2>1
    <3>2. CASE page = <<>>
      BY <1>4, <2>1, <3>2
    <3>3. CASE page # <<>> /\ isCursor
      <4>1. token = NoCursor
        BY <1>1, <1>8, <3>3
      <4>2. ~HasNext(Len(page), total)
        BY <1>1, <3>3, <4>1 DEF WalkInv, WalkShape
      <4>3. Len(page) > 0
        BY ONLY <1>6, <3>3, EmptySeq
      <4>4. Len(seen) = offset + Len(page) /\ Len(seen) <= Len(InOrder)
        BY <1>4
      <4> QED
        BY ONLY <1>6, <3>1, <4>2, <4>3, <4>4 DEF HasNext
    <3>4. CASE page # <<>> /\ ~isCursor
      <4>1. ~(startIndex <= total)
        BY <1>1, <1>8, <3>4
      <4>2. NextStart = Len(seen)
        BY <1>4, <1>5, <3>4
      <4>3. NextStart = AtLeast(1, startIndex) - 1
        BY <3>4 DEF NextStart
      <4>4. Len(seen) <= Len(InOrder)
        BY <1>4
      <4> QED
        BY ONLY <1>6, <3>1, <4>1, <4>2, <4>3, <4>4 DEF AtLeast
    <3> QED
      BY <3>2, <3>3, <3>4
  <2>2. count > 0 => seen = InOrder
    <3> SUFFICES ASSUME count > 0 PROVE seen = InOrder
      OBVIOUS
    <3>1. Len(seen) = Len(InOrder) /\ \A i \in 1 .. Len(seen) : seen[i] = InOrder[i]
      BY <1>4, <2>1
    <3> QED
      BY ONLY <1>6, <3>1, SeqEqual
  <2>3. Prefix'
    BY <1>0, <1>8 DEF Prefix, InPage
  <2>4. WalkComplete'
    BY <1>2, <1>3, <2>2 DEF WalkComplete
  <2> QED
    BY <2>3, <2>4 DEF PrefixInv
<1> QED
  BY <1>1, <1>7, <1>8
LEMMA StillPrefix ==
  ASSUME PrefixInv, Untouched, rows' = rows,
         UNCHANGED <<walkVars, clientVars, pc, pageVars, readVars, dbVars, faults>>
  PROVE  PrefixInv'
<1>1. /\ rows' = rows /\ endpoint' = endpoint /\ isCursor' = isCursor /\ token' = token
      /\ startIndex' = startIndex /\ seen' = seen /\ inserted' = inserted /\ faults' = faults
      /\ deleted' = deleted /\ pc' = pc /\ offset' = offset /\ count' = count /\ page' = page
      /\ totUsers' = totUsers /\ totGroups' = totGroups /\ fetched' = fetched
      /\ total' = total
  OBVIOUS
<1>2. Reached' = Reached
  BY ONLY <1>1 DEF Reached, NextStart
<1>3. InOrder' = InOrder
  BY <1>1 DEF InOrder, Collection
<1>4. Users' = Users /\ Groups' = Groups /\ FetchLimit' = FetchLimit
  BY <1>1 DEF Users, Groups, FetchLimit
<1>5. /\ Cardinality(Users)' = Cardinality(Users) /\ Cardinality(Groups)' = Cardinality(Groups)
      /\ Listed(Users, 0, FetchLimit)' = Listed(Users, 0, FetchLimit)
      /\ Listed(Users, offset, totUsers - offset)' = Listed(Users, offset, totUsers - offset)
  BY <1>1, <1>4
<1>6. Prefix'
  BY <1>1, <1>2, <1>3, <1>5 DEF PrefixInv, Prefix
<1>7. WalkComplete'
  BY <1>1, <1>3 DEF PrefixInv, WalkComplete, Writes, SortsAlike
<1> QED
  BY <1>6, <1>7 DEF PrefixInv

LEMMA PrefixInit == WalkInv /\ Init => PrefixInv
<1> SUFFICES ASSUME WalkInv, Init PROVE PrefixInv
  OBVIOUS
<1>1. TypeOK /\ FiniteTables /\ rows = SeedRows /\ pc = "ask" /\ seen = <<>>
  BY DEF WalkInv, Init
<1>2. Len(InOrder) \in Nat
  BY <1>1, OrderShape
<1>3. NextStart = 0
  <2>1. CASE isCursor
    BY <2>1 DEF Init, NextStart, Foreign
  <2>2. CASE ~isCursor
    <3>1. startIndex = 0 \/ startIndex = 1
      BY <2>2 DEF Init
    <3> QED
      BY <2>2, <3>1 DEF NextStart, AtLeast
  <2> QED
    BY <2>1, <2>2
<1>4. Reached = 0 /\ Len(seen) = 0
  BY <1>1, <1>3 DEF Reached
<1>5. Prefix
  BY <1>1, <1>2, <1>4 DEF Prefix, InPage
<1>6. WalkComplete
  BY <1>1 DEF WalkComplete
<1> QED
  BY <1>5, <1>6 DEF PrefixInv

LEMMA PrefixStep == WalkInv /\ PrefixInv /\ [Next]_vars => PrefixInv'
<1> SUFFICES ASSUME WalkInv, PrefixInv, [Next]_vars PROVE PrefixInv'
  OBVIOUS
<1>0. TypeOK /\ Prefix /\ FiniteTables'
  BY WalkStep DEF WalkInv, PrefixInv
<1>1. CASE ~Untouched'
  <2>1. Prefix'
    BY <1>1 DEF Prefix
  <2>2. WalkComplete'
    <3> SUFFICES ASSUME Writes' = 0, faults' = 0,
                        endpoint' = "sorted" =>
                          SortsAlike' /\ Cardinality(SeedRows) <= MaxResults
                 PROVE  FALSE
      BY DEF WalkComplete
    <3>1. /\ Cardinality(inserted') \in Nat /\ Cardinality(deleted') \in Nat
          /\ IsFiniteSet(inserted') /\ IsFiniteSet(deleted')
      BY <1>0, FS_CardinalityType DEF FiniteTables
    <3>2. Cardinality(inserted') + Cardinality(deleted') = 0
      BY DEF Writes
    <3>3. Cardinality(inserted') = 0 /\ Cardinality(deleted') = 0
      BY ONLY <3>1, <3>2
    <3>4. inserted' = {} /\ deleted' = {}
      BY <3>1, <3>3, FS_EmptySet
    <3> QED
      BY <1>1, <3>4 DEF Untouched
  <2> QED
    BY <2>1, <2>2 DEF PrefixInv
<1>2. CASE Untouched'
  <2>1. /\ Untouched /\ rows' = rows
        /\ ~(\E x \in Row : RowInserted(x) \/ RowDeleted(x)) /\ ~StatementFails
    BY <1>0, <1>2, UntouchedForGood
  <2>2. CASE Parse
    BY <1>0, <2>1, <2>2, ParsePrefix
  <2>3. CASE CountUsers
    BY <1>0, <2>1, <2>3, CountUsersPrefix
  <2>4. CASE CountGroups
    BY <1>0, <2>1, <2>4, CountGroupsPrefix
  <2>5. CASE ListUsers
    BY <1>0, <2>1, <2>5, ListUsersPrefix
  <2>6. CASE ListRootUsers
    BY <1>0, <1>2, <2>1, <2>6, ListRootUsersPrefix
  <2>7. CASE ListRootGroups
    BY <1>0, <1>2, <2>1, <2>7, ListRootGroupsPrefix
  <2>8. CASE ListSortedUsers
    BY <1>0, <1>2, <2>1, <2>8, ListSortedUsersPrefix
  <2>9. CASE ListSortedGroups
    BY <1>0, <1>2, <2>1, <2>9, ListSortedGroupsPrefix
  <2>10. CASE Proceed
    BY <1>0, <2>1, <2>10, ProceedPrefix
  <2>11. CASE Tick \/ WalkOver \/ UNCHANGED vars
    <3>1. UNCHANGED <<walkVars, clientVars, pc, pageVars, readVars, dbVars, faults>>
      BY <2>11 DEF Tick, WalkOver
    <3> QED
      BY <2>1, <3>1, StillPrefix
  <2> QED
    BY <2>1, <2>2, <2>3, <2>4, <2>5, <2>6, <2>7, <2>8, <2>9, <2>10, <2>11 DEF Next, Walk
<1> QED
  BY <1>1, <1>2

\* Following the pages to the end, by nextCursor or by startIndex, yields the whole
\* collection, every resource once and in order, when nothing is written and nothing
\* fails meanwhile; of sorted results of two tables, when they fit the fetch limit and
\* ORDER BY and sortResources sort the rows of a table alike.
THEOREM WalksAreComplete == SafetySpec => []WalkComplete
<1>1. WalkInv /\ PrefixInv /\ [Next]_vars => (WalkInv /\ PrefixInv)'
  BY WalkStep, PrefixStep
<1>2. Init => WalkInv /\ PrefixInv
  BY WalkInit, PrefixInit
<1>3. PrefixInv => WalkComplete
  BY DEF PrefixInv
<1> QED
  BY <1>1, <1>2, <1>3, PTL DEF SafetySpec
=============================================================================
