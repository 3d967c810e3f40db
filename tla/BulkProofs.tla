----------------------------- MODULE BulkProofs -----------------------------
(***************************************************************************)
(* Proofs about BulkOrder and Bulk, for every list of operations: the      *)
(* closure that computePostProducerClosure computes is the relation Needs, *)
(* the order of execution is sound, and errors are counted once.           *)
(***************************************************************************)
EXTENDS Bulk, FiniteSetTheorems, TLAPS

-----------------------------------------------------------------------------
(* Numbers.  A least counterexample takes the place of induction.          *)

LEMMA LeastNumber ==
  ASSUME NEW T \in SUBSET Nat, T # {}
  PROVE  \E x \in T : \A y \in T : x <= y
<1>1. PICK x \in T : \A y \in T : ~(<<y, x>> \in OpToRel(<, Nat))
  BY NatLessThanWellFounded, WFMin
<1>2. \A y \in T : ~(y < x)
  BY <1>1 DEF OpToRel
<1> QED
  BY <1>2

LEMMA MinIsLeast ==
  ASSUME NEW T \in SUBSET Nat, T # {}
  PROVE  Min(T) \in T /\ \A y \in T : Min(T) <= y
  BY LeastNumber DEF Min

\* The least difference from a bound gives the greatest number.
LEMMA MaxIsGreatest ==
  ASSUME NEW n \in Nat, NEW T \in SUBSET (1 .. n), T # {}
  PROVE  Max(T) \in T /\ \A y \in T : y <= Max(T)
<1> DEFINE D == {n - y : y \in T}
<1>1. D \in SUBSET Nat /\ D # {}
  <2>1. \A y \in T : n - y \in Nat
    OBVIOUS
  <2> QED
    BY <2>1
<1>2. PICK d \in D : \A e \in D : d <= e
  BY <1>1, LeastNumber
<1>3. PICK x \in T : d = n - x
  BY <1>2
<1>4. ASSUME NEW y \in T PROVE x >= y
  <2>1. n - x <= n - y
    BY <1>2, <1>3
  <2> QED
    BY <2>1
<1>5. (CHOOSE z \in T : \A y \in T : z >= y) \in T
      /\ \A y \in T : (CHOOSE z \in T : \A v \in T : z >= v) >= y
  BY <1>4
<1> QED
  BY <1>5 DEF Max

\* Functions on a set can be applied one after the other.
Values(X) == [Nat -> X]
Applied(F, x, g) == g[0] = x /\ \A k \in Nat : g[k + 1] = F[k][g[k]]

LEMMA Iteration ==
  ASSUME NEW X, NEW x, NEW F, x \in X, F \in [Nat -> [X -> X]]
  PROVE  \E g \in Values(X) : Applied(F, x, g)
<1> DEFINE Upto(n) == {h \in [0 .. n -> X] : h[0] = x /\ \A k \in 0 .. n - 1 : h[k + 1] = F[k][h[k]]}
<1>1. \A n \in Nat : Upto(n) # {}
  <2> DEFINE T == {n \in Nat : Upto(n) = {}}
  <2> SUFFICES ASSUME T # {} PROVE FALSE
    OBVIOUS
  <2>1. PICK m \in T : \A y \in T : m <= y
    BY LeastNumber
  <2>2. m # 0
    <3>1. [k \in 0 .. 0 |-> x] \in Upto(0)
      OBVIOUS
    <3> QED
      BY <3>1
  <2>3. m - 1 \in Nat /\ m - 1 \notin T
    BY <2>1, <2>2
  <2>4. PICK h \in Upto(m - 1) : TRUE
    BY <2>3
  <2> DEFINE e == [k \in 0 .. m |-> IF k = m THEN F[m - 1][h[m - 1]] ELSE h[k]]
  <2>5. /\ h \in [0 .. m - 1 -> X] /\ h[0] = x
        /\ \A k \in 0 .. m - 2 : h[k + 1] = F[k][h[k]]
    BY <2>3, <2>4
  <2>6. e \in [0 .. m -> X] /\ e[0] = x
    BY <2>2, <2>3, <2>5
  <2>7. \A k \in 0 .. m - 1 : e[k + 1] = F[k][e[k]]
    BY <2>2, <2>3, <2>5
  <2>8. e \in Upto(m)
    BY <2>6, <2>7
  <2> QED
    BY <2>8
<1>2. \A n \in Nat : \A h \in Upto(n), e \in Upto(n + 1) : h[n] = e[n]
  <2> SUFFICES ASSUME NEW n \in Nat, NEW h \in Upto(n), NEW e \in Upto(n + 1), h[n] # e[n]
               PROVE  FALSE
    OBVIOUS
  <2> DEFINE T == {k \in 0 .. n : h[k] # e[k]}
  <2>0. T \in SUBSET Nat /\ n \in T
    OBVIOUS
  <2>1. PICK m \in T : \A y \in T : m <= y
    BY <2>0, LeastNumber
  <2>2. m # 0
    OBVIOUS
  <2>3. m - 1 \in 0 .. n - 1 /\ m - 1 \notin T
    BY <2>1, <2>2
  <2>4. h[m] = F[m - 1][h[m - 1]] /\ e[m] = F[m - 1][e[m - 1]]
    <3>1. (m - 1) + 1 = m /\ m - 1 \in 0 .. (n + 1) - 1
      BY <2>3
    <3> QED
      BY <2>3, <3>1
  <2> QED
    BY <2>3, <2>4
<1> DEFINE best == [n \in Nat |-> CHOOSE h : h \in Upto(n)]
           g == [n \in Nat |-> best[n][n]]
<1>3. \A n \in Nat : best[n] \in Upto(n)
  BY <1>1
<1> HIDE DEF best
<1>4. g \in [Nat -> X] /\ g[0] = x
  BY <1>3
<1>5. ASSUME NEW k \in Nat PROVE g[k + 1] = F[k][g[k]]
  <2>1. best[k] \in Upto(k) /\ best[k + 1] \in Upto(k + 1)
    BY <1>3
  <2>2. best[k][k] = best[k + 1][k]
    BY <1>2, <2>1
  <2>3. best[k + 1][k + 1] = F[k][best[k + 1][k]]
    BY <2>1
  <2> QED
    BY <2>2, <2>3
<1> QED
  BY <1>4, <1>5 DEF Values, Applied

-----------------------------------------------------------------------------
(* The closure *)

\* One round of producerClosure.
Round(S) == S \union UNION {DirectDeps(i) : i \in S}

\* The rounds that begin with p.
Rounds(p) ==
  CHOOSE g : g = [k \in Nat |-> IF k = 0 THEN {p} ELSE Round(g[k - 1])]

LEMMA ClosureIsRounds ==
  ASSUME NEW p
  PROVE  producerClosure(p) = Rounds(p)[Len(ops)]
  BY DEF producerClosure, Rounds, Round
\* Induction, for a set of numbers.
LEMMA AllNumbers ==
  ASSUME NEW T \in SUBSET Nat, 0 \in T, \A k \in T : k + 1 \in T
  PROVE  T = Nat
<1> SUFFICES ASSUME Nat \ T # {} PROVE FALSE
  OBVIOUS
<1>1. PICK m \in Nat \ T : \A y \in Nat \ T : m <= y
  BY LeastNumber
<1>2. m - 1 \in T /\ (m - 1) + 1 = m
  BY <1>1
<1> QED
  BY <1>2

LEMMA Operations ==
  ASSUME ops \in Inputs
  PROVE  /\ Len(ops) \in Nat /\ Index = DOMAIN ops
         /\ \A i \in Index : /\ ops[i] \in Operation
                             /\ ops[i].method = "POST" => ops[i].target = NoId
         /\ IsFiniteSet(Index) /\ Cardinality(Index) = Len(ops)
<1>1. ops \in Seq(Operation)
  BY BulkOrderAssumption
<1>2. Len(ops) \in Nat /\ Index = DOMAIN ops
  BY <1>1 DEF Index
<1>3. \A i \in Index : /\ ops[i] \in Operation
                       /\ ops[i].method = "POST" => ops[i].target = NoId
  BY <1>1, <1>2, BulkOrderAssumption
<1>4. IsFiniteSet(Index) /\ Cardinality(Index) = Len(ops)
  <2>1. 1 \in Int /\ Len(ops) \in Int /\ Index = 1 .. Len(ops)
    BY <1>2 DEF Index
  <2>2. /\ IsFiniteSet(1 .. Len(ops))
        /\ Cardinality(1 .. Len(ops)) = IF 1 > Len(ops) THEN 0 ELSE Len(ops) - 1 + 1
    BY <2>1, FS_Interval
  <2> QED
    BY <1>2, <2>1, <2>2
<1> QED
  BY <1>2, <1>3, <1>4

\* References lead to POSTs.
LEMMA DepsArePosts ==
  ASSUME ops \in Inputs, NEW i, NEW d \in DirectDeps(i)
  PROVE  d \in Index /\ IsPost(d)
<1>1. PICK b \in Declared : d = Producer(b)
  BY DEF DirectDeps
<1>2. Producers(b) \in SUBSET Nat /\ Producers(b) # {}
  BY <1>1, Operations DEF Producers, Declared, Index
<1>3. d \in Producers(b)
  BY <1>1, <1>2, MinIsLeast DEF Producer
<1> QED
  BY <1>3 DEF Producers

LEMMA RoundsStep ==
  ASSUME ops \in Inputs, NEW p \in Index
  PROVE  /\ Rounds(p) \in [Nat -> SUBSET Index] /\ Rounds(p)[0] = {p}
         /\ \A k \in Nat : Rounds(p)[k + 1] = Round(Rounds(p)[k])
<1> DEFINE X == SUBSET Index
           Is(g) == g = [k \in Nat |-> IF k = 0 THEN {p} ELSE Round(g[k - 1])]
<1>1. {p} \in X /\ \A S \in X : Round(S) \in X
  BY DepsArePosts DEF Round
<1>2. PICK g \in [Nat -> X] : g[0] = {p} /\ \A k \in Nat : g[k + 1] = Round(g[k])
  <2> DEFINE F == [k \in Nat |-> [S \in X |-> Round(S)]]
  <2>1. F \in [Nat -> [X -> X]]
    BY <1>1
  <2> HIDE DEF X, F
  <2>2. \E g \in Values(X) : Applied(F, {p}, g)
    BY <1>1, <2>1, Iteration, Zenon
  <2> QED
    BY <2>2 DEF Values, Applied, F
<1> HIDE DEF X
<1>3. ASSUME NEW k \in Nat \ {0} PROVE g[k] = Round(g[k - 1])
  <2>1. k - 1 \in Nat /\ (k - 1) + 1 = k
    OBVIOUS
  <2> QED
    BY <1>2, <2>1
<1>4. Is(g)
  BY <1>2, <1>3
<1>5. Is(Rounds(p))
  BY <1>4 DEF Rounds
<1>6. Rounds(p)[0] = {p} /\ \A k \in Nat \ {0} : Rounds(p)[k] = Round(Rounds(p)[k - 1])
  BY <1>5
<1>7. \A k \in Nat : Rounds(p)[k + 1] = Round(Rounds(p)[k])
  <2>1. \A k \in Nat : k + 1 \in Nat \ {0} /\ (k + 1) - 1 = k
    OBVIOUS
  <2> QED
    BY <1>6, <2>1
<1>8. \A k \in Nat : Rounds(p)[k] \in X
  <2> DEFINE T == {k \in Nat : Rounds(p)[k] \in X}
  <2>1. 0 \in T
    BY <1>1, <1>6
  <2>2. \A k \in T : k + 1 \in T
    BY <1>1, <1>7
  <2>3. T = Nat
    BY <2>1, <2>2, AllNumbers
  <2> QED
    BY <2>3
<1>9. DOMAIN Rounds(p) = Nat /\ Rounds(p) = [k \in Nat |-> Rounds(p)[k]]
  BY <1>5
<1> QED
  BY <1>6, <1>7, <1>8, <1>9 DEF X

\* As long as rounds find something, they have found one more each time.
LEMMA RoundsGrow ==
  ASSUME ops \in Inputs, NEW p \in Index, NEW n \in Nat
  PROVE  \/ Round(Rounds(p)[n]) = Rounds(p)[n]
         \/ Cardinality(Rounds(p)[n]) > n
<1> DEFINE T == {k \in Nat : \/ Round(Rounds(p)[k]) = Rounds(p)[k]
                             \/ Cardinality(Rounds(p)[k]) > k}
<1>1. 0 \in T
  <2>1. Cardinality({p}) = 1
    BY FS_Singleton
  <2>2. Rounds(p)[0] = {p}
    BY RoundsStep
  <2> QED
    BY <2>1, <2>2
<1>2. ASSUME NEW k \in T PROVE k + 1 \in T
  <2> DEFINE S == Rounds(p)[k]
  <2>1. k \in Nat /\ S \subseteq Index /\ Rounds(p)[k + 1] = Round(S)
    BY RoundsStep
  <2>2. CASE Round(S) = S
    BY <2>1, <2>2
  <2>3. CASE Round(S) # S
    <3>1. Cardinality(S) > k
      BY <2>3
    <3>2. S \subseteq Round(S) /\ Round(S) \subseteq Index
      BY <2>1, DepsArePosts DEF Round
    <3>3. IsFiniteSet(Round(S))
      BY <3>2, Operations, FS_Subset
    <3>4. Cardinality(S) \in Nat /\ Cardinality(Round(S)) \in Nat
          /\ Cardinality(S) < Cardinality(Round(S))
      BY <2>3, <3>2, <3>3, FS_Subset, FS_CardinalityType
    <3>5. Cardinality(Round(S)) > k + 1
      BY <2>1, <3>1, <3>4
    <3> QED
      BY <2>1, <3>5
  <2> QED
    BY <2>2, <2>3
<1>3. T = Nat
  BY <1>1, <1>2, AllNumbers
<1> QED
  BY <1>3

\* Len(ops) rounds find everything.
LEMMA ClosureIsClosed ==
  ASSUME ops \in Inputs, NEW p \in Index
  PROVE  /\ p \in producerClosure(p) /\ producerClosure(p) \subseteq Index
         /\ \A i \in producerClosure(p) : DirectDeps(i) \subseteq producerClosure(p)
<1> DEFINE C == Rounds(p)[Len(ops)]
<1>1. C = producerClosure(p) /\ C \subseteq Index /\ Len(ops) \in Nat
  BY ClosureIsRounds, RoundsStep, Operations
<1>2. ~(Cardinality(C) > Len(ops))
  <2>1. Cardinality(C) <= Cardinality(Index) /\ Cardinality(C) \in Nat
    BY <1>1, Operations, FS_Subset, FS_CardinalityType
  <2>2. Cardinality(Index) = Len(ops)
    BY Operations
  <2> HIDE DEF C
  <2> QED
    BY <1>1, <2>1, <2>2
<1>3. Round(C) = C
  BY <1>1, <1>2, RoundsGrow
<1>4. p \in C
  <2> DEFINE T == {k \in Nat : p \in Rounds(p)[k]}
  <2>1. 0 \in T
    BY RoundsStep
  <2>2. \A k \in T : k + 1 \in T
    BY RoundsStep DEF Round
  <2>3. T = Nat
    BY <2>1, <2>2, AllNumbers
  <2> QED
    BY <1>1, <2>3
<1> QED
  BY <1>1, <1>3, <1>4 DEF Round

\* Nothing is found that is not needed.
LEMMA ClosureIsLeast ==
  ASSUME ops \in Inputs, NEW p \in Index, NEW S, p \in S,
         \A i \in S : DirectDeps(i) \subseteq S
  PROVE  producerClosure(p) \subseteq S
<1> DEFINE T == {k \in Nat : Rounds(p)[k] \subseteq S}
<1>1. 0 \in T
  BY RoundsStep
<1>2. \A k \in T : k + 1 \in T
  BY RoundsStep DEF Round
<1>3. T = Nat
  BY <1>1, <1>2, AllNumbers
<1> QED
  BY <1>3, ClosureIsRounds, Operations

LEMMA ClosureOfPosts ==
  ASSUME ops \in Inputs, NEW i, NEW d \in DirectDeps(i), NEW p \in producerClosure(d)
  PROVE  p \in Index /\ IsPost(p)
<1> DEFINE S == {q \in Index : IsPost(q)}
<1>1. d \in S /\ \A j \in S : DirectDeps(j) \subseteq S
  BY DepsArePosts
<1>2. producerClosure(d) \subseteq S
  BY <1>1, ClosureIsLeast
<1> QED
  BY <1>2

\* computePostProducerClosure finds, for the direct references of an operation,
\* exactly the operations that it needs: no reference is missed, whatever the
\* cycles, and no operation waits for one that it has nothing to do with.
THEOREM ClosureIsNeeds ==
  ASSUME ops \in Inputs, NEW i \in Index, NEW p
  PROVE  Needs(i, p) <=> \E d \in DirectDeps(i) : p \in producerClosure(d)
<1>1. ASSUME Needs(i, p) PROVE \E d \in DirectDeps(i) : p \in producerClosure(d)
  <2> DEFINE S == UNION {producerClosure(d) : d \in DirectDeps(i)}
  <2>1. S \in SUBSET Index
    BY DepsArePosts, ClosureIsClosed
  <2>2. DirectDeps(i) \subseteq S
    BY DepsArePosts, ClosureIsClosed
  <2>3. \A j \in S : DirectDeps(j) \subseteq S
    BY DepsArePosts, ClosureIsClosed
  <2>4. p \in S
    BY <1>1, <2>1, <2>2, <2>3 DEF Needs
  <2> QED
    BY <2>4
<1>2. ASSUME NEW d \in DirectDeps(i), p \in producerClosure(d) PROVE Needs(i, p)
  <2> SUFFICES ASSUME NEW S \in SUBSET Index, DirectDeps(i) \subseteq S,
                      \A j \in S : DirectDeps(j) \subseteq S
               PROVE  p \in S
    BY DEF Needs
  <2>1. producerClosure(d) \subseteq S
    BY DepsArePosts, ClosureIsLeast
  <2> QED
    BY <1>2, <2>1
<1> QED
  BY <1>1, <1>2

LEMMA NeedsPosts ==
  ASSUME ops \in Inputs, NEW i \in Index, NEW p, Needs(i, p)
  PROVE  p \in Index /\ IsPost(p)
  BY ClosureIsNeeds, ClosureOfPosts

LEMMA NeedsTransitive ==
  ASSUME NEW i, NEW p, NEW q, Needs(i, p), Needs(p, q)
  PROVE  Needs(i, q)
  BY DEF Needs
-----------------------------------------------------------------------------
(* The choice of the next operation *)

\* A reference of a non-POST leads to a POST that is scheduled before it.
LEMMA FreeUseIsServed ==
  ASSUME ops \in Inputs, NEW j \in Index, ~IsPost(j), WaitsFor(j) \subseteq Scheduled,
         NEW p, Needs(j, p)
  PROVE  p \in Scheduled
<1>1. PICK d \in DirectDeps(j) : p \in producerClosure(d)
  BY ClosureIsNeeds
<1>2. j \notin producerClosure(d) /\ p # j
  BY <1>1, ClosureOfPosts
<1>3. p \in WaitsFor(j)
  BY <1>1, <1>2 DEF WaitsFor
<1> QED
  BY <1>3

\* POSTs have no path that could make them wait.
LEMMA PostsWaitForNeeds ==
  ASSUME ops \in Inputs, NEW c \in Index, IsPost(c), NEW x \in WaitsFor(c)
  PROVE  Needs(c, x) /\ x # c
<1>1. PreviousOnPath(c) = {}
  BY Operations DEF PreviousOnPath, SamePath, IsPost
<1>2. x # c /\ \E d \in DirectDeps(c) : x = d \/ x \in producerClosure(d)
  BY <1>1 DEF WaitsFor
<1>3. \A d \in DirectDeps(c) : d \in producerClosure(d)
  BY DepsArePosts, ClosureIsClosed
<1> QED
  BY <1>2, <1>3, ClosureIsNeeds

LEMMA PreviousIsLast ==
  ASSUME ops \in Inputs, NEW j \in Index, NEW i \in Index, i < j, SamePath(i, j)
  PROVE  \E m \in Index : /\ m < j /\ i <= m /\ SamePath(m, j)
                          /\ PreviousOnPath(j) = {m}
<1> DEFINE before == {k \in 1 .. j - 1 : SamePath(j, k)}
<1>1. j \in Nat /\ j - 1 \in Nat /\ Len(ops) \in Nat /\ j <= Len(ops)
  BY Operations DEF Index
<1>2. i \in before /\ before \in SUBSET (1 .. j - 1)
  BY <1>1 DEF Index, SamePath
<1>3. Max(before) \in before /\ \A y \in before : y <= Max(before)
  BY <1>1, <1>2, MaxIsGreatest
<1>4. PreviousOnPath(j) = {Max(before)}
  <2>1. before # {}
    BY <1>2
  <2> QED
    BY <2>1, Zenon DEF PreviousOnPath
<1>5. Max(before) \in Index /\ Max(before) < j
  BY <1>1, <1>3 DEF Index
<1> QED
  BY <1>2, <1>3, <1>4, <1>5 DEF SamePath

\* The next operation waits for nothing or is a POST, in a situation where
\* whatever is left waits for something; it is never chosen for want of both.
LEMMA NextOpIsDue ==
  ASSUME ops \in Inputs, Scheduled \subseteq Index, Scheduled # Index
  PROVE  /\ NextOp \in Index \ Scheduled
         /\ \/ WaitsFor(NextOp) \subseteq Scheduled
            \/ /\ IsPost(NextOp)
               /\ \A i \in Index \ Scheduled : ~(WaitsFor(i) \subseteq Scheduled)
<1> DEFINE left == Index \ Scheduled
           free == {i \in left : WaitsFor(i) \subseteq Scheduled}
           posts == {i \in left : IsPost(i)}
<1>1. left \in SUBSET Nat /\ left # {}
  <2>1. Index \subseteq Nat
    BY DEF Index
  <2>2. left # {}
    OBVIOUS
  <2> QED
    BY <2>1, <2>2
<1>2. CASE free # {}
  <2>1. NextOp = Min(free)
    BY <1>2, Zenon DEF NextOp
  <2>2. Min(free) \in free
    BY <1>1, <1>2, MinIsLeast
  <2> QED
    BY <2>1, <2>2
<1>3. CASE free = {} /\ posts # {}
  <2>1. NextOp = Min(posts)
    BY <1>3, Zenon DEF NextOp
  <2>2. Min(posts) \in posts
    BY <1>1, <1>3, MinIsLeast
  <2> QED
    BY <1>3, <2>1, <2>2
<1>4. CASE free = {} /\ posts = {}
  <2>1. PICK m \in left : \A y \in left : m <= y
    BY <1>1, LeastNumber
  <2>2. ASSUME NEW x \in WaitsFor(m) PROVE x \in Scheduled
    <3>1. CASE x \in PreviousOnPath(m)
      <4>1. PICK i \in 1 .. m - 1 : SamePath(i, m)
        <5>1. {k \in 1 .. m - 1 : SamePath(m, k)} # {}
          BY <3>1, Zenon DEF PreviousOnPath
        <5> QED
          BY <5>1 DEF SamePath
      <4>2. i \in Index /\ i < m
        BY Operations DEF Index
      <4>3. x \in Index /\ x < m
        BY <3>1, <4>1, <4>2, PreviousIsLast
      <4>4. x \notin left
        BY <1>1, <2>1, <4>3
      <4> QED
        BY <4>3, <4>4
    <3>2. CASE x \notin PreviousOnPath(m)
      <4>1. PICK d \in DirectDeps(m) : x = d \/ x \in producerClosure(d)
        BY <3>2 DEF WaitsFor
      <4>2. x \in Index /\ IsPost(x)
        BY <4>1, DepsArePosts, ClosureOfPosts
      <4> QED
        BY <1>4, <4>2
    <3> QED
      BY <3>1, <3>2
  <2> QED
    BY <1>4, <2>1, <2>2
<1> QED
  BY <1>2, <1>3, <1>4

\* Where everything that is left waits, whoever needs a POST that is left needs
\* one on a cycle: from a POST that needs fewest one cannot go on to another.
LEMMA StuckOnCycle ==
  ASSUME ops \in Inputs, NEW j \in Index, NEW p \in Index \ Scheduled, Needs(j, p),
         \A i \in Index \ Scheduled : ~(WaitsFor(i) \subseteq Scheduled)
  PROVE  \E c \in Index : Needs(j, c) /\ OnCycle(c)
<1> SUFFICES ASSUME \A c \in Index : Needs(j, c) => ~OnCycle(c) PROVE FALSE
  OBVIOUS
<1> DEFINE N(q) == {x \in Index : Needs(q, x)}
           T == {q \in Index \ Scheduled : Needs(j, q)}
           Sizes == {Cardinality(N(q)) : q \in T}
<1>1. \A q \in T : N(q) \in SUBSET Index /\ IsFiniteSet(N(q)) /\ Cardinality(N(q)) \in Nat
  BY Operations, FS_Subset, FS_CardinalityType
<1>2. Sizes \in SUBSET Nat /\ Sizes # {}
  BY <1>1
<1>3. PICK c \in T : \A q \in T : Cardinality(N(c)) <= Cardinality(N(q))
  <2>1. PICK least \in Sizes : \A y \in Sizes : least <= y
    BY <1>2, LeastNumber
  <2> HIDE DEF N
  <2> QED
    BY <2>1
<1>4. PICK x \in WaitsFor(c) : x \notin Scheduled
  BY <1>3
<1>5. Needs(c, x)
  BY <1>3, NeedsPosts, PostsWaitForNeeds
<1>6. x \in T
  BY <1>3, <1>4, <1>5, NeedsPosts, NeedsTransitive
<1>7. N(x) \subseteq N(c) /\ x \in N(c) /\ x \notin N(x)
  BY <1>3, <1>5, <1>6, NeedsTransitive DEF OnCycle
<1>8. Cardinality(N(x)) < Cardinality(N(c))
  <2>1. N(x) # N(c)
    BY <1>7
  <2>2. IsFiniteSet(N(c)) /\ N(x) \subseteq N(c)
    BY <1>1, <1>3, <1>7
  <2>3. ASSUME NEW A, NEW B, IsFiniteSet(A), B \subseteq A, A # B
        PROVE  Cardinality(B) < Cardinality(A)
    <3>1. B \in SUBSET A
      BY <2>3
    <3>2. /\ IsFiniteSet(B) /\ Cardinality(B) <= Cardinality(A)
          /\ Cardinality(A) = Cardinality(B) => A = B
      BY <2>3, <3>1, FS_Subset
    <3>3. Cardinality(A) \in Nat /\ Cardinality(B) \in Nat
      BY <2>3, <3>2, FS_CardinalityType
    <3> QED
      BY <2>3, <3>2, <3>3
  <2> HIDE DEF N
  <2> QED
    BY <2>1, <2>2, <2>3
<1>9. Cardinality(N(c)) <= Cardinality(N(x)) /\ Cardinality(N(c)) \in Nat /\ Cardinality(N(x)) \in Nat
  BY <1>1, <1>3, <1>6
<1> HIDE DEF N
<1> QED
  BY <1>8, <1>9
-----------------------------------------------------------------------------
(* One operation more in the plan *)

LEMMA PositionsDiffer ==
  ASSUME OrderShape, NEW k \in DOMAIN order
  PROVE  Position(order[k]) = k
  BY DEF OrderShape, Position

LEMMA Unscheduled ==
  ASSUME OrderShape, NEW i, Schedule(i)
  PROVE  i \in Index /\ i \notin Scheduled /\ i = NextOp /\ Scheduled \subseteq Index
<1>1. Scheduled \subseteq Index
  BY DEF OrderShape, Scheduled
<1> QED
  BY <1>1, NextOpIsDue DEF Schedule, OrderShape

LEMMA OrderShapeKept ==
  ASSUME OrderShape, NEW i, Schedule(i), UNCHANGED ran
  PROVE  /\ OrderShape'
         /\ Len(order) \in Nat /\ Len(order') = Len(order) + 1
         /\ order'[Len(order) + 1] = i
         /\ \A k \in DOMAIN order : k \in DOMAIN order' /\ order'[k] = order[k]
         /\ Scheduled' = Scheduled \union {i}
<1>1. order \in Seq(Index) /\ i \in Index /\ i \notin Scheduled /\ order' = Append(order, i)
  BY Unscheduled DEF OrderShape, Schedule
<1>2. /\ Len(order) \in Nat /\ DOMAIN order = 1 .. Len(order)
      /\ order' \in Seq(Index) /\ Len(order') = Len(order) + 1
      /\ DOMAIN order' = 1 .. Len(order) + 1
      /\ order'[Len(order) + 1] = i
      /\ \A k \in DOMAIN order : order'[k] = order[k]
  BY <1>1
<1>3. Index' = Index /\ ops' = ops
  BY DEF Schedule, Index
<1>4. \A k \in DOMAIN order' : k \in DOMAIN order \/ k = Len(order) + 1
  BY <1>2
<1>5. \A k \in DOMAIN order : order[k] # i
  BY <1>1 DEF Scheduled
<1>6. \A k, l \in DOMAIN order' : order'[k] = order'[l] => k = l
  BY <1>2, <1>4, <1>5 DEF OrderShape
<1>7. ran' \in 0 .. Len(order')
  BY <1>2 DEF OrderShape
<1>8. Scheduled' = Scheduled \union {i}
  <2>1. \A x : x \in Scheduled' <=> x \in Scheduled \/ x = i
    BY <1>2, <1>4 DEF Scheduled
  <2> QED
    BY <2>1
<1> QED
  BY <1>2, <1>3, <1>6, <1>7, <1>8 DEF OrderShape

\* What stood before another stays there, and what is scheduled stands before the
\* operation that is scheduled now.
LEMMA BeforeKept ==
  ASSUME OrderShape, NEW i, Schedule(i), UNCHANGED ran,
         NEW x, NEW y, Before(x, y)
  PROVE  Before(x, y)'
<1>1. PICK k \in DOMAIN order : x = order[k]
  BY DEF Before, Scheduled
<1>2. Position(x) = k /\ Position(x)' = k
  <2>1. x = order'[k] /\ k \in DOMAIN order' /\ OrderShape'
    BY <1>1, OrderShapeKept
  <2>2. Position(x)' = k
    BY <2>1 DEF OrderShape, Position
  <2> QED
    BY <1>1, <2>2, PositionsDiffer
<1>3. x \in Scheduled'
  BY OrderShapeKept DEF Before
<1>4. CASE y \in Scheduled
  <2>1. PICK l \in DOMAIN order : y = order[l]
    BY <1>4 DEF Scheduled
  <2>2. y = order'[l] /\ l \in DOMAIN order' /\ OrderShape'
    BY <2>1, OrderShapeKept
  <2>3. Position(y)' = l
    BY <2>2 DEF OrderShape, Position
  <2>4. Position(y) = l
    BY <2>1, PositionsDiffer
  <2>5. k < l
    BY <1>2, <1>4, <2>4 DEF Before
  <2> QED
    BY <1>2, <1>3, <2>3, <2>5 DEF Before
<1>5. CASE y = i
  <2>1. /\ Len(order) + 1 \in DOMAIN order' /\ order'[Len(order) + 1] = y /\ OrderShape'
        /\ k < Len(order) + 1
    BY <1>1, <1>5, OrderShapeKept DEF OrderShape
  <2>2. Position(y)' = Len(order) + 1
    BY <2>1 DEF OrderShape, Position
  <2> QED
    BY <1>2, <1>3, <2>1, <2>2 DEF Before
<1>6. CASE y \notin Scheduled /\ y # i
  BY <1>3, <1>6, OrderShapeKept DEF Before
<1> QED
  BY <1>4, <1>5, <1>6
\* References and paths are those of the request.
LEMMA GraphKept ==
  ASSUME UNCHANGED ops, NEW x, NEW y
  PROVE  /\ Index' = Index /\ IsPost(x)' = IsPost(x)
         /\ SamePath(x, y)' = SamePath(x, y)
         /\ Needs(x, y)' = Needs(x, y) /\ OnCycle(x)' = OnCycle(x)
<1>1. Index' = Index /\ \A z : IsPost(z)' = IsPost(z)
  BY DEF Index, IsPost
<1>2. \A b : Producers(b)' = Producers(b)
  BY <1>1 DEF Producers
<1>3. Declared' = Declared /\ \A b : Producer(b)' = Producer(b)
  BY <1>2 DEF Declared, Producer
<1>4. \A z : DirectDeps(z)' = DirectDeps(z)
  BY <1>3 DEF DirectDeps, Refs
<1>5. \A z, w : Needs(z, w)' = Needs(z, w)
  BY <1>1, <1>4 DEF Needs
<1> QED
  BY <1>1, <1>5 DEF SamePath, OnCycle

LEMMA PlanKeepsOrder ==
  ASSUME OrderInv, NEW i, Schedule(i), UNCHANGED ran
  PROVE  OrderInv'
<1> USE DEF OrderInv
<1>1. /\ OrderShape' /\ Scheduled' = Scheduled \union {i} /\ UNCHANGED ops
      /\ i \in Index /\ i \notin Scheduled /\ i = NextOp /\ ops \in Inputs
  BY OrderShapeKept, Unscheduled DEF Schedule, OrderShape
<1>2. \A x, y : Before(x, y) => Before(x, y)'
  BY BeforeKept
<1>3. ASSUME NEW x \in Scheduled PROVE Before(x, i)'
  BY <1>1, <1>2 DEF Before
<1>4. \/ WaitsFor(i) \subseteq Scheduled
      \/ IsPost(i) /\ \A q \in Index \ Scheduled : ~(WaitsFor(q) \subseteq Scheduled)
  BY <1>1, NextOpIsDue, Unscheduled DEF Schedule
<1>5. ReferencesSettled'
  <2>1. ASSUME NEW j \in Scheduled', ~IsPost(j), NEW p \in Index, Needs(j, p)
        PROVE  Before(p, j)'
    <3>1. CASE j \in Scheduled
      BY <1>2, <2>1, <3>1 DEF ReferencesSettled
    <3>2. CASE j = i
      BY <1>1, <1>3, <1>4, <2>1, <3>2, FreeUseIsServed
    <3> QED
      BY <1>1, <3>1, <3>2
  <2> QED
    BY <1>1, <2>1, GraphKept DEF ReferencesSettled
<1>6. ClientOrderKept'
  <2>1. ASSUME NEW x \in Index, NEW j \in Index, x < j, SamePath(x, j), j \in Scheduled'
        PROVE  Before(x, j)'
    <3>1. CASE j \in Scheduled
      BY <1>2, <2>1, <3>1 DEF ClientOrderKept
    <3>2. CASE j = i
      <4>1. ~IsPost(i)
        BY <1>1, <2>1, <3>2, Operations DEF SamePath, IsPost
      <4>2. PICK m \in Index : /\ m < i /\ x <= m /\ SamePath(m, i)
                               /\ PreviousOnPath(i) = {m}
        BY <1>1, <2>1, <3>2, PreviousIsLast
      <4>3. m \in Scheduled
        BY <1>1, <1>4, <4>1, <4>2 DEF WaitsFor, Index
      <4>4. CASE x = m
        BY <1>3, <3>2, <4>3, <4>4
      <4>5. CASE x # m
        <5>1. x < m /\ SamePath(x, m)
          BY <2>1, <3>2, <4>2, <4>5 DEF SamePath, Index
        <5>2. x \in Scheduled
          BY <4>2, <4>3, <5>1 DEF ClientOrderKept, Before
        <5> QED
          BY <1>3, <3>2, <5>2
      <4> QED
        BY <4>4, <4>5
    <3> QED
      BY <1>1, <2>1, <3>1, <3>2
  <2> QED
    BY <1>1, <2>1, GraphKept DEF ClientOrderKept
<1>7. OnlyCyclesBroken'
  <2>1. ASSUME NEW j \in Scheduled', NEW p \in Index \ {j}, Needs(j, p), ~Before(p, j)'
        PROVE  IsPost(j) /\ \E c \in Index : Needs(j, c) /\ OnCycle(c)
    <3>1. CASE j \in Scheduled
      BY <1>2, <2>1, <3>1 DEF OnlyCyclesBroken
    <3>2. CASE j = i
      <4>1. p \in Index \ Scheduled
        BY <1>3, <2>1, <3>2
      <4>2. IsPost(i)
        BY <1>1, <1>4, <2>1, <3>2, <4>1, FreeUseIsServed
      <4>3. CASE WaitsFor(i) \subseteq Scheduled
        <5>1. PICK d \in DirectDeps(i) : p \in producerClosure(d)
          BY <1>1, <2>1, <3>2, ClosureIsNeeds
        <5>2. p \notin WaitsFor(i) /\ p # i
          BY <2>1, <3>2, <4>1, <4>3
        <5>3. i \in producerClosure(d)
          BY <4>1, <5>1, <5>2 DEF WaitsFor
        <5>4. Needs(i, i)
          BY <1>1, <5>1, <5>3, ClosureIsNeeds
        <5> QED
          BY <1>1, <3>2, <4>2, <5>4 DEF OnCycle
      <4>4. CASE \A q \in Index \ Scheduled : ~(WaitsFor(q) \subseteq Scheduled)
        BY <1>1, <2>1, <3>2, <4>1, <4>2, <4>4, StuckOnCycle
      <4> QED
        BY <1>4, <4>3, <4>4
    <3> QED
      BY <1>1, <3>1, <3>2
  <2> QED
    BY <1>1, <2>1, GraphKept DEF OnlyCyclesBroken
<1> QED
  BY <1>1, <1>5, <1>6, <1>7
-----------------------------------------------------------------------------
(* What is chosen from a list of fixups *)

\* The lists that Chosen builds, from the front to the end of s.
Lists(s, S) ==
  CHOOSE g : g = [n \in Nat |->
                    IF n = 0 THEN <<>>
                    ELSE IF n \in DOMAIN s /\ s[n] \in S THEN Append(g[n - 1], s[n])
                    ELSE g[n - 1]]

LEMMA ChosenIsList ==
  ASSUME NEW s, NEW S
  PROVE  Chosen(s, S) = Lists(s, S)[Len(s)]
  BY DEF Chosen, Lists

\* One element of s after the other.
LEMMA ListsStep ==
  ASSUME NEW X, NEW s \in Seq(X), NEW S
  PROVE  /\ Lists(s, S)[0] = <<>>
         /\ \A k \in Nat :
              /\ Lists(s, S)[k] \in Seq(X)
              /\ Lists(s, S)[k + 1] =
                   IF k + 1 \in DOMAIN s /\ s[k + 1] \in S
                   THEN Append(Lists(s, S)[k], s[k + 1]) ELSE Lists(s, S)[k]
<1> DEFINE Q == Seq(X)
           Longer(n, q) == IF n \in DOMAIN s /\ s[n] \in S THEN Append(q, s[n]) ELSE q
           Is(g) == g = [n \in Nat |-> IF n = 0 THEN <<>> ELSE Longer(n, g[n - 1])]
           F == [k \in Nat |-> [q \in Q |-> Longer(k + 1, q)]]
<1>1. \A n \in Nat, q \in Q : Longer(n, q) \in Q
  OBVIOUS
<1>2. <<>> \in Q /\ Len(s) \in Nat
  OBVIOUS
<1> HIDE DEF Longer, Q
<1>3. F \in [Nat -> [Q -> Q]]
  BY <1>1
<1>4. \A k \in Nat, q \in Q : F[k][q] = Longer(k + 1, q)
  OBVIOUS
<1> HIDE DEF F
<1>5. PICK h \in [Nat -> Q] : h[0] = <<>> /\ \A k \in Nat : h[k + 1] = F[k][h[k]]
  <2>1. \E h \in Values(Q) : Applied(F, <<>>, h)
    BY <1>2, <1>3, Iteration, Zenon
  <2> QED
    BY <2>1 DEF Values, Applied
<1>6. ASSUME NEW n \in Nat \ {0} PROVE h[n] = Longer(n, h[n - 1])
  <2>1. n - 1 \in Nat /\ (n - 1) + 1 = n
    BY SMT
  <2>2. h[n] = F[n - 1][h[n - 1]] /\ h[n - 1] \in Q
    BY <1>5, <2>1
  <2> QED
    BY <1>4, <2>1, <2>2
<1>7. \A n \in Nat : h[n] = IF n = 0 THEN <<>> ELSE Longer(n, h[n - 1])
  BY <1>5, <1>6
<1>8. Is(h)
  BY <1>5, <1>7
<1>9. Is(Lists(s, S))
  BY <1>8 DEF Lists, Longer
<1>10. Lists(s, S)[0] \in Q
  BY <1>2, <1>9
<1>11. ASSUME NEW k \in Nat, Lists(s, S)[k] \in Q PROVE Lists(s, S)[k + 1] \in Q
  <2>1. k + 1 \in Nat \ {0} /\ (k + 1) - 1 = k
    BY ONLY k \in Nat
  <2>2. Lists(s, S)[k + 1] = Longer(k + 1, Lists(s, S)[k])
    BY <1>9, <2>1
  <2> QED
    BY <1>1, <1>11, <2>1, <2>2
<1>12. \A k \in Nat : Lists(s, S)[k] \in Q
  <2> DEFINE T == {k \in Nat : Lists(s, S)[k] \in Q}
  <2>1. T \in SUBSET Nat /\ 0 \in T /\ \A k \in T : k + 1 \in T
    BY <1>10, <1>11
  <2> HIDE DEF T
  <2>2. T = Nat
    BY ONLY <2>1, AllNumbers
  <2> QED
    BY <2>2 DEF T
<1>13. ASSUME NEW k \in Nat
       PROVE  Lists(s, S)[k + 1] = Longer(k + 1, Lists(s, S)[k])
  <2>1. k + 1 \in Nat \ {0} /\ (k + 1) - 1 = k
    BY ONLY k \in Nat
  <2> QED
    BY <1>9, <2>1
<1>14. Lists(s, S)[0] = <<>>
  BY <1>9
<1> QED
  BY <1>12, <1>13, <1>14 DEF Q, Longer

LEMMA ChosenFits ==
  ASSUME NEW X, NEW s \in Seq(X), NEW S
  PROVE  Chosen(s, S) \in Seq(X)
<1>1. Len(s) \in Nat
  OBVIOUS
<1> QED
  BY <1>1, ListsStep, ChosenIsList

\* Chosen takes the elements that are in S, and all of them.
LEMMA ChosenElements ==
  ASSUME NEW X, NEW s \in Seq(X), NEW S
  PROVE  Elements(Chosen(s, S)) = Elements(s) \intersect S
<1>0. /\ Lists(s, S)[0] = <<>>
      /\ \A k \in Nat :
           /\ Lists(s, S)[k] \in Seq(X)
           /\ Lists(s, S)[k + 1] =
                IF k + 1 \in DOMAIN s /\ s[k + 1] \in S
                THEN Append(Lists(s, S)[k], s[k + 1]) ELSE Lists(s, S)[k]
  BY ONLY s \in Seq(X), ListsStep
<1> DEFINE L == Lists(s, S)
           Front(k) == {s[l] : l \in {m \in DOMAIN s : m <= k}}
           T == {k \in Nat : Elements(L[k]) = Front(k) \intersect S}
<1>1. /\ L[0] = <<>>
      /\ \A k \in Nat : /\ L[k] \in Seq(X)
                        /\ L[k + 1] = IF k + 1 \in DOMAIN s /\ s[k + 1] \in S
                                      THEN Append(L[k], s[k + 1]) ELSE L[k]
  BY <1>0
<1>2. Len(s) \in Nat /\ DOMAIN s = 1 .. Len(s)
  OBVIOUS
<1> HIDE DEF L
<1>3. 0 \in T
  <2>1. Front(0) = {}
    BY <1>2
  <2>2. Elements(L[0]) = {}
    BY <1>1 DEF Elements
  <2> QED
    BY <2>1, <2>2
<1>4. ASSUME NEW k \in T PROVE k + 1 \in T
  <2>1. k \in Nat /\ k + 1 \in Nat /\ Elements(L[k]) = Front(k) \intersect S
    OBVIOUS
  <2>2. CASE k + 1 \in DOMAIN s
    <3>1. Front(k + 1) = Front(k) \union {s[k + 1]}
      <4>1. \A m \in DOMAIN s : m <= k + 1 <=> (m <= k \/ m = k + 1)
        BY <1>2, <2>1
      <4>2. \A y : y \in Front(k + 1) <=> (y \in Front(k) \/ y = s[k + 1])
        BY <2>2, <4>1
      <4> HIDE DEF Front
      <4> QED
        BY <4>2
    <3>2. ASSUME NEW q \in Seq(X), NEW y \in X
          PROVE  Elements(Append(q, y)) = Elements(q) \union {y}
      BY DEF Elements
    <3>3. s[k + 1] \in X
      BY <2>2
    <3> HIDE DEF Front
    <3>4. CASE s[k + 1] \in S
      <4>1. Elements(L[k + 1]) = Elements(L[k]) \union {s[k + 1]}
        BY <1>1, <2>1, <2>2, <3>2, <3>3, <3>4
      <4> QED
        BY <2>1, <3>1, <3>4, <4>1
    <3>5. CASE s[k + 1] \notin S
      <4>1. L[k + 1] = L[k]
        BY <1>1, <2>1, <3>5
      <4> QED
        BY <2>1, <3>1, <3>5, <4>1
    <3> QED
      BY <3>4, <3>5
  <2>3. CASE k + 1 \notin DOMAIN s
    <3>1. L[k + 1] = L[k]
      BY <1>1, <2>1, <2>3
    <3>2. Front(k + 1) = Front(k)
      <4>1. \A m \in DOMAIN s : m <= k + 1 <=> m <= k
        BY <1>2, <2>1, <2>3
      <4> QED
        BY <4>1
    <3> QED
      BY <2>1, <3>1, <3>2
  <2> QED
    BY <2>2, <2>3
<1>5. T = Nat
  <2>1. T \in SUBSET Nat
    OBVIOUS
  <2> HIDE DEF T
  <2> QED
    BY ONLY <1>3, <1>4, <2>1, AllNumbers
<1>6. Elements(L[Len(s)]) = Front(Len(s)) \intersect S
  BY <1>2, <1>5
<1>7. Front(Len(s)) = Elements(s)
  BY <1>2 DEF Elements
<1> QED
  BY <1>6, <1>7, ChosenIsList DEF L
-----------------------------------------------------------------------------
(* Counting errors *)

Errors(f) == {i \in Index : f[i] = "error"}

LEMMA ErrorsFinite ==
  ASSUME ops \in Inputs, NEW f
  PROVE  IsFiniteSet(Errors(f)) /\ Cardinality(Errors(f)) \in Nat
<1>1. Errors(f) \in SUBSET Index
  BY DEF Errors
<1> QED
  BY <1>1, Operations, FS_Subset, FS_CardinalityType

\* An operation that becomes an error is one more, unless it was one before.
LEMMA ErrorAdded ==
  ASSUME ops \in Inputs, NEW K, NEW f \in [Index -> K], NEW i \in Index,
         NEW e, e = [f EXCEPT ![i] = "error"]
  PROVE  Cardinality(Errors(e)) =
           IF f[i] = "error" THEN Cardinality(Errors(f)) ELSE Cardinality(Errors(f)) + 1
<1>1. Errors(e) = Errors(f) \union {i}
  BY DEF Errors
<1>2. i \in Errors(f) <=> f[i] = "error"
  BY DEF Errors
<1> HIDE DEF Errors
<1> QED
  BY <1>1, <1>2, ErrorsFinite, FS_AddElement

LEMMA SuccessAdded ==
  ASSUME NEW K, NEW f \in [Index -> K], NEW i \in Index, f[i] # "error"
  PROVE  Errors([f EXCEPT ![i] = "ok"]) = Errors(f)
  BY DEF Errors

-----------------------------------------------------------------------------
(* The steps *)

LEMMA OrderKept ==
  ASSUME OrderInv, UNCHANGED <<ops, order>>, ran' \in 0 .. Len(order)
  PROVE  OrderInv'
<1>1. Scheduled' = Scheduled /\ \A x, y : Before(x, y)' = Before(x, y)
  BY DEF Scheduled, Before, Position
<1>2. /\ Index' = Index
      /\ \A x, y : /\ IsPost(x)' = IsPost(x) /\ SamePath(x, y)' = SamePath(x, y)
                   /\ Needs(x, y)' = Needs(x, y) /\ OnCycle(x)' = OnCycle(x)
  BY GraphKept
<1>3. OrderShape'
  BY <1>2 DEF OrderInv, OrderShape
<1>4. ReferencesSettled'
  BY <1>1, <1>2 DEF OrderInv, ReferencesSettled
<1>5. ClientOrderKept'
  BY <1>1, <1>2 DEF OrderInv, ClientOrderKept
<1>6. OnlyCyclesBroken'
  BY <1>1, <1>2 DEF OrderInv, OnlyCyclesBroken
<1> QED
  BY <1>3, <1>4, <1>5, <1>6 DEF OrderInv

\* The operation whose turn it is has not run, and is the only new one.
LEMMA TurnIsNew ==
  ASSUME IndInv, NEW i \in Index, Turn(i)
  PROVE  /\ OrderInv' /\ Index' = Index
         /\ Ran' = Ran \union {i} /\ result[i] = "none"
         /\ undone = 0 /\ pc # "done"
<1>1. /\ OrderShape /\ ran < Len(order) /\ i = order[ran + 1] /\ ran' = ran + 1
      /\ UNCHANGED <<ops, order>> /\ pc = "loop"
  BY DEF IndInv, OrderInv, Turn
<1>2. Len(order) \in Nat /\ DOMAIN order = 1 .. Len(order) /\ ran \in Nat
  BY <1>1 DEF OrderShape
<1>3. ran' \in 0 .. Len(order)
  BY <1>1, <1>2
<1>4. \A k \in 1 .. ran : order[k] # i
  BY <1>1, <1>2 DEF OrderShape
<1>5. \A k \in 1 .. ran' : k \in 1 .. ran \/ k = ran + 1
  BY <1>1, <1>2
<1>6. \A k \in 1 .. ran : k \in 1 .. ran'
  BY <1>1, <1>2
<1>7. ran + 1 \in 1 .. ran'
  BY <1>1, <1>2
<1>8. Ran' = Ran \union {i}
  <2>1. \A x : x \in Ran' <=> x \in Ran \/ x = i
    BY <1>1, <1>5, <1>6, <1>7 DEF Ran
  <2> QED
    BY <2>1
<1>9. i \notin Ran
  BY <1>4 DEF Ran
<1> QED
  BY <1>1, <1>3, <1>8, <1>9, OrderKept DEF IndInv, AnswerShape, Index

LEMMA AfterOperationFits ==
  ASSUME NEW X, NEW i, NEW f \in Seq(X), AfterOperation(i, f)
  PROVE  /\ fixups' \in Seq(X) /\ ready' \in Seq(X)
         /\ pc' \in {"loop", "fix"}
<1> DEFINE pending == {f[k] : k \in DOMAIN f}
           due == {j \in pending : IsReady(j, Ran \union {i})}
<1>1. Chosen(f, due) \in Seq(X) /\ Chosen(f, pending \ due) \in Seq(X)
  BY ChosenFits
<1>2. /\ ready' = Chosen(f, due)
      /\ fixups' = IF Chosen(f, due) = <<>> THEN f ELSE Chosen(f, pending \ due)
      /\ pc' = IF Chosen(f, due) = <<>> THEN "loop" ELSE "fix"
  BY Zenon DEF AfterOperation
<1> HIDE DEF pending, due
<1> QED
  BY <1>1, <1>2
\* The answers after a turn.
LEMMA TurnCounted ==
  ASSUME IndInv, NEW i \in Index, Turn(i), undone' = undone,
         \/ Fail(i)
         \/ errors' = errors /\ \E v : Succeed(i, v)
         \/ errors' = errors /\ result' = result
  PROVE  /\ errors' \in Nat /\ result' \in [Index -> {"none", "ok", "error"}]
         /\ \A j \in Index \ Ran' : result'[j] = "none"
         /\ errors' + undone' = Cardinality(Errors(result'))
<1> DEFINE K == {"none", "ok", "error"}
<1>1. /\ ops \in Inputs /\ result \in [Index -> K] /\ errors \in Nat /\ undone = 0
      /\ \A j \in Index \ Ran : result[j] = "none"
      /\ errors = Cardinality(Errors(result))
  <2>1. undone = 0 /\ pc # "done"
    BY TurnIsNew
  <2>2. errors + undone = Cardinality(Errors(result)) /\ errors \in Nat
    BY <2>1 DEF IndInv, AnswerShape, ErrorsCounted, Errors
  <2> QED
    BY <2>1, <2>2 DEF IndInv, OrderInv, OrderShape, AnswerShape
<1>2. Ran' = Ran \union {i} /\ result[i] = "none"
  BY TurnIsNew
<1>3. CASE Fail(i)
  <2>1. result' = [result EXCEPT ![i] = "error"] /\ errors' = errors + 1
    BY <1>3 DEF Fail
  <2>2. Cardinality(Errors(result')) = errors + 1
    BY <1>1, <1>2, <2>1, ErrorAdded
  <2> QED
    BY <1>1, <1>2, <2>1, <2>2
<1>4. CASE errors' = errors /\ \E v : Succeed(i, v)
  <2>1. result' = [result EXCEPT ![i] = "ok"]
    BY <1>4 DEF Succeed
  <2>2. Errors(result') = Errors(result)
    BY <1>1, <1>2, <2>1, SuccessAdded
  <2> QED
    BY <1>1, <1>2, <1>4, <2>1, <2>2
<1>5. CASE errors' = errors /\ result' = result
  BY <1>1, <1>2, <1>5
<1> QED
  BY <1>3, <1>4, <1>5

LEMMA TurnKeepsInv ==
  ASSUME IndInv, NEW i \in Index, Turn(i), undone' = undone,
         \/ Fail(i)
         \/ errors' = errors /\ \E v : Succeed(i, v)
         \/ errors' = errors /\ result' = result,
         created' \subseteq created \union {i},
         fixups' \in Seq(Ran'), ready' \in Seq(Ran'), pc' \in {"loop", "fix"}
  PROVE  IndInv'
<1>1. /\ errors' \in Nat /\ result' \in [Index -> {"none", "ok", "error"}]
      /\ \A j \in Index \ Ran' : result'[j] = "none"
      /\ errors' + undone' = Cardinality(Errors(result'))
  BY TurnCounted
<1>2. OrderInv' /\ Index' = Index /\ undone = 0 /\ created' \subseteq Ran'
  BY TurnIsNew DEF IndInv, AnswerShape
<1>3. AnswerShape'
  BY <1>1, <1>2 DEF AnswerShape, PassSteps, RollbackSteps
<1>4. ErrorsCounted'
  BY <1>1, <1>2 DEF ErrorsCounted, Errors
<1> QED
  BY <1>2, <1>3, <1>4 DEF IndInv

LEMMA OperateKeepsInv ==
  ASSUME IndInv, Operate
  PROVE  IndInv'
<1>1. PICK i \in Index : /\ Turn(i)
                         /\ \/ Skip(i) \/ OperationFails(i) \/ OperationPanics(i)
                            \/ Post(i) \/ Change(i) \/ Remove(i)
  BY DEF Operate
<1>2. PICK X : X = Ran'
  OBVIOUS
<1>3. Ran \subseteq X /\ i \in X
  BY <1>1, <1>2, TurnIsNew
<1>4. fixups \in Seq(X) /\ ready \in Seq(X) /\ pc = "loop"
  BY <1>1, <1>3 DEF IndInv, AnswerShape, Turn
<1>5. ASSUME undone' = undone,
             \/ Fail(i)
             \/ errors' = errors /\ \E v : Succeed(i, v)
             \/ errors' = errors /\ result' = result,
             created' \subseteq created \union {i},
             fixups' \in Seq(X), ready' \in Seq(X), pc' \in {"loop", "fix"}
      PROVE  IndInv'
  BY <1>1, <1>2, <1>5, TurnKeepsInv
<1>6. CASE Skip(i)
  BY <1>4, <1>5, <1>6 DEF Skip, answerVars, recordVars
<1>7. CASE OperationFails(i)
  <2>1. Fail(i) /\ AfterOperation(i, fixups) /\ undone' = undone /\ created' = created
    BY <1>7 DEF OperationFails, Fail, recordVars
  <2> QED
    BY <1>4, <1>5, <2>1, AfterOperationFits
<1>8. CASE OperationPanics(i)
  <2>1. /\ AfterOperation(i, fixups) /\ undone' = undone
        /\ errors' = errors /\ result' = result /\ created' = created
    BY <1>8 DEF OperationPanics, answerVars, recordVars
  <2> QED
    BY <1>4, <1>5, <2>1, AfterOperationFits
<1>9. CASE Post(i)
  <2> DEFINE f == IF Deferrable(i) = {} THEN fixups ELSE Append(fixups, i)
  <2>1. /\ AfterOperation(i, f) /\ undone' = undone
        /\ errors' = errors /\ Succeed(i, 0)
        /\ created' = created \union {i}
    BY <1>9 DEF Post, Succeed, Record
  <2>2. f \in Seq(X)
    BY <1>3, <1>4
  <2> HIDE DEF f
  <2> QED
    BY <1>5, <2>1, <2>2, AfterOperationFits
<1>10. CASE Change(i)
  <2>1. /\ AfterOperation(i, fixups) /\ undone' = undone
        /\ errors' = errors /\ (\E v : Succeed(i, v))
        /\ created' = created
    BY <1>10 DEF Change, Succeed, recordVars
  <2> QED
    BY <1>4, <1>5, <2>1, AfterOperationFits
<1>11. CASE Remove(i)
  <2>1. /\ AfterOperation(i, fixups) /\ undone' = undone
        /\ errors' = errors /\ Succeed(i, 0)
        /\ created' = created
    BY <1>11 DEF Remove, Succeed, recordVars
  <2> QED
    BY <1>4, <1>5, <2>1, AfterOperationFits
<1> QED
  BY <1>1, <1>6, <1>7, <1>8, <1>9, <1>10, <1>11

\* A rollback counts what was no error before.
LEMMA RollbackCounted ==
  ASSUME IndInv, RemoveRow
  PROVE  /\ undone' \in Nat /\ result' \in [Index -> {"none", "ok", "error"}]
         /\ \A j \in Index \ Ran : result'[j] = "none"
         /\ errors' = errors /\ undone' + errors' = Cardinality(Errors(result'))
<1>1. /\ ops \in Inputs /\ result \in [Index -> {"none", "ok", "error"}]
      /\ errors \in Nat /\ undone \in Nat
      /\ pc # "done" => errors + undone = Cardinality(Errors(result))
      /\ \A j \in Index \ Ran : result[j] = "none"
      /\ pc \in RollbackSteps => victim \in Ran
  BY DEF IndInv, OrderInv, OrderShape, AnswerShape, ErrorsCounted, Errors
<1>2. /\ result' = [result EXCEPT ![victim] = "error"] /\ errors' = errors
      /\ undone' = IF result[victim] # "error" THEN undone + 1 ELSE undone
      /\ pc = "unrow"
  BY DEF RemoveRow, RollbackEnds, Fixing
<1>3. Ran \subseteq Index
  BY DEF IndInv, OrderInv, OrderShape, Ran
<1>4. victim \in Index /\ victim \in Ran
  BY <1>1, <1>2, <1>3 DEF RollbackSteps
<1>5. Cardinality(Errors(result')) =
        IF result[victim] = "error" THEN errors + undone ELSE errors + undone + 1
  BY <1>1, <1>2, <1>4, ErrorAdded
<1> QED
  BY <1>1, <1>2, <1>4, <1>5
\* A step that leaves the plan alone.
LEMMA StepKeepsInv ==
  ASSUME IndInv, UNCHANGED <<orderVars, created>>,
         errors' \in Nat, undone' \in Nat,
         result' \in [Index -> {"none", "ok", "error"}],
         \A j \in Index \ Ran : result'[j] = "none",
         fixups' \in Seq(Ran), ready' \in Seq(Ran),
         pc' \in {"read", "order", "loop", "done"} \union PassSteps,
         pc' \in RollbackSteps => victim' \in Ran,
         pc' \in {"read", "order"} => ran = 0,
         pc' \in {"update", "undo"} => ready' # <<>>,
         pc' \in {"read", "order", "loop"} => undone' = 0,
         pc' # "done" => errors' + undone' = Cardinality(Errors(result'))
  PROVE  IndInv'
<1>1. OrderInv'
  BY OrderKept DEF IndInv, OrderInv, OrderShape, orderVars
<1>2. Index' = Index /\ Ran' = Ran
  BY DEF orderVars, Index, Ran
<1>3. AnswerShape'
  BY <1>2 DEF IndInv, AnswerShape, orderVars
<1>4. ErrorsCounted'
  BY <1>2 DEF ErrorsCounted, Errors
<1> QED
  BY <1>1, <1>3, <1>4 DEF IndInv

LEMMA QuietStepKeepsInv ==
  ASSUME IndInv, UNCHANGED <<orderVars, answerVars, created>>,
         fixups' \in Seq(Ran), ready' \in Seq(Ran),
         pc' = pc \/ pc \notin {"done", "read", "order"} \/ (pc = "read" /\ pc' = "order")
           \/ (pc = "order" /\ pc' = "loop") \/ pc' = "done",
         pc' \in {"read", "order", "loop", "done"} \union PassSteps,
         pc' \in RollbackSteps => victim' \in Ran,
         pc' \in {"read", "order"} => pc \in {"read", "order"},
         pc' \in {"update", "undo"} => ready' # <<>>,
         pc' = "loop" => pc \in {"order", "loop"}
  PROVE  IndInv'
<1>1. /\ errors \in Nat /\ undone \in Nat
      /\ result \in [Index -> {"none", "ok", "error"}]
      /\ \A j \in Index \ Ran : result[j] = "none"
      /\ pc \in {"read", "order"} => ran = 0
      /\ pc \in {"read", "order", "loop"} => undone = 0
      /\ pc # "done" => errors + undone = Cardinality(Errors(result))
  BY DEF IndInv, AnswerShape, ErrorsCounted, Errors
<1>2. errors' = errors /\ undone' = undone /\ result' = result
  BY DEF answerVars
<1>3. pc' # "done" => pc # "done"
  OBVIOUS
<1> QED
  BY <1>1, <1>2, <1>3, StepKeepsInv

LEMMA TakeBackKeepsInv ==
  ASSUME IndInv, NEW i \in Ran, TakeBack(i), pc \in {"undo", "cascade"},
         UNCHANGED orderVars
  PROVE  IndInv'
<1>1. /\ UNCHANGED <<orderVars, answerVars, created, fixups, ready>>
      /\ pc' = "unjoin" /\ victim' = i
  BY DEF TakeBack
<1>2. fixups \in Seq(Ran) /\ ready \in Seq(Ran)
  BY DEF IndInv, AnswerShape
<1> QED
  BY <1>1, <1>2, QuietStepKeepsInv DEF PassSteps, RollbackSteps

\* The statements of a rollback before the last.
LEMMA RollbackGoesOn ==
  ASSUME IndInv, RemoveFromGroups \/ RemoveMembers
  PROVE  IndInv'
<1>1. /\ UNCHANGED <<orderVars, answerVars, created, victim, fixups, ready>>
      /\ pc \in {"unjoin", "empty"} /\ pc' \in {"empty", "unrow"}
  BY DEF RemoveFromGroups, RemoveMembers, Fixing, recordVars
<1>2. /\ fixups \in Seq(Ran) /\ ready \in Seq(Ran)
      /\ pc \in RollbackSteps => victim \in Ran
  BY DEF IndInv, AnswerShape
<1> QED
  BY <1>1, <1>2, QuietStepKeepsInv DEF PassSteps, RollbackSteps

LEMMA RemoveRowKeepsInv ==
  ASSUME IndInv, RemoveRow
  PROVE  IndInv'
<1>1. /\ undone' \in Nat /\ result' \in [Index -> {"none", "ok", "error"}]
      /\ \A j \in Index \ Ran : result'[j] = "none"
      /\ errors' = errors /\ undone' + errors' = Cardinality(Errors(result'))
  BY RollbackCounted
<1>2. /\ ready' = IF ready = <<>> THEN ready ELSE Tail(ready)
      /\ pc' \in {"cascade", "fix"} /\ UNCHANGED <<orderVars, created, fixups>>
  BY DEF RemoveRow, RollbackEnds, Fixing
<1>3. fixups \in Seq(Ran) /\ ready \in Seq(Ran) /\ errors \in Nat
  BY DEF IndInv, AnswerShape
<1>4. ready' \in Seq(Ran)
  BY <1>2, <1>3
<1> QED
  BY <1>1, <1>2, <1>3, <1>4, StepKeepsInv DEF PassSteps, RollbackSteps

LEMMA FixKeepsInv ==
  ASSUME IndInv, Fix
  PROVE  IndInv'
<1>1. /\ fixups \in Seq(Ran) /\ ready \in Seq(Ran) /\ created \subseteq Ran
      /\ pc \in {"update", "undo"} => ready # <<>>
  BY DEF IndInv, AnswerShape
<1>2. ready # <<>> => Tail(ready) \in Seq(Ran) /\ First \in Ran
  BY <1>1 DEF First
<1> USE DEF PassSteps, RollbackSteps
<1>3. ASSUME NEW b \in BulkId, AddMember(b) PROVE IndInv'
  BY <1>1, <1>3, QuietStepKeepsInv DEF AddMember, Fixing, recordVars
<1>4. ASSUME NEW b \in BulkId, AddMemberFails(b) PROVE IndInv'
  BY <1>1, <1>4, QuietStepKeepsInv DEF AddMemberFails, Fixing, recordVars
<1>5. ASSUME NEW b \in BulkId, LoadUser(b) PROVE IndInv'
  <2>1. /\ pc = "fix" /\ ready # <<>> /\ pc' \in {"update", "undo"}
        /\ UNCHANGED <<orderVars, answerVars, created, fixups, ready>>
    BY <1>5 DEF LoadUser, Fixing, recordVars
  <2> QED
    BY <1>1, <2>1, QuietStepKeepsInv
<1>6. ASSUME NEW b \in BulkId, UpdateUser(b) PROVE IndInv'
  <2>1. /\ pc = "update" /\ pc' = "fix"
        /\ UNCHANGED <<orderVars, errors, undone, result, created, fixups, ready>>
    BY <1>6 DEF UpdateUser, Fixing, recordVars
  <2>2. /\ errors \in Nat /\ undone \in Nat
        /\ result \in [Index -> {"none", "ok", "error"}]
        /\ \A j \in Index \ Ran : result[j] = "none"
        /\ errors + undone = Cardinality(Errors(result))
    BY <2>1 DEF IndInv, AnswerShape, ErrorsCounted, Errors
  <2> QED
    BY <1>1, <2>1, <2>2, StepKeepsInv
<1>7. CASE FixupOver
  BY <1>1, <1>2, <1>7, QuietStepKeepsInv DEF FixupOver, Fixing, recordVars
<1>8. CASE UpdateUserFails
  <2>1. /\ pc = "update" /\ pc' = "undo"
        /\ UNCHANGED <<orderVars, answerVars, created, fixups, ready>>
    BY <1>8 DEF UpdateUserFails, Fixing, recordVars
  <2> QED
    BY <1>1, <2>1, QuietStepKeepsInv
<1>9. CASE UndoFixup
  BY <1>1, <1>2, <1>9, TakeBackKeepsInv DEF UndoFixup, Fixing
<1>10. CASE StartCascade
  BY <1>1, <1>10, QuietStepKeepsInv DEF StartCascade, Fixing, recordVars
<1>11. ASSUME NEW i \in Index, Cascade(i) PROVE IndInv'
  BY <1>1, <1>11, TakeBackKeepsInv DEF Cascade, Fixing, Orphaned
<1>12. CASE FixupsDone
  <2>1. /\ pc = "cascade" /\ undone' = 0 /\ result' = result
        /\ errors' = IF last THEN errors ELSE errors + undone
        /\ pc' = IF last THEN "done" ELSE "loop"
        /\ UNCHANGED <<orderVars, created, fixups, ready>>
    BY <1>12 DEF FixupsDone, Fixing, recordVars
  <2>2. /\ errors \in Nat /\ undone \in Nat
        /\ result \in [Index -> {"none", "ok", "error"}]
        /\ \A j \in Index \ Ran : result[j] = "none"
        /\ errors + undone = Cardinality(Errors(result))
    BY <2>1 DEF IndInv, AnswerShape, ErrorsCounted, Errors
  <2> QED
    BY <1>1, <2>1, <2>2, StepKeepsInv
<1>13. CASE RemoveFromGroups \/ RemoveMembers
  BY <1>13, RollbackGoesOn
<1>14. CASE RemoveRow
  BY <1>14, RemoveRowKeepsInv
<1> QED
  BY <1>3, <1>4, <1>5, <1>6, <1>7, <1>8, <1>9, <1>10, <1>11, <1>12, <1>13, <1>14 DEF Fix

-----------------------------------------------------------------------------
(* The theorems *)

LEMMA InitInv ==
  ASSUME Init
  PROVE  IndInv
<1>1. /\ ops \in Inputs /\ order = <<>> /\ ran = 0 /\ pc = "read"
      /\ errors = 0 /\ undone = 0 /\ result = [i \in Index |-> "none"]
      /\ created = {} /\ fixups = <<>> /\ ready = <<>>
  BY DEF Init, InitOrder
<1>2. order \in Seq(Index) /\ DOMAIN order = {} /\ Len(order) = 0
  BY <1>1
<1>3. Scheduled = {} /\ OrderShape
  BY <1>1, <1>2 DEF Scheduled, OrderShape
<1>4. OrderInv
  BY <1>3 DEF OrderInv, ReferencesSettled, ClientOrderKept, OnlyCyclesBroken
<1>5. AnswerShape
  BY <1>1 DEF AnswerShape, Ran, PassSteps, RollbackSteps
<1>6. Cardinality({i \in Index : result[i] = "error"}) = 0
  <2>1. {i \in Index : result[i] = "error"} = {}
    BY <1>1
  <2> QED
    BY <2>1, FS_EmptySet
<1> QED
  BY <1>1, <1>4, <1>5, <1>6 DEF IndInv, ErrorsCounted

LEMMA PlanKeepsInv ==
  ASSUME IndInv, Plan
  PROVE  IndInv'
<1>1. PICK i \in Index : Schedule(i)
  BY DEF Plan
<1>2. /\ pc = "order" /\ UNCHANGED <<pc, ran, answerVars, created, fixups, ready>>
      /\ ran = 0
  BY DEF Plan, recordVars, fixVars, IndInv, AnswerShape
<1>3. OrderInv'
  BY <1>1, <1>2, PlanKeepsOrder DEF IndInv
<1>4. Index' = Index /\ Ran = {} /\ Ran' = {}
  BY <1>1, <1>2 DEF Schedule, Index, Ran
<1>5. AnswerShape'
  BY <1>2, <1>4 DEF IndInv, AnswerShape, answerVars
<1>6. ErrorsCounted'
  BY <1>2, <1>4 DEF IndInv, ErrorsCounted, answerVars
<1> QED
  BY <1>3, <1>5, <1>6 DEF IndInv

LEMMA NextKeepsInv ==
  ASSUME IndInv, [Next]_vars
  PROVE  IndInv'
<1>1. /\ fixups \in Seq(Ran) /\ ready \in Seq(Ran) /\ <<>> \in Seq(Ran)
      /\ pc \in {"update", "undo"} => ready # <<>>
      /\ pc \in {"read", "order", "loop", "done"} \union PassSteps
      /\ pc \in RollbackSteps => victim \in Ran
  BY DEF IndInv, AnswerShape
<1> USE DEF PassSteps, RollbackSteps
<1>2. CASE Refuse
  BY <1>1, <1>2, QuietStepKeepsInv DEF Refuse, recordVars, fixVars
<1>3. CASE Accept
  BY <1>1, <1>3, QuietStepKeepsInv DEF Accept, recordVars, fixVars
<1>4. CASE Plan
  BY <1>4, PlanKeepsInv
<1>5. CASE Planned
  BY <1>1, <1>5, QuietStepKeepsInv DEF Planned, recordVars, fixVars
<1>6. CASE Operate
  BY <1>6, OperateKeepsInv
<1>7. CASE LoopEnds
  <2>1. /\ pc = "loop" /\ pc' \in {"done", "fix"} /\ ready' = fixups /\ fixups' = <<>>
        /\ UNCHANGED <<orderVars, answerVars, created>>
    BY <1>7 DEF LoopEnds, recordVars
  <2> QED
    BY <1>1, <2>1, QuietStepKeepsInv
<1>8. CASE Fix
  BY <1>8, FixKeepsInv
<1>9. CASE Others \/ Answered \/ UNCHANGED vars
  <2>1. UNCHANGED <<pc, orderVars, answerVars, created, victim, fixups, ready>>
    <3>1. CASE Others
      BY <3>1 DEF Others, OtherDeletes, OtherWrites, recordVars, fixVars
    <3>2. CASE Answered \/ UNCHANGED vars
      BY <3>2, Zenon DEF Answered, vars, recordVars, fixVars
    <3> QED
      BY <1>9, <3>1, <3>2
  <2> QED
    BY <1>1, <2>1, QuietStepKeepsInv
<1> QED
  BY <1>2, <1>3, <1>4, <1>5, <1>6, <1>7, <1>8, <1>9, Zenon DEF Next, ProcessBulk

THEOREM Invariance == Spec => []IndInv
<1>1. Init => IndInv
  BY InitInv
<1>2. IndInv /\ [Next]_vars => IndInv'
  BY NextKeepsInv
<1> QED
  BY <1>1, <1>2, PTL DEF Spec, SafetySpec

\* The order of execution is right for every list of operations, however many and
\* whatever refers to what: uses run after all they need, operations on one path in
\* the client's order, and only cycles put a POST before one that it needs.
THEOREM OrderIsSound == Spec => []OrderSound
<1>1. IndInv => OrderSound
  BY DEF IndInv, OrderInv, OrderSound
<1> QED
  BY <1>1, Invariance, PTL

\* errorCount, which stops the loop, is the number of errors in the answer, however
\* many rollbacks, failing statements, panics and other clients there were.
THEOREM ErrorsCountedOnce == Spec => []ErrorCountExact
<1>1. IndInv => ErrorCountExact
  BY DEF IndInv, AnswerShape, ErrorsCounted, ErrorCountExact
<1> QED
  BY <1>1, Invariance, PTL
=============================================================================
