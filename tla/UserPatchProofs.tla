--------------------------- MODULE UserPatchProofs ---------------------------
(***************************************************************************)
(* Proofs about UserPatch, for any strings, lists, filters and maps, and   *)
(* any number of operations in a request.  The loops of the code are       *)
(* FoldUp; each gets an invariant of the steps done.                       *)
(***************************************************************************)
EXTENDS UserPatch, TLAPS, FiniteSetTheorems, WellFoundedInduction
-----------------------------------------------------------------------------
(* Numbers and loops *)

LEMMA LeastNumber ==
  ASSUME NEW T \in SUBSET Nat, T # {}
  PROVE  \E x \in T : \A y \in T : x <= y
<1>1. PICK x \in T : \A y \in T : ~(<<y, x>> \in OpToRel(<, Nat))
  BY NatLessThanWellFounded, WFMin
<1>2. \A y \in T : ~(y < x)
  BY <1>1 DEF OpToRel
<1> QED
  BY <1>2

\* Induction over the steps of a loop: T is the set of the steps that are fine.
LEMMA AllSteps ==
  ASSUME NEW N \in Nat, NEW T, 0 \in T, \A n \in 1 .. N : n - 1 \in T => n \in T
  PROVE  \A n \in 0 .. N : n \in T
<1> DEFINE B == {n \in 0 .. N : n \notin T}
<1> SUFFICES ASSUME B # {} PROVE FALSE
  OBVIOUS
<1>0. B \in SUBSET Nat
  OBVIOUS
<1>1. PICK m \in B : \A y \in B : m <= y
  <2> HIDE DEF B
  <2> QED
    BY <1>0, LeastNumber
<1>2. m # 0 /\ m \in 0 .. N /\ m \notin T
  OBVIOUS
<1>3. m - 1 \in 0 .. N /\ m \in 1 .. N
  BY <1>2
<1>4. m - 1 \notin B
  BY <1>1, <1>3
<1> QED
  BY <1>2, <1>3, <1>4

\* Functions on a set can be applied one after the other.
Loops(N, x, F, g) == g[0] = x /\ \A n \in 1 .. N : g[n] = F[n][g[n - 1]]

LEMMA LoopExists ==
  ASSUME NEW X, NEW x \in X, NEW N \in Nat, NEW F \in [1 .. N -> [X -> X]]
  PROVE  \E g \in [0 .. N -> X] : Loops(N, x, F, g)
<1> DEFINE Upto(n) == {h \in [0 .. n -> X] : h[0] = x /\ \A k \in 1 .. n : h[k] = F[k][h[k - 1]]}
           T == {n \in 0 .. N : Upto(n) # {}}
<1>1. 0 \in T
  <2>1. [k \in 0 .. 0 |-> x] \in Upto(0)
    OBVIOUS
  <2> QED
    BY <2>1
<1>2. ASSUME NEW n \in 1 .. N, n - 1 \in T PROVE n \in T
  <2>1. PICK h \in Upto(n - 1) : TRUE
    BY <1>2
  <2> DEFINE g == [k \in 0 .. n |-> IF k = n THEN F[n][h[n - 1]] ELSE h[k]]
  <2>2. h \in [0 .. n - 1 -> X] /\ h[0] = x /\ \A k \in 1 .. n - 1 : h[k] = F[k][h[k - 1]]
    BY <2>1
  <2>3. h[n - 1] \in X /\ F[n][h[n - 1]] \in X
    BY <2>2
  <2>4. g \in [0 .. n -> X] /\ g[0] = x
    BY <2>2, <2>3
  <2>5. \A k \in 1 .. n : g[k] = F[k][g[k - 1]]
    BY <2>2
  <2>6. g \in Upto(n)
    BY <2>4, <2>5
  <2> QED
    BY <2>6
<1>3. N \in T
  <2> HIDE DEF T
  <2>1. \A n \in 0 .. N : n \in T
    BY <1>1, <1>2, AllSteps
  <2> QED
    BY <2>1
<1>4. PICK g \in Upto(N) : TRUE
  BY <1>3
<1>5. g \in [0 .. N -> X] /\ g[0] = x /\ \A k \in 1 .. N : g[k] = F[k][g[k - 1]]
  BY <1>4
<1> QED
  BY <1>5 DEF Loops

LEMMA LoopStays ==
  ASSUME NEW X, NEW N \in Nat, NEW c, c[0] \in X, \A n \in 1 .. N : c[n - 1] \in X => c[n] \in X
  PROVE  \A n \in 0 .. N : c[n] \in X
<1> DEFINE T == {n \in 0 .. N : c[n] \in X}
<1>1. 0 \in T /\ \A n \in 1 .. N : n - 1 \in T => n \in T
  OBVIOUS
<1> HIDE DEF T
<1>2. \A n \in 0 .. N : n \in T
  BY <1>1, AllSteps
<1> QED
  BY <1>2 DEF T

\* A set of indices has at most one member exactly if all its members are equal.
LEMMA AtMostOne ==
  ASSUME NEW n \in Nat, NEW S \in SUBSET (1 .. n)
  PROVE  (Cardinality(S) <= 1) <=> (\A i, j \in S : i = j)
<1>1. IsFiniteSet(S) /\ Cardinality(S) \in Nat
  <2>1. IsFiniteSet(1 .. n)
    BY FS_Interval
  <2>2. IsFiniteSet(S)
    BY <2>1, FS_Subset
  <2> QED
    BY <2>2, FS_CardinalityType
<1>2. ASSUME Cardinality(S) <= 1, NEW i \in S, NEW j \in S, i # j PROVE FALSE
  <2>1. {i, j} \subseteq S /\ IsFiniteSet({i, j}) /\ Cardinality({i, j}) = 2
    <3>1. IsFiniteSet({i}) /\ Cardinality({i}) = 1
      BY FS_Singleton
    <3>2. {i} \union {j} = {i, j} /\ j \notin {i}
      BY <1>2
    <3> QED
      BY <3>1, <3>2, FS_AddElement
  <2>2. Cardinality({i, j}) <= Cardinality(S)
    BY <1>1, <2>1, FS_Subset
  <2> QED
    BY <1>1, <1>2, <2>1, <2>2
<1>3. ASSUME \A i, j \in S : i = j PROVE Cardinality(S) <= 1
  <2>1. CASE S = {}
    BY <2>1, FS_EmptySet
  <2>2. CASE S # {}
    <3>1. PICK i : i \in S
      BY <2>2
    <3>2. S = {i}
      BY <1>3, <3>1
    <3>3. Cardinality({i}) = 1
      BY FS_Singleton
    <3> QED
      BY <3>2, <3>3
  <2> QED
    BY <2>1, <2>2
<1> QED
  BY <1>2, <1>3
-----------------------------------------------------------------------------
(* Items *)

LEMMA CanonicalValues ==
  ASSUME NEW v \in Value
  PROVE  /\ CanonicalValue(v) \in Value
         /\ CanonicalValue(CanonicalValue(v)) = CanonicalValue(v)
         /\ Acceptable(v) => Acceptable(CanonicalValue(v))
<1> DEFINE w == [v EXCEPT !.spelling = "plain"]
<1>1. w \in Value /\ w.spelling = "plain" /\ [w EXCEPT !.spelling = "plain"] = w
  <2>1. CASE v = NoWord
    <3>1. w = NoWord
      BY <2>1 DEF NoWord
    <3>2. NoWord.spelling = "plain" /\ [NoWord EXCEPT !.spelling = "plain"] = NoWord
      BY DEF NoWord
    <3>3. NoWord \in Value
      BY DEF Value
    <3> QED
      BY <3>1, <3>2, <3>3
  <2>2. CASE v \in [word : Word, spelling : {"plain", "loose", "upper"}]
    <3>1. w \in [word : Word, spelling : {"plain", "loose", "upper"}]
      BY <2>2
    <3>2. w.spelling = "plain" /\ [w EXCEPT !.spelling = "plain"] = w
      BY <2>2, <3>1
    <3> QED
      BY <3>1, <3>2 DEF Value
  <2> QED
    BY <2>1, <2>2 DEF Value
<1>2. CanonicalValue(v) = v \/ CanonicalValue(v) = w
  BY DEF CanonicalValue
<1>3. CanonicalValue(w) = w
  BY <1>1 DEF CanonicalValue
<1>4. CanonicalValue(v) = v => CanonicalValue(CanonicalValue(v)) = CanonicalValue(v)
  OBVIOUS
<1>5. Acceptable(w)
  BY <1>1 DEF Acceptable
<1> HIDE DEF w
<1> QED
  BY <1>1, <1>2, <1>3, <1>4, <1>5

LEMMA CanonicalTypes ==
  ASSUME NEW t \in Type
  PROVE  CanonicalType(t) \in Type /\ CanonicalType(CanonicalType(t)) = CanonicalType(t)
  BY DEF Type, CanonicalType

LEMMA NoWordValue == NoWord \in Value /\ Acceptable(NoWord)
  BY DEF Value, NoWord, Acceptable

LEMMA RawItems ==
  ASSUME NEW raw \in RawItem
  PROVE  /\ DOMAIN raw \subseteq {"value", "type", "primary"}
         /\ "value" \in DOMAIN raw => raw["value"] \in Value
         /\ "type" \in DOMAIN raw => raw["type"] \in Type
         /\ "primary" \in DOMAIN raw => raw["primary"] \in BOOLEAN
<1>1. PICK D \in SUBSET {"value", "type", "primary"} : raw \in {Restrict(x, D) : x \in Item}
  BY DEF RawItem
<1>2. PICK x \in Item : raw = Restrict(x, D)
  BY <1>1
<1>3. raw = [k \in D |-> x[k]]
  BY <1>2 DEF Restrict
<1>4. x["value"] \in Value /\ x["type"] \in Type /\ x["primary"] \in BOOLEAN
  BY DEF Item
<1> QED
  BY <1>3, <1>4

LEMMA RawGiven ==
  ASSUME NEW raw \in RawItem
  PROVE  /\ Given(raw, "value", NoWord) \in Value
         /\ Given(raw, "type", "") \in Type
         /\ Given(raw, "primary", FALSE) \in BOOLEAN
  BY RawItems, NoWordValue, Zenon DEF Given, Type

LEMMA Built ==
  ASSUME NEW raw \in RawItem, Acceptable(Given(raw, "value", NoWord))
  PROVE  /\ Build(raw) \in Item /\ Canonical(Build(raw))
         /\ Build(raw).primary = Given(raw, "primary", FALSE)
<1> DEFINE v == Given(raw, "value", NoWord)
           t == Given(raw, "type", "")
           p == Given(raw, "primary", FALSE)
<1>1. v \in Value /\ t \in Type /\ p \in BOOLEAN /\ Acceptable(v)
  BY RawGiven
<1>2. Build(raw) = [value |-> CanonicalValue(v), type |-> CanonicalType(t), primary |-> p]
  BY DEF Build
<1> HIDE DEF v, t, p
<1> QED
  <2>1. CanonicalValue(v) \in Value /\ CanonicalType(t) \in Type
    BY <1>1, CanonicalValues, CanonicalTypes
  <2>2. Build(raw) \in Item
    BY <1>1, <1>2, <2>1 DEF Item
  <2>3. /\ Build(raw).value = CanonicalValue(v) /\ Build(raw).type = CanonicalType(t)
        /\ Build(raw).primary = p
    BY <1>2
  <2>4. Canonical(Build(raw))
    BY <1>1, <2>3, CanonicalValues, CanonicalTypes DEF Canonical
  <2> QED
    BY <2>2, <2>3, <2>4 DEF p

\* The key depends on value and type alone.
LEMMA KeyOfParts ==
  ASSUME NEW x, NEW y, x.value = y.value, x.type = y.type
  PROVE  ItemKey(x) = ItemKey(y) /\ Canonical(x) = Canonical(y)
  BY Zenon DEF ItemKey, Canonical

\* What an item is but for its primary flag.
Alike(x, y) == x.value = y.value /\ x.type = y.type

\* Items with the flag of another, and equality member by member.
LEMMA Flagged ==
  ASSUME NEW x \in Item, NEW f \in BOOLEAN
  PROVE  /\ [x EXCEPT !.primary = f] \in Item /\ [x EXCEPT !.primary = f].primary = f
         /\ Alike([x EXCEPT !.primary = f], x)
  BY DEF Item, Alike

LEMMA SameItem ==
  ASSUME NEW x \in Item, NEW y \in Item, Alike(x, y), x.primary = y.primary
  PROVE  x = y
  BY DEF Item, Alike

LEMMA AlikeKey ==
  ASSUME NEW x, NEW y, Alike(x, y)
  PROVE  ItemKey(x) = ItemKey(y) /\ Canonical(x) = Canonical(y)
  BY KeyOfParts DEF Alike

LEMMA FlagType == ASSUME NEW x \in Item PROVE x.primary \in BOOLEAN
  BY DEF Item
-----------------------------------------------------------------------------
(* Deduplicate *)

DedupStep(kept, x) ==
  IF \E i \in DOMAIN kept : SameKey(kept[i], x) THEN Merged(kept, x) ELSE Append(kept, x)

DedupLoop(items, g) ==
  /\ g[0] = <<>>
  /\ \A n \in 1 .. Len(items) : g[n] = DedupStep(g[n - 1], items[n])

LEMMA DedupStepShape ==
  ASSUME NEW k \in Seq(Item), NEW x \in Item
  PROVE  LET r == DedupStep(k, x) IN
         /\ r \in Seq(Item)
         /\ \A i \in 1 .. Len(k) :
              /\ i \in 1 .. Len(r) /\ Alike(r[i], k[i])
              /\ r[i].primary <=> k[i].primary \/ (x.primary /\ SameKey(k[i], x))
         /\ \/ Len(r) = Len(k) /\ \E i \in 1 .. Len(k) : SameKey(k[i], x)
            \/ /\ Len(r) = Len(k) + 1 /\ r[Len(k) + 1] = x
               /\ \A i \in 1 .. Len(k) : ~SameKey(k[i], x)
<1> DEFINE r == DedupStep(k, x)
<1>0. DOMAIN k = 1 .. Len(k) /\ \A i \in 1 .. Len(k) : k[i] \in Item
  OBVIOUS
<1>1. CASE \E i \in DOMAIN k : SameKey(k[i], x)
  <2>1. r = [i \in 1 .. Len(k) |->
               IF SameKey(k[i], x) THEN [k[i] EXCEPT !.primary = @ \/ x.primary] ELSE k[i]]
    BY <1>0, <1>1 DEF DedupStep, Merged
  <2>2. ASSUME NEW i \in 1 .. Len(k)
        PROVE  /\ r[i] \in Item /\ Alike(r[i], k[i])
               /\ r[i].primary <=> k[i].primary \/ (x.primary /\ SameKey(k[i], x))
    <3>1. CASE SameKey(k[i], x)
      <4> DEFINE f == k[i].primary \/ x.primary
      <4>1. r[i] = [k[i] EXCEPT !.primary = f]
        BY <2>1, <3>1
      <4>2. f \in BOOLEAN
        OBVIOUS
      <4> HIDE DEF f
      <4>3. r[i] \in Item /\ Alike(r[i], k[i]) /\ r[i].primary = f
        <5>1. k[i] \in Item
          BY <1>0
        <5> QED
          BY ONLY <4>1, <4>2, <5>1, Flagged
      <4> QED
        BY <3>1, <4>3 DEF f
    <3>2. CASE ~SameKey(k[i], x)
      <4>1. r[i] = k[i]
        BY <2>1, <3>2
      <4> QED
        BY <1>0, <3>2, <4>1 DEF Alike
    <3> QED
      BY <3>1, <3>2
  <2> HIDE DEF r
  <2>3. DOMAIN r = 1 .. Len(k) /\ r = [i \in 1 .. Len(k) |-> r[i]]
    BY <2>1
  <2>4. r \in [1 .. Len(k) -> Item]
    BY <2>2, <2>3
  <2>5. r \in Seq(Item) /\ Len(r) = Len(k)
    BY <2>4
  <2> QED
    BY <1>0, <1>1, <2>2, <2>5 DEF r
<1>2. CASE ~\E i \in DOMAIN k : SameKey(k[i], x)
  <2>1. r = Append(k, x)
    BY <1>2 DEF DedupStep
  <2> HIDE DEF r
  <2>2. r \in Seq(Item) /\ Len(r) = Len(k) + 1 /\ r[Len(k) + 1] = x
        /\ \A i \in 1 .. Len(k) : i \in 1 .. Len(r) /\ r[i] = k[i]
    BY <2>1
  <2> QED
    BY <1>0, <1>2, <2>2 DEF Alike, r
<1> QED
  BY <1>1, <1>2

LEMMA DeduplicateLoops ==
  ASSUME NEW items \in Seq(Item)
  PROVE  \E g \in [0 .. Len(items) -> Seq(Item)] :
           DedupLoop(items, g) /\ Deduplicate(items) = g[Len(items)]
<1> DEFINE N == Len(items)
           F == [n \in 1 .. N |-> [k \in Seq(Item) |-> DedupStep(k, items[n])]]
           Body(f) == [n \in 0 .. N |-> IF n = 0 THEN <<>> ELSE DedupStep(f[n - 1], items[n])]
<1>1. N \in Nat /\ \A n \in 1 .. N : items[n] \in Item
  OBVIOUS
<1>2. \A n \in 1 .. N, k \in Seq(Item) : DedupStep(k, items[n]) \in Seq(Item)
  BY <1>1, DedupStepShape
<1>3. F \in [1 .. N -> [Seq(Item) -> Seq(Item)]]
  BY <1>2
<1>4. <<>> \in Seq(Item)
  OBVIOUS
<1>5. \A n \in 1 .. N, k \in Seq(Item) : F[n][k] = DedupStep(k, items[n])
  OBVIOUS
<1>6. PICK g \in [0 .. N -> Seq(Item)] :
        g[0] = <<>> /\ \A n \in 1 .. N : g[n] = F[n][g[n - 1]]
  <2> DEFINE X == Seq(Item)
  <2>1. N \in Nat /\ <<>> \in X /\ F \in [1 .. N -> [X -> X]]
    BY <1>1, <1>3, <1>4
  <2> HIDE DEF N, F, X
  <2>2. \E g \in [0 .. N -> X] : Loops(N, <<>>, F, g)
    BY ONLY <2>1, LoopExists, Zenon
  <2> QED
    BY <2>2 DEF X, Loops
<1>7. g = Body(g)
  <2>1. \A n \in 1 .. N : n - 1 \in 0 .. N
    BY <1>1
  <2> HIDE DEF N, F
  <2>2. \A n \in 1 .. N : F[n][g[n - 1]] = DedupStep(g[n - 1], items[n])
    BY <1>5, <2>1
  <2>3. \A n \in 0 .. N : n # 0 => n \in 1 .. N
    BY <1>1
  <2>4. \A n \in 0 .. N : g[n] = IF n = 0 THEN <<>> ELSE DedupStep(g[n - 1], items[n])
    BY <1>6, <2>2, <2>3
  <2> QED
    BY <2>4
<1> DEFINE c == CHOOSE f : f = Body(f)
<1>8. c = Body(c)
  BY <1>7, Zenon
<1>9. Deduplicate(items) = c[N]
  BY DEF Deduplicate, FoldUp, DedupStep
<1> HIDE DEF c, N, F
<1>10. c[0] = <<>> /\ \A n \in 1 .. N : c[n] = DedupStep(c[n - 1], items[n])
  <2>1. 0 \in 0 .. N /\ \A n \in 1 .. N : n \in 0 .. N /\ n # 0
    BY <1>1
  <2> QED
    BY <1>8, <2>1
<1>11. \A n \in 0 .. N : c[n] \in Seq(Item)
  <2>1. c[0] \in Seq(Item)
    BY <1>4, <1>10, Zenon
  <2>2. \A n \in 1 .. N : c[n - 1] \in Seq(Item) => c[n] \in Seq(Item)
    BY ONLY <1>2, <1>10
  <2> QED
    BY ONLY <1>1, <2>1, <2>2, LoopStays
<1>12. c \in [0 .. N -> Seq(Item)]
  <2>1. DOMAIN c = 0 .. N /\ c = [n \in 0 .. N |-> c[n]]
    BY <1>8
  <2> QED
    BY <1>11, <2>1
<1> QED
  BY <1>9, <1>10, <1>12 DEF DedupLoop, N

\* What the first n items leave: each of them once, with the flag of any of them.
DedupInv(items, n, k) ==
  /\ k \in Seq(Item)
  /\ \A i \in 1 .. Len(k) : \E m \in 1 .. n : Alike(k[i], items[m])
  /\ \A m \in 1 .. n : \E i \in 1 .. Len(k) : ItemKey(items[m]) = ItemKey(k[i])
  /\ \A i, j \in 1 .. Len(k) : i # j => ItemKey(k[i]) # ItemKey(k[j])
  /\ \A i \in 1 .. Len(k) :
       k[i].primary <=> \E m \in 1 .. n : items[m].primary /\ ItemKey(items[m]) = ItemKey(k[i])

LEMMA DedupStepKeepsInv ==
  ASSUME NEW items \in Seq(Item), NEW n \in 1 .. Len(items), NEW k, DedupInv(items, n - 1, k)
  PROVE  DedupInv(items, n, DedupStep(k, items[n]))
<1> DEFINE x == items[n]
           r == DedupStep(k, x)
<1>0. n \in Nat /\ n \in 1 .. n /\ x \in Item /\ k \in Seq(Item) /\ Len(k) \in Nat
      /\ \A m \in 1 .. n : m = n \/ m \in 1 .. n - 1
  BY DEF DedupInv
<1>1. /\ r \in Seq(Item)
      /\ \A i \in 1 .. Len(k) :
           /\ i \in 1 .. Len(r) /\ Alike(r[i], k[i])
           /\ r[i].primary <=> k[i].primary \/ (x.primary /\ SameKey(k[i], x))
      /\ \/ Len(r) = Len(k) /\ \E i \in 1 .. Len(k) : SameKey(k[i], x)
         \/ /\ Len(r) = Len(k) + 1 /\ r[Len(k) + 1] = x
            /\ \A i \in 1 .. Len(k) : ~SameKey(k[i], x)
  BY <1>0, DedupStepShape
<1> HIDE DEF r, x
<1>2. \A i \in 1 .. Len(r) : i \in 1 .. Len(k) \/ (i = Len(k) + 1 /\ r[i] = x /\
                               \A j \in 1 .. Len(k) : ItemKey(k[j]) # ItemKey(x))
  BY <1>0, <1>1 DEF SameKey
<1>3. \A i \in 1 .. Len(k) : ItemKey(r[i]) = ItemKey(k[i])
  BY <1>1, AlikeKey
<1>4. ASSUME NEW i \in 1 .. Len(r) PROVE \E m \in 1 .. n : Alike(r[i], items[m])
  <2>1. CASE i \in 1 .. Len(k)
    <3>1. PICK m \in 1 .. n - 1 : Alike(k[i], items[m])
      BY <2>1 DEF DedupInv
    <3>2. Alike(r[i], items[m]) /\ m \in 1 .. n
      BY <1>0, <1>1, <2>1, <3>1 DEF Alike
    <3> QED
      BY <3>2
  <2>2. CASE r[i] = x
    BY <1>0, <2>2 DEF Alike, x
  <2> QED
    BY <1>2, <2>1, <2>2
<1>5. ASSUME NEW m \in 1 .. n
      PROVE  \E i \in 1 .. Len(r) : ItemKey(items[m]) = ItemKey(r[i])
  <2>1. CASE m \in 1 .. n - 1
    <3>1. PICK i \in 1 .. Len(k) : ItemKey(items[m]) = ItemKey(k[i])
      BY <2>1 DEF DedupInv
    <3> QED
      BY <1>1, <1>3, <3>1
  <2>2. CASE m = n /\ \E i \in 1 .. Len(k) : SameKey(k[i], x)
    BY <1>1, <1>3, <2>2 DEF SameKey, x
  <2>3. CASE m = n /\ Len(r) = Len(k) + 1 /\ r[Len(k) + 1] = x
    <3>1. Len(k) + 1 \in 1 .. Len(r)
      BY <1>0, <2>3
    <3> QED
      BY <2>3, <3>1 DEF x
  <2> QED
    BY <1>0, <1>1, <2>1, <2>2, <2>3
<1>6. ASSUME NEW i \in 1 .. Len(r), NEW j \in 1 .. Len(r), i # j
      PROVE  ItemKey(r[i]) # ItemKey(r[j])
  BY <1>2, <1>3, <1>6 DEF DedupInv
<1>7. ASSUME NEW i \in 1 .. Len(r)
      PROVE  r[i].primary <=>
               \E m \in 1 .. n : items[m].primary /\ ItemKey(items[m]) = ItemKey(r[i])
  <2>1. CASE i \in 1 .. Len(k)
    <3>1. r[i].primary <=> k[i].primary \/ (x.primary /\ ItemKey(x) = ItemKey(r[i]))
      BY <1>1, <1>3, <2>1 DEF SameKey
    <3>2. k[i].primary <=>
            \E m \in 1 .. n - 1 : items[m].primary /\ ItemKey(items[m]) = ItemKey(r[i])
      BY <1>3, <2>1, Zenon DEF DedupInv
    <3>3. \A m \in 1 .. n - 1 : m \in 1 .. n
      BY <1>0
    <3> QED
      BY ONLY <1>0, <3>1, <3>2, <3>3 DEF x
  <2>2. CASE r[i] = x /\ \A j \in 1 .. Len(k) : ItemKey(k[j]) # ItemKey(x)
    <3>1. \A m \in 1 .. n - 1 : ItemKey(items[m]) # ItemKey(x)
      BY <2>2 DEF DedupInv
    <3> QED
      BY <1>0, <2>2, <3>1 DEF x
  <2> QED
    BY <1>2, <2>1, <2>2
<1>8. DedupInv(items, n, r)
  BY <1>1, <1>4, <1>5, <1>6, <1>7 DEF DedupInv
<1> QED
  BY <1>8 DEF r, x

LEMMA DeduplicateShape ==
  ASSUME NEW items \in Seq(Item)
  PROVE  DedupInv(items, Len(items), Deduplicate(items))
<1>1. PICK g \in [0 .. Len(items) -> Seq(Item)] :
        DedupLoop(items, g) /\ Deduplicate(items) = g[Len(items)]
  BY DeduplicateLoops
<1> DEFINE T == {n \in 0 .. Len(items) : DedupInv(items, n, g[n])}
<1>0. Len(items) \in Nat /\ \A n : n \in T <=> n \in 0 .. Len(items) /\ DedupInv(items, n, g[n])
  OBVIOUS
<1> HIDE DEF T
<1>2. 0 \in T
  <2>1. DedupInv(items, 0, <<>>)
    BY DEF DedupInv
  <2>2. g[0] = <<>> /\ 0 \in 0 .. Len(items)
    BY <1>0, <1>1 DEF DedupLoop
  <2> QED
    BY ONLY <1>0, <2>1, <2>2
<1>3. ASSUME NEW n \in 1 .. Len(items), n - 1 \in T PROVE n \in T
  <2>1. DedupInv(items, n - 1, g[n - 1]) /\ n \in 0 .. Len(items)
    BY <1>0, <1>3
  <2>2. g[n] = DedupStep(g[n - 1], items[n])
    BY <1>1 DEF DedupLoop
  <2>3. DedupInv(items, n, g[n])
    BY <2>1, <2>2, DedupStepKeepsInv
  <2> QED
    BY ONLY <1>0, <2>1, <2>3
<1>4. Len(items) \in 0 .. Len(items)
  BY <1>0
<1>5. \A n \in 0 .. Len(items) : n \in T
  BY ONLY <1>0, <1>2, <1>3, AllSteps
<1> QED
  BY <1>0, <1>1, <1>4, <1>5

\* A list that deduplication may be given: canonical, with at most one primary item.
Mergeable(items) ==
  /\ items \in Seq(Item)
  /\ \A i \in 1 .. Len(items) : Canonical(items[i])
  /\ \A i, j \in 1 .. Len(items) : items[i].primary /\ items[j].primary => i = j

KeysOf(items) == {ItemKey(items[i]) : i \in 1 .. Len(items)}

LEMMA SoundIsMergeable ==
  ASSUME NEW items
  PROVE  Sound(items) <=> /\ Mergeable(items)
                          /\ \A i, j \in 1 .. Len(items) :
                               i # j => ItemKey(items[i]) # ItemKey(items[j])
<1>1. items \in Seq(Item) => DOMAIN items = 1 .. Len(items)
  OBVIOUS
<1> QED
  BY <1>1, Zenon DEF Sound, Mergeable, SameKey

LEMMA DeduplicateSound ==
  ASSUME NEW items, Mergeable(items)
  PROVE  /\ Sound(Deduplicate(items))
         /\ KeysOf(Deduplicate(items)) = KeysOf(items)
         /\ (\E i \in 1 .. Len(items) : items[i].primary)
              => \E i \in 1 .. Len(Deduplicate(items)) : Deduplicate(items)[i].primary
<1> DEFINE D == Deduplicate(items)
           N == Len(items)
<1>1. items \in Seq(Item) /\ DedupInv(items, N, D)
  BY DeduplicateShape DEF Mergeable
<1> HIDE DEF D, N
<1>2. \A i \in 1 .. Len(D) : Canonical(D[i])
  <2> TAKE i \in 1 .. Len(D)
  <2>1. PICK m \in 1 .. N : Alike(D[i], items[m])
    BY <1>1 DEF DedupInv
  <2> QED
    BY <2>1, AlikeKey DEF Mergeable, N
<1>3. \A i, j \in 1 .. Len(D) : D[i].primary /\ D[j].primary => i = j
  <2> SUFFICES ASSUME NEW i \in 1 .. Len(D), NEW j \in 1 .. Len(D), D[i].primary, D[j].primary
               PROVE  i = j
    OBVIOUS
  <2>1. PICK m \in 1 .. N : items[m].primary /\ ItemKey(items[m]) = ItemKey(D[i])
    BY <1>1 DEF DedupInv
  <2>2. PICK l \in 1 .. N : items[l].primary /\ ItemKey(items[l]) = ItemKey(D[j])
    BY <1>1 DEF DedupInv
  <2>3. m = l
    BY <2>1, <2>2 DEF Mergeable, N
  <2>4. ItemKey(D[i]) = ItemKey(D[j])
    BY <2>1, <2>2, <2>3
  <2> QED
    BY <1>1, <2>4 DEF DedupInv
<1>4. Sound(D)
  BY <1>1, <1>2, <1>3, SoundIsMergeable DEF Mergeable, DedupInv
<1>5. KeysOf(D) = KeysOf(items)
  <2>1. \A i \in 1 .. Len(D) : \E m \in 1 .. N : ItemKey(D[i]) = ItemKey(items[m])
    BY <1>1, AlikeKey DEF DedupInv
  <2>2. \A m \in 1 .. N : \E i \in 1 .. Len(D) : ItemKey(items[m]) = ItemKey(D[i])
    BY <1>1 DEF DedupInv
  <2> QED
    BY <2>1, <2>2 DEF KeysOf, N
<1>6. ASSUME NEW m \in 1 .. N, items[m].primary PROVE \E i \in 1 .. Len(D) : D[i].primary
  <2>1. PICK i \in 1 .. Len(D) : ItemKey(items[m]) = ItemKey(D[i])
    BY <1>1 DEF DedupInv
  <2> QED
    BY <1>1, <1>6, <2>1 DEF DedupInv
<1> QED
  BY <1>4, <1>5, <1>6 DEF D, N

\* While the first L items have different keys and the rest only repeats theirs,
\* deduplication keeps the first L.
AbsorbInv(items, L, n, k) ==
  /\ DedupInv(items, n, k)
  /\ n <= L => Len(k) = n
  /\ n > L => Len(k) = L
  /\ \A i \in 1 .. Len(k) : Alike(k[i], items[i])

LEMMA DeduplicateAbsorbs ==
  ASSUME NEW items \in Seq(Item), NEW L \in 0 .. Len(items),
         \A i, j \in 1 .. L : i # j => ItemKey(items[i]) # ItemKey(items[j]),
         \A m \in L + 1 .. Len(items) : \E i \in 1 .. L : ItemKey(items[m]) = ItemKey(items[i])
  PROVE  /\ Len(Deduplicate(items)) = L
         /\ \A i \in 1 .. L : Alike(Deduplicate(items)[i], items[i])
<1>1. PICK g \in [0 .. Len(items) -> Seq(Item)] :
        DedupLoop(items, g) /\ Deduplicate(items) = g[Len(items)]
  BY DeduplicateLoops
<1> DEFINE N == Len(items)
           T == {n \in 0 .. N : AbsorbInv(items, L, n, g[n])}
<1>0. N \in Nat /\ L \in Nat /\ \A n : n \in T <=> n \in 0 .. N /\ AbsorbInv(items, L, n, g[n])
  OBVIOUS
<1> HIDE DEF T
<1>2. 0 \in T
  <2>1. AbsorbInv(items, L, 0, <<>>)
    BY <1>0 DEF AbsorbInv, DedupInv
  <2>2. g[0] = <<>> /\ 0 \in 0 .. N
    BY <1>0, <1>1 DEF DedupLoop
  <2> QED
    BY ONLY <1>0, <2>1, <2>2
<1>3. ASSUME NEW n \in 1 .. N, n - 1 \in T PROVE n \in T
  <2> DEFINE k == g[n - 1]
             x == items[n]
             r == DedupStep(k, x)
  <2>1. AbsorbInv(items, L, n - 1, k) /\ n \in 0 .. N /\ n \in Nat
    BY <1>0, <1>3
  <2>2. g[n] = r
    BY <1>1 DEF DedupLoop
  <2>3. DedupInv(items, n, r)
    BY <2>1, DedupStepKeepsInv DEF AbsorbInv
  <2>4. /\ \A i \in 1 .. Len(k) :
             i \in 1 .. Len(r) /\ Alike(r[i], k[i])
        /\ \/ Len(r) = Len(k) /\ \E i \in 1 .. Len(k) : SameKey(k[i], x)
           \/ /\ Len(r) = Len(k) + 1 /\ r[Len(k) + 1] = x
              /\ \A i \in 1 .. Len(k) : ~SameKey(k[i], x)
    <3>1. k \in Seq(Item) /\ x \in Item
      BY <2>1 DEF AbsorbInv, DedupInv
    <3> QED
      BY <3>1, DedupStepShape
  <2> HIDE DEF k, r
  <2>5. /\ k \in Seq(Item) /\ Len(k) \in Nat
        /\ \A i \in 1 .. Len(k) : ItemKey(k[i]) = ItemKey(items[i]) /\ Alike(k[i], items[i])
    BY <2>1, AlikeKey DEF AbsorbInv, DedupInv
  <2>6. CASE n <= L
    <3>1. Len(k) = n - 1
      BY <1>0, <2>1, <2>6 DEF AbsorbInv
    <3>2. \A i \in 1 .. Len(k) : ItemKey(items[i]) # ItemKey(x)
      BY <1>0, <2>6, <3>1
    <3>3. Len(r) = Len(k) + 1 /\ r[Len(k) + 1] = x
      BY <2>4, <2>5, <3>2 DEF SameKey
    <3>4. Len(r) = n /\ r[n] = items[n]
      BY <2>1, <3>1, <3>3
    <3>5. \A i \in 1 .. n : i = n \/ i \in 1 .. Len(k)
      BY <2>1, <3>1
    <3>6. \A i \in 1 .. n : Alike(r[i], items[i])
      BY <2>4, <2>5, <3>4, <3>5 DEF Alike
    <3>7. AbsorbInv(items, L, n, r)
      BY <1>0, <2>1, <2>3, <2>6, <3>4, <3>6 DEF AbsorbInv
    <3> QED
      BY ONLY <1>0, <2>1, <2>2, <3>7
  <2>7. CASE n > L
    <3>1. Len(k) = L
      BY <1>0, <2>1, <2>7 DEF AbsorbInv
    <3>2. PICK i \in 1 .. L : ItemKey(x) = ItemKey(items[i])
      <4>1. n \in L + 1 .. Len(items)
        BY <1>0, <2>1, <2>7
      <4> QED
        BY <4>1
    <3>3. Len(r) = L
      BY <2>4, <2>5, <3>1, <3>2 DEF SameKey
    <3>4. \A j \in 1 .. Len(r) : Alike(r[j], items[j])
      BY <2>4, <2>5, <3>1, <3>3 DEF Alike
    <3>5. AbsorbInv(items, L, n, r)
      BY <1>0, <2>1, <2>3, <2>7, <3>3, <3>4 DEF AbsorbInv
    <3> QED
      BY ONLY <1>0, <2>1, <2>2, <3>5
  <2> QED
    BY <1>0, <2>1, <2>6, <2>7
<1>4. N \in 0 .. N
  BY <1>0
<1>5. \A n \in 0 .. N : n \in T
  BY ONLY <1>0, <1>2, <1>3, AllSteps
<1>6. AbsorbInv(items, L, N, Deduplicate(items))
  BY <1>0, <1>1, <1>4, <1>5
<1>7. N = L \/ N > L
  BY <1>0
<1> QED
  BY <1>0, <1>6, <1>7 DEF AbsorbInv

LEMMA DeduplicateEquals ==
  ASSUME NEW items \in Seq(Item), NEW R \in Seq(Item), Len(R) \in 0 .. Len(items),
         \A i, j \in 1 .. Len(R) : i # j => ItemKey(items[i]) # ItemKey(items[j]),
         \A m \in Len(R) + 1 .. Len(items) :
           \E i \in 1 .. Len(R) : ItemKey(items[m]) = ItemKey(items[i]),
         \A i \in 1 .. Len(R) :
           /\ Alike(R[i], items[i])
           /\ R[i].primary <=>
                \E m \in 1 .. Len(items) : items[m].primary /\ ItemKey(items[m]) = ItemKey(R[i])
  PROVE  Deduplicate(items) = R
<1> DEFINE D == Deduplicate(items)
<1>1. Len(D) = Len(R) /\ \A i \in 1 .. Len(R) : Alike(D[i], items[i])
  BY DeduplicateAbsorbs
<1>2. DedupInv(items, Len(items), D)
  BY DeduplicateShape
<1> HIDE DEF D
<1>3. D \in Seq(Item)
  BY <1>2 DEF DedupInv
<1>4. ASSUME NEW i \in 1 .. Len(R) PROVE D[i] = R[i]
  <2>1. D[i] \in Item /\ R[i] \in Item
    BY <1>1, <1>3
  <2>2. Alike(D[i], R[i])
    BY <1>1 DEF Alike
  <2>3. ItemKey(D[i]) = ItemKey(R[i])
    BY <2>2, AlikeKey
  <2>4. D[i].primary <=> R[i].primary
    BY <1>1, <1>2, <2>3, Zenon DEF DedupInv
  <2>5. D[i].primary = R[i].primary
    BY <2>1, <2>4, FlagType, Zenon
  <2> QED
    BY <2>1, <2>2, <2>5, SameItem
<1>5. D = R
  <2>1. D = [i \in 1 .. Len(R) |-> D[i]] /\ R = [i \in 1 .. Len(R) |-> R[i]]
    BY <1>1, <1>3
  <2>2. [i \in 1 .. Len(R) |-> D[i]] = [i \in 1 .. Len(R) |-> R[i]]
    BY <1>4
  <2> QED
    BY ONLY <2>1, <2>2
<1> QED
  BY <1>5 DEF D

\* Deduplicating a second time changes nothing.
LEMMA DeduplicateFixed ==
  ASSUME NEW items, Sound(items)
  PROVE  Deduplicate(items) = items
<1>1. items \in Seq(Item) /\ Len(items) \in 0 .. Len(items)
      /\ \A i, j \in 1 .. Len(items) : i # j => ItemKey(items[i]) # ItemKey(items[j])
  BY SoundIsMergeable DEF Mergeable
<1>2. \A i \in 1 .. Len(items) :
        /\ Alike(items[i], items[i])
        /\ items[i].primary <=> \E m \in 1 .. Len(items) :
                                  items[m].primary /\ ItemKey(items[m]) = ItemKey(items[i])
  BY <1>1, Zenon DEF Alike
<1>3. \A m \in Len(items) + 1 .. Len(items) :
        \E i \in 1 .. Len(items) : ItemKey(items[m]) = ItemKey(items[i])
  BY <1>1
<1> QED
  BY <1>1, <1>2, <1>3, DeduplicateEquals
-----------------------------------------------------------------------------
(* Appending *)

Extended(items, list) == FoldUp(LAMBDA s, raw : Appended(s, Build(raw)), items, list)

LEMMA AddIsExtend ==
  ASSUME NEW u, NEW list
  PROVE  addToMultiValued(u, list) =
           IF ValidItems(list) THEN {[u EXCEPT !.items = Deduplicate(Extended(u.items, list))]}
           ELSE {}
  BY DEF addToMultiValued, Extended

LEMMA AppendedShape ==
  ASSUME NEW s \in Seq(Item), NEW x \in Item
  PROVE  LET r == Appended(s, x) IN
         /\ r \in Seq(Item) /\ Len(r) = Len(s) + 1 /\ r[Len(s) + 1] = x
         /\ \A i \in 1 .. Len(s) : /\ Alike(r[i], s[i])
                                   /\ r[i].primary <=> s[i].primary /\ ~x.primary
<1> DEFINE r == Appended(s, x)
           d == [i \in DOMAIN s |-> [s[i] EXCEPT !.primary = FALSE]]
<1>0. DOMAIN s = 1 .. Len(s) /\ Len(s) \in Nat /\ \A i \in 1 .. Len(s) : s[i] \in Item
  OBVIOUS
<1>1. ASSUME NEW i \in 1 .. Len(s)
      PROVE  d[i] \in Item /\ Alike(d[i], s[i]) /\ d[i].primary = FALSE
  <2>1. d[i] = [s[i] EXCEPT !.primary = FALSE]
    BY <1>0
  <2>2. s[i] \in Item /\ FALSE \in BOOLEAN
    BY <1>0
  <2> HIDE DEF d
  <2> QED
    BY ONLY <2>1, <2>2, Flagged
<1>2. d \in Seq(Item) /\ Len(d) = Len(s)
  <2>1. d \in [1 .. Len(s) -> Item]
    <3>1. DOMAIN d = 1 .. Len(s) /\ d = [i \in 1 .. Len(s) |-> d[i]]
      BY <1>0
    <3> HIDE DEF d
    <3> QED
      BY <1>1, <3>1
  <2> HIDE DEF d
  <2> QED
    BY <1>0, <2>1
<1>3. r = Append(IF x.primary THEN d ELSE s, x)
  BY DEF Appended
<1> HIDE DEF d, r
<1>4. CASE x.primary
  <2>1. r = Append(d, x)
    BY <1>3, <1>4
  <2>2. r \in Seq(Item) /\ Len(r) = Len(s) + 1 /\ r[Len(s) + 1] = x
        /\ \A i \in 1 .. Len(s) : r[i] = d[i]
    BY <1>0, <1>2, <2>1
  <2> QED
    BY <1>1, <1>4, <2>2 DEF r
<1>5. CASE ~x.primary
  <2>1. r = Append(s, x)
    BY <1>3, <1>5
  <2>2. r \in Seq(Item) /\ Len(r) = Len(s) + 1 /\ r[Len(s) + 1] = x
        /\ \A i \in 1 .. Len(s) : r[i] = s[i]
    BY <1>0, <2>1
  <2> QED
    BY <1>5, <2>2 DEF r, Alike
<1> QED
  BY <1>4, <1>5

\* Lists that the builders make items of.
Buildable(list) ==
  /\ list \in Seq(RawItem)
  /\ \A m \in 1 .. Len(list) : Build(list[m]) \in Item /\ Canonical(Build(list[m]))

ExtendLoop(items, list, g) ==
  /\ g[0] = items
  /\ \A n \in 1 .. Len(list) : g[n] = Appended(g[n - 1], Build(list[n]))

LEMMA ExtendLoops ==
  ASSUME NEW items \in Seq(Item), NEW list, Buildable(list)
  PROVE  \E g : ExtendLoop(items, list, g) /\ Extended(items, list) = g[Len(list)]
<1> DEFINE N == Len(list)
           X == Seq(Item)
           F == [n \in 1 .. N |-> [k \in X |-> Appended(k, Build(list[n]))]]
           Body(f) == [n \in 0 .. N |-> IF n = 0 THEN items
                                        ELSE Appended(f[n - 1], Build(list[n]))]
<1>1. N \in Nat /\ \A n \in 1 .. N : n - 1 \in 0 .. N /\ Build(list[n]) \in Item
  BY DEF Buildable
<1>2. \A n \in 1 .. N, k \in X : Appended(k, Build(list[n])) \in X
  BY <1>1, AppendedShape
<1> HIDE DEF X
<1>3. F \in [1 .. N -> [X -> X]] /\ items \in X
  BY <1>2 DEF X
<1>4. \A n \in 1 .. N, k \in X : F[n][k] = Appended(k, Build(list[n]))
  OBVIOUS
<1> HIDE DEF N, F
<1>5. PICK g \in [0 .. N -> X] : Loops(N, items, F, g)
  BY ONLY <1>1, <1>3, LoopExists, Zenon
<1>6. g = Body(g)
  <2>1. \A n \in 0 .. N : n # 0 => n \in 1 .. N
    BY <1>1
  <2>2. \A n \in 1 .. N : g[n] = Appended(g[n - 1], Build(list[n]))
    BY <1>1, <1>4, <1>5 DEF Loops
  <2>3. \A n \in 0 .. N : g[n] = IF n = 0 THEN items ELSE Appended(g[n - 1], Build(list[n]))
    BY <1>5, <2>1, <2>2 DEF Loops
  <2> QED
    BY <2>3
<1> DEFINE c == CHOOSE f : f = Body(f)
<1>7. c = Body(c)
  BY <1>6, Zenon
<1>8. Extended(items, list) = c[N]
  BY DEF Extended, FoldUp, N
<1> HIDE DEF c
<1>9. c[0] = items /\ \A n \in 1 .. N : c[n] = Appended(c[n - 1], Build(list[n]))
  <2>1. 0 \in 0 .. N /\ \A n \in 1 .. N : n \in 0 .. N /\ n # 0
    BY <1>1
  <2> QED
    BY <1>7, <2>1
<1> QED
  BY <1>8, <1>9 DEF ExtendLoop, N

\* What the first n additions leave: the old items, then the new ones, with the
\* flags that no later addition took away.
ExtendInv(items, list, n, k) ==
  /\ k \in Seq(Item) /\ Len(k) = Len(items) + n
  /\ \A i \in 1 .. Len(items) :
       /\ Alike(k[i], items[i])
       /\ k[i].primary <=> items[i].primary /\ \A m \in 1 .. n : ~Build(list[m]).primary
  /\ \A l \in 1 .. n :
       /\ Alike(k[Len(items) + l], Build(list[l]))
       /\ k[Len(items) + l].primary
            <=> Build(list[l]).primary /\ \A m \in l + 1 .. n : ~Build(list[m]).primary

LEMMA ExtendStepKeepsInv ==
  ASSUME NEW items \in Seq(Item), NEW list, Buildable(list), NEW n \in 1 .. Len(list),
         NEW k, ExtendInv(items, list, n - 1, k)
  PROVE  ExtendInv(items, list, n, Appended(k, Build(list[n])))
<1> DEFINE x == Build(list[n])
           L == Len(items)
           r == Appended(k, x)
<1>0. n \in Nat /\ L \in Nat /\ x \in Item /\ k \in Seq(Item) /\ Len(k) = L + n - 1
  BY DEF Buildable, ExtendInv
<1>1. /\ r \in Seq(Item) /\ Len(r) = Len(k) + 1 /\ r[Len(k) + 1] = x
      /\ \A i \in 1 .. Len(k) : /\ Alike(r[i], k[i])
                                /\ r[i].primary <=> k[i].primary /\ ~x.primary
  <2>1. k \in Seq(Item) /\ x \in Item
    BY <1>0
  <2> HIDE DEF x
  <2> QED
    BY ONLY <2>1, AppendedShape DEF r
<1> HIDE DEF r
<1>2. Len(r) = L + n /\ r[L + n] = x
  BY <1>0, <1>1
<1>3. ASSUME NEW i \in 1 .. L
      PROVE  /\ Alike(r[i], items[i])
             /\ r[i].primary <=> items[i].primary /\ \A m \in 1 .. n : ~Build(list[m]).primary
  <2>1. i \in 1 .. Len(k)
    BY <1>0
  <2>2. /\ Alike(k[i], items[i])
        /\ k[i].primary <=> items[i].primary /\ \A m \in 1 .. n - 1 : ~Build(list[m]).primary
    BY DEF ExtendInv
  <2>3. (\A m \in 1 .. n - 1 : ~Build(list[m]).primary) /\ ~x.primary
          <=> \A m \in 1 .. n : ~Build(list[m]).primary
    <3>1. \A m \in 1 .. n : m = n \/ m \in 1 .. n - 1
      BY <1>0
    <3>2. n \in 1 .. n /\ \A m \in 1 .. n - 1 : m \in 1 .. n
      BY <1>0
    <3> QED
      BY <3>1, <3>2
  <2>4. Alike(r[i], items[i])
    BY <1>1, <2>1, <2>2 DEF Alike
  <2>5. r[i].primary <=> k[i].primary /\ ~x.primary
    BY <1>1, <2>1
  <2> QED
    BY ONLY <2>2, <2>3, <2>4, <2>5
<1>4. ASSUME NEW l \in 1 .. n
      PROVE  /\ Alike(r[L + l], Build(list[l]))
             /\ r[L + l].primary
                  <=> Build(list[l]).primary /\ \A m \in l + 1 .. n : ~Build(list[m]).primary
  <2>1. CASE l = n
    <3>1. r[L + l] = Build(list[l])
      BY <1>2, <2>1
    <3>2. \A m \in l + 1 .. n : FALSE
      BY <1>0, <2>1
    <3> QED
      BY <3>1, <3>2 DEF Alike
  <2>2. CASE l \in 1 .. n - 1
    <3>1. L + l \in 1 .. Len(k) /\ l \in Nat
      BY <1>0, <2>2
    <3>2. /\ Alike(k[L + l], Build(list[l]))
          /\ k[L + l].primary
               <=> Build(list[l]).primary /\ \A m \in l + 1 .. n - 1 : ~Build(list[m]).primary
      BY <2>2 DEF ExtendInv
    <3>3. (\A m \in l + 1 .. n - 1 : ~Build(list[m]).primary) /\ ~x.primary
            <=> \A m \in l + 1 .. n : ~Build(list[m]).primary
      <4>1. \A m \in l + 1 .. n : m = n \/ m \in l + 1 .. n - 1
        BY <1>0, <3>1
      <4>2. n \in l + 1 .. n /\ \A m \in l + 1 .. n - 1 : m \in l + 1 .. n
        BY <1>0, <2>2, <3>1
      <4> QED
        BY <4>1, <4>2
    <3>4. Alike(r[L + l], Build(list[l]))
      BY <1>1, <3>1, <3>2 DEF Alike
    <3>5. r[L + l].primary <=> k[L + l].primary /\ ~x.primary
      BY <1>1, <3>1
    <3> QED
      BY ONLY <3>2, <3>3, <3>4, <3>5
  <2> QED
    BY <1>0, <2>1, <2>2
<1>5. ExtendInv(items, list, n, r)
  BY <1>1, <1>2, <1>3, <1>4 DEF ExtendInv
<1> QED
  BY <1>5 DEF r

LEMMA ExtendedShape ==
  ASSUME NEW items \in Seq(Item), NEW list, Buildable(list)
  PROVE  ExtendInv(items, list, Len(list), Extended(items, list))
<1>1. PICK g : ExtendLoop(items, list, g) /\ Extended(items, list) = g[Len(list)]
  BY ExtendLoops
<1> DEFINE N == Len(list)
           T == {n \in 0 .. N : ExtendInv(items, list, n, g[n])}
<1>0. N \in Nat /\ \A n : n \in T <=> n \in 0 .. N /\ ExtendInv(items, list, n, g[n])
  BY DEF Buildable
<1> HIDE DEF T
<1>2. 0 \in T
  <2>1. ExtendInv(items, list, 0, items)
    BY DEF ExtendInv, Alike
  <2>2. g[0] = items /\ 0 \in 0 .. N
    BY <1>0, <1>1 DEF ExtendLoop
  <2> QED
    BY ONLY <1>0, <2>1, <2>2
<1>3. ASSUME NEW n \in 1 .. N, n - 1 \in T PROVE n \in T
  <2>1. ExtendInv(items, list, n - 1, g[n - 1]) /\ n \in 0 .. N
    BY <1>0, <1>3
  <2>2. g[n] = Appended(g[n - 1], Build(list[n]))
    BY <1>1 DEF ExtendLoop
  <2>3. ExtendInv(items, list, n, g[n])
    BY <2>1, <2>2, ExtendStepKeepsInv
  <2> QED
    BY ONLY <1>0, <2>1, <2>3
<1>4. N \in 0 .. N
  BY <1>0
<1>5. \A n \in 0 .. N : n \in T
  BY ONLY <1>0, <1>2, <1>3, AllSteps
<1> QED
  BY <1>0, <1>1, <1>4, <1>5

\* The checks on a list make it one that can be added.
LEMMA ValidIsBuildable ==
  ASSUME NEW list \in Seq(RawItem), ValidItems(list)
  PROVE  /\ Buildable(list)
         /\ \A m, l \in 1 .. Len(list) : Build(list[m]).primary /\ Build(list[l]).primary => m = l
<1>0. DOMAIN list = 1 .. Len(list) /\ Len(list) \in Nat
      /\ \A m \in 1 .. Len(list) : list[m] \in RawItem
  OBVIOUS
<1>1. \A m \in 1 .. Len(list) :
        /\ Build(list[m]) \in Item /\ Canonical(Build(list[m]))
        /\ Build(list[m]).primary = Given(list[m], "primary", FALSE)
  BY <1>0, Built DEF ValidItems
<1> DEFINE S == {i \in DOMAIN list : Given(list[i], "primary", FALSE)}
<1>2. S \in SUBSET (1 .. Len(list)) /\ Cardinality(S) <= 1
  BY <1>0 DEF ValidItems
<1>3. \A i : i \in S <=> i \in 1 .. Len(list) /\ Given(list[i], "primary", FALSE)
  BY <1>0
<1> HIDE DEF S
<1>4. \A i, j \in S : i = j
  BY <1>0, <1>2, AtMostOne
<1> QED
  BY <1>1, <1>3, <1>4 DEF Buildable
Addable(list) ==
  /\ Buildable(list)
  /\ \A m, l \in 1 .. Len(list) : Build(list[m]).primary /\ Build(list[l]).primary => m = l

\* A position in the extended list is one of the old or one of the new items.
LEMMA ExtendedItems ==
  ASSUME NEW items \in Seq(Item), NEW list, Addable(list)
  PROVE  LET S == Extended(items, list)
             L == Len(items)
         IN  /\ S \in Seq(Item) /\ Len(S) = L + Len(list) /\ L \in Nat /\ Len(list) \in Nat
             /\ \A i \in 1 .. Len(S) :
                  i \in 1 .. L \/ (i - L \in 1 .. Len(list) /\ i = L + (i - L))
             /\ \A i \in 1 .. L : i \in 1 .. Len(S) /\ Alike(S[i], items[i])
             /\ \A l \in 1 .. Len(list) :
                  /\ L + l \in 1 .. Len(S) /\ L + l \notin 1 .. L
                  /\ Alike(S[L + l], Build(list[l]))
<1> DEFINE S == Extended(items, list)
<1>1. ExtendInv(items, list, Len(list), S)
  BY ExtendedShape DEF Addable
<1>2. Len(items) \in Nat /\ Len(list) \in Nat
  BY DEF Addable, Buildable
<1>3. S \in Seq(Item) /\ Len(S) = Len(items) + Len(list)
  BY <1>1 DEF ExtendInv
<1> HIDE DEF S
<1>4. \A i \in 1 .. Len(S) :
        i \in 1 .. Len(items) \/ (i - Len(items) \in 1 .. Len(list) /\ i = Len(items) + (i - Len(items)))
  BY <1>2, <1>3
<1>5. \A i \in 1 .. Len(items) : i \in 1 .. Len(S)
  BY <1>2, <1>3
<1>6. \A l \in 1 .. Len(list) : Len(items) + l \in 1 .. Len(S) /\ Len(items) + l \notin 1 .. Len(items)
  BY <1>2, <1>3
<1> QED
  BY <1>1, <1>2, <1>3, <1>4, <1>5, <1>6 DEF ExtendInv, S

\* A primary item among the new ones is the only one left; otherwise nothing changes.
LEMMA ExtendedFlags ==
  ASSUME NEW items \in Seq(Item), NEW list, Addable(list)
  PROVE  LET S == Extended(items, list)
             L == Len(items)
         IN  /\ \A p \in 1 .. Len(list) : Build(list[p]).primary
                  => \A i \in 1 .. Len(S) : S[i].primary <=> i = L + p
             /\ (\A p \in 1 .. Len(list) : ~Build(list[p]).primary)
                  => \A i \in 1 .. Len(S) : S[i].primary <=> i \in 1 .. L /\ items[i].primary
<1> DEFINE S == Extended(items, list)
           L == Len(items)
<1>1. ExtendInv(items, list, Len(list), S)
  BY ExtendedShape DEF Addable
<1>2. /\ S \in Seq(Item) /\ Len(S) = L + Len(list) /\ L \in Nat /\ Len(list) \in Nat
      /\ \A i \in 1 .. Len(S) :
           i \in 1 .. L \/ (i - L \in 1 .. Len(list) /\ i = L + (i - L))
      /\ \A l \in 1 .. Len(list) : L + l \in 1 .. Len(S) /\ L + l \notin 1 .. L
  BY ExtendedItems
<1> HIDE DEF S
<1>3. ASSUME NEW p \in 1 .. Len(list), Build(list[p]).primary, NEW i \in 1 .. Len(S)
      PROVE  S[i].primary <=> i = L + p
  <2>1. CASE i \in 1 .. L
    <3>1. ~S[i].primary
      BY <1>1, <1>3, <2>1 DEF ExtendInv
    <3> QED
      BY <1>2, <2>1, <3>1
  <2>2. CASE i - L \in 1 .. Len(list) /\ i = L + (i - L)
    <3>1. PICK l \in 1 .. Len(list) : i = L + l
      BY <2>2
    <3>2. S[i].primary
            <=> Build(list[l]).primary /\ \A m \in l + 1 .. Len(list) : ~Build(list[m]).primary
      BY <1>1, <3>1 DEF ExtendInv
    <3>3. CASE l = p
      <4>1. \A m \in p + 1 .. Len(list) : m \in 1 .. Len(list) /\ m # p
        BY <1>2
      <4> QED
        BY <1>3, <3>1, <3>2, <3>3, <4>1 DEF Addable
    <3>4. CASE l # p
      <4>1. ~Build(list[l]).primary
        BY <1>3, <3>4 DEF Addable
      <4>2. i # L + p
        BY <1>2, <3>1, <3>4
      <4> QED
        BY <3>2, <4>1, <4>2
    <3> QED
      BY <3>3, <3>4
  <2> QED
    BY <1>2, <2>1, <2>2
<1>4. ASSUME \A p \in 1 .. Len(list) : ~Build(list[p]).primary, NEW i \in 1 .. Len(S)
      PROVE  S[i].primary <=> i \in 1 .. L /\ items[i].primary
  <2>1. CASE i \in 1 .. L
    BY <1>1, <1>4, <2>1 DEF ExtendInv
  <2>2. CASE i - L \in 1 .. Len(list) /\ i = L + (i - L)
    <3>1. PICK l \in 1 .. Len(list) : i = L + l
      BY <2>2
    <3>2. ~S[i].primary
      BY <1>1, <1>4, <3>1 DEF ExtendInv
    <3>3. i \notin 1 .. L
      BY <1>2, <3>1
    <3> QED
      BY <3>2, <3>3
  <2> QED
    BY <1>2, <2>1, <2>2
<1> QED
  BY <1>3, <1>4 DEF S

LEMMA ExtendedMergeable ==
  ASSUME NEW items, Mergeable(items), NEW list, Addable(list)
  PROVE  Mergeable(Extended(items, list))
<1> DEFINE S == Extended(items, list)
           L == Len(items)
<1>0. items \in Seq(Item)
  BY DEF Mergeable
<1>1. /\ S \in Seq(Item)
      /\ \A i \in 1 .. Len(S) :
           i \in 1 .. L \/ (i - L \in 1 .. Len(list) /\ i = L + (i - L))
      /\ \A i \in 1 .. L : Alike(S[i], items[i])
      /\ \A l \in 1 .. Len(list) : Alike(S[L + l], Build(list[l]))
  BY <1>0, ExtendedItems
<1>2. /\ \A p \in 1 .. Len(list) : Build(list[p]).primary
            => \A i \in 1 .. Len(S) : S[i].primary <=> i = L + p
      /\ (\A p \in 1 .. Len(list) : ~Build(list[p]).primary)
            => \A i \in 1 .. Len(S) : S[i].primary <=> i \in 1 .. L /\ items[i].primary
  BY <1>0, ExtendedFlags
<1> HIDE DEF S
<1>3. ASSUME NEW i \in 1 .. Len(S) PROVE Canonical(S[i])
  <2>1. CASE i \in 1 .. L
    <3>1. Alike(S[i], items[i]) /\ Canonical(items[i])
      BY <1>1, <2>1 DEF Mergeable
    <3> QED
      BY <3>1, AlikeKey
  <2>2. CASE i - L \in 1 .. Len(list) /\ i = L + (i - L)
    <3>1. PICK l \in 1 .. Len(list) : i = L + l
      BY <2>2
    <3>2. Alike(S[i], Build(list[l])) /\ Canonical(Build(list[l]))
      BY <1>1, <3>1 DEF Addable, Buildable
    <3> QED
      BY <3>2, AlikeKey
  <2> QED
    BY <1>1, <2>1, <2>2
<1>4. ASSUME NEW i \in 1 .. Len(S), NEW j \in 1 .. Len(S), S[i].primary, S[j].primary
      PROVE  i = j
  <2>1. CASE \A p \in 1 .. Len(list) : ~Build(list[p]).primary
    BY <1>2, <1>4, <2>1 DEF Mergeable
  <2>2. CASE \E p \in 1 .. Len(list) : Build(list[p]).primary
    BY <1>2, <1>4, <2>2
  <2> QED
    BY <2>1, <2>2
<1> QED
  BY <1>1, <1>3, <1>4 DEF Mergeable, S

BuiltKeys(list) == {ItemKey(Build(list[i])) : i \in 1 .. Len(list)}

\* Adding keeps what there is, adds what is given, and leaves a primary item if there was one.
LEMMA AddingSound ==
  ASSUME NEW items, Mergeable(items), NEW list, Addable(list)
  PROVE  LET R == Deduplicate(Extended(items, list)) IN
         /\ Sound(R) /\ KeysOf(R) = KeysOf(items) \union BuiltKeys(list)
         /\ (\E i \in 1 .. Len(items) : items[i].primary) => \E i \in 1 .. Len(R) : R[i].primary
<1> DEFINE S == Extended(items, list)
           L == Len(items)
<1>0. items \in Seq(Item) /\ Mergeable(S)
  BY ExtendedMergeable DEF Mergeable
<1>1. /\ \A i \in 1 .. Len(S) :
           i \in 1 .. L \/ (i - L \in 1 .. Len(list) /\ i = L + (i - L))
      /\ \A i \in 1 .. L : i \in 1 .. Len(S) /\ Alike(S[i], items[i])
      /\ \A l \in 1 .. Len(list) : L + l \in 1 .. Len(S) /\ Alike(S[L + l], Build(list[l]))
  BY <1>0, ExtendedItems
<1>2. /\ \A p \in 1 .. Len(list) : Build(list[p]).primary
            => \A i \in 1 .. Len(S) : S[i].primary <=> i = L + p
      /\ (\A p \in 1 .. Len(list) : ~Build(list[p]).primary)
            => \A i \in 1 .. Len(S) : S[i].primary <=> i \in 1 .. L /\ items[i].primary
  BY <1>0, ExtendedFlags
<1> HIDE DEF S
<1>3. KeysOf(S) = KeysOf(items) \union BuiltKeys(list)
  <2>1. \A i \in 1 .. Len(S) : ItemKey(S[i]) \in KeysOf(items) \union BuiltKeys(list)
    <3> TAKE i \in 1 .. Len(S)
    <3>1. CASE i \in 1 .. L
      <4>1. ItemKey(S[i]) = ItemKey(items[i])
        BY <1>1, <3>1, AlikeKey
      <4> QED
        BY <3>1, <4>1 DEF KeysOf
    <3>2. CASE i - L \in 1 .. Len(list) /\ i = L + (i - L)
      <4>1. PICK l \in 1 .. Len(list) : i = L + l
        BY <3>2
      <4>2. ItemKey(S[i]) = ItemKey(Build(list[l]))
        BY <1>1, <4>1, AlikeKey
      <4> QED
        BY <4>2 DEF BuiltKeys
    <3> QED
      BY <1>1, <3>1, <3>2
  <2>2. \A i \in 1 .. L : ItemKey(items[i]) \in KeysOf(S)
    <3> TAKE i \in 1 .. L
    <3>1. i \in 1 .. Len(S) /\ ItemKey(S[i]) = ItemKey(items[i])
      BY <1>1, AlikeKey
    <3> QED
      BY <3>1 DEF KeysOf
  <2>3. \A l \in 1 .. Len(list) : ItemKey(Build(list[l])) \in KeysOf(S)
    <3> TAKE l \in 1 .. Len(list)
    <3>1. L + l \in 1 .. Len(S) /\ ItemKey(S[L + l]) = ItemKey(Build(list[l]))
      BY <1>1, AlikeKey
    <3> QED
      BY <3>1 DEF KeysOf
  <2>4. \A i \in 1 .. L : ItemKey(items[i]) \in KeysOf(items)
    BY DEF KeysOf
  <2> QED
    BY <2>1, <2>2, <2>3 DEF KeysOf, BuiltKeys
<1>4. ASSUME NEW i \in 1 .. L, items[i].primary PROVE \E j \in 1 .. Len(S) : S[j].primary
  <2>1. CASE \A p \in 1 .. Len(list) : ~Build(list[p]).primary
    BY <1>1, <1>2, <1>4, <2>1
  <2>2. CASE \E p \in 1 .. Len(list) : Build(list[p]).primary
    <3>1. PICK p \in 1 .. Len(list) : Build(list[p]).primary
      BY <2>2
    <3> QED
      BY <1>1, <1>2, <3>1
  <2> QED
    BY <2>1, <2>2
<1>5. /\ Sound(Deduplicate(S)) /\ KeysOf(Deduplicate(S)) = KeysOf(S)
      /\ (\E i \in 1 .. Len(S) : S[i].primary)
           => \E i \in 1 .. Len(Deduplicate(S)) : Deduplicate(S)[i].primary
  BY <1>0, DeduplicateSound
<1> QED
  BY <1>3, <1>4, <1>5 DEF S

\* Adding the same list again finds all its items, and the flags where they should be.
LEMMA AddingTwice ==
  ASSUME NEW items, Mergeable(items), NEW list, Addable(list)
  PROVE  LET R == Deduplicate(Extended(items, list))
         IN  Deduplicate(Extended(R, list)) = R
<1> DEFINE S == Extended(items, list)
           R == Deduplicate(S)
           Q == Extended(R, list)
           L == Len(R)
<1>0. items \in Seq(Item) /\ Mergeable(S) /\ S \in Seq(Item)
  BY ExtendedMergeable DEF Mergeable
<1>1. /\ Sound(R) /\ R \in Seq(Item) /\ KeysOf(R) = KeysOf(items) \union BuiltKeys(list)
      /\ \A i, j \in 1 .. L : i # j => ItemKey(R[i]) # ItemKey(R[j])
  BY AddingSound, SoundIsMergeable DEF Mergeable
<1>2. DedupInv(S, Len(S), R)
  BY <1>0, DeduplicateShape
<1>3. /\ \A p \in 1 .. Len(list) : Build(list[p]).primary
            => \A i \in 1 .. Len(S) : S[i].primary <=> i = Len(items) + p
      /\ \A l \in 1 .. Len(list) :
           Len(items) + l \in 1 .. Len(S) /\ Alike(S[Len(items) + l], Build(list[l]))
  BY <1>0, ExtendedFlags, ExtendedItems
<1> HIDE DEF R, S
<1>4. /\ \A p \in 1 .. Len(list) : Build(list[p]).primary
            => \A i \in 1 .. Len(Q) : Q[i].primary <=> i = L + p
      /\ (\A p \in 1 .. Len(list) : ~Build(list[p]).primary)
            => \A i \in 1 .. Len(Q) : Q[i].primary <=> i \in 1 .. L /\ R[i].primary
  BY <1>1, ExtendedFlags
<1>5. /\ Q \in Seq(Item) /\ Len(Q) = L + Len(list) /\ L \in Nat /\ Len(list) \in Nat
      /\ \A i \in 1 .. Len(Q) :
           i \in 1 .. L \/ (i - L \in 1 .. Len(list) /\ i = L + (i - L))
      /\ \A i \in 1 .. L : i \in 1 .. Len(Q) /\ Alike(Q[i], R[i])
      /\ \A l \in 1 .. Len(list) : /\ L + l \in 1 .. Len(Q) /\ L + l \notin 1 .. L
                                   /\ Alike(Q[L + l], Build(list[l]))
  BY <1>1, ExtendedItems
<1> HIDE DEF Q
<1>6. \A i \in 1 .. L : ItemKey(Q[i]) = ItemKey(R[i]) /\ Alike(R[i], Q[i])
  BY <1>5, AlikeKey DEF Alike
<1>7. \A i, j \in 1 .. L : i # j => ItemKey(Q[i]) # ItemKey(Q[j])
  BY <1>1, <1>6
<1>8. \A m \in L + 1 .. Len(Q) : \E i \in 1 .. L : ItemKey(Q[m]) = ItemKey(Q[i])
  <2> TAKE m \in L + 1 .. Len(Q)
  <2>1. m \in 1 .. Len(Q) /\ m \notin 1 .. L
    BY <1>5
  <2>2. PICK l \in 1 .. Len(list) : m = L + l
    BY <1>5, <2>1
  <2>3. ItemKey(Q[m]) = ItemKey(Build(list[l]))
    BY <1>5, <2>2, AlikeKey
  <2>4. ItemKey(Build(list[l])) \in KeysOf(R)
    BY <1>1 DEF BuiltKeys
  <2>5. PICK i \in 1 .. L : ItemKey(Build(list[l])) = ItemKey(R[i])
    BY <2>4 DEF KeysOf
  <2> QED
    BY <1>6, <2>3, <2>5
<1>9. ASSUME NEW i \in 1 .. L
      PROVE  R[i].primary <=>
               \E m \in 1 .. Len(Q) : Q[m].primary /\ ItemKey(Q[m]) = ItemKey(R[i])
  <2>1. CASE \A p \in 1 .. Len(list) : ~Build(list[p]).primary
    <3>1. \A m \in 1 .. Len(Q) : Q[m].primary <=> m \in 1 .. L /\ R[m].primary
      BY <1>4, <2>1
    <3>2. \A m \in 1 .. L : ItemKey(Q[m]) = ItemKey(R[i]) <=> m = i
      BY <1>1, <1>6
    <3>3. i \in 1 .. Len(Q)
      BY <1>5
    <3> QED
      BY ONLY <3>1, <3>2, <3>3
  <2>2. CASE \E p \in 1 .. Len(list) : Build(list[p]).primary
    <3>1. PICK p \in 1 .. Len(list) : Build(list[p]).primary
      BY <2>2
    <3>2. \A m \in 1 .. Len(Q) : Q[m].primary <=> m = L + p
      BY <1>4, <3>1
    <3>3. L + p \in 1 .. Len(Q) /\ ItemKey(Q[L + p]) = ItemKey(Build(list[p]))
      BY <1>5, AlikeKey
    <3>4. (\E m \in 1 .. Len(Q) : Q[m].primary /\ ItemKey(Q[m]) = ItemKey(R[i]))
            <=> ItemKey(Build(list[p])) = ItemKey(R[i])
      BY ONLY <3>2, <3>3
    <3>5. \A m \in 1 .. Len(S) : S[m].primary <=> m = Len(items) + p
      BY <1>3, <3>1
    <3>6. Len(items) + p \in 1 .. Len(S)
          /\ ItemKey(S[Len(items) + p]) = ItemKey(Build(list[p]))
      BY <1>3, AlikeKey
    <3>7. R[i].primary <=>
            \E m \in 1 .. Len(S) : S[m].primary /\ ItemKey(S[m]) = ItemKey(R[i])
      BY <1>2 DEF DedupInv
    <3>8. R[i].primary <=> ItemKey(Build(list[p])) = ItemKey(R[i])
      BY ONLY <3>5, <3>6, <3>7
    <3> QED
      BY <3>4, <3>8
  <2> QED
    BY <2>1, <2>2
<1>10. L \in 0 .. Len(Q)
  BY <1>5
<1>11. Deduplicate(Q) = R
  BY <1>1, <1>5, <1>6, <1>7, <1>8, <1>9, <1>10, DeduplicateEquals
<1> QED
  BY <1>11 DEF Q, R, S
-----------------------------------------------------------------------------
(* Filtered updates *)

LEMMA SetSubAttributesShape ==
  ASSUME NEW x \in Item, Canonical(x), NEW upd \in RawItem,
         Acceptable(Given(upd, "value", NoWord))
  PROVE  LET y == SetSubAttributes(x, upd) IN
         y \in Item /\ Canonical(y) /\ y.primary = Given(upd, "primary", x.primary)
<1> DEFINE v == IF "value" \in DOMAIN upd THEN CanonicalValue(upd["value"]) ELSE x.value
           t == IF "type" \in DOMAIN upd THEN CanonicalType(upd["type"]) ELSE x.type
           p == Given(upd, "primary", x.primary)
           y == [value |-> v, type |-> t, primary |-> p]
<1>0. SetSubAttributes(x, upd) = y
  BY DEF SetSubAttributes
<1>1. x.value \in Value /\ x.type \in Type /\ x.primary \in BOOLEAN
  BY DEF Item
<1>2. v \in Value /\ CanonicalValue(v) = v /\ Acceptable(v)
  <2>1. CASE "value" \in DOMAIN upd
    <3>1. upd["value"] \in Value /\ Acceptable(upd["value"])
      BY <2>1, RawItems DEF Given
    <3> QED
      BY <2>1, <3>1, CanonicalValues, Zenon
  <2>2. CASE "value" \notin DOMAIN upd
    BY <1>1, <2>2, Zenon DEF Canonical
  <2> QED
    BY <2>1, <2>2
<1>3. t \in Type /\ CanonicalType(t) = t
  <2>1. CASE "type" \in DOMAIN upd
    BY <2>1, RawItems, CanonicalTypes, Zenon
  <2>2. CASE "type" \notin DOMAIN upd
    BY <1>1, <2>2, Zenon DEF Canonical
  <2> QED
    BY <2>1, <2>2
<1>4. p \in BOOLEAN
  BY <1>1, RawItems, Zenon DEF Given
<1> HIDE DEF v, t, p
<1>5. y \in Item /\ y.value = v /\ y.type = t /\ y.primary = p
  BY <1>2, <1>3, <1>4 DEF Item
<1> HIDE DEF y
<1>6. Canonical(y)
  BY <1>2, <1>3, <1>5 DEF Canonical
<1> QED
  BY <1>0, <1>5, <1>6 DEF p

LEMMA UpdatedAtShape ==
  ASSUME NEW s, Mergeable(s), NEW i \in 1 .. Len(s), NEW upd \in RawItem,
         Acceptable(Given(upd, "value", NoWord))
  PROVE  LET r == UpdatedAt(s, i, upd) IN
         /\ Mergeable(r) /\ Len(r) = Len(s)
         /\ \A j \in 1 .. Len(s) : j # i => Alike(r[j], s[j])
<1> DEFINE r == UpdatedAt(s, i, upd)
           demotes == Given(upd, "primary", FALSE)
<1>0. s \in Seq(Item) /\ DOMAIN s = 1 .. Len(s) /\ Len(s) \in Nat
      /\ \A j \in 1 .. Len(s) : s[j] \in Item /\ Canonical(s[j])
  BY DEF Mergeable
<1>1. /\ r[i] = SetSubAttributes(s[i], upd)
      /\ DOMAIN r = 1 .. Len(s) /\ r = [j \in 1 .. Len(s) |-> r[j]]
  BY <1>0 DEF UpdatedAt
<1>2. \A j \in 1 .. Len(s) : j # i =>
        r[j] = IF demotes THEN [s[j] EXCEPT !.primary = FALSE] ELSE s[j]
  BY <1>0 DEF UpdatedAt
<1> HIDE DEF r, demotes
<1>3. r[i] \in Item /\ Canonical(r[i]) /\ r[i].primary = Given(upd, "primary", s[i].primary)
  BY <1>0, <1>1, SetSubAttributesShape
<1>4. ASSUME NEW j \in 1 .. Len(s), j # i
      PROVE  r[j] \in Item /\ Alike(r[j], s[j]) /\ (r[j].primary <=> s[j].primary /\ ~demotes)
  <2>1. CASE demotes
    <3>1. r[j] = [s[j] EXCEPT !.primary = FALSE] /\ s[j] \in Item /\ FALSE \in BOOLEAN
      BY <1>0, <1>2, <1>4, <2>1
    <3>2. r[j] \in Item /\ Alike(r[j], s[j]) /\ r[j].primary = FALSE
      BY ONLY <3>1, Flagged
    <3> QED
      BY <2>1, <3>2
  <2>2. CASE ~demotes
    <3>1. r[j] = s[j] /\ s[j] \in Item
      BY <1>0, <1>2, <1>4, <2>2
    <3> QED
      BY <2>2, <3>1 DEF Alike
  <2> QED
    BY <2>1, <2>2
<1>5. r \in Seq(Item) /\ Len(r) = Len(s)
  <2>1. \A j \in 1 .. Len(s) : r[j] \in Item
    BY <1>3, <1>4
  <2>2. r \in [1 .. Len(s) -> Item]
    BY <1>1, <2>1
  <2> QED
    BY <1>0, <2>2
<1>6. \A j \in 1 .. Len(r) : Canonical(r[j])
  BY <1>0, <1>3, <1>4, <1>5, AlikeKey
<1>7. ~demotes /\ r[i].primary => s[i].primary
  <2>1. CASE "primary" \in DOMAIN upd
    BY <1>3, <2>1, Zenon DEF Given, demotes
  <2>2. CASE "primary" \notin DOMAIN upd
    BY <1>3, <2>2, Zenon DEF Given
  <2> QED
    BY <2>1, <2>2
<1>8. ASSUME NEW j \in 1 .. Len(r), NEW l \in 1 .. Len(r), r[j].primary, r[l].primary
      PROVE  j = l
  <2>1. \A m \in 1 .. Len(s) : r[m].primary /\ ~demotes => s[m].primary
    BY <1>4, <1>7
  <2>2. CASE demotes
    BY <1>4, <1>5, <1>8, <2>2
  <2>3. CASE ~demotes
    BY <1>5, <1>8, <2>1, <2>3 DEF Mergeable
  <2> QED
    BY <2>2, <2>3
<1> QED
  BY <1>4, <1>5, <1>6, <1>8 DEF Mergeable, r

\* A filter that does not ask for the flag does not see it.
LEMMA MatchesAlike ==
  ASSUME NEW f \in Filters, NEW x, NEW y, Alike(x, y),
         \A i \in ParseEq(f) : DOMAIN f[i].arg # {"primary"}
  PROVE  Matches(x, f) <=> Matches(y, f)
<1>1. ASSUME NEW i \in ParseEq(f) PROVE Holds(f[i], x) <=> Holds(f[i], y)
  <2>1. i \in DOMAIN f
    BY DEF ParseEq
  <2>2. PICK k \in {"value", "type", "primary"} : DOMAIN f[i].arg = {k}
    BY <2>1, SentAssumption
  <2>3. k \in {"value", "type"}
    BY <1>1, <2>2
  <2>4. CASE k = "value"
    <3>1. \A z : Holds(f[i], z) <=> EqualFold(z.value, f[i].arg.value)
      BY <2>2, <2>4 DEF Holds
    <3> QED
      BY <3>1 DEF Alike
  <2>5. CASE k = "type"
    <3>1. \A z : Holds(f[i], z) <=> (z.type = "") = (f[i].arg.type = "")
      BY <2>2, <2>5 DEF Holds
    <3> QED
      BY <3>1 DEF Alike
  <2> QED
    BY <2>3, <2>4, <2>5
<1> QED
  BY <1>1 DEF Matches

UpdateStep(s, i, f, upd) == IF Matches(s[i], f) THEN UpdatedAt(s, i, upd) ELSE s

\* What the first n steps leave: the items after them, and those that did not match,
\* are as they were but for their flags.
UpdateInv(items, f, n, k) ==
  /\ Mergeable(k) /\ Len(k) = Len(items)
  /\ (\A i \in ParseEq(f) : DOMAIN f[i].arg # {"primary"})
       => \A j \in 1 .. Len(items) :
            j > n \/ ~Matches(items[j], f) => Alike(k[j], items[j])

LEMMA UpdateStepKeepsInv ==
  ASSUME NEW items, Mergeable(items), NEW n \in 1 .. Len(items), NEW f \in Filters,
         NEW upd \in RawItem, Acceptable(Given(upd, "value", NoWord)),
         NEW k, UpdateInv(items, f, n - 1, k)
  PROVE  UpdateInv(items, f, n, UpdateStep(k, n, f, upd))
<1> DEFINE r == UpdateStep(k, n, f, upd)
<1>0. Len(items) \in Nat /\ n \in Nat /\ Mergeable(k) /\ Len(k) = Len(items) /\ n \in 1 .. Len(k)
  BY DEF Mergeable, UpdateInv
<1>1. CASE Matches(k[n], f)
  <2>1. r = UpdatedAt(k, n, upd)
    BY <1>1 DEF UpdateStep
  <2> HIDE DEF r
  <2>2. /\ Mergeable(r) /\ Len(r) = Len(items)
        /\ \A j \in 1 .. Len(items) : j # n => Alike(r[j], k[j])
    BY <1>0, <2>1, UpdatedAtShape
  <2>3. ASSUME \A i \in ParseEq(f) : DOMAIN f[i].arg # {"primary"},
               NEW j \in 1 .. Len(items), j > n \/ ~Matches(items[j], f)
        PROVE  Alike(r[j], items[j])
    <3>0. \A l \in 1 .. Len(items) :
            l > n - 1 \/ ~Matches(items[l], f) => Alike(k[l], items[l])
      BY <2>3 DEF UpdateInv
    <3>1. Alike(k[n], items[n])
      BY <1>0, <3>0
    <3>2. Matches(items[n], f)
      BY <1>1, <2>3, <3>1, MatchesAlike
    <3>3. j # n
      BY <1>0, <2>3, <3>2
    <3>4. Alike(k[j], items[j])
      BY <1>0, <2>3, <3>0
    <3> QED
      BY <2>2, <3>3, <3>4 DEF Alike
  <2>4. UpdateInv(items, f, n, r)
    BY <2>2, <2>3 DEF UpdateInv
  <2> QED
    BY <2>4 DEF r
<1>2. CASE ~Matches(k[n], f)
  <2>1. r = k
    BY <1>2 DEF UpdateStep
  <2>2. UpdateInv(items, f, n, k)
    BY <1>0 DEF UpdateInv
  <2> QED
    BY <2>1, <2>2
<1> QED
  BY <1>1, <1>2

UpdateLoop(items, f, upd, g) ==
  /\ g[0] = items
  /\ \A n \in 1 .. Len(items) : g[n] = UpdateStep(g[n - 1], n, f, upd)

LEMMA UpdateLoops ==
  ASSUME NEW items, Mergeable(items), NEW f \in Filters, NEW upd \in RawItem,
         Acceptable(Given(upd, "value", NoWord))
  PROVE  \E g : UpdateLoop(items, f, upd, g) /\ UpdateMatching(items, f, upd) = g[Len(items)]
<1> DEFINE N == Len(items)
           X == {k \in Seq(Item) : Mergeable(k) /\ Len(k) = N}
           F == [n \in 1 .. N |-> [k \in X |-> UpdateStep(k, n, f, upd)]]
           idx == [i \in DOMAIN items |-> i]
           Loop(c) == [n \in 0 .. Len(idx) |->
                         IF n = 0 THEN items ELSE UpdateStep(c[n - 1], idx[n], f, upd)]
<1>1. N \in Nat /\ (\A n \in 1 .. N : n - 1 \in 0 .. N) /\ items \in Seq(Item)
      /\ DOMAIN items = 1 .. N
  BY DEF Mergeable
<1>2. ASSUME NEW n \in 1 .. N, NEW k \in X PROVE UpdateStep(k, n, f, upd) \in X
  <2>1. Mergeable(k) /\ Len(k) = N /\ n \in 1 .. Len(k)
    BY <1>2
  <2>2. CASE Matches(k[n], f)
    <3>1. /\ UpdateStep(k, n, f, upd) = UpdatedAt(k, n, upd)
          /\ Mergeable(UpdatedAt(k, n, upd)) /\ Len(UpdatedAt(k, n, upd)) = Len(k)
      BY <2>1, <2>2, UpdatedAtShape DEF UpdateStep
    <3> QED
      BY <2>1, <3>1 DEF Mergeable
  <2>3. CASE ~Matches(k[n], f)
    BY <2>3 DEF UpdateStep
  <2> QED
    BY <2>2, <2>3
<1>3. items \in X
  BY <1>1
<1> HIDE DEF X
<1>4. F \in [1 .. N -> [X -> X]]
  BY <1>2
<1>5. \A n \in 1 .. N, k \in X : F[n][k] = UpdateStep(k, n, f, upd)
  OBVIOUS
<1>6. Len(idx) = N /\ \A n \in 1 .. N : idx[n] = n
  <2>1. idx \in [1 .. N -> Nat]
    BY <1>1
  <2> QED
    BY <1>1, <2>1
<1> HIDE DEF N, F, idx
<1>7. PICK g \in [0 .. N -> X] : Loops(N, items, F, g)
  BY ONLY <1>1, <1>3, <1>4, LoopExists, Zenon
<1>8. \A n \in 0 .. N : n # 0 => n \in 1 .. N
  BY <1>1
<1>9. g = Loop(g)
  <2>1. ASSUME NEW n \in 1 .. N PROVE g[n] = UpdateStep(g[n - 1], idx[n], f, upd)
    <3>1. g[n - 1] \in X
      BY <1>1
    <3>2. g[n] = F[n][g[n - 1]]
      BY <1>7 DEF Loops
    <3>3. F[n][g[n - 1]] = UpdateStep(g[n - 1], n, f, upd)
      BY ONLY <1>5, <3>1
    <3>4. idx[n] = n
      BY <1>6
    <3> QED
      BY ONLY <3>2, <3>3, <3>4
  <2>2. \A n \in 0 .. Len(idx) :
          g[n] = IF n = 0 THEN items ELSE UpdateStep(g[n - 1], idx[n], f, upd)
    BY <1>6, <1>7, <1>8, <2>1 DEF Loops
  <2> QED
    BY <1>6, <2>2
<1> DEFINE c == CHOOSE h : h = Loop(h)
<1>10. c = Loop(c)
  BY <1>9, Zenon
<1>11. UpdateMatching(items, f, upd) = c[Len(idx)]
  BY DEF UpdateMatching, FoldUp, idx, UpdateStep
<1> HIDE DEF c
<1>12. c[0] = items /\ \A n \in 1 .. N : c[n] = UpdateStep(c[n - 1], n, f, upd)
  <2>1. 0 \in 0 .. Len(idx) /\ \A n \in 1 .. N : n \in 0 .. Len(idx) /\ n # 0
    BY <1>1, <1>6
  <2> QED
    BY <1>6, <1>10, <2>1
<1> QED
  BY <1>6, <1>11, <1>12 DEF UpdateLoop, N

LEMMA UpdateMatchingShape ==
  ASSUME NEW items, Mergeable(items), NEW f \in Filters, NEW upd \in RawItem,
         Acceptable(Given(upd, "value", NoWord))
  PROVE  UpdateInv(items, f, Len(items), UpdateMatching(items, f, upd))
<1>1. PICK g : UpdateLoop(items, f, upd, g) /\ UpdateMatching(items, f, upd) = g[Len(items)]
  BY UpdateLoops
<1> DEFINE N == Len(items)
           T == {n \in 0 .. N : UpdateInv(items, f, n, g[n])}
<1>0. N \in Nat /\ \A n : n \in T <=> n \in 0 .. N /\ UpdateInv(items, f, n, g[n])
  BY DEF Mergeable
<1> HIDE DEF T
<1>2. 0 \in T
  <2>1. UpdateInv(items, f, 0, items)
    BY DEF UpdateInv, Alike
  <2>2. g[0] = items /\ 0 \in 0 .. N
    BY <1>0, <1>1 DEF UpdateLoop
  <2> QED
    BY ONLY <1>0, <2>1, <2>2
<1>3. ASSUME NEW n \in 1 .. N, n - 1 \in T PROVE n \in T
  <2>1. UpdateInv(items, f, n - 1, g[n - 1]) /\ n \in 0 .. N
    BY <1>0, <1>3
  <2>2. g[n] = UpdateStep(g[n - 1], n, f, upd)
    BY <1>1 DEF UpdateLoop
  <2>3. UpdateInv(items, f, n, g[n])
    BY <2>1, <2>2, UpdateStepKeepsInv
  <2> QED
    BY ONLY <1>0, <2>1, <2>3
<1>4. N \in 0 .. N
  BY <1>0
<1>5. \A n \in 0 .. N : n \in T
  BY ONLY <1>0, <1>2, <1>3, AllSteps
<1> QED
  BY <1>0, <1>1, <1>4, <1>5
-----------------------------------------------------------------------------
(* Filtered removals *)

RemoveStep(k, x, f) == IF Matches(x, f) THEN k ELSE Append(k, x)

\* What the first n steps leave shares neither keys nor flags with the items after them.
RemoveInv(items, n, k) ==
  /\ Sound(k)
  /\ \A i \in 1 .. Len(k), m \in n + 1 .. Len(items) :
       ItemKey(k[i]) # ItemKey(items[m]) /\ ~(k[i].primary /\ items[m].primary)

LEMMA RemoveStepKeepsInv ==
  ASSUME NEW items, Sound(items), NEW n \in 1 .. Len(items), NEW f,
         NEW k, RemoveInv(items, n - 1, k)
  PROVE  RemoveInv(items, n, RemoveStep(k, items[n], f))
<1> DEFINE x == items[n]
           r == Append(k, x)
<1>0. /\ Mergeable(items) /\ items \in Seq(Item) /\ Len(items) \in Nat /\ n \in Nat
      /\ \A i, j \in 1 .. Len(items) : i # j => ItemKey(items[i]) # ItemKey(items[j])
  BY SoundIsMergeable DEF Mergeable
<1>1. /\ Mergeable(k) /\ k \in Seq(Item) /\ Len(k) \in Nat
      /\ \A i, j \in 1 .. Len(k) : i # j => ItemKey(k[i]) # ItemKey(k[j])
  BY SoundIsMergeable DEF Mergeable, RemoveInv
<1>2. \A i \in 1 .. Len(k), m \in n .. Len(items) :
        ItemKey(k[i]) # ItemKey(items[m]) /\ ~(k[i].primary /\ items[m].primary)
  BY <1>0 DEF RemoveInv
<1>3. n \in n .. Len(items) /\ \A m \in n + 1 .. Len(items) : m \in n .. Len(items)
                                                            /\ m \in 1 .. Len(items) /\ m # n
  BY <1>0
<1>4. RemoveInv(items, n, k)
  BY <1>2, <1>3 DEF RemoveInv
<1>5. RemoveInv(items, n, r)
  <2>1. /\ r \in Seq(Item) /\ Len(r) = Len(k) + 1 /\ r[Len(k) + 1] = x
        /\ \A i \in 1 .. Len(k) : r[i] = k[i]
    BY <1>0, <1>1
  <2> HIDE DEF r
  <2>2. \A i \in 1 .. Len(r) : (i \in 1 .. Len(k) /\ r[i] = k[i]) \/ (i = Len(k) + 1 /\ r[i] = x)
    BY <1>1, <2>1
  <2>3. \A i \in 1 .. Len(r) : Canonical(r[i])
    BY <1>0, <1>1, <2>2 DEF Mergeable
  <2>4. ASSUME NEW i \in 1 .. Len(r), NEW j \in 1 .. Len(r), i # j
        PROVE  ItemKey(r[i]) # ItemKey(r[j]) /\ ~(r[i].primary /\ r[j].primary)
    <3>1. CASE i \in 1 .. Len(k) /\ r[i] = k[i] /\ j \in 1 .. Len(k) /\ r[j] = k[j]
      BY <1>1, <2>4, <3>1 DEF Mergeable
    <3>2. CASE i \in 1 .. Len(k) /\ r[i] = k[i] /\ r[j] = x
      BY <1>2, <1>3, <3>2
    <3>3. CASE j \in 1 .. Len(k) /\ r[j] = k[j] /\ r[i] = x
      <4>1. ItemKey(k[j]) # ItemKey(x) /\ ~(k[j].primary /\ x.primary)
        BY <1>2, <1>3, <3>3
      <4> QED
        BY <3>3, <4>1
    <3> QED
      BY <2>2, <2>4, <3>1, <3>2, <3>3
  <2>5. Sound(r)
    <3>1. Mergeable(r)
      BY <2>1, <2>3, <2>4 DEF Mergeable
    <3> QED
      BY <2>4, <3>1, SoundIsMergeable
  <2>6. ASSUME NEW i \in 1 .. Len(r), NEW m \in n + 1 .. Len(items)
        PROVE  ItemKey(r[i]) # ItemKey(items[m]) /\ ~(r[i].primary /\ items[m].primary)
    <3>1. CASE i \in 1 .. Len(k) /\ r[i] = k[i]
      BY <1>2, <1>3, <3>1
    <3>2. CASE r[i] = x
      <4>1. m \in 1 .. Len(items) /\ m # n
        BY <1>3
      <4> QED
        BY <1>0, <3>2, <4>1 DEF Mergeable
    <3> QED
      BY <2>2, <3>1, <3>2
  <2> QED
    BY <2>5, <2>6 DEF RemoveInv
<1> QED
  BY <1>4, <1>5 DEF RemoveStep

LEMMA RemovedSound ==
  ASSUME NEW items, Sound(items), NEW f
  PROVE  Sound(Removed(items, f))
<1> DEFINE N == Len(items)
           X == Seq(Item)
           F == [n \in 1 .. N |-> [k \in X |-> RemoveStep(k, items[n], f)]]
           Loop(c) == [n \in 0 .. N |-> IF n = 0 THEN <<>> ELSE RemoveStep(c[n - 1], items[n], f)]
<1>1. N \in Nat /\ (\A n \in 1 .. N : n - 1 \in 0 .. N /\ items[n] \in Item)
  BY DEF Sound
<1>2. \A n \in 1 .. N, k \in X : RemoveStep(k, items[n], f) \in X
  BY <1>1 DEF RemoveStep
<1>3. <<>> \in X
  OBVIOUS
<1> HIDE DEF X
<1>4. F \in [1 .. N -> [X -> X]]
  BY <1>2
<1>5. \A n \in 1 .. N, k \in X : F[n][k] = RemoveStep(k, items[n], f)
  OBVIOUS
<1> HIDE DEF N, F
<1>6. PICK g \in [0 .. N -> X] : Loops(N, <<>>, F, g)
  BY ONLY <1>1, <1>3, <1>4, LoopExists, Zenon
<1>7. g = Loop(g)
  <2>1. ASSUME NEW n \in 1 .. N PROVE g[n] = RemoveStep(g[n - 1], items[n], f)
    <3>1. g[n - 1] \in X
      BY <1>1
    <3>2. g[n] = F[n][g[n - 1]]
      BY <1>6 DEF Loops
    <3> QED
      BY ONLY <1>5, <3>1, <3>2
  <2>2. \A n \in 0 .. N : n # 0 => n \in 1 .. N
    BY <1>1
  <2>3. \A n \in 0 .. N : g[n] = IF n = 0 THEN <<>> ELSE RemoveStep(g[n - 1], items[n], f)
    BY <1>6, <2>1, <2>2 DEF Loops
  <2> QED
    BY <2>3
<1> DEFINE c == CHOOSE h : h = Loop(h)
<1>8. c = Loop(c)
  BY <1>7, Zenon
<1>9. Removed(items, f) = c[N]
  BY DEF Removed, FoldUp, RemoveStep, N
<1> HIDE DEF c
<1>10. c[0] = <<>> /\ \A n \in 1 .. N : c[n] = RemoveStep(c[n - 1], items[n], f)
  <2>1. 0 \in 0 .. N /\ \A n \in 1 .. N : n \in 0 .. N /\ n # 0
    BY <1>1
  <2> QED
    BY <1>8, <2>1
<1> DEFINE T == {n \in 0 .. N : RemoveInv(items, n, c[n])}
<1>11. \A n : n \in T <=> n \in 0 .. N /\ RemoveInv(items, n, c[n])
  OBVIOUS
<1> HIDE DEF T
<1>12. 0 \in T
  <2>1. RemoveInv(items, 0, <<>>)
    BY DEF RemoveInv, Sound
  <2>2. 0 \in 0 .. N
    BY <1>1
  <2> QED
    BY ONLY <1>10, <1>11, <2>1, <2>2
<1>13. ASSUME NEW n \in 1 .. N, n - 1 \in T PROVE n \in T
  <2>1. RemoveInv(items, n - 1, c[n - 1]) /\ n \in 0 .. N
    BY <1>1, <1>11, <1>13
  <2>2. c[n] = RemoveStep(c[n - 1], items[n], f)
    BY <1>10
  <2>3. RemoveInv(items, n, c[n])
    BY <2>1, <2>2, RemoveStepKeepsInv DEF N
  <2> QED
    BY ONLY <1>11, <2>1, <2>3
<1>14. \A n \in 0 .. N : n \in T
  BY ONLY <1>1, <1>12, <1>13, AllSteps
<1>15. N \in 0 .. N
  BY <1>1
<1> QED
  BY <1>9, <1>11, <1>14, <1>15 DEF RemoveInv
-----------------------------------------------------------------------------
(* What operations do to a user *)

Manager == [value : Person \union {Null}, ref : Person \union {Null, Opaque},
            display : Person \union {Null}]

SoundUser(u) == u \in User /\ Sound(u.items)

LEMMA UserFields ==
  ASSUME NEW u \in User
  PROVE  /\ u.userName \in UserName /\ u.title \in Text \union {Null} /\ u.active \in BOOLEAN
         /\ u.password \in Hash \union {Null} /\ u.name \in [SubName -> Text \union {Null}]
         /\ u.items \in Seq(Item) /\ u.manager \in Manager
  BY DEF User, Manager

LEMMA SetUserName ==
  ASSUME NEW u \in User, NEW v, NEW r \in setUserName(u, v)
  PROVE  r \in User /\ r.items = u.items
  BY DEF setUserName, User

LEMMA SetTitle ==
  ASSUME NEW u \in User, NEW v, NEW r \in setTitle(u, v)
  PROVE  r \in User /\ r.items = u.items
  BY DEF setTitle, IsText, User

LEMMA SetActive ==
  ASSUME NEW u \in User, NEW v, NEW r \in setActive(u, v)
  PROVE  r \in User /\ r.items = u.items
  BY DEF setActive, User

LEMMA SetPassword ==
  ASSUME NEW u \in User, NEW v \in Text \union {Null, Other}, NEW r \in setPassword(u, v)
  PROVE  r \in User /\ r.items = u.items
<1>1. CASE v = Null
  BY <1>1 DEF setPassword, User
<1>2. CASE v # Null /\ v = Other
  BY <1>2 DEF setPassword
<1>3. CASE v # Null /\ v # Other /\ SamePassword(u, v)
  <2>1. r = u
    BY <1>3 DEF setPassword
  <2> QED
    BY <2>1
<1>4. CASE v # Null /\ v # Other /\ ~SamePassword(u, v)
  <2>1. PICK n \in {0, 1} : r = [u EXCEPT !.password = [of |-> v, salt |-> n]]
    BY <1>4 DEF setPassword
  <2>2. [of |-> v, salt |-> n] \in Hash
    BY <1>4 DEF Hash
  <2> QED
    BY <2>1, <2>2 DEF User
<1> QED
  BY <1>1, <1>2, <1>3, <1>4

LEMMA SetName ==
  ASSUME NEW u \in User, NEW v, NEW r \in setNameAttribute(u, v)
  PROVE  r \in User /\ r.items = u.items
<1>0. u.name \in [SubName -> Text \union {Null}]
  BY UserFields
<1>1. CASE v = Null
  <2>1. r = [u EXCEPT !.name = [s \in SubName |-> Null]]
    BY <1>1 DEF setNameAttribute
  <2> QED
    BY <2>1 DEF User
<1>2. CASE v # Null /\ v # Other /\ \A s \in DOMAIN v : s \in SubName /\ IsText(v[s])
  <2> DEFINE m == [s \in SubName |-> Given(v, s, u.name[s])]
  <2>1. r = [u EXCEPT !.name = m]
    BY <1>2 DEF setNameAttribute
  <2>2. m \in [SubName -> Text \union {Null}]
    BY <1>0, <1>2 DEF Given, IsText
  <2> HIDE DEF m
  <2> QED
    BY <2>1, <2>2 DEF User
<1>3. CASE v # Null /\ ~(v # Other /\ \A s \in DOMAIN v : s \in SubName /\ IsText(v[s]))
  BY <1>3 DEF setNameAttribute
<1> QED
  BY <1>1, <1>2, <1>3

LEMMA SetSubAttribute ==
  ASSUME NEW u \in User, NEW s \in SubName, NEW v, NEW r \in setSubAttribute(u, s, v)
  PROVE  r \in User /\ r.items = u.items
<1>1. r = [u EXCEPT !.name[s] = v] /\ v \in Text \union {Null}
  BY DEF setSubAttribute, IsText
<1>2. [u.name EXCEPT ![s] = v] \in [SubName -> Text \union {Null}]
  BY <1>1, UserFields
<1> QED
  BY <1>1, <1>2 DEF User

LEMMA WithManager ==
  ASSUME NEW u \in User, NEW m \in Manager
  PROVE  /\ [u EXCEPT !.manager = m] \in User /\ [u EXCEPT !.manager = m].items = u.items
         /\ [u EXCEPT !.manager = m].manager = m
  BY DEF User, Manager

LEMMA NoManagerType == NoManager \in Manager
  BY DEF NoManager, Manager

\* What an object that names a manager makes of the manager m.
ManagerFrom(m, v) ==
  [value   |-> IF v.value \notin Person /\ Known(v.ref) THEN v.ref
               ELSE IF v.value = Absent THEN m.value ELSE v.value,
   ref     |-> IF v.ref = Absent THEN m.ref ELSE v.ref,
   display |-> Null]

LEMMA SetManagerObject ==
  ASSUME NEW u, NEW v \in RawManager
  PROVE  setEnterpriseManager(u, v) =
           IF v.value \in Person /\ Known(v.ref) /\ v.ref # v.value THEN {}
           ELSE {[u EXCEPT !.manager = ManagerFrom(u.manager, v)]}
  BY SentAssumption DEF setEnterpriseManager, ManagerFrom

LEMMA ManagerFromType ==
  ASSUME NEW m \in Manager, NEW v \in RawManager
  PROVE  ManagerFrom(m, v) \in Manager
  BY DEF ManagerFrom, Manager, RawManager, Known

LEMMA SetManager ==
  ASSUME NEW u \in User, NEW v \in Sent("manager"), NEW r \in setEnterpriseManager(u, v)
  PROVE  r \in User /\ r.items = u.items
<1>0. u.manager \in Manager /\ v \in RawManager \union Person \union {Null, Other}
  BY UserFields DEF Sent
<1>1. CASE v = Null
  <2>1. r = [u EXCEPT !.manager = NoManager]
    BY <1>1, UserPatchAssumption DEF setEnterpriseManager
  <2> QED
    BY <2>1, NoManagerType, WithManager
<1>2. CASE v # Null /\ v = Other
  BY <1>2, UserPatchAssumption DEF setEnterpriseManager
<1>3. CASE v # Null /\ v # Other /\ v \in Person
  <2>1. r = [u EXCEPT !.manager = [u.manager EXCEPT !.value = v, !.display = Null]]
    BY <1>3 DEF setEnterpriseManager
  <2>2. [u.manager EXCEPT !.value = v, !.display = Null] \in Manager
    BY <1>0, <1>3 DEF Manager
  <2> QED
    BY <2>1, <2>2, WithManager
<1>4. CASE v \in RawManager
  <2>1. r = [u EXCEPT !.manager = ManagerFrom(u.manager, v)]
    BY <1>4, SetManagerObject
  <2> QED
    BY <1>0, <1>4, <2>1, ManagerFromType, WithManager
<1> QED
  BY <1>0, <1>1, <1>2, <1>3, <1>4

LEMMA SetManagerValue ==
  ASSUME NEW u \in User, NEW v \in Person \union {Null, Other}, NEW r \in setManagerValue(u, v)
  PROVE  r \in User /\ r.items = u.items
<1>1. r = [u EXCEPT !.manager = [u.manager EXCEPT !.value = v, !.display = Null]] /\ v # Other
  BY DEF setManagerValue
<1>2. [u.manager EXCEPT !.value = v, !.display = Null] \in Manager
  BY <1>1, UserFields DEF Manager
<1> QED
  BY <1>1, <1>2, WithManager

LEMMA SetManagerRef ==
  ASSUME NEW u \in User, NEW v \in Person \union {Null, Opaque, Other},
         NEW r \in setManagerRef(u, v)
  PROVE  r \in User /\ r.items = u.items
<1>0. Other \notin Person
  BY UserPatchAssumption
<1>1. CASE v \in Person
  <2>1. r = [u EXCEPT !.manager = [value |-> v, ref |-> v, display |-> Null]]
    BY <1>0, <1>1 DEF setManagerRef
  <2>2. [value |-> v, ref |-> v, display |-> Null] \in Manager
    BY <1>1 DEF Manager
  <2> QED
    BY <2>1, <2>2, WithManager
<1>2. CASE v \notin Person /\ v # Other
  <2>1. r = [u EXCEPT !.manager.ref = v]
    BY <1>2 DEF setManagerRef
  <2>2. r = [u EXCEPT !.manager = [u.manager EXCEPT !.ref = v]]
    BY <2>1
  <2>3. [u.manager EXCEPT !.ref = v] \in Manager
    BY <1>2, UserFields DEF Manager
  <2> QED
    BY <2>2, <2>3, WithManager
<1>3. CASE v = Other
  BY <1>0, <1>3 DEF setManagerRef
<1> QED
  BY <1>1, <1>2, <1>3

LEMMA WithItems ==
  ASSUME NEW u \in User, NEW items \in Seq(Item)
  PROVE  [u EXCEPT !.items = items] \in User /\ [u EXCEPT !.items = items].items = items
  BY DEF User

LEMMA EmptySound == Sound(<<>>)
  BY DEF Sound

LEMMA AddItems ==
  ASSUME NEW u, SoundUser(u), NEW list \in Seq(RawItem) \union {Null, Other},
         NEW r \in addToMultiValued(u, list)
  PROVE  /\ SoundUser(r) /\ ValidItems(list) /\ Addable(list) /\ list \in Seq(RawItem)
         /\ r = [u EXCEPT !.items = Deduplicate(Extended(u.items, list))]
         /\ r.items = Deduplicate(Extended(u.items, list))
<1> DEFINE R == Deduplicate(Extended(u.items, list))
<1>1. ValidItems(list) /\ r = [u EXCEPT !.items = R]
  BY AddIsExtend
<1>2. list \in Seq(RawItem)
  BY <1>1 DEF ValidItems
<1>3. Addable(list)
  BY <1>1, <1>2, ValidIsBuildable DEF Addable
<1>4. u \in User /\ Mergeable(u.items)
  BY SoundIsMergeable DEF SoundUser
<1>5. Sound(R)
  BY <1>3, <1>4, AddingSound
<1> HIDE DEF R
<1>6. r \in User /\ r.items = R
  BY <1>1, <1>4, <1>5, WithItems DEF Sound
<1> QED
  BY <1>1, <1>2, <1>3, <1>5, <1>6 DEF SoundUser, R

LEMMA NoItems ==
  ASSUME NEW u \in User
  PROVE  SoundUser([u EXCEPT !.items = <<>>]) /\ [u EXCEPT !.items = <<>>].items = <<>>
<1>1. <<>> \in Seq(Item)
  OBVIOUS
<1> QED
  BY <1>1, WithItems, EmptySound DEF SoundUser

LEMMA ReplaceItems ==
  ASSUME NEW u, SoundUser(u), NEW list \in Seq(RawItem) \union {Null, Other},
         NEW r \in replaceMultiValued(u, list)
  PROVE  SoundUser(r)
<1>1. SoundUser([u EXCEPT !.items = <<>>])
  BY NoItems DEF SoundUser
<1>2. CASE list = Null
  BY <1>1, <1>2 DEF replaceMultiValued
<1>3. CASE list # Null
  <2>1. r \in addToMultiValued([u EXCEPT !.items = <<>>], list)
    BY <1>3 DEF replaceMultiValued
  <2> QED
    BY <1>1, <2>1, AddItems
<1> QED
  BY <1>2, <1>3

LEMMA KeepsSound ==
  ASSUME NEW u, SoundUser(u), NEW r \in User, r.items = u.items
  PROVE  SoundUser(r)
  BY DEF SoundUser

LEMMA SentItems == Sent("items") \subseteq Seq(RawItem) \union {Null, Other}
  BY SentAssumption DEF Sent

Known10 == {"userName", "title", "active", "password", "name", "name.familyName",
            "manager", "manager.value", "manager.$ref", "items"}

LEMMA AssignedSound ==
  ASSUME NEW u, SoundUser(u), NEW path, NEW v \in Sent(path), NEW isReplace \in BOOLEAN,
         NEW r \in Assigned(u, path, v, isReplace)
  PROVE  SoundUser(r)
<1>0. u \in User
  BY DEF SoundUser
<1>1. CASE path = "userName"
  BY <1>0, <1>1, SetUserName, KeepsSound DEF Assigned
<1>2. CASE path = "title"
  BY <1>0, <1>2, SetTitle, KeepsSound DEF Assigned
<1>3. CASE path = "active"
  BY <1>0, <1>3, SetActive, KeepsSound DEF Assigned
<1>4. CASE path = "password"
  <2>1. v \in Text \union {Null, Other} /\ r \in setPassword(u, v)
    BY <1>4 DEF Assigned, Sent
  <2> QED
    BY <1>0, <2>1, SetPassword, KeepsSound
<1>5. CASE path = "name"
  BY <1>0, <1>5, SetName, KeepsSound DEF Assigned
<1>6. CASE path = "name.familyName"
  <2>1. r \in setSubAttribute(u, "familyName", v) /\ "familyName" \in SubName
    BY <1>6 DEF Assigned, SubName
  <2> QED
    BY <1>0, <2>1, SetSubAttribute, KeepsSound
<1>7. CASE path = "manager"
  <2>1. v \in Sent("manager") /\ r \in setEnterpriseManager(u, v)
    BY <1>7 DEF Assigned
  <2> QED
    BY <1>0, <2>1, SetManager, KeepsSound
<1>8. CASE path = "manager.value"
  <2>1. v \in Person \union {Null, Other} /\ r \in setManagerValue(u, v)
    BY <1>8 DEF Assigned, Sent
  <2> QED
    BY <1>0, <2>1, SetManagerValue, KeepsSound
<1>9. CASE path = "manager.$ref"
  <2>1. v \in Person \union {Null, Opaque, Other} /\ r \in setManagerRef(u, v)
    BY <1>9 DEF Assigned, Sent
  <2> QED
    BY <1>0, <2>1, SetManagerRef, KeepsSound
<1>10. CASE path = "items"
  <2>1. v \in Seq(RawItem) \union {Null, Other}
    BY <1>10, SentItems
  <2>2. r \in replaceMultiValued(u, v) \/ r \in addToMultiValued(u, v)
    BY <1>10 DEF Assigned
  <2> QED
    BY <2>1, <2>2, AddItems, ReplaceItems
<1>11. CASE path \notin Known10
  BY <1>11 DEF Assigned, Known10
<1> QED
  BY <1>1, <1>2, <1>3, <1>4, <1>5, <1>6, <1>7, <1>8, <1>9, <1>10, <1>11 DEF Known10

LEMMA RemoveValueSent ==
  ASSUME NEW path
  PROVE  (IF path = "active" THEN FALSE ELSE Null) \in Sent(path)
<1>1. CASE path = "active"
  BY <1>1 DEF Sent
<1>2. CASE path \in {"userName", "title", "password", "name.familyName"}
  BY <1>2 DEF Sent
<1>3. CASE path = "name"
  BY <1>3 DEF Sent
<1>4. CASE path \in {"manager", "manager.value", "manager.$ref", "items"}
  BY <1>4 DEF Sent
<1>5. CASE path \notin Known10
  BY <1>5 DEF Sent, Known10
<1> QED
  BY <1>1, <1>2, <1>3, <1>4, <1>5 DEF Known10

LEMMA MapsSound ==
  ASSUME NEW u, SoundUser(u), NEW m \in Maps, NEW isReplace \in BOOLEAN,
         NEW r \in applyValueMap(u, m[1], m[2], isReplace)
  PROVE  SoundUser(r)
<1>1. \A i \in {1, 2} : m[i].value \in Sent(m[i].path)
  BY SentAssumption
<1>2. \A i, j \in {1, 2} : \A v \in Assigned(u, m[i].path, m[i].value, isReplace) :
        \A w \in Assigned(v, m[j].path, m[j].value, isReplace) : SoundUser(w)
  <2> TAKE i, j \in {1, 2}
  <2> TAKE v \in Assigned(u, m[i].path, m[i].value, isReplace)
  <2> TAKE w \in Assigned(v, m[j].path, m[j].value, isReplace)
  <2>1. m[i].value \in Sent(m[i].path) /\ m[j].value \in Sent(m[j].path)
    BY <1>1
  <2>2. SoundUser(v)
    BY <2>1, AssignedSound
  <2> QED
    BY <2>1, <2>2, AssignedSound
<1>3. \E i, j \in {1, 2} : \E v \in Assigned(u, m[i].path, m[i].value, isReplace) :
        r \in Assigned(v, m[j].path, m[j].value, isReplace)
  BY Zenon DEF applyValueMap
<1> QED
  BY <1>2, <1>3

LEMMA FilteredUpdate ==
  ASSUME NEW u, SoundUser(u), NEW f \in Filters, NEW upd \in Updates \union {Other},
         NEW r \in applyFilteredUpdate(u, f, upd)
  PROVE  LET k == UpdateMatching(u.items, f, upd) IN
         /\ SoundUser(r) /\ UpdateInv(u.items, f, Len(u.items), k) /\ Mergeable(k)
         /\ r.items = Deduplicate(k)
<1> DEFINE k == UpdateMatching(u.items, f, upd)
<1>1. /\ upd # Other /\ Acceptable(Given(upd, "value", NoWord))
      /\ r = [u EXCEPT !.items = Deduplicate(k)]
  BY DEF applyFilteredUpdate
<1>2. u \in User /\ Mergeable(u.items) /\ upd \in RawItem
  BY <1>1, SentAssumption, SoundIsMergeable DEF SoundUser
<1>3. UpdateInv(u.items, f, Len(u.items), k)
  BY <1>1, <1>2, UpdateMatchingShape
<1> HIDE DEF k
<1>4. Mergeable(k)
  BY <1>3 DEF UpdateInv
<1>5. Sound(Deduplicate(k))
  BY <1>4, DeduplicateSound
<1>6. r \in User /\ r.items = Deduplicate(k)
  BY <1>1, <1>2, <1>5, WithItems DEF Sound
<1> QED
  BY <1>3, <1>4, <1>5, <1>6 DEF SoundUser, k

LEMMA FilteredRemove ==
  ASSUME NEW u, SoundUser(u), NEW f, NEW r \in applyFilteredRemove(u, f)
  PROVE  SoundUser(r)
<1>1. r = [u EXCEPT !.items = Removed(u.items, f)]
  BY DEF applyFilteredRemove
<1>2. Sound(Removed(u.items, f)) /\ u \in User
  BY RemovedSound DEF SoundUser
<1>3. r \in User /\ r.items = Removed(u.items, f)
  BY <1>1, <1>2, WithItems DEF Sound
<1> QED
  BY <1>2, <1>3 DEF SoundUser

\* Who has no manager has nothing of one.
Tidy(u) == u.manager.value = Null => u.manager = NoManager

ResolvedManager(m) ==
  CASE m.value = Null -> NoManager
    [] m.value \in people -> [value |-> m.value, ref |-> m.value, display |-> m.value]
    [] OTHER -> [m EXCEPT !.display = Null]

LEMMA ResolvedIs ==
  ASSUME NEW u
  PROVE  Resolved(u) = [u EXCEPT !.manager = ResolvedManager(u.manager)]
  BY DEF Resolved, ResolvedManager

LEMMA ResolvedManagerShape ==
  ASSUME NEW m \in Manager, people \subseteq Person
  PROVE  ResolvedManager(m) \in Manager
         /\ (ResolvedManager(m).value = Null => ResolvedManager(m) = NoManager)
<1>0. Null \notin people
  BY UserPatchAssumption
<1>1. CASE m.value = Null
  <2>1. ResolvedManager(m) = NoManager
    BY <1>0, <1>1 DEF ResolvedManager
  <2> QED
    BY <2>1, NoManagerType
<1>2. CASE m.value \in people
  <2>1. ResolvedManager(m) = [value |-> m.value, ref |-> m.value, display |-> m.value]
    BY <1>0, <1>2 DEF ResolvedManager
  <2> QED
    BY <1>0, <1>2, <2>1 DEF Manager
<1>3. CASE m.value \notin people /\ m.value # Null
  <2>1. ResolvedManager(m) = [m EXCEPT !.display = Null]
    BY <1>3 DEF ResolvedManager
  <2> QED
    BY <1>3, <2>1 DEF Manager
<1> QED
  BY <1>1, <1>2, <1>3

LEMMA ResolvedSound ==
  ASSUME NEW u, SoundUser(u), people \subseteq Person
  PROVE  SoundUser(Resolved(u)) /\ Tidy(Resolved(u))
<1>1. u \in User /\ u.manager \in Manager
  BY UserFields DEF SoundUser
<1> DEFINE m == ResolvedManager(u.manager)
<1>2. m \in Manager /\ (m.value = Null => m = NoManager) /\ Resolved(u) = [u EXCEPT !.manager = m]
  BY <1>1, ResolvedManagerShape, ResolvedIs
<1> HIDE DEF m
<1>3. Resolved(u) \in User /\ Resolved(u).items = u.items /\ Resolved(u).manager = m
  BY <1>1, <1>2, WithManager
<1> QED
  BY <1>2, <1>3 DEF SoundUser, Tidy

NoNames == [s \in SubName |-> Null]

UserField == {"userName", "title", "active", "password", "name", "items", "manager"}

\* A function on the fields of a user is the record of its values.
LEMMA UserByFields ==
  ASSUME NEW w, DOMAIN w = UserField, w = [s \in DOMAIN w |-> w[s]],
         NEW a, NEW b, NEW c, NEW d, NEW e, NEW f, NEW g,
         w.userName = a, w.title = b, w.active = c, w.password = d, w.name = e,
         w.items = f, w.manager = g
  PROVE  w = [userName |-> a, title |-> b, active |-> c, password |-> d, name |-> e,
              items |-> f, manager |-> g]
  BY DEF UserField

LEMMA UserDomain ==
  ASSUME NEW u \in User
  PROVE  DOMAIN u = UserField /\ u = [s \in DOMAIN u |-> u[s]]
  BY DEF User, UserField

LEMMA ClearedIs ==
  ASSUME NEW u, DOMAIN u = UserField
  PROVE  Cleared(u) = [userName |-> u.userName, title |-> Null, active |-> TRUE,
                       password |-> Null, name |-> NoNames, items |-> <<>>,
                       manager |-> NoManager]
<1> DEFINE w == Cleared(u)
<1>2. DOMAIN w = UserField /\ w = [s \in DOMAIN w |-> w[s]]
  BY DEF Cleared
<1>3. /\ w.userName = u.userName /\ w.title = Null /\ w.active = TRUE /\ w.password = Null
      /\ w.name = NoNames /\ w.items = <<>> /\ w.manager = NoManager
  BY DEF Cleared, NoNames, UserField
<1> HIDE DEF w
<1>4. w = [userName |-> u.userName, title |-> Null, active |-> TRUE, password |-> Null,
           name |-> NoNames, items |-> <<>>, manager |-> NoManager]
  BY <1>2, <1>3, UserByFields
<1> QED
  BY <1>4 DEF w

\* A PUT starts from an empty user and takes what the body has.
Filled(u, body) ==
  [Cleared(u) EXCEPT !.userName = Given(body, "userName", @),
                     !.title = Given(body, "title", @),
                     !.active = Given(body, "active", @),
                     !.name = applyNameAttribute(@, body.name),
                     !.items = IF ValidItems(body.items)
                               THEN ReplaceCollection(body.items) ELSE @]

LEMMA ReplacedIs ==
  ASSUME NEW u, NEW body
  PROVE  Replaced(u, body) =
           IF ValidItems(body.items) /\ Given(body, "userName", Absent) # Null
           THEN {Resolved(v) : v \in applyEnterpriseExtension(Filled(u, body), body.manager)}
           ELSE {}
  BY DEF Replaced, Filled

LEMMA FilledIs ==
  ASSUME NEW u \in User, NEW body, ValidItems(body.items)
  PROVE  Filled(u, body) =
           [userName |-> Given(body, "userName", u.userName),
            title |-> Given(body, "title", Null), active |-> Given(body, "active", TRUE),
            password |-> Null, name |-> applyNameAttribute(NoNames, body.name),
            items |-> ReplaceCollection(body.items), manager |-> NoManager]
<1> DEFINE c == Cleared(u)
           w == Filled(u, body)
<1>1. c = [userName |-> u.userName, title |-> Null, active |-> TRUE, password |-> Null,
           name |-> NoNames, items |-> <<>>, manager |-> NoManager]
  BY ClearedIs, UserDomain
<1>2. /\ DOMAIN c = UserField
      /\ c.userName = u.userName /\ c.title = Null /\ c.active = TRUE /\ c.password = Null
      /\ c.name = NoNames /\ c.manager = NoManager
  BY <1>1 DEF UserField
<1> HIDE DEF c
<1>3. w = [c EXCEPT !.userName = Given(body, "userName", c.userName),
                    !.title = Given(body, "title", c.title),
                    !.active = Given(body, "active", c.active),
                    !.name = applyNameAttribute(c.name, body.name),
                    !.items = ReplaceCollection(body.items)]
  BY DEF Filled, c
<1> DEFINE x1 == Given(body, "userName", u.userName)
           x2 == Given(body, "title", Null)
           x3 == Given(body, "active", TRUE)
           x4 == applyNameAttribute(NoNames, body.name)
           x5 == ReplaceCollection(body.items)
<1>4. w = [c EXCEPT !.userName = x1, !.title = x2, !.active = x3, !.name = x4, !.items = x5]
  BY <1>2, <1>3
<1> HIDE DEF w, x1, x2, x3, x4, x5
<1>5. DOMAIN w = UserField /\ w = [s \in DOMAIN w |-> w[s]]
  BY <1>2, <1>4
<1>6. /\ w.userName = x1 /\ w.title = x2 /\ w.active = x3 /\ w.password = Null
      /\ w.name = x4 /\ w.items = x5 /\ w.manager = NoManager
  BY <1>2, <1>4 DEF UserField
<1>7. w = [userName |-> x1, title |-> x2, active |-> x3, password |-> Null, name |-> x4,
           items |-> x5, manager |-> NoManager]
  BY ONLY <1>5, <1>6, UserByFields
<1> QED
  BY <1>7 DEF w, x1, x2, x3, x4, x5

\* The list of a body, built item by item.
BuiltItems(list) == [i \in DOMAIN list |-> Build(list[i])]

LEMMA CollectedSound ==
  ASSUME NEW list \in Seq(RawItem), ValidItems(list)
  PROVE  Mergeable(BuiltItems(list)) /\ Sound(ReplaceCollection(list))
<1> DEFINE B == BuiltItems(list)
<1>0. DOMAIN list = 1 .. Len(list) /\ Len(list) \in Nat
  OBVIOUS
<1>1. /\ \A m \in 1 .. Len(list) : Build(list[m]) \in Item /\ Canonical(Build(list[m]))
      /\ \A m, l \in 1 .. Len(list) : Build(list[m]).primary /\ Build(list[l]).primary => m = l
  BY ValidIsBuildable DEF Buildable
<1>2. B = [i \in 1 .. Len(list) |-> Build(list[i])]
  BY <1>0 DEF BuiltItems
<1> HIDE DEF B
<1>3. B \in [1 .. Len(list) -> Item] /\ \A m \in 1 .. Len(list) : B[m] = Build(list[m])
  BY <1>1, <1>2
<1>4. B \in Seq(Item) /\ Len(B) = Len(list)
  BY <1>0, <1>3
<1>5. Mergeable(B)
  BY <1>1, <1>3, <1>4 DEF Mergeable
<1>6. ReplaceCollection(list) = Deduplicate(B)
  BY DEF ReplaceCollection, BuiltItems, B
<1> QED
  BY <1>5, <1>6, DeduplicateSound DEF B

\* Bodies of requests, as far as their members are looked at.
BodyFits(u, body) ==
  /\ Given(body, "userName", u.userName) \in UserName
  /\ Given(body, "title", Null) \in Text \union {Null}
  /\ Given(body, "active", TRUE) \in BOOLEAN
  /\ applyNameAttribute(NoNames, body.name) \in [SubName -> Text \union {Null}]
  /\ body.items \in Seq(RawItem) \union {Null, Other}
  /\ body.manager \in Sent("manager") \union {Absent}

LEMMA ReplacedSound ==
  ASSUME NEW u \in User, NEW body, BodyFits(u, body), people \subseteq Person,
         NEW r \in Replaced(u, body)
  PROVE  SoundUser(r) /\ Tidy(r)
<1>1. ValidItems(body.items)
      /\ r \in {Resolved(v) : v \in applyEnterpriseExtension(Filled(u, body), body.manager)}
  BY ReplacedIs
<1> DEFINE c == Filled(u, body)
<1>2. PICK v \in applyEnterpriseExtension(c, body.manager) : r = Resolved(v)
  BY <1>1
<1>3. body.items \in Seq(RawItem)
  BY <1>1 DEF BodyFits, ValidItems
<1> DEFINE x1 == Given(body, "userName", u.userName)
           x2 == Given(body, "title", Null)
           x3 == Given(body, "active", TRUE)
           x4 == applyNameAttribute(NoNames, body.name)
           x5 == ReplaceCollection(body.items)
<1>4. c = [userName |-> x1, title |-> x2, active |-> x3, password |-> Null, name |-> x4,
           items |-> x5, manager |-> NoManager]
  BY <1>1, FilledIs
<1>5. x1 \in UserName /\ x2 \in Text \union {Null} /\ x3 \in BOOLEAN
      /\ x4 \in [SubName -> Text \union {Null}] /\ Sound(x5) /\ NoManager \in Manager
  BY <1>1, <1>3, CollectedSound, NoManagerType DEF BodyFits
<1> HIDE DEF c, x1, x2, x3, x4, x5
<1>6. x5 \in Seq(Item)
  BY <1>5 DEF Sound
<1>7. c \in User /\ c.items = x5
  BY <1>4, <1>5, <1>6 DEF User, Manager
<1>8. SoundUser(c)
  BY <1>5, <1>7 DEF SoundUser
<1>9. SoundUser(v)
  <2>1. CASE body.manager = Absent
    <3>1. v = c
      BY <1>2, <2>1 DEF applyEnterpriseExtension
    <3> QED
      BY <1>8, <3>1
  <2>2. CASE body.manager # Absent
    <3>1. v \in setEnterpriseManager(c, body.manager) /\ body.manager \in Sent("manager")
      BY <1>2, <2>2 DEF applyEnterpriseExtension, BodyFits
    <3>2. v \in User /\ v.items = c.items
      BY <1>7, <3>1, SetManager
    <3> QED
      BY <1>8, <3>2, KeepsSound
  <2> QED
    BY <2>1, <2>2
<1> QED
  BY <1>2, <1>9, ResolvedSound

LEMMA NewBodyFits ==
  ASSUME NEW u \in User, NEW items \in Seq(RawItem) \union {Null, Other},
         NEW manager \in Sent("manager") \union {Absent}
  PROVE  BodyFits(u, [name |-> << >>, items |-> items, manager |-> manager])
<1> DEFINE body == [name |-> << >>, items |-> items, manager |-> manager]
<1>1. /\ DOMAIN body = {"name", "items", "manager"}
      /\ body.name = << >> /\ body.items = items /\ body.manager = manager
  OBVIOUS
<1> HIDE DEF body
<1>2. /\ Given(body, "userName", u.userName) = u.userName
      /\ Given(body, "title", Null) = Null /\ Given(body, "active", TRUE) = TRUE
  BY <1>1 DEF Given
<1>3. applyNameAttribute(NoNames, << >>) \in [SubName -> Text \union {Null}]
  BY DEF applyNameAttribute, NoNames, Given
<1>4. u.userName \in UserName
  BY UserFields
<1>5. BodyFits(u, body)
  BY <1>1, <1>2, <1>3, <1>4, Zenon DEF BodyFits
<1> QED
  BY <1>5 DEF body

\* What the server returns of an item makes the same item again.
LEMMA ItemBack ==
  ASSUME NEW x \in Item, Canonical(x)
  PROVE  /\ ItemMap(x) \in RawItem /\ Build(ItemMap(x)) = x
         /\ Given(ItemMap(x), "value", NoWord) = x.value
         /\ Given(ItemMap(x), "primary", FALSE) = x.primary
<1> DEFINE D == {"primary"} \union (IF x.value = NoWord THEN {} ELSE {"value"})
                            \union (IF x.type = "" THEN {} ELSE {"type"})
           raw == ItemMap(x)
<1>1. raw = Restrict(x, D) /\ D \in SUBSET {"value", "type", "primary"}
  BY DEF ItemMap
<1>2. raw \in RawItem
  <2> HIDE DEF D, raw
  <2>1. raw \in {Restrict(y, D) : y \in Item}
    BY <1>1
  <2> DEFINE of(E) == {Restrict(y, E) : y \in Item}
             all == {of(E) : E \in SUBSET {"value", "type", "primary"}}
  <2>2. RawItem = UNION all
    BY DEF RawItem
  <2> HIDE DEF of
  <2>3. of(D) \in all
    BY <1>1
  <2>4. raw \in of(D)
    BY <2>1 DEF of
  <2> HIDE DEF all
  <2> QED
    BY ONLY <2>2, <2>3, <2>4
<1>3. raw = [k \in D |-> x[k]]
  BY <1>1 DEF Restrict
<1>4. /\ "primary" \in D /\ ("value" \in D <=> x.value # NoWord) /\ ("type" \in D <=> x.type # "")
  OBVIOUS
<1> HIDE DEF D, raw
<1>5. Given(raw, "value", NoWord) = x.value
  BY <1>3, <1>4 DEF Given
<1>6. Given(raw, "type", "") = x.type
  BY <1>3, <1>4 DEF Given
<1>7. Given(raw, "primary", FALSE) = x.primary
  BY <1>3, <1>4 DEF Given
<1>8. Build(raw) = [value |-> x.value, type |-> x.type, primary |-> x.primary]
  <2>1. CanonicalValue(x.value) = x.value /\ CanonicalType(x.type) = x.type
    BY DEF Canonical
  <2> QED
    BY <1>5, <1>6, <1>7, <2>1 DEF Build
<1>9. x = [value |-> x.value, type |-> x.type, primary |-> x.primary]
  BY DEF Item
<1> QED
  BY <1>2, <1>5, <1>7, <1>8, <1>9 DEF raw
ResponseItems(u) == [i \in DOMAIN u.items |-> ItemMap(u.items[i])]

ResponseManager(u) == IF u.manager.value = Null THEN Absent ELSE ManagerMap(u.manager)

LEMMA ResponseFields ==
  ASSUME NEW u
  PROVE  /\ DOMAIN Response(u) = {"userName", "title", "active", "name", "items", "manager"}
         /\ Response(u).userName = u.userName /\ Response(u).title = u.title
         /\ Response(u).active = u.active
         /\ Response(u).name = Restrict(u.name, {s \in SubName : u.name[s] # Null})
         /\ Response(u).items = ResponseItems(u) /\ Response(u).manager = ResponseManager(u)
  BY DEF Response, ResponseItems, ResponseManager

\* Sent back, the list is accepted, and makes the items there are.
LEMMA ItemsBack ==
  ASSUME NEW u, SoundUser(u)
  PROVE  /\ ResponseItems(u) \in Seq(RawItem) /\ ValidItems(ResponseItems(u))
         /\ ReplaceCollection(ResponseItems(u)) = u.items
<1> DEFINE s == u.items
           list == ResponseItems(u)
           N == Len(s)
<1>0. s \in Seq(Item) /\ N \in Nat /\ Mergeable(s) /\ DOMAIN s = 1 .. N
      /\ \A i \in 1 .. N : s[i] \in Item /\ Canonical(s[i])
  BY SoundIsMergeable DEF SoundUser, Mergeable
<1>1. list = [i \in 1 .. N |-> ItemMap(s[i])]
  BY <1>0 DEF ResponseItems
<1> HIDE DEF list, s
<1>2. \A i \in 1 .. N :
        /\ list[i] \in RawItem /\ Build(list[i]) = s[i]
        /\ Given(list[i], "value", NoWord) = s[i].value
        /\ Given(list[i], "primary", FALSE) = s[i].primary
  BY <1>0, <1>1, ItemBack
<1>3. DOMAIN list = 1 .. N /\ list \in Seq(RawItem)
  <2>1. list \in [1 .. N -> RawItem]
    BY <1>1, <1>2
  <2> QED
    BY <1>0, <2>1
<1>4. ValidItems(list)
  <2>1. list \notin {Null, Other}
    BY <1>3, SentAssumption
  <2>2. \A i \in DOMAIN list : Acceptable(Given(list[i], "value", NoWord))
    <3> TAKE i \in DOMAIN list
    <3>1. i \in 1 .. N /\ Given(list[i], "value", NoWord) = s[i].value
      BY <1>2, <1>3
    <3>2. Acceptable(s[i].value)
      BY <1>0, <3>1 DEF Canonical
    <3> QED
      BY <3>1, <3>2
  <2> DEFINE S == {i \in DOMAIN list : Given(list[i], "primary", FALSE)}
  <2>3. S \in SUBSET (1 .. N)
    BY <1>3
  <2>4. \A i, j \in S : i = j
    BY <1>2, <1>3, <1>0 DEF Mergeable, N
  <2> HIDE DEF S
  <2>5. Cardinality(S) <= 1
    BY <1>0, <2>3, <2>4, AtMostOne
  <2> QED
    BY <2>1, <2>2, <2>5 DEF ValidItems, S
<1>5. BuiltItems(list) = s
  <2>1. BuiltItems(list) = [i \in 1 .. N |-> Build(list[i])]
    BY <1>3 DEF BuiltItems
  <2>2. s = [i \in 1 .. N |-> s[i]]
    BY <1>0
  <2>3. [i \in 1 .. N |-> Build(list[i])] = [i \in 1 .. N |-> s[i]]
    BY <1>2
  <2> QED
    BY ONLY <2>1, <2>2, <2>3
<1>6. ReplaceCollection(list) = Deduplicate(s)
  BY <1>5 DEF ReplaceCollection, BuiltItems
<1>7. Deduplicate(s) = s
  BY DeduplicateFixed DEF SoundUser, s
<1> QED
  BY <1>3, <1>4, <1>6, <1>7 DEF s, list

LEMMA NamesBack ==
  ASSUME NEW n \in [SubName -> Text \union {Null}]
  PROVE  applyNameAttribute(NoNames, Restrict(n, {s \in SubName : n[s] # Null})) = n
<1> DEFINE D == {s \in SubName : n[s] # Null}
           m == Restrict(n, D)
<1>1. m = [s \in D |-> n[s]]
  BY DEF Restrict
<1> HIDE DEF m
<1>2. \A s \in SubName : Given(m, s, NoNames[s]) = n[s]
  BY <1>1 DEF Given, NoNames
<1>3. applyNameAttribute(NoNames, m) = [s \in SubName |-> Given(m, s, NoNames[s])]
  BY DEF applyNameAttribute
<1>4. applyNameAttribute(NoNames, m) = n
  BY <1>2, <1>3
<1> QED
  BY <1>4 DEF m

LEMMA ManagerMapType ==
  ASSUME NEW m \in Manager, m.value # Null
  PROVE  ManagerMap(m) \in RawManager
  BY DEF Manager, ManagerMap, RawManager

LEMMA ResponseFits ==
  ASSUME NEW u, SoundUser(u)
  PROVE  BodyFits(u, Response(u))
<1> DEFINE body == Response(u)
<1>0. u \in User
  BY DEF SoundUser
<1>1. /\ DOMAIN body = {"userName", "title", "active", "name", "items", "manager"}
      /\ body.userName = u.userName /\ body.title = u.title /\ body.active = u.active
      /\ body.name = Restrict(u.name, {s \in SubName : u.name[s] # Null})
      /\ body.items = ResponseItems(u) /\ body.manager = ResponseManager(u)
  BY ResponseFields
<1> HIDE DEF body
<1>2. /\ Given(body, "userName", u.userName) = u.userName
      /\ Given(body, "title", Null) = u.title /\ Given(body, "active", TRUE) = u.active
  BY <1>1 DEF Given
<1>3. applyNameAttribute(NoNames, body.name) = u.name
  BY <1>0, <1>1, NamesBack, UserFields
<1>4. body.manager \in Sent("manager") \union {Absent}
  <2>1. CASE u.manager.value = Null
    BY <1>1, <2>1 DEF ResponseManager
  <2>2. CASE u.manager.value # Null
    <3>1. body.manager \in RawManager
      BY <1>0, <1>1, <2>2, ManagerMapType, UserFields DEF ResponseManager
    <3> QED
      BY <3>1 DEF Sent
  <2> QED
    BY <2>1, <2>2
<1>5. body.items \in Seq(RawItem) \union {Null, Other}
  BY <1>1, ItemsBack
<1>6. u.userName \in UserName /\ u.title \in Text \union {Null} /\ u.active \in BOOLEAN
      /\ u.name \in [SubName -> Text \union {Null}]
  BY <1>0, UserFields
<1>7. BodyFits(u, body)
  BY <1>2, <1>3, <1>4, <1>5, <1>6, Zenon DEF BodyFits
<1> QED
  BY <1>7 DEF body
-----------------------------------------------------------------------------
(* The inductive invariant *)

\* The attribute is fixed, so a list stays sound.
LEMMA SoundStays ==
  ASSUME attr' = attr
  PROVE  /\ Sound(work'.items) => Sound(work.items)'
         /\ Sound(user'.items) => Sound(user.items)'
  BY DEF Sound, Canonical, CanonicalValue, CanonicalType, Acceptable, SameKey, ItemKey

LEMMA InitInv == Init => IndInv
<1> SUFFICES ASSUME Init PROVE IndInv
  OBVIOUS
<1> DEFINE u(n) == [userName |-> n, title |-> Null, active |-> TRUE, password |-> Null,
                    name |-> Null, items |-> <<>>, manager |-> NoManager]
<1>1. PICK n \in UserName : user = Cleared(u(n))
  BY DEF Init
<1>2. DOMAIN u(n) = UserField /\ u(n).userName = n
  BY DEF UserField
<1> HIDE DEF u
<1>3. user = [userName |-> n, title |-> Null, active |-> TRUE, password |-> Null,
              name |-> NoNames, items |-> <<>>, manager |-> NoManager]
  BY <1>1, <1>2, ClearedIs
<1>4. NoNames \in [SubName -> Text \union {Null}] /\ NoManager \in Manager /\ <<>> \in Seq(Item)
  BY NoManagerType DEF NoNames
<1>5. user \in User
  BY <1>3, <1>4 DEF User, Manager
<1>6. user.items = <<>> /\ user.manager = NoManager
  BY <1>3
<1>7. attr \in Collections /\ people \subseteq Person /\ work = user /\ pc = "idle" /\ left = 0
  BY DEF Init
<1>8. 0 \in 0 .. MaxOps[attr]
  BY <1>7, UserPatchAssumption
<1>9. TypeOK
  BY <1>5, <1>7, <1>8 DEF TypeOK
<1>10. NoManagerLeftOver
  BY <1>6 DEF NoManagerLeftOver
<1> QED
  BY <1>6, <1>7, <1>9, <1>10, EmptySound DEF IndInv

LEMMA InvUsers ==
  ASSUME IndInv
  PROVE  SoundUser(user) /\ SoundUser(work) /\ Tidy(user) /\ people \subseteq Person
         /\ attr \in Collections /\ left \in 0 .. MaxOps[attr] /\ MaxOps[attr] \in Nat \ {0}
         /\ pc \in {"idle", "patching"}
<1>1. TypeOK
  BY DEF IndInv
<1>2. attr \in Collections
  BY <1>1 DEF TypeOK
<1>3. MaxOps[attr] \in Nat \ {0}
  BY <1>2, UserPatchAssumption
<1> QED
  BY <1>1, <1>3 DEF IndInv, TypeOK, SoundUser, Tidy, NoManagerLeftOver

\* What every step has to show.
LEMMA StepInv ==
  ASSUME attr' = attr, attr \in Collections, people' \subseteq Person,
         SoundUser(user'), SoundUser(work'), Tidy(user'),
         pc' \in {"idle", "patching"}, left' \in 0 .. MaxOps[attr]
  PROVE  IndInv'
<1>1. TypeOK'
  BY DEF TypeOK, SoundUser, User, Hash, Item, Value, NoWord, Type, SubName
<1>2. NoManagerLeftOver'
  BY DEF Tidy, NoManagerLeftOver, NoManager
<1>3. Sound(user.items)' /\ Sound(work.items)'
  BY SoundStays DEF SoundUser
<1> QED
  BY <1>1, <1>2, <1>3 DEF IndInv

LEMMA OperationSound ==
  ASSUME IndInv, NEW outcomes, \A r \in outcomes : SoundUser(r), Operation(outcomes)
  PROVE  IndInv'
<1>1. /\ left > 0 /\ attr' = attr /\ people' = people /\ user' = user
      /\ \/ work' = user /\ pc' = "idle" /\ left' = 0
         \/ work' \in outcomes /\ left' = left - 1 /\ pc' = pc
  BY DEF Operation
<1>2. SoundUser(user) /\ Tidy(user) /\ people \subseteq Person /\ attr \in Collections
      /\ left \in 0 .. MaxOps[attr] /\ MaxOps[attr] \in Nat /\ pc \in {"idle", "patching"}
  BY InvUsers
<1>3. SoundUser(work') /\ pc' \in {"idle", "patching"}
  BY <1>1, <1>2
<1>4. left' \in 0 .. MaxOps[attr]
  <2>1. left' = 0 \/ left' = left - 1
    BY <1>1
  <2>2. left > 0
    BY <1>1
  <2> QED
    BY <1>2, <2>1, <2>2
<1>5. SoundUser(user') /\ Tidy(user') /\ people' \subseteq Person
  BY <1>1, <1>2
<1> QED
  BY <1>1, <1>2, <1>3, <1>4, <1>5, StepInv

LEMMA PutSound ==
  ASSUME IndInv, NEW body, BodyFits(user, body), Put(body)
  PROVE  IndInv'
<1>1. /\ user' \in Replaced(user, body) /\ work' = user' /\ attr' = attr /\ people' = people
      /\ pc' = pc /\ left' = left
  BY DEF Put
<1>2. SoundUser(user) /\ people \subseteq Person /\ attr \in Collections
      /\ left \in 0 .. MaxOps[attr] /\ pc \in {"idle", "patching"}
  BY InvUsers
<1>3. SoundUser(user') /\ Tidy(user')
  BY <1>1, <1>2, ReplacedSound DEF SoundUser
<1> QED
  BY <1>1, <1>2, <1>3, StepInv

LEMMA NextInv == IndInv /\ [Next]_vars => IndInv'
<1> SUFFICES ASSUME IndInv, [Next]_vars PROVE IndInv'
  OBVIOUS
<1>0. /\ SoundUser(user) /\ SoundUser(work) /\ Tidy(user) /\ people \subseteq Person
      /\ attr \in Collections /\ left \in 0 .. MaxOps[attr] /\ MaxOps[attr] \in Nat \ {0}
      /\ pc \in {"idle", "patching"}
  BY InvUsers
<1>1. ASSUME Start PROVE IndInv'
  <2>1. /\ attr' = attr /\ people' = people /\ user' = user /\ work' = user
        /\ pc' = "patching" /\ left' = MaxOps[attr]
    BY <1>1 DEF Start
  <2>2. left' \in 0 .. MaxOps[attr] /\ pc' \in {"idle", "patching"}
    BY <1>0, <2>1
  <2> QED
    BY <1>0, <2>1, <2>2, StepInv
<1>2. ASSUME Save PROVE IndInv'
  <2>1. /\ attr' = attr /\ people' = people /\ user' = Resolved(work) /\ work' = user'
        /\ pc' = "idle" /\ left' = 0
    BY <1>2 DEF Save
  <2>2. left' \in 0 .. MaxOps[attr] /\ pc' \in {"idle", "patching"}
    BY <1>0, <2>1
  <2>3. SoundUser(user') /\ Tidy(user')
    BY <1>0, <2>1, ResolvedSound
  <2> QED
    BY <1>0, <2>1, <2>2, <2>3, StepInv
<1>3. ASSUME NEW p \in Addressed, Add(p) PROVE IndInv'
  <2>1. PICK v \in Sent(p) : Operation(applyAdd(work, p, v))
    BY <1>3 DEF Add
  <2>2. \A r \in applyAdd(work, p, v) : SoundUser(r)
    BY <1>0, AssignedSound DEF applyAdd
  <2> QED
    BY <2>1, <2>2, OperationSound
<1>4. ASSUME NEW p \in Addressed, Replace(p) PROVE IndInv'
  <2>1. PICK v \in Sent(p) : Operation(applyReplace(work, p, v))
    BY <1>4 DEF Replace
  <2>2. \A r \in applyReplace(work, p, v) : SoundUser(r)
    BY <1>0, AssignedSound DEF applyReplace
  <2> QED
    BY <2>1, <2>2, OperationSound
<1>5. ASSUME NEW p \in Addressed, Clear(p) PROVE IndInv'
  <2>1. Operation(applyRemove(work, p))
    BY <1>5 DEF Clear
  <2>2. \A r \in applyRemove(work, p) : SoundUser(r)
    <3> DEFINE v == IF p = "active" THEN FALSE ELSE Null
    <3>1. v \in Sent(p) /\ applyRemove(work, p) = Assigned(work, p, v, TRUE)
      BY RemoveValueSent DEF applyRemove
    <3> HIDE DEF v
    <3> QED
      BY <1>0, <3>1, AssignedSound
  <2> QED
    BY <2>1, <2>2, OperationSound
<1>6. ASSUME AddMap \/ ReplaceMap PROVE IndInv'
  <2>1. PICK m \in Maps, b \in BOOLEAN : Operation(applyValueMap(work, m[1], m[2], b))
    BY <1>6 DEF AddMap, ReplaceMap, MapsSent
  <2>2. \A r \in applyValueMap(work, m[1], m[2], b) : SoundUser(r)
    BY <1>0, MapsSound
  <2> QED
    BY <2>1, <2>2, OperationSound
<1>7. ASSUME AddFiltered PROVE IndInv'
  <2>1. PICK f \in Filters, upd \in Updates :
          \/ Operation(applyFilteredUpdate(work, f, upd))
          \/ Operation(addToMultiValued(work, <<upd>>))
    BY <1>7 DEF AddFiltered
  <2>2. \A r \in applyFilteredUpdate(work, f, upd) : SoundUser(r)
    BY <1>0, FilteredUpdate
  <2>3. <<upd>> \in Seq(RawItem)
    BY SentAssumption
  <2>4. \A r \in addToMultiValued(work, <<upd>>) : SoundUser(r)
    BY <1>0, <2>3, AddItems
  <2> QED
    BY <2>1, <2>2, <2>4, OperationSound
<1>8. ASSUME ReplaceFiltered PROVE IndInv'
  <2>1. PICK f \in Filters, upd \in Updates \union {Other} :
          Operation(applyFilteredUpdate(work, f, upd))
    BY <1>8 DEF ReplaceFiltered
  <2>2. \A r \in applyFilteredUpdate(work, f, upd) : SoundUser(r)
    BY <1>0, FilteredUpdate
  <2> QED
    BY <2>1, <2>2, OperationSound
<1>9. ASSUME RemoveFiltered PROVE IndInv'
  <2>1. PICK f \in Filters : Operation(applyFilteredRemove(work, f))
    BY <1>9 DEF RemoveFiltered
  <2>2. \A r \in applyFilteredRemove(work, f) : SoundUser(r)
    BY <1>0, FilteredRemove
  <2> QED
    BY <2>1, <2>2, OperationSound
<1>10. ASSUME PutNew PROVE IndInv'
  <2>1. PICK items \in Lists \union {Other, <<>>}, manager \in Sent("manager") \union {Absent} :
          Put([name |-> << >>, items |-> items, manager |-> manager])
    BY <1>10 DEF PutNew
  <2>2. items \in Seq(RawItem) \union {Null, Other}
    <3>1. <<>> \in Seq(RawItem)
      OBVIOUS
    <3>2. Lists \subseteq Seq(RawItem)
      BY SentAssumption
    <3> QED
      BY <3>1, <3>2
  <2>3. BodyFits(user, [name |-> << >>, items |-> items, manager |-> manager])
    BY <1>0, <2>2, NewBodyFits DEF SoundUser
  <2> QED
    BY <2>1, <2>3, PutSound
<1>11. ASSUME PutBack PROVE IndInv'
  BY <1>0, <1>11, ResponseFits, PutSound DEF PutBack
<1>12. ASSUME PersonChanges PROVE IndInv'
  <2>1. PICK p \in Person : people' = (people \ {p}) \union ({p} \ people)
    BY <1>12 DEF PersonChanges
  <2>2. attr' = attr /\ user' = user /\ work' = work /\ pc' = pc /\ left' = left
    BY <1>12 DEF PersonChanges
  <2>3. people' \subseteq Person
    BY <1>0, <2>1
  <2> QED
    BY <1>0, <2>2, <2>3, StepInv
<1>13. ASSUME UNCHANGED vars PROVE IndInv'
  <2>1. attr' = attr /\ people' = people /\ user' = user /\ work' = work /\ pc' = pc /\ left' = left
    BY <1>13 DEF vars
  <2> QED
    BY <1>0, <2>1, StepInv
<1> QED
  BY <1>1, <1>2, <1>3, <1>4, <1>5, <1>6, <1>7, <1>8, <1>9, <1>10, <1>11, <1>12, <1>13 DEF Next

\* The patch engine and PUT keep users well formed, all lists sound, and managers tidy.
THEOREM InvariantHolds == Spec => []IndInv
  BY InitInv, NextInv, PTL DEF Spec

\* Whatever clients send, a stored user and its copy are users: what the setters accept
\* has the type of its attribute.
THEOREM TypeCorrect == Spec => []TypeOK
<1>1. IndInv => TypeOK
  BY DEF IndInv
<1> QED
  BY <1>1, InvariantHolds, PTL
-----------------------------------------------------------------------------
(* The properties *)

LEMMA KeysAre ==
  ASSUME NEW u, u.items \in Seq(Item)
  PROVE  Keys(u) = KeysOf(u.items) /\ Primaries(u) \in SUBSET (1 .. Len(u.items))
<1>1. DOMAIN u.items = 1 .. Len(u.items)
  OBVIOUS
<1> QED
  BY <1>1 DEF Keys, KeysOf, Range, Primaries

LEMMA InvItemsSound == IndInv => ItemsSound
<1> SUFFICES ASSUME IndInv PROVE ItemsSound
  OBVIOUS
<1> DEFINE s == work.items
           n == Len(s)
<1>1. /\ s \in Seq(Item) /\ n \in Nat /\ Mergeable(s) /\ DOMAIN s = 1 .. n
      /\ \A i, j \in 1 .. n : i # j => ItemKey(s[i]) # ItemKey(s[j])
  BY InvUsers, SoundIsMergeable DEF SoundUser, Mergeable
<1>2. Keys(work) = KeysOf(s) /\ Primaries(work) \in SUBSET (1 .. n)
  BY <1>1, KeysAre
<1>3. OnePrimary
  <2>1. \A i, j \in Primaries(work) : i = j
    BY <1>1 DEF Primaries, Mergeable
  <2> QED
    BY <1>1, <1>2, <2>1, AtMostOne DEF OnePrimary
<1>4. NoDuplicates
  <2> DEFINE f == [i \in 1 .. n |-> ItemKey(s[i])]
  <2>1. f \in Surjection(1 .. n, KeysOf(s)) /\ f \in Injection(1 .. n, KeysOf(s))
    BY <1>1 DEF Surjection, Injection, IsInjective, KeysOf
  <2>2. IsFiniteSet(1 .. n) /\ Cardinality(1 .. n) = n
    BY <1>1, FS_Interval
  <2> HIDE DEF f
  <2>3. Cardinality(KeysOf(s)) = Cardinality(1 .. n)
    BY <2>1, <2>2, FS_Surjection
  <2> QED
    BY <1>2, <2>2, <2>3 DEF NoDuplicates
<1> QED
  BY <1>3, <1>4 DEF ItemsSound

\* At most one item of a user being patched is primary, and no two are the same: the
\* loops that append, merge, demote, update and remove keep both between them.
THEOREM ItemsAreSound == Spec => []ItemsSound
  BY InvariantHolds, InvItemsSound, PTL

\* Whoever has no manager has neither $ref nor display name of one: what a refused
\* request set is dropped with its copy, and resolving clears the rest.
THEOREM NoManagerStays == Spec => []NoManagerLeftOver
<1>1. IndInv => NoManagerLeftOver
  BY DEF IndInv
<1> QED
  BY <1>1, InvariantHolds, PTL

LEMMA InvAddKeeps == IndInv => AddKeeps
<1> SUFFICES ASSUME IndInv, NEW list \in Lists, NEW r \in addToMultiValued(user, list)
             PROVE  /\ Keys(r) = Keys(user) \union {ItemKey(Build(list[i])) : i \in DOMAIN list}
                    /\ Primaries(user) # {} => Primaries(r) # {}
  BY DEF AddKeeps
<1>1. SoundUser(user) /\ list \in Seq(RawItem)
  BY InvUsers, SentAssumption
<1> DEFINE R == Deduplicate(Extended(user.items, list))
<1>2. SoundUser(r) /\ Addable(list) /\ r.items = R
  BY <1>1, AddItems
<1>3. Mergeable(user.items) /\ user.items \in Seq(Item) /\ r.items \in Seq(Item)
  BY <1>1, <1>2, SoundIsMergeable DEF SoundUser, Mergeable
<1>4. /\ KeysOf(R) = KeysOf(user.items) \union BuiltKeys(list)
      /\ (\E i \in 1 .. Len(user.items) : user.items[i].primary)
           => \E i \in 1 .. Len(R) : R[i].primary
  BY <1>2, <1>3, AddingSound
<1> HIDE DEF R
<1>5. DOMAIN list = 1 .. Len(list) /\ DOMAIN user.items = 1 .. Len(user.items)
      /\ DOMAIN r.items = 1 .. Len(r.items)
  BY <1>1, <1>3
<1>6. Keys(r) = KeysOf(r.items) /\ Keys(user) = KeysOf(user.items)
  BY <1>3, KeysAre
<1>7. Keys(r) = Keys(user) \union BuiltKeys(list)
  BY <1>2, <1>4, <1>6
<1>8. BuiltKeys(list) = {ItemKey(Build(list[i])) : i \in DOMAIN list}
  BY <1>5 DEF BuiltKeys
<1>9. Primaries(user) # {} => Primaries(r) # {}
  BY <1>2, <1>4, <1>5 DEF Primaries
<1> QED
  BY <1>7, <1>8, <1>9

LEMMA InvUpdateOnlyMatching == IndInv => UpdateOnlyMatching
<1> SUFFICES ASSUME IndInv, NEW f \in Filters, NEW upd \in Updates,
                    \A i \in ParseEq(f) : DOMAIN f[i].arg # {"primary"},
                    NEW r \in applyFilteredUpdate(user, f, upd),
                    NEW x \in Range(user.items), ~Matches(x, f)
             PROVE  ItemKey(x) \in Keys(r)
  BY DEF UpdateOnlyMatching
<1> DEFINE s == user.items
           k == UpdateMatching(s, f, upd)
<1>1. SoundUser(user) /\ s \in Seq(Item)
  BY InvUsers DEF SoundUser, Sound
<1>2. SoundUser(r) /\ UpdateInv(s, f, Len(s), k) /\ Mergeable(k) /\ r.items = Deduplicate(k)
  BY <1>1, FilteredUpdate
<1> HIDE DEF k
<1>3. PICK j \in 1 .. Len(s) : x = s[j]
  <2>1. DOMAIN s = 1 .. Len(s)
    BY <1>1
  <2> QED
    BY <2>1 DEF Range
<1>4. Alike(k[j], s[j]) /\ Len(k) = Len(s)
  BY <1>2, <1>3 DEF UpdateInv
<1>5. ItemKey(x) \in KeysOf(k)
  <2>1. ItemKey(x) = ItemKey(k[j])
    BY <1>3, <1>4, AlikeKey
  <2> QED
    BY <1>4, <2>1 DEF KeysOf
<1>6. KeysOf(r.items) = KeysOf(k)
  BY <1>2, DeduplicateSound
<1>7. Keys(r) = KeysOf(r.items)
  BY <1>2, KeysAre DEF SoundUser, Sound
<1> QED
  BY <1>5, <1>6, <1>7

\* Adding items loses none and no flag for nothing, and a filtered update leaves alone
\* what the filter does not match, however items are merged and demoted on the way.
THEOREM OthersAreKept == Spec => []OthersKept
<1>1. IndInv => OthersKept
  BY InvAddKeeps, InvUpdateOnlyMatching DEF OthersKept
<1> QED
  BY <1>1, InvariantHolds, PTL

\* A record of the fields of a user, and the same with another manager.
LEMMA OtherManager ==
  ASSUME NEW a, NEW b, NEW c, NEW d, NEW e, NEW f, NEW g, NEW y, NEW w,
         w = [userName |-> a, title |-> b, active |-> c, password |-> d, name |-> e,
              items |-> f, manager |-> g]
  PROVE  [w EXCEPT !.manager = y] =
           [userName |-> a, title |-> b, active |-> c, password |-> d, name |-> e,
            items |-> f, manager |-> y]
<1>1. /\ DOMAIN w = UserField /\ w.userName = a /\ w.title = b /\ w.active = c
      /\ w.password = d /\ w.name = e /\ w.items = f
  BY DEF UserField
<1> DEFINE v == [w EXCEPT !.manager = y]
<1>2. DOMAIN v = UserField /\ v = [s \in DOMAIN v |-> v[s]]
  BY <1>1
<1>3. /\ v.userName = a /\ v.title = b /\ v.active = c /\ v.password = d /\ v.name = e
      /\ v.items = f /\ v.manager = y
  BY <1>1 DEF UserField
<1> HIDE DEF v
<1>4. v = [userName |-> a, title |-> b, active |-> c, password |-> d, name |-> e,
           items |-> f, manager |-> y]
  BY ONLY <1>2, <1>3, UserByFields
<1> QED
  BY <1>4 DEF v

LEMMA WithoutPassword ==
  ASSUME NEW u \in User
  PROVE  [u EXCEPT !.password = Null] =
           [userName |-> u.userName, title |-> u.title, active |-> u.active,
            password |-> Null, name |-> u.name, items |-> u.items, manager |-> u.manager]
<1> DEFINE w == [u EXCEPT !.password = Null]
<1>1. DOMAIN u = UserField
  BY UserDomain
<1>2. DOMAIN w = UserField /\ w = [s \in DOMAIN w |-> w[s]]
  BY <1>1
<1>3. /\ w.userName = u.userName /\ w.title = u.title /\ w.active = u.active
      /\ w.password = Null /\ w.name = u.name /\ w.items = u.items /\ w.manager = u.manager
  BY <1>1 DEF UserField
<1> HIDE DEF w
<1>4. w = [userName |-> u.userName, title |-> u.title, active |-> u.active,
           password |-> Null, name |-> u.name, items |-> u.items, manager |-> u.manager]
  BY <1>2, <1>3, UserByFields
<1> QED
  BY <1>4 DEF w

\* The manager that is sent back is accepted and becomes the one there was.
LEMMA ManagerBack ==
  ASSUME NEW m \in Manager, m.value # Null, m.ref \in Person => m.ref = m.value,
         people \subseteq Person
  PROVE  LET v == ManagerMap(m) IN
         /\ ~(v.value \in Person /\ Known(v.ref) /\ v.ref # v.value)
         /\ ResolvedManager(ManagerFrom(NoManager, v)) = ResolvedManager(m)
<1> DEFINE v == ManagerMap(m)
           x == [value |-> m.value, ref |-> m.ref, display |-> Null]
<1>0. /\ Null \notin Person /\ Absent \notin Person /\ Absent # Null /\ Absent # Opaque
      /\ m.value \in Person /\ m.ref \in Person \union {Null, Opaque}
  BY UserPatchAssumption DEF Manager
<1>1. v.value = m.value /\ v.ref = IF m.ref = Null THEN Absent ELSE m.ref
  BY DEF ManagerMap
<1> HIDE DEF v
<1>2. ~(v.value \in Person /\ Known(v.ref) /\ v.ref # v.value)
  BY <1>0, <1>1 DEF Known
<1>3. ManagerFrom(NoManager, v) = x
  <2>1. v.value \in Person /\ v.value # Absent
    BY <1>0, <1>1
  <2>2. (IF v.ref = Absent THEN NoManager.ref ELSE v.ref) = m.ref
    BY <1>0, <1>1 DEF NoManager
  <2>3. (IF v.value \notin Person /\ Known(v.ref) THEN v.ref
         ELSE IF v.value = Absent THEN NoManager.value ELSE v.value) = m.value
    BY <1>1, <2>1
  <2> QED
    BY <2>2, <2>3 DEF ManagerFrom
<1>4. x.value = m.value /\ [x EXCEPT !.display = Null] = x
  OBVIOUS
<1>5. [m EXCEPT !.display = Null] = x
  BY DEF Manager
<1> HIDE DEF x
<1>6. ResolvedManager(x) = ResolvedManager(m)
  <2>1. CASE m.value \in people
    BY <1>0, <1>4, <2>1 DEF ResolvedManager
  <2>2. CASE m.value \notin people
    BY <1>0, <1>4, <1>5, <2>2 DEF ResolvedManager
  <2> QED
    BY <2>1, <2>2
<1> QED
  BY <1>2, <1>3, <1>6 DEF v

LEMMA InvReadBack == IndInv => ReadBackUnchanged
<1> SUFFICES ASSUME IndInv, ManagerAgrees
             PROVE  Replaced(user, Response(user))
                      = {Resolved([user EXCEPT !.password = Null])}
  BY DEF ReadBackUnchanged
<1> DEFINE body == Response(user)
           w == [user EXCEPT !.password = Null]
           c == Filled(user, body)
           m == user.manager
<1>0. SoundUser(user) /\ user \in User /\ Tidy(user) /\ people \subseteq Person
      /\ m \in Manager /\ user.userName # Null
  BY InvUsers, UserFields, UserPatchAssumption DEF SoundUser
<1>1. /\ DOMAIN body = {"userName", "title", "active", "name", "items", "manager"}
      /\ body.userName = user.userName /\ body.title = user.title /\ body.active = user.active
      /\ body.name = Restrict(user.name, {s \in SubName : user.name[s] # Null})
      /\ body.items = ResponseItems(user) /\ body.manager = ResponseManager(user)
  BY ResponseFields
<1> HIDE DEF body
<1>2. /\ Given(body, "userName", user.userName) = user.userName
      /\ Given(body, "userName", Absent) = user.userName
      /\ Given(body, "title", Null) = user.title /\ Given(body, "active", TRUE) = user.active
  BY <1>1 DEF Given
<1>3. applyNameAttribute(NoNames, body.name) = user.name
  BY <1>0, <1>1, NamesBack, UserFields
<1>4. ValidItems(body.items) /\ ReplaceCollection(body.items) = user.items
  BY <1>0, <1>1, ItemsBack
<1>5. Replaced(user, body) = {Resolved(v) : v \in applyEnterpriseExtension(c, body.manager)}
  BY <1>0, <1>2, <1>4, ReplacedIs
<1>6. c = [userName |-> user.userName, title |-> user.title, active |-> user.active,
           password |-> Null, name |-> user.name, items |-> user.items, manager |-> NoManager]
  BY <1>0, <1>2, <1>3, <1>4, FilledIs
<1>7. w = [userName |-> user.userName, title |-> user.title, active |-> user.active,
           password |-> Null, name |-> user.name, items |-> user.items, manager |-> m]
  BY <1>0, WithoutPassword
<1> HIDE DEF c, w
<1>8. CASE m.value = Null
  <2>1. c = w
    BY <1>0, <1>6, <1>7, <1>8 DEF Tidy
  <2>2. body.manager = Absent
    BY <1>1, <1>8 DEF ResponseManager
  <2>3. applyEnterpriseExtension(c, body.manager) = {c}
    BY <2>2 DEF applyEnterpriseExtension
  <2>4. Replaced(user, body) = {Resolved(w)}
    BY <1>5, <2>1, <2>3
  <2> QED
    BY <2>4 DEF body, w
<1>9. CASE m.value # Null
  <2> DEFINE v == ManagerMap(m)
             x == ManagerFrom(NoManager, v)
  <2>1. v \in RawManager /\ body.manager = v
    BY <1>0, <1>1, <1>9, ManagerMapType DEF ResponseManager
  <2>2. v # Absent
    BY <2>1, SentAssumption
  <2>3. m.ref \in Person => m.ref = m.value
    BY <1>9 DEF ManagerAgrees
  <2>4. /\ ~(v.value \in Person /\ Known(v.ref) /\ v.ref # v.value)
        /\ ResolvedManager(x) = ResolvedManager(m)
    BY <1>0, <1>9, <2>3, ManagerBack
  <2> HIDE DEF v, x
  <2>5. c.manager = NoManager /\ w.manager = m
    BY <1>6, <1>7
  <2>6. applyEnterpriseExtension(c, body.manager) = {[c EXCEPT !.manager = x]}
    BY <2>1, <2>2, <2>4, <2>5, SetManagerObject DEF applyEnterpriseExtension, x
  <2> DEFINE y == ResolvedManager(m)
             d == [c EXCEPT !.manager = x]
  <2>7. d = [userName |-> user.userName, title |-> user.title, active |-> user.active,
             password |-> Null, name |-> user.name, items |-> user.items, manager |-> x]
    BY <1>6, OtherManager
  <2>8. Resolved(w) = [w EXCEPT !.manager = y]
    BY <2>5, ResolvedIs
  <2> HIDE DEF d
  <2>9. Resolved(d) = [d EXCEPT !.manager = y]
    <3>1. d.manager = x
      BY <2>7
    <3> QED
      BY <2>4, <3>1, ResolvedIs
  <2> HIDE DEF y
  <2>10. [d EXCEPT !.manager = y] = [w EXCEPT !.manager = y]
    BY <1>7, <2>7, OtherManager
  <2>11. Resolved(d) = Resolved(w)
    BY <2>8, <2>9, <2>10
  <2>12. Replaced(user, body) = {Resolved(d)}
    BY <1>5, <2>6 DEF d
  <2> QED
    BY <2>11, <2>12 DEF body, w
<1> QED
  BY <1>8, <1>9

\* Whoever puts back what was read changes nothing but the password: lists come back
\* item by item, names member by member, and the manager is resolved to itself.
THEOREM ReadBackChangesNothing == Spec => []ReadBackUnchanged
  BY InvariantHolds, InvReadBack, PTL
-----------------------------------------------------------------------------
(* Repeating an operation *)

\* Giving a field the value it has.
LEMMA SameField ==
  ASSUME NEW r \in User
  PROVE  /\ [r EXCEPT !.userName = r.userName] = r /\ [r EXCEPT !.title = r.title] = r
         /\ [r EXCEPT !.active = r.active] = r /\ [r EXCEPT !.password = r.password] = r
         /\ [r EXCEPT !.name = r.name] = r /\ [r EXCEPT !.items = r.items] = r
         /\ [r EXCEPT !.manager = r.manager] = r
  BY DEF User

LEMMA UserNameTwice ==
  ASSUME NEW u \in User, NEW v, NEW r \in setUserName(u, v)
  PROVE  setUserName(r, v) = {r}
<1>1. v \in UserName /\ r = [u EXCEPT !.userName = v]
  BY DEF setUserName
<1>2. r \in User /\ r.userName = v
  BY <1>1 DEF User
<1> QED
  BY <1>1, <1>2, SameField DEF setUserName

LEMMA TitleTwice ==
  ASSUME NEW u \in User, NEW v, NEW r \in setTitle(u, v)
  PROVE  setTitle(r, v) = {r}
<1>1. IsText(v) /\ r = [u EXCEPT !.title = v]
  BY DEF setTitle
<1>2. r \in User /\ r.title = v
  BY <1>1 DEF User, IsText
<1> QED
  BY <1>1, <1>2, SameField DEF setTitle

LEMMA ActiveTwice ==
  ASSUME NEW u \in User, NEW v, NEW r \in setActive(u, v)
  PROVE  setActive(r, v) = {r}
<1>1. v \in BOOLEAN /\ r = [u EXCEPT !.active = v]
  BY DEF setActive
<1>2. r \in User /\ r.active = v
  BY <1>1 DEF User
<1>3. [r EXCEPT !.active = v] = r
  BY <1>2, SameField
<1> QED
  BY <1>1, <1>3 DEF setActive

LEMMA PasswordTwice ==
  ASSUME NEW u \in User, NEW v \in Text \union {Null, Other}, NEW r \in setPassword(u, v)
  PROVE  setPassword(r, v) = {r}
<1>1. CASE v = Null
  <2>1. r = [u EXCEPT !.password = Null]
    BY <1>1, UserPatchAssumption DEF setPassword, SamePassword, User, Hash
  <2>2. r \in User /\ r.password = Null
    BY <2>1 DEF User
  <2>3. [r EXCEPT !.password = Null] = r
    BY <2>2, SameField
  <2> QED
    BY <1>1, <2>2, <2>3 DEF setPassword, SamePassword
<1>2. CASE v # Null /\ v = Other
  BY <1>2 DEF setPassword
<1>3. CASE v # Null /\ v # Other /\ SamePassword(u, v)
  <2>1. r = u
    BY <1>3 DEF setPassword
  <2> QED
    BY <1>3, <2>1 DEF setPassword
<1>4. CASE v # Null /\ v # Other /\ ~SamePassword(u, v)
  <2>1. PICK n \in {0, 1} : r = [u EXCEPT !.password = [of |-> v, salt |-> n]]
    BY <1>4 DEF setPassword
  <2> DEFINE h == [of |-> v, salt |-> n]
  <2>2. h \in Hash /\ h.of = v
    BY <1>4 DEF Hash
  <2>3. r.password = h
    BY <2>1 DEF User
  <2>4. h # Null
    BY <2>2, SentAssumption
  <2>5. SamePassword(r, v)
    BY <2>2, <2>3, <2>4 DEF SamePassword
  <2> QED
    BY <1>4, <2>5 DEF setPassword
<1> QED
  BY <1>1, <1>2, <1>3, <1>4

LEMMA NameTwice ==
  ASSUME NEW u \in User, NEW v, NEW r \in setNameAttribute(u, v)
  PROVE  setNameAttribute(r, v) = {r}
<1>0. u.name \in [SubName -> Text \union {Null}] /\ r \in User
  BY UserFields, SetName
<1>1. CASE v = Null
  <2>1. r = [u EXCEPT !.name = NoNames]
    BY <1>1 DEF setNameAttribute, NoNames
  <2>2. r.name = NoNames
    BY <2>1 DEF User
  <2>3. [r EXCEPT !.name = NoNames] = r
    BY <1>0, <2>2, SameField
  <2> QED
    BY <1>1, <2>3 DEF setNameAttribute, NoNames
<1>2. CASE v # Null /\ v # Other /\ \A s \in DOMAIN v : s \in SubName /\ IsText(v[s])
  <2> DEFINE m(old) == [s \in SubName |-> Given(v, s, old[s])]
  <2>1. r = [u EXCEPT !.name = m(u.name)]
    BY <1>2 DEF setNameAttribute
  <2>2. r.name = m(u.name)
    <3> HIDE DEF m
    <3> QED
      BY <2>1 DEF User
  <2>3. m(r.name) = m(u.name)
    BY <2>2 DEF Given
  <2>4. setNameAttribute(r, v) = {[r EXCEPT !.name = m(r.name)]}
    BY <1>2 DEF setNameAttribute
  <2> HIDE DEF m
  <2>5. [r EXCEPT !.name = m(r.name)] = r
    BY <1>0, <2>2, <2>3, SameField
  <2> QED
    BY <2>4, <2>5
<1>3. CASE v # Null /\ ~(v # Other /\ \A s \in DOMAIN v : s \in SubName /\ IsText(v[s]))
  BY <1>3 DEF setNameAttribute
<1> QED
  BY <1>1, <1>2, <1>3

LEMMA SubAttributeTwice ==
  ASSUME NEW u \in User, NEW s \in SubName, NEW v, NEW r \in setSubAttribute(u, s, v)
  PROVE  setSubAttribute(r, s, v) = {r}
<1>1. r = [u EXCEPT !.name = [u.name EXCEPT ![s] = v]] /\ IsText(v)
  BY DEF setSubAttribute
<1>2. r \in User /\ u.name \in [SubName -> Text \union {Null}]
  BY UserFields, SetSubAttribute
<1> DEFINE n == [u.name EXCEPT ![s] = v]
<1>3. n \in [SubName -> Text \union {Null}] /\ n[s] = v
  BY <1>1, <1>2 DEF IsText
<1>4. [n EXCEPT ![s] = v] = n
  BY <1>3
<1> HIDE DEF n
<1>5. r.name = n
  BY <1>1 DEF User, n
<1>6. [r EXCEPT !.name = [r.name EXCEPT ![s] = v]] = r
  BY <1>2, <1>4, <1>5, SameField
<1> QED
  BY <1>1, <1>6 DEF setSubAttribute

\* What the object says of the manager twice it says once.
LEMMA ManagerFromTwice ==
  ASSUME NEW m \in Manager, NEW v \in RawManager
  PROVE  ManagerFrom(ManagerFrom(m, v), v) = ManagerFrom(m, v)
  BY DEF ManagerFrom

LEMMA ManagerTwice ==
  ASSUME NEW u \in User, NEW v \in Sent("manager"), NEW r \in setEnterpriseManager(u, v)
  PROVE  setEnterpriseManager(r, v) = {r}
<1>0. /\ u.manager \in Manager /\ r \in User
      /\ v \in RawManager \union Person \union {Null, Other}
  BY UserFields, SetManager DEF Sent
<1>1. CASE v = Null
  <2>1. r = [u EXCEPT !.manager = NoManager]
    BY <1>1, UserPatchAssumption DEF setEnterpriseManager
  <2>2. r.manager = NoManager
    BY <2>1, NoManagerType, WithManager
  <2>3. [r EXCEPT !.manager = NoManager] = r
    BY <1>0, <2>2, SameField
  <2>4. setEnterpriseManager(r, v) = {[r EXCEPT !.manager = NoManager]}
    BY <1>1, UserPatchAssumption DEF setEnterpriseManager
  <2> QED
    BY <2>3, <2>4
<1>2. CASE v # Null /\ v = Other
  BY <1>2, UserPatchAssumption DEF setEnterpriseManager
<1>3. CASE v # Null /\ v # Other /\ v \in Person
  <2> DEFINE m == [u.manager EXCEPT !.value = v, !.display = Null]
  <2>1. r = [u EXCEPT !.manager = m]
    BY <1>3 DEF setEnterpriseManager
  <2>2. m \in Manager /\ [m EXCEPT !.value = v, !.display = Null] = m
    BY <1>0, <1>3 DEF Manager
  <2> HIDE DEF m
  <2>3. r.manager = m
    BY <2>1, <2>2, WithManager
  <2>4. setEnterpriseManager(r, v)
          = {[r EXCEPT !.manager = [r.manager EXCEPT !.value = v, !.display = Null]]}
    BY <1>3 DEF setEnterpriseManager
  <2>5. [r EXCEPT !.manager = m] = r
    BY <1>0, <2>3, SameField
  <2> QED
    BY <2>2, <2>3, <2>4, <2>5
<1>4. CASE v \in RawManager
  <2> DEFINE m == ManagerFrom(u.manager, v)
  <2>1. r = [u EXCEPT !.manager = m] /\ ~(v.value \in Person /\ Known(v.ref) /\ v.ref # v.value)
    BY <1>4, SetManagerObject
  <2>2. m \in Manager /\ ManagerFrom(m, v) = m
    BY <1>0, <1>4, ManagerFromType, ManagerFromTwice
  <2> HIDE DEF m
  <2>3. r.manager = m
    BY <2>1, <2>2, WithManager
  <2>4. setEnterpriseManager(r, v) = {[r EXCEPT !.manager = ManagerFrom(r.manager, v)]}
    BY <1>4, <2>1, SetManagerObject
  <2>5. [r EXCEPT !.manager = m] = r
    BY <1>0, <2>3, SameField
  <2> QED
    BY <2>2, <2>3, <2>4, <2>5
<1> QED
  BY <1>0, <1>1, <1>2, <1>3, <1>4

LEMMA ManagerValueTwice ==
  ASSUME NEW u \in User, NEW v \in Person \union {Null, Other}, NEW r \in setManagerValue(u, v)
  PROVE  setManagerValue(r, v) = {r}
<1> DEFINE m == [u.manager EXCEPT !.value = v, !.display = Null]
<1>1. r = [u EXCEPT !.manager = m] /\ v # Other /\ r \in User
  BY SetManagerValue DEF setManagerValue
<1>2. m \in Manager /\ [m EXCEPT !.value = v, !.display = Null] = m
  BY <1>1, UserFields DEF Manager
<1> HIDE DEF m
<1>3. r.manager = m
  BY <1>1, <1>2, WithManager
<1>4. [r EXCEPT !.manager = m] = r
  BY <1>1, <1>3, SameField
<1>5. setManagerValue(r, v)
        = {[r EXCEPT !.manager = [r.manager EXCEPT !.value = v, !.display = Null]]}
  BY <1>1 DEF setManagerValue
<1> QED
  BY <1>2, <1>3, <1>4, <1>5

LEMMA ManagerRefTwice ==
  ASSUME NEW u \in User, NEW v \in Person \union {Null, Opaque, Other},
         NEW r \in setManagerRef(u, v)
  PROVE  setManagerRef(r, v) = {r}
<1>0. Other \notin Person /\ r \in User
  BY UserPatchAssumption, SetManagerRef
<1>1. CASE v \in Person
  <2> DEFINE m == [value |-> v, ref |-> v, display |-> Null]
  <2>1. r = [u EXCEPT !.manager = m]
    BY <1>0, <1>1 DEF setManagerRef
  <2>2. m \in Manager
    BY <1>1 DEF Manager
  <2>3. setManagerRef(r, v) = {[r EXCEPT !.manager = m]}
    BY <1>0, <1>1 DEF setManagerRef
  <2> HIDE DEF m
  <2>4. r.manager = m
    BY <2>1, <2>2, WithManager
  <2> QED
    BY <1>0, <2>3, <2>4, SameField
<1>2. CASE v \notin Person /\ v # Other
  <2> DEFINE m == [u.manager EXCEPT !.ref = v]
  <2>1. r = [u EXCEPT !.manager.ref = v]
    BY <1>2 DEF setManagerRef
  <2>2. r = [u EXCEPT !.manager = m]
    BY <2>1
  <2>3. m \in Manager /\ [m EXCEPT !.ref = v] = m
    BY <1>2, UserFields DEF Manager
  <2> HIDE DEF m
  <2>4. r.manager = m
    BY <2>2, <2>3, WithManager
  <2>5. setManagerRef(r, v) = {[r EXCEPT !.manager.ref = v]}
    BY <1>2 DEF setManagerRef
  <2>6. [r EXCEPT !.manager.ref = v] = [r EXCEPT !.manager = [r.manager EXCEPT !.ref = v]]
    OBVIOUS
  <2>7. [r EXCEPT !.manager = m] = r
    BY <1>0, <2>4, SameField
  <2> QED
    BY <2>3, <2>4, <2>5, <2>6, <2>7
<1>3. CASE v = Other
  BY <1>0, <1>3 DEF setManagerRef
<1> QED
  BY <1>1, <1>2, <1>3

LEMMA AddTwice ==
  ASSUME NEW u, SoundUser(u), NEW list \in Seq(RawItem) \union {Null, Other},
         NEW r \in addToMultiValued(u, list)
  PROVE  addToMultiValued(r, list) = {r}
<1>1. /\ r \in User /\ ValidItems(list) /\ Addable(list)
      /\ r.items = Deduplicate(Extended(u.items, list))
  BY AddItems DEF SoundUser
<1>2. Mergeable(u.items)
  BY SoundIsMergeable DEF SoundUser
<1>3. Deduplicate(Extended(r.items, list)) = r.items
  BY <1>1, <1>2, AddingTwice
<1>4. addToMultiValued(r, list) = {[r EXCEPT !.items = Deduplicate(Extended(r.items, list))]}
  BY <1>1, AddIsExtend
<1> QED
  BY <1>1, <1>3, <1>4, SameField

LEMMA ReplaceTwice ==
  ASSUME NEW u, SoundUser(u), NEW list \in Seq(RawItem) \union {Null, Other},
         NEW r \in replaceMultiValued(u, list)
  PROVE  replaceMultiValued(r, list) = {r}
<1> DEFINE e == [u EXCEPT !.items = <<>>]
<1>1. u \in User /\ SoundUser(e) /\ e.items = <<>> /\ e \in User
  BY NoItems DEF SoundUser
<1>2. CASE list = Null
  <2>1. r = e
    BY <1>2 DEF replaceMultiValued
  <2>2. replaceMultiValued(r, list) = {[r EXCEPT !.items = <<>>]}
    BY <1>2 DEF replaceMultiValued
  <2> HIDE DEF e
  <2>3. [r EXCEPT !.items = r.items] = r
    BY <1>1, <2>1, SameField
  <2> QED
    BY <1>1, <2>1, <2>2, <2>3
<1>3. CASE list # Null
  <2>1. r \in addToMultiValued(e, list)
    BY <1>3 DEF replaceMultiValued
  <2> DEFINE R == Deduplicate(Extended(e.items, list))
  <2>2. r = [e EXCEPT !.items = R]
    BY <1>1, <2>1, AddItems
  <2>3. [r EXCEPT !.items = <<>>] = e
    <3> HIDE DEF R
    <3>1. r = [u EXCEPT !.items = R]
      BY <2>2
    <3> QED
      BY <3>1
  <2>4. replaceMultiValued(r, list) = addToMultiValued([r EXCEPT !.items = <<>>], list)
    BY <1>3 DEF replaceMultiValued
  <2>5. addToMultiValued(e, list) = {[e EXCEPT !.items = R]}
    BY <2>1, AddIsExtend
  <2> QED
    BY <2>2, <2>3, <2>4, <2>5
<1> QED
  BY <1>2, <1>3

LEMMA AssignedTwice ==
  ASSUME NEW u, SoundUser(u), NEW path, NEW v \in Sent(path), NEW isReplace \in BOOLEAN,
         NEW r \in Assigned(u, path, v, isReplace)
  PROVE  Assigned(r, path, v, isReplace) = {r}
<1>0. u \in User
  BY DEF SoundUser
<1>1. CASE path = "userName"
  BY <1>0, <1>1, UserNameTwice DEF Assigned
<1>2. CASE path = "title"
  BY <1>0, <1>2, TitleTwice DEF Assigned
<1>3. CASE path = "active"
  BY <1>0, <1>3, ActiveTwice DEF Assigned
<1>4. CASE path = "password"
  <2>1. /\ v \in Text \union {Null, Other} /\ r \in setPassword(u, v)
        /\ Assigned(r, path, v, isReplace) = setPassword(r, v)
    BY <1>4 DEF Assigned, Sent
  <2> QED
    BY <1>0, <2>1, PasswordTwice
<1>5. CASE path = "name"
  BY <1>0, <1>5, NameTwice DEF Assigned
<1>6. CASE path = "name.familyName"
  <2>1. /\ r \in setSubAttribute(u, "familyName", v) /\ "familyName" \in SubName
        /\ Assigned(r, path, v, isReplace) = setSubAttribute(r, "familyName", v)
    BY <1>6 DEF Assigned, SubName
  <2> QED
    BY <1>0, <2>1, SubAttributeTwice
<1>7. CASE path = "manager"
  <2>1. /\ v \in Sent("manager") /\ r \in setEnterpriseManager(u, v)
        /\ Assigned(r, path, v, isReplace) = setEnterpriseManager(r, v)
    BY <1>7 DEF Assigned
  <2> QED
    BY <1>0, <2>1, ManagerTwice
<1>8. CASE path = "manager.value"
  <2>1. /\ v \in Person \union {Null, Other} /\ r \in setManagerValue(u, v)
        /\ Assigned(r, path, v, isReplace) = setManagerValue(r, v)
    BY <1>8 DEF Assigned, Sent
  <2> QED
    BY <1>0, <2>1, ManagerValueTwice
<1>9. CASE path = "manager.$ref"
  <2>1. /\ v \in Person \union {Null, Opaque, Other} /\ r \in setManagerRef(u, v)
        /\ Assigned(r, path, v, isReplace) = setManagerRef(r, v)
    BY <1>9 DEF Assigned, Sent
  <2> QED
    BY <1>0, <2>1, ManagerRefTwice
<1>10. CASE path = "items"
  <2>1. v \in Seq(RawItem) \union {Null, Other}
    BY <1>10, SentItems
  <2>2. CASE isReplace
    <3>1. r \in replaceMultiValued(u, v)
          /\ Assigned(r, path, v, isReplace) = replaceMultiValued(r, v)
      BY <1>10, <2>2 DEF Assigned
    <3> QED
      BY <2>1, <3>1, ReplaceTwice
  <2>3. CASE ~isReplace
    <3>1. r \in addToMultiValued(u, v)
          /\ Assigned(r, path, v, isReplace) = addToMultiValued(r, v)
      BY <1>10, <2>3 DEF Assigned
    <3> QED
      BY <2>1, <3>1, AddTwice
  <2> QED
    BY <2>2, <2>3
<1>11. CASE path \notin Known10
  BY <1>11 DEF Assigned, Known10
<1> QED
  BY <1>1, <1>2, <1>3, <1>4, <1>5, <1>6, <1>7, <1>8, <1>9, <1>10, <1>11 DEF Known10

LEMMA InvRetry == IndInv => RetryChangesNothing
<1> SUFFICES ASSUME IndInv, NEW p \in Addressed, NEW v \in Sent(p)
             PROVE  /\ \A r \in applyAdd(user, p, v) : applyAdd(r, p, v) = {r}
                    /\ \A r \in applyReplace(user, p, v) : applyReplace(r, p, v) = {r}
                    /\ \A r \in applyRemove(user, p) : applyRemove(r, p) = {r}
  BY DEF RetryChangesNothing
<1>0. ASSUME NEW w \in Sent(p), NEW b \in BOOLEAN, NEW r \in Assigned(user, p, w, b)
      PROVE  Assigned(r, p, w, b) = {r}
  <2>1. SoundUser(user)
    BY InvUsers
  <2> QED
    BY ONLY <1>0, <2>1, AssignedTwice
<1>1. ASSUME NEW r \in applyAdd(user, p, v)
      PROVE  applyAdd(r, p, v) = {r}
  <2>1. v # Null /\ r \in Assigned(user, p, v, FALSE)
    BY <1>1 DEF applyAdd
  <2>2. Assigned(r, p, v, FALSE) = {r}
    BY <1>0, <2>1
  <2> QED
    BY <2>1, <2>2 DEF applyAdd
<1>2. ASSUME NEW r \in applyReplace(user, p, v)
      PROVE  applyReplace(r, p, v) = {r}
  <2>1. r \in Assigned(user, p, v, TRUE)
    BY <1>2 DEF applyReplace
  <2>2. Assigned(r, p, v, TRUE) = {r}
    BY <1>0, <2>1
  <2> QED
    BY <2>2 DEF applyReplace
<1>3. ASSUME NEW r \in applyRemove(user, p)
      PROVE  applyRemove(r, p) = {r}
  <2> DEFINE w == IF p = "active" THEN FALSE ELSE Null
  <2>1. w \in Sent(p) /\ r \in Assigned(user, p, w, TRUE)
    BY <1>3, RemoveValueSent DEF applyRemove
  <2>2. applyRemove(r, p) = Assigned(r, p, w, TRUE)
    BY DEF applyRemove
  <2> HIDE DEF w
  <2>3. Assigned(r, p, w, TRUE) = {r}
    BY <1>0, <2>1
  <2> QED
    BY <2>2, <2>3
<1> QED
  BY <1>1, <1>2, <1>3

\* A client that missed the answer to a PATCH sends it again: the handlers of every
\* attribute find nothing left to change, whatever the user was before.
THEOREM RetriesChangeNothing == Spec => []RetryChangesNothing
  BY InvariantHolds, InvRetry, PTL
=============================================================================
