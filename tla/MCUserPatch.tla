---------------------------- MODULE MCUserPatch -----------------------------
EXTENDS UserPatch

CONSTANTS a, b, p1, p2

Is(w) == [word |-> w, spelling |-> "plain"]
Loose(w) == [word |-> w, spelling |-> "loose"]
Upper(w) == [word |-> w, spelling |-> "upper"]

SomeLists ==
  {<<>>, <<[value |-> Is(a), primary |-> TRUE]>>,
   <<[value |-> Upper(a), type |-> "CANONICAL"]>>,
   <<[value |-> Loose(b), type |-> "canonical"], [value |-> Is(b), type |-> "CANONICAL"]>>,
   <<[value |-> Is(b), primary |-> TRUE], [value |-> Is(a), type |-> "canonical"]>>,
   <<[value |-> Is(a), primary |-> TRUE], [value |-> Is(b), primary |-> TRUE]>>}

SomeUpdates ==
  {[primary |-> TRUE], [type |-> "canonical"], [value |-> Is(b)],
   [value |-> Upper(a), primary |-> TRUE]}

Eq(arg) == [op |-> "eq", arg |-> arg]
Ne(arg) == [op |-> "ne", arg |-> arg]

\* Single clauses, and one that is not understood.
SomeFilters ==
  {<<Eq([value |-> Is(a)])>>, <<Eq([type |-> "CANONICAL"])>>, <<Ne([primary |-> TRUE])>>}

Entry(path, value) == [path |-> path, value |-> value]
SomeMaps ==
  {<<Entry("items", l), Entry("items", Null)>> : l \in SomeLists} \union
  {<<Entry("manager", p1), Entry("manager.$ref", p2)>>,
   <<Entry("name", Null), Entry("name.familyName", a)>>}

\* A second operation where the first one may have to be undone.
TwoOps == [c \in Collections |-> IF c = "none" THEN 2 ELSE 1]
=============================================================================
