------------------------------- MODULE Paging -------------------------------
(***************************************************************************)
(* Reading a collection page by page: handler/pagination.go,               *)
(* scim/cursor.go, the list handlers of Users and Groups and RootSearch of *)
(* handler/discovery.go, which lists users and groups together.            *)
(*                                                                         *)
(* A cursor holds an offset into a sorted list and nothing else, totals    *)
(* and rows are read by separate statements, and rows come and go between  *)
(* any two of them.  The client is external: it follows nextCursor, or     *)
(* raises startIndex by what it got, until there is no more.               *)
(***************************************************************************)
EXTENDS Integers, Sequences, FiniteSets, SequencesExt

CONSTANTS
  UserRow, GroupRow,      \* rows that may exist; a row is its place in the sort order,
                          \* of "sorted" the order of sortResources
  Places,                 \* the places of rows in the ORDER BY of "sorted"
  SeedRows,               \* those that exist at first
  Endpoints,              \* "users", "root" and "sorted", which is root with sortBy
  MaxResults,             \* 200: the largest page, and the fetch limit of "sorted"
  MaxInt,                 \* the largest int; the smallest is -MaxInt - 1
  Counts,                 \* values of count that clients send
  CursorTimeout,          \* DefaultCursorTimeoutSeconds
  MaxWrites, MaxFaults, MaxTime,
  NoCursor

ASSUME PagingAssumption ==
  /\ UserRow \intersect GroupRow = {} /\ UserRow \union GroupRow \subseteq Nat
  /\ Places \subseteq [UserRow \union GroupRow -> Nat]
  /\ \A p \in Places : \A x, y \in UserRow \union GroupRow : p[x] = p[y] => x = y
  /\ SeedRows \subseteq UserRow \union GroupRow /\ IsFiniteSet(SeedRows)
  /\ Endpoints \subseteq {"users", "root", "sorted"}
  /\ NoCursor \notin [own : BOOLEAN, offset : Nat, size : Nat, exp : Nat]
  /\ MaxResults \in Nat \ {0} /\ MaxInt \in Nat /\ MaxInt > MaxResults
  /\ Counts \subseteq Int /\ CursorTimeout \in Nat \ {0}
  /\ {MaxWrites, MaxFaults, MaxTime} \subseteq Nat

Row == UserRow \union GroupRow

\* The workspace is that of the client or another one.
Cursor == [own : BOOLEAN, offset : Nat, size : Nat, exp : Nat]

VARIABLES
  rows,               \* rows of the two tables
  endpoint, isCursor, \* what the client asks, and how
  place,              \* how SQL sorts what the client asks for
  asked,              \* the count it sends
  token,              \* the cursor it holds: NoCursor is the empty one
  startIndex,         \* its startIndex, when it does not use cursors
  pc,
  offset, prevSize, count,  \* PaginationRequest
  totUsers, totGroups,      \* counts as they were read
  fetched,            \* resources read so far for this page
  page,               \* the page the client got last
  total,              \* its totalResults
  prevOffset,         \* the offset in its previousCursor, -1 if there is none
  trail,              \* history: the offsets of the last two pages
  seen,               \* history: all resources the client got, in order
  inserted, deleted,  \* history: rows written since the start
  faults, now

walkVars == <<endpoint, isCursor, asked, place>>
clientVars == <<token, startIndex, page, total, prevOffset, trail, seen>>
pageVars == <<offset, prevSize, count>>
readVars == <<totUsers, totGroups, fetched>>
dbVars == <<rows, inserted, deleted>>
vars == <<walkVars, clientVars, pc, pageVars, readVars, dbVars, faults, now>>

TypeOK ==
  /\ rows \subseteq Row /\ inserted \subseteq Row /\ deleted \subseteq Row
  /\ endpoint \in Endpoints /\ isCursor \in BOOLEAN /\ asked \in Counts
  /\ place \in [Row -> Nat]
  /\ token \in Cursor \union {NoCursor} /\ startIndex \in Int
  /\ pc \in {"ask", "count", "count groups", "list", "list groups", "got", "refused",
             "end"}
  /\ offset \in Nat /\ prevSize \in Nat /\ count \in 0 .. MaxResults
  /\ totUsers \in Nat /\ totGroups \in Nat /\ total \in Nat
  /\ fetched \in Seq(Row) /\ page \in Seq(Row) /\ seen \in Seq(Row)
  /\ prevOffset \in Nat \union {-1} /\ trail \in Seq(Nat)
  /\ faults \in 0 .. MaxFaults /\ now \in 0 .. MaxTime

Foreign == [own |-> FALSE, offset |-> 0, size |-> 0, exp |-> CursorTimeout]

Init ==
  /\ rows = SeedRows /\ inserted = {} /\ deleted = {}
  /\ endpoint \in Endpoints /\ isCursor \in BOOLEAN /\ asked \in Counts
  /\ place \in IF endpoint = "sorted" THEN Places ELSE {[x \in Row |-> x]}
  /\ token \in IF isCursor THEN {NoCursor, Foreign} ELSE {NoCursor}
  /\ startIndex \in IF isCursor THEN {1} ELSE {0, 1}
  /\ pc = "ask"
  /\ offset = 0 /\ prevSize = 0 /\ count = 0
  /\ totUsers = 0 /\ totGroups = 0 /\ fetched = <<>>
  /\ page = <<>> /\ total = 0 /\ prevOffset = -1 /\ trail = <<>> /\ seen = <<>>
  /\ faults = 0 /\ now = 0
-----------------------------------------------------------------------------
AtLeast(low, x) == IF x < low THEN low ELSE x
AtMost(high, x) == IF x > high THEN high ELSE x

\* A number of the JSON body is a float64; int(num) of one that does not fit
\* yields whatever the platform's conversion yields.
ToInt(x) == IF x <= MaxInt THEN {x} ELSE {-MaxInt - 1, MaxInt}

Clamped(n) == AtLeast(0, AtMost(MaxResults, n))

\* DecodeCursorWithPageSize; the signature rules out every other token.
Decodes(t) == t = NoCursor \/ (t.own /\ t.exp > now)

\* ORDER BY: a row's position is the number of rows before it.
Before(S, x) == Cardinality({y \in S : y < x})
Sorted(S) == [i \in 1 .. Cardinality(S) |-> CHOOSE x \in S : Before(S, x) = i - 1]

\* ORDER BY ... LIMIT n OFFSET k over the rows in S.  LIMIT is not negative here:
\* a negative one is an error of the statement.
Listed(S, k, n) == SubSeq(Sorted(S), k + 1, AtMost(Cardinality(S), k + n))

\* The first n of the rows in S, in the SQL order of "sorted"; it ends with the id.
Foremost(S, n) == {x \in S : Cardinality({y \in S : place[y] < place[x]}) < n}

Users == rows \intersect UserRow
Groups == rows \intersect GroupRow

\* parsePagination.
Parse ==
  /\ pc = "ask"
  /\ \E n \in ToInt(asked) :
       LET ok == isCursor => Decodes(token) /\ n <= MaxResults IN
       /\ pc' = IF ok THEN "count" ELSE "refused"
       /\ count' = IF ok THEN Clamped(n) ELSE count
  /\ offset' = CASE pc' = "refused" -> offset
                 [] pc' = "count" /\ isCursor -> IF token = NoCursor THEN 0 ELSE token.offset
                 [] OTHER -> AtLeast(0, AtLeast(1, startIndex) - 1)
  /\ prevSize' = IF pc' = "count" /\ token # NoCursor THEN token.size ELSE 0
  /\ UNCHANGED <<walkVars, clientVars, readVars, dbVars, faults, now>>

Reading(where) == pc = where /\ UNCHANGED <<walkVars, pageVars, dbVars, now>>

\* Faulty variant: an empty page has a nextCursor, too.
HasNextAlways(n, tot) == offset + n < tot \/ n = 0

\* Faulty variant: the last resource is taken for part of this page.
HasNextEarly(n, tot) == n > 0 /\ offset + n + 1 < tot

HasNext(n, tot) == n > 0 /\ offset + n < tot

\* Faulty variant: previousCursor goes back by the size asked for now.
BackwardByCount(n) == AtLeast(0, offset - count)

\* The page before: by its size, which the cursor carries, or by the count.
Backward(n) ==
  LET step == IF prevSize > 0 THEN prevSize ELSE count
  IN  IF step = 0 THEN 0 ELSE AtLeast(0, offset - step)

NextOffset(n) == offset + n

\* buildListResponse, and the client that reads it.
Answer(resources, tot) ==
  LET n == Len(resources) IN
  /\ page' = resources /\ total' = tot
  /\ seen' = seen \o resources
  /\ trail' = IF trail = <<>> THEN <<offset>> ELSE <<Last(trail), offset>>
  /\ prevOffset' = IF isCursor /\ offset > 0 THEN Backward(n) ELSE -1
  /\ token' = IF isCursor /\ HasNext(n, tot)
              THEN [own |-> TRUE, offset |-> NextOffset(n), size |-> n,
                    exp |-> now + CursorTimeout]
              ELSE NoCursor
  /\ startIndex' = IF isCursor THEN startIndex ELSE AtLeast(1, startIndex) + n
  /\ pc' = "got" /\ fetched' = <<>>

\* Count; for RootSearch, queryUsers with count 0.
CountUsers ==
  /\ Reading("count")
  /\ totUsers' = Cardinality(Users) /\ totGroups' = 0
  /\ IF endpoint = "users" /\ count = 0 THEN Answer(<<>>, Cardinality(Users))
     ELSE /\ pc' = IF endpoint = "users" THEN "list" ELSE "count groups"
          /\ UNCHANGED <<clientVars, fetched>>
  /\ UNCHANGED faults

CountGroups ==
  /\ Reading("count groups")
  /\ totGroups' = Cardinality(Groups) /\ UNCHANGED totUsers
  /\ \/ /\ count = 0
        /\ Answer(<<>>, totUsers + Cardinality(Groups))
     \/ /\ count > 0
        /\ pc' = IF endpoint = "root" /\ offset >= totUsers THEN "list groups" ELSE "list"
        /\ UNCHANGED <<clientVars, fetched>>
  /\ UNCHANGED faults

\* A count fails, or the list of ListUsers: 500, and the client asks again.
StatementFails ==
  /\ \/ Reading("count") \/ Reading("count groups")
     \/ Reading("list") /\ endpoint = "users"
  /\ faults < MaxFaults /\ faults' = faults + 1
  /\ pc' = "ask" /\ fetched' = <<>>
  /\ UNCHANGED <<clientVars, totUsers, totGroups>>

ListUsers ==
  /\ Reading("list") /\ endpoint = "users"
  /\ Answer(Listed(Users, offset, count), totUsers)
  /\ UNCHANGED <<totUsers, totGroups, faults>>

\* Faulty variant: groups fill the page whatever its size.
WantedNoLimit(have) == count

\* How many groups fill a page that has some users.
Wanted(have) == count - have

\* RootSearch without sortBy: users first.  Errors of the two lists are dropped:
\* nothing is read.
ListRootUsers ==
  LET n == AtMost(count, totUsers - offset) IN
  /\ Reading("list") /\ endpoint = "root"
  /\ \E got \in {Listed(Users, offset, n)} \union
                (IF faults < MaxFaults THEN {<<>>} ELSE {}) :
       /\ faults' = IF got = Listed(Users, offset, n) THEN faults ELSE faults + 1
       /\ IF Len(got) < count
          THEN fetched' = got /\ pc' = "list groups" /\ UNCHANGED clientVars
          ELSE Answer(got, totUsers + totGroups)
  /\ UNCHANGED <<totUsers, totGroups>>

\* Faulty variant: the groups start over on every page.
GroupOffsetZero == 0

GroupOffset == offset - totUsers

\* Groups fill the page, or make it up when the users are used up.
ListRootGroups ==
  LET past == offset >= totUsers
      part == IF past THEN Listed(Groups, GroupOffset, count)
              ELSE Listed(Groups, 0, Wanted(Len(fetched)))
  IN
  /\ Reading("list groups") /\ endpoint = "root"
  /\ \E got \in {part} \union (IF faults < MaxFaults THEN {<<>>} ELSE {}) :
       /\ faults' = IF got = part THEN faults ELSE faults + 1
       /\ Answer(fetched \o got, totUsers + totGroups)
  /\ UNCHANGED <<totUsers, totGroups>>

\* RootSearch with sortBy: the first fetchLimit rows of each table, as SQL sorts
\* them, are merged as sortResources sorts them, and the page is cut out of that.
FetchLimit == AtMost(MaxResults, offset + count)

ListSortedUsers ==
  /\ Reading("list") /\ endpoint = "sorted"
  /\ \/ fetched' = Sorted(Foremost(Users, FetchLimit)) /\ UNCHANGED faults
     \/ fetched' = <<>> /\ faults < MaxFaults /\ faults' = faults + 1
  /\ pc' = "list groups"
  /\ UNCHANGED <<clientVars, totUsers, totGroups>>

ListSortedGroups ==
  /\ Reading("list groups") /\ endpoint = "sorted"
  /\ \E got \in {Foremost(Groups, FetchLimit)} \union
                (IF faults < MaxFaults THEN {{}} ELSE {}) :
       LET combined == Sorted(Range(fetched) \union got) IN
       /\ faults' = IF got = Foremost(Groups, FetchLimit) THEN faults ELSE faults + 1
       /\ Answer(SubSeq(combined, offset + 1, AtMost(Len(combined), offset + count)),
                 totUsers + totGroups)
  /\ UNCHANGED <<totUsers, totGroups>>

\* The client: goes on while there is a cursor, or until startIndex is past the
\* total it was told; an empty page ends the walk.
Proceed ==
  /\ pc = "got"
  /\ pc' = IF (IF isCursor THEN token # NoCursor
               ELSE page # <<>> /\ startIndex <= total)
           THEN "ask" ELSE "end"
  /\ UNCHANGED <<walkVars, clientVars, pageVars, readVars, dbVars, faults, now>>
-----------------------------------------------------------------------------
\* Other requests insert and delete rows.
Writes == Cardinality(inserted) + Cardinality(deleted)

RowInserted(x) ==
  /\ pc # "end" /\ Writes < MaxWrites
  /\ x \notin rows \union deleted
  /\ rows' = rows \union {x} /\ inserted' = inserted \union {x}
  /\ UNCHANGED <<walkVars, clientVars, pc, pageVars, readVars, deleted, faults, now>>

RowDeleted(x) ==
  /\ pc # "end" /\ Writes < MaxWrites
  /\ x \in rows
  /\ rows' = rows \ {x} /\ deleted' = deleted \union {x}
  /\ UNCHANGED <<walkVars, clientVars, pc, pageVars, readVars, inserted, faults, now>>

Tick ==
  /\ pc # "end" /\ now < MaxTime /\ now' = now + 1
  /\ UNCHANGED <<walkVars, clientVars, pc, pageVars, readVars, dbVars, faults>>

Walk ==
  \/ Parse \/ CountUsers \/ CountGroups \/ StatementFails \/ ListUsers
  \/ ListRootUsers \/ ListRootGroups \/ ListSortedUsers \/ ListSortedGroups \/ Proceed

WalkOver == pc \in {"end", "refused"} /\ UNCHANGED vars

Next == Walk \/ (\E x \in Row : RowInserted(x) \/ RowDeleted(x)) \/ Tick \/ WalkOver

SafetySpec == Init /\ [][Next]_vars
Spec == SafetySpec /\ WF_vars(Walk)
-----------------------------------------------------------------------------
\* What a complete walk is to yield.
Collection == IF endpoint = "users" THEN SeedRows \intersect UserRow ELSE SeedRows

InOrder ==
  IF endpoint = "root"
  THEN Sorted(Collection \intersect UserRow) \o Sorted(Collection \intersect GroupRow)
  ELSE Sorted(Collection)

\* ORDER BY and sortResources sort the rows of a table alike.  They do not for every
\* sortBy: each has attributes that the other does not know, and a database may
\* collate otherwise than strings.ToLower compares.
SortsAlike ==
  \A S \in {UserRow, GroupRow} : \A x, y \in S : x < y <=> place[x] < place[y]

\* A page never holds more than was asked for, nor more than maxResults, although
\* RootSearch puts it together from two tables whose counts are out of date.
PageBounded == pc = "got" => Len(page) <= count

\* When nothing is written and nothing fails, following the pages to the end
\* yields every resource once and in order, provided that sorted results fit the
\* fetch limit and are sorted alike by the database and by the server.
WalkComplete ==
  pc = "end" /\ count > 0 /\ Writes = 0 /\ faults = 0
    /\ (endpoint = "sorted" => SortsAlike /\ Cardinality(SeedRows) <= MaxResults)
      => seen = InOrder

\* Deletions alone never show a resource twice, whichever statements they fall
\* between, where the database and the server sort alike.
DeletionsNeverRepeat ==
  inserted = {} /\ faults = 0 /\ (endpoint = "sorted" => SortsAlike) =>
    \A i, j \in DOMAIN seen : seen[i] = seen[j] => i = j

\* previousCursor leads back to the page before, even if pages differ in size.
PreviousIsPageBefore ==
  pc = "got" /\ isCursor /\ Len(trail) = 2 => prevOffset = trail[1]

\* The walk ends, although rows keep changing and statements fail now and then.
WalkEnds == <>(pc \in {"end", "refused"})
-----------------------------------------------------------------------------
(* What the proofs need beyond the properties; all of it is proved in       *)
(* PagingProofs.                                                            *)

InPage == {"count", "count groups", "list", "list groups"}

\* What a page that is put together has so far.
PageShape ==
  /\ pc # "list groups" => fetched = <<>>
  /\ endpoint = "users" => pc \notin {"count groups", "list groups"}
  /\ pc = "list" /\ endpoint = "root" => offset < totUsers
  /\ pc = "list groups" /\ endpoint = "root" =>
       Len(fetched) <= count /\ (offset >= totUsers => fetched = <<>>)

\* Where the next page starts.
NextStart ==
  IF ~isCursor THEN AtLeast(1, startIndex) - 1
  ELSE IF token = NoCursor THEN 0 ELSE token.offset

\* What the client holds, against the pages it got.
WalkShape ==
  /\ pc \in InPage => /\ offset = NextStart
                      /\ isCursor => prevSize = IF token = NoCursor THEN 0 ELSE token.size
  /\ Len(trail) <= 2
  /\ isCursor /\ trail = <<>> => token \in {NoCursor, Foreign}
  /\ isCursor /\ trail # <<>> /\ token # NoCursor =>
       token.size > 0 /\ token.offset = Last(trail) + token.size
  /\ isCursor /\ trail = <<>> /\ pc \in InPage => token = NoCursor
  /\ isCursor /\ trail # <<>> /\ pc \in InPage \union {"ask"} => token # NoCursor
  /\ pc = "got" /\ isCursor /\ token = NoCursor => ~HasNext(Len(page), total)
  /\ pc = "got" /\ (isCursor => token # NoCursor) => NextStart = offset + Len(page)

FiniteTables == IsFiniteSet(rows) /\ IsFiniteSet(inserted) /\ IsFiniteSet(deleted)

WalkInv == TypeOK /\ FiniteTables /\ PageShape /\ WalkShape /\ PageBounded /\ PreviousIsPageBefore

\* How far the walk has come.
Reached == IF pc = "got" THEN offset + Len(page) ELSE NextStart

Undisturbed == inserted = {} /\ faults = 0 /\ (endpoint = "sorted" => SortsAlike)

\* The resources in X that are still there lie before place k of what the endpoint
\* lists; a deletion only moves them further to the front.
Placed(X, k) ==
  /\ endpoint # "sorted" => \A x \in X \intersect Users : Before(Users, x) < k
  /\ endpoint = "root" =>
       \A x \in X \intersect Groups : Cardinality(Users) + Before(Groups, x) < k
  /\ endpoint = "sorted" =>
       \A x \in X \intersect rows :
         AtMost(MaxResults, Before(Users, x)) + AtMost(MaxResults, Before(Groups, x)) < k

\* What the client got lies before the next page.
PlacesKept == Undisturbed /\ pc # "end" => Placed(Range(seen), Reached)

\* RootSearch while it reads: the old count of the users stands for a list of
\* which only the groups are still there.
RootPlaces ==
  Undisturbed /\ endpoint = "root" =>
    /\ pc \in {"count groups", "list", "list groups"} =>
         /\ Cardinality(Users) <= totUsers
         /\ \A x \in Range(seen) \intersect Groups : totUsers + Before(Groups, x) < offset
    /\ pc = "list groups" /\ offset < totUsers =>
         /\ Cardinality(Users) <= offset + Len(fetched)
         /\ \A i, j \in DOMAIN fetched : fetched[i] = fetched[j] => i = j
         /\ Range(fetched) \subseteq UserRow \ Range(seen)
         /\ \A x \in Range(fetched) \intersect Users :
              Before(Users, x) < offset + Len(fetched)

\* The same for sorted results: the users are those of an earlier moment.
SortedPlaces ==
  Undisturbed /\ endpoint = "sorted" /\ pc = "list groups" =>
    /\ Range(fetched) \subseteq UserRow
    /\ \A x \in Range(seen) \intersect (Range(fetched) \union Groups) :
         Before(Range(fetched), x) + AtMost(FetchLimit, Before(Groups, x)) < offset
    /\ \A x \in Row : AtMost(FetchLimit, Before(Users, x)) <= Before(Range(fetched), x)

PlacesInv == PlacesKept /\ RootPlaces /\ SortedPlaces /\ DeletionsNeverRepeat

\* Nothing was written, and all rows fit into what is fetched.
Untouched ==
  /\ inserted = {} /\ deleted = {} /\ faults = 0
  /\ endpoint = "sorted" => SortsAlike /\ Cardinality(SeedRows) <= MaxResults

\* The client has the beginning of the collection; counts are right.
Prefix ==
  Untouched =>
    /\ rows = SeedRows
    /\ pc \notin {"end", "refused"} =>
         /\ Len(seen) = Reached /\ Len(seen) <= Len(InOrder)
         /\ \A i \in 1 .. Len(seen) : seen[i] = InOrder[i]
    /\ pc \in InPage \ {"count"} => totUsers = Cardinality(Users)
    /\ pc \in {"list", "list groups"} /\ endpoint # "users" => totGroups = Cardinality(Groups)
    /\ pc = "list groups" /\ endpoint = "root" /\ offset < totUsers =>
         fetched = Listed(Users, offset, totUsers - offset)
    /\ pc = "list groups" /\ endpoint = "sorted" => fetched = Listed(Users, 0, FetchLimit)
    /\ pc = "got" /\ count > 0 =>
         total = Len(InOrder) /\ (page = <<>> => Len(seen) = Len(InOrder))

PrefixInv == Prefix /\ WalkComplete
=============================================================================
