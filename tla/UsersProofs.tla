---------------------------- MODULE UsersProofs ----------------------------
(***************************************************************************)
(* Proofs about Users, for any number of requests, users and names.        *)
(***************************************************************************)
EXTENDS Users, TLAPS

\* The part of the invariant that speaks of the table and its history only.
RowType ==
  /\ present \subseteq issued /\ issued \subseteq UserId
  /\ content \in [UserId -> Content]
  /\ version \in [UserId -> Nat]
  /\ hist \subseteq Entry

RowInv == RowType /\ UniqueNames /\ HistoryShape /\ ETagDeterminesContent

\* The part that speaks of one request.
LocalType(r) ==
  /\ input[r] \in Inputs /\ pc[r] \in PC
  /\ nextContent[r] \in Content /\ readVersion[r] \in Nat
  /\ answer[r] \in Code \union {"none"}

LocalInv(r) == PendingWrite(r) /\ RequestShape(r)

USE DEF vars, rowVars, localVars
-----------------------------------------------------------------------------
(* Operators of UserRequests *)

LEMMA InputsAreRequests == \A q \in Inputs : q \in Request
  BY RequestsAssumption

LEMMA AppliedType ==
  ASSUME NEW q \in Inputs, NEW c \in Content, NEW d \in Display
  PROVE  Applied(q, c, d) \in Content /\ Applied(q, c, d).mgr = d
  BY InputsAreRequests DEF Request, Content, Applied, OrOld

LEMMA NewUserType ==
  ASSUME NEW q \in Inputs, q.op = "create", q.name # Keep, NEW d \in Display
  PROVE  NewUser(q, d) \in Content
  BY InputsAreRequests, RequestsAssumption DEF Request, Content, NewUser
-----------------------------------------------------------------------------
(* The table *)

\* A new row has a fresh id, so its first entry contradicts nothing.
LEMMA InsertKeepsRows ==
  ASSUME RowInv, NEW r \in Req, NEW u \in UserId \ issued, NEW d \in Display,
         input[r] \in Inputs, input[r].op = "create", input[r].name # Keep,
         ~NameUsed(input[r].name), InsertRow(r, u, d)
  PROVE  RowInv' /\ hist \subseteq hist'
<1> DEFINE c == NewUser(input[r], d)
           e == [id |-> u, version |-> 0, content |-> c]
<1>1. c \in Content /\ c.name = input[r].name
  BY NewUserType DEF NewUser
<1>2. /\ present' = present \union {u} /\ issued' = issued \union {u}
      /\ content' = [content EXCEPT ![u] = c]
      /\ version' = [version EXCEPT ![u] = 0]
      /\ hist' = hist \union {e}
  BY DEF InsertRow
<1> HIDE DEF c
<1>3. e \in Entry /\ e.id = u /\ e.version = 0 /\ e.content = c
  BY <1>1 DEF Entry
<1>4. \A x \in hist : x.id # u
  BY DEF RowInv, HistoryShape
<1>5. RowType'
  BY <1>1, <1>2, <1>3 DEF RowInv, RowType
<1>6. UniqueNames'
  BY <1>1, <1>2 DEF RowInv, RowType, UniqueNames, NameUsed
<1>7. HistoryShape'
  <2>1. \A w \in present' : EntryOf(w)' \in hist'
    BY <1>2 DEF RowInv, RowType, HistoryShape, EntryOf
  <2>2. \A x \in hist' : x.id \in issued' /\ x.version <= version'[x.id]
    BY <1>2, <1>3, <1>4 DEF RowInv, RowType, HistoryShape, Entry
  <2> QED
    BY <2>1, <2>2 DEF HistoryShape
<1>8. ETagDeterminesContent'
  BY <1>2, <1>3, <1>4 DEF RowInv, ETagDeterminesContent
<1> QED
  BY <1>2, <1>5, <1>6, <1>7, <1>8 DEF RowInv

\* The row an UPDATE hits is the one its request read: same version, hence
\* same content.
LEMMA WriteHitsWhatWasRead ==
  ASSUME IndInv, NEW r \in Req, pc[r] = "write", RowMatches(r)
  PROVE  /\ input[r].op \in {"replace", "patch"}
         /\ checkETagMatch(input[r].cond, version[input[r].id])
         /\ nextContent[r] =
              Applied(input[r], content[input[r].id], nextContent[r].mgr)
<1> DEFINE u == input[r].id
<1>1. PICK x \in hist : /\ x.id = u /\ x.version = readVersion[r]
                        /\ nextContent[r] = Applied(input[r], x.content, nextContent[r].mgr)
  BY DEF IndInv, PendingWrite
<1>2. /\ u \in present /\ version[u] = readVersion[r]
      /\ EntryOf(u) \in hist
  BY DEF RowMatches, IndInv, HistoryShape
<1>3. EntryOf(u).id = u /\ EntryOf(u).version = version[u] /\ EntryOf(u).content = content[u]
  BY DEF EntryOf
<1>4. x.content = content[u]
  BY <1>1, <1>2, <1>3 DEF IndInv, ETagDeterminesContent
<1>5. input[r].op \in {"replace", "patch"} /\ checkETagMatch(input[r].cond, readVersion[r])
  BY DEF IndInv, PendingWrite
<1> QED
  BY <1>1, <1>2, <1>4, <1>5

\* An UPDATE writes a version that no entry of the row has yet.
LEMMA RowsAfterUpdate ==
  ASSUME RowInv, NEW u \in present, NEW c \in Content, ~NameUsedByOther(c.name, u),
         content' = [content EXCEPT ![u] = c],
         version' = [version EXCEPT ![u] = version[u] + 1],
         hist' = hist \union
                   {[id |-> u, version |-> version[u] + 1, content |-> c]},
         present' = present, issued' = issued
  PROVE  RowInv' /\ hist \subseteq hist'
<1>1. u \in UserId /\ version[u] \in Nat
  BY DEF RowInv, RowType
<1>2. \A x \in hist : x.id \in UserId /\ x.version \in Nat
  BY DEF RowInv, RowType, Entry
<1>3. \A x \in hist : x.id = u => x.version <= version[u]
  BY DEF RowInv, HistoryShape
<1>4. RowType'
  BY <1>1 DEF RowInv, RowType, Entry
<1>5. UniqueNames'
  BY <1>1 DEF RowInv, RowType, UniqueNames, NameUsedByOther
<1>6. HistoryShape'
  <2>1. \A w \in present' : EntryOf(w)' \in hist'
    BY <1>1 DEF EntryOf, RowInv, RowType, HistoryShape
  <2>2. \A x \in hist : x.version <= version'[x.id]
    BY <1>1, <1>2, <1>3 DEF RowInv, RowType, HistoryShape
  <2>3. \A x \in hist' : x.id \in issued' /\ x.version <= version'[x.id]
    BY <1>1, <2>2 DEF RowInv, RowType, HistoryShape
  <2> QED
    BY <2>1, <2>3 DEF HistoryShape
<1>7. ETagDeterminesContent'
  <2>1. \A x \in hist : x.id = u => x.version # version[u] + 1
    BY <1>1, <1>2, <1>3
  <2> QED
    BY <2>1 DEF RowInv, ETagDeterminesContent
<1> QED
  BY <1>4, <1>5, <1>6, <1>7 DEF RowInv

LEMMA UpdateKeepsRows ==
  ASSUME RowInv, NEW r \in Req, input[r] \in Inputs, nextContent[r] \in Content,
         readVersion[r] \in Nat, UpdateRow(r)
  PROVE  RowInv' /\ hist \subseteq hist'
  BY RowsAfterUpdate DEF UpdateRow, RowMatches

\* Removing a row leaves every entry valid: its id stays issued.
LEMMA DeleteKeepsRows ==
  ASSUME RowInv, NEW r \in Req, DeleteRow(r)
  PROVE  RowInv' /\ hist \subseteq hist'
  BY DEF DeleteRow, RowInv, RowType, UniqueNames, HistoryShape, EntryOf,
         ETagDeterminesContent

LEMMA QuietKeepsRows ==
  ASSUME RowInv, UNCHANGED rowVars
  PROVE  RowInv' /\ hist \subseteq hist'
  BY DEF RowInv, RowType, UniqueNames, HistoryShape, EntryOf, ETagDeterminesContent
-----------------------------------------------------------------------------
(* The requests *)

\* A request keeps its invariant while others move: history only grows.
LEMMA BystanderKept ==
  ASSUME NEW w \in Req, LocalInv(w), hist \subseteq hist', input' = input,
         pc'[w] = pc[w], nextContent'[w] = nextContent[w],
         readVersion'[w] = readVersion[w], answer'[w] = answer[w]
  PROVE  LocalInv(w)'
  BY DEF LocalInv, PendingWrite, RequestShape

\* One request moved, within its types, and kept its own invariant.
LEMMA Assemble ==
  ASSUME IndInv, NEW r \in Req, RowInv', hist \subseteq hist',
         input' = input, links' \subseteq UserId,
         NEW p \in PC, pc' = [pc EXCEPT ![r] = p],
         NEW a \in Code \union {"none"}, answer' = [answer EXCEPT ![r] = a],
         NEW c \in Content, nextContent' = [nextContent EXCEPT ![r] = c],
         NEW v \in Nat, readVersion' = [readVersion EXCEPT ![r] = v],
         LocalInv(r)'
  PROVE  IndInv'
<1>1. TypeOK'
  BY DEF IndInv, TypeOK, RowInv, RowType
<1>2. \A w \in Req : LocalInv(w)'
  <2> SUFFICES ASSUME NEW w \in Req, w # r PROVE LocalInv(w)'
    OBVIOUS
  <2>1. pc'[w] = pc[w] /\ nextContent'[w] = nextContent[w]
        /\ readVersion'[w] = readVersion[w] /\ answer'[w] = answer[w]
    BY DEF IndInv, TypeOK
  <2>2. LocalInv(w)
    BY DEF IndInv, LocalInv
  <2> QED
    BY <2>1, <2>2, BystanderKept
<1> QED
  BY <1>1, <1>2 DEF IndInv, RowInv, LocalInv

\* The common case: the request is answered.
LEMMA Answered ==
  ASSUME IndInv, NEW r \in Req, RowInv', hist \subseteq hist', input' = input,
         links' \subseteq UserId, UNCHANGED localVars,
         NEW code \in Code, Respond(r, code)
  PROVE  IndInv'
<1>1. nextContent' = [nextContent EXCEPT ![r] = nextContent[r]]
      /\ readVersion' = [readVersion EXCEPT ![r] = readVersion[r]]
      /\ nextContent[r] \in Content /\ readVersion[r] \in Nat
  BY DEF IndInv, TypeOK
<1>2. pc'[r] = "done"
  BY DEF Respond, IndInv, TypeOK
<1>3. LocalInv(r)'
  BY <1>2 DEF LocalInv, PendingWrite, RequestShape
<1>4. "done" \in PC
  BY DEF PC
<1> QED
  BY <1>1, <1>3, <1>4, Assemble DEF Respond

\* The request moves on to another statement, with what it knows unchanged.
LEMMA Moved ==
  ASSUME IndInv, NEW r \in Req, UNCHANGED rowVars, input' = input,
         links' \subseteq UserId, UNCHANGED localVars,
         NEW p \in PC, Goto(r, p),
         LocalInv(r)'
  PROVE  IndInv'
<1>1. nextContent' = [nextContent EXCEPT ![r] = nextContent[r]]
      /\ readVersion' = [readVersion EXCEPT ![r] = readVersion[r]]
      /\ answer' = [answer EXCEPT ![r] = answer[r]]
      /\ nextContent[r] \in Content /\ readVersion[r] \in Nat
      /\ answer[r] \in Code \union {"none"}
  BY DEF IndInv, TypeOK, Goto
<1>2. RowInv
  BY DEF IndInv, RowInv, RowType, TypeOK
<1> QED
  BY <1>1, <1>2, QuietKeepsRows, Assemble DEF Goto

\* The request loads the row it found and will go on to check or write.
LEMMA Loaded ==
  ASSUME IndInv, NEW r \in Req, UNCHANGED rowVars, input' = input, links' = links,
         NEW d \in Display, Load(r, d), NEW p \in {"name", "write"}, Goto(r, p),
         pc[r] = "find", input[r].op \in {"replace", "patch"},
         input[r].id \in present, IfMatchHolds(r),
         p = "name" => input[r].name # Keep
  PROVE  IndInv'
<1> DEFINE u == input[r].id
           c == Applied(input[r], content[u], d)
<1>1. /\ input[r] \in Inputs /\ u \in UserId /\ content[u] \in Content
      /\ version[u] \in Nat /\ EntryOf(u) \in hist /\ answer[r] = "none"
  BY DEF IndInv, TypeOK, HistoryShape, RequestShape
<1>2. c \in Content /\ c.mgr = d
  BY <1>1, AppliedType
<1>3. /\ nextContent' = [nextContent EXCEPT ![r] = c]
      /\ readVersion' = [readVersion EXCEPT ![r] = version[u]]
      /\ nextContent'[r] = c /\ readVersion'[r] = version[u]
      /\ pc' = [pc EXCEPT ![r] = p] /\ pc'[r] = p /\ p \in PC
      /\ answer' = [answer EXCEPT ![r] = answer[r]] /\ answer'[r] = "none"
  BY <1>1 DEF Load, Goto, IndInv, TypeOK, PC
<1>4. EntryOf(u).id = u /\ EntryOf(u).version = version[u] /\ EntryOf(u).content = content[u]
  BY DEF EntryOf
<1>5. PendingWrite(r)'
  <2>1. c = Applied(input[r], EntryOf(u).content, c.mgr)
    BY <1>2, <1>4
  <2>2. checkETagMatch(input[r].cond, version[u])
    BY DEF IfMatchHolds
  <2> QED
    BY <1>1, <1>3, <1>4, <2>1, <2>2 DEF PendingWrite
<1>6. RequestShape(r)'
  BY <1>3 DEF RequestShape
<1>7. RowInv'  /\ hist \subseteq hist'
  BY QuietKeepsRows DEF IndInv, RowInv, RowType, TypeOK
<1>8. links' \subseteq UserId
  BY DEF IndInv, TypeOK
<1> QED
  BY <1>1, <1>2, <1>3, <1>5, <1>6, <1>7, <1>8, Assemble DEF LocalInv
-----------------------------------------------------------------------------
(* The actions *)

LEMMA Facts ==
  ASSUME IndInv, NEW r \in Req
  PROVE  /\ RowInv /\ LocalInv(r) /\ LocalType(r)
         /\ links \subseteq UserId
  BY DEF IndInv, TypeOK, RowInv, RowType, LocalInv, LocalType

LEMMA InitEstablishes == Init => IndInv
<1> SUFFICES ASSUME Init PROVE IndInv
  OBVIOUS
<1>1. \A r \in Req : input[r] \in Inputs /\ input[r].id \in UserId
  <2>1. \A q \in Inputs : q.id \in UserId
    BY InputsAreRequests DEF Request
  <2> QED
    BY <2>1 DEF Init
<1>2. TypeOK
  <2>1. hist \subseteq Entry
    BY SeedAssumption DEF Init, Entry
  <2> QED
    BY <1>1, <2>1, SeedAssumption DEF Init, TypeOK, PC
<1>3. UniqueNames
  BY SeedAssumption DEF Init, UniqueNames
<1>4. HistoryShape
  BY SeedAssumption DEF Init, HistoryShape, EntryOf
<1>5. ETagDeterminesContent
  BY SeedAssumption DEF Init, ETagDeterminesContent
<1>6. \A r \in Req : PendingWrite(r) /\ RequestShape(r)
  BY DEF Init, PendingWrite, RequestShape
<1> QED
  BY <1>2, <1>3, <1>4, <1>5, <1>6 DEF IndInv

LEMMA CreateKeeps ==
  ASSUME IndInv, NEW r \in Req, Create(r)
  PROVE  IndInv'
<1> USE Facts
<1>0. {"400", "409", "201", "500"} \subseteq Code
  BY DEF Code
<1>1. CASE RejectNameless(r)
  BY <1>0, <1>1, Answered, QuietKeepsRows DEF RejectNameless, At
<1>2. CASE CheckNewName(r)
  <2>1. CASE Goto(r, "insert")
    <3>1. pc'[r] = "insert" /\ answer' = answer /\ input' = input
          /\ input[r].op = "create" /\ input[r].name # Keep /\ answer[r] = "none"
      BY <1>2, <2>1 DEF CheckNewName, At, Goto, LocalInv, RequestShape, IndInv, TypeOK
    <3>2. LocalInv(r)'
      BY <3>1 DEF LocalInv, PendingWrite, RequestShape
    <3>3. "insert" \in PC
      BY DEF PC
    <3> QED
      BY <1>2, <2>1, <3>2, <3>3, Moved DEF CheckNewName, At
  <2>2. CASE Respond(r, "409") \/ Respond(r, "400")
    BY <1>0, <1>2, <2>2, Answered, QuietKeepsRows DEF CheckNewName, At
  <2> QED
    BY <1>2, <2>1, <2>2 DEF CheckNewName
<1>3. CASE InsertUser(r) \/ InsertError(r)
  <2>1. /\ input[r] \in Inputs /\ input[r].op = "create" /\ input[r].name # Keep
        /\ input' = input /\ UNCHANGED localVars /\ links' = links
    BY <1>3 DEF InsertUser, InsertError, At, LocalInv, LocalType, RequestShape
  <2>2. RowInv' /\ hist \subseteq hist'
    <3>1. CASE UNCHANGED rowVars
      BY <3>1, QuietKeepsRows
    <3>2. CASE ~NameUsed(input[r].name)
                 /\ \E u \in UserId \ issued, d \in Display : InsertRow(r, u, d)
      BY <2>1, <3>2, InsertKeepsRows
    <3> QED
      BY <1>3, <3>1, <3>2 DEF InsertUser, InsertError
  <2>3. \E code \in Code : Respond(r, code)
    BY <1>0, <1>3 DEF InsertUser, InsertError
  <2> QED
    BY <2>1, <2>2, <2>3, Answered
<1> QED
  BY <1>1, <1>2, <1>3 DEF Create

LEMMA FindKeeps ==
  ASSUME IndInv, NEW r \in Req, Find(r)
  PROVE  IndInv'
<1> USE Facts
<1>0. {"404", "412", "304", "200", "400"} \subseteq Code
  BY DEF Code
<1>1. CASE FindNothing(r) \/ FindMismatch(r) \/ GetUser(r)
  BY <1>0, <1>1, Answered, QuietKeepsRows DEF FindNothing, FindMismatch, GetUser, At
<1>2. CASE FindForReplace(r)
  <2>1. CASE Respond(r, "400") /\ UNCHANGED localVars
    BY <1>0, <1>2, <2>1, Answered, QuietKeepsRows DEF FindForReplace, At
  <2>2. CASE NameChanges(r) /\ (\E d \in Display : Load(r, d)) /\ Goto(r, "name")
    BY <1>2, <2>2, Loaded DEF FindForReplace, At, NameChanges
  <2>3. CASE (\E d \in Display : Load(r, d)) /\ Goto(r, "write")
    BY <1>2, <2>3, Loaded DEF FindForReplace, At
  <2> QED
    BY <1>2, <2>1, <2>2, <2>3 DEF FindForReplace
<1>3. CASE FindForPatch(r)
  <2>1. CASE (Respond(r, "400") \/ Respond(r, "200")) /\ UNCHANGED localVars
    BY <1>0, <1>3, <2>1, Answered, QuietKeepsRows DEF FindForPatch, At
  <2>2. CASE NameChanges(r) /\ (\E d \in Display : Load(r, d)) /\ Goto(r, "name")
    BY <1>3, <2>2, Loaded DEF FindForPatch, At, NameChanges
  <2>3. CASE (\E d \in Display : Load(r, d)) /\ Goto(r, "write")
    BY <1>3, <2>3, Loaded DEF FindForPatch, At
  <2> QED
    BY <1>3, <2>1, <2>2, <2>3 DEF FindForPatch
<1>4. CASE FindForDelete(r)
  <2>1. pc'[r] = "unlink" /\ answer' = answer /\ input' = input
        /\ input[r].op = "delete" /\ answer[r] = "none"
    BY <1>4 DEF FindForDelete, At, Goto, LocalInv, RequestShape, IndInv, TypeOK
  <2>2. LocalInv(r)' /\ "unlink" \in PC
    BY <2>1 DEF LocalInv, PendingWrite, RequestShape, PC
  <2> QED
    BY <1>4, <2>2, Moved DEF FindForDelete, At
<1> QED
  BY <1>1, <1>2, <1>3, <1>4 DEF Find

LEMMA FinishKeeps ==
  ASSUME IndInv, NEW r \in Req, Finish(r)
  PROVE  IndInv'
<1> USE Facts
<1>0. {"409", "400", "500", "200", "412", "204"} \subseteq Code
  BY DEF Code
<1>1. CASE CheckChangedName(r)
  <2>1. CASE Goto(r, "write")
    <3>1. pc'[r] = "write" /\ pc[r] = "name" /\ answer' = answer
          /\ input' = input /\ answer[r] = "none" /\ UNCHANGED <<rowVars, localVars>>
      BY <1>1, <2>1 DEF CheckChangedName, At, Goto, LocalInv, RequestShape, IndInv, TypeOK
    <3>2. LocalInv(r)' /\ "write" \in PC
      BY <3>1 DEF LocalInv, PendingWrite, RequestShape, PC
    <3> QED
      BY <1>1, <2>1, <3>2, Moved DEF CheckChangedName, At
  <2>2. CASE Respond(r, "409") \/ Respond(r, "400")
    BY <1>0, <1>1, <2>2, Answered, QuietKeepsRows DEF CheckChangedName, At
  <2> QED
    BY <1>1, <2>1, <2>2 DEF CheckChangedName
<1>2. CASE CheckNameError(r)
  BY <1>0, <1>2, Answered, QuietKeepsRows DEF CheckNameError
<1>3. CASE WriteUser(r) \/ WriteError(r)
  <2>1. /\ input[r] \in Inputs /\ nextContent[r] \in Content /\ readVersion[r] \in Nat
        /\ input' = input /\ UNCHANGED localVars /\ links' = links
    BY <1>3 DEF WriteUser, WriteError, At, LocalType
  <2>2. RowInv' /\ hist \subseteq hist'
    BY <1>3, <2>1, UpdateKeepsRows, QuietKeepsRows DEF WriteUser, WriteError
  <2>3. \E code \in Code : Respond(r, code)
    BY <1>0, <1>3 DEF WriteUser, WriteError
  <2> QED
    BY <2>1, <2>2, <2>3, Answered
<1>4. CASE UnlinkUser(r)
  <2>1. pc'[r] = "remove" /\ answer' = answer /\ input' = input
        /\ input[r].op = "delete" /\ answer[r] = "none" /\ links' \subseteq UserId
    BY <1>4 DEF UnlinkUser, At, Goto, LocalInv, RequestShape, IndInv, TypeOK
  <2>2. LocalInv(r)' /\ "remove" \in PC
    BY <2>1 DEF LocalInv, PendingWrite, RequestShape, PC
  <2> QED
    BY <1>4, <2>1, <2>2, Moved DEF UnlinkUser, At
<1>5. CASE RemoveUser(r) \/ RemoveError(r)
  <2>1. RowInv' /\ hist \subseteq hist'
    BY <1>5, DeleteKeepsRows, QuietKeepsRows DEF RemoveUser, RemoveError
  <2>2. \E code \in Code : Respond(r, code)
    BY <1>0, <1>5 DEF RemoveUser, RemoveError
  <2> QED
    BY <1>5, <2>1, <2>2, Answered DEF RemoveUser, RemoveError, At
<1> QED
  BY <1>1, <1>2, <1>3, <1>4, <1>5 DEF Finish

\* The invariant survives every step, stuttering included.
LEMMA StepKeeps == IndInv /\ [Next]_vars => IndInv'
<1> SUFFICES ASSUME IndInv, [Next]_vars PROVE IndInv'
  OBVIOUS
<1>1. CASE UNCHANGED vars
  BY <1>1 DEF IndInv, TypeOK, UniqueNames, HistoryShape, EntryOf,
              ETagDeterminesContent, PendingWrite, RequestShape
<1>2. CASE \E r \in Req : Create(r) \/ Find(r) \/ Finish(r)
  BY <1>2, CreateKeeps, FindKeeps, FinishKeeps
<1> QED
  BY <1>1, <1>2 DEF Next, AllAnswered

\* The inductive invariant holds of every behaviour of the Users endpoint.
THEOREM Invariance == Spec => []IndInv
  BY InitEstablishes, StepKeeps, PTL DEF Spec

\* Every variable keeps its type, whatever the requests do.
THEOREM TypeCorrect == Spec => []TypeOK
  BY Invariance, PTL DEF IndInv

\* A version names one content of a user's row, for any number of racing requests.
THEOREM ETagsAreSound == Spec => []ETagDeterminesContent
  BY Invariance, PTL DEF IndInv

\* A request that is not at its UPDATE leaves every content as it is, unless it
\* creates a user.
LEMMA OnlyWritesChangeContent ==
  ASSUME IndInv, NEW r \in Req, Create(r) \/ Find(r) \/ Finish(r), content' # content
  PROVE  \/ input[r].op = "create"
         \/ pc[r] = "write" /\ UpdateRow(r) /\ input' = input
<1>1. CASE Create(r)
  BY <1>1 DEF Create, RejectNameless, CheckNewName, InsertUser, InsertError, At,
              IndInv, RequestShape
<1>2. CASE Find(r)
  BY <1>2 DEF Find, FindNothing, FindMismatch, GetUser, FindForReplace,
              FindForPatch, FindForDelete
<1>3. CASE Finish(r)
  BY <1>3 DEF Finish, CheckChangedName, CheckNameError, WriteUser, WriteError,
              UnlinkUser, RemoveUser, RemoveError, DeleteRow, At
<1> QED
  BY <1>1, <1>2, <1>3

\* Only the request that moves is answered.
LEMMA OneAnswers ==
  ASSUME IndInv, NEW r \in Req, NEW w \in Req, Create(r) \/ Find(r) \/ Finish(r),
         answer'[w] # answer[w]
  PROVE  w = r
<1>1. \/ UNCHANGED answer
      \/ \E code \in Code : answer' = [answer EXCEPT ![r] = code]
  <2>1. CASE Create(r)
    BY <2>1 DEF Create, RejectNameless, CheckNewName, InsertUser, InsertError,
                Goto, Respond, Code
  <2>2. CASE Find(r)
    BY <2>2 DEF Find, FindNothing, FindMismatch, GetUser, FindForReplace,
                FindForPatch, FindForDelete, Goto, Respond, Code
  <2>3. CASE Finish(r)
    BY <2>3 DEF Finish, CheckChangedName, CheckNameError, WriteUser, WriteError,
                UnlinkUser, RemoveUser, RemoveError, Goto, Respond, Code
  <2> QED
    BY <2>1, <2>2, <2>3
<1> QED
  BY <1>1 DEF IndInv, TypeOK

\* The effect of an UPDATE, seen from the row as it was just before.
LEMMA UpdateIsCurrent ==
  ASSUME IndInv, NEW r \in Req, pc[r] = "write", UpdateRow(r)
  PROVE  LET q == input[r] IN
         /\ q.id \in present
         /\ content'[q.id] = nextContent[r]
         /\ content'[q.id] = Applied(q, content[q.id], content'[q.id].mgr)
         /\ version'[q.id] = version[q.id] + 1
         /\ checkETagMatch(q.cond, version[q.id])
         /\ q.op \in {"replace", "patch"}
<1>1. /\ RowMatches(r) /\ input[r].id \in UserId
      /\ content' = [content EXCEPT ![input[r].id] = nextContent[r]]
      /\ version' = [version EXCEPT ![input[r].id] = version[input[r].id] + 1]
      /\ input[r].id \in present
  BY DEF UpdateRow, RowMatches, IndInv, TypeOK
<1>2. /\ content'[input[r].id] = nextContent[r]
      /\ version'[input[r].id] = version[input[r].id] + 1
  BY <1>1 DEF IndInv, TypeOK
<1> QED
  BY <1>1, <1>2, WriteHitsWhatWasRead

\* No update is lost: every PUT and PATCH changes the row as it is at that very
\* moment, at a version its If-Match allows.
THEOREM NoLostUpdate == Spec => UpdatesApplyToCurrent
<1> DEFINE A == \A r \in Req : LET q == input[r] IN
       q.op \in {"replace", "patch"} /\ answer'[r] # answer[r] /\ content' # content =>
         /\ content'[q.id] = Applied(q, content[q.id], content'[q.id].mgr)
         /\ version'[q.id] = version[q.id] + 1
         /\ checkETagMatch(q.cond, version[q.id])
<1>1. IndInv /\ [Next]_vars => A
  <2> SUFFICES ASSUME IndInv, [Next]_vars, NEW r \in Req,
                      input[r].op \in {"replace", "patch"},
                      answer'[r] # answer[r], content' # content
               PROVE  LET q == input[r] IN
                      /\ content'[q.id] = Applied(q, content[q.id], content'[q.id].mgr)
                      /\ version'[q.id] = version[q.id] + 1
                      /\ checkETagMatch(q.cond, version[q.id])
    OBVIOUS
  <2>1. PICK w \in Req : Create(w) \/ Find(w) \/ Finish(w)
    BY DEF Next, AllAnswered
  <2>2. w = r
    BY <2>1, OneAnswers
  <2>3. pc[r] = "write" /\ UpdateRow(r)
    BY <2>1, <2>2, OnlyWritesChangeContent
  <2> QED
    BY <2>3, UpdateIsCurrent
<1>2. IndInv /\ [Next]_vars => [A]_vars
  BY <1>1
<1> QED
  BY Invariance, <1>2, PTL DEF Spec, UpdatesApplyToCurrent
-----------------------------------------------------------------------------
(* Users implements UserStore *)

StoreStep == [Store!StoreNext]_(Store!storeVars)

\* UserStore speaks of requests in the same words.
LEMMA SameWords ==
  ASSUME NEW q, NEW c, NEW d, NEW h, NEW v, NEW x
  PROVE  /\ Store!OrOld(x, c) = OrOld(x, c)
         /\ Store!Applied(q, c, d) = Applied(q, c, d)
         /\ Store!NewUser(q, d) = NewUser(q, d)
         /\ Store!NoHeader = NoHeader
         /\ Store!checkETagMatch(h, v) = checkETagMatch(h, v)
  BY DEF Store!OrOld, OrOld, Store!Applied, Applied, Store!NewUser, NewUser,
         Store!NoHeader, NoHeader, Store!checkETagMatch, checkETagMatch

\* The request moves on without an answer and without touching a row.
LEMMA InvisibleStep ==
  ASSUME UNCHANGED rowVars, input' = input, answer' = answer
  PROVE  StoreStep
  BY DEF StoreStep, Store!storeVars

LEMMA AnswerIsSaid ==
  ASSUME IndInv, NEW r \in Req, pc[r] # "done", input' = input,
         NEW code, Respond(r, code)
  PROVE  Store!Says(r, code)
  BY DEF IndInv, RequestShape, Respond, Store!Says

\* Refusals that promise nothing.
LEMMA RefusalRefines ==
  ASSUME IndInv, NEW r \in Req, pc[r] # "done", input' = input, UNCHANGED rowVars,
         NEW code \in {"400", "404", "412", "500"}, Respond(r, code)
  PROVE  StoreStep
<1>1. Store!LeaveAlone(r)
  BY AnswerIsSaid DEF Store!LeaveAlone
<1> QED
  BY <1>1 DEF StoreStep, Store!StoreNext

LEMMA ConflictRefines ==
  ASSUME IndInv, NEW r \in Req, pc[r] # "done", input' = input, UNCHANGED rowVars,
         Respond(r, "409"), NameUsed(input[r].name)
  PROVE  StoreStep
<1>1. Store!LeaveAlone(r)
  BY AnswerIsSaid DEF Store!LeaveAlone, Store!NameUsed, NameUsed
<1> QED
  BY <1>1 DEF StoreStep, Store!StoreNext

LEMMA CreateRefines ==
  ASSUME IndInv, NEW r \in Req, Create(r)
  PROVE  StoreStep
<1>1. CASE RejectNameless(r)
  BY <1>1, RefusalRefines DEF RejectNameless, At
<1>2. CASE CheckNewName(r)
  BY <1>2, RefusalRefines, ConflictRefines, InvisibleStep DEF CheckNewName, At, Goto
<1>3. CASE InsertUser(r) \/ InsertError(r)
  <2>1. pc[r] = "insert" /\ input' = input /\ input[r].op = "create"
    BY <1>3 DEF InsertUser, InsertError, At, IndInv, RequestShape
  <2>2. CASE UNCHANGED rowVars
    BY <1>3, <2>1, <2>2, RefusalRefines, ConflictRefines
    DEF InsertUser, InsertError, InsertRow
  <2>3. CASE /\ ~NameUsed(input[r].name)
             /\ \E u \in UserId \ issued, d \in Display : InsertRow(r, u, d)
             /\ \E code \in {"201", "500"} : Respond(r, code)
    <3>1. \E code \in {"201", "500"} : Store!Says(r, code)
      BY <2>1, <2>3, AnswerIsSaid
    <3>2. ~Store!NameUsed(input[r].name)
      BY <2>3 DEF Store!NameUsed, NameUsed
    <3>3. PICK u \in UserId \ issued, d \in Display : InsertRow(r, u, d)
      BY <2>3
    <3>4. /\ present' = present \union {u} /\ issued' = issued \union {u}
          /\ content' = [content EXCEPT ![u] = Store!NewUser(input[r], d)]
          /\ version' = [version EXCEPT ![u] = 0]
      BY <3>3, SameWords DEF InsertRow
    <3>5. Store!CreateNow(r)
      BY <2>1, <3>1, <3>2, <3>4 DEF Store!CreateNow
    <3> QED
      BY <3>5 DEF StoreStep, Store!StoreNext
  <2> QED
    BY <1>3, <2>2, <2>3 DEF InsertUser, InsertError
<1> QED
  BY <1>1, <1>2, <1>3 DEF Create

LEMMA FindRefines ==
  ASSUME IndInv, NEW r \in Req, Find(r)
  PROVE  StoreStep
<1>1. pc[r] = "find" /\ input' = input /\ UNCHANGED rowVars
  BY DEF Find, FindNothing, FindMismatch, GetUser, FindForReplace, FindForPatch,
         FindForDelete, At
<1>2. CASE FindNothing(r) \/ FindMismatch(r)
  BY <1>1, <1>2, RefusalRefines DEF FindNothing, FindMismatch
<1>3. CASE GetUser(r)
  <2>1. Store!LeaveAlone(r)
    BY <1>1, <1>3, AnswerIsSaid, SameWords DEF GetUser, Store!LeaveAlone
  <2> QED
    BY <2>1 DEF StoreStep, Store!StoreNext
<1>4. CASE FindForReplace(r)
  BY <1>1, <1>4, RefusalRefines, InvisibleStep DEF FindForReplace, Goto
<1>5. CASE FindForPatch(r)
  <2>1. CASE Respond(r, "400") \/ UNCHANGED answer
    BY <1>1, <2>1, RefusalRefines, InvisibleStep
  <2>2. CASE /\ Respond(r, "200")
             /\ \E d \in Display : content[input[r].id]
                                     = Applied(input[r], content[input[r].id], d)
    <3>1. Store!LeaveAlone(r)
      BY <1>1, <1>5, <2>2, AnswerIsSaid, SameWords
      DEF FindForPatch, IfMatchHolds, Store!LeaveAlone
    <3> QED
      BY <3>1 DEF StoreStep, Store!StoreNext
  <2> QED
    BY <1>5, <2>1, <2>2 DEF FindForPatch, Goto, ScimUserMutableEqual
<1>6. CASE FindForDelete(r)
  BY <1>1, <1>6, InvisibleStep DEF FindForDelete, Goto
<1> QED
  BY <1>2, <1>3, <1>4, <1>5, <1>6 DEF Find

\* A name that an UPDATE finds taken is one the request asked for: the row's
\* own name is unique.
LEMMA ClashIsAskedFor ==
  ASSUME IndInv, NEW r \in Req, pc[r] = "write", RowMatches(r),
         NameUsedByOther(nextContent[r].name, input[r].id)
  PROVE  NameUsed(input[r].name)
<1> DEFINE u == input[r].id
<1>1. nextContent[r] = Applied(input[r], content[u], nextContent[r].mgr) /\ u \in present
  BY WriteHitsWhatWasRead DEF RowMatches
<1>2. nextContent[r].name = OrOld(input[r].name, content[u].name)
  BY <1>1 DEF Applied
<1>3. CASE input[r].name = Keep
  BY <1>1, <1>2, <1>3 DEF OrOld, NameUsedByOther, IndInv, UniqueNames
<1>4. CASE input[r].name # Keep
  BY <1>2, <1>4 DEF OrOld, NameUsedByOther, NameUsed
<1> QED
  BY <1>3, <1>4

LEMMA WriteRefines ==
  ASSUME IndInv, NEW r \in Req, WriteUser(r) \/ WriteError(r)
  PROVE  StoreStep
<1>1. pc[r] = "write" /\ input' = input
  BY DEF WriteUser, WriteError, At
<1>2. CASE UNCHANGED rowVars /\ ~UpdateRow(r)
  BY <1>1, <1>2, RefusalRefines, ConflictRefines, ClashIsAskedFor
  DEF WriteUser, WriteError
<1>3. CASE UpdateRow(r)
  <2> DEFINE q == input[r]
             d == nextContent[r].mgr
  <2>1. RowMatches(r) /\ q.id \in UserId /\ d \in Display
    <3>1. RowMatches(r)
      BY <1>3 DEF UpdateRow
    <3>2. nextContent[r] \in Content
      BY DEF IndInv, TypeOK
    <3>3. q.id \in UserId
      BY <3>1 DEF RowMatches, IndInv, TypeOK
    <3> QED
      BY <3>1, <3>2, <3>3 DEF Content
  <2>2. /\ q.id \in present /\ q.op \in {"replace", "patch"}
        /\ checkETagMatch(q.cond, version[q.id])
        /\ nextContent[r] = Applied(q, content[q.id], d)
    BY <1>1, <2>1, WriteHitsWhatWasRead DEF RowMatches
  <2>3. /\ content' = [content EXCEPT ![q.id] = Applied(q, content[q.id], d)]
        /\ version' = [version EXCEPT ![q.id] = version[q.id] + 1]
        /\ UNCHANGED <<present, issued>>
        /\ ~NameUsedByOther(nextContent[r].name, q.id)
    BY <1>3, <2>2 DEF UpdateRow, RowMatches
  <2>4. nextContent[r].name = OrOld(q.name, content[q.id].name)
    BY <2>2 DEF Applied
  <2>5. ~Store!NameUsedByOther(OrOld(q.name, content[q.id].name), q.id)
    BY <2>3, <2>4 DEF NameUsedByOther, Store!NameUsedByOther
  <2>6. CASE \E code \in {"200", "500"} : Respond(r, code)
    <3>1. \E code \in {"200", "500"} : Store!Says(r, code)
      BY <1>1, <2>6, AnswerIsSaid
    <3> HIDE DEF d
    <3>2. Store!UpdateNow(r)
      BY <2>1, <2>2, <2>3, <2>5, <3>1, SameWords DEF Store!UpdateNow
    <3> QED
      BY <3>2 DEF StoreStep, Store!StoreNext
  <2>7. CASE ~\E code \in {"200", "500"} : Respond(r, code)
    BY <1>3, <2>1, <2>7 DEF WriteUser, WriteError, UpdateRow
  <2> QED
    BY <2>6, <2>7
<1> QED
  BY <1>2, <1>3 DEF WriteUser, WriteError

LEMMA FinishRefines ==
  ASSUME IndInv, NEW r \in Req, Finish(r)
  PROVE  StoreStep
<1>1. CASE CheckChangedName(r)
  <2>1. nextContent[r].name = input[r].name
    <3>1. pc[r] = "name" /\ input[r].name # Keep
      BY <1>1 DEF CheckChangedName, At, IndInv, RequestShape
    <3>2. PICK x \in hist :
            nextContent[r] = Applied(input[r], x.content, nextContent[r].mgr)
      BY <3>1 DEF IndInv, PendingWrite
    <3> QED
      BY <3>1, <3>2 DEF Applied, OrOld
  <2> QED
    BY <1>1, <2>1, RefusalRefines, ConflictRefines, InvisibleStep
    DEF CheckChangedName, At, Goto
<1>2. CASE CheckNameError(r)
  BY <1>2, RefusalRefines DEF CheckNameError
<1>3. CASE WriteUser(r) \/ WriteError(r)
  BY <1>3, WriteRefines
<1>4. CASE UnlinkUser(r)
  BY <1>4, InvisibleStep DEF UnlinkUser, At, Goto
<1>5. CASE RemoveUser(r) \/ RemoveError(r)
  <2>1. pc[r] = "remove" /\ input' = input /\ input[r].op = "delete"
    BY <1>5 DEF RemoveUser, RemoveError, At, IndInv, RequestShape
  <2>2. CASE DeleteRow(r)
    <3>1. \E code \in {"204", "500"} : Store!Says(r, code)
      BY <1>5, <2>1, AnswerIsSaid DEF RemoveUser, RemoveError
    <3>2. Store!DeleteNow(r)
      BY <2>1, <2>2, <3>1 DEF DeleteRow, Store!DeleteNow
    <3> QED
      BY <3>2 DEF StoreStep, Store!StoreNext
  <2>3. CASE UNCHANGED rowVars /\ Respond(r, "500")
    BY <2>1, <2>3, RefusalRefines
  <2> QED
    BY <1>5, <2>2, <2>3 DEF RemoveUser, RemoveError
<1> QED
  BY <1>1, <1>2, <1>3, <1>4, <1>5 DEF Finish

\* Statement by statement, the Users endpoint does what UserStore does in single
\* steps: every request takes effect at most once, on the current row, and no
\* answer lies.
THEOREM Refinement == Spec => ImplementsStore
<1>1. Init => Store!StoreInit
  BY DEF Init, Store!StoreInit
<1>2. IndInv /\ [Next]_vars => StoreStep
  <2> SUFFICES ASSUME IndInv, [Next]_vars PROVE StoreStep
    OBVIOUS
  <2>1. CASE UNCHANGED vars
    BY <2>1, InvisibleStep
  <2>2. CASE \E r \in Req : Create(r) \/ Find(r) \/ Finish(r)
    BY <2>2, CreateRefines, FindRefines, FinishRefines
  <2> QED
    BY <2>1, <2>2 DEF Next, AllAnswered
<1> QED
  BY Invariance, <1>1, <1>2, PTL DEF Spec, ImplementsStore, Store!StoreSpec, StoreStep
=============================================================================
