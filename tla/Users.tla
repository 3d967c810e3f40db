------------------------------- MODULE Users -------------------------------
(***************************************************************************)
(* The Users endpoint: handler/user.go over repository/user.go.  Each      *)
(* request is a sequence of auto-committed SQL statements, without a       *)
(* transaction around them, and each statement is one step here: whatever  *)
(* a request read may be out of date when it writes.  Conflicts are caught *)
(* by the version column and by the unique index on user names.            *)
(*                                                                         *)
(* A failing statement may have taken effect all the same when the request *)
(* was cancelled while it committed.  resolveManagerMetadata reads another *)
(* user and may find anything, so its result is a free choice; the         *)
(* trailing touchWorkspace only stamps the workspaces table.               *)
(***************************************************************************)
EXTENDS UserRequests, FiniteSets

CONSTANTS
  Seed,   \* users that exist at the start
  Start   \* their content

ASSUME SeedAssumption ==
  /\ Seed \subseteq UserId
  /\ Start \in [UserId -> Content]
  /\ \A u, w \in Seed : Start[u].name = Start[w].name => u = w

VARIABLES
  present,      \* ids with a row in scim_users
  issued,       \* ids that ever had one; uuid.New never repeats
  content,      \* the columns of each row
  version,      \* the column version
  links,        \* users listed in scim_group_memberships
  hist,         \* history: every content ever committed, with its version
  input,        \* what each request asks for
  pc,           \* the statement a request is about to run
  nextContent,  \* the ScimUser a request is about to write
  readVersion,  \* the version it read
  answer        \* the HTTP status it was answered with

rowVars == <<present, issued, content, version, hist>>
localVars == <<nextContent, readVersion>>
vars == <<rowVars, links, input, pc, localVars, answer>>

Code == {"200", "201", "204", "304", "400", "404", "409", "412", "500"}
PC == {"find", "exists", "insert", "name", "write", "unlink", "remove", "done"}
Entry == [id : UserId, version : Nat, content : Content]

EntryOf(u) == [id |-> u, version |-> version[u], content |-> content[u]]

TypeOK ==
  /\ present \subseteq issued /\ issued \subseteq UserId
  /\ content \in [UserId -> Content]
  /\ version \in [UserId -> Nat]
  /\ links \subseteq UserId
  /\ hist \subseteq Entry
  /\ input \in [Req -> Inputs]
  /\ pc \in [Req -> PC]
  /\ nextContent \in [Req -> Content]
  /\ readVersion \in [Req -> Nat]
  /\ answer \in [Req -> Code \union {"none"}]

Init ==
  /\ present = Seed /\ issued = Seed
  /\ content = Start
  /\ version = [u \in UserId |-> 0]
  /\ links = Seed
  /\ hist = {[id |-> u, version |-> 0, content |-> Start[u]] : u \in Seed}
  /\ input \in [Req -> Inputs]
  /\ pc = [r \in Req |-> IF input[r].op = "create" THEN "exists" ELSE "find"]
  /\ nextContent = [r \in Req |-> Start[input[r].id]]
  /\ readVersion = [r \in Req |-> 0]
  /\ answer = [r \in Req |-> "none"]

NameUsed(n) == \E u \in present : content[u].name = n
NameUsedByOther(n, u) == \E w \in present \ {u} : content[w].name = n

At(r, where) == pc[r] = where /\ UNCHANGED input
Goto(r, where) == pc' = [pc EXCEPT ![r] = where] /\ UNCHANGED answer
Respond(r, code) ==
  /\ pc' = [pc EXCEPT ![r] = "done"]
  /\ answer' = [answer EXCEPT ![r] = code]
-----------------------------------------------------------------------------
(* executeCreateUser *)

\* CreateUser refuses a body without userName before it asks the database.
RejectNameless(r) ==
  /\ At(r, "exists")
  /\ input[r].name = Keep
  /\ Respond(r, "400")
  /\ UNCHANGED <<rowVars, links, localVars>>

\* ExistsByUserNameAndWorkspaceID, then ApplyFromScimInput.
CheckNewName(r) ==
  LET q == input[r]
  IN /\ At(r, "exists")
     /\ q.name # Keep
     /\ \/ NameUsed(q.name) /\ Respond(r, "409")
        \/ ~NameUsed(q.name) /\ ~q.valid /\ Respond(r, "400")
        \/ ~NameUsed(q.name) /\ q.valid /\ Goto(r, "insert")
     /\ UNCHANGED <<rowVars, links, localVars>>

\* The row Create inserts, at version 0.
InsertRow(r, u, d) ==
  /\ present' = present \union {u} /\ issued' = issued \union {u}
  /\ content' = [content EXCEPT ![u] = NewUser(input[r], d)]
  /\ version' = [version EXCEPT ![u] = 0]
  /\ hist' = hist \union
               {[id |-> u, version |-> 0, content |-> NewUser(input[r], d)]}

\* INSERT; the unique index turns a name taken meanwhile into a 409.
InsertUser(r) ==
  /\ At(r, "insert")
  /\ \/ /\ NameUsed(input[r].name)
        /\ Respond(r, "409")
        /\ UNCHANGED rowVars
     \/ /\ ~NameUsed(input[r].name)
        /\ \E u \in UserId \ issued, d \in Display : InsertRow(r, u, d)
        /\ Respond(r, "201")
  /\ UNCHANGED <<links, localVars>>

\* Any other error of the INSERT is a 500; the row may be there.
InsertError(r) ==
  /\ At(r, "insert")
  /\ \/ UNCHANGED rowVars
     \/ /\ ~NameUsed(input[r].name)
        /\ \E u \in UserId \ issued, d \in Display : InsertRow(r, u, d)
  /\ Respond(r, "500")
  /\ UNCHANGED <<links, localVars>>
-----------------------------------------------------------------------------
(* FindByIDAndWorkspaceID and the checks on what it returned *)

\* Faulty variant: PATCH does not look at If-Match.
MatchUnlessPatch(r) ==
  input[r].op = "patch" \/ checkETagMatch(input[r].cond, version[input[r].id])

IfMatchHolds(r) == checkETagMatch(input[r].cond, version[input[r].id])

\* No such row; a failed read is reported in the same words.
FindNothing(r) ==
  /\ At(r, "find")
  /\ Respond(r, "404")
  /\ UNCHANGED <<rowVars, links, localVars>>

FindMismatch(r) ==
  /\ At(r, "find")
  /\ input[r].id \in present /\ input[r].op # "get"
  /\ ~IfMatchHolds(r)
  /\ Respond(r, "412")
  /\ UNCHANGED <<rowVars, links, localVars>>

\* GetUser: 304 when If-None-Match names the current version.
GetUser(r) ==
  LET q == input[r]
  IN /\ At(r, "find")
     /\ q.op = "get" /\ q.id \in present
     /\ IF q.cond # NoHeader /\ checkETagMatch(q.cond, version[q.id])
          THEN Respond(r, "304")
          ELSE Respond(r, "200")
     /\ UNCHANGED <<rowVars, links, localVars>>

\* Faulty variant: the comparison forgets all columns but one.
SameName(a, b) == a.name = b.name

ScimUserMutableEqual(a, b) == a = b

\* The user struct as read, with the request's changes applied to it.
Load(r, d) ==
  LET u == input[r].id
  IN /\ nextContent' = [nextContent EXCEPT ![r] = Applied(input[r], content[u], d)]
     /\ readVersion' = [readVersion EXCEPT ![r] = version[u]]

NameChanges(r) == input[r].name \notin {Keep, content[input[r].id].name}

\* executeReplaceUser up to the uniqueness check; a body that the mapper
\* rejects is only noticed after that check.
FindForReplace(r) ==
  /\ At(r, "find")
  /\ input[r].op = "replace" /\ input[r].id \in present /\ IfMatchHolds(r)
  /\ \/ /\ NameChanges(r)
        /\ \E d \in Display : Load(r, d)
        /\ Goto(r, "name")
     \/ /\ ~NameChanges(r) /\ input[r].valid
        /\ \E d \in Display : Load(r, d)
        /\ Goto(r, "write")
     \/ /\ ~NameChanges(r) /\ ~input[r].valid
        /\ Respond(r, "400")
        /\ UNCHANGED localVars
  /\ UNCHANGED <<rowVars, links>>

\* executePatchUser: a patch that changes nothing is answered without a write.
FindForPatch(r) ==
  LET c == content[input[r].id]
  IN /\ At(r, "find")
     /\ input[r].op = "patch" /\ input[r].id \in present /\ IfMatchHolds(r)
     /\ \/ /\ ~input[r].valid
           /\ Respond(r, "400")
           /\ UNCHANGED localVars
        \/ /\ input[r].valid
           /\ \E d \in Display :
                IF ScimUserMutableEqual(c, Applied(input[r], c, d))
                THEN Respond(r, "200") /\ UNCHANGED localVars
                ELSE /\ Load(r, d)
                     /\ Goto(r, IF NameChanges(r) THEN "name" ELSE "write")
     /\ UNCHANGED <<rowVars, links>>

FindForDelete(r) ==
  /\ At(r, "find")
  /\ input[r].op = "delete" /\ input[r].id \in present /\ IfMatchHolds(r)
  /\ Goto(r, "unlink")
  /\ UNCHANGED <<rowVars, links, localVars>>
-----------------------------------------------------------------------------
(* The second half of PUT and PATCH *)

\* ExistsByUserNameAndWorkspaceID for the new name.
CheckChangedName(r) ==
  /\ At(r, "name")
  /\ \/ NameUsed(nextContent[r].name) /\ Respond(r, "409")
     \/ ~NameUsed(nextContent[r].name) /\ ~input[r].valid /\ Respond(r, "400")
     \/ ~NameUsed(nextContent[r].name) /\ input[r].valid /\ Goto(r, "write")
  /\ UNCHANGED <<rowVars, links, localVars>>

\* A failed uniqueness query.
CheckNameError(r) ==
  /\ pc[r] \in {"exists", "name"} /\ UNCHANGED input
  /\ input[r].name # Keep
  /\ Respond(r, "500")
  /\ UNCHANGED <<rowVars, links, localVars>>

\* Faulty variant: WHERE id = $37 without the version.
RowPresent(r) == input[r].id \in present

\* WHERE id = $37 AND version = $38
RowMatches(r) ==
  input[r].id \in present /\ version[input[r].id] = readVersion[r]

\* UPDATE; the index refuses a name that somebody else took meanwhile.
UpdateRow(r) ==
  LET u == input[r].id
  IN /\ RowMatches(r)
     /\ ~NameUsedByOther(nextContent[r].name, u)
     /\ content' = [content EXCEPT ![u] = nextContent[r]]
     /\ version' = [version EXCEPT ![u] = readVersion[r] + 1]
     /\ hist' = hist \union {[id |-> u, version |-> readVersion[r] + 1,
                              content |-> nextContent[r]]}
     /\ UNCHANGED <<present, issued>>

WriteUser(r) ==
  /\ At(r, "write")
  /\ \/ UpdateRow(r) /\ Respond(r, "200")
     \/ ~RowMatches(r) /\ Respond(r, "412") /\ UNCHANGED rowVars
     \/ /\ RowMatches(r) /\ NameUsedByOther(nextContent[r].name, input[r].id)
        /\ Respond(r, "409")
        /\ UNCHANGED rowVars
  /\ UNCHANGED <<links, localVars>>

WriteError(r) ==
  /\ At(r, "write")
  /\ UpdateRow(r) \/ UNCHANGED rowVars
  /\ Respond(r, "500")
  /\ UNCHANGED <<links, localVars>>
-----------------------------------------------------------------------------
(* The second half of executeDeleteUser *)

\* DeleteByMemberValue; an error is logged and the deletion goes on.
UnlinkUser(r) ==
  /\ At(r, "unlink")
  /\ links' \in {links, links \ {input[r].id}}
  /\ Goto(r, "remove")
  /\ UNCHANGED <<rowVars, localVars>>

\* DELETE WHERE id = $1 AND workspace_id = $2: no version, and no complaint
\* when the row is already gone.
DeleteRow(r) ==
  /\ present' = present \ {input[r].id}
  /\ UNCHANGED <<issued, content, version, hist>>

RemoveUser(r) ==
  /\ At(r, "remove")
  /\ DeleteRow(r)
  /\ Respond(r, "204")
  /\ UNCHANGED <<links, localVars>>

RemoveError(r) ==
  /\ At(r, "remove")
  /\ DeleteRow(r) \/ UNCHANGED rowVars
  /\ Respond(r, "500")
  /\ UNCHANGED <<links, localVars>>
-----------------------------------------------------------------------------
Create(r) == RejectNameless(r) \/ CheckNewName(r) \/ InsertUser(r) \/ InsertError(r)

Find(r) == FindNothing(r) \/ FindMismatch(r) \/ GetUser(r) \/ FindForReplace(r)
             \/ FindForPatch(r) \/ FindForDelete(r)

Finish(r) == CheckChangedName(r) \/ CheckNameError(r) \/ WriteUser(r)
               \/ WriteError(r) \/ UnlinkUser(r) \/ RemoveUser(r) \/ RemoveError(r)

\* Every request has been answered: nothing is left to happen.
AllAnswered == (\A r \in Req : pc[r] = "done") /\ UNCHANGED vars

Next == (\E r \in Req : Create(r) \/ Find(r) \/ Finish(r)) \/ AllAnswered

Spec == Init /\ [][Next]_vars
-----------------------------------------------------------------------------
(* Properties *)

\* A version names one content of the row: its columns never had two contents at the
\* same version, over all races of updates, deletions and writes that took effect
\* although they reported an error.  If-Match rests on it, and so does the version
\* column of the UPDATE.  The response of GetUser also lists the user's groups, which
\* come from another table and move no version: of those the ETag says nothing.
ETagDeterminesContent ==
  \A x, y \in hist : x.id = y.id /\ x.version = y.version => x.content = y.content

\* No lost update: whenever a PUT or PATCH changes a row, it changes the row as
\* it is now (not the one it read some statements ago), keeps whatever it does
\* not mention, raises the version by one, and the client's If-Match names the
\* version that is overwritten.
UpdatesApplyToCurrent ==
  [][\A r \in Req : LET q == input[r] IN
       q.op \in {"replace", "patch"} /\ answer'[r] # answer[r] /\ content' # content =>
         /\ content'[q.id] = Applied(q, content[q.id], content'[q.id].mgr)
         /\ version'[q.id] = version[q.id] + 1
         /\ checkETagMatch(q.cond, version[q.id])]_vars

\* "checkETagMatch evaluates an If-Match ... header against the resource
\* version": a conditional DELETE only removes a version its header names.  The
\* DELETE statement does not repeat the check.
DeleteHonoursIfMatch ==
  [][\A r \in Req : LET q == input[r] IN
       answer[r] = "none" /\ answer'[r] = "204" /\ q.id \in present =>
         checkETagMatch(q.cond, version[q.id])]_vars

Store == INSTANCE UserStore

\* The interleaved statements implement requests that run alone: each takes
\* effect at most once and atomically, and its answer tells the truth.
ImplementsStore == Store!StoreSpec
-----------------------------------------------------------------------------
(* The inductive invariant behind them, proved in UsersProofs. *)

\* The index: no two rows share a name.
UniqueNames ==
  \A u, w \in present : content[u].name = content[w].name => u = w

\* A row is the newest entry of its id, and ids without a past are unused.
HistoryShape ==
  /\ \A u \in present : EntryOf(u) \in hist
  /\ \A x \in hist : x.id \in issued /\ x.version <= version[x.id]

\* What a request is about to write derives from the content that had the
\* version it read, and that version passed If-Match.
PendingWrite(r) ==
  pc[r] \in {"name", "write"} =>
    /\ input[r].op \in {"replace", "patch"}
    /\ checkETagMatch(input[r].cond, readVersion[r])
    /\ \E x \in hist : /\ x.id = input[r].id /\ x.version = readVersion[r]
                       /\ nextContent[r] = Applied(input[r], x.content, nextContent[r].mgr)

\* Which requests are where.
RequestShape(r) ==
  /\ pc[r] \in {"exists", "insert"} => input[r].op = "create"
  /\ pc[r] = "insert" => input[r].name # Keep
  /\ pc[r] = "name" => input[r].name # Keep
  /\ pc[r] \in {"unlink", "remove"} => input[r].op = "delete"
  /\ pc[r] # "done" => answer[r] = "none"

IndInv ==
  /\ TypeOK
  /\ UniqueNames
  /\ HistoryShape
  /\ ETagDeterminesContent
  /\ \A r \in Req : PendingWrite(r) /\ RequestShape(r)
=============================================================================
