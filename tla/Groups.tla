------------------------------- MODULE Groups -------------------------------
(***************************************************************************)
(* The Groups endpoint: handler/group.go over repository/group.go, with    *)
(* the deletion of users as far as it touches memberships.                 *)
(*                                                                         *)
(* POST, PUT and PATCH run in one READ COMMITTED transaction each          *)
(* (jdbc.InTransaction); DELETE runs its statements one by one.  Every SQL *)
(* statement is a step.  A transaction's own inserts and deletes are       *)
(* visible to it alone until it commits; a row it deleted or a group row   *)
(* it wrote makes other writers of that row wait.  A DELETE first collects *)
(* the rows it can see, then waits for their locks, and skips those that   *)
(* are gone by then.                                                       *)
(*                                                                         *)
(* The schema is not part of the repository.  The only constraint assumed  *)
(* is the unique index on group names; any further one can only make a     *)
(* statement fail, and every statement may fail here anyway.               *)
(***************************************************************************)
EXTENDS Naturals, FiniteSets

CONSTANTS
  Req,       \* requests; each is sent once
  GroupId, UserId,
  Name,      \* displayNames; externalId is written along with them, unchecked
  Keep,      \* "this request does not mention the name"
  Nobody,    \* no transaction; also the writer of the initial rows
  Inputs,    \* the requests clients may send
  SeedGroups, SeedUsers, SeedNames, SeedMembers

MemberId == GroupId \union UserId

\* PATCH comes as add, overwrite (op replace) and remove on members, and
\* rename; a remove without members empties the group.
PatchOp == {"add", "overwrite", "remove", "rename"}
Op == {"create", "replace", "delete", "deleteUser"} \union PatchOp

\* The versions an If-Match header names; {} stands for none given, or "*".
Request == [op : Op, id : MemberId, name : Name \union {Keep},
            members : SUBSET MemberId, valid : BOOLEAN, tags : SUBSET Nat]

\* A row of scim_group_memberships; by tells rows of equal content apart.
Row == [by : Req \union {Nobody}, grp : GroupId, mem : MemberId]

ASSUME GroupsAssumption ==
  /\ GroupId \intersect UserId = {}
  /\ Nobody \notin Req /\ Name # {} /\ Keep \notin Name
  /\ Inputs \subseteq Request
  /\ \A q \in Inputs :
       /\ q.op = "deleteUser" => q.id \in UserId
       /\ q.op # "deleteUser" => q.id \in GroupId
       /\ q.op \in {"create", "replace", "rename"} => q.name # Keep
       /\ q.op \in {"add", "overwrite", "remove"} => q.name = Keep
  /\ SeedGroups \subseteq GroupId /\ SeedUsers \subseteq UserId
  /\ SeedNames \in [GroupId -> Name]
  /\ \A g, h \in SeedGroups : SeedNames[g] = SeedNames[h] => g = h
  /\ SeedMembers \subseteq {x \in Row : x.by = Nobody /\ x.grp \in SeedGroups}

VARIABLES
  groups, gissued,    \* group ids with a row, and ids ever used
  gname, gversion,    \* columns of scim_groups
  rows,               \* committed membership rows
  users,              \* ids with a row in scim_users
  lock,               \* the transaction with an uncommitted write to a group row
  ins, del,           \* membership rows a transaction inserted, deleted
  input, pc,
  target,             \* rows a running DELETE has collected
  todo,               \* members still to be added, or removed one by one
  adding,             \* the member that was looked up and comes next
  before,             \* members a PATCH loaded first
  gid,                \* the group a request works on
  readName, readVersion, \* name and version of the group as it was loaded
  newName,            \* the name it is to have
  answer,
  hist                \* history: names committed for a group, with the version

tableVars == <<groups, gissued, gname, gversion, users, hist>>
txVars == <<lock, ins, del>>
localVars == <<target, todo, adding, before, gid, readName, newName, readVersion>>
vars == <<tableVars, rows, txVars, input, pc, localVars, answer>>

Code == {"200", "201", "204", "400", "404", "409", "412", "500"}

\* Statements inside a transaction, and outside of one.
TxPC == {"insert group", "load", "name", "clear", "clearing", "add", "insert",
         "reload", "update", "commit"}
AutoPC == {"unlink", "unlinking", "empty", "emptying", "remove"}
PC == {"find", "done"} \union TxPC \union AutoPC

TypeOK ==
  /\ groups \subseteq gissued /\ gissued \subseteq GroupId
  /\ gname \in [GroupId -> Name]
  /\ gversion \in [GroupId -> Nat]
  /\ rows \subseteq Row
  /\ users \subseteq UserId
  /\ lock \in [GroupId -> Req \union {Nobody}]
  /\ ins \in [Req -> SUBSET Row]
  /\ del \in [Req -> SUBSET Row]
  /\ input \in [Req -> Inputs]
  /\ pc \in [Req -> PC]
  /\ target \in [Req -> SUBSET Row]
  /\ todo \in [Req -> SUBSET MemberId]
  /\ adding \in [Req -> MemberId]
  /\ before \in [Req -> SUBSET Row]
  /\ gid \in [Req -> MemberId]
  /\ readName \in [Req -> Name] /\ newName \in [Req -> Name]
  /\ readVersion \in [Req -> Nat]
  /\ answer \in [Req -> Code \union {"none"}]
  /\ hist \subseteq [grp : GroupId, version : Nat, name : Name]

Init ==
  /\ groups = SeedGroups /\ gissued = SeedGroups
  /\ gname = SeedNames
  /\ gversion = [g \in GroupId |-> 0]
  /\ rows = SeedMembers
  /\ users = SeedUsers
  /\ lock = [g \in GroupId |-> Nobody]
  /\ ins = [r \in Req |-> {}] /\ del = [r \in Req |-> {}]
  /\ input \in [Req -> Inputs]
  /\ pc = [r \in Req |-> "find"]
  /\ target = [r \in Req |-> {}] /\ todo = [r \in Req |-> {}]
  /\ before = [r \in Req |-> {}]
  /\ gid = [r \in Req |-> input[r].id] /\ adding = gid
  /\ readName = [r \in Req |-> CHOOSE n \in Name : TRUE] /\ newName = readName
  /\ readVersion = [r \in Req |-> 0]
  /\ answer = [r \in Req |-> "none"]
  /\ hist = {[grp |-> g, version |-> 0, name |-> SeedNames[g]] : g \in SeedGroups}
-----------------------------------------------------------------------------
checkETagMatch(tags, v) == tags = {} \/ v \in tags

\* What transaction r sees, and its group's members in it.
Visible(r) == (rows \union ins[r]) \ del[r]
RowsOf(S, g) == {x \in S : x.grp = g}
MembersOf(S, g) == {x.mem : x \in RowsOf(S, g)}

At(r, where) == pc[r] = where /\ UNCHANGED input
Goto(r, where) == pc' = [pc EXCEPT ![r] = where] /\ UNCHANGED answer
Respond(r, code) ==
  /\ pc' = [pc EXCEPT ![r] = "done"]
  /\ answer' = [answer EXCEPT ![r] = code]

\* Faulty variant: the connection goes back to the pool with the transaction open.
RollbackForgotten(r, code) ==
  /\ Respond(r, code)
  /\ UNCHANGED <<tableVars, rows, txVars, localVars>>

\* ROLLBACK: nothing of the transaction remains.
Rollback(r, code) ==
  /\ Respond(r, code)
  /\ ins' = [ins EXCEPT ![r] = {}] /\ del' = [del EXCEPT ![r] = {}]
  /\ lock' = [g \in GroupId |-> IF lock[g] = r THEN Nobody ELSE lock[g]]
  /\ UNCHANGED <<tableVars, rows, localVars>>

InTx(r) ==
  pc[r] \in TxPC \/ (pc[r] = "find" /\ input[r].op \notin {"delete", "deleteUser"})

\* BEGIN or a later statement fails: a broken connection, an expired context, a
\* constraint of the schema.  For the lookup of a member that is a 404 instead.
Fail(r) ==
  /\ InTx(r) /\ ~(pc[r] = "add" /\ todo[r] # {})
  /\ UNCHANGED input
  /\ Rollback(r, "500")

\* The body turns out to be malformed, which is noticed at various places.
Refuse(r) ==
  /\ InTx(r) /\ pc[r] \in {"find", "name", "clear", "add"} /\ ~input[r].valid
  /\ UNCHANGED input
  /\ Rollback(r, "400")

\* Another committed row, or one about to be committed, has the name.
NameTaken(n, g) == \E h \in groups \ {g} : gname[h] = n
NamePending(n, r) ==
  \E h \in GroupId : lock[h] \notin {Nobody, r} /\ newName[lock[h]] = n
-----------------------------------------------------------------------------
(* FindBy...Tx and the checks on what it returned *)

IfMatchHolds(r) == checkETagMatch(input[r].tags, gversion[input[r].id])

\* No such row; a failed read is reported in the same words.
FindNothing(r) ==
  /\ At(r, "find") /\ input[r].op # "create"
  /\ Respond(r, "404")
  /\ UNCHANGED <<tableVars, rows, txVars, localVars>>

FindMismatch(r) ==
  /\ At(r, "find") /\ input[r].op \notin {"create", "deleteUser"}
  /\ input[r].id \in groups /\ ~IfMatchHolds(r)
  /\ Respond(r, "412")
  /\ UNCHANGED <<tableVars, rows, txVars, localVars>>

\* executeCreateGroup: FindByDisplayNameAndWorkspaceIDTx.
FindForCreate(r) ==
  /\ At(r, "find") /\ input[r].op = "create"
  /\ \/ NameTaken(input[r].name, Nobody) /\ Respond(r, "409") /\ UNCHANGED newName
     \/ /\ ~NameTaken(input[r].name, Nobody)
        /\ newName' = [newName EXCEPT ![r] = input[r].name]
        /\ Goto(r, "insert group")
  /\ UNCHANGED <<tableVars, rows, txVars, target, todo, adding, before, gid, readName,
                 readVersion>>

\* executeReplaceGroup and executePatchGroup load the group.
FindForUpdate(r) ==
  LET g == input[r].id
  IN /\ At(r, "find") /\ input[r].op \in PatchOp \union {"replace"}
     /\ g \in groups /\ IfMatchHolds(r)
     /\ readName' = [readName EXCEPT ![r] = gname[g]]
     /\ newName' = [newName EXCEPT ![r] = gname[g]]
     /\ readVersion' = [readVersion EXCEPT ![r] = gversion[g]]
     /\ Goto(r, IF input[r].op = "replace" THEN "name" ELSE "load")
     /\ UNCHANGED <<tableVars, rows, txVars, target, todo, adding, before, gid>>

\* executeDeleteGroup and executeDeleteUser.
FindForDelete(r) ==
  /\ At(r, "find")
  /\ \/ input[r].op = "delete" /\ input[r].id \in groups /\ IfMatchHolds(r)
     \/ input[r].op = "deleteUser" /\ input[r].id \in users
  /\ Goto(r, "unlink")
  /\ UNCHANGED <<tableVars, rows, txVars, localVars>>
-----------------------------------------------------------------------------
(* Statements of a transaction *)

\* CreateTx under a new id; waits while another transaction holds the name.
InsertGroup(r) ==
  /\ At(r, "insert group")
  /\ ~NamePending(newName[r], r)
  /\ \/ NameTaken(newName[r], Nobody) /\ Rollback(r, "409")
     \/ /\ ~NameTaken(newName[r], Nobody)
        /\ \E g \in GroupId \ gissued :
             /\ gissued' = gissued \union {g}
             /\ lock' = [lock EXCEPT ![g] = r]
             /\ gid' = [gid EXCEPT ![r] = g]
        /\ todo' = [todo EXCEPT ![r] = input[r].members]
        /\ Goto(r, "add")
        /\ UNCHANGED <<groups, gname, gversion, users, hist, rows, ins, del, target,
                       adding, before, readName, newName, readVersion>>

\* executePatchGroup loads the members; an add skips those it has just seen.
LoadMembers(r) ==
  LET q == input[r]
  IN /\ At(r, "load")
     /\ before' = [before EXCEPT ![r] = RowsOf(rows, gid[r])]
     /\ todo' = [todo EXCEPT ![r] =
          IF q.op = "add" THEN q.members \ MembersOf(rows, gid[r]) ELSE q.members]
     /\ Goto(r, CASE q.op = "add" -> "add"
                  [] q.op = "rename" -> "name"
                  [] OTHER -> "clear")
     /\ UNCHANGED <<tableVars, rows, txVars, target, adding, gid, readName, newName,
                    readVersion>>

\* The uniqueness check of executeReplaceGroup and updateDisplayNameTx.
CheckName(r) ==
  LET q == input[r]
      taken == q.name # readName[r] /\ NameTaken(q.name, gid[r])
  IN /\ At(r, "name")
     /\ \/ taken /\ Rollback(r, "409")
        \/ /\ ~taken
           /\ newName' = [newName EXCEPT ![r] = q.name]
           /\ Goto(r, IF q.op = "replace" THEN "clear" ELSE "reload")
           /\ UNCHANGED <<tableVars, rows, txVars, target, todo, adding, before, gid,
                          readName, readVersion>>

\* A remove that lists members deletes them one by one, in the client's order.
Named(r) == input[r].op = "remove" /\ input[r].members # {}

\* DeleteByGroupIDTx or DeleteByGroupIDAndMemberValuesTx collects its rows ...
ClearMembers(r) ==
  LET mine == RowsOf(Visible(r), gid[r])
  IN /\ At(r, "clear")
     /\ \/ /\ ~Named(r)
           /\ target' = [target EXCEPT ![r] = mine]
           /\ UNCHANGED todo
        \/ /\ Named(r)
           /\ \E m \in todo[r] :
                /\ target' = [target EXCEPT ![r] = {x \in mine : x.mem = m}]
                /\ todo' = [todo EXCEPT ![r] = todo[r] \ {m}]
     /\ Goto(r, "clearing")
     /\ UNCHANGED <<tableVars, rows, txVars, adding, before, gid, readName, newName,
                    readVersion>>

\* Who has an uncommitted delete of a row that r is about to delete.
Blockers(r) == {w \in Req \ {r} : del[w] \intersect target[r] # {}}

\* ... and deletes those that are still there.
ClearedMembers(r) ==
  /\ At(r, "clearing") /\ Blockers(r) = {}
  /\ del' = [del EXCEPT ![r] = del[r] \union (target[r] \intersect rows)]
  /\ target' = [target EXCEPT ![r] = {}]
  /\ \/ /\ input[r].op = "remove"
        /\ Goto(r, IF todo[r] = {} THEN "reload" ELSE "clear")
        /\ UNCHANGED todo
     \/ /\ input[r].op # "remove"
        /\ todo' = [todo EXCEPT ![r] = input[r].members]
        /\ Goto(r, "add")
  /\ UNCHANGED <<tableVars, rows, lock, ins, adding, before, gid, readName,
                 newName, readVersion>>

\* addMemberTx looks the member up.
FindMember(r) ==
  /\ At(r, "add")
  /\ \E m \in todo[r] \intersect (users \union groups) :
       adding' = [adding EXCEPT ![r] = m]
  /\ Goto(r, "insert")
  /\ UNCHANGED <<tableVars, rows, txVars, target, todo, before, gid, readName,
                 newName, readVersion>>

\* Not there, or the lookup failed.
FindNoMember(r) == At(r, "add") /\ todo[r] # {} /\ Rollback(r, "404")

\* Faulty variant: group and member are swapped in the INSERT.
NewRowSwapped(r) == [by |-> r, grp |-> adding[r], mem |-> gid[r]]

NewRow(r) == [by |-> r, grp |-> gid[r], mem |-> adding[r]]

\* Faulty variant: the row goes through the pool instead of the transaction.
InsertMemberOutside(r) ==
  /\ At(r, "insert")
  /\ rows' = rows \union {NewRow(r)}
  /\ todo' = [todo EXCEPT ![r] = todo[r] \ {adding[r]}]
  /\ Goto(r, "add")
  /\ UNCHANGED <<tableVars, txVars, target, adding, before, gid, readName,
                 newName, readVersion>>

\* CreateBatchTx.
InsertMember(r) ==
  /\ At(r, "insert")
  /\ ins' = [ins EXCEPT ![r] = ins[r] \union {NewRow(r)}]
  /\ todo' = [todo EXCEPT ![r] = todo[r] \ {adding[r]}]
  /\ Goto(r, "add")
  /\ UNCHANGED <<tableVars, rows, lock, del, target, adding, before, gid, readName,
                 newName, readVersion>>

\* The last member was added.
AddedMembers(r) ==
  /\ At(r, "add") /\ todo[r] = {}
  /\ Goto(r, CASE input[r].op = "create" -> "commit"
               [] input[r].op = "replace" -> "update"
               [] OTHER -> "reload")
  /\ UNCHANGED <<tableVars, rows, txVars, localVars>>

\* How often each member occurs among rows S.
groupMembersEqual(S, T) ==
  \A m \in MemberId :
    Cardinality({x \in S : x.mem = m}) = Cardinality({x \in T : x.mem = m})

\* executePatchGroup compares with what it loaded; equal means no UPDATE.
ReloadMembers(r) ==
  LET changed == \/ newName[r] # readName[r]
                 \/ ~groupMembersEqual(before[r], RowsOf(Visible(r), gid[r]))
  IN /\ At(r, "reload")
     /\ Goto(r, IF changed THEN "update" ELSE "commit")
     /\ UNCHANGED <<tableVars, rows, txVars, localVars>>

\* Faulty variant: WHERE id = $5 without the version.
RowPresent(r) == gid[r] \in groups

\* WHERE id = $5 AND version = $6
RowMatches(r) == gid[r] \in groups /\ gversion[gid[r]] = readVersion[r]

\* Faulty variant: RowsAffected is not looked at.
UpdateGroupUnchecked(r) ==
  /\ At(r, "update")
  /\ lock[gid[r]] = Nobody /\ ~NamePending(newName[r], r)
  /\ \/ RowMatches(r) /\ NameTaken(newName[r], gid[r]) /\ Rollback(r, "409")
     \/ /\ ~(RowMatches(r) /\ NameTaken(newName[r], gid[r]))
        /\ lock' = IF RowMatches(r) THEN [lock EXCEPT ![gid[r]] = r] ELSE lock
        /\ Goto(r, "commit")
        /\ UNCHANGED <<tableVars, rows, ins, del, localVars>>

\* UpdateTx; waits for the row lock and for a name that is being taken.
UpdateGroup(r) ==
  /\ At(r, "update")
  /\ lock[gid[r]] = Nobody /\ ~NamePending(newName[r], r)
  /\ \/ ~RowMatches(r) /\ Rollback(r, "412")
     \/ RowMatches(r) /\ NameTaken(newName[r], gid[r]) /\ Rollback(r, "409")
     \/ /\ RowMatches(r) /\ ~NameTaken(newName[r], gid[r])
        /\ lock' = [lock EXCEPT ![gid[r]] = r]
        /\ Goto(r, "commit")
        /\ UNCHANGED <<tableVars, rows, ins, del, localVars>>

\* COMMIT makes everything the transaction did visible at once.
Publish(r) ==
  LET g == gid[r]
      v == IF input[r].op = "create" THEN 0 ELSE readVersion[r] + 1
  IN /\ rows' = (rows \ del[r]) \union ins[r]
     /\ ins' = [ins EXCEPT ![r] = {}] /\ del' = [del EXCEPT ![r] = {}]
     /\ IF lock[g] = r
        THEN /\ groups' = groups \union {g}
             /\ gname' = [gname EXCEPT ![g] = newName[r]]
             /\ gversion' = [gversion EXCEPT ![g] = v]
             /\ hist' = hist \union {[grp |-> g, version |-> v, name |-> newName[r]]}
             /\ lock' = [lock EXCEPT ![g] = Nobody]
        ELSE UNCHANGED <<groups, gname, gversion, hist, lock>>
     /\ UNCHANGED <<gissued, users, localVars>>

Commit(r) ==
  /\ At(r, "commit")
  /\ Publish(r)
  /\ Respond(r, IF input[r].op = "create" THEN "201" ELSE "200")

\* The connection breaks after the server has committed.
CommitUnacknowledged(r) == At(r, "commit") /\ Publish(r) /\ Respond(r, "500")

\* Whom a transaction waits for: row locks, and names about to be taken.
WaitsFor(r) ==
  CASE pc[r] = "clearing" -> Blockers(r)
    [] pc[r] = "update" ->
         {lock[h] : h \in {h \in GroupId : lock[h] \in Req \ {r} /\
                            (h = gid[r] \/ newName[lock[h]] = newName[r])}}
    [] OTHER -> {}

\* A circle of transactions in which everyone waits: the database ends one of
\* them.  (A create holds nothing while it waits for a name.)
DeadlockDetected(r) ==
  /\ UNCHANGED input
  /\ \E C \in SUBSET Req : r \in C /\ \A w \in C : WaitsFor(w) \intersect C # {}
  /\ Rollback(r, "500")
-----------------------------------------------------------------------------
(* The statements of executeDeleteGroup and executeDeleteUser commit by      *)
(* themselves.  Errors of the first two are logged, and the deletion goes on.*)

Collect(r, S, where) ==
  /\ target' = [target EXCEPT ![r] = S]
  /\ Goto(r, where)
  /\ UNCHANGED <<tableVars, rows, txVars, todo, adding, before, gid, readName,
                 newName, readVersion>>

DeleteCollected(r, where) ==
  /\ Blockers(r) = {}
  /\ rows' = rows \ target[r]
  /\ target' = [target EXCEPT ![r] = {}]
  /\ Goto(r, where)
  /\ UNCHANGED <<tableVars, txVars, todo, adding, before, gid, readName,
                 newName, readVersion>>

\* DeleteByMemberValue.
AfterUnlink(r) == IF input[r].op = "delete" THEN "empty" ELSE "remove"
Unlink(r) == At(r, "unlink") /\ Collect(r, {x \in rows : x.mem = gid[r]}, "unlinking")
Unlinked(r) == At(r, "unlinking") /\ DeleteCollected(r, AfterUnlink(r))

\* DeleteByGroupID.
Empty(r) == At(r, "empty") /\ Collect(r, RowsOf(rows, gid[r]), "emptying")
Emptied(r) == At(r, "emptying") /\ DeleteCollected(r, "remove")

\* Either of them failed.
DeleteLogged(r) ==
  \/ At(r, "unlinking") /\ Collect(r, {}, AfterUnlink(r))
  \/ At(r, "emptying") /\ Collect(r, {}, "remove")

\* DELETE of the group, which waits for its row lock, or of the user.
DeleteResource(r) ==
  /\ \/ /\ input[r].op = "delete" /\ lock[gid[r]] = Nobody
        /\ groups' = groups \ {gid[r]} /\ UNCHANGED users
     \/ /\ input[r].op = "deleteUser"
        /\ users' = users \ {gid[r]} /\ UNCHANGED groups
  /\ UNCHANGED <<gissued, gname, gversion, hist>>

Remove(r) ==
  /\ At(r, "remove") /\ DeleteResource(r) /\ Respond(r, "204")
  /\ UNCHANGED <<rows, txVars, localVars>>

\* Its error is reported; the row may be gone all the same.
RemoveError(r) ==
  /\ At(r, "remove")
  /\ DeleteResource(r) \/ UNCHANGED tableVars
  /\ Respond(r, "500")
  /\ UNCHANGED <<rows, txVars, localVars>>
-----------------------------------------------------------------------------
Find(r) == FindNothing(r) \/ FindMismatch(r) \/ FindForCreate(r) \/ FindForUpdate(r)
             \/ FindForDelete(r)

Statement(r) == InsertGroup(r) \/ LoadMembers(r) \/ CheckName(r) \/ ClearMembers(r)
                  \/ ClearedMembers(r) \/ FindMember(r) \/ FindNoMember(r)
                  \/ InsertMember(r) \/ AddedMembers(r) \/ ReloadMembers(r)
                  \/ UpdateGroup(r) \/ Commit(r) \/ DeadlockDetected(r)

AutoStatement(r) == Unlink(r) \/ Unlinked(r) \/ Empty(r) \/ Emptied(r) \/ Remove(r)

\* What a request does while the database answers.
Progress(r) == Find(r) \/ Statement(r) \/ AutoStatement(r)

Trouble(r) == Fail(r) \/ Refuse(r) \/ CommitUnacknowledged(r) \/ DeleteLogged(r)
                \/ RemoveError(r)

AllAnswered == (\A r \in Req : pc[r] = "done") /\ UNCHANGED vars

Next ==
  \/ \E r \in Req : Progress(r) \/ Trouble(r)
  \/ AllAnswered

SafetySpec == Init /\ [][Next]_vars

\* The scheduler runs every handler, a statement that waits for a lock proceeds
\* once the lock is free, and the database finds deadlocks.  No failure is needed
\* to end a wait.
Spec == SafetySpec /\ \A r \in Req : WF_vars(Progress(r))
-----------------------------------------------------------------------------
(* Properties *)

\* Request r commits in this step, whether or not it learns of it.
Commits(r) == /\ pc[r] = "commit" /\ pc'[r] = "done"
              /\ answer'[r] = "200" \/ rows' # rows

\* A failed request leaves nothing behind: no membership row in the table was
\* written by a request that was refused or is still running, although POST, PUT
\* and PATCH insert row by row and may be refused at any of them.
FailedLeavesNothing ==
  \A x \in rows : x.by \in Req => answer[x.by] \in {"200", "201", "500"}

\* A version names one displayName of a group, over all races of PUT, PATCH, DELETE
\* and unacknowledged commits.
ETagDeterminesName ==
  \A x, y \in hist : x.grp = y.grp /\ x.version = y.version => x.name = y.name

\* A PUT that commits raises the version by one, from a version that its
\* If-Match allows and that is current at the commit, not only when it was read.
PutRaisesVersion ==
  [][\A r \in Req : input[r].op = "replace" /\ Commits(r) =>
       /\ gid[r] \in groups
       /\ checkETagMatch(input[r].tags, gversion[gid[r]])
       /\ gversion'[gid[r]] = gversion[gid[r]] + 1]_vars

\* "Clear existing members": when a PUT has committed, the group's members are
\* the ones it listed.
PutIsExact ==
  [][\A r \in Req : input[r].op = "replace" /\ Commits(r) =>
       MembersOf(rows', gid[r]) = input[r].members]_vars

\* "Delete memberships where this group is a member of another group": a group
\* that is gone is no longer listed as a member.
NoDanglingGroups ==
  \A x \in rows : x.mem \in gissued => x.mem \in groups

\* Every request is answered: two PATCHes that remove the same members in opposite
\* order may lock each other out, yet every way out of a transaction gives its
\* locks back, so nobody waits for ever.
EveryoneAnswered == \A r \in Req : <>(pc[r] = "done")
-----------------------------------------------------------------------------
(* What the proofs need beyond the properties *)

\* Versions of a group only grow, and its id is never used again.
HistoryShape ==
  \A x \in hist : x.grp \in gissued /\ x.version <= gversion[x.grp]

\* Who wrote a committed row has ended with an answer that admits it.
RowsAnswered ==
  \A x \in rows : x.by \in Req => /\ pc[x.by] = "done"
                                  /\ answer[x.by] \in {"200", "201", "500"}

Updating == PatchOp \union {"replace"}

\* Which requests get to a statement.
OpShape(r) ==
  LET op == input[r].op IN
  /\ op # "deleteUser" => gid[r] \in GroupId
  /\ pc[r] \in TxPC => op \notin {"delete", "deleteUser"}
  /\ pc[r] \in AutoPC => op \in {"delete", "deleteUser"}
  /\ pc[r] = "insert group" => op = "create"
  /\ pc[r] \in {"load", "reload"} => op \in PatchOp
  /\ pc[r] = "name" => op \in {"replace", "rename"}
  /\ pc[r] \in {"clear", "clearing", "update"} => op \in Updating
  /\ \A x \in ins[r] : x.by = r

\* Who holds the lock of a group row is about to create it, or about to commit an
\* update of the version it read, which is still the current one.
LockShape(r) ==
  \A g \in GroupId : lock[g] = r =>
    /\ gid[r] = g /\ g \in gissued
    /\ \/ /\ input[r].op = "create" /\ pc[r] \in {"add", "insert", "commit"}
          /\ \A x \in hist : x.grp # g
       \/ /\ input[r].op \in Updating /\ pc[r] = "commit"
          /\ g \in groups /\ gversion[g] = readVersion[r]

\* The version that was read satisfies If-Match; a PUT commits under the lock.
UpdateShape(r) ==
  /\ pc[r] \in TxPC /\ input[r].op \in Updating =>
       checkETagMatch(input[r].tags, readVersion[r])
  /\ pc[r] = "commit" /\ input[r].op = "replace" => lock[gid[r]] = r

RequestShape(r) == OpShape(r) /\ LockShape(r) /\ UpdateShape(r)

IndInv ==
  /\ TypeOK /\ HistoryShape /\ ETagDeterminesName /\ RowsAnswered
  /\ \A r \in Req : RequestShape(r)
=============================================================================
