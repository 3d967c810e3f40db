---------------------------- MODULE GroupsProofs ----------------------------
(***************************************************************************)
(* Proofs about Groups, for any number of requests, groups, users and      *)
(* names.                                                                  *)
(***************************************************************************)
EXTENDS Groups, TLAPS

USE DEF vars, tableVars, txVars, localVars

\* What the invariant says about the tables.
TableInv == HistoryShape /\ ETagDeterminesName /\ RowsAnswered

\* A step of request r leaves the local state and the locks of others alone.
OthersRest(r) ==
  \A w \in Req \ {r} :
    /\ pc'[w] = pc[w] /\ answer'[w] = answer[w] /\ gid'[w] = gid[w]
    /\ ins'[w] = ins[w] /\ readVersion'[w] = readVersion[w]
    /\ \A g \in GroupId : lock'[g] = w <=> lock[g] = w

\* It leaves the rows alone that others have locked.
LockedRowsRest(r) ==
  /\ gissued \subseteq gissued'
  /\ \A g \in GroupId : lock[g] \in Req \ {r} =>
       /\ gversion'[g] = gversion[g]
       /\ g \in groups => g \in groups'
       /\ \A x \in hist' : x.grp = g => x \in hist
-----------------------------------------------------------------------------
(* Putting a step together *)

LEMMA InputsAreRequests ==
  ASSUME NEW q \in Inputs
  PROVE  /\ q \in Request /\ q.op \in Op /\ q.id \in MemberId
         /\ q.members \subseteq MemberId
         /\ q.op = "deleteUser" => q.id \in UserId
         /\ q.op # "deleteUser" => q.id \in GroupId
         /\ q.op \in {"create", "replace", "rename"} => q.name \in Name
  BY GroupsAssumption DEF Request

LEMMA BystanderKept ==
  ASSUME TypeOK, NEW r \in Req, NEW w \in Req \ {r}, RequestShape(w), input' = input,
         OthersRest(r), LockedRowsRest(r)
  PROVE  RequestShape(w)'
<1>1. OpShape(w)'
  BY DEF RequestShape, OpShape, OthersRest
<1>2. LockShape(w)'
  BY DEF RequestShape, LockShape, OthersRest, LockedRowsRest
<1>3. UpdateShape(w)'
  <2>1. w \in Req /\ pc'[w] = pc[w] /\ gid'[w] = gid[w] /\ readVersion'[w] = readVersion[w]
    BY DEF OthersRest
  <2>2. input[w].op = "replace" => gid[w] \in GroupId
    BY DEF RequestShape, OpShape
  <2>3. \A g \in GroupId : lock[g] = w => lock'[g] = w
    BY DEF OthersRest
  <2> QED
    BY <2>1, <2>2, <2>3 DEF RequestShape, UpdateShape, checkETagMatch
<1> QED
  BY <1>1, <1>2, <1>3 DEF RequestShape

LEMMA Assemble ==
  ASSUME IndInv, NEW r \in Req, TypeOK', TableInv', input' = input,
         OthersRest(r), LockedRowsRest(r), RequestShape(r)'
  PROVE  IndInv'
<1>1. \A w \in Req \ {r} : RequestShape(w)'
  BY BystanderKept DEF IndInv
<1> QED
  BY <1>1 DEF IndInv, TableInv

\* Committed rows were written by requests that have ended, and stay so.
LEMMA RowsStayAnswered ==
  ASSUME IndInv, NEW r \in Req, pc[r] # "done", OthersRest(r), rows' \subseteq rows
  PROVE  RowsAnswered'
<1> SUFFICES ASSUME NEW x \in rows, x.by \in Req
             PROVE  pc'[x.by] = "done" /\ answer'[x.by] \in {"200", "201", "500"}
  BY DEF RowsAnswered
<1>1. pc[x.by] = "done" /\ answer[x.by] \in {"200", "201", "500"}
  BY DEF IndInv, RowsAnswered
<1>2. x.by \in Req \ {r}
  BY <1>1
<1> QED
  BY <1>1, <1>2 DEF OthersRest

\* Nothing is written that others could see.
LEMMA QuietTables ==
  ASSUME IndInv, NEW r \in Req, pc[r] # "done", OthersRest(r), UNCHANGED <<tableVars, rows>>
  PROVE  TableInv' /\ LockedRowsRest(r)
<1>1. HistoryShape' /\ ETagDeterminesName'
  BY DEF IndInv, HistoryShape, ETagDeterminesName
<1>2. RowsAnswered'
  BY RowsStayAnswered
<1>3. LockedRowsRest(r)
  BY DEF LockedRowsRest
<1> QED
  BY <1>1, <1>2, <1>3 DEF TableInv

\* The part of TypeOK about the requests and their transactions.
LocalType ==
  /\ lock \in [GroupId -> Req \union {Nobody}]
  /\ ins \in [Req -> SUBSET Row] /\ del \in [Req -> SUBSET Row]
  /\ input \in [Req -> Inputs] /\ pc \in [Req -> PC]
  /\ target \in [Req -> SUBSET Row] /\ todo \in [Req -> SUBSET MemberId]
  /\ adding \in [Req -> MemberId] /\ before \in [Req -> SUBSET Row]
  /\ gid \in [Req -> MemberId]
  /\ readName \in [Req -> Name] /\ newName \in [Req -> Name]
  /\ readVersion \in [Req -> Nat]
  /\ answer \in [Req -> Code \union {"none"}]

\* A step that writes nothing others could see, and takes or gives back no lock.
LEMMA Quiet ==
  ASSUME IndInv, NEW r \in Req, pc[r] # "done", UNCHANGED <<tableVars, rows>>,
         input' = input, LocalType', OthersRest(r), RequestShape(r)'
  PROVE  IndInv'
<1>1. TypeOK'
  BY DEF IndInv, TypeOK, LocalType
<1> QED
  BY <1>1, QuietTables, Assemble

\* Nothing is held by a request that has not begun to write.
LEMMA Answered ==
  ASSUME IndInv, NEW r \in Req, pc[r] = "find", input' = input,
         UNCHANGED <<tableVars, rows, txVars, localVars>>,
         NEW code \in Code, Respond(r, code)
  PROVE  IndInv'
<1>1. LocalType' /\ OthersRest(r) /\ pc'[r] = "done"
  BY DEF IndInv, TypeOK, LocalType, OthersRest, Respond, PC
<1>2. \A g \in GroupId : lock[g] # r
  BY DEF IndInv, RequestShape, LockShape
<1>3. OpShape(r)'
  BY <1>1 DEF IndInv, RequestShape, OpShape, TxPC, AutoPC
<1>4. LockShape(r)'
  BY <1>2 DEF LockShape
<1>5. UpdateShape(r)'
  BY <1>1 DEF UpdateShape, TxPC
<1> QED
  BY <1>1, <1>3, <1>4, <1>5, Quiet DEF RequestShape

\* After a rollback nothing is held either.
LEMMA RolledBack ==
  ASSUME IndInv, NEW r \in Req, pc[r] # "done", input' = input,
         NEW code \in Code, Rollback(r, code)
  PROVE  IndInv'
<1>1. LocalType' /\ OthersRest(r) /\ pc'[r] = "done"
  <2>1. LocalType' /\ pc'[r] = "done"
    BY DEF IndInv, TypeOK, LocalType, Rollback, Respond, PC
  <2>2. OthersRest(r)
    BY GroupsAssumption DEF IndInv, TypeOK, OthersRest, Rollback, Respond
  <2> QED
    BY <2>1, <2>2
<1>2. \A g \in GroupId : lock'[g] # r
  BY GroupsAssumption DEF Rollback
<1>3. OpShape(r)'
  BY <1>1 DEF IndInv, TypeOK, RequestShape, OpShape, TxPC, AutoPC, Rollback
<1>4. LockShape(r)'
  BY <1>2 DEF LockShape
<1>5. UpdateShape(r)'
  BY <1>1 DEF UpdateShape, TxPC
<1>6. UNCHANGED <<tableVars, rows>>
  BY DEF Rollback
<1> QED
  BY <1>1, <1>3, <1>4, <1>5, <1>6, Quiet DEF RequestShape
-----------------------------------------------------------------------------
(* The actions *)

LEMMA InitEstablishes == Init => IndInv
<1> SUFFICES ASSUME Init PROVE IndInv
  OBVIOUS
<1>1. \A r \in Req : input[r] \in Inputs /\ input[r].id \in MemberId
  BY InputsAreRequests DEF Init
<1>2. (CHOOSE n \in Name : TRUE) \in Name
  BY GroupsAssumption
<1>3. TypeOK
  <2>1. rows \subseteq Row /\ hist \subseteq [grp : GroupId, version : Nat, name : Name]
    BY GroupsAssumption DEF Init
  <2>2. /\ groups \subseteq gissued /\ gissued \subseteq GroupId
        /\ gname \in [GroupId -> Name] /\ gversion \in [GroupId -> Nat]
        /\ users \subseteq UserId
    BY GroupsAssumption DEF Init
  <2>3. LocalType
    BY <1>1, <1>2 DEF Init, LocalType, PC
  <2> QED
    BY <2>1, <2>2, <2>3 DEF TypeOK, LocalType
<1>4. HistoryShape
  BY GroupsAssumption DEF Init, HistoryShape
<1>5. ETagDeterminesName
  BY GroupsAssumption DEF Init, ETagDeterminesName
<1>6. RowsAnswered
  BY GroupsAssumption DEF Init, RowsAnswered
<1>7. ASSUME NEW r \in Req PROVE RequestShape(r)
  <2>1. pc[r] = "find" /\ ins[r] = {} /\ gid[r] = input[r].id /\ input[r] \in Inputs
    BY DEF Init
  <2>2. OpShape(r)
    BY <2>1, InputsAreRequests DEF OpShape, TxPC, AutoPC
  <2>3. LockShape(r) /\ UpdateShape(r)
    BY <2>1, GroupsAssumption DEF Init, LockShape, UpdateShape, TxPC
  <2> QED
    BY <2>2, <2>3 DEF RequestShape
<1> QED
  BY <1>3, <1>4, <1>5, <1>6, <1>7 DEF IndInv
\* The request moves on to its next statement.
LEMMA Moved ==
  ASSUME IndInv, NEW r \in Req, pc[r] \notin {"done", "commit"},
         UNCHANGED <<tableVars, rows, lock, gid>>, input' = input,
         LocalType', OthersRest(r), OpShape(r)', UpdateShape(r)',
         pc[r] \in {"add", "insert"} /\ input[r].op = "create"
           => pc'[r] \in {"add", "insert", "commit"}
  PROVE  IndInv'
<1>1. LockShape(r)
  BY DEF IndInv, RequestShape
<1>2. LockShape(r)'
  BY <1>1 DEF LockShape
<1> QED
  BY <1>2, Quiet DEF RequestShape

LEMMA FindKeeps ==
  ASSUME IndInv, NEW r \in Req, Find(r)
  PROVE  IndInv'
<1>0. /\ pc[r] = "find" /\ input' = input /\ input[r] \in Inputs
      /\ OpShape(r) /\ LocalType /\ {"404", "412", "409"} \subseteq Code
  BY DEF Find, FindNothing, FindMismatch, FindForCreate, FindForUpdate, FindForDelete,
         At, IndInv, TypeOK, LocalType, RequestShape, Code
<1>1. CASE FindNothing(r) \/ FindMismatch(r)
  BY <1>0, <1>1, Answered DEF FindNothing, FindMismatch
<1>2. CASE FindForCreate(r)
  <2>1. CASE Respond(r, "409") /\ UNCHANGED newName
    BY <1>0, <1>2, <2>1, Answered DEF FindForCreate
  <2>2. CASE newName' = [newName EXCEPT ![r] = input[r].name] /\ Goto(r, "insert group")
    <3>1. LocalType' /\ OthersRest(r) /\ pc'[r] = "insert group"
      BY <1>0, <1>2, <2>2, InputsAreRequests
      DEF FindForCreate, LocalType, OthersRest, Goto, PC, TxPC
    <3>2. OpShape(r)' /\ UpdateShape(r)'
      BY <1>0, <1>2, <3>1
      DEF FindForCreate, OpShape, UpdateShape, TxPC, AutoPC, Updating, PatchOp
    <3> QED
      BY <1>0, <1>2, <3>1, <3>2, Moved DEF FindForCreate
  <2> QED
    BY <1>2, <2>1, <2>2 DEF FindForCreate
<1>3. CASE FindForUpdate(r)
  <2> DEFINE p == IF input[r].op = "replace" THEN "name" ELSE "load"
             g == input[r].id
  <2>1. /\ g \in GroupId /\ gname[g] \in Name /\ gversion[g] \in Nat
        /\ p \in PC /\ p \in {"name", "load"}
    BY <1>0, <1>3, InputsAreRequests DEF FindForUpdate, IndInv, TypeOK, PC, TxPC
  <2>2. /\ LocalType' /\ OthersRest(r) /\ pc'[r] = p /\ readVersion'[r] = gversion[g]
    BY <1>0, <1>3, <2>1 DEF FindForUpdate, LocalType, OthersRest, Goto
  <2>3. OpShape(r)'
    BY <1>0, <1>3, <2>2 DEF FindForUpdate, OpShape, TxPC, AutoPC, Updating, PatchOp
  <2>4. UpdateShape(r)'
    BY <1>0, <1>3, <2>2 DEF FindForUpdate, IfMatchHolds, UpdateShape
  <2> QED
    BY <1>0, <1>3, <2>2, <2>3, <2>4, Moved DEF FindForUpdate
<1>4. CASE FindForDelete(r)
  <2>1. LocalType' /\ OthersRest(r) /\ pc'[r] = "unlink"
    BY <1>0, <1>4 DEF FindForDelete, LocalType, OthersRest, Goto, PC, AutoPC
  <2>2. OpShape(r)' /\ UpdateShape(r)'
    BY <1>0, <1>4, <2>1
    DEF FindForDelete, OpShape, UpdateShape, TxPC, AutoPC, Updating, PatchOp
  <2> QED
    BY <1>0, <1>4, <2>1, <2>2, Moved DEF FindForDelete
<1> QED
  BY <1>1, <1>2, <1>3, <1>4 DEF Find
\* What every proof about a statement starts from.
LEMMA Facts ==
  ASSUME IndInv, NEW r \in Req
  PROVE  /\ input[r] \in Inputs /\ OpShape(r) /\ UpdateShape(r) /\ LockShape(r)
         /\ LocalType /\ gid[r] \in MemberId
  BY DEF IndInv, TypeOK, LocalType, RequestShape

LEMMA VisibleRows ==
  ASSUME TypeOK, NEW r \in Req
  PROVE  Visible(r) \subseteq Row
  BY DEF TypeOK, Visible

\* The statements that only read, or write what nobody else sees.
LEMMA QuietStatementKeeps ==
  ASSUME IndInv, NEW r \in Req,
         \/ LoadMembers(r) \/ ClearMembers(r) \/ ClearedMembers(r) \/ FindMember(r)
         \/ InsertMember(r) \/ AddedMembers(r) \/ ReloadMembers(r)
  PROVE  IndInv'
<1> USE Facts
<1>1. CASE LoadMembers(r)
  <2>1. LocalType' /\ OthersRest(r) /\ pc'[r] \in {"add", "name", "clear"}
        /\ (pc'[r] = "name" => input[r].op = "rename")
    BY <1>1, InputsAreRequests
    DEF LoadMembers, At, LocalType, OthersRest, Goto, PC, TxPC, RowsOf, IndInv, TypeOK
  <2>2. input' = input /\ pc[r] = "load" /\ input[r].op \in PatchOp
    BY <1>1 DEF LoadMembers, At, OpShape
  <2>3. OpShape(r)'
    BY <1>1, <2>1, <2>2 DEF LoadMembers, OpShape, TxPC, AutoPC, Updating, PatchOp
  <2>4. UpdateShape(r)'
    BY <1>1, <2>1, <2>2 DEF LoadMembers, UpdateShape, TxPC
  <2> QED
    BY <1>1, <2>1, <2>2, <2>3, <2>4, Moved DEF LoadMembers
<1>2. CASE ClearMembers(r)
  <2>1. RowsOf(Visible(r), gid[r]) \subseteq Row
    BY VisibleRows DEF IndInv, RowsOf
  <2>2. LocalType' /\ OthersRest(r) /\ pc'[r] = "clearing"
    <3>1. CASE ~Named(r)
      BY <1>2, <2>1, <3>1 DEF ClearMembers, At, LocalType, OthersRest, Goto, PC, TxPC
    <3>2. CASE Named(r)
      BY <1>2, <2>1, <3>2 DEF ClearMembers, At, LocalType, OthersRest, Goto, PC, TxPC
    <3> QED
      BY <3>1, <3>2
  <2>3. input' = input /\ pc[r] = "clear"
    BY <1>2 DEF ClearMembers, At
  <2>4. OpShape(r)' /\ UpdateShape(r)'
    BY <1>2, <2>2, <2>3 DEF ClearMembers, OpShape, UpdateShape, TxPC, AutoPC
  <2> QED
    BY <1>2, <2>2, <2>3, <2>4, Moved DEF ClearMembers
<1>3. CASE ClearedMembers(r)
  <2>1. LocalType' /\ OthersRest(r)
        /\ pc'[r] \in {"reload", "clear", "add"}
        /\ (pc'[r] # "add" => input[r].op = "remove")
    BY <1>3, InputsAreRequests
    DEF ClearedMembers, At, LocalType, OthersRest, Goto, PC, TxPC
  <2>2. input' = input /\ pc[r] = "clearing" /\ input[r].op \in Updating
    BY <1>3 DEF ClearedMembers, At, OpShape
  <2>3. OpShape(r)' /\ UpdateShape(r)'
    BY <1>3, <2>1, <2>2
    DEF ClearedMembers, OpShape, UpdateShape, TxPC, AutoPC, Updating, PatchOp
  <2> QED
    BY <1>3, <2>1, <2>2, <2>3, Moved DEF ClearedMembers
<1>4. CASE FindMember(r)
  <2>1. LocalType' /\ OthersRest(r) /\ pc'[r] = "insert"
    <3>1. PICK m \in todo[r] : adding' = [adding EXCEPT ![r] = m]
      BY <1>4 DEF FindMember
    <3>2. m \in MemberId
      BY DEF LocalType
    <3> QED
      BY <1>4, <3>1, <3>2 DEF FindMember, At, LocalType, OthersRest, Goto, PC, TxPC
  <2>2. input' = input /\ pc[r] = "add"
    BY <1>4 DEF FindMember, At
  <2>3. OpShape(r)' /\ UpdateShape(r)'
    BY <1>4, <2>1, <2>2 DEF FindMember, OpShape, UpdateShape, TxPC, AutoPC
  <2> QED
    BY <1>4, <2>1, <2>2, <2>3, Moved DEF FindMember
<1>5. CASE InsertMember(r)
  <2>1. input' = input /\ pc[r] = "insert" /\ gid[r] \in GroupId
    BY <1>5 DEF InsertMember, At, OpShape, TxPC
  <2>2. NewRow(r) \in Row /\ NewRow(r).by = r
    BY <2>1 DEF NewRow, Row, LocalType
  <2>3. LocalType' /\ OthersRest(r) /\ pc'[r] = "add"
        /\ ins'[r] = ins[r] \union {NewRow(r)}
    BY <1>5, <2>2 DEF InsertMember, At, LocalType, OthersRest, Goto, PC, TxPC
  <2>4. OpShape(r)' /\ UpdateShape(r)'
    BY <1>5, <2>1, <2>2, <2>3 DEF InsertMember, OpShape, UpdateShape, TxPC, AutoPC
  <2> QED
    BY <1>5, <2>1, <2>3, <2>4, Moved DEF InsertMember
<1>6. CASE AddedMembers(r)
  <2>1. input' = input /\ pc[r] = "add" /\ input[r].op \in Updating \union {"create"}
    BY <1>6, InputsAreRequests DEF AddedMembers, At, OpShape, TxPC, Op, Updating
  <2>2. LocalType' /\ OthersRest(r)
        /\ (input[r].op = "create" => pc'[r] = "commit")
        /\ (input[r].op = "replace" => pc'[r] = "update")
        /\ (input[r].op \in PatchOp => pc'[r] = "reload")
    BY <1>6, <2>1
    DEF AddedMembers, LocalType, OthersRest, Goto, PC, TxPC, PatchOp
  <2>3. OpShape(r)' /\ UpdateShape(r)'
    BY <1>6, <2>1, <2>2
    DEF AddedMembers, OpShape, UpdateShape, TxPC, AutoPC, Updating, PatchOp
  <2> QED
    BY <1>6, <2>1, <2>2, <2>3, Moved DEF AddedMembers
<1>7. CASE ReloadMembers(r)
  <2>1. input' = input /\ pc[r] = "reload" /\ input[r].op \in PatchOp
    BY <1>7 DEF ReloadMembers, At, OpShape
  <2>2. LocalType' /\ OthersRest(r) /\ pc'[r] \in {"update", "commit"}
    BY <1>7 DEF ReloadMembers, At, LocalType, OthersRest, Goto, PC, TxPC
  <2>3. OpShape(r)' /\ UpdateShape(r)'
    BY <1>7, <2>1, <2>2
    DEF ReloadMembers, OpShape, UpdateShape, TxPC, AutoPC, Updating, PatchOp
  <2> QED
    BY <1>7, <2>1, <2>2, <2>3, Moved DEF ReloadMembers
<1> QED
  BY <1>1, <1>2, <1>3, <1>4, <1>5, <1>6, <1>7
LEMMA CheckNameKeeps ==
  ASSUME IndInv, NEW r \in Req, CheckName(r)
  PROVE  IndInv'
<1> USE Facts
<1>1. /\ input' = input /\ pc[r] = "name" /\ input[r].op \in {"replace", "rename"}
      /\ input[r].name \in Name /\ "409" \in Code
  BY InputsAreRequests DEF CheckName, At, OpShape, Code
<1>2. CASE Rollback(r, "409")
  BY <1>1, <1>2, RolledBack
<1>3. CASE ~Rollback(r, "409")
  <2>1. LocalType' /\ OthersRest(r) /\ pc'[r] \in {"clear", "reload"}
        /\ (pc'[r] = "reload" => input[r].op = "rename")
    BY <1>1, <1>3 DEF CheckName, LocalType, OthersRest, Goto, PC, TxPC
  <2>2. OpShape(r)' /\ UpdateShape(r)'
    BY <1>1, <1>3, <2>1
    DEF CheckName, OpShape, UpdateShape, TxPC, AutoPC, Updating, PatchOp
  <2>3. UNCHANGED <<tableVars, rows, lock, gid>>
    BY <1>3 DEF CheckName
  <2> QED
    BY <1>1, <2>1, <2>2, <2>3, Moved
<1> QED
  BY <1>2, <1>3

\* The id is new: it has no history, and nobody else holds its row.
LEMMA InsertGroupKeeps ==
  ASSUME IndInv, NEW r \in Req, InsertGroup(r)
  PROVE  IndInv'
<1> USE Facts
<1>1. /\ input' = input /\ pc[r] = "insert group" /\ input[r].op = "create"
      /\ "409" \in Code
  BY DEF InsertGroup, At, OpShape, Code
<1>2. CASE Rollback(r, "409")
  BY <1>1, <1>2, RolledBack
<1>3. CASE ~Rollback(r, "409")
  <2>1. PICK g \in GroupId \ gissued :
          /\ gissued' = gissued \union {g} /\ lock' = [lock EXCEPT ![g] = r]
          /\ gid' = [gid EXCEPT ![r] = g]
    BY <1>3 DEF InsertGroup
  <2>2. /\ todo' = [todo EXCEPT ![r] = input[r].members] /\ Goto(r, "add")
        /\ UNCHANGED <<groups, gname, gversion, users, hist, rows, ins, del, target,
                       adding, before, readName, newName, readVersion>>
    BY <1>3 DEF InsertGroup
  <2>3. \A h \in GroupId : lock[h] # r
    BY <1>1 DEF LockShape
  <2>4. \A w \in Req : lock[g] # w
    BY DEF IndInv, RequestShape, LockShape
  <2>5. \A x \in hist : x.grp # g
    BY DEF IndInv, HistoryShape
  <2>6. g \in MemberId /\ input[r].members \in SUBSET MemberId
    BY InputsAreRequests DEF MemberId
  <2>7. LocalType' /\ pc'[r] = "add" /\ gid'[r] = g
    BY <1>1, <2>1, <2>2, <2>6 DEF LocalType, Goto, PC, TxPC
  <2>8. TypeOK'
    BY <2>1, <2>2, <2>7 DEF IndInv, TypeOK, LocalType
  <2>9. OthersRest(r)
    BY <2>1, <2>2, <2>4 DEF OthersRest, LocalType, Goto
  <2>10. LockedRowsRest(r)
    BY <2>1, <2>2 DEF LockedRowsRest
  <2>11. TableInv'
    <3>1. HistoryShape'
      BY <2>1, <2>2 DEF IndInv, HistoryShape
    <3>2. ETagDeterminesName'
      BY <2>2 DEF IndInv, ETagDeterminesName
    <3>3. RowsAnswered'
      BY <1>1, <2>2, <2>9, RowsStayAnswered
    <3> QED
      BY <3>1, <3>2, <3>3 DEF TableInv
  <2>12. OpShape(r)'
    BY <1>1, <2>2, <2>7 DEF OpShape, TxPC, AutoPC
  <2>13. LockShape(r)'
    <3>1. \A h \in GroupId : lock'[h] = r => h = g
      BY <2>1, <2>3 DEF LocalType
    <3>2. g \in gissued' /\ hist' = hist
      BY <2>1, <2>2
    <3> SUFFICES ASSUME NEW h \in GroupId, lock'[h] = r
                 PROVE  /\ gid'[r] = h /\ h \in gissued'
                        /\ input'[r].op = "create" /\ pc'[r] = "add"
                        /\ \A x \in hist' : x.grp # h
      BY DEF LockShape
    <3> QED
      BY <1>1, <2>5, <2>7, <3>1, <3>2
  <2>14. UpdateShape(r)'
    BY <1>1, <2>7 DEF UpdateShape, Updating, PatchOp
  <2> QED
    BY <1>1, <2>8, <2>9, <2>10, <2>11, <2>12, <2>13, <2>14, Assemble DEF RequestShape
<1> QED
  BY <1>2, <1>3

\* UPDATE ... WHERE version = ... takes the lock of the version that was read.
LEMMA UpdateGroupKeeps ==
  ASSUME IndInv, NEW r \in Req, UpdateGroup(r)
  PROVE  IndInv'
<1> USE Facts
<1>1. /\ input' = input /\ pc[r] = "update" /\ input[r].op \in Updating
      /\ {"409", "412"} \subseteq Code /\ gid[r] \in GroupId
  BY DEF UpdateGroup, At, OpShape, Code, Updating, PatchOp
<1>2. CASE Rollback(r, "409") \/ Rollback(r, "412")
  BY <1>1, <1>2, RolledBack
<1>3. CASE ~(Rollback(r, "409") \/ Rollback(r, "412"))
  <2> DEFINE g == gid[r]
  <2>1. /\ RowMatches(r) /\ lock[g] = Nobody /\ lock' = [lock EXCEPT ![g] = r]
        /\ Goto(r, "commit") /\ UNCHANGED <<tableVars, rows, ins, del, localVars>>
    BY <1>3 DEF UpdateGroup
  <2>2. \A h \in GroupId : lock[h] # r
    BY <1>1 DEF LockShape, Updating, PatchOp
  <2>3. LocalType' /\ pc'[r] = "commit"
    BY <1>1, <2>1 DEF LocalType, Goto, PC, TxPC
  <2>4. OthersRest(r)
    BY <1>1, <2>1, GroupsAssumption DEF OthersRest, LocalType, Goto
  <2>5. OpShape(r)'
    BY <1>1, <2>1, <2>3 DEF OpShape, TxPC, AutoPC
  <2>6. LockShape(r)'
    <3>1. g \in groups /\ g \in gissued /\ gversion[g] = readVersion[r]
      BY <2>1 DEF RowMatches, IndInv, TypeOK
    <3>2. \A h \in GroupId : lock'[h] = r => h = g
      BY <1>1, <2>1, <2>2 DEF LocalType
    <3> QED
      BY <1>1, <2>1, <2>3, <3>1, <3>2 DEF LockShape
  <2>7. UpdateShape(r)'
    <3>1. lock'[g] = r
      BY <1>1, <2>1 DEF LocalType
    <3> QED
      BY <1>1, <2>1, <2>3, <3>1 DEF UpdateShape, TxPC
  <2> QED
    BY <1>1, <2>1, <2>3, <2>4, <2>5, <2>6, <2>7, Quiet DEF RequestShape
<1> QED
  BY <1>2, <1>3
-----------------------------------------------------------------------------
(* COMMIT *)

\* Who commits writes a version no entry of the group has yet.
LEMMA VersionIsNew ==
  ASSUME IndInv, NEW r \in Req, NEW g \in GroupId, pc[r] = "commit", lock[g] = r,
         NEW v, v = IF input[r].op = "create" THEN 0 ELSE readVersion[r] + 1
  PROVE  /\ v \in Nat /\ gid[r] = g /\ g \in gissued
         /\ \A x \in hist : x.grp = g => x.version < v
         /\ input[r].op # "create" => g \in groups /\ v = gversion[g] + 1
<1> USE Facts
<1>1. readVersion[r] \in Nat /\ gversion[g] \in Nat
  BY DEF IndInv, TypeOK
<1>2. \A x \in hist : x.version \in Nat
  BY DEF IndInv, TypeOK
<1>3. gid[r] = g /\ g \in gissued
  BY DEF LockShape
<1>4. CASE input[r].op = "create"
  BY <1>1, <1>3, <1>4 DEF LockShape, Updating, PatchOp
<1>5. CASE input[r].op # "create"
  <2>1. g \in groups /\ gversion[g] = readVersion[r]
    BY <1>5 DEF LockShape
  <2>2. \A x \in hist : x.grp = g => x.version <= gversion[g]
    BY DEF IndInv, HistoryShape
  <2> QED
    BY <1>1, <1>2, <1>3, <1>5, <2>1, <2>2
<1> QED
  BY <1>4, <1>5

LEMMA PublishKeeps ==
  ASSUME IndInv, NEW r \in Req, pc[r] = "commit", input' = input, Publish(r),
         NEW code \in {"200", "201", "500"}, Respond(r, code)
  PROVE  IndInv'
<1> USE Facts
<1> DEFINE g == gid[r]
           v == IF input[r].op = "create" THEN 0 ELSE readVersion[r] + 1
           e == [grp |-> g, version |-> v, name |-> newName[r]]
<1>1. /\ rows' = (rows \ del[r]) \union ins[r]
      /\ ins' = [ins EXCEPT ![r] = {}] /\ del' = [del EXCEPT ![r] = {}]
      /\ UNCHANGED <<gissued, users, localVars>>
      /\ \/ /\ lock[g] = r /\ lock' = [lock EXCEPT ![g] = Nobody]
            /\ groups' = groups \union {g}
            /\ gname' = [gname EXCEPT ![g] = newName[r]]
            /\ gversion' = [gversion EXCEPT ![g] = v] /\ hist' = hist \union {e}
         \/ lock[g] # r /\ UNCHANGED <<groups, gname, gversion, hist, lock>>
  BY DEF Publish
<1>2. g \in GroupId /\ newName[r] \in Name
  BY DEF OpShape, TxPC, LocalType
<1>3. /\ lock[g] = r => /\ v \in Nat /\ g \in gissued
                        /\ \A x \in hist : x.grp = g => x.version < v
                        /\ e \in [grp : GroupId, version : Nat, name : Name]
  BY <1>2, VersionIsNew
<1>4. e.grp = g /\ e.version = v /\ e.name = newName[r]
  OBVIOUS
<1> HIDE DEF v, e
<1>5. LocalType' /\ pc'[r] = "done" /\ answer'[r] = code
  <2>1. code \in Code
    BY DEF Code
  <2> QED
    BY <1>1, <2>1 DEF LocalType, Respond, PC
<1>6. TypeOK'
  <2>1. rows' \subseteq Row /\ users' \subseteq UserId /\ gissued' \subseteq GroupId
    BY <1>1 DEF IndInv, TypeOK
  <2>2. CASE lock[g] = r
    BY <1>1, <1>2, <1>3, <1>5, <2>1, <2>2 DEF IndInv, TypeOK, LocalType
  <2>3. CASE lock[g] # r
    BY <1>1, <1>5, <2>1, <2>3 DEF IndInv, TypeOK, LocalType
  <2> QED
    BY <2>2, <2>3
<1>7. OthersRest(r)
  <2>1. \A w \in Req \ {r}, h \in GroupId : lock'[h] = w <=> lock[h] = w
    BY <1>1, <1>2, GroupsAssumption DEF LocalType
  <2> QED
    BY <1>1, <2>1 DEF OthersRest, LocalType, Respond
<1>8. LockedRowsRest(r)
  BY <1>1, <1>2, <1>4 DEF LockedRowsRest, IndInv, TypeOK
<1>9. HistoryShape'
  <2>1. CASE lock[g] = r
    <3>1. \A x \in hist : x.version \in Nat /\ x.grp \in GroupId
      BY DEF IndInv, TypeOK
    <3>2. gversion' = [gversion EXCEPT ![g] = v] /\ gversion \in [GroupId -> Nat]
      BY <1>1, <2>1 DEF IndInv, TypeOK
    <3>3. \A x \in hist : x.grp \in gissued /\ x.version <= gversion'[x.grp]
      BY <1>2, <1>3, <2>1, <3>1, <3>2 DEF IndInv, HistoryShape
    <3>4. e.grp \in gissued /\ e.version <= gversion'[e.grp]
      BY <1>2, <1>3, <1>4, <2>1, <3>2
    <3> QED
      BY <1>1, <2>1, <3>3, <3>4 DEF HistoryShape
  <2>2. CASE lock[g] # r
    BY <1>1, <2>2 DEF IndInv, HistoryShape
  <2> QED
    BY <2>1, <2>2
<1>10. ETagDeterminesName'
  <2>1. CASE lock[g] = r
    <3>1. \A x \in hist : x.grp = g => x.version # v
      <4>1. \A x \in hist : x.version \in Nat
        BY DEF IndInv, TypeOK
      <4> QED
        BY <1>3, <2>1, <4>1
    <3> QED
      BY <1>1, <1>4, <2>1, <3>1 DEF IndInv, ETagDeterminesName
  <2>2. CASE lock[g] # r
    BY <1>1, <2>2 DEF IndInv, ETagDeterminesName
  <2> QED
    BY <2>1, <2>2
<1>11. RowsAnswered'
  <2> SUFFICES ASSUME NEW x \in rows', x.by \in Req
               PROVE  pc'[x.by] = "done" /\ answer'[x.by] \in {"200", "201", "500"}
    BY DEF RowsAnswered
  <2>1. CASE x.by = r
    BY <1>5, <2>1
  <2>2. CASE x.by # r
    <3>1. x \in rows
      BY <1>1, <2>2 DEF OpShape
    <3>2. pc[x.by] = "done" /\ answer[x.by] \in {"200", "201", "500"}
      BY <3>1 DEF IndInv, RowsAnswered
    <3> QED
      BY <1>7, <2>2, <3>2 DEF OthersRest
  <2> QED
    BY <2>1, <2>2
<1>12. RequestShape(r)'
  <2>1. ins'[r] = {} /\ gid'[r] = gid[r]
    BY <1>1 DEF LocalType
  <2>2. OpShape(r)' /\ UpdateShape(r)'
    BY <1>2, <1>5, <2>1 DEF OpShape, UpdateShape, TxPC, AutoPC
  <2>3. \A h \in GroupId : lock'[h] # r
    <3>1. \A h \in GroupId : lock[h] = r => h = g
      BY DEF LockShape
    <3> QED
      BY <1>1, <1>2, <3>1, GroupsAssumption DEF LocalType
  <2>4. LockShape(r)'
    BY <2>3 DEF LockShape
  <2> QED
    BY <2>2, <2>4 DEF RequestShape
<1> QED
  BY <1>6, <1>7, <1>8, <1>9, <1>10, <1>11, <1>12, Assemble DEF TableInv
-----------------------------------------------------------------------------
(* Deletions, and the ways a transaction fails *)

\* Rows go, and nothing else that is shared.
LEMMA RowsGone ==
  ASSUME IndInv, NEW r \in Req, pc[r] \in AutoPC, input' = input,
         UNCHANGED <<tableVars, txVars, gid, readVersion>>, rows' \subseteq rows,
         LocalType', OthersRest(r), pc'[r] \in AutoPC
  PROVE  IndInv'
<1> USE Facts
<1>1. TypeOK'
  BY DEF IndInv, TypeOK, LocalType
<1>2. HistoryShape' /\ ETagDeterminesName'
  BY DEF IndInv, HistoryShape, ETagDeterminesName
<1>3. RowsAnswered'
  BY RowsStayAnswered DEF AutoPC
<1>4. LockedRowsRest(r)
  BY DEF LockedRowsRest
<1>5. OpShape(r)' /\ UpdateShape(r)'
  BY DEF OpShape, UpdateShape, TxPC, AutoPC
<1>6. LockShape(r)'
  <2>1. \A g \in GroupId : lock[g] # r
    BY DEF LockShape, AutoPC
  <2> QED
    BY <2>1 DEF LockShape
<1> QED
  BY <1>1, <1>2, <1>3, <1>4, <1>5, <1>6, Assemble DEF RequestShape, TableInv

LEMMA DeletionKeeps ==
  ASSUME IndInv, NEW r \in Req,
         Unlink(r) \/ Unlinked(r) \/ Empty(r) \/ Emptied(r) \/ DeleteLogged(r)
  PROVE  IndInv'
<1> USE Facts
<1>1. input' = input /\ pc[r] \in AutoPC
  BY DEF Unlink, Unlinked, Empty, Emptied, DeleteLogged, At, AutoPC
<1>2. ASSUME NEW S \in SUBSET Row, NEW p \in AutoPC, Collect(r, S, p)
      PROVE  IndInv'
  <2>1. LocalType' /\ OthersRest(r) /\ pc'[r] = p
    BY <1>1, <1>2 DEF Collect, LocalType, OthersRest, Goto, PC
  <2> QED
    BY <1>1, <1>2, <2>1, RowsGone DEF Collect
<1>3. ASSUME NEW p \in AutoPC, DeleteCollected(r, p)
      PROVE  IndInv'
  <2>1. LocalType' /\ OthersRest(r) /\ pc'[r] = p
    BY <1>1, <1>3 DEF DeleteCollected, LocalType, OthersRest, Goto, PC
  <2> QED
    BY <1>1, <1>3, <2>1, RowsGone DEF DeleteCollected
<1>4. {"unlinking", "emptying", "remove", AfterUnlink(r)} \subseteq AutoPC
  BY DEF AutoPC, AfterUnlink
<1>5. /\ {x \in rows : x.mem = gid[r]} \in SUBSET Row
      /\ RowsOf(rows, gid[r]) \in SUBSET Row
  BY DEF IndInv, TypeOK, RowsOf
<1>6. CASE Unlink(r) \/ Empty(r) \/ DeleteLogged(r)
  BY <1>2, <1>4, <1>5, <1>6 DEF Unlink, Empty, DeleteLogged
<1>7. CASE Unlinked(r) \/ Emptied(r)
  BY <1>3, <1>4, <1>7 DEF Unlinked, Emptied
<1> QED
  BY <1>6, <1>7

\* A group row goes only when nobody has locked it.
LEMMA RemoveKeeps ==
  ASSUME IndInv, NEW r \in Req, Remove(r) \/ RemoveError(r)
  PROVE  IndInv'
<1> USE Facts
<1>1. /\ input' = input /\ pc[r] = "remove" /\ UNCHANGED <<rows, txVars, localVars>>
      /\ UNCHANGED <<gissued, gname, gversion, hist>>
      /\ groups' \subseteq groups /\ users' \subseteq users
      /\ groups' = groups \/ (lock[gid[r]] = Nobody /\ groups' = groups \ {gid[r]})
  BY DEF Remove, RemoveError, DeleteResource, At
<1>2. LocalType' /\ OthersRest(r) /\ pc'[r] = "done"
  BY <1>1 DEF Remove, RemoveError, LocalType, OthersRest, Respond, PC, Code
<1>3. TypeOK'
  BY <1>1, <1>2 DEF IndInv, TypeOK, LocalType
<1>4. HistoryShape' /\ ETagDeterminesName'
  BY <1>1 DEF IndInv, HistoryShape, ETagDeterminesName
<1>5. RowsAnswered'
  BY <1>1, <1>2, RowsStayAnswered
<1>6. LockedRowsRest(r)
  BY <1>1, GroupsAssumption DEF LockedRowsRest
<1>7. OpShape(r)' /\ UpdateShape(r)'
  BY <1>1, <1>2 DEF OpShape, UpdateShape, TxPC, AutoPC
<1>8. LockShape(r)'
  <2>1. \A g \in GroupId : lock[g] # r
    BY <1>1 DEF LockShape
  <2> QED
    BY <1>1, <2>1 DEF LockShape
<1> QED
  BY <1>1, <1>2, <1>3, <1>4, <1>5, <1>6, <1>7, <1>8, Assemble DEF RequestShape, TableInv

\* A transaction that is a victim waits, so it has not ended.
LEMMA FailureKeeps ==
  ASSUME IndInv, NEW r \in Req,
         Fail(r) \/ Refuse(r) \/ FindNoMember(r) \/ DeadlockDetected(r)
  PROVE  IndInv'
<1>1. input' = input /\ \E code \in {"400", "404", "500"} : Rollback(r, code)
  BY DEF Fail, Refuse, FindNoMember, DeadlockDetected, At
<1>2. {"400", "404", "500"} \subseteq Code
  BY DEF Code
<1>3. pc[r] # "done"
  <2>1. CASE Fail(r) \/ Refuse(r) \/ FindNoMember(r)
    BY <2>1 DEF Fail, Refuse, FindNoMember, InTx, At, TxPC
  <2>2. CASE DeadlockDetected(r)
    <3>1. WaitsFor(r) # {}
      BY <2>2 DEF DeadlockDetected
    <3> QED
      BY <3>1 DEF WaitsFor
  <2> QED
    BY <2>1, <2>2
<1> QED
  BY <1>1, <1>2, <1>3, RolledBack
-----------------------------------------------------------------------------
(* The theorems *)

LEMMA StepKeeps == IndInv /\ [Next]_vars => IndInv'
<1> SUFFICES ASSUME IndInv, [Next]_vars PROVE IndInv'
  OBVIOUS
<1>1. CASE UNCHANGED vars
  <2>1. TypeOK'
    BY <1>1 DEF IndInv, TypeOK
  <2>2. HistoryShape' /\ ETagDeterminesName'
    BY <1>1 DEF IndInv, HistoryShape, ETagDeterminesName
  <2>3. RowsAnswered'
    BY <1>1 DEF IndInv, RowsAnswered
  <2>4. ASSUME NEW r \in Req PROVE RequestShape(r)'
    <3>1. OpShape(r)'
      BY <1>1, Facts DEF OpShape
    <3>2. LockShape(r)'
      BY <1>1, Facts DEF LockShape
    <3>3. UpdateShape(r)'
      BY <1>1, Facts DEF UpdateShape, checkETagMatch
    <3> QED
      BY <3>1, <3>2, <3>3 DEF RequestShape
  <2> QED
    BY <2>1, <2>2, <2>3, <2>4 DEF IndInv
<1>2. ASSUME NEW r \in Req, Find(r) \/ Statement(r) \/ AutoStatement(r) PROVE IndInv'
  <2>1. CASE Find(r)
    BY <2>1, FindKeeps
  <2>2. CASE Statement(r)
    <3>1. CASE Commit(r)
      BY <3>1, PublishKeeps DEF Commit, At
    <3> QED
      BY <2>2, <3>1, QuietStatementKeeps, CheckNameKeeps, InsertGroupKeeps,
         UpdateGroupKeeps, FailureKeeps DEF Statement
  <2>3. CASE AutoStatement(r)
    BY <2>3, DeletionKeeps, RemoveKeeps DEF AutoStatement
  <2> QED
    BY <1>2, <2>1, <2>2, <2>3
<1>3. ASSUME NEW r \in Req, Trouble(r) PROVE IndInv'
  <2>1. CASE CommitUnacknowledged(r)
    BY <2>1, PublishKeeps DEF CommitUnacknowledged, At
  <2> QED
    BY <1>3, <2>1, FailureKeeps, DeletionKeeps, RemoveKeeps DEF Trouble
<1> QED
  BY <1>1, <1>2, <1>3 DEF Next, AllAnswered, Progress

THEOREM Invariance == Spec => []IndInv
<1> QED
  BY InitEstablishes, StepKeeps, PTL DEF Spec, SafetySpec

\* Every variable keeps its type: no statement of the handlers leaves a column, a
\* lock or a request's local data outside of what the table and the code provide.
THEOREM TypeCorrect == Spec => []TypeOK
<1>1. IndInv => TypeOK
  BY DEF IndInv
<1> QED
  BY Invariance, <1>1, PTL

\* No membership row in the table was written by a POST, PUT or PATCH that was
\* refused or is still running.
THEOREM NothingLeftByFailure == Spec => []FailedLeavesNothing
<1>1. IndInv => FailedLeavesNothing
  BY DEF IndInv, RowsAnswered, FailedLeavesNothing
<1> QED
  BY Invariance, <1>1, PTL

\* Version N of a group always meant the same displayName: UPDATE ... WHERE version
\* rejects the second writer of a version, and ids are not used again.
THEOREM ETagsAreTrue == Spec => []ETagDeterminesName
<1>1. IndInv => ETagDeterminesName
  BY DEF IndInv
<1> QED
  BY Invariance, <1>1, PTL

\* Only its own steps move a request.
LEMMA OthersStay ==
  ASSUME NEW w \in Req, Progress(w) \/ Trouble(w), NEW r \in Req, r # w,
         pc \in [Req -> PC]
  PROVE  pc'[r] = pc[r]
<1>1. CASE Find(w)
  BY <1>1 DEF Find, FindNothing, FindMismatch, FindForCreate, FindForUpdate,
     FindForDelete, Goto, Respond
<1>2. CASE Statement(w)
  BY <1>2 DEF Statement, InsertGroup, LoadMembers, CheckName, ClearMembers,
     ClearedMembers, FindMember, FindNoMember, InsertMember, AddedMembers,
     ReloadMembers, UpdateGroup, Commit, DeadlockDetected, Rollback, Goto, Respond
<1>3. CASE AutoStatement(w) \/ DeleteLogged(w)
  BY <1>3 DEF AutoStatement, DeleteLogged, Unlink, Unlinked, Empty, Emptied, Remove,
     Collect, DeleteCollected, Goto, Respond
<1>4. CASE Trouble(w) /\ ~DeleteLogged(w)
  BY <1>4 DEF Trouble, Fail, Refuse, CommitUnacknowledged, RemoveError, Rollback,
     Respond
<1> QED
  BY <1>1, <1>2, <1>3, <1>4 DEF Progress

\* A request that has come to its COMMIT commits, or is rolled back.
LEMMA CommitOrRollback ==
  ASSUME NEW r \in Req, Progress(r) \/ Trouble(r), pc[r] = "commit"
  PROVE  \/ Publish(r)
         \/ Rollback(r, "500")
<1>1. ~Find(r) /\ ~AutoStatement(r)
  BY DEF Find, FindNothing, FindMismatch, FindForCreate, FindForUpdate, FindForDelete,
     AutoStatement, Unlink, Unlinked, Empty, Emptied, Remove, At
<1>2. CASE Statement(r)
  BY <1>2 DEF Statement, InsertGroup, LoadMembers, CheckName, ClearMembers,
     ClearedMembers, FindMember, FindNoMember, InsertMember, AddedMembers,
     ReloadMembers, UpdateGroup, Commit, DeadlockDetected, At
<1>3. CASE Trouble(r)
  BY <1>3 DEF Trouble, Fail, Refuse, CommitUnacknowledged, DeleteLogged, RemoveError, At
<1> QED
  BY <1>1, <1>2, <1>3 DEF Progress

\* A PUT that commits raises the version by one, from a version that its If-Match
\* allows: it holds the row under the version it read until it is done.
THEOREM PutRaises == Spec => PutRaisesVersion
<1> DEFINE Raises == \A r \in Req : input[r].op = "replace" /\ Commits(r) =>
                       /\ gid[r] \in groups
                       /\ checkETagMatch(input[r].tags, gversion[gid[r]])
                       /\ gversion'[gid[r]] = gversion[gid[r]] + 1
<1>1. IndInv /\ [Next]_vars => [Raises]_vars
  <2> SUFFICES ASSUME IndInv, Next, NEW r \in Req, input[r].op = "replace", Commits(r)
               PROVE  /\ gid[r] \in groups
                      /\ checkETagMatch(input[r].tags, gversion[gid[r]])
                      /\ gversion'[gid[r]] = gversion[gid[r]] + 1
    BY Zenon
  <2> USE Facts
  <2>1. pc[r] = "commit" /\ pc'[r] = "done" /\ pc \in [Req -> PC] /\ answer \in [Req -> Code \union {"none"}]
    BY DEF Commits, LocalType
  <2>2. PICK w \in Req : Progress(w) \/ Trouble(w)
    BY <2>1 DEF Next, AllAnswered
  <2>3. w = r
    BY <2>1, <2>2, OthersStay
  <2>4. Publish(r)
    <3>1. ~Rollback(r, "500")
      BY <2>1 DEF Rollback, Respond, Commits
    <3> QED
      BY <2>1, <2>2, <2>3, <3>1, CommitOrRollback
  <2>5. gid[r] \in GroupId /\ lock[gid[r]] = r
    BY <2>1 DEF OpShape, UpdateShape
  <2>6. gid[r] \in groups /\ readVersion[r] + 1 = gversion[gid[r]] + 1
    BY <2>1, <2>5, VersionIsNew
  <2>7. gversion[gid[r]] = readVersion[r]
    BY <2>5 DEF LockShape
  <2>8. checkETagMatch(input[r].tags, readVersion[r])
    BY <2>1 DEF UpdateShape, TxPC, Updating
  <2>9. gversion' = [gversion EXCEPT ![gid[r]] = readVersion[r] + 1]
    BY <2>4, <2>5 DEF Publish
  <2>10. gversion'[gid[r]] = readVersion[r] + 1
    BY <2>5, <2>9 DEF IndInv, TypeOK
  <2> QED
    BY <2>6, <2>7, <2>8, <2>10
<1> QED
  BY Invariance, <1>1, PTL DEF Spec, SafetySpec, PutRaisesVersion
=============================================================================
