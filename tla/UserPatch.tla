----------------------------- MODULE UserPatch ------------------------------
(***************************************************************************)
(* What a PATCH or a PUT does to the attributes of a user: scim/patch.go   *)
(* and scim/mapper.go, as executePatchUser and executeReplaceUser use      *)
(* them.  Module Users has the races between requests; here one user goes  *)
(* through one request after the other, operation by operation.            *)
(*                                                                         *)
(* The user has a userName, a title that stands for all optional strings,  *)
(* active, a password, a name, a manager and one multi-valued attribute,   *)
(* which is any of the eight, or none if the requests address the others.  *)
(* An operator yields the set of users the code may produce: none if the  *)
(* request is refused, several if the outcome depends on the order in      *)
(* which Go iterates over a map.                                           *)
(***************************************************************************)
EXTENDS Integers, Sequences, FiniteSets, Functions

CONSTANTS
  UserName, Text, Word,   \* names; other strings; contents of items
  Person,                 \* ids of users that managers refer to
  Collections,            \* multi-valued attributes under consideration, "none" for the others
  Paths,                  \* the others that operations address
  Lists,                  \* item lists that clients send: sequences of RawItem
  Updates,                \* partial items that clients send
  Filters,                \* filters of paths: conjunctions of clauses
  Maps,                   \* values of operations without a path: two entries
  MaxOps,                 \* operations in one request, for each of Collections
  MaxItems,               \* items that clients give a user
  Null, Absent,           \* JSON null; a member that is not there
  Other,                  \* a JSON value of a type the attribute does not have
  Opaque                  \* a $ref that does not end in an id

ASSUME UserPatchAssumption ==
  /\ Collections \subseteq {"emails", "phoneNumbers", "addresses", "ims", "photos",
                            "entitlements", "roles", "x509Certificates", "none"}
  /\ MaxOps \in [Collections -> Nat \ {0}] /\ MaxItems \in Nat
  /\ {Null, Absent, Other, Opaque} \intersect (UserName \union Text \union Person) = {}
  /\ Null \notin {Absent, Other, Opaque} /\ Absent \notin {Other, Opaque}

\* A string in an item: "loose" has space around it, "upper" differs in letter case.
NoWord == [word |-> Null, spelling |-> "plain"]
Value == [word : Word, spelling : {"plain", "loose", "upper"}] \union {NoWord}

\* A type is not given, one of the canonical ones, or that in another letter case.
Type == {"", "canonical", "CANONICAL"}
Item == [value : Value, type : Type, primary : BOOLEAN]
SubName == {"familyName", "givenName"}

\* What clients send: items, names and managers with some of their members.
RawItem == UNION {{Restrict(x, D) : x \in Item} : D \in SUBSET {"value", "type", "primary"}}
RawName == UNION {[S -> Text \union {Null, Other}] : S \in SUBSET SubName}
RawManager == [value : Person \union {Null, Absent}, ref : Person \union {Null, Absent, Opaque}]

\* The values that clients send for a path.
Sent(path) ==
  CASE path = "userName" -> UserName \union {Null, Other}
    [] path = "active" -> BOOLEAN \union {Null, Other}
    [] path \in {"title", "password", "name.familyName"} -> Text \union {Null, Other}
    [] path = "name" -> RawName \union {Null, Other}
    [] path = "manager" -> RawManager \union Person \union {Null, Other}
    [] path = "manager.value" -> Person \union {Null, Other}
    [] path = "manager.$ref" -> Person \union {Null, Opaque, Other}
    [] path = "items" -> Lists \union {Null, Other}
    [] OTHER -> {Null, Other}

\* bcrypt: hashes of a password differ by their salt.
Hash == [of : Text, salt : {0, 1}]

\* A clause compares one attribute; what is an object or an array is nothing else.
ASSUME SentAssumption ==
  /\ Lists \subseteq Seq(RawItem) /\ Updates \subseteq RawItem
  /\ \A f \in Filters : \A i \in DOMAIN f :
       f[i].arg \in RawItem /\ \E k \in {"value", "type", "primary"} : DOMAIN f[i].arg = {k}
  /\ \A m \in Maps : \A i \in {1, 2} : m[i].value \in Sent(m[i].path)
  /\ Null \notin Hash /\ \A c \in {Null, Other} : c \notin Seq(RawItem)
  /\ \A v \in RawManager : v \notin Person \union {Null, Other, Absent}

User == [userName : UserName, title : Text \union {Null}, active : BOOLEAN,
         password : Hash \union {Null},
         name : [SubName -> Text \union {Null}],
         items : Seq(Item),
         manager : [value : Person \union {Null}, ref : Person \union {Null, Opaque},
                    display : Person \union {Null}]]

VARIABLES
  attr,       \* the name of the multi-valued attribute
  people,     \* users of the workspace that exist
  user,       \* the stored user
  pc,         \* "idle", or "patching" while a PATCH is executed
  work,       \* the copy it works on
  left        \* operations it may still have

vars == <<attr, people, user, pc, work, left>>

TypeOK ==
  /\ attr \in Collections /\ people \subseteq Person
  /\ user \in User /\ work \in User
  /\ pc \in {"idle", "patching"} /\ left \in 0 .. MaxOps[attr]

NoManager == [value |-> Null, ref |-> Null, display |-> Null]

\* ClearMutableAttributes.
Cleared(u) ==
  [u EXCEPT !.title = Null, !.active = TRUE, !.password = Null,
            !.name = [s \in SubName |-> Null], !.items = <<>>, !.manager = NoManager]

Init ==
  /\ attr \in Collections
  /\ people \in IF attr = "none" THEN SUBSET Person ELSE {{}}
  /\ user \in {Cleared([userName |-> n, title |-> Null, active |-> TRUE,
                        password |-> Null, name |-> Null, items |-> <<>>,
                        manager |-> NoManager]) : n \in UserName}
  /\ pc = "idle" /\ work = user /\ left = 0
-----------------------------------------------------------------------------
\* CanonicalizeEmail trims and keeps the case of the local part, CanonicalizeIM
\* drops space and case, CanonicalizePhoneNumber trims; the others store strings
\* as they come.
CanonicalValue(v) ==
  CASE attr = "ims" -> [v EXCEPT !.spelling = "plain"]
    [] attr \in {"emails", "phoneNumbers"} /\ v.spelling = "loose" ->
         [v EXCEPT !.spelling = "plain"]
    [] OTHER -> v

\* validateReference and ValidateX509CertificateValue refuse space.
Acceptable(v) == attr \in {"photos", "x509Certificates"} => v.spelling # "loose"

CanonicalType(t) ==
  CASE attr = "emails" -> "canonical"
    [] attr \in {"entitlements", "roles", "x509Certificates"} -> t
    [] OTHER -> IF t = "CANONICAL" THEN "canonical" ELSE t

\* The key of the Deduplicate functions: trimmed, and but for photos and
\* certificates without letter case.
ItemKey(x) ==
  <<IF x.type = "CANONICAL" THEN "canonical" ELSE x.type, x.value.word,
    attr \in {"photos", "x509Certificates"} /\ x.value.spelling = "upper">>

SameKey(x, y) == ItemKey(x) = ItemKey(y)

\* A loop over a sequence, as a function of the steps done: FoldLeft, in a form
\* that can be proved about.
FoldUp(Op(_, _), base, s) ==
  LET upTo[n \in 0 .. Len(s)] == IF n = 0 THEN base ELSE Op(upTo[n - 1], s[n])
  IN  upTo[Len(s)]

Merged(kept, x) ==
  [i \in DOMAIN kept |->
     IF SameKey(kept[i], x) THEN [kept[i] EXCEPT !.primary = @ \/ x.primary] ELSE kept[i]]

Deduplicate(items) ==
  FoldUp(LAMBDA kept, x : IF \E i \in DOMAIN kept : SameKey(kept[i], x)
                          THEN Merged(kept, x) ELSE Append(kept, x),
         <<>>, items)

Given(raw, key, default) == IF key \in DOMAIN raw THEN raw[key] ELSE default

\* buildEmail and the other builders: what is not given is empty.
Build(raw) ==
  [value   |-> CanonicalValue(Given(raw, "value", NoWord)),
   type    |-> CanonicalType(Given(raw, "type", "")),
   primary |-> Given(raw, "primary", FALSE)]

\* toItemList, ValidateSinglePrimary and the checks of the builders.
ValidItems(list) ==
  /\ list \notin {Null, Other}
  /\ \A i \in DOMAIN list : Acceptable(Given(list[i], "value", NoWord))
  /\ Cardinality({i \in DOMAIN list : Given(list[i], "primary", FALSE)}) <= 1

\* A new primary item demotes the others.
Appended(items, x) ==
  Append(IF x.primary THEN [i \in DOMAIN items |-> [items[i] EXCEPT !.primary = FALSE]]
         ELSE items, x)

addToMultiValued(u, list) ==
  IF ValidItems(list)
  THEN {[u EXCEPT !.items =
           Deduplicate(FoldUp(LAMBDA s, raw : Appended(s, Build(raw)), @, list))]}
  ELSE {}

replaceMultiValued(u, list) ==
  IF list = Null THEN {[u EXCEPT !.items = <<>>]}
  ELSE addToMultiValued([u EXCEPT !.items = <<>>], list)
-----------------------------------------------------------------------------
\* Operations with a filter.  parseEqFilter looks for the first clause of the
\* form  attribute eq "string"  and ignores everything else; here, its index.
ParseEq(filter) ==
  {i \in DOMAIN filter : filter[i].op = "eq" /\ \A j \in 1 .. i - 1 : filter[j].op # "eq"}

\* strings.EqualFold.
EqualFold(v, w) == v.word = w.word /\ (v.spelling = "loose" <=> w.spelling = "loose")

\* A clause has a value for one member of an item.
Holds(c, x) ==
  \A k \in DOMAIN c.arg :
    CASE k = "value"   -> EqualFold(x.value, c.arg.value)
      [] k = "type"    -> (x.type = "") = (c.arg.type = "")
      [] k = "primary" -> x.primary = c.arg.primary

Matches(x, filter) == \E i \in ParseEq(filter) : Holds(filter[i], x)

\* setEmailSubAttribute and the like, for one member or all of an object.
SetSubAttributes(x, upd) ==
  [value   |-> IF "value" \in DOMAIN upd THEN CanonicalValue(upd.value) ELSE x.value,
   type    |-> IF "type" \in DOMAIN upd THEN CanonicalType(upd.type) ELSE x.type,
   primary |-> Given(upd, "primary", x.primary)]

\* Faulty variant: the others keep their flag.
UpdatedAtOnly(items, i, upd) == [items EXCEPT ![i] = SetSubAttributes(@, upd)]

UpdatedAt(items, i, upd) ==
  [j \in DOMAIN items |->
     CASE j = i -> SetSubAttributes(items[i], upd)
       [] j # i /\ Given(upd, "primary", FALSE) -> [items[j] EXCEPT !.primary = FALSE]
       [] OTHER -> items[j]]

\* Faulty variant: the filter is only used to find out whether there is a target.
UpdateAll(items, filter, upd) ==
  FoldUp(LAMBDA s, i : UpdatedAt(s, i, upd), items, [i \in DOMAIN items |-> i])

\* The loop looks at each item as the updates before it left it.
UpdateMatching(items, filter, upd) ==
  FoldUp(LAMBDA s, i : IF Matches(s[i], filter) THEN UpdatedAt(s, i, upd) ELSE s,
         items, [i \in DOMAIN items |-> i])

applyFilteredUpdate(u, filter, upd) ==
  IF /\ upd # Other /\ Acceptable(Given(upd, "value", NoWord))
     /\ \E i \in DOMAIN u.items : Matches(u.items[i], filter)
  THEN {[u EXCEPT !.items = Deduplicate(UpdateMatching(@, filter, upd))]}
  ELSE {}

\* removeMatching.
Removed(items, filter) ==
  FoldUp(LAMBDA kept, x : IF Matches(x, filter) THEN kept ELSE Append(kept, x), <<>>, items)

\* The sub-attribute that the path may name after the filter is not looked at.
applyFilteredRemove(u, filter) == {[u EXCEPT !.items = Removed(@, filter)]}
-----------------------------------------------------------------------------
IsText(v) == v \in Text \union {Null}

setNameAttribute(u, v) ==
  CASE v = Null -> {[u EXCEPT !.name = [s \in SubName |-> Null]]}
    [] v # Null /\ v # Other /\ \A s \in DOMAIN v : s \in SubName /\ IsText(v[s]) ->
         {[u EXCEPT !.name = [s \in SubName |-> Given(v, s, @[s])]]}
    [] OTHER -> {}

setSubAttribute(u, s, v) == IF IsText(v) THEN {[u EXCEPT !.name[s] = v]} ELSE {}

\* ExtractUUIDFromRef finds an id.
Known(ref) == ref \in Person

setEnterpriseManager(u, v) ==
  LET m == u.manager
  IN CASE v = Null -> {[u EXCEPT !.manager = NoManager]}
       [] v = Other -> {}
       [] v \in Person -> {[u EXCEPT !.manager = [@ EXCEPT !.value = v, !.display = Null]]}
       [] OTHER ->
            IF v.value \in Person /\ Known(v.ref) /\ v.ref # v.value THEN {}
            ELSE {[u EXCEPT !.manager =
                     [value   |-> IF v.value \notin Person /\ Known(v.ref) THEN v.ref
                                  ELSE IF v.value = Absent THEN m.value ELSE v.value,
                      ref     |-> IF v.ref = Absent THEN m.ref ELSE v.ref,
                      display |-> Null]]}

setManagerValue(u, v) ==
  IF v = Other THEN {}
  ELSE {[u EXCEPT !.manager = [@ EXCEPT !.value = v, !.display = Null]]}

setManagerRef(u, v) ==
  CASE v = Other -> {}
    [] v \in Person -> {[u EXCEPT !.manager = [value |-> v, ref |-> v, display |-> Null]]}
    [] OTHER -> {[u EXCEPT !.manager.ref = v]}

setUserName(u, v) == IF v \in UserName THEN {[u EXCEPT !.userName = v]} ELSE {}

\* null is not a Boolean here, but removing active sets it to FALSE.
setActive(u, v) == IF v \in BOOLEAN THEN {[u EXCEPT !.active = v]} ELSE {}

\* Faulty variant: the password is hashed again.
SamePasswordNever(u, v) == FALSE

SamePassword(u, v) == u.password # Null /\ u.password.of = v

setPassword(u, v) ==
  CASE v = Null -> {[u EXCEPT !.password = Null]}
    [] v = Other -> {}
    [] SamePassword(u, v) -> {u}
    [] OTHER -> {[u EXCEPT !.password = [of |-> v, salt |-> n]] : n \in {0, 1}}

setTitle(u, v) == IF IsText(v) THEN {[u EXCEPT !.title = v]} ELSE {}

\* The dispatch on the attribute that applyAdd, applyReplace and applyValueMap
\* share; what is read-only or unknown is refused.
Assigned(u, path, v, isReplace) ==
  CASE path = "userName" -> setUserName(u, v)
    [] path = "title" -> setTitle(u, v)
    [] path = "active" -> setActive(u, v)
    [] path = "password" -> setPassword(u, v)
    [] path = "name" -> setNameAttribute(u, v)
    [] path = "name.familyName" -> setSubAttribute(u, "familyName", v)
    [] path = "manager" -> setEnterpriseManager(u, v)
    [] path = "manager.value" -> setManagerValue(u, v)
    [] path = "manager.$ref" -> setManagerRef(u, v)
    [] path = "items" -> IF isReplace THEN replaceMultiValued(u, v)
                         ELSE addToMultiValued(u, v)
    [] OTHER -> {}

applyRemove(u, path) ==
  Assigned(u, path, IF path = "active" THEN FALSE ELSE Null, TRUE)

applyAdd(u, path, v) == IF v = Null THEN {} ELSE Assigned(u, path, v, FALSE)

applyReplace(u, path, v) == Assigned(u, path, v, TRUE)

\* Without a path, the members of the value come in any order.
applyValueMap(u, e1, e2, isReplace) ==
  LET both(a, b) == UNION {Assigned(v, b.path, b.value, isReplace) :
                             v \in Assigned(u, a.path, a.value, isReplace)}
  IN  both(e1, e2) \union both(e2, e1)

\* resolveManagerMetadata.
Resolved(u) ==
  LET m == u.manager IN
  [u EXCEPT !.manager =
     CASE m.value = Null -> NoManager
       [] m.value \in people -> [value |-> m.value, ref |-> m.value, display |-> m.value]
       [] OTHER -> [m EXCEPT !.display = Null]]
-----------------------------------------------------------------------------
\* The attributes that clients address.
Addressed == IF attr = "none" THEN Paths ELSE {"items"}

Small(outcomes) == \A u \in outcomes : Len(u.items) <= MaxItems

Start ==
  /\ pc = "idle" /\ pc' = "patching" /\ left' = MaxOps[attr] /\ work' = user
  /\ UNCHANGED <<attr, people, user>>

\* Faulty variant: what the operations before the error did is kept.
OperationKeeps(outcomes) ==
  /\ pc = "patching" /\ left > 0 /\ Small(outcomes)
  /\ IF outcomes = {} THEN user' = work /\ work' = work /\ pc' = "idle" /\ left' = 0
     ELSE work' \in outcomes /\ left' = left - 1 /\ UNCHANGED <<pc, user>>
  /\ UNCHANGED <<attr, people>>

\* An error anywhere ends the request and drops the copy.
Operation(outcomes) ==
  /\ pc = "patching" /\ left > 0 /\ Small(outcomes)
  /\ IF outcomes = {} THEN work' = user /\ pc' = "idle" /\ left' = 0
     ELSE work' \in outcomes /\ left' = left - 1 /\ UNCHANGED pc
  /\ UNCHANGED <<attr, people, user>>

Add(p) == \E v \in Sent(p) : Operation(applyAdd(work, p, v))

Replace(p) == \E v \in Sent(p) : Operation(applyReplace(work, p, v))

Clear(p) == Operation(applyRemove(work, p))

MapsSent == {m \in Maps : {m[1].path, m[2].path} \subseteq Addressed}

AddMap == \E m \in MapsSent : Operation(applyValueMap(work, m[1], m[2], FALSE))

ReplaceMap == \E m \in MapsSent : Operation(applyValueMap(work, m[1], m[2], TRUE))

\* applyFilteredAdd without a sub-attribute does not look at the filter.
AddFiltered ==
  /\ attr # "none"
  /\ \E f \in Filters, upd \in Updates :
       \/ Cardinality(DOMAIN upd) = 1 /\ Operation(applyFilteredUpdate(work, f, upd))
       \/ Operation(addToMultiValued(work, <<upd>>))

ReplaceFiltered ==
  /\ attr # "none"
  /\ \E f \in Filters, upd \in Updates \union {Other} :
       Operation(applyFilteredUpdate(work, f, upd))

RemoveFiltered ==
  attr # "none" /\ \E f \in Filters : Operation(applyFilteredRemove(work, f))

\* The end of executePatchUser.  A user that did not change is not written.
Save ==
  /\ pc = "patching" /\ left < MaxOps[attr]
  /\ user' = Resolved(work) /\ work' = user' /\ pc' = "idle" /\ left' = 0
  /\ UNCHANGED <<attr, people>>
-----------------------------------------------------------------------------
\* replaceCollectionEmails and the like.
ReplaceCollection(list) == Deduplicate([i \in DOMAIN list |-> Build(list[i])])

\* A member of the name that is not given stays as it is.
applyNameAttribute(old, name) == [s \in SubName |-> Given(name, s, old[s])]

\* applyEnterpriseManager has the rules of setEnterpriseManager.
applyEnterpriseExtension(u, manager) ==
  IF manager = Absent THEN {u} ELSE setEnterpriseManager(u, manager)

\* executeReplaceUser: ClearMutableAttributes, then ApplyFromScimInput on the
\* members that are there.
Replaced(u, body) ==
  LET c == [Cleared(u) EXCEPT !.userName = Given(body, "userName", @),
                              !.title = Given(body, "title", @),
                              !.active = Given(body, "active", @),
                              !.name = applyNameAttribute(@, body.name),
                              !.items = IF ValidItems(body.items)
                                        THEN ReplaceCollection(body.items) ELSE @]
      accepted == ValidItems(body.items) /\ Given(body, "userName", Absent) # Null
  IN  IF accepted THEN {Resolved(v) : v \in applyEnterpriseExtension(c, body.manager)}
      ELSE {}

\* Faulty variant: a $ref is only returned when it could be resolved.
ManagerMapResolved(m) ==
  [value |-> m.value, ref |-> IF m.display = Null THEN Absent ELSE m.ref]

\* buildManagerMap.
ManagerMap(m) == [value |-> m.value, ref |-> IF m.ref = Null THEN Absent ELSE m.ref]

\* emailsToMaps and the like: what is empty is left out.
ItemMap(x) ==
  Restrict(x, {"primary"} \union (IF x.value = NoWord THEN {} ELSE {"value"})
                          \union (IF x.type = "" THEN {} ELSE {"type"}))

\* UserToScimResponse, as far as a PUT of it has an effect: without the password,
\* which is never returned, and the read-only display name of the manager.
Response(u) ==
  [userName |-> u.userName, title |-> u.title, active |-> u.active,
   name |-> Restrict(u.name, {s \in SubName : u.name[s] # Null}),
   items |-> [i \in DOMAIN u.items |-> ItemMap(u.items[i])],
   manager |-> IF u.manager.value = Null THEN Absent ELSE ManagerMap(u.manager)]

Put(body) ==
  /\ pc = "idle" /\ Replaced(user, body) # {}
  /\ user' \in Replaced(user, body) /\ work' = user'
  /\ UNCHANGED <<attr, people, pc, left>>

\* A client sends items and a manager, or sends back what it has read.
PutNew ==
  \E items \in IF "items" \in Addressed THEN Lists \union {Other} ELSE {<<>>},
     manager \in IF "manager" \in Addressed THEN Sent("manager") ELSE {Absent} :
    Put([name |-> << >>, items |-> items, manager |-> manager])

PutBack == Put(Response(user))

\* Other users come and go, which matters to managers only.
PersonChanges ==
  /\ attr = "none"
  /\ \E p \in Person : people' = (people \ {p}) \union ({p} \ people)
  /\ UNCHANGED <<attr, user, pc, work, left>>

Next ==
  \/ Start \/ Save
  \/ \E p \in Addressed : Add(p) \/ Replace(p) \/ Clear(p)
  \/ AddMap \/ ReplaceMap \/ AddFiltered \/ ReplaceFiltered \/ RemoveFiltered
  \/ PutNew \/ PutBack \/ PersonChanges

Spec == Init /\ [][Next]_vars
-----------------------------------------------------------------------------
Keys(u) == {ItemKey(x) : x \in Range(u.items)}
Primaries(u) == {i \in DOMAIN u.items : u.items[i].primary}

\* At most one item is primary, whatever operations and merges of duplicates a
\* request goes through.
OnePrimary == Cardinality(Primaries(work)) <= 1

\* No two items are the same up to spelling.
NoDuplicates == Cardinality(Keys(work)) = Len(work.items)

\* Every sequence of operations, of merges of duplicates and of demotions leaves a
\* list without duplicates in which at most one item is primary.
ItemsSound == OnePrimary /\ NoDuplicates

\* Adding items loses none, adds all, and takes the primary flag from an item only
\* to give it to an added one.
AddKeeps ==
  pc = "idle" /\ attr # "none" =>
    \A list \in Lists : \A r \in addToMultiValued(user, list) :
      /\ Keys(r) = Keys(user) \union {ItemKey(Build(list[i])) : i \in DOMAIN list}
      /\ Primaries(user) # {} => Primaries(r) # {}

\* An operation that a client repeats because it missed the answer changes nothing.
RetryChangesNothing ==
  pc = "idle" =>
    \A p \in Addressed : \A v \in Sent(p) :
      /\ \A r \in applyAdd(user, p, v) : applyAdd(r, p, v) = {r}
      /\ \A r \in applyReplace(user, p, v) : applyReplace(r, p, v) = {r}
      /\ \A r \in applyRemove(user, p) : applyRemove(r, p) = {r}

\* value and $ref of the manager name the same user.
ManagerAgrees ==
  user.manager.value # Null /\ user.manager.ref \in Person
    => user.manager.ref = user.manager.value

\* A client that sends back what it has read changes nothing but the password,
\* which a PUT without one clears, provided that the manager is not one that the
\* server itself would refuse.
ReadBackUnchanged ==
  pc = "idle" /\ ManagerAgrees
    => Replaced(user, Response(user)) = {Resolved([user EXCEPT !.password = Null])}

\* A user without a manager has no $ref or display name of one left over, not even
\* of a request that set them and was refused.
NoManagerLeftOver ==
  user.manager.value = Null => user.manager = NoManager

\* A filtered update leaves items alone that the filter does not match, but for
\* the primary flag; filters on the flag itself are excluded.
UpdateOnlyMatching ==
  pc = "idle" /\ attr # "none" =>
    \A f \in Filters, upd \in Updates :
      (\A i \in ParseEq(f) : DOMAIN f[i].arg # {"primary"})
        => \A r \in applyFilteredUpdate(user, f, upd) :
             \A x \in Range(user.items) : ~Matches(x, f) => ItemKey(x) \in Keys(r)

\* An operation on some of the items keeps the others: additions as well as filtered
\* updates, whatever is merged or demoted on the way.
OthersKept == AddKeeps /\ UpdateOnlyMatching
-----------------------------------------------------------------------------
\* The inductive invariant.  Stored items are as the builders make them.
Canonical(x) ==
  CanonicalValue(x.value) = x.value /\ CanonicalType(x.type) = x.type /\ Acceptable(x.value)

Sound(items) ==
  /\ items \in Seq(Item)
  /\ \A i \in DOMAIN items : Canonical(items[i])
  /\ \A i, j \in DOMAIN items : i # j => ~SameKey(items[i], items[j])
  /\ \A i, j \in DOMAIN items : items[i].primary /\ items[j].primary => i = j

IndInv == TypeOK /\ NoManagerLeftOver /\ Sound(user.items) /\ Sound(work.items)
=============================================================================
