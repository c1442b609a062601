------------------------------ MODULE Documents ------------------------------
(***************************************************************************)
(* Documents and who may do what to them: the decision table (roles and    *)
(* their permissions, visibility policy, relation tuples), the guards of   *)
(* the routes, and the handlers that write documents and tuples.           *)
(*   src/src/modules/document/document.service.ts, document.controller.ts  *)
(*   src/src/modules/authorization/ (RBAC, ABAC and ReBAC)                 *)
(*   src/src/common/guards/permissions.guard.ts, relation.guard.ts         *)
(*                                                                         *)
(* A guard and the handler behind it ask one query after the other; other  *)
(* requests run in between.  Document ids are UUIDs and never come back.   *)
(***************************************************************************)
EXTENDS FiniteSets

CONSTANTS
    User,
    Doc,      \* document ids
    Request,  \* requests in progress at the same time
    RoleSets  \* role sets that a request's user may have

CONSTANTS NoUser, NoDoc

Role == {"user", "moderator", "admin", "super_admin"}
Permission == {"read", "write", "delete", "read_any"}
Relation == {"owner", "editor", "viewer"}
Visibility == {"private", "internal", "public"}
Op == {"update", "remove", "share", "unshare"}

ASSUME RoleSetsAssumption == RoleSets \subseteq SUBSET Role
ASSUME NullsAssumption == NoUser \notin User /\ NoDoc \notin Doc

VARIABLES
    doc,     \* the documents table; an id is unborn, live or gone
    tuple,   \* the relation tuples: <<subject, relation, document>>
    request, \* the handlers at work
    granted, \* history: who was given an owner or editor tuple, or wrote as super_admin
    halfway, \* history: documents whose create() failed before the owner tuple
    raced    \* history: documents removed while a tuple for them was on its way

vars == <<doc, tuple, request, granted, halfway, raced>>

Document == [state: {"unborn", "live", "gone"},
             ownerId: User \cup {NoUser},
             visibility: Visibility,
             body: User \cup {NoUser}]  \* the contents: who wrote them

Unborn == [state |-> "unborn", ownerId |-> NoUser, visibility |-> "private", body |-> NoUser]

RequestState == [step: {"idle", "relate", "relation", "visibility", "write", "remove",
                        "find", "grant", "revoke"},
                 op: Op \cup {"none", "create"},
                 sub: User \cup {NoUser}, roles: SUBSET Role, doc: Doc \cup {NoDoc},
                 visible: Visibility \cup {"unset"}] \* the visibility asked for

Idle == [step |-> "idle", op |-> "none", sub |-> NoUser, roles |-> {}, doc |-> NoDoc,
         visible |-> "unset"]

Live == {d \in Doc: doc[d].state = "live"}

-----------------------------------------------------------------------------
(* RBAC: permissions of the roles *)

RolePermissions ==
    [role \in Role |->
       CASE role = "user" -> {"read", "write", "delete"}
         [] role \in {"moderator", "admin"} -> {"read", "write", "delete", "read_any"}
         [] role = "super_admin" -> {}]

IsSuperAdmin(R) == "super_admin" \in R

HasPermission(R, p) == IsSuperAdmin(R) \/ \E role \in R: p \in RolePermissions[role]

(* ReBAC: owner implies editor implies viewer *)

\* Faulty variant: the implication is turned round.
WeakerRelations(relation) ==
    CASE relation = "owner" -> {"owner"}
      [] relation = "editor" -> {"editor", "owner"}
      [] relation = "viewer" -> {"viewer", "editor", "owner"}

Implied(relation) ==
    CASE relation = "owner" -> {"owner", "editor", "viewer"}
      [] relation = "editor" -> {"editor", "viewer"}
      [] relation = "viewer" -> {"viewer"}

GrantorsOf(required) == {relation \in Relation: required \in Implied(relation)}

Check(u, required, d) == \E relation \in GrantorsOf(required): <<u, relation, d>> \in tuple

\* Faulty variant: only viewer tuples are listed.
ObjectIdsOf(u, required) == {d \in Doc: <<u, required, d>> \in tuple}

ObjectIdsFor(u, required) ==
    {d \in Doc: \E relation \in GrantorsOf(required): <<u, relation, d>> \in tuple}

(* ABAC: the policy document.read *)

ReadPolicy(u, d) == doc[d].visibility \in {"public", "internal"} \/ doc[d].ownerId = u

(* The composed decision, can(), for one document *)

CanRead(u, R, d) ==
    \/ IsSuperAdmin(R)
    \/ /\ HasPermission(R, "read")
       /\ HasPermission(R, "read_any") \/ ReadPolicy(u, d) \/ Check(u, "viewer", d)

CanWrite(u, R, d) ==
    \/ IsSuperAdmin(R)
    \/ HasPermission(R, "write") /\ (doc[d].ownerId = u \/ Check(u, "editor", d))

CanDelete(u, R, d) ==
    \/ IsSuperAdmin(R)
    \/ HasPermission(R, "delete") /\ (doc[d].ownerId = u \/ Check(u, "owner", d))

\* readableDocumentWhere(): the filter of the list.
Readable(u, R) ==
    {d \in Live:
       /\ HasPermission(R, "read")
       /\ \/ IsSuperAdmin(R) \/ HasPermission(R, "read_any")
          \/ doc[d].visibility \in {"public", "internal"}
          \/ doc[d].ownerId = u
          \/ d \in ObjectIdsFor(u, "viewer")}

(* The guards of the routes *)

Needs(op) ==
    [permission |-> IF op = "remove" THEN "delete" ELSE "write",
     relation |-> IF op = "update" THEN "editor" ELSE "owner"]

RelationGuard(u, R, op, d) == IsSuperAdmin(R) \/ Check(u, Needs(op).relation, d)

RouteAllows(u, R, op, d) == HasPermission(R, Needs(op).permission) /\ RelationGuard(u, R, op, d)

-----------------------------------------------------------------------------
Init ==
    /\ doc = [d \in Doc |-> Unborn]
    /\ tuple = {}
    /\ request = [r \in Request |-> Idle]
    /\ granted = {}
    /\ halfway = {}
    /\ raced = {}

Finish(r) == request' = [request EXCEPT ![r] = Idle]
Goto(r, step) == request' = [request EXCEPT ![r].step = step]

\* create(), up to its grant: the caller is the owner.
Create(r, u, R, d, visibility) ==
    /\ request[r].step = "idle"
    /\ HasPermission(R, "write")
    /\ doc[d].state = "unborn"
    /\ doc' = [doc EXCEPT ![d] = [state |-> "live", ownerId |-> u, visibility |-> visibility,
                                  body |-> u]]
    /\ request' = [request EXCEPT ![r] = [Idle EXCEPT !.step = "relate", !.op = "create",
                                                      !.sub = u, !.doc = d]]
    /\ UNCHANGED <<tuple, granted, halfway, raced>>

Grant(u, relation, d) ==
    /\ tuple' = tuple \cup {<<u, relation, d>>}
    /\ granted' = IF relation = "viewer" THEN granted ELSE granted \cup {<<u, d>>}

\* create(), its grant of the owner relation.
GrantOwner(r) ==
    /\ request[r].step = "relate"
    /\ Grant(request[r].sub, "owner", request[r].doc)
    /\ Finish(r)
    /\ UNCHANGED <<doc, halfway, raced>>

\* A request for one document comes in, and has the permission.
Begin(r, u, R, op, d) ==
    /\ request[r].step = "idle"
    /\ HasPermission(R, Needs(op).permission)
    /\ doc[d].state # "unborn"
    /\ request' = [request EXCEPT ![r] = [Idle EXCEPT !.step = "relation", !.op = op, !.sub = u,
                                                      !.roles = R, !.doc = d]]
    /\ UNCHANGED <<doc, tuple, granted, halfway, raced>>

FirstStep(op) ==
    CASE op = "update" -> "visibility"
      [] op = "remove" -> "remove"
      [] op = "share" -> "find"
      [] op = "unshare" -> "revoke"

\* The relation guard lets it through.
PassRelationGuard(r) ==
    /\ request[r].step = "relation"
    /\ RelationGuard(request[r].sub, request[r].roles, request[r].op, request[r].doc)
    /\ Goto(r, FirstStep(request[r].op))
    /\ UNCHANGED <<doc, tuple, granted, halfway, raced>>

\* update(), up to its write: whoever changes the visibility owns the document.
CheckVisibility(r, visible) ==
    /\ request[r].step = "visibility"
    /\ visible = "unset" \/ IsSuperAdmin(request[r].roles)
         \/ /\ doc[request[r].doc].state = "live"
            /\ doc[request[r].doc].ownerId = request[r].sub
    /\ request' = [request EXCEPT ![r].step = "write", ![r].visible = visible]
    /\ UNCHANGED <<doc, tuple, granted, halfway, raced>>

NewVisibility(r) ==
    IF request[r].visible = "unset" THEN doc[request[r].doc].visibility ELSE request[r].visible

\* update(), its write; contents and, if asked for, the visibility.
Update(r) ==
    /\ request[r].step = "write"
    /\ doc[request[r].doc].state = "live"
    /\ doc' = [doc EXCEPT ![request[r].doc] =
                  [doc[request[r].doc] EXCEPT !.body = request[r].sub,
                                              !.visibility = NewVisibility(r)]]
    /\ granted' = IF IsSuperAdmin(request[r].roles)
                  THEN granted \cup {<<request[r].sub, request[r].doc>>} ELSE granted
    /\ Finish(r)
    /\ UNCHANGED <<tuple, halfway, raced>>

TuplesOf(d) == {t \in tuple: t[3] = d}

\* A tuple for d may still be written by a request that found d alive.
GrantUnderWay(d) ==
    \E r \in Request: request[r].step \in {"relate", "grant"} /\ request[r].doc = d

\* Faulty variant: the tuples stay behind.
RemoveDocumentOnly(r) ==
    /\ request[r].step = "remove"
    /\ doc[request[r].doc].state = "live"
    /\ doc' = [doc EXCEPT ![request[r].doc].state = "gone"]
    /\ raced' = IF GrantUnderWay(request[r].doc) THEN raced \cup {request[r].doc} ELSE raced
    /\ Finish(r)
    /\ UNCHANGED <<tuple, granted, halfway>>

\* remove(): the document and its tuples, in one transaction.
Remove(r) ==
    /\ request[r].step = "remove"
    /\ doc[request[r].doc].state = "live"
    /\ doc' = [doc EXCEPT ![request[r].doc].state = "gone"]
    /\ tuple' = tuple \ TuplesOf(request[r].doc)
    /\ raced' = IF GrantUnderWay(request[r].doc) THEN raced \cup {request[r].doc} ELSE raced
    /\ Finish(r)
    /\ UNCHANGED <<granted, halfway>>

\* share(), up to its grant: the document exists, and so does the grantee.
FindDocument(r) ==
    /\ request[r].step = "find"
    /\ doc[request[r].doc].state = "live"
    /\ Goto(r, "grant")
    /\ UNCHANGED <<doc, tuple, granted, halfway, raced>>

\* share(), its grant; ownership cannot be shared.
Share(r, u, relation) ==
    /\ request[r].step = "grant"
    /\ relation # "owner"
    /\ Grant(u, relation, request[r].doc)
    /\ Finish(r)
    /\ UNCHANGED <<doc, halfway, raced>>

\* Faulty variant: any relation may be unshared.
UnshareAny(r, u, relation) ==
    /\ request[r].step = "revoke"
    /\ <<u, relation, request[r].doc>> \in tuple
    /\ tuple' = tuple \ {<<u, relation, request[r].doc>>}
    /\ Finish(r)
    /\ UNCHANGED <<doc, granted, halfway, raced>>

\* unshare(): ownership stays; a tuple that does not exist is a 404.
Unshare(r, u, relation) ==
    /\ request[r].step = "revoke"
    /\ relation # "owner"
    /\ <<u, relation, request[r].doc>> \in tuple
    /\ tuple' = tuple \ {<<u, relation, request[r].doc>>}
    /\ Finish(r)
    /\ UNCHANGED <<doc, granted, halfway, raced>>

\* A guard refuses, a query finds nothing or rejects, or the process dies.
Fail(r) ==
    /\ request[r].step # "idle"
    /\ halfway' = IF request[r].step = "relate" THEN halfway \cup {request[r].doc} ELSE halfway
    /\ Finish(r)
    /\ UNCHANGED <<doc, tuple, granted, raced>>

Next == \E r \in Request:
    \/ \E u \in User, R \in RoleSets, d \in Doc, v \in Visibility: Create(r, u, R, d, v)
    \/ GrantOwner(r)
    \/ \E u \in User, R \in RoleSets, op \in Op, d \in Doc: Begin(r, u, R, op, d)
    \/ PassRelationGuard(r)
    \/ \E v \in Visibility \cup {"unset"}: CheckVisibility(r, v)
    \/ Update(r)
    \/ Remove(r)
    \/ FindDocument(r)
    \/ \E u \in User, relation \in Relation: Share(r, u, relation)
    \/ \E u \in User, relation \in Relation: Unshare(r, u, relation)
    \/ Fail(r)

Spec == Init /\ [][Next]_vars

-----------------------------------------------------------------------------
(* Properties *)

\* Rows, tuples and the locals of the handlers are of their kinds.
TypeOK ==
    /\ doc \in [Doc -> Document]
    /\ tuple \in SUBSET (User \X Relation \X Doc)
    /\ request \in [Request -> RequestState]
    /\ granted \in SUBSET (User \X Doc)
    /\ halfway \in SUBSET Doc
    /\ raced \in SUBSET Doc

\* Ownership is not transferable: the one owner tuple a document can ever have is
\* that of its creator, whatever is shared and unshared at the same time.
SoleOwner == \A t \in tuple: t[2] = "owner" => doc[t[3]].ownerId = t[1]

\* Its creation is over, and went well.
Settled(d) ==
    /\ d \in Live \ halfway
    /\ \A r \in Request: ~(request[r].step = "relate" /\ request[r].doc = d)

\* The two ways to decide on a mutation agree: the ownerId column that can() looks
\* at, and the owner tuple that the guards of the routes look at.
DecisionMatchesRoutes ==
    \A d \in Doc: Settled(d) =>
        \A u \in User, R \in RoleSets:
            /\ CanWrite(u, R, d) <=> RouteAllows(u, R, "update", d)
            /\ CanDelete(u, R, d) <=> RouteAllows(u, R, "remove", d)

\* The list holds exactly the documents that reading them one by one would give.
ListMatchesRead ==
    \A u \in User, R \in RoleSets: Readable(u, R) = {d \in Live: CanRead(u, R, d)}

\* Removal leaves no tuple behind, unless one was being granted at that moment.
NoOrphansUnlessRaced == \A t \in tuple: t[3] \in Live \cup raced

\* Whoever wrote the contents of a document owns it, has been given the right to
\* edit it, or came as a super_admin, however grants and revocations interleave.
WrittenByEditors ==
    \A d \in Live: doc[d].body = doc[d].ownerId \/ <<doc[d].body, d>> \in granted
==============================================================================
