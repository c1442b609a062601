--------------------------- MODULE DocumentsProofs ---------------------------
(***************************************************************************)
(* Proofs about Documents, for any number of users, documents and          *)
(* concurrent requests and any role sets: ownership stays with the         *)
(* creator, can() and the guards of the routes decide alike, the list      *)
(* shows what single reads show, and removal leaves no tuples unless it    *)
(* raced with a grant.                                                     *)
(***************************************************************************)
EXTENDS Documents, TLAPS

\* What is true of the state q of a request.
Sound(q) ==
    /\ q.step # "idle" => /\ q.sub \in User
                          /\ q.doc \in Doc
                          /\ doc[q.doc].state # "unborn"
    /\ q.step = "relation" => q.op \in Op
    /\ q.step = "relate" => q.sub = doc[q.doc].ownerId
    /\ q.step \in {"relate", "grant"} => q.doc \in Live \cup raced
    /\ q.step \in {"visibility", "write"} =>
         IsSuperAdmin(q.roles) \/ <<q.sub, q.doc>> \in granted

RequestsSound == \A r \in Request: Sound(request[r])

\* What is true of a tuple <<u, relation, d>>.
SoundTuple(u, relation, d) ==
    /\ doc[d].state # "unborn"
    /\ relation = "owner" => doc[d].ownerId = u
    /\ relation # "viewer" => <<u, d>> \in granted
    /\ d \in Live \cup raced

TuplesSound ==
    \A u \in User, relation \in Relation, d \in Doc:
        <<u, relation, d>> \in tuple => SoundTuple(u, relation, d)

\* The owner relation of a document that was created and not removed is there.
OwnersRelated == \A d \in Doc: Settled(d) => <<doc[d].ownerId, "owner", d>> \in tuple

\* A live document has an owner, who has been given the owner relation or will be.
OwnersKnown == \A d \in Live: doc[d].ownerId \in User

IInv ==
    /\ TypeOK
    /\ RequestsSound
    /\ TuplesSound
    /\ OwnersRelated
    /\ OwnersKnown
    /\ WrittenByEditors

-----------------------------------------------------------------------------
(* Lemmas about the decision table *)

\* A stronger relation satisfies every weaker requirement.
LEMMA Grantors ==
    /\ GrantorsOf("owner") = {"owner"}
    /\ GrantorsOf("editor") = {"owner", "editor"}
    /\ GrantorsOf("viewer") = Relation
BY DEF GrantorsOf, Implied, Relation

LEMMA SuperAdminMayAll ==
    ASSUME NEW R, IsSuperAdmin(R), NEW p
    PROVE  HasPermission(R, p)
BY DEF HasPermission

\* The filter of the list and the decision for one document agree, in any state.
LEMMA FilterMatchesDecision ==
    ASSUME NEW u \in User, NEW R \in RoleSets
    PROVE  Readable(u, R) = {d \in Live: CanRead(u, R, d)}
<1>1. ASSUME NEW d \in Live
      PROVE  d \in ObjectIdsFor(u, "viewer") <=> Check(u, "viewer", d)
  BY <1>1 DEF ObjectIdsFor, Check, Live
<1> QED
  BY <1>1, SuperAdminMayAll DEF Readable, CanRead, ReadPolicy

\* For a document whose owner relation is there, and only the owner's, the guards
\* of the routes decide like can().
LEMMA GuardsMatchDecision ==
    ASSUME NEW u \in User, NEW R \in RoleSets, NEW d \in Doc,
           <<doc[d].ownerId, "owner", d>> \in tuple
    PROVE  /\ CanWrite(u, R, d) <=> RouteAllows(u, R, "update", d)
           /\ CanDelete(u, R, d) <=> RouteAllows(u, R, "remove", d)
<1>1. doc[d].ownerId = u => Check(u, "editor", d) /\ Check(u, "owner", d)
  BY Grantors DEF Check
<1> QED
  BY <1>1, SuperAdminMayAll DEF CanWrite, CanDelete, RouteAllows, RelationGuard, Needs

-----------------------------------------------------------------------------
(* Lemmas about requests and tuples *)

LEMMA IdleSound == Idle \in RequestState /\ Sound(Idle)
BY DEF Idle, RequestState, Sound

LEMMA OneRequest ==
    ASSUME TypeOK, NEW r \in Request, NEW new \in RequestState,
           request' = [request EXCEPT ![r] = new]
    PROVE  /\ request' \in [Request -> RequestState]
           /\ request'[r] = new
           /\ \A q \in Request: q # r => request'[q] = request[q]
BY DEF TypeOK

\* A step that only moves a request on.
LEMMA RequestStep ==
    ASSUME IInv, UNCHANGED <<doc, tuple, granted, halfway, raced>>,
           NEW r \in Request, request[r].step # "relate",
           NEW new \in RequestState, Sound(new), new.step # "relate",
           request' = [request EXCEPT ![r] = new]
    PROVE  IInv'
<1>1. /\ request' \in [Request -> RequestState]
      /\ request'[r] = new
      /\ \A q \in Request: q # r => request'[q] = request[q]
  BY OneRequest DEF IInv
<1>2. TypeOK'
  BY <1>1 DEF IInv, TypeOK
<1>3. RequestsSound'
  BY <1>1 DEF IInv, RequestsSound, Sound, Live
<1>4. \A d \in Doc: Settled(d)' => Settled(d)
  BY <1>1 DEF Settled, Live
<1>5. OwnersRelated'
  BY <1>4 DEF IInv, OwnersRelated
<1>6. TuplesSound' /\ OwnersKnown' /\ WrittenByEditors'
  BY DEF IInv, TuplesSound, SoundTuple, OwnersKnown, WrittenByEditors, Live
<1> QED
  BY <1>2, <1>3, <1>5, <1>6 DEF IInv

\* Granting a tuple that is sound keeps all tuples sound.
LEMMA GrantSound ==
    ASSUME IInv, NEW u \in User, NEW relation \in Relation, NEW d \in Doc, Grant(u, relation, d),
           doc[d].state # "unborn", relation = "owner" => doc[d].ownerId = u,
           d \in Live \cup raced, UNCHANGED <<doc, raced>>
    PROVE  /\ tuple' \in SUBSET (User \X Relation \X Doc)
           /\ granted' \in SUBSET (User \X Doc)
           /\ granted \subseteq granted'
           /\ TuplesSound'
<1>1. /\ tuple' = tuple \cup {<<u, relation, d>>}
      /\ granted \subseteq granted'
      /\ relation # "viewer" => <<u, d>> \in granted'
      /\ granted' \in SUBSET (User \X Doc)
      /\ tuple' \in SUBSET (User \X Relation \X Doc)
  BY DEF Grant, IInv, TypeOK
<1>2. TuplesSound'
  BY <1>1 DEF IInv, TuplesSound, SoundTuple, Live
<1> QED
  BY <1>1, <1>2

LEMMA TupleParts ==
    ASSUME TypeOK, NEW t \in tuple
    PROVE  /\ t[1] \in User
           /\ t[2] \in Relation
           /\ t[3] \in Doc
           /\ t = <<t[1], t[2], t[3]>>
BY DEF TypeOK

-----------------------------------------------------------------------------
(* One lemma per action *)

LEMMA Initially == Init => IInv
<1> SUFFICES ASSUME Init PROVE IInv
  OBVIOUS
<1>1. /\ Unborn \in Document
      /\ Unborn.state = "unborn"
  BY DEF Unborn, Document, Visibility
<1>2. TypeOK /\ Live = {}
  BY <1>1, IdleSound DEF Init, TypeOK, Live
<1>3. RequestsSound /\ TuplesSound
  BY IdleSound DEF Init, RequestsSound, TuplesSound
<1> QED
  BY <1>2, <1>3 DEF IInv, OwnersRelated, OwnersKnown, Settled, WrittenByEditors

LEMMA CreateStep ==
    ASSUME IInv, NEW r \in Request, NEW u \in User, NEW R \in RoleSets, NEW d \in Doc,
           NEW v \in Visibility, Create(r, u, R, d, v)
    PROVE  IInv'
<1> DEFINE new == [Idle EXCEPT !.step = "relate", !.op = "create", !.sub = u, !.doc = d]
           row == [state |-> "live", ownerId |-> u, visibility |-> v, body |-> u]
<1>1. /\ new \in RequestState
      /\ new.step = "relate"
      /\ new.sub = u
      /\ new.doc = d
  BY DEF Idle, RequestState
<1>2. row \in Document
  BY DEF Document
<1>3. /\ request' = [request EXCEPT ![r] = new]
      /\ doc' = [doc EXCEPT ![d] = row]
      /\ doc[d].state = "unborn"
      /\ UNCHANGED <<tuple, granted, halfway, raced>>
  BY DEF Create
<1> HIDE DEF new
<1>4. /\ request' \in [Request -> RequestState]
      /\ request'[r] = new
      /\ \A q \in Request: q # r => request'[q] = request[q]
  BY <1>1, <1>3, OneRequest DEF IInv
<1>5. /\ doc' \in [Doc -> Document]
      /\ doc'[d] = row
      /\ \A e \in Doc: e # d => doc'[e] = doc[e]
  BY <1>2, <1>3 DEF IInv, TypeOK
<1>6. Live' = Live \cup {d} /\ d \notin Live
  BY <1>3, <1>5 DEF Live
<1>7. TypeOK'
  BY <1>3, <1>4, <1>5 DEF IInv, TypeOK
<1>8. RequestsSound'
  <2>1. ASSUME NEW q \in Request, q # r PROVE Sound(request[q])'
    <3>1. /\ request'[q] = request[q]
          /\ request[q] \in RequestState
          /\ Sound(request[q])
      BY <1>4, <2>1 DEF IInv, TypeOK, RequestsSound
    <3> QED
      BY <1>3, <1>5, <1>6, <3>1 DEF Sound
  <2>2. Sound(request[r])'
    BY <1>1, <1>4, <1>5, <1>6 DEF Sound
  <2> QED
    BY <1>4, <2>1, <2>2 DEF RequestsSound
<1>9. TuplesSound'
  BY <1>3, <1>5, <1>6 DEF IInv, TuplesSound, SoundTuple
<1>10. OwnersRelated'
  <2>1. \A e \in Doc: Settled(e)' => e # d /\ Settled(e)
    <3>1. ~Settled(d)'
      BY <1>1, <1>4 DEF Settled
    <3>2. ASSUME NEW e \in Doc, Settled(e)', e # d PROVE Settled(e)
      BY <1>3, <1>4, <1>6, <3>2 DEF Settled, Create
    <3> QED
      BY <3>1, <3>2
  <2> QED
    BY <1>3, <1>5, <2>1 DEF IInv, OwnersRelated
<1>11. OwnersKnown' /\ WrittenByEditors'
  BY <1>3, <1>5, <1>6 DEF IInv, OwnersKnown, WrittenByEditors, Live
<1> QED
  BY <1>7, <1>8, <1>9, <1>10, <1>11 DEF IInv

LEMMA GrantOwnerStep ==
    ASSUME IInv, NEW r \in Request, GrantOwner(r)
    PROVE  IInv'
<1> DEFINE u == request[r].sub
           d == request[r].doc
<1>1. /\ u \in User
      /\ d \in Doc
      /\ "owner" \in Relation
      /\ doc[d].state # "unborn"
      /\ doc[d].ownerId = u
      /\ d \in Live \cup raced
      /\ Grant(u, "owner", d)
      /\ UNCHANGED <<doc, halfway, raced>>
      /\ request' = [request EXCEPT ![r] = Idle]
  BY DEF IInv, RequestsSound, Sound, GrantOwner, Relation, Finish
<1> HIDE DEF u, d
<1>2. /\ tuple' \in SUBSET (User \X Relation \X Doc)
      /\ granted' \in SUBSET (User \X Doc)
      /\ granted \subseteq granted'
      /\ TuplesSound'
  BY <1>1, GrantSound
<1>3. /\ request' \in [Request -> RequestState]
      /\ request'[r] = Idle
      /\ \A q \in Request: q # r => request'[q] = request[q]
  BY <1>1, IdleSound, OneRequest DEF IInv
<1>4. TypeOK'
  BY <1>1, <1>2, <1>3 DEF IInv, TypeOK
<1>5. RequestsSound'
  BY <1>1, <1>2, <1>3 DEF IInv, RequestsSound, Sound, Idle, Live
<1>6. OwnersRelated'
  <2> SUFFICES ASSUME NEW e \in Doc, Settled(e)' PROVE <<doc[e].ownerId, "owner", e>> \in tuple'
    BY <1>1 DEF OwnersRelated
  <2>1. CASE e = d
    BY <1>1, <2>1 DEF Grant
  <2>2. CASE e # d
    <3>1. Settled(e)
      BY <1>1, <1>3, <2>2 DEF Settled, Live, d
    <3> QED
      BY <1>1, <3>1 DEF IInv, OwnersRelated, Grant
  <2> QED
    BY <2>1, <2>2
<1>7. OwnersKnown' /\ WrittenByEditors'
  BY <1>1, <1>2 DEF IInv, OwnersKnown, WrittenByEditors, Live
<1> QED
  BY <1>2, <1>4, <1>5, <1>6, <1>7 DEF IInv

LEMMA BeginStep ==
    ASSUME IInv, NEW r \in Request, NEW u \in User, NEW R \in RoleSets, NEW op \in Op,
           NEW d \in Doc, Begin(r, u, R, op, d)
    PROVE  IInv'
<1> DEFINE new == [Idle EXCEPT !.step = "relation", !.op = op, !.sub = u, !.roles = R, !.doc = d]
<1>1. /\ new \in RequestState
      /\ new.step = "relation"
      /\ new.op = op
      /\ new.sub = u
      /\ new.doc = d
  BY RoleSetsAssumption DEF Idle, RequestState
<1>2. /\ request' = [request EXCEPT ![r] = new]
      /\ UNCHANGED <<doc, tuple, granted, halfway, raced>>
      /\ doc[d].state # "unborn"
      /\ request[r].step # "relate"
  BY DEF Begin
<1> HIDE DEF new
<1>3. Sound(new)
  BY <1>1, <1>2 DEF Sound
<1> QED
  BY <1>1, <1>2, <1>3, RequestStep

LEMMA PassRelationGuardStep ==
    ASSUME IInv, NEW r \in Request, PassRelationGuard(r)
    PROVE  IInv'
<1> DEFINE new == [request[r] EXCEPT !.step = FirstStep(request[r].op)]
<1>1. /\ request[r] \in RequestState
      /\ request[r].op \in Op
      /\ request[r].sub \in User
      /\ request[r].doc \in Doc
      /\ doc[request[r].doc].state # "unborn"
      /\ request[r].step = "relation"
      /\ RelationGuard(request[r].sub, request[r].roles, request[r].op, request[r].doc)
  BY DEF PassRelationGuard, IInv, TypeOK, RequestsSound, Sound
<1>2. /\ FirstStep(request[r].op) \in {"visibility", "remove", "find", "revoke"}
      /\ FirstStep(request[r].op) = "visibility" => request[r].op = "update"
  BY <1>1 DEF FirstStep, Op
<1>3. /\ new \in RequestState
      /\ new.step = FirstStep(request[r].op)
      /\ new.sub = request[r].sub
      /\ new.doc = request[r].doc
      /\ new.roles = request[r].roles
  BY <1>1, <1>2 DEF RequestState
<1>4. /\ request' = [request EXCEPT ![r] = new]
      /\ UNCHANGED <<doc, tuple, granted, halfway, raced>>
  BY DEF PassRelationGuard, Goto
<1>5. ASSUME request[r].op = "update"
      PROVE  IsSuperAdmin(request[r].roles) \/ <<request[r].sub, request[r].doc>> \in granted
  <2>1. \/ IsSuperAdmin(request[r].roles)
        \/ Check(request[r].sub, "editor", request[r].doc)
    BY <1>1, <1>5 DEF RelationGuard, Needs
  <2>2. ASSUME Check(request[r].sub, "editor", request[r].doc)
        PROVE  <<request[r].sub, request[r].doc>> \in granted
    <3>1. PICK relation \in {"owner", "editor"}:
            <<request[r].sub, relation, request[r].doc>> \in tuple
      BY <2>2, Grantors DEF Check
    <3> QED
      BY <1>1, <3>1 DEF IInv, TuplesSound, SoundTuple, Relation
  <2> QED
    BY <2>1, <2>2
<1> HIDE DEF new
<1>6. Sound(new)
  BY <1>1, <1>2, <1>3, <1>5 DEF Sound
<1> QED
  BY <1>1, <1>2, <1>3, <1>4, <1>6, RequestStep

LEMMA CheckVisibilityStep ==
    ASSUME IInv, NEW r \in Request, NEW v \in Visibility \cup {"unset"}, CheckVisibility(r, v)
    PROVE  IInv'
<1> DEFINE new == [request[r] EXCEPT !.step = "write", !.visible = v]
<1>1. /\ request[r] \in RequestState
      /\ Sound(request[r])
      /\ request[r].step = "visibility"
  BY DEF CheckVisibility, IInv, TypeOK, RequestsSound
<1>2. /\ new \in RequestState
      /\ new.step = "write"
      /\ new.sub = request[r].sub
      /\ new.doc = request[r].doc
      /\ new.roles = request[r].roles
  BY <1>1 DEF RequestState
<1>3. /\ request' = [request EXCEPT ![r] = new]
      /\ UNCHANGED <<doc, tuple, granted, halfway, raced>>
  BY DEF CheckVisibility
<1> HIDE DEF new
<1>4. Sound(new)
  BY <1>1, <1>2 DEF Sound
<1> QED
  BY <1>1, <1>2, <1>3, <1>4, RequestStep

LEMMA FindDocumentStep ==
    ASSUME IInv, NEW r \in Request, FindDocument(r)
    PROVE  IInv'
<1> DEFINE new == [request[r] EXCEPT !.step = "grant"]
<1>1. /\ request[r] \in RequestState
      /\ Sound(request[r])
      /\ request[r].step = "find"
      /\ request[r].doc \in Live
  BY DEF FindDocument, IInv, TypeOK, RequestsSound, Sound, Live
<1>2. /\ new \in RequestState
      /\ new.step = "grant"
      /\ new.sub = request[r].sub
      /\ new.doc = request[r].doc
  BY <1>1 DEF RequestState
<1>3. /\ request' = [request EXCEPT ![r] = new]
      /\ UNCHANGED <<doc, tuple, granted, halfway, raced>>
  BY DEF FindDocument, Goto
<1> HIDE DEF new
<1>4. Sound(new)
  BY <1>1, <1>2 DEF Sound
<1> QED
  BY <1>1, <1>2, <1>3, <1>4, RequestStep

LEMMA UpdateStep ==
    ASSUME IInv, NEW r \in Request, Update(r)
    PROVE  IInv'
<1> DEFINE d == request[r].doc
           u == request[r].sub
<1>1. /\ request[r] \in RequestState
      /\ request[r].step = "write"
      /\ d \in Doc
      /\ u \in User
      /\ doc[d] \in Document
      /\ doc[d].state = "live"
      /\ IsSuperAdmin(request[r].roles) \/ <<u, d>> \in granted
      /\ request[r].visible \in Visibility \cup {"unset"}
  BY DEF Update, IInv, TypeOK, RequestsSound, Sound, RequestState
<1>2. /\ doc' \in [Doc -> Document]
      /\ doc'[d].state = "live"
      /\ doc'[d].ownerId = doc[d].ownerId
      /\ doc'[d].body = u
      /\ \A e \in Doc: e # d => doc'[e] = doc[e]
  <2> DEFINE w == NewVisibility(r)
             row == [doc[d] EXCEPT !.body = u, !.visibility = w]
  <2>1. doc' = [doc EXCEPT ![d] = row]
    BY <1>1 DEF Update
  <2>2. w \in Visibility
    BY <1>1 DEF Document, NewVisibility
  <2> HIDE DEF w
  <2>3. /\ row \in Document
        /\ row.state = "live"
        /\ row.ownerId = doc[d].ownerId
        /\ row.body = u
    BY <1>1, <2>2 DEF Document
  <2> HIDE DEF row
  <2> QED
    BY <1>1, <2>1, <2>3 DEF IInv, TypeOK
<1>3. /\ granted \subseteq granted'
      /\ granted' \in SUBSET (User \X Doc)
      /\ <<u, d>> \in granted'
      /\ UNCHANGED <<tuple, halfway, raced>>
      /\ request' = [request EXCEPT ![r] = Idle]
  BY <1>1 DEF Update, IInv, TypeOK, Finish
<1>4. /\ request' \in [Request -> RequestState]
      /\ request'[r] = Idle
      /\ \A q \in Request: q # r => request'[q] = request[q]
  BY <1>3, IdleSound, OneRequest DEF IInv
<1>5. Live' = Live
  BY <1>1, <1>2 DEF Live
<1>6. \A e \in Doc: doc'[e].state = doc[e].state /\ doc'[e].ownerId = doc[e].ownerId
  BY <1>1, <1>2
<1>7. TypeOK'
  BY <1>2, <1>3, <1>4 DEF IInv, TypeOK
<1> HIDE DEF d, u
<1>8. RequestsSound'
  BY <1>3, <1>4, <1>5, <1>6 DEF IInv, RequestsSound, Sound, Idle
<1>9. TuplesSound'
  BY <1>3, <1>5, <1>6 DEF IInv, TuplesSound, SoundTuple
<1>10. \A e \in Doc: Settled(e)' => Settled(e)
  <2>1. request[r].step # "relate"
    BY <1>1
  <2> QED
    BY <1>3, <1>4, <1>5, <2>1 DEF Settled
<1>11. OwnersRelated' /\ OwnersKnown'
  BY <1>3, <1>5, <1>6, <1>10 DEF IInv, OwnersRelated, OwnersKnown, Live
<1>12. WrittenByEditors'
  BY <1>2, <1>3, <1>5 DEF IInv, WrittenByEditors, Live
<1> QED
  BY <1>7, <1>8, <1>9, <1>11, <1>12 DEF IInv

LEMMA RemoveStep ==
    ASSUME IInv, NEW r \in Request, Remove(r)
    PROVE  IInv'
<1> DEFINE d == request[r].doc
<1>1. /\ d \in Doc
      /\ doc[d] \in Document
      /\ doc[d].state = "live"
      /\ request[r].step = "remove"
  BY DEF Remove, IInv, TypeOK, RequestsSound, Sound
<1>2. /\ doc' \in [Doc -> Document]
      /\ doc'[d].state = "gone"
      /\ \A e \in Doc: doc'[e].ownerId = doc[e].ownerId
      /\ \A e \in Doc: e # d => doc'[e] = doc[e]
  BY <1>1 DEF Remove, IInv, TypeOK, Document
<1>3. /\ tuple' = {t \in tuple: t[3] # d}
      /\ raced \subseteq raced'
      /\ raced' \in SUBSET Doc
      /\ GrantUnderWay(d) => d \in raced'
      /\ UNCHANGED <<granted, halfway>>
      /\ request' = [request EXCEPT ![r] = Idle]
  BY <1>1 DEF Remove, IInv, TypeOK, Finish, TuplesOf
<1>4. /\ request' \in [Request -> RequestState]
      /\ request'[r] = Idle
      /\ \A q \in Request: q # r => request'[q] = request[q]
  BY <1>3, IdleSound, OneRequest DEF IInv
<1> HIDE DEF d
<1>5. Live' = Live \ {d}
  BY <1>1, <1>2 DEF Live
<1>6. TypeOK'
  BY <1>2, <1>3, <1>4 DEF IInv, TypeOK
<1>7. RequestsSound'
  <2> SUFFICES ASSUME NEW q \in Request PROVE Sound(request[q])'
    BY DEF RequestsSound
  <2>1. CASE q = r
    BY <1>4, <2>1 DEF Sound, Idle
  <2>2. CASE q # r
    <3>1. /\ request'[q] = request[q]
          /\ Sound(request[q])
          /\ request[q].step \in {"relate", "grant"} /\ request[q].doc = d => d \in raced'
      BY <1>3, <1>4, <2>2 DEF IInv, RequestsSound, GrantUnderWay
    <3>2. \A e \in Doc: doc[e].state # "unborn" => doc'[e].state # "unborn"
      BY <1>2
    <3> QED
      BY <1>2, <1>3, <1>5, <3>1, <3>2 DEF Sound
  <2> QED
    BY <2>1, <2>2
<1>8. TuplesSound'
  <2> SUFFICES ASSUME NEW u \in User, NEW relation \in Relation, NEW e \in Doc,
                      <<u, relation, e>> \in tuple'
               PROVE  SoundTuple(u, relation, e)'
    BY DEF TuplesSound
  <2>1. <<u, relation, e>> \in tuple /\ e # d
    BY <1>3
  <2>2. SoundTuple(u, relation, e)
    BY <2>1 DEF IInv, TuplesSound
  <2> QED
    BY <1>2, <1>3, <1>5, <2>1, <2>2 DEF SoundTuple
<1>9. OwnersRelated'
  <2> SUFFICES ASSUME NEW e \in Doc, Settled(e)'
               PROVE  <<doc'[e].ownerId, "owner", e>> \in tuple'
    BY DEF OwnersRelated
  <2>1. e # d /\ Settled(e)
    BY <1>1, <1>3, <1>4, <1>5 DEF Settled
  <2> QED
    BY <1>2, <1>3, <2>1 DEF IInv, OwnersRelated
<1>10. OwnersKnown' /\ WrittenByEditors'
  BY <1>2, <1>3, <1>5 DEF IInv, OwnersKnown, WrittenByEditors, Live
<1> QED
  BY <1>6, <1>7, <1>8, <1>9, <1>10 DEF IInv

LEMMA ShareStep ==
    ASSUME IInv, NEW r \in Request, NEW u \in User, NEW relation \in Relation,
           Share(r, u, relation)
    PROVE  IInv'
<1> DEFINE d == request[r].doc
<1>1. /\ d \in Doc
      /\ doc[d].state # "unborn"
      /\ d \in Live \cup raced
      /\ relation # "owner"
      /\ request[r].step = "grant"
      /\ Grant(u, relation, d)
      /\ UNCHANGED <<doc, halfway, raced>>
      /\ request' = [request EXCEPT ![r] = Idle]
  BY DEF IInv, RequestsSound, Sound, Share, Finish
<1> HIDE DEF d
<1>2. /\ tuple' \in SUBSET (User \X Relation \X Doc)
      /\ granted' \in SUBSET (User \X Doc)
      /\ granted \subseteq granted'
      /\ TuplesSound'
  BY <1>1, GrantSound
<1>3. /\ request' \in [Request -> RequestState]
      /\ request'[r] = Idle
      /\ \A q \in Request: q # r => request'[q] = request[q]
  BY <1>1, IdleSound, OneRequest DEF IInv
<1>4. TypeOK'
  BY <1>1, <1>2, <1>3 DEF IInv, TypeOK
<1>5. RequestsSound'
  BY <1>1, <1>2, <1>3 DEF IInv, RequestsSound, Sound, Idle, Live
<1>6. OwnersRelated'
  <2>1. \A e \in Doc: Settled(e)' => Settled(e)
    BY <1>1, <1>3 DEF Settled, Live
  <2> QED
    BY <1>1, <2>1 DEF IInv, OwnersRelated, Grant
<1>7. OwnersKnown' /\ WrittenByEditors'
  BY <1>1, <1>2 DEF IInv, OwnersKnown, WrittenByEditors, Live
<1> QED
  BY <1>2, <1>4, <1>5, <1>6, <1>7 DEF IInv

LEMMA UnshareStep ==
    ASSUME IInv, NEW r \in Request, NEW u \in User, NEW relation \in Relation,
           Unshare(r, u, relation)
    PROVE  IInv'
<1>1. /\ relation # "owner"
      /\ request[r].step = "revoke"
      /\ tuple' = tuple \ {<<u, relation, request[r].doc>>}
      /\ request' = [request EXCEPT ![r] = Idle]
      /\ UNCHANGED <<doc, granted, halfway, raced>>
  BY DEF Unshare, Finish
<1>2. /\ request' \in [Request -> RequestState]
      /\ request'[r] = Idle
      /\ \A q \in Request: q # r => request'[q] = request[q]
  BY <1>1, IdleSound, OneRequest DEF IInv
<1>3. TypeOK'
  BY <1>1, <1>2 DEF IInv, TypeOK
<1>4. RequestsSound'
  BY <1>1, <1>2 DEF IInv, RequestsSound, Sound, Idle, Live
<1>5. TuplesSound'
  BY <1>1 DEF IInv, TuplesSound, SoundTuple, Live
<1>6. OwnersRelated'
  <2>1. \A e \in Doc: Settled(e)' => Settled(e)
    BY <1>1, <1>2 DEF Settled, Live
  <2> QED
    BY <1>1, <2>1 DEF IInv, OwnersRelated
<1>7. OwnersKnown' /\ WrittenByEditors'
  BY <1>1 DEF IInv, OwnersKnown, WrittenByEditors, Live
<1> QED
  BY <1>3, <1>4, <1>5, <1>6, <1>7 DEF IInv

LEMMA FailStep ==
    ASSUME IInv, NEW r \in Request, Fail(r)
    PROVE  IInv'
<1>1. /\ request' = [request EXCEPT ![r] = Idle]
      /\ request[r].step = "relate" => request[r].doc \in halfway'
      /\ halfway \subseteq halfway'
      /\ halfway' \in SUBSET Doc
      /\ UNCHANGED <<doc, tuple, granted, raced>>
  BY DEF Fail, Finish, IInv, TypeOK, RequestsSound, Sound
<1>2. /\ request' \in [Request -> RequestState]
      /\ request'[r] = Idle
      /\ \A q \in Request: q # r => request'[q] = request[q]
  BY <1>1, IdleSound, OneRequest DEF IInv
<1>3. TypeOK'
  BY <1>1, <1>2 DEF IInv, TypeOK
<1>4. RequestsSound'
  BY <1>1, <1>2 DEF IInv, RequestsSound, Sound, Idle, Live
<1>5. OwnersRelated'
  <2>1. \A e \in Doc: Settled(e)' => Settled(e)
    BY <1>1, <1>2 DEF Settled, Live
  <2> QED
    BY <1>1, <2>1 DEF IInv, OwnersRelated
<1>6. TuplesSound' /\ OwnersKnown' /\ WrittenByEditors'
  BY <1>1 DEF IInv, TuplesSound, SoundTuple, OwnersKnown, WrittenByEditors, Live
<1> QED
  BY <1>3, <1>4, <1>5, <1>6 DEF IInv

-----------------------------------------------------------------------------
(* Theorems *)

\* The inductive invariant holds in every reachable state.
THEOREM Invariance == Spec => []IInv
<1>1. Init => IInv
  BY Initially
<1>2. IInv /\ [Next]_vars => IInv'
  <2> SUFFICES ASSUME IInv, [Next]_vars PROVE IInv'
    OBVIOUS
  <2>1. CASE UNCHANGED vars
    BY <2>1 DEF vars, IInv, TypeOK, RequestsSound, Sound, TuplesSound, SoundTuple, OwnersRelated,
                OwnersKnown, WrittenByEditors, Settled, Live
  <2>2. CASE Next
    BY <2>2, CreateStep, GrantOwnerStep, BeginStep, PassRelationGuardStep, CheckVisibilityStep,
       UpdateStep, RemoveStep, FindDocumentStep, ShareStep, UnshareStep, FailStep
    DEF Next
  <2> QED
    BY <2>1, <2>2
<1> QED
  BY <1>1, <1>2, PTL DEF Spec

\* Documents, tuples, the locals of the handlers and the histories are of their kinds.
THEOREM TypeCorrect == Spec => []TypeOK
<1>1. IInv => TypeOK
  BY DEF IInv
<1> QED
  BY <1>1, Invariance, PTL

\* Ownership is not transferable.
THEOREM OwnershipStays == Spec => []SoleOwner
<1>1. IInv => SoleOwner
  <2> SUFFICES ASSUME IInv, NEW t \in tuple
               PROVE  SoundTuple(t[1], t[2], t[3])
    BY DEF SoleOwner, SoundTuple
  <2> QED
    BY TupleParts DEF IInv, TuplesSound
<1> QED
  BY <1>1, Invariance, PTL

\* can() and the guards of the routes decide mutations alike.
THEOREM OneDecision == Spec => []DecisionMatchesRoutes
<1>1. IInv => DecisionMatchesRoutes
  BY GuardsMatchDecision DEF IInv, OwnersRelated, DecisionMatchesRoutes
<1> QED
  BY <1>1, Invariance, PTL

\* The list holds what reading the documents one by one would give.
THEOREM ListIsReadable == Spec => []ListMatchesRead
<1>1. ListMatchesRead
  BY FilterMatchesDecision DEF ListMatchesRead
<1> QED
  BY <1>1, PTL

\* Removal leaves no tuple behind, unless it raced with a grant.
THEOREM RemovalIsClean == Spec => []NoOrphansUnlessRaced
<1>1. IInv => NoOrphansUnlessRaced
  <2> SUFFICES ASSUME IInv, NEW t \in tuple
               PROVE  SoundTuple(t[1], t[2], t[3])
    BY DEF NoOrphansUnlessRaced, SoundTuple
  <2> QED
    BY TupleParts DEF IInv, TuplesSound
<1> QED
  BY <1>1, Invariance, PTL

\* Contents are written by those who were given the right to.
THEOREM WritersAreEditors == Spec => []WrittenByEditors
<1>1. IInv => WrittenByEditors
  BY DEF IInv
<1> QED
  BY <1>1, Invariance, PTL
==============================================================================
