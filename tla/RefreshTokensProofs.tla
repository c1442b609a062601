------------------------- MODULE RefreshTokensProofs -------------------------
(***************************************************************************)
(* Proofs about RefreshTokens: type correctness, and that replay rejection *)
(* and the finality of a termination hold for any number of users,         *)
(* families, tokens and concurrent requests.                               *)
(***************************************************************************)
EXTENDS RefreshTokens, TLAPS

Busy == Step \ {"idle", "failed"}

\* What a handler's locals say: a handler at work has a user, and past the JWT
\* check of a refresh its token is an issued one of that user.
RequestOK ==
    \A r \in Request:
        /\ request[r].step \in Busy => request[r].user \in User
        /\ request[r].step \in {"findUser", "findFamily", "revokeFamily", "markRevoked"}
             => Rotating(r)
        /\ Rotating(r) => /\ request[r].token \in Issued
                          /\ request[r].user = issued[request[r].token].userId

\* The window of a rotation: its token's row is no longer live.
Consumed ==
    \A r \in Request:
        Rotating(r) /\ request[r].step \in {"create", "prune"}
            => row[request[r].token] # "live"

\* A stale request carries a token that cannot be used, and past the user check
\* that is because of the token's row.
StaleInv ==
    \A r \in Request:
        request[r].stale =>
            /\ request[r].step \in {"findUser", "findFamily", "revokeFamily"}
            /\ ~Usable(request[r].token)
            /\ request[r].step # "findUser" => row[request[r].token] # "live"

\* Only families that were opened are ever terminated, and a terminated one is gone.
ClosedInv ==
    \A f \in Family:
        /\ closing[f] # "no" => InFamily(f) # {}
        /\ closing[f] = "closed" => Gone(f)

IInv ==
    /\ TypeOK
    /\ RequestOK
    /\ LineageCoherent
    /\ Consumed
    /\ StaleInv
    /\ ClosedInv

-----------------------------------------------------------------------------
(* Lemmas about the helpers *)

\* A grant is never the absent one.
LEMMA GrantNotNull == NoGrant \notin Grant
BY NullAssumption DEF Grant

\* The grant of an issued token has its fields.
LEMMA IssuedGrant ==
    ASSUME TypeOK, NEW t \in Issued
    PROVE  /\ t \in Token
           /\ issued[t] \in Grant
           /\ issued[t].userId \in User
           /\ issued[t].family \in Family
           /\ issued[t].deviceId \in Device
BY DEF TypeOK, Issued, Grant

\* Goto moves one handler and keeps its locals.
LEMMA GotoEffect ==
    ASSUME TypeOK, NEW r \in Request, NEW s \in Step, Goto(r, s)
    PROVE  /\ request' \in [Request -> RequestState]
           /\ \A q \in Request: q # r => request'[q] = request[q]
           /\ request'[r].step = s
           /\ request'[r].user = request[r].user
           /\ request'[r].token = request[r].token
           /\ request'[r].stale = request[r].stale
BY DEF TypeOK, Goto, RequestState

\* Finish resets one handler.
LEMMA FinishEffect ==
    ASSUME TypeOK, NEW r \in Request, Finish(r)
    PROVE  /\ request' \in [Request -> RequestState]
           /\ \A q \in Request: q # r => request'[q] = request[q]
           /\ request'[r].step = "idle"
           /\ request'[r].user = NoUser
           /\ request'[r].token = NoToken
           /\ request'[r].stale = FALSE
BY DEF TypeOK, Finish, Idle, RequestState, Step

\* Deleting rows leaves the others as they were.
LEMMA DeletedEffect ==
    ASSUME TypeOK, NEW T, row' = Deleted(T)
    PROVE  /\ row' \in [Token -> {"absent", "live", "revoked"}]
           /\ \A t \in Token: row'[t] = row[t] \/ row'[t] = "absent"
           /\ \A t \in Token: t \in T => row'[t] = "absent"
BY DEF TypeOK, Deleted

\* InWindow, as a quantified statement.
LEMMA InWindowIff ==
    ASSUME NEW f
    PROVE  f \in InWindow <=>
             \E r \in Request: /\ Rotating(r)
                               /\ request[r].step = "create"
                               /\ issued[request[r].token].family = f
BY DEF InWindow

LEMMA InWindowNextIff ==
    ASSUME NEW f
    PROVE  f \in InWindow' <=>
             \E r \in Request: /\ request'[r].token # NoToken
                               /\ request'[r].step = "create"
                               /\ issued'[request'[r].token].family = f
BY DEF InWindow, Rotating

-----------------------------------------------------------------------------
(* Every variable keeps its type. *)

LEMMA TypeInit == Init => TypeOK
BY GrantNotNull DEF Init, TypeOK, Issued, Present, RequestState, Idle, Step

LEMMA TypeStep == TypeOK /\ RequestOK /\ [Next]_vars => TypeOK'
<1> SUFFICES ASSUME TypeOK, RequestOK, [Next]_vars PROVE TypeOK'
  OBVIOUS
<1> USE DEF Present
<1>1. ASSUME NEW r \in Request, NEW u \in User, BeginSession(r, u)
      PROVE  TypeOK'
  BY <1>1 DEF BeginSession, TypeOK, Issued, RequestState, Step
<1>2. ASSUME NEW r \in Request, NEW t \in Token, BeginRotation(r, t)
      PROVE  TypeOK'
  <2>1. issued[t].userId \in User
    BY <1>2, IssuedGrant DEF BeginRotation
  <2>2. request' \in [Request -> RequestState]
    BY <1>2, <2>1 DEF BeginRotation, TypeOK, RequestState, Step, Usable
  <2> QED
    BY <1>2, <2>2 DEF BeginRotation, TypeOK, Issued
<1>3. ASSUME NEW r \in Request, FindUser(r)
      PROVE  TypeOK'
  <2>1. request' \in [Request -> RequestState]
    BY <1>3, GotoEffect, FinishEffect DEF FindUser, Step
  <2> QED
    BY <1>3, <2>1 DEF FindUser, TypeOK, Issued
<1>4. ASSUME NEW r \in Request, FindFamily(r)
      PROVE  TypeOK'
  <2>1. Goto(r, "markRevoked") \/ Goto(r, "revokeFamily") \/ Finish(r)
    BY <1>4 DEF FindFamily
  <2>2. request' \in [Request -> RequestState]
    BY <2>1, GotoEffect, FinishEffect DEF Step
  <2> QED
    BY <1>4, <2>2 DEF FindFamily, TypeOK, Issued
<1>5. ASSUME NEW r \in Request, RevokeFamily(r)
      PROVE  TypeOK'
  <2>1. request' \in [Request -> RequestState]
    BY <1>5, FinishEffect DEF RevokeFamily
  <2>2. closing' \in [Family -> {"no", "closed", "raced"}]
    BY <1>5 DEF RevokeFamily, Terminate, TypeOK
  <2>3. /\ row' \in [Token -> {"absent", "live", "revoked"}]
        /\ \A t \in Token: row'[t] = row[t] \/ row'[t] = "absent"
    BY <1>5, DeletedEffect DEF RevokeFamily
  <2> QED
    BY <1>5, <2>1, <2>2, <2>3 DEF RevokeFamily, TypeOK, Issued
<1>6. ASSUME NEW r \in Request, MarkRevoked(r)
      PROVE  TypeOK'
  <2>1. request' \in [Request -> RequestState]
    BY <1>6, GotoEffect, FinishEffect DEF MarkRevoked, Step
  <2>2. /\ row' \in [Token -> {"absent", "live", "revoked"}]
        /\ \A t \in Token: row'[t] # "absent" => row[t] # "absent"
    BY <1>6 DEF MarkRevoked, TypeOK
  <2> QED
    BY <1>6, <2>1, <2>2 DEF MarkRevoked, TypeOK, Issued
<1>7. ASSUME NEW r \in Request, CreateToken(r)
      PROVE  TypeOK'
  <2>1. request' \in [Request -> RequestState]
    BY <1>7, GotoEffect DEF CreateToken, Step
  <2>2. Identity(r) \subseteq Grant
    <3>1. CASE Rotating(r)
      BY <3>1, IssuedGrant DEF Identity, RequestOK
    <3>2. CASE ~Rotating(r)
      BY <1>7, <3>2 DEF CreateToken, Identity, RequestOK, Busy, Step, Grant
    <3> QED
      BY <3>1, <3>2
  <2>3. PICK t \in Token \ Issued, g \in Identity(r):
          /\ issued' = [issued EXCEPT ![t] = g]
          /\ row' = [row EXCEPT ![t] = "live"]
    BY <1>7 DEF CreateToken
  <2>4. g \in Grant /\ g # NoGrant
    BY <2>2, GrantNotNull
  <2> QED
    BY <1>7, <2>1, <2>3, <2>4 DEF CreateToken, TypeOK, Issued
<1>8. ASSUME NEW r \in Request, PruneExpiredTokens(r)
      PROVE  TypeOK'
  <2>1. request' \in [Request -> RequestState]
    BY <1>8, FinishEffect DEF PruneExpiredTokens
  <2>2. /\ row' \in [Token -> {"absent", "live", "revoked"}]
        /\ \A t \in Token: row'[t] = row[t] \/ row'[t] = "absent"
    BY <1>8, DeletedEffect DEF PruneExpiredTokens
  <2> QED
    BY <1>8, <2>1, <2>2 DEF PruneExpiredTokens, TypeOK, Issued
<1>9. ASSUME NEW r \in Request, Fail(r)
      PROVE  TypeOK'
  BY <1>9 DEF Fail, TypeOK, Issued, RequestState, Idle, Step
<1>10. ASSUME NEW u \in User, RevokeAllTokens(u)
       PROVE  TypeOK'
  <2>1. closing' \in [Family -> {"no", "closed", "raced"}]
    BY <1>10 DEF RevokeAllTokens, Terminate, TypeOK
  <2>2. /\ row' \in [Token -> {"absent", "live", "revoked"}]
        /\ \A t \in Token: row'[t] = row[t] \/ row'[t] = "absent"
    BY <1>10, DeletedEffect DEF RevokeAllTokens
  <2> QED
    BY <1>10, <2>1, <2>2 DEF RevokeAllTokens, TypeOK, Issued
<1>11. ASSUME NEW u \in User, NEW d \in Device, RevokeDeviceSession(u, d)
       PROVE  TypeOK'
  <2>1. closing' \in [Family -> {"no", "closed", "raced"}]
    BY <1>11 DEF RevokeDeviceSession, Terminate, TypeOK
  <2>2. /\ row' \in [Token -> {"absent", "live", "revoked"}]
        /\ \A t \in Token: row'[t] = row[t] \/ row'[t] = "absent"
    BY <1>11, DeletedEffect DEF RevokeDeviceSession
  <2> QED
    BY <1>11, <2>1, <2>2 DEF RevokeDeviceSession, TypeOK, Issued
<1>12. CASE PurgeExpiredTokens
  <2>1. /\ row' \in [Token -> {"absent", "live", "revoked"}]
        /\ \A t \in Token: row'[t] = row[t] \/ row'[t] = "absent"
    BY <1>12, DeletedEffect DEF PurgeExpiredTokens
  <2> QED
    BY <1>12, <2>1 DEF PurgeExpiredTokens, TypeOK, Issued
<1>13. ASSUME NEW u \in User, Deactivate(u)
       PROVE  TypeOK'
  BY <1>13 DEF Deactivate, TypeOK, Issued
<1>14. ASSUME NEW t \in Token, Expire(t)
       PROVE  TypeOK'
  BY <1>14 DEF Expire, TypeOK, Issued
<1>15. CASE UNCHANGED vars
  BY <1>15 DEF vars, TypeOK, Issued
<1> QED
  BY <1>1, <1>2, <1>3, <1>4, <1>5, <1>6, <1>7, <1>8, <1>9, <1>10, <1>11, <1>12,
     <1>13, <1>14, <1>15 DEF Next, Handle

-----------------------------------------------------------------------------
(* Grants are never changed, and only a creation makes one. *)

LEMMA IssuedUnchanged ==
    ASSUME [Next]_vars, \A r \in Request: ~CreateToken(r)
    PROVE  issued' = issued
BY DEF Next, Handle, vars, BeginSession, BeginRotation, FindUser, FindFamily, RevokeFamily,
       MarkRevoked, PruneExpiredTokens, Fail, RevokeAllTokens, RevokeDeviceSession,
       PurgeExpiredTokens, Deactivate, Expire

\* A creation issues one unused token, live, with the identity of its request.
LEMMA Creation ==
    ASSUME TypeOK, RequestOK, NEW r \in Request, CreateToken(r)
    PROVE  \E t \in Token \ Issued, g \in Identity(r):
             /\ g \in Grant
             /\ issued'[t] = g
             /\ row'[t] = "live"
             /\ Issued' = Issued \cup {t}
             /\ Present' = Present \cup {t}
             /\ \A x \in Token: x # t => issued'[x] = issued[x] /\ row'[x] = row[x]
<1>1. Identity(r) \subseteq Grant
  <2>1. CASE Rotating(r)
    BY <2>1, IssuedGrant DEF Identity, RequestOK
  <2>2. CASE ~Rotating(r)
    BY <2>2 DEF CreateToken, Identity, RequestOK, Busy, Step, Grant
  <2> QED
    BY <2>1, <2>2
<1>2. PICK t \in Token \ Issued, g \in Identity(r):
        /\ issued' = [issued EXCEPT ![t] = g]
        /\ row' = [row EXCEPT ![t] = "live"]
  BY DEF CreateToken
<1>3. g \in Grant /\ g # NoGrant
  BY <1>1, GrantNotNull
<1> QED
  BY <1>2, <1>3 DEF TypeOK, Issued, Present

LEMMA IssuedGrows ==
    ASSUME TypeOK, RequestOK, [Next]_vars
    PROVE  /\ Issued \subseteq Issued'
           /\ \A t \in Issued: issued'[t] = issued[t]
<1>1. CASE \E r \in Request: CreateToken(r)
  <2>1. PICK r \in Request: CreateToken(r)
    BY <1>1
  <2> QED
    BY <2>1, Creation DEF Issued
<1>2. CASE \A r \in Request: ~CreateToken(r)
  BY <1>2, IssuedUnchanged DEF Issued
<1> QED
  BY <1>1, <1>2

-----------------------------------------------------------------------------
(* The locals of the handlers *)

LEMMA RequestInit == Init => RequestOK
BY DEF Init, RequestOK, Idle, Busy, Rotating

LEMMA RequestStep == TypeOK /\ RequestOK /\ [Next]_vars => RequestOK'
<1> SUFFICES ASSUME TypeOK, RequestOK, [Next]_vars PROVE RequestOK'
  OBVIOUS
<1>0. Issued \subseteq Issued' /\ \A t \in Issued: issued'[t] = issued[t]
  BY IssuedGrows
<1> USE DEF RequestOK, Rotating
<1>1. ASSUME NEW r \in Request, NEW u \in User, BeginSession(r, u)
      PROVE  RequestOK'
  BY <1>0, <1>1 DEF BeginSession, TypeOK
<1>2. ASSUME NEW r \in Request, NEW t \in Token, BeginRotation(r, t)
      PROVE  RequestOK'
  <2>1. t \in Issued /\ issued[t].userId \in User /\ t # NoToken
    BY <1>2, IssuedGrant, NullAssumption DEF BeginRotation
  <2>2. /\ \A q \in Request: q # r => request'[q] = request[q]
        /\ request'[r].token = t
        /\ request'[r].user = issued[t].userId
    BY <1>2 DEF BeginRotation, TypeOK
  <2> QED
    BY <1>0, <2>1, <2>2
<1>3. ASSUME NEW r \in Request, NEW s \in Step, Goto(r, s),
             request[r].step \in Busy,
             s \in {"findUser", "findFamily", "revokeFamily", "markRevoked"} => Rotating(r)
      PROVE  RequestOK'
  BY <1>0, <1>3, GotoEffect
<1>4. ASSUME NEW r \in Request, Finish(r)
      PROVE  RequestOK'
  <2>1. /\ \A q \in Request: q # r => request'[q] = request[q]
        /\ request'[r].step = "idle"
        /\ request'[r].token = NoToken
    BY <1>4, FinishEffect
  <2> QED
    BY <1>0, <2>1 DEF Busy
<1>5. ASSUME NEW r \in Request, Handle(r)
      PROVE  RequestOK'
  <2>1. CASE FindUser(r)
    BY <2>1, <1>3, <1>4 DEF FindUser, Busy, Step
  <2>2. CASE FindFamily(r)
    <3>1. Goto(r, "markRevoked") \/ Goto(r, "revokeFamily") \/ Finish(r)
      BY <2>2 DEF FindFamily
    <3> QED
      BY <2>2, <3>1, <1>3, <1>4 DEF FindFamily, Busy, Step
  <2>3. CASE RevokeFamily(r)
    BY <2>3, <1>4 DEF RevokeFamily
  <2>4. CASE MarkRevoked(r)
    BY <2>4, <1>3, <1>4 DEF MarkRevoked, Busy, Step
  <2>5. CASE CreateToken(r)
    BY <2>5, <1>3 DEF CreateToken, Busy, Step
  <2>6. CASE PruneExpiredTokens(r)
    BY <2>6, <1>4 DEF PruneExpiredTokens
  <2> QED
    BY <1>5, <2>1, <2>2, <2>3, <2>4, <2>5, <2>6 DEF Handle
<1>6. ASSUME NEW r \in Request, Fail(r)
      PROVE  RequestOK'
  BY <1>0, <1>6 DEF Fail, Idle, TypeOK, Busy
<1>7. ASSUME UNCHANGED request
      PROVE  RequestOK'
  BY <1>0, <1>7
<1> QED
  BY <1>1, <1>2, <1>5, <1>6, <1>7
  DEF Next, vars, RevokeAllTokens, RevokeDeviceSession, PurgeExpiredTokens, Deactivate, Expire

-----------------------------------------------------------------------------
(* A family is one user's, on one device. *)

LEMMA LineageInit == Init => LineageCoherent
BY DEF Init, LineageCoherent, Issued

LEMMA LineageStep == TypeOK /\ RequestOK /\ LineageCoherent /\ [Next]_vars => LineageCoherent'
<1> SUFFICES ASSUME TypeOK, RequestOK, LineageCoherent, [Next]_vars PROVE LineageCoherent'
  OBVIOUS
<1>1. CASE \A r \in Request: ~CreateToken(r)
  BY <1>1, IssuedUnchanged DEF LineageCoherent, Issued
<1>2. ASSUME NEW r \in Request, CreateToken(r)
      PROVE  LineageCoherent'
  <2>1. PICK t \in Token \ Issued, g \in Identity(r):
          /\ issued'[t] = g
          /\ Issued' = Issued \cup {t}
          /\ \A x \in Token: x # t => issued'[x] = issued[x]
    BY <1>2, Creation
  <2>2. \A x \in Issued:
          /\ issued[x].family = g.family <=> issued[x].deviceId = g.deviceId
          /\ issued[x].family = g.family => issued[x].userId = g.userId
    <3>1. CASE Rotating(r)
      BY <3>1 DEF Identity, RequestOK, LineageCoherent
    <3>2. CASE ~Rotating(r)
      BY <3>2 DEF Identity, InFamily
    <3> QED
      BY <3>1, <3>2
  <2> QED
    BY <2>1, <2>2 DEF LineageCoherent, Issued
<1> QED
  BY <1>1, <1>2

-----------------------------------------------------------------------------
(* Rows only move towards absent, except the one that is created. *)

LEMMA RowStep ==
    ASSUME TypeOK, RequestOK, [Next]_vars, NEW t \in Issued
    PROVE  /\ row[t] # "live" => row'[t] # "live"
           /\ row[t] = "absent" => row'[t] = "absent"
<1> USE DEF TypeOK
<1>0. t \in Token
  BY DEF Issued
<1>1. ASSUME NEW T, row' = Deleted(T)
      PROVE  row'[t] = row[t] \/ row'[t] = "absent"
  BY <1>0, <1>1, DeletedEffect
<1>2. ASSUME NEW r \in Request, CreateToken(r)
      PROVE  row'[t] = row[t]
  BY <1>0, <1>2, Creation
<1>3. ASSUME NEW r \in Request, MarkRevoked(r)
      PROVE  row'[t] = row[t] \/ (row'[t] = "revoked" /\ row[t] # "absent")
  BY <1>0, <1>3 DEF MarkRevoked, Present
<1>4. CASE UNCHANGED row
  BY <1>4
<1>5. \/ UNCHANGED row
      \/ \E T \in SUBSET Token: row' = Deleted(T)
      \/ \E r \in Request: CreateToken(r) \/ MarkRevoked(r)
  <2>1. ASSUME NEW r \in Request, Handle(r)
        PROVE  \/ UNCHANGED row
               \/ \E T \in SUBSET Token: row' = Deleted(T)
               \/ CreateToken(r) \/ MarkRevoked(r)
    <3>1. CASE RevokeFamily(r)
      <4>1. FamilyRows(request[r].token) \in SUBSET Token
        BY DEF FamilyRows, Present
      <4> QED
        BY <3>1, <4>1 DEF RevokeFamily
    <3>2. CASE PruneExpiredTokens(r)
      <4>1. {x \in Present: Dead(x) /\ issued[x].userId = request[r].user} \in SUBSET Token
        BY DEF Present
      <4> QED
        BY <3>2, <4>1 DEF PruneExpiredTokens
    <3> QED
      BY <2>1, <3>1, <3>2 DEF Handle, FindUser, FindFamily
  <2>2. ASSUME NEW u \in User, RevokeAllTokens(u)
        PROVE  \E T \in SUBSET Token: row' = Deleted(T)
    <3>1. {x \in Present: issued[x].userId = u} \in SUBSET Token
      BY DEF Present
    <3> QED
      BY <2>2, <3>1 DEF RevokeAllTokens
  <2>3. ASSUME NEW u \in User, NEW d \in Device, RevokeDeviceSession(u, d)
        PROVE  \E T \in SUBSET Token: row' = Deleted(T)
    <3>1. {x \in Present: issued[x].userId = u /\ issued[x].deviceId = d} \in SUBSET Token
      BY DEF Present
    <3> QED
      BY <2>3, <3>1 DEF RevokeDeviceSession
  <2>4. ASSUME PurgeExpiredTokens
        PROVE  \E T \in SUBSET Token: row' = Deleted(T)
    <3>1. {x \in Present: Dead(x)} \in SUBSET Token
      BY DEF Present
    <3> QED
      BY <2>4, <3>1 DEF PurgeExpiredTokens
  <2> QED
    BY <2>1, <2>2, <2>3, <2>4 DEF Next, vars, BeginSession, BeginRotation, Fail, Deactivate, Expire
<1> QED
  BY <1>1, <1>2, <1>3, <1>4, <1>5

\* Usable in the next state, of a token that may itself be read there.
UsableNext(t) == t \in Issued' /\ row'[t] = "live" /\ isActive'[issued'[t].userId]

\* No step makes a spent token usable: no row comes back, no user is reactivated.
LEMMA UsableStep ==
    ASSUME TypeOK, RequestOK, [Next]_vars, NEW t \in Issued, ~Usable(t)
    PROVE  ~UsableNext(t)
<1>1. \A u \in User: ~isActive[u] => ~isActive'[u]
  BY DEF Next, Handle, vars, BeginSession, BeginRotation, FindUser, FindFamily, RevokeFamily,
         MarkRevoked, CreateToken, PruneExpiredTokens, Fail, RevokeAllTokens,
         RevokeDeviceSession, PurgeExpiredTokens, Deactivate, Expire, TypeOK
<1>2. issued'[t] = issued[t] /\ issued[t].userId \in User
  BY IssuedGrows, IssuedGrant
<1>3. row[t] # "live" => row'[t] # "live"
  BY RowStep
<1> QED
  BY <1>1, <1>2, <1>3 DEF Usable, UsableNext

-----------------------------------------------------------------------------
(* A rotation that is about to create has consumed its token. *)

LEMMA ConsumedInit == Init => Consumed
BY DEF Init, Consumed, Rotating, Idle

LEMMA ConsumedStep == TypeOK /\ RequestOK /\ Consumed /\ [Next]_vars => Consumed'
<1> SUFFICES ASSUME TypeOK, RequestOK, Consumed, [Next]_vars,
                    NEW q \in Request,
                    request'[q].token # NoToken,
                    request'[q].step \in {"create", "prune"}
             PROVE  row'[request'[q].token] # "live"
  BY DEF Consumed, Rotating
<1>1. CASE request'[q] = request[q]
  BY <1>1, RowStep DEF Consumed, Rotating, RequestOK
<1>2. ASSUME NEW r \in Request, Goto(r, "prune"), request[r].step = "create"
      PROVE  row'[request'[q].token] # "live"
  <2>1. CASE q = r
    <3>1. request'[q].token = request[r].token
      BY <1>2, <2>1, GotoEffect DEF Step
    <3> QED
      BY <1>2, <2>1, <3>1, RowStep DEF Consumed, Rotating, RequestOK
  <2>2. CASE q # r
    BY <1>2, <2>2, <1>1, GotoEffect DEF Step
  <2> QED
    BY <2>1, <2>2
<1>3. ASSUME NEW r \in Request, MarkRevoked(r)
      PROVE  row'[request'[q].token] # "live"
  <2>1. CASE q = r
    <3>1. request[r].token \in Present
      BY <1>3, <2>1, FinishEffect DEF MarkRevoked
    <3>2. row' = [row EXCEPT ![request[r].token] = "revoked"] /\ Goto(r, "create")
      BY <1>3, <3>1 DEF MarkRevoked
    <3>3. request'[q].token = request[r].token
      BY <2>1, <3>2, GotoEffect DEF Step
    <3> QED
      BY <3>1, <3>2, <3>3 DEF Present, TypeOK
  <2>2. CASE q # r
    BY <1>3, <2>2, <1>1, GotoEffect, FinishEffect DEF Step, MarkRevoked
  <2> QED
    BY <2>1, <2>2
<1>4. ASSUME NEW r \in Request, NEW s \in Step \ {"create", "prune"}, Goto(r, s)
      PROVE  row'[request'[q].token] # "live"
  BY <1>4, <1>1, GotoEffect
<1>5. ASSUME NEW r \in Request, Finish(r)
      PROVE  row'[request'[q].token] # "live"
  BY <1>5, <1>1, FinishEffect
<1>6. ASSUME NEW r \in Request, Handle(r)
      PROVE  row'[request'[q].token] # "live"
  BY <1>2, <1>3, <1>4, <1>5, <1>6
  DEF Handle, FindUser, FindFamily, RevokeFamily, CreateToken, PruneExpiredTokens, Step
<1>7. ASSUME NEW r \in Request, NEW u \in User, BeginSession(r, u)
      PROVE  row'[request'[q].token] # "live"
  BY <1>7, <1>1 DEF BeginSession, TypeOK
<1>8. ASSUME NEW r \in Request, NEW t \in Token, BeginRotation(r, t)
      PROVE  row'[request'[q].token] # "live"
  <2>1. request'[r].step = "findUser" /\ (q # r => request'[q] = request[q])
    BY <1>8 DEF BeginRotation, TypeOK
  <2> QED
    BY <2>1, <1>1
<1>9. ASSUME NEW r \in Request, Fail(r)
      PROVE  row'[request'[q].token] # "live"
  BY <1>9, <1>1 DEF Fail, Idle, TypeOK
<1> QED
  BY <1>1, <1>6, <1>7, <1>8, <1>9
  DEF Next, vars, RevokeAllTokens, RevokeDeviceSession, PurgeExpiredTokens, Deactivate, Expire

-----------------------------------------------------------------------------
(* A stale request is never let through. *)

LEMMA StaleInit == Init => StaleInv
BY DEF Init, StaleInv, Idle

LEMMA StaleStep == TypeOK /\ RequestOK /\ StaleInv /\ [Next]_vars => StaleInv'
<1> SUFFICES ASSUME TypeOK, RequestOK, StaleInv, [Next]_vars,
                    NEW q \in Request, request'[q].stale
             PROVE  /\ request'[q].step \in {"findUser", "findFamily", "revokeFamily"}
                    /\ ~UsableNext(request'[q].token)
                    /\ request'[q].step # "findUser" => row'[request'[q].token] # "live"
  BY DEF StaleInv, Usable, UsableNext
<1> DEFINE Kept == /\ request'[q].step \in {"findUser", "findFamily", "revokeFamily"}
                   /\ ~UsableNext(request'[q].token)
                   /\ request'[q].step # "findUser" => row'[request'[q].token] # "live"
\* The request was stale before, with the same token: what was true of it stays true.
<1>0. ASSUME request[q].stale,
             request'[q].token = request[q].token,
             request'[q].step \in {"findUser", "findFamily", "revokeFamily"},
             request'[q].step # "findUser" => row[request[q].token] # "live"
      PROVE  Kept
  <2>1. request[q].token \in Issued
    BY <1>0 DEF StaleInv, RequestOK
  <2>2. ~UsableNext(request[q].token)
    BY <1>0, <2>1, UsableStep DEF StaleInv
  <2> QED
    BY <1>0, <2>1, <2>2, RowStep
<1>1. CASE request'[q] = request[q]
  BY <1>1, <1>0 DEF StaleInv
<1>2. ASSUME NEW r \in Request, Finish(r)
      PROVE  Kept
  BY <1>2, <1>1, FinishEffect
<1>3. ASSUME NEW r \in Request, q # r, NEW s \in Step, Goto(r, s)
      PROVE  Kept
  BY <1>3, <1>1, GotoEffect
<1>4. ASSUME NEW r \in Request, Handle(r)
      PROVE  Kept
  <2>1. CASE FindUser(r)
    <3>1. CASE isActive[request[r].user] /\ q = r
      <4>1. Goto(r, "findFamily") /\ request[r].step = "findUser"
        BY <2>1, <3>1 DEF FindUser
      <4>2. /\ request[q].stale /\ request'[q].token = request[q].token
            /\ request'[q].step = "findFamily"
        BY <3>1, <4>1, GotoEffect DEF Step
      <4>3. row[request[q].token] # "live"
        BY <3>1, <4>1, <4>2 DEF StaleInv, RequestOK, Usable
      <4> QED
        BY <1>0, <4>2, <4>3
    <3> QED
      BY <2>1, <3>1, <1>2, <1>3 DEF FindUser, Step
  <2>2. CASE FindFamily(r)
    <3>1. CASE Goto(r, "revokeFamily") /\ q = r
      <4>1. /\ request[q].stale /\ request'[q].token = request[q].token
            /\ request'[q].step = "revokeFamily"
        BY <3>1, GotoEffect DEF Step
      <4>2. row[request[q].token] # "live"
        BY <2>2, <3>1, <4>1 DEF FindFamily, StaleInv
      <4> QED
        BY <1>0, <4>1, <4>2
    <3>2. CASE row[request[r].token] = "live" /\ Goto(r, "markRevoked") /\ q = r
      <4>1. request[q].stale
        BY <3>2, GotoEffect DEF Step
      <4> QED
        BY <2>2, <3>2, <4>1 DEF FindFamily, StaleInv
    <3> QED
      BY <2>2, <3>1, <3>2, <1>2, <1>3 DEF FindFamily, Step
  <2>3. CASE RevokeFamily(r)
    BY <2>3, <1>2 DEF RevokeFamily
  <2>4. CASE MarkRevoked(r)
    <3>1. CASE q = r
      BY <2>4, <3>1, <1>2, GotoEffect DEF MarkRevoked, StaleInv, Step
    <3> QED
      BY <2>4, <3>1, <1>2, <1>3 DEF MarkRevoked, Step
  <2>5. CASE CreateToken(r)
    <3>1. CASE q = r
      BY <2>5, <3>1, GotoEffect DEF CreateToken, StaleInv, Step
    <3> QED
      BY <2>5, <3>1, <1>3 DEF CreateToken, Step
  <2>6. CASE PruneExpiredTokens(r)
    BY <2>6, <1>2 DEF PruneExpiredTokens
  <2> QED
    BY <1>4, <2>1, <2>2, <2>3, <2>4, <2>5, <2>6 DEF Handle
<1>5. ASSUME NEW r \in Request, NEW u \in User, BeginSession(r, u)
      PROVE  Kept
  BY <1>5, <1>1 DEF BeginSession, TypeOK
<1>6. ASSUME NEW r \in Request, NEW t \in Token, BeginRotation(r, t)
      PROVE  Kept
  <2>1. CASE q = r
    <3>1. /\ request'[q].token = t
          /\ request'[q].step = "findUser"
          /\ request'[q].stale = ~Usable(t)
      BY <1>6, <2>1 DEF BeginRotation, TypeOK
    <3>2. t \in Issued /\ ~Usable(t)
      BY <1>6, <3>1 DEF BeginRotation
    <3>3. ~UsableNext(t)
      BY <3>2, UsableStep
    <3> QED
      BY <3>1, <3>3
  <2> QED
    BY <1>6, <2>1, <1>1 DEF BeginRotation, TypeOK
<1>7. ASSUME NEW r \in Request, Fail(r)
      PROVE  Kept
  BY <1>7, <1>1 DEF Fail, Idle, TypeOK
<1> QED
  BY <1>1, <1>4, <1>5, <1>6, <1>7
  DEF Next, vars, RevokeAllTokens, RevokeDeviceSession, PurgeExpiredTokens, Deactivate, Expire

-----------------------------------------------------------------------------
(* A family that is gone stays gone, and a quiet termination makes it so. *)

\* Gone in the next state, spelled out.
LEMMA GoneNext ==
    ASSUME TypeOK', NEW f \in Family,
           \A t \in Issued': issued'[t].family = f => row'[t] = "absent",
           \A r \in Request: request'[r].token # NoToken /\ request'[r].step = "create"
                               => issued'[request'[r].token].family # f
    PROVE  Gone(f)'
BY InWindowNextIff DEF Gone, InFamily, Present

\* A handler reaches its create step from a login or by revoking a present token.
LEMMA WindowEntry ==
    ASSUME TypeOK, RequestOK, [Next]_vars, NEW q \in Request,
           request'[q].token # NoToken, request'[q].step = "create"
    PROVE  \/ request'[q] = request[q]
           \/ request'[q].token = request[q].token /\ request[q].token \in Present
<1> DEFINE Entered == \/ request'[q] = request[q]
                      \/ request'[q].token = request[q].token /\ request[q].token \in Present
<1>1. ASSUME NEW r \in Request, Finish(r)
      PROVE  Entered
  BY <1>1, FinishEffect
<1>2. ASSUME NEW r \in Request, NEW s \in Step \ {"create"}, Goto(r, s)
      PROVE  Entered
  BY <1>2, GotoEffect
<1>3. ASSUME NEW r \in Request, MarkRevoked(r)
      PROVE  Entered
  <2>1. CASE request[r].token \in Present
    BY <1>3, <2>1, GotoEffect DEF MarkRevoked, Step
  <2>2. CASE request[r].token \notin Present
    BY <1>1, <1>3, <2>2 DEF MarkRevoked
  <2> QED
    BY <2>1, <2>2
<1>4. ASSUME NEW r \in Request, Handle(r)
      PROVE  Entered
  BY <1>1, <1>2, <1>3, <1>4
  DEF Handle, FindUser, FindFamily, RevokeFamily, CreateToken, PruneExpiredTokens, Step
<1>5. ASSUME NEW r \in Request, NEW u \in User, BeginSession(r, u)
      PROVE  Entered
  BY <1>5 DEF BeginSession, TypeOK
<1>6. ASSUME NEW r \in Request, NEW t \in Token, BeginRotation(r, t)
      PROVE  Entered
  <2>1. request'[r].step = "findUser" /\ (q # r => request'[q] = request[q])
    BY <1>6 DEF BeginRotation, TypeOK
  <2> QED
    BY <2>1
<1>7. ASSUME NEW r \in Request, Fail(r)
      PROVE  Entered
  BY <1>7 DEF Fail, Idle, TypeOK
<1> QED
  BY <1>4, <1>5, <1>6, <1>7
  DEF Next, vars, RevokeAllTokens, RevokeDeviceSession, PurgeExpiredTokens, Deactivate, Expire

LEMMA GoneStays ==
    ASSUME TypeOK, TypeOK', RequestOK, [Next]_vars,
           NEW f \in Family, Gone(f), InFamily(f) # {}
    PROVE  Gone(f)'
<1>1. \A t \in Issued: issued[t].family = f => row[t] = "absent"
  BY DEF Gone, InFamily, Present, Issued
<1>2. \A r \in Request: Rotating(r) /\ request[r].step = "create"
                          => issued[request[r].token].family # f
  BY InWindowIff DEF Gone
<1>3. ASSUME NEW t \in Issued', issued'[t].family = f
      PROVE  row'[t] = "absent"
  <2>1. CASE t \in Issued
    BY <1>1, <1>3, <2>1, IssuedGrows, RowStep
  <2>2. CASE t \notin Issued
    <3>1. PICK r \in Request: CreateToken(r)
      BY <1>3, <2>2, IssuedUnchanged DEF Issued
    <3>2. PICK g \in Identity(r): issued'[t] = g
      BY <2>2, <3>1, Creation
    <3>3. g.family # f
      BY <1>2, <3>1, <3>2 DEF Identity, CreateToken
    <3> QED
      BY <1>3, <3>2, <3>3
  <2> QED
    BY <2>1, <2>2
<1>4. ASSUME NEW r \in Request, request'[r].token # NoToken, request'[r].step = "create"
      PROVE  issued'[request'[r].token].family # f
  <2>1. CASE request'[r] = request[r]
    <3>1. request[r].token \in Issued
      BY <1>4, <2>1 DEF RequestOK, Rotating
    <3> QED
      BY <1>2, <1>4, <2>1, <3>1, IssuedGrows DEF Rotating
  <2>2. CASE request'[r].token = request[r].token /\ request[r].token \in Present
    <3>1. request[r].token \in Issued /\ row[request[r].token] # "absent"
      BY <2>2 DEF TypeOK, Present
    <3> QED
      BY <1>1, <2>2, <3>1, IssuedGrows
  <2> QED
    BY <1>4, <2>1, <2>2, WindowEntry
<1> QED
  BY <1>3, <1>4, GoneNext

LEMMA ClosedInit == Init => ClosedInv
BY DEF Init, ClosedInv

\* Terminating families whose rows are all deleted.
LEMMA ClosedByTermination ==
    ASSUME TypeOK, TypeOK', RequestOK, ClosedInv, [Next]_vars,
           NEW F, Terminate(F), issued' = issued,
           \A f \in F: InFamily(f) # {},
           \A t \in Issued: issued[t].family \in F => row'[t] = "absent",
           \A q \in Request: request'[q] = request[q] \/ request'[q].token = NoToken
    PROVE  ClosedInv'
<1>0. Issued' = Issued
  BY DEF Issued
<1> SUFFICES ASSUME NEW f \in Family
             PROVE  /\ closing'[f] # "no" => InFamily(f)' # {}
                    /\ closing'[f] = "closed" => Gone(f)'
  BY DEF ClosedInv
<1>1. InFamily(f)' = InFamily(f)
  BY <1>0 DEF InFamily
<1>2. CASE f \notin F
  <2>1. closing'[f] = closing[f]
    BY <1>2 DEF Terminate
  <2> QED
    BY <1>1, <2>1, GoneStays DEF ClosedInv
<1>3. CASE f \in F /\ f \in InWindow
  BY <1>1, <1>3 DEF Terminate
<1>4. CASE f \in F /\ f \notin InWindow
  <2>1. \A t \in Issued': issued'[t].family = f => row'[t] = "absent"
    BY <1>0, <1>4
  <2>2. ASSUME NEW r \in Request, request'[r].token # NoToken, request'[r].step = "create"
        PROVE  issued'[request'[r].token].family # f
    BY <1>4, <2>2, InWindowIff DEF Rotating
  <2> QED
    BY <1>1, <1>4, <2>1, <2>2, GoneNext
<1> QED
  BY <1>2, <1>3, <1>4

LEMMA ClosedStep ==
    TypeOK /\ TypeOK' /\ RequestOK /\ LineageCoherent /\ ClosedInv /\ [Next]_vars => ClosedInv'
<1> SUFFICES ASSUME TypeOK, TypeOK', RequestOK, LineageCoherent, ClosedInv, [Next]_vars
             PROVE  ClosedInv'
  OBVIOUS
<1>1. CASE closing' = closing
  <2> SUFFICES ASSUME NEW f \in Family, closing[f] # "no"
               PROVE  /\ InFamily(f)' # {}
                      /\ closing[f] = "closed" => Gone(f)'
    BY <1>1 DEF ClosedInv
  <2>1. InFamily(f) # {} /\ InFamily(f)' # {}
    BY IssuedGrows DEF ClosedInv, InFamily
  <2> QED
    BY <2>1, GoneStays DEF ClosedInv
<1>2. ASSUME NEW r \in Request, RevokeFamily(r)
      PROVE  ClosedInv'
  <2> DEFINE t == request[r].token
  <2>1. t \in Issued
    BY <1>2 DEF RevokeFamily, RequestOK
  <2>2. InFamily(issued[t].family) # {}
    BY <2>1 DEF InFamily
  <2>3. ASSUME NEW x \in Issued, issued[x].family = issued[t].family
        PROVE  row'[x] = "absent"
    <3>1. issued[x].userId = issued[t].userId
      BY <2>1, <2>3 DEF LineageCoherent
    <3>2. CASE x \in Present
      BY <1>2, <2>3, <3>1, <3>2, DeletedEffect DEF RevokeFamily, FamilyRows, Issued
    <3>3. CASE x \notin Present
      BY <1>2, <3>3, DeletedEffect DEF RevokeFamily, Present, Issued
    <3> QED
      BY <3>2, <3>3
  <2>4. \A q \in Request: request'[q] = request[q] \/ request'[q].token = NoToken
    BY <1>2, FinishEffect DEF RevokeFamily
  <2> HIDE DEF t
  <2>5. Terminate({issued[t].family}) /\ issued' = issued
    BY <1>2 DEF RevokeFamily, t
  <2> QED
    BY <2>2, <2>3, <2>4, <2>5, ClosedByTermination
<1>3. ASSUME NEW u \in User, RevokeAllTokens(u)
      PROVE  ClosedInv'
  <2> DEFINE F == {issued[t].family: t \in {t \in Issued: issued[t].userId = u}}
  <2>1. \A f \in F: InFamily(f) # {}
    BY DEF InFamily
  <2>2. ASSUME NEW x \in Issued, issued[x].family \in F
        PROVE  row'[x] = "absent"
    <3>1. issued[x].userId = u
      BY <2>2 DEF LineageCoherent
    <3>2. CASE x \in Present
      BY <1>3, <3>1, <3>2, DeletedEffect DEF RevokeAllTokens, Issued
    <3>3. CASE x \notin Present
      BY <1>3, <3>3, DeletedEffect DEF RevokeAllTokens, Present, Issued
    <3> QED
      BY <3>2, <3>3
  <2>3. Terminate(F) /\ issued' = issued /\ request' = request
    BY <1>3 DEF RevokeAllTokens
  <2> HIDE DEF F
  <2> QED
    BY <2>1, <2>2, <2>3, ClosedByTermination
<1>4. ASSUME NEW u \in User, NEW d \in Device, RevokeDeviceSession(u, d)
      PROVE  ClosedInv'
  <2> DEFINE rows == {t \in Present: issued[t].userId = u /\ issued[t].deviceId = d}
             F == {issued[t].family: t \in rows}
  <2>1. rows \subseteq Issued
    BY DEF TypeOK
  <2>2. \A f \in F: InFamily(f) # {}
    BY <2>1 DEF InFamily
  <2>3. ASSUME NEW x \in Issued, issued[x].family \in F
        PROVE  row'[x] = "absent"
    <3>1. issued[x].userId = u /\ issued[x].deviceId = d
      BY <2>1, <2>3 DEF LineageCoherent
    <3>2. CASE x \in Present
      BY <1>4, <3>1, <3>2, DeletedEffect DEF RevokeDeviceSession, Issued
    <3>3. CASE x \notin Present
      BY <1>4, <3>3, DeletedEffect DEF RevokeDeviceSession, Present, Issued
    <3> QED
      BY <3>2, <3>3
  <2>4. Terminate(F) /\ issued' = issued /\ request' = request
    BY <1>4 DEF RevokeDeviceSession
  <2> HIDE DEF F
  <2> QED
    BY <2>2, <2>3, <2>4, ClosedByTermination
<1>5. \/ closing' = closing
      \/ \E r \in Request: RevokeFamily(r)
      \/ \E u \in User: RevokeAllTokens(u)
      \/ \E u \in User, d \in Device: RevokeDeviceSession(u, d)
  BY DEF Next, Handle, vars, BeginSession, BeginRotation, FindUser, FindFamily, MarkRevoked,
         CreateToken, PruneExpiredTokens, Fail, PurgeExpiredTokens, Deactivate, Expire
<1> QED
  BY <1>1, <1>2, <1>3, <1>4, <1>5

-----------------------------------------------------------------------------
(* The invariant, and what follows from it. *)

LEMMA IInvInit == Init => IInv
BY TypeInit, RequestInit, LineageInit, ConsumedInit, StaleInit, ClosedInit DEF IInv

LEMMA IInvStep == IInv /\ [Next]_vars => IInv'
BY TypeStep, RequestStep, LineageStep, ConsumedStep, StaleStep, ClosedStep DEF IInv

THEOREM Invariance == Spec => []IInv
BY IInvInit, IInvStep, PTL DEF Spec

\* Every variable keeps its type, and a row exists only for a token that was signed.
THEOREM TypeCorrect == Spec => []TypeOK
BY Invariance, PTL DEF IInv

\* A family names one user and one device, for ever.
THEOREM OneOwnerPerFamily == Spec => []LineageCoherent
BY Invariance, PTL DEF IInv

\* A rotation issues a successor only for a token nobody can use any more.
THEOREM RotationConsumesToken == Spec => []RotationConsumes
<1>1. IInv => RotationConsumes
  BY DEF IInv, Consumed, RotationConsumes, Usable
<1> QED
  BY <1>1, Invariance, PTL

\* A refresh with a spent token never issues a successor, in any interleaving.
THEOREM ReuseDetected == Spec => []ReplayRejected
<1>1. IInv => ReplayRejected
  BY DEF IInv, StaleInv, ReplayRejected
<1> QED
  BY <1>1, Invariance, PTL

\* A family terminated outside every rotation's window has no row ever again.
THEOREM TerminationIsFinal == Spec => []TerminationFinal
<1>1. IInv => TerminationFinal
  BY DEF IInv, ClosedInv, TerminationFinal
<1> QED
  BY <1>1, Invariance, PTL

\* No step makes a spent token acceptable again.
THEOREM SpentStaysSpent == Spec => SpentForever
<1>1. IInv /\ [Next]_vars => [\A t \in Issued: ~Usable(t) => ~Usable(t)']_vars
  BY UsableStep DEF IInv, Usable, UsableNext
<1> QED
  BY <1>1, Invariance, PTL DEF Spec, SpentForever

-----------------------------------------------------------------------------
(* RefreshTokens implements SessionFamilies. *)

Status(f) == IF Gone(f) THEN "closed" ELSE "open"

\* An opened session can be read off any token of its family.
SessionForm ==
    \A f \in Family:
        /\ InFamily(f) = {} => session[f] = Unborn
        /\ \A t \in InFamily(f):
             session[f] = [user |-> issued[t].userId, device |-> issued[t].deviceId,
                           status |-> Status(f)]

LEMMA SessionHasForm == TypeOK /\ LineageCoherent => SessionForm
<1> SUFFICES ASSUME TypeOK, LineageCoherent, NEW f \in Family
             PROVE  /\ InFamily(f) = {} => session[f] = Unborn
                    /\ \A t \in InFamily(f):
                         session[f] = [user |-> issued[t].userId,
                                       device |-> issued[t].deviceId,
                                       status |-> Status(f)]
  BY DEF SessionForm
<1>1. InFamily(f) = {} => session[f] = Unborn
  BY DEF session
<1>2. ASSUME NEW t \in InFamily(f)
      PROVE  session[f] = [user |-> issued[t].userId, device |-> issued[t].deviceId,
                           status |-> Status(f)]
  <2> DEFINE c == CHOOSE x \in InFamily(f): TRUE
  <2>1. c \in InFamily(f)
    BY <1>2
  <2>2. issued[c].userId = issued[t].userId /\ issued[c].deviceId = issued[t].deviceId
    BY <1>2, <2>1 DEF InFamily, LineageCoherent
  <2>3. session[f] = [user |-> issued[c].userId, device |-> issued[c].deviceId,
                      status |-> Status(f)]
    BY <2>1 DEF session, Status
  <2> QED
    BY <2>2, <2>3
<1> QED
  BY <1>1, <1>2

LEMMA SessionInit == Init => Sessions!Init
<1> SUFFICES ASSUME Init PROVE Sessions!Init
  OBVIOUS
<1>1. \A f \in Family: InFamily(f) = {}
  BY DEF Init, InFamily, Issued
<1> QED
  BY <1>1 DEF Sessions!Init, session

LEMMA SessionIsFunction == session = [f \in Family |-> session[f]]
BY DEF session

\* A login's creation opens a session.
LEMMA LoginOpens ==
    ASSUME IInv, SessionForm, SessionForm',
           session' = [f \in Family |-> session'[f]],
           NEW r \in Request, CreateToken(r), ~Rotating(r)
    PROVE  Sessions!Next
<1>0. TypeOK /\ RequestOK
  BY DEF IInv
<1>1. PICK t \in Token \ Issued, g \in Identity(r):
        /\ g \in Grant
        /\ issued'[t] = g
        /\ row'[t] = "live"
        /\ Issued' = Issued \cup {t}
        /\ Present' = Present \cup {t}
        /\ \A x \in Token: x # t => issued'[x] = issued[x] /\ row'[x] = row[x]
  BY <1>0, Creation
<1>2. /\ g.family \in Family
      /\ g.userId \in User
      /\ g.deviceId \in Device
      /\ InFamily(g.family) = {}
  BY <1>1 DEF Identity, Grant
<1>3. session[g.family] = Unborn
  BY <1>2 DEF SessionForm
<1>4. session'[g.family] = [user |-> g.userId, device |-> g.deviceId, status |-> "open"]
  <2>1. t \in InFamily(g.family)'
    BY <1>1 DEF InFamily
  <2>2. Status(g.family)' = "open"
    BY <1>1, <2>1 DEF Gone, Status
  <2> QED
    BY <1>1, <1>2, <2>1, <2>2 DEF SessionForm
<1>5. ASSUME NEW f \in Family, f # g.family
      PROVE  session'[f] = session[f]
  <2>1. InFamily(f)' = InFamily(f) /\ \A x \in InFamily(f): issued'[x] = issued[x]
    BY <1>1, <1>5 DEF InFamily, Issued
  <2>2. f \in InWindow' <=> f \in InWindow
    <3>1. \A q \in Request: q # r => request'[q] = request[q]
      BY <1>0, GotoEffect DEF CreateToken, Step
    <3>2. request'[r].step = "prune"
      BY <1>0, GotoEffect DEF CreateToken, Step
    <3>3. \A q \in Request: Rotating(q) => /\ request[q].token \in Issued
                                          /\ issued'[request[q].token] = issued[request[q].token]
      BY <1>0, <1>1 DEF RequestOK, Issued
    <3> QED
      BY <3>1, <3>2, <3>3, InWindowIff, InWindowNextIff DEF Rotating
  <2>3. InFamily(f) \cap Present' = InFamily(f) \cap Present
    BY <1>1 DEF InFamily
  <2>4. Status(f)' = Status(f)
    BY <2>1, <2>2, <2>3 DEF Status, Gone
  <2>5. CASE InFamily(f) = {}
    BY <2>1, <2>5 DEF SessionForm
  <2>6. CASE InFamily(f) # {}
    <3>1. PICK x \in InFamily(f): TRUE
      BY <2>6
    <3> QED
      BY <2>1, <2>4, <3>1 DEF SessionForm
  <2> QED
    BY <2>5, <2>6
<1>6. session' = [session EXCEPT ![g.family] =
                    [user |-> g.userId, device |-> g.deviceId, status |-> "open"]]
  BY <1>2, <1>4, <1>5, SessionIsFunction
<1> QED
  BY <1>2, <1>3, <1>6 DEF Sessions!Next, Sessions!Open

\* Any other step closes the sessions it leaves without row or rotation, or none.
LEMMA OtherStepsClose ==
    ASSUME IInv, IInv', [Next]_vars, SessionForm, SessionForm',
           session' = [f \in Family |-> session'[f]],
           \A r \in Request: CreateToken(r) => Rotating(r)
    PROVE  Sessions!Next
<1>0. TypeOK /\ TypeOK' /\ RequestOK
  BY DEF IInv
<1> DEFINE F == {f \in Family: InFamily(f) # {} /\ Status(f)' = "closed"}
<1>1. ASSUME NEW f \in Family, InFamily(f) = {}
      PROVE  InFamily(f)' = {}
  <2>1. CASE \A r \in Request: ~CreateToken(r)
    BY <1>1, <2>1, IssuedUnchanged DEF InFamily, Issued
  <2>2. ASSUME NEW r \in Request, CreateToken(r)
        PROVE  InFamily(f)' = {}
    <3>1. PICK t \in Token \ Issued, g \in Identity(r):
            /\ issued'[t] = g
            /\ Issued' = Issued \cup {t}
            /\ \A x \in Token: x # t => issued'[x] = issued[x]
      BY <1>0, <2>2, Creation
    <3>2. Rotating(r)
      BY <2>2
    <3>3. g.family # f
      BY <1>0, <1>1, <3>1, <3>2 DEF Identity, InFamily, RequestOK
    <3> QED
      BY <1>1, <3>1, <3>3 DEF InFamily, Issued
  <2> QED
    BY <2>1, <2>2
<1>2. ASSUME NEW f \in Family, NEW x \in InFamily(f)
      PROVE  /\ x \in InFamily(f)'
             /\ issued'[x] = issued[x]
             /\ Status(f) = "closed" => Status(f)' = "closed"
  <2>1. x \in InFamily(f)' /\ issued'[x] = issued[x]
    BY <1>0, <1>2, IssuedGrows DEF InFamily
  <2>2. Gone(f) => Gone(f)'
    BY <1>0, <1>2, GoneStays
  <2> QED
    BY <2>1, <2>2 DEF Status
<1>3. \A f \in F: session[f] # Unborn
  <2> SUFFICES ASSUME NEW f \in F PROVE session[f] # Unborn
    OBVIOUS
  <2>1. PICK x \in InFamily(f): TRUE
    OBVIOUS
  <2>2. x \in Issued
    BY <2>1 DEF InFamily
  <2>3. issued[x].userId \in User /\ issued[x].deviceId \in Device
    BY <1>0, <2>2, IssuedGrant
  <2>4. session[f] = [user |-> issued[x].userId, device |-> issued[x].deviceId,
                      status |-> Status(f)]
    BY <2>1 DEF SessionForm
  <2>5. Status(f) \in {"open", "closed"}
    BY DEF Status
  <2>6. session[f] \in [user: User, device: Device, status: {"open", "closed"}]
    BY <2>3, <2>4, <2>5
  <2> QED
    BY <2>6, NullAssumption
<1>4. \A u, d, s: [[user |-> u, device |-> d, status |-> s] EXCEPT !.status = "closed"]
                    = [user |-> u, device |-> d, status |-> "closed"]
  OBVIOUS
<1>5. ASSUME NEW f \in Family
      PROVE  session'[f] = IF f \in F THEN [session[f] EXCEPT !.status = "closed"]
                                      ELSE session[f]
  <2>1. CASE InFamily(f) = {}
    BY <1>1, <2>1 DEF SessionForm
  <2>2. CASE InFamily(f) # {}
    <3>1. PICK x \in InFamily(f): TRUE
      BY <2>2
    <3>2. /\ session[f] = [user |-> issued[x].userId, device |-> issued[x].deviceId,
                           status |-> Status(f)]
          /\ session'[f] = [user |-> issued[x].userId, device |-> issued[x].deviceId,
                            status |-> Status(f)']
      BY <1>2, <3>1 DEF SessionForm
    <3>3. CASE Status(f)' = "closed"
      <4>1. f \in F
        BY <2>2, <3>3
      <4>2. [session[f] EXCEPT !.status = "closed"]
              = [user |-> issued[x].userId, device |-> issued[x].deviceId, status |-> "closed"]
        BY <1>4, <3>2
      <4> QED
        BY <3>2, <3>3, <4>1, <4>2
    <3>4. CASE Status(f)' # "closed"
      <4>1. f \notin F
        BY <3>4
      <4>2. Status(f)' = Status(f)
        BY <1>2, <3>1, <3>4 DEF Status
      <4> QED
        BY <3>2, <4>1, <4>2
    <3> QED
      BY <3>3, <3>4
  <2> QED
    BY <2>1, <2>2
<1>6. F \in SUBSET Family
  OBVIOUS
<1> HIDE DEF F
<1>7. session' = [f \in Family |-> IF f \in F THEN [session[f] EXCEPT !.status = "closed"]
                                              ELSE session[f]]
  BY <1>5
<1> QED
  BY <1>3, <1>6, <1>7 DEF Sessions!Next, Sessions!Close

\* The rotation, its races included, implements the session life cycle: one owner
\* per session, and no session that has ended is ever open again.
THEOREM ImplementsSessionLifeCycle == Spec => SessionLifeCycle
<1>1. IInv => SessionForm
  BY SessionHasForm DEF IInv
<1>2. IInv' => SessionForm'
  BY <1>1, PTL
<1>3. (session = [f \in Family |-> session[f]])'
  BY SessionIsFunction, PTL
<1>4. IInv /\ IInv' /\ [Next]_vars => [Sessions!Next]_session
  <2> SUFFICES ASSUME IInv, IInv', [Next]_vars PROVE Sessions!Next
    OBVIOUS
  <2>1. CASE \E r \in Request: CreateToken(r) /\ ~Rotating(r)
    BY <1>1, <1>2, <1>3, <2>1, LoginOpens
  <2>2. CASE \A r \in Request: CreateToken(r) => Rotating(r)
    BY <1>1, <1>2, <1>3, <2>2, OtherStepsClose
  <2> QED
    BY <2>1, <2>2
<1> QED
  BY <1>4, SessionInit, Invariance, PTL DEF Spec, SessionLifeCycle, Sessions!Spec

==============================================================================
