---------------------------- MODULE RefreshTokens ----------------------------
(***************************************************************************)
(* Refresh-token rotation with family-based reuse detection.               *)
(*   src/src/modules/auth/token.service.ts                                 *)
(*   src/src/modules/auth/auth.service.ts (the ends of the login flows)    *)
(*   src/src/core/scheduler/jobs/cleanup.scheduler.ts (token purge)        *)
(*                                                                         *)
(* Every database call is awaited, so every action here is one call and    *)
(* the synchronous code up to the next one; the handlers of any number of  *)
(* requests, in any number of processes, interleave between them.          *)
(***************************************************************************)
EXTENDS Naturals, FiniteSets

CONSTANTS
    User,      \* accounts
    Device,    \* values of crypto.randomUUID() used as deviceId
    Family,    \* values of crypto.randomUUID() used as family
    Token,     \* values of crypto.randomUUID() used as jti: one refresh token each
    Request,   \* requests in progress at the same time
    PageSize,  \* the findMany limit on a family's rows (50)
    MaxExpired \* bound: how many tokens may reach their expiry

CONSTANTS NoGrant, NoToken, NoUser, Unborn

ASSUME NullAssumption ==
    /\ NoGrant \notin [userId: User, family: Family, deviceId: Device]
    /\ NoToken \notin Token
    /\ NoUser \notin User
    /\ Unborn \notin [user: User, device: Device, status: {"open", "closed"}]
ASSUME PageSizeAssumption == PageSize \in Nat \ {0}
ASSUME MaxExpiredAssumption == MaxExpired \in Nat

VARIABLES
    isActive,  \* users.isActive
    issued,    \* jti -> what its JWT and the immutable columns of its row say
    row,       \* jti -> its row in refresh_tokens: absent, live or revoked
    expired,   \* tokens whose JWT exp and expiresAt have passed
    request,   \* what each request handler is about to do
    closing    \* history: how each family was terminated, if it was

vars == <<isActive, issued, row, expired, request, closing>>

Grant == [userId: User, family: Family, deviceId: Device]

Step == {"idle", "findUser", "findFamily", "revokeFamily", "markRevoked",
         "create", "prune", "failed"}

RequestState == [step: Step, user: User \cup {NoUser},
                 token: Token \cup {NoToken}, stale: BOOLEAN]

Idle == [step |-> "idle", user |-> NoUser, token |-> NoToken, stale |-> FALSE]

-----------------------------------------------------------------------------
(* Helpers *)

Issued == {t \in Token: issued[t] # NoGrant}

Present == {t \in Token: row[t] # "absent"}

\* A token that a refresh would accept if nothing else ran.
Usable(t) == t \in Issued /\ row[t] = "live" /\ isActive[issued[t].userId]

InFamily(f) == {t \in Issued: issued[t].family = f}

\* where: { userId: payload.sub, family: payload.family }
FamilyRows(t) ==
    {x \in Present: /\ issued[x].userId = issued[t].userId
                    /\ issued[x].family = issued[t].family}

\* findMany({ where, take: 50 }) without an order: any PageSize of the rows.
Pages(rows) ==
    IF Cardinality(rows) <= PageSize
    THEN {rows}
    ELSE {page \in SUBSET rows: Cardinality(page) = PageSize}

\* The rows a prune or a purge deletes: expired, or already revoked.
Dead(t) == t \in expired \/ row[t] = "revoked"

Deleted(T) == [t \in Token |-> IF t \in T THEN "absent" ELSE row[t]]

Rotating(r) == request[r].token # NoToken

Goto(r, step) == request' = [request EXCEPT ![r].step = step]

Finish(r) == request' = [request EXCEPT ![r] = Idle]

\* Families with a rotation between its update and its create.
InWindow ==
    {issued[request[r].token].family:
        r \in {q \in Request: Rotating(q) /\ request[q].step = "create"}}

\* Nothing is left that could ever issue another token of the family.
Gone(f) == InFamily(f) \cap Present = {} /\ f \notin InWindow

\* History: families F are terminated; a rotation in its window survives it.
Terminate(F) ==
    closing' = [f \in Family |->
                  IF f \notin F THEN closing[f]
                  ELSE IF f \in InWindow THEN "raced" ELSE "closed"]

-----------------------------------------------------------------------------
Init ==
    /\ isActive = [u \in User |-> TRUE]
    /\ issued = [t \in Token |-> NoGrant]
    /\ row = [t \in Token |-> "absent"]
    /\ expired = {}
    /\ request = [r \in Request |-> Idle]
    /\ closing = [f \in Family |-> "no"]

(***************************************************************************)
(* A login flow (password, magic link, passkey, OAuth, second factor) has  *)
(* just read an active user and goes on to issue a token pair.             *)
(***************************************************************************)
BeginSession(r, u) ==
    /\ request[r].step \in {"idle", "failed"}
    /\ isActive[u]
    /\ request' = [request EXCEPT ![r] =
                     [step |-> "create", user |-> u, token |-> NoToken, stale |-> FALSE]]
    /\ UNCHANGED <<isActive, issued, row, expired, closing>>

(***************************************************************************)
(* POST /auth/refresh with any token ever handed out: the current one, a   *)
(* repeated one, a stolen one.  The JWT must verify.                       *)
(***************************************************************************)
BeginRotation(r, t) ==
    /\ request[r].step \in {"idle", "failed"}
    /\ t \in Issued \ expired
    /\ request' = [request EXCEPT ![r] =
                     [step |-> "findUser", user |-> issued[t].userId, token |-> t,
                      stale |-> ~Usable(t)]]
    /\ UNCHANGED <<isActive, issued, row, expired, closing>>

FindUser(r) ==
    /\ request[r].step = "findUser"
    /\ IF isActive[request[r].user] THEN Goto(r, "findFamily") ELSE Finish(r)
    /\ UNCHANGED <<isActive, issued, row, expired, closing>>

\* Faulty variants of the family lookup: a revoked match is rotated like a live
\* one; a family without the presented hash is only refused, never revoked.
FindFamilyIgnoringRevoked(r) ==
    LET t == request[r].token IN
    /\ request[r].step = "findFamily"
    /\ \E page \in Pages(FamilyRows(t)):
         \/ t \in page /\ Goto(r, "markRevoked")
         \/ t \notin page /\ page # {} /\ Goto(r, "revokeFamily")
         \/ page = {} /\ Finish(r)
    /\ UNCHANGED <<isActive, issued, row, expired, closing>>

FindFamilyRefusingOnly(r) ==
    LET t == request[r].token IN
    /\ request[r].step = "findFamily"
    /\ \E page \in Pages(FamilyRows(t)):
         \/ t \in page /\ row[t] = "live" /\ Goto(r, "markRevoked")
         \/ t \in page /\ row[t] = "revoked" /\ Goto(r, "revokeFamily")
         \/ t \notin page /\ Finish(r)
    /\ UNCHANGED <<isActive, issued, row, expired, closing>>

FindFamily(r) ==
    LET t == request[r].token IN
    /\ request[r].step = "findFamily"
    /\ \E page \in Pages(FamilyRows(t)):
         \/ t \in page /\ row[t] = "live" /\ Goto(r, "markRevoked")
         \/ t \in page /\ row[t] = "revoked" /\ Goto(r, "revokeFamily")
         \/ t \notin page /\ page # {} /\ Goto(r, "revokeFamily")
         \/ page = {} /\ Finish(r)
    /\ UNCHANGED <<isActive, issued, row, expired, closing>>

\* Faulty variant: only the replayed token is revoked.
RevokeReplayedOnly(r) ==
    LET t == request[r].token IN
    /\ request[r].step = "revokeFamily"
    /\ row' = Deleted({t})
    /\ Terminate({issued[t].family})
    /\ Finish(r)
    /\ UNCHANGED <<isActive, issued, expired>>

RevokeFamily(r) ==
    LET t == request[r].token IN
    /\ request[r].step = "revokeFamily"
    /\ row' = Deleted(FamilyRows(t))
    /\ Terminate({issued[t].family})
    /\ Finish(r)
    /\ UNCHANGED <<isActive, issued, expired>>

\* Faulty variants: an updateMany, which does not mind that the row is gone; a
\* rotation that leaves the old token alone.
MarkRevokedIfAny(r) ==
    LET t == request[r].token IN
    /\ request[r].step = "markRevoked"
    /\ row' = [row EXCEPT ![t] = IF t \in Present THEN "revoked" ELSE "absent"]
    /\ Goto(r, "create")
    /\ UNCHANGED <<isActive, issued, expired, closing>>

MarkNothing(r) ==
    /\ request[r].step = "markRevoked"
    /\ Goto(r, "create")
    /\ UNCHANGED <<isActive, issued, row, expired, closing>>

\* update by id: the row may have been deleted since it was read (P2025).
MarkRevoked(r) ==
    LET t == request[r].token IN
    /\ request[r].step = "markRevoked"
    /\ \/ /\ t \in Present
          /\ row' = [row EXCEPT ![t] = "revoked"]
          /\ Goto(r, "create")
       \/ /\ t \notin Present
          /\ Finish(r)
          /\ UNCHANGED row
    /\ UNCHANGED <<isActive, issued, expired, closing>>

\* Faulty variant: the rotated token is given a device of its own.
IdentityPerToken(r) ==
    {[userId |-> request[r].user, family |-> f, deviceId |-> d]:
        f \in {f \in Family: IF Rotating(r) THEN f = issued[request[r].token].family
                             ELSE InFamily(f) = {}},
        d \in {d \in Device: \A t \in Issued: issued[t].deviceId # d}}

\* A rotation keeps its family and device; a login draws fresh ones.
Identity(r) ==
    IF Rotating(r)
    THEN {issued[request[r].token]}
    ELSE {[userId |-> request[r].user, family |-> f, deviceId |-> d]:
            f \in {f \in Family: InFamily(f) = {}},
            d \in {d \in Device: \A t \in Issued: issued[t].deviceId # d}}

CreateToken(r) ==
    /\ request[r].step = "create"
    /\ \E t \in Token \ Issued, g \in Identity(r):
         /\ issued' = [issued EXCEPT ![t] = g]
         /\ row' = [row EXCEPT ![t] = "live"]
    /\ Goto(r, "prune")
    /\ UNCHANGED <<isActive, expired, closing>>

\* Not awaited: the caller already has its token while this runs.
PruneExpiredTokens(r) ==
    /\ request[r].step = "prune"
    /\ row' = Deleted({t \in Present: Dead(t) /\ issued[t].userId = request[r].user})
    /\ Finish(r)
    /\ UNCHANGED <<isActive, issued, expired, closing>>

\* Any database call may reject, and the process may die before any of them.
Fail(r) ==
    /\ request[r].step \notin {"idle", "failed"}
    /\ request' = [request EXCEPT ![r] = [Idle EXCEPT !.step = "failed"]]
    /\ UNCHANGED <<isActive, issued, row, expired, closing>>

\* POST /auth/logout
RevokeAllTokens(u) ==
    /\ row' = Deleted({t \in Present: issued[t].userId = u})
    /\ Terminate({issued[t].family: t \in {t \in Issued: issued[t].userId = u}})
    /\ UNCHANGED <<isActive, issued, expired, request>>

\* DELETE /auth/sessions/:deviceId
RevokeDeviceSession(u, d) ==
    LET rows == {t \in Present: issued[t].userId = u /\ issued[t].deviceId = d} IN
    /\ row' = Deleted(rows)
    /\ Terminate({issued[t].family: t \in rows})
    /\ UNCHANGED <<isActive, issued, expired, request>>

\* The hourly cleanup job.
PurgeExpiredTokens ==
    /\ row' = Deleted({t \in Present: Dead(t)})
    /\ UNCHANGED <<isActive, issued, expired, request, closing>>

Deactivate(u) ==
    /\ isActive' = [isActive EXCEPT ![u] = FALSE]
    /\ UNCHANGED <<issued, row, expired, request, closing>>

Expire(t) ==
    /\ t \in Issued
    /\ Cardinality(expired) < MaxExpired
    /\ expired' = expired \cup {t}
    /\ UNCHANGED <<isActive, issued, row, request, closing>>

Handle(r) ==
    \/ FindUser(r)
    \/ FindFamily(r)
    \/ RevokeFamily(r)
    \/ MarkRevoked(r)
    \/ CreateToken(r)
    \/ PruneExpiredTokens(r)

Next ==
    \/ \E r \in Request, u \in User: BeginSession(r, u)
    \/ \E r \in Request, t \in Token: BeginRotation(r, t)
    \/ \E r \in Request: Handle(r)
    \/ \E r \in Request: Fail(r)
    \/ \E u \in User: RevokeAllTokens(u)
    \/ \E u \in User, d \in Device: RevokeDeviceSession(u, d)
    \/ PurgeExpiredTokens
    \/ \E u \in User: Deactivate(u)
    \/ \E t \in Token: Expire(t)

Spec == Init /\ [][Next]_vars

\* A handler that has started runs on until it answers or a call rejects.
FairSpec == Spec /\ \A r \in Request: WF_vars(Handle(r))

-----------------------------------------------------------------------------
(* Properties *)

\* Every variable holds a value of its kind; token.service.ts keeps a row only
\* for a token it signed.
TypeOK ==
    /\ isActive \in [User -> BOOLEAN]
    /\ issued \in [Token -> Grant \cup {NoGrant}]
    /\ row \in [Token -> {"absent", "live", "revoked"}]
    /\ expired \in SUBSET Issued
    /\ request \in [Request -> RequestState]
    /\ closing \in [Family -> {"no", "closed", "raced"}]
    /\ Present \subseteq Issued

\* A family and a device name the same chain, and the chain has one user: what
\* revokeTokenFamily or revokeDeviceSession deletes is exactly one session.
LineageCoherent ==
    \A s, t \in Issued:
        /\ issued[s].family = issued[t].family <=> issued[s].deviceId = issued[t].deviceId
        /\ issued[s].family = issued[t].family => issued[s].userId = issued[t].userId

\* By the time a rotation issues its successor, the presented token cannot be
\* used again: the old token is revoked before the new one exists, whatever the
\* prunes, logouts and other rotations in between have done to its row.
RotationConsumes ==
    \A r \in Request:
        Rotating(r) /\ request[r].step \in {"create", "prune"} => ~Usable(request[r].token)

\* Reuse detection: a refresh that arrives with a token that was already rotated,
\* revoked or deleted (or whose user is deactivated) never gets as far as issuing
\* a successor, however it interleaves with other requests and cleanup jobs.
ReplayRejected ==
    \A r \in Request:
        request[r].stale => request[r].step \notin {"markRevoked", "create", "prune"}

\* A family terminated by a logout, a device sign-out or a detected replay never
\* has a row again, unless a rotation was between its update and its create at
\* that very moment.
TerminationFinal ==
    \A f \in Family:
        closing[f] = "closed" => Gone(f)

\* A spent token stays spent: no step makes a rotated, revoked or deleted token
\* acceptable again.
SpentForever ==
    [][\A t \in Issued: ~Usable(t) => ~Usable(t)']_vars

\* Replaying a spent token ends its family: once the replay has been let through
\* to the family lookup, the family's rows are all gone at some later moment,
\* unless the request itself dies first.
ReplayEndsFamily ==
    \A r \in Request, f \in Family:
        (/\ request[r].step = "findFamily"
         /\ request[r].stale
         /\ issued[request[r].token].family = f)
        ~> (InFamily(f) \cap Present = {} \/ request[r].step = "failed")

\* The rotation implements the session life cycle of SessionFamilies: a family is
\* opened by one login for one user and device, and once it has neither a row nor
\* a rotation on its way to one it never comes back.
session ==
    [f \in Family |->
        IF InFamily(f) = {} THEN Unborn
        ELSE LET g == issued[CHOOSE t \in InFamily(f): TRUE] IN
             [user |-> g.userId, device |-> g.deviceId,
              status |-> IF Gone(f) THEN "closed" ELSE "open"]]

Sessions == INSTANCE SessionFamilies
            WITH User <- User, Device <- Device, Family <- Family,
                 Unborn <- Unborn, session <- session

SessionLifeCycle == Sessions!Spec

==============================================================================
