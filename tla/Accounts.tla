------------------------------ MODULE Accounts ------------------------------
(***************************************************************************)
(* How accounts come to be, which identities open them, who administers    *)
(* them.                                                                   *)
(*   src/src/modules/auth/auth.service.ts (register, oauthLogin)           *)
(*   src/src/modules/auth/webauthn/webauthn.service.ts (signup, delete)    *)
(*   src/src/modules/users/users.service.ts (setRoles, deactivate)         *)
(*   src/src/core/scheduler/jobs/cleanup.scheduler.ts (OAuth links)        *)
(*                                                                         *)
(* User.email is unique and never changes, so it stands for the account.   *)
(***************************************************************************)
EXTENDS FiniteSets

CONSTANTS
    Email,     \* addresses that people sign up with
    Identity,  \* <<provider, providerId>>
    Request,   \* requests in progress at the same time
    SeedEmail, \* SEED_SUPER_ADMIN_EMAIL
    Candidate  \* bound: the accounts that may be made super_admin

CONSTANTS NoUser, NoIdentity, NoEmail

\* An identity whose provider tells no e-mail is given an address made of its own id:
\* the identity itself stands for that address.
Address == Email \cup Identity

ASSUME SeedAssumption == SeedEmail \in Email /\ Candidate \subseteq Address
ASSUME DisjointAssumption == Email \cap Identity = {}
ASSUME NullAssumption ==
    NoUser \notin Address /\ NoIdentity \notin Identity /\ NoEmail \notin Email

VARIABLES
    user,        \* addresses that have a User row
    isActive,    \* those not deactivated
    superAdmin,  \* those whose roles have 'super_admin'
    hasPassword, \* those with a password
    passkey,     \* those with a WebauthnCredential row
    link,        \* the account of every identity: OauthProvider.userId
    challenge,   \* addresses with a signup challenge in the cache
    profile,     \* the e-mail that the provider tells of every identity
    request,     \* the handlers at work
    barred,      \* history: the accounts deactivated when a request at work began
    late,        \* history: accounts that a request begun too late has entered
    renamed,     \* history: identities whose e-mail at the provider has changed
    raced,       \* history: identities that two requests have found without a link
    halfway,     \* history: accounts created by a signup, still without the passkey
    left         \* history: accounts whose passkey was deleted or whose link moved

rows == <<user, isActive, superAdmin, hasPassword, passkey, link>>
outside == <<challenge, profile>>
others == <<late, renamed, raced, halfway, left>>
history == <<barred, others>>
vars == <<rows, outside, request, history>>

RequestState ==
    [step: {"idle", "find", "link", "create", "register", "challenge", "signup",
            "credential", "forget", "issue", "admit", "demote"},
     identity: Identity \cup {NoIdentity}, address: Address \cup {NoUser},
     seen: SUBSET Address]

Idle == [step |-> "idle", identity |-> NoIdentity, address |-> NoUser, seen |-> {}]

\* profile.email ?? `${providerId}@${provider}.oauth`
AddressOf(i) == IF profile[i] = NoEmail THEN i ELSE profile[i]

-----------------------------------------------------------------------------
Init ==
    /\ user = {SeedEmail}
    /\ isActive = {SeedEmail}
    /\ superAdmin = {SeedEmail}
    /\ hasPassword = {SeedEmail}
    /\ passkey = {}
    /\ link = [i \in Identity |-> NoUser]
    /\ challenge = {}
    /\ profile \in [Identity -> Email \cup {NoEmail}]
    /\ request = [r \in Request |-> Idle]
    /\ barred = [r \in Request |-> {}]
    /\ late = {}
    /\ renamed = {}
    /\ raced = {}
    /\ halfway = {}
    /\ left = {}

Begin(r, step, i, a) ==
    /\ request[r].step = "idle"
    /\ request' = [request EXCEPT ![r] =
                      [Idle EXCEPT !.step = step, !.identity = i, !.address = a]]
    /\ barred' = [barred EXCEPT ![r] = user \ isActive]

Goto(r, step) == request' = [request EXCEPT ![r].step = step] /\ UNCHANGED barred
Finish(r) ==
    /\ request' = [request EXCEPT ![r] = Idle]
    /\ barred' = [barred EXCEPT ![r] = {}]

\* Faulty variant: the row read is not looked at.
EnterUnchecked(r, a) ==
    /\ request' = [request EXCEPT ![r].step = "admit", ![r].address = a]
    /\ UNCHANGED barred

\* The caller's check of isActive on the row it has just read.
Enter(r, a) ==
    IF a \in isActive
      THEN /\ request' = [request EXCEPT ![r].step = "admit", ![r].address = a]
           /\ UNCHANGED barred
      ELSE Finish(r)

(* register() *)

BeginRegister(r, e) ==
    /\ e \notin user
    /\ Begin(r, "register", NoIdentity, e)
    /\ UNCHANGED <<rows, outside, others>>

\* user.create(); the unique index on email turns a second one away.
Register(r) ==
    LET a == request[r].address IN
    /\ request[r].step = "register"
    /\ \/ /\ a \in user
          /\ Finish(r)
          /\ UNCHANGED rows
       \/ /\ a \notin user
          /\ user' = user \cup {a}
          /\ isActive' = isActive \cup {a}
          /\ hasPassword' = hasPassword \cup {a}
          /\ Goto(r, "admit")
          /\ UNCHANGED <<superAdmin, passkey, link>>
    /\ UNCHANGED <<outside, others>>

(* signupOptions() and signupVerify() *)

BeginSignup(r, e) ==
    /\ e \notin user
    /\ Begin(r, "challenge", NoIdentity, e)
    /\ UNCHANGED <<rows, outside, others>>

SetChallenge(r) ==
    /\ request[r].step = "challenge"
    /\ challenge' = challenge \cup {request[r].address}
    /\ Finish(r)
    /\ UNCHANGED <<rows, profile, others>>

\* signupVerify(), up to its second look at the address; the ceremony itself is
\* @simplewebauthn/server's.
BeginVerify(r, e) ==
    /\ e \in challenge
    /\ e \notin user
    /\ Begin(r, "signup", NoIdentity, e)
    /\ UNCHANGED <<rows, outside, others>>

SignUp(r) ==
    LET a == request[r].address IN
    /\ request[r].step = "signup"
    /\ \/ /\ a \in user
          /\ Finish(r)
          /\ UNCHANGED <<rows, halfway>>
       \/ /\ a \notin user
          /\ user' = user \cup {a}
          /\ isActive' = isActive \cup {a}
          /\ halfway' = halfway \cup {a}
          /\ Goto(r, "credential")
          /\ UNCHANGED <<superAdmin, hasPassword, passkey, link>>
    /\ UNCHANGED <<outside, late, renamed, raced, left>>

CreateCredential(r) ==
    LET a == request[r].address IN
    /\ request[r].step = "credential"
    /\ passkey' = passkey \cup {a}
    /\ halfway' = halfway \ {a}
    /\ Goto(r, "forget")
    /\ UNCHANGED <<user, isActive, superAdmin, hasPassword, link, outside>>
    /\ UNCHANGED <<late, renamed, raced, left>>

ForgetChallenge(r) ==
    /\ request[r].step = "forget"
    /\ challenge' = challenge \ {request[r].address}
    /\ Goto(r, "issue")
    /\ UNCHANGED <<rows, profile, others>>

\* issueTokens() reads the user again.
IssueTokens(r) ==
    /\ request[r].step = "issue"
    /\ Enter(r, request[r].address)
    /\ UNCHANGED <<rows, outside, others>>

\* CHALLENGE_TTL_MS is over.
ExpireChallenge(e) ==
    /\ e \in challenge
    /\ challenge' = challenge \ {e}
    /\ UNCHANGED <<rows, profile, request, history>>

\* deleteCredential(): whether it is the only way in is not asked.
DeleteCredential(a) ==
    /\ a \in passkey \cap isActive
    /\ passkey' = passkey \ {a}
    /\ left' = left \cup {a}
    /\ UNCHANGED <<user, isActive, superAdmin, hasPassword, link, outside, request>>
    /\ UNCHANGED <<barred, late, renamed, raced, halfway>>

(* oauthLogin() *)

BeginOAuth(r, i) ==
    /\ Begin(r, "find", i, AddressOf(i))
    /\ UNCHANGED <<rows, outside, others>>

\* Faulty variant: the e-mail of the profile goes before the link.
FindLinkByEmailFirst(r) ==
    /\ request[r].step = "find"
    /\ Goto(r, IF request[r].address \in Email THEN "link" ELSE "create")
    /\ UNCHANGED <<rows, outside, others>>

\* oauthProvider.findUnique(), with the linked user.
FindLink(r) ==
    LET i == request[r].identity IN
    /\ request[r].step = "find"
    /\ \/ /\ link[i] # NoUser
          /\ Enter(r, link[i])
          /\ UNCHANGED raced
       \/ /\ link[i] = NoUser
          /\ Goto(r, IF request[r].address \in Email THEN "link" ELSE "create")
          /\ raced' = IF \E q \in Request : /\ request[q].identity = i
                                            /\ request[q].step \in {"link", "create"}
                        THEN raced \cup {i} ELSE raced
    /\ UNCHANGED <<rows, outside, late, renamed, halfway, left>>

\* user.update() with connectOrCreate: an account with this e-mail is given the link,
\* wherever the link was.
LinkByEmail(r) ==
    LET i == request[r].identity
        a == request[r].address IN
    /\ request[r].step = "link"
    /\ \/ /\ a \notin user
          /\ Goto(r, "create")
          /\ UNCHANGED <<link, left>>
       \/ /\ a \in user
          /\ link' = [link EXCEPT ![i] = a]
          /\ left' = left \cup ({link[i]} \ {a, NoUser})
          /\ Enter(r, a)
    /\ UNCHANGED <<user, isActive, superAdmin, hasPassword, passkey, outside>>
    /\ UNCHANGED <<late, renamed, raced, halfway>>

\* Faulty variant: without an account of this e-mail, any account will do.
CreateLinkedAnywhere(r) ==
    /\ request[r].step = "create"
    /\ \E a \in user :
          /\ link' = [link EXCEPT ![request[r].identity] = a]
          /\ Goto(r, "admit")
    /\ UNCHANGED <<user, isActive, superAdmin, hasPassword, passkey, outside, others>>

\* user.create() with its link; either unique index may turn it away.
CreateLinked(r) ==
    LET i == request[r].identity
        a == request[r].address IN
    /\ request[r].step = "create"
    /\ \/ /\ a \in user \/ link[i] # NoUser
          /\ Finish(r)
          /\ UNCHANGED rows
       \/ /\ a \notin user
          /\ link[i] = NoUser
          /\ user' = user \cup {a}
          /\ isActive' = isActive \cup {a}
          /\ link' = [link EXCEPT ![i] = a]
          /\ Goto(r, "admit")
          /\ UNCHANGED <<superAdmin, hasPassword, passkey>>
    /\ UNCHANGED <<outside, others>>

\* The provider tells another e-mail of i from now on; bounded to once for each i.
ChangeProfile(i, e) ==
    /\ profile' = [profile EXCEPT ![i] = e]
    /\ e # profile[i]
    /\ i \notin renamed
    /\ renamed' = renamed \cup {i}
    /\ UNCHANGED <<rows, challenge, request, barred, late, raced, halfway, left>>

\* buildAuthResponse(), or the pending token of an account with 2FA.
Admit(r) ==
    LET a == request[r].address IN
    /\ request[r].step = "admit"
    /\ late' = IF a \in barred[r] THEN late \cup {a} ELSE late
    /\ Finish(r)
    /\ UNCHANGED <<rows, outside, renamed, raced, halfway, left>>

(* setRoles() and deactivate() *)

\* Any role change that leaves the user a super_admin, or makes one; the caller is a
\* super_admin as Principals tells, up to a cache's delay.
GrantSuperAdmin(a) ==
    /\ a \in user \cap Candidate
    /\ superAdmin' = superAdmin \cup {a}
    /\ UNCHANGED <<user, isActive, hasPassword, passkey, link, outside, request, history>>

\* The reads of the transaction, in one snapshot; superAdmins <= 1 ends it.
BeginDemotion(r, a) ==
    /\ a \in superAdmin
    /\ superAdmin # {a}
    /\ request[r].step = "idle"
    /\ request' = [request EXCEPT ![r] =
                      [Idle EXCEPT !.step = "demote", !.address = a, !.seen = superAdmin]]
    /\ UNCHANGED <<rows, outside, history>>

\* Faulty variant: a transaction of the default isolation level.
CommitUnchecked(r) ==
    /\ request[r].step = "demote"
    /\ superAdmin' = superAdmin \ {request[r].address}
    /\ Finish(r)
    /\ UNCHANGED <<user, isActive, hasPassword, passkey, link, outside, others>>

\* Serializable: a role counted in the snapshot that another transaction has taken
\* since is a conflict, and this one is rolled back (Fail).
CommitDemotion(r) ==
    /\ request[r].step = "demote"
    /\ request[r].seen \subseteq superAdmin
    /\ superAdmin' = superAdmin \ {request[r].address}
    /\ Finish(r)
    /\ UNCHANGED <<user, isActive, hasPassword, passkey, link, outside, others>>

Deactivate(a) ==
    /\ a \in user
    /\ isActive' = isActive \ {a}
    /\ UNCHANGED <<user, superAdmin, hasPassword, passkey, link, outside, request, history>>

\* Faulty variant: the links of the active accounts go.
PurgeActiveLinks ==
    /\ link' = [i \in Identity |-> IF link[i] \in isActive THEN NoUser ELSE link[i]]
    /\ UNCHANGED <<user, isActive, superAdmin, hasPassword, passkey, outside, request>>
    /\ UNCHANGED history

\* purgeOrphanedOauthProviders()
PurgeLinks ==
    /\ link' = [i \in Identity |-> IF link[i] \in isActive THEN link[i] ELSE NoUser]
    /\ UNCHANGED <<user, isActive, superAdmin, hasPassword, passkey, outside, request>>
    /\ UNCHANGED history

\* A query fails, the transaction is rolled back, or the process dies.
Fail(r) ==
    /\ request[r].step # "idle"
    /\ Finish(r)
    /\ UNCHANGED <<rows, outside, others>>

-----------------------------------------------------------------------------
Handle(r) ==
    \/ Register(r) \/ SetChallenge(r) \/ SignUp(r) \/ CreateCredential(r)
    \/ ForgetChallenge(r) \/ IssueTokens(r) \/ FindLink(r) \/ LinkByEmail(r)
    \/ CreateLinked(r) \/ Admit(r) \/ CommitDemotion(r) \/ Fail(r)

Next ==
    \/ \E r \in Request : Handle(r)
    \/ \E r \in Request, e \in Email : BeginRegister(r, e) \/ BeginSignup(r, e) \/ BeginVerify(r, e)
    \/ \E r \in Request, i \in Identity : BeginOAuth(r, i)
    \/ \E r \in Request, a \in Address : BeginDemotion(r, a)
    \/ \E a \in Address : GrantSuperAdmin(a) \/ Deactivate(a) \/ DeleteCredential(a)
    \/ \E e \in Email : ExpireChallenge(e)
    \/ \E i \in Identity, e \in Email \cup {NoEmail} : ChangeProfile(i, e)
    \/ PurgeLinks

Spec == Init /\ [][Next]_vars

-----------------------------------------------------------------------------
\* Types; every right, credential and link belongs to an account that exists.
TypeOK ==
    /\ user \subseteq Address
    /\ isActive \subseteq user
    /\ superAdmin \subseteq user
    /\ hasPassword \subseteq user
    /\ passkey \subseteq user
    /\ link \in [Identity -> user \cup {NoUser}]
    /\ challenge \subseteq Email
    /\ profile \in [Identity -> Email \cup {NoEmail}]
    /\ request \in [Request -> RequestState]
    /\ barred \in [Request -> SUBSET user]
    /\ late \subseteq Address
    /\ renamed \subseteq Identity
    /\ raced \subseteq Identity
    /\ halfway \subseteq user
    /\ left \subseteq user

\* setRoles(): demotions that run at the same time, of different super_admins, never
\* leave the system without one.
SuperAdminsRemain == superAdmin # {}

\* oauthLogin(): as long as the provider tells the same of an identity, its link never
\* leads to another account than the one of that address, whatever else signs up, is
\* deactivated or purged in between.
LinkIsOwn ==
    \A i \in Identity \ renamed : link[i] \in {NoUser, AddressOf(i)}

\* oauthLogin(): a link moves from one account to another only when two logins have
\* both looked for it before either made it, with different e-mails.
LinkStays ==
    [][\A i \in Identity :
          link[i] # NoUser /\ link'[i] \notin {NoUser, link[i]} => i \in renamed \cap raced]_vars

\* oauthLogin(), issueTokens(): no request that began after an account's deactivation
\* enters it, by whatever identity.
DeactivationSticks == late = {}

\* An active account has a password, a passkey or an identity; except one that a signup
\* has created without its passkey, that has deleted its passkey, or whose link moved.
WayIn ==
    \A a \in isActive \ (halfway \cup left) :
        a \in hasPassword \cup passkey \/ \E i \in Identity : link[i] = a
=============================================================================
