------------------------------ MODULE Passkeys ------------------------------
(***************************************************************************)
(* Passkeys of one account: registering, signing in, deleting.             *)
(*   src/src/modules/auth/webauthn/webauthn.service.ts                     *)
(*                                                                         *)
(* A ceremony is two requests: the first caches a challenge, the second    *)
(* brings back a response to it.  The second one reads the challenge,      *)
(* reads or writes the one credential row of the account, and deletes the  *)
(* challenge, each with a query of its own.  Challenges are cached per     *)
(* account and credentials are stored per account, so one account shows    *)
(* every interleaving.                                                     *)
(***************************************************************************)
EXTENDS Naturals, Requests

CONSTANTS
    Credential, \* key pairs that authenticators create, one per registration
    Counting,   \* those whose authenticator counts its signatures
    Challenge,  \* challenges that may be drawn
    MaxCounter, \* bound: signatures per authenticator
    MaxRow      \* bound: credential rows ever created

CONSTANTS NoCredential, NoChallenge

ASSUME CountingAssumption == Counting \subseteq Credential
ASSUME NoChallengeAssumption == NoCredential \notin Credential /\ NoChallenge \notin Challenge
ASSUME BoundsAssumption == MaxCounter \in Nat /\ MaxRow \in Nat

VARIABLES
    cache,     \* webauthn:register:<user> and webauthn:login:<email>
    stored,    \* the WebauthnCredential row of the account
    ceremony,  \* the handlers at work, with what they read
    device,    \* the authenticators: the challenge a key pair was created for, its signatures
    assertion, \* the assertions that authenticators have signed
    challenges, \* the challenges drawn for each kind of ceremony
    rows,      \* history: number of credential rows created
    answered,  \* history: challenges that have opened a session, once and again
    shared,    \* history: challenges that two handlers have held at the same time
    misplaced  \* history: some counter was written to a row that had changed

passkeyVars ==
    <<cache, stored, ceremony, device, assertion, challenges, rows, answered, shared, misplaced>>
client == <<device, assertion>>
passkeyHistory == <<answered, shared, misplaced>>

Counter == 0 .. MaxCounter

Stored == [id: 0 .. MaxRow, credentialId: Credential \cup {NoCredential}, counter: Counter]
NoRow == [id |-> 0, credentialId |-> NoCredential, counter |-> 0]

Assertion == [credentialId: Credential, challenge: Challenge, newCounter: Counter]

CeremonyState == [step: {"idle", "upsert", "forgetRegister", "findUser", "update", "forgetLogin"},
                  challenge: Challenge \cup {NoChallenge},    \* expectedChallenge
                  response: Credential \cup {NoCredential},   \* credential of the response
                  newCounter: Counter,
                  read: Stored]

NoCeremony == [step |-> "idle", challenge |-> NoChallenge, response |-> NoCredential,
               newCounter |-> 0, read |-> NoRow]

-----------------------------------------------------------------------------
PasskeysInit ==
    /\ cache = [register |-> NoChallenge, login |-> NoChallenge]
    /\ stored = NoRow
    /\ ceremony = [r \in Request |-> NoCeremony]
    /\ device = [c \in Credential |-> [madeFor |-> NoChallenge, signatures |-> 0]]
    /\ assertion = {}
    /\ challenges = [register |-> {}, login |-> {}]
    /\ rows = 0
    /\ answered = [once |-> {}, twice |-> {}]
    /\ shared = {}
    /\ misplaced = FALSE

EndCeremony(r) == ceremony' = [ceremony EXCEPT ![r] = NoCeremony]
Continue(r, step) == ceremony' = [ceremony EXCEPT ![r].step = step]

(* What the client does *)

\* An authenticator makes a key pair for a challenge.
Attest(c, challenge) ==
    /\ device[c].madeFor = NoChallenge
    /\ challenge \in challenges.register
    /\ device' = [device EXCEPT ![c].madeFor = challenge]
    /\ UNCHANGED <<cache, stored, ceremony, assertion, challenges, rows, passkeyHistory>>

\* An authenticator signs a challenge, and counts if it is one that counts.
Sign(c, challenge) ==
    /\ device[c].madeFor # NoChallenge
    /\ challenge \in challenges.login
    /\ c \in Counting => device[c].signatures < MaxCounter
    /\ LET n == device[c].signatures + IF c \in Counting THEN 1 ELSE 0 IN
         /\ device' = [device EXCEPT ![c].signatures = n]
         /\ assertion' = assertion
              \cup {[credentialId |-> c, challenge |-> challenge, newCounter |-> n]}
    /\ UNCHANGED <<cache, stored, ceremony, challenges, rows, passkeyHistory>>

(* Registration *)

\* registerOptions(); loginOptions() below: the challenge takes the place of any other.
RegisterOptions(challenge) ==
    /\ challenge \notin challenges.register \cup challenges.login
    /\ challenges' = [challenges EXCEPT !.register = @ \cup {challenge}]
    /\ cache' = [cache EXCEPT !.register = challenge]
    /\ UNCHANGED <<stored, ceremony, client, rows, passkeyHistory>>

\* registerVerify(), up to its upsert: the key pair was made for the cached challenge.
RegisterVerify(r, c) ==
    /\ ceremony[r].step = "idle"
    /\ cache.register # NoChallenge
    /\ device[c].madeFor = cache.register
    /\ ceremony' = [ceremony EXCEPT
         ![r] = [NoCeremony EXCEPT !.step = "upsert", !.response = c,
                                   !.challenge = cache.register]]
    /\ UNCHANGED <<cache, stored, client, challenges, rows, passkeyHistory>>

\* Faulty variant: a row that exists keeps its counter.
UpsertKeepingCounter(r) ==
    /\ ceremony[r].step = "upsert"
    /\ \/ /\ stored = NoRow
          /\ rows < MaxRow
          /\ rows' = rows + 1
          /\ stored' = [id |-> rows + 1, credentialId |-> ceremony[r].response, counter |-> 0]
       \/ /\ stored # NoRow
          /\ stored' = [stored EXCEPT !.credentialId = ceremony[r].response]
          /\ UNCHANGED rows
    /\ Continue(r, "forgetRegister")
    /\ UNCHANGED <<cache, client, challenges, passkeyHistory>>

\* One credential per account: the row that exists keeps its id, and nothing else.
Upsert(r) ==
    /\ ceremony[r].step = "upsert"
    /\ \/ /\ stored = NoRow
          /\ rows < MaxRow
          /\ rows' = rows + 1
          /\ stored' = [id |-> rows + 1, credentialId |-> ceremony[r].response, counter |-> 0]
       \/ /\ stored # NoRow
          /\ stored' = [stored EXCEPT !.credentialId = ceremony[r].response, !.counter = 0]
          /\ UNCHANGED rows
    /\ Continue(r, "forgetRegister")
    /\ UNCHANGED <<cache, client, challenges, passkeyHistory>>

ForgetRegister(r) ==
    /\ ceremony[r].step = "forgetRegister"
    /\ cache' = [cache EXCEPT !.register = NoChallenge]
    /\ EndCeremony(r)
    /\ UNCHANGED <<stored, client, challenges, rows, passkeyHistory>>

(* Login *)

LoginOptions(challenge) ==
    /\ challenge \notin challenges.register \cup challenges.login
    /\ challenges' = [challenges EXCEPT !.login = @ \cup {challenge}]
    /\ cache' = [cache EXCEPT !.login = challenge]
    /\ UNCHANGED <<stored, ceremony, client, rows, passkeyHistory>>

\* loginVerify(), its first read; the response is to the cached challenge.
LoginVerify(r, a) ==
    /\ ceremony[r].step = "idle"
    /\ cache.login # NoChallenge
    /\ a.challenge = cache.login
    /\ ceremony' = [ceremony EXCEPT
         ![r] = [step |-> "findUser", challenge |-> cache.login, response |-> a.credentialId,
                 newCounter |-> a.newCounter, read |-> NoRow]]
    /\ shared' = IF \E q \in Request: ceremony[q].challenge = cache.login
                    THEN shared \cup {cache.login} ELSE shared
    /\ UNCHANGED <<cache, stored, client, challenges, rows, answered, misplaced>>

\* verifyAuthenticationResponse(): the key pair is the stored one, and has signed
\* more often than it had when the counter was stored, unless neither counts.
Verified(r) ==
    /\ stored.credentialId = ceremony[r].response
    /\ stored.counter > 0 \/ ceremony[r].newCounter > 0 => ceremony[r].newCounter > stored.counter

\* Faulty variant: the counters are not compared.
FindUserUncounted(r) ==
    /\ ceremony[r].step = "findUser"
    /\ stored # NoRow
    /\ stored.credentialId = ceremony[r].response
    /\ ceremony' = [ceremony EXCEPT ![r].step = "update", ![r].read = stored]
    /\ UNCHANGED <<cache, stored, client, challenges, rows, passkeyHistory>>

FindUser(r) ==
    /\ ceremony[r].step = "findUser"
    /\ stored # NoRow
    /\ Verified(r)
    /\ ceremony' = [ceremony EXCEPT ![r].step = "update", ![r].read = stored]
    /\ UNCHANGED <<cache, stored, client, challenges, rows, passkeyHistory>>

\* Update by the id that was read: fails when the row has been deleted since, and
\* not when it has been given to another credential.
UpdateCounter(r) ==
    /\ ceremony[r].step = "update"
    /\ stored.id = ceremony[r].read.id
    /\ stored' = [stored EXCEPT !.counter = ceremony[r].newCounter]
    /\ misplaced' = (misplaced \/ stored # ceremony[r].read)
    /\ Continue(r, "forgetLogin")
    /\ UNCHANGED <<cache, client, challenges, rows, answered, shared>>

Opening(challenge) ==
    answered' = [once |-> answered.once \cup {challenge},
                 twice |-> answered.twice \cup ({challenge} \cap answered.once)]

\* Faulty variant: the challenge stays in the cache until it expires.
ForgetNothing(r) ==
    /\ ceremony[r].step = "forgetLogin"
    /\ Opening(ceremony[r].challenge)
    /\ EndCeremony(r)
    /\ UNCHANGED <<cache, stored, client, challenges, rows, shared, misplaced>>

\* Faulty variant: the key of the other ceremony is deleted.
ForgetOther(r) ==
    /\ ceremony[r].step = "forgetLogin"
    /\ cache' = [cache EXCEPT !.register = NoChallenge]
    /\ Opening(ceremony[r].challenge)
    /\ EndCeremony(r)
    /\ UNCHANGED <<stored, client, challenges, rows, shared, misplaced>>

\* The cached challenge is deleted, whichever it is by now, and the user is in.
ForgetLogin(r) ==
    /\ ceremony[r].step = "forgetLogin"
    /\ cache' = [cache EXCEPT !.login = NoChallenge]
    /\ Opening(ceremony[r].challenge)
    /\ EndCeremony(r)
    /\ UNCHANGED <<stored, client, challenges, rows, shared, misplaced>>

DeleteCredential ==
    /\ stored # NoRow
    /\ stored' = NoRow
    /\ UNCHANGED <<cache, ceremony, client, challenges, rows, passkeyHistory>>

\* A challenge lives for CHALLENGE_TTL_MS.
ExpireChallenge(purpose) ==
    /\ cache' = [cache EXCEPT ![purpose] = NoChallenge]
    /\ UNCHANGED <<stored, ceremony, client, challenges, rows, passkeyHistory>>

\* A check fails, a query rejects or the process dies, before any step.
FailCeremony(r) ==
    /\ ceremony[r].step # "idle"
    /\ EndCeremony(r)
    /\ UNCHANGED <<cache, stored, client, challenges, rows, passkeyHistory>>

PasskeysNext ==
    \/ \E c \in Credential, challenge \in Challenge: Attest(c, challenge)
    \/ \E c \in Credential, challenge \in Challenge: Sign(c, challenge)
    \/ \E challenge \in Challenge: RegisterOptions(challenge)
    \/ \E challenge \in Challenge: LoginOptions(challenge)
    \/ DeleteCredential
    \/ \E purpose \in DOMAIN cache: ExpireChallenge(purpose)
    \/ \E r \in Request:
         \/ \E c \in Credential: RegisterVerify(r, c)
         \/ Upsert(r)
         \/ ForgetRegister(r)
         \/ \E a \in assertion: LoginVerify(r, a)
         \/ FindUser(r)
         \/ UpdateCounter(r)
         \/ ForgetLogin(r)
         \/ FailCeremony(r)

PasskeysSpec == PasskeysInit /\ [][PasskeysNext]_passkeyVars

-----------------------------------------------------------------------------
(* Properties *)

\* The cached challenges, the row and the locals of the handlers are of their kinds.
PasskeysTypeOK ==
    /\ cache \in [register: Challenge \cup {NoChallenge}, login: Challenge \cup {NoChallenge}]
    /\ stored \in Stored
    /\ ceremony \in [Request -> CeremonyState]
    /\ device \in [Credential -> [madeFor: Challenge \cup {NoChallenge}, signatures: Counter]]
    /\ assertion \in SUBSET Assertion
    /\ challenges \in [register: SUBSET Challenge, login: SUBSET Challenge]
    /\ rows \in 0 .. MaxRow
    /\ answered \in [once: SUBSET Challenge, twice: SUBSET Challenge]
    /\ shared \in SUBSET Challenge
    /\ misplaced \in BOOLEAN
    /\ stored = NoRow <=> stored.id = 0

\* A challenge opens one session, unless two handlers held it at the same time:
\* whatever is registered, deleted, expired or lost in between, an assertion that
\* has been used is of no use again.
AnsweredOnce == answered.twice \subseteq shared

\* As long as no counter was written to a row that had changed, the stored counter
\* is one that the stored credential has reached: its next assertion is accepted.
CounterReached ==
    ~misplaced => stored.counter <= IF stored = NoRow THEN 0
                                    ELSE device[stored.credentialId].signatures

\* Who has answered the cached login challenge, and has not been let in yet.
Answering(r) == ceremony[r].step \in {"findUser", "update", "forgetLogin"}

ChallengeHeld == [r \in Request |-> IF Answering(r) THEN ceremony[r].challenge ELSE NoChallenge]

\* The cached login challenge is on offer, and those before it no longer are.
ChallengeOffer ==
    [c \in Challenge |-> IF c \notin challenges.login THEN "new"
                         ELSE IF c = cache.login THEN "open" ELSE "closed"]

Challenges == INSTANCE OneTimeSecrets
                WITH Secret <- Challenge, Holder <- Request, Nothing <- NoChallenge,
                     offer <- ChallengeOffer, held <- ChallengeHeld, entered <- answered.once

\* Login challenges are one-time secrets: a challenge is offered until the next one, its
\* expiry or a login, and is no longer on offer when somebody is let in with it.
ChallengeIsOneTime == Challenges!Spec

\* No response is admitted to a challenge that has let somebody in.
UsedChallengeRefused ==
    [][\A r \in Request:
         ~Answering(r) /\ Answering(r)' => ceremony'[r].challenge \notin answered.once
      ]_passkeyVars

Registering(r) == ceremony[r].step = "upsert" /\ ceremony'[r].step = "forgetRegister"

\* As long as no counter was written to a row that had changed, the counter of a
\* stored credential only falls when that credential is registered again: an
\* assertion from before is refused.
CounterNeverFalls ==
    [][/\ ~misplaced'
       /\ stored'.id = stored.id
       /\ stored'.credentialId = stored.credentialId
       /\ \A r \in Request: ~Registering(r)
       => stored'.counter >= stored.counter]_passkeyVars
==============================================================================
