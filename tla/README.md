# Nest Nexus in TLA+

Nest Nexus is a NestJS server: PostgreSQL through Prisma, Redis for caches, locks and
the BullMQ queue, several instances of one process. Its hard part is not any single
handler. It is that every handler is a chain of awaited queries, without transactions for
the most part, while other requests, the worker of the queue, cron jobs and events run
between one query and the next. This directory models that: the state in the tables and
caches, and handlers that go on one query at a time.

## Contents

| Module | Models | Checked by | Proved in |
| --- | --- | --- | --- |
| `SessionFamilies` | what a session promises: opened once, closed for good | refinement in `refresh_tokens` | `RefreshTokensProofs` |
| `RefreshTokens` | token rotation and reuse detection | `refresh_tokens`, `refresh_tokens_live` | `RefreshTokensProofs` but liveness |
| `TwoFactor` | TOTP and backup codes of an account | `two_factor`, `backup_code_reuse` | `SignInProofs` |
| `Principals` | roles and status of a user, cached per instance | `principals` | `PrincipalsProofs` |
| `Documents` | documents, relation tuples, guards and decisions | `documents` | `DocumentsProofs` |
| `Accounts` | registration, passkey signup, OAuth links, super_admins | `accounts` | `AccountsProofs` |
| `OneTimeSecrets` | what a link or a challenge promises: on offer until it is used | refinement in `magic_links`, `passkeys` | `SignInProofs` |
| `Passkeys` | passkey ceremonies and counters of an account | `passkeys` | `SignInProofs` |
| `MagicLinks` | links by e-mail: row, queue, worker, dead letters | `magic_links` | `SignInProofs` but liveness |
| `UserCache` | profiles read through the cache; its invalidation by events and messages | `service` | `ServiceProofs` |
| `Login` | passwords and the count of failures that locks an address out | `service` | `ServiceProofs` but liveness |
| `ApiKeys` | API keys, used while their owner revokes them | `service` | `ServiceProofs` |
| `Service` | `UserCache`, `Login` and `ApiKeys` at work in one server | `service` | `ServiceProofs` |
| `Jobs` | a scheduled job on several instances, under the Redis lock | `jobs` | `JobsProofs` but liveness |
| `Browser` | the cookies of one browser, with requests and answers on their way | `browser` | `BrowserProofs` |

`Requests` holds the constant that `UserCache`, `Login` and `ApiKeys` share, and `TwoFactor`,
`Passkeys` and `MagicLinks`.
`MC*.tla` define the symmetry of the instances; `*.cfg` give the constants. Run, in this
directory:

    tlc -config RefreshTokens.cfg MCRefreshTokens.tla
    tlapm RefreshTokensProofs.tla

`PROJECT.json` maps every definition to the lines it models (paths start at the
repository root, as `src/...`), and lists runs, hazards, findings and theorems.

## The system

**Refresh tokens** (`token.service.ts`). State: `RefreshToken` rows (user, family,
device, `isRevoked`, `expiresAt`). A refresh verifies the JWT, reads the user, reads up to
50 rows of the family, and either revokes the presented row and creates its successor or,
when the row is not found live, deletes the family. Logout deletes the user's rows, a
device sign-out those of one device; a prune runs unawaited after each creation and a
purge every hour. Correct when a spent token is never of use again and its replay ends the
family.

**Two-factor** (`two-factor.service.ts`). State: secret, flag and backup codes in the user
row. setup, enable, disable and verify each read the row, decide and write it back.
Correct when a code works once and 2FA is never on without a secret.

**Principals** (`jwt.strategy.ts`). State: a map per instance from user to roles and
status, for 30 s. Events of changes delete the entry, in the same process only. Correct
when a change takes effect on every instance within the TTL.

**Documents and authorization** (`document.*`, `authorization/`, `guards/`). State:
`Document` rows and `RelationTuple` rows. Three mechanisms decide (role permissions,
visibility policy, tuples), in three places (guards of the routes, `can()`, the filter of
the list). Correct when they agree, ownership does not move, and who wrote had the right.

**Accounts** (`auth.service.ts`, `users.service.ts`, `webauthn.service.ts` signup). State:
`User` rows with roles and status, `OauthProvider` links, signup challenges. Correct when
links lead to their own account, a super_admin remains and a deactivated user stays out.

**Passkeys** (`webauthn.service.ts`). State: a challenge per ceremony in the cache, one
credential row per account with its signature counter. Correct when a challenge opens one
session, is of no use once it has, and the stored counter is the stored credential's.

**Magic links and e-mail** (`magic-link/`, `core/queues/`, `core/mailer/`). State: a token
in the user row, a job in the queue. Correct when a link works once, the newest one works,
and each job ends in a mail or a report. Of the last, the code
falls short for a job that stalls too often.

**Cache of users** (`users.service.ts`, `core/cache/`). State: `users:id:<id>` and
`users:all` in Redis, for five minutes. A miss is read and stored, in two awaited steps. A
change emits an event; its listener deletes two keys and publishes a message, on which every
instance deletes them again. Correct when what is stale is about to be deleted, or has a
reason that can be named.

**Login** (`auth.service.ts`). State: a count per address and e-mail in the cache, for 15
minutes, read before the password is compared and written after. Correct when every failure
counts that does not overlap another, a lockout ends, and a deactivated user stays out.

**API keys** (`api-key.*`). State: `ApiKey` rows with `revokedAt`. `validate()` finds the row
and then updates `lastUsedAt`. Correct when a revoked key is refused and stays revoked.

**Jobs and the Redis lock** (`core/scheduler/`). State: a key in Redis with a random token and
a lifetime. Every instance's cron timer fires; the one that sets the key runs the purge and
deletes the key if it still holds its token. Correct when one instance works at a time, as
long as it is done within the lifetime, and no crash stops the job for good.

**Cookies** (`auth.controller.ts`, `oauth.controller.ts`, `oauth-csrf.guard.ts`). State: the
browser's `refresh_token` and `oauth_state`, one of each for all tabs, set and cleared by
answers that may arrive in any order or never. Correct when an honest browser is not taken
for a thief without cause, and an OAuth state passes only if its own and only once.

**Not modelled**: the throttler (a library's counters in the memory of each process: any
request may be refused before its handler begins, which the models allow, since nothing makes
a request come in); configuration, logging, health, the exception filter, interceptors and
the modules' wiring (formatting and I/O without state); the Prisma and Redis clients (a query
is one step, and may fail); encryption and hashing (a hash stands for what it is made of);
the OAuth handshake (Passport's; both its ends are in `Browser`).

How the parts meet: every way in (login, 2FA, magic link, passkey, OAuth) ends in
`generateRefreshToken()`, which is `BeginSession` and what follows in `RefreshTokens`; the
other modules stop where they call it. `deactivate()` and `setRoles()` appear in
`Accounts` as writes, in `Principals` with their events and in `RefreshTokens` as the
`isActive` that a rotation reads. What a cleanup job deletes is an action of the module whose
table it touches, at any time; when the job runs is the subject of `Jobs`. The row that
`Login` stamps is one that `UserCache` has cached: the two share it in `Service`. `Browser`
has a server that handles each request in one step, for how handlers interleave is the
subject of `RefreshTokens`; what it adds is that requests carry old cookies.

## How the models read

- One action is one query and the synchronous code up to the next. `request[r].step` names
  what handler `r` does next, and its other fields are the handler's locals; in `MagicLinks`
  the variable is `visit`, in `Passkeys` `ceremony`. An action's
  name is the code's, or says which part of a method it is (`FindFamily`, `MarkRevoked`).
- `Fail(r)`: a query rejects or the process dies, before any step. What was written stays.
- Reads that lead to no write (listing devices, reading documents) are not actions; what
  they would answer is in operators (`Readable`, `CanRead`).
- Faulty variants (`\* Faulty variant: ...`) are next to the action they could replace.
  They are in no next-state relation. Each stands for a plausible bug, and with it in
  place the run named in `PROJECT.json` finds the property violated.
- Variables marked *history* are read by properties only, never by a guard: `stale`,
  `misplaced` (a write based on a row that has since changed), `raced`, `contested`, `shared`,
  `clobbered` (two handlers had the same thing in hand), `halfway` (a handler stopped between
  two writes), `closing`, `granted`, `lastHeld`, `opened`, `answered`, `accepted`, `barred`,
  `late`, `excused` (why an entry is stale), `tested` and `blurred` (failures, and whether
  attempts overlapped), `lapsed` (a lock expired under its run), `repeated` and `passed`
  (OAuth callbacks). The properties use them to say exactly which interleaving excuses what:
  the code is not free of races, and a property that ignored them would be false, one that
  left the races out of the model would be empty.

### Abstractions

- `TwoFactor`, `Passkeys` and `MagicLinks` have one account, `Principals` one user: rows
  and cache keys are per account and no query touches two. A queue job touches one token.
- Hashes, JWTs and codes are the ids they carry; UUIDs and random tokens are drawn from
  finite sets and never twice.
- The contents of a document are their author; role sets are the few that give different
  permissions (`RoleSets`).
- A serializable transaction commits only if no role it counted has been taken since
  (`CommitDemotion`): PostgreSQL aborts at least the commits that this excludes, and more
  is covered by `Fail`. `connectOrCreate` and array transactions are one step each.
- An account is its e-mail address, which no route changes. An identity without an e-mail
  stands for the address made of its id.
- A role change comes from whoever `Principals` lets act as a super_admin; `Accounts` does
  not check it again.
- What a cache entry says is *fresh* or *stale*, and a write makes stale what was fresh: two
  changes that cancel out count as two. The store is one Redis for all instances, as
  `cache.module.ts` configures it, so a message only deletes a second time.
- One address's count of failures, in ticks of its lifetime. A slot of `Request` is busy with
  one of a read, a write, a login or a call at a time, and a write keeps its slot until its
  message is delivered.
- `Jobs` is the hourly job, with its three kinds of row; the daily one has one query and a
  lock of its own. A run is over within the hour.
- A session of `Browser` is the number of its newest token. An OAuth state is drawn for the
  browser or for another one; a cookie may run out at any time.
- A worker that dies at a job is a `Stall`: the queue gives the job back, up to
  `maxStalledCount` times (1, as `@Processor` does not set it). At the next death it fails the
  job, with whatever attempts are left (`StallOut`). Whether it does so at once, or has the next
  worker do so and counts that as an attempt, is the version's affair: the model has one step,
  and allows both counts.
- cache-manager takes a read that fails for a miss, and a deletion that fails may go
  unnoticed: a login may read its count as 0 (`BeginUnread`) or not clear it (`ClearLost`), a
  profile be read again while it is cached (`Read`).
- A rotation of `Browser` that fails between its update and its create, and is answered with a
  500, is one whose answer is lost: the browser keeps the spent token either way.
- Stalled jobs, WebAuthn ceremonies and the e-mail an OAuth provider tells are marked
  external in the map, and modelled as the code meets them. SMTP is assumed configured:
  without it the mailer logs and returns.

## What the runs check

Passing runs, with the distinct states of their instance:

- `refresh_tokens` (128 thousand). Two users, two families, three tokens, two requests.
  `LineageCoherent`: deleting a family or a device deletes exactly one session.
  `RotationConsumes`: when a successor is created, its predecessor is useless.
  `ReplayRejected`: no interleaving, failure or purge makes a spent token acceptable.
  `TerminationFinal`: an ended family stays empty, unless a rotation was between its update
  and its create. `SessionLifeCycle`: refinement of `SessionFamilies`.
- `refresh_tokens_live`. `ReplayEndsFamily`, under fairness: a replay that has reached the
  family lookup ends with the family gone.
- `two_factor` (32 thousand). `OneBatch` without exception; `StoredCodesExact`,
  `SingleUseUnlessStale` and `EnabledHasSecretUnlessStale` as long as no write was based
  on an outdated read, so a lost update is the only way to break them.
- `principals` (517 thousand). `DecisionsFresh`: a request acts on what the user was less
  than a TTL before it came in, or later, on every instance.
- `documents` (680 thousand). `DecisionMatchesRoutes`, `ListMatchesRead`,
  `NoOrphansUnlessRaced`, `WrittenByEditors`.
- `accounts` (1.5 million). `SuperAdminsRemain` under overlapping demotions; `LinkIsOwn`
  and `LinkStays`: a link moves only for an identity that two overlapping logins have
  missed, with different e-mails; `DeactivationSticks`; `WayIn`: an active account has a
  credential, apart from three named ways to lose it.
- `passkeys` (1.2 million). `AnsweredOnce`: a challenge opens one session, unless two handlers
  held it at once. `CounterReached`, `CounterNeverFalls`: the stored counter is one that its
  credential has reached, and does not fall, unless a row changed under a handler.
  `ChallengeIsOneTime`: refinement of `OneTimeSecrets`.
- `magic_links` (1.1 million). `OpensOnce`, `NewestWorks`; `LinkIsOneTime`: refinement of
  `OneTimeSecrets`. `ExhaustionReported`: the jobs reported, or missed by a worker that died at
  that moment, are those that have used up their attempts. Under fairness
  `LinkArrivesOrFails`: a queued link arrives, or is reported or missed, or its workers have
  died more often than the queue allows. In this last case nobody need hear of it.
- `service` (436 thousand). One user, two requests, one key, a limit of two failures.
  `StaleIsExcused`: a stale entry is about to be deleted, or was stored by a reader that the
  deletion overtook, or its deletion was lost, or the row was changed without an event.
  `FailuresCounted`: unless attempts overlap or die, or the count cannot be read, every wrong
  password is counted and there are never more than the limit. `DeactivatedStayOut`,
  `RevokedKeysRefused`: who was deactivated, or which key was revoked, before a request came
  in is not let in by it. `LockoutEnds`, under fairness: refusals do not prolong a lockout.
- `jobs` (94 thousand). Two instances, the three queries of the hourly job, two faults among
  lost replies, failed queries, crashes and missed timers. `OneAtWork`, `HolderKeepsLock`, and
  under fairness `EventuallyPurged`: no fault leaves a lock behind that stops the job.
- `browser` (2.6 million, up to symmetry). Two sessions of three tokens, two OAuth states and a
  foreign one, two requests on their way. `ReplayNeedsTrouble`: reuse detection ends only a
  session with two refreshes at once or a lost answer to one, whatever else is answered out of
  order. `OwnFlowsOnly`, `PassesOnce`: an OAuth state passes only if drawn for this browser,
  and once, unless two callbacks with it overlapped or the answer to one was lost.

Every type invariant is proved (below), and no run repeats it. The same holds of
`SpentForever`, `RefusalsFinal`, `SoleOwner`, `RevocationFinal`, `UsedLinkRefused`,
`UsedChallengeRefused` and `LockoutRunsDown`, which are proved and follow, in the runs, from
what is checked, or from a guard or two.

One run ends in a violation of a sentence of the documentation; `findings` in `PROJECT.json`
quotes both sides: `backup_code_reuse`, a backup code is accepted twice (usecases/03).

More such sentences have no run. ADR-009 says that `onFailed()` ensures "no silent job loss",
and a job whose workers die twice fails with attempts left, which `onFailed()` takes for a
failure that will be retried: it is neither reported nor tried again (`StallOut`;
`LinkArrivesOrFails` names the case). ADR-013 says that a deactivation takes effect at once on
the instance that made it: a lookup under way refills the cache after the event. A magic link
opens a full session although 2FA is on (usecases/04). A signup that fails between its two
writes leaves an account that nobody can open with a credential (ADR-021; `WayIn` names the
case). ADR-011 has every change of a user invalidate the cache, and several emit no event
(`StaleIsExcused` names them). The scheduler's comment has one instance do the work: an
instance whose timer fires after the release does it again. Two refreshes with one token may
both succeed, when both have found it live before either revokes it: the family of ADR-002 is
then not a chain, and goes on with two live tokens (`RotationConsumes` and `ReplayRejected`
are what is left, and hold). After a logout, `/auth/refresh` should return 401, and does not
for a rotation that was in its window (`TerminationFinal` names the case). The comment in
`setup()` says a new secret is not active before `enable()`, and with 2FA on it is at once. A
replay ends the family of the token (`ReplayEndsFamily`), where usecases/01 says all sessions
of the user. `setRoles()` keeps a super_admin, but counts deactivated ones, and `deactivate()`
does not ask: the last one that can sign in may be deactivated. The API keys of a deactivated
user keep working until they are revoked, and no document says what they should do.

### Bounds

Two requests: every race here is between two handlers, or a handler and a job or event, and
those need no request. Three tokens: a token, its successor, and the second successor of a
fork. `PageSize` 2 (the code's 50): a family can outgrow the page. `MaxExpired`: 0 where
symmetry keeps the instance large, 1 in the liveness run; the proofs have no bound.
`BatchSize` 2 of four codes: two disjoint batches and overlapping ones. `TTL` 2 and `MaxTime`
2: an entry filled at 0 expires within the run. `MaxCounter` 2 and `MaxRow` 2: a counter can
fall, a row can be replaced. `Attempts` 2 (the code's 3) and `MaxStalled` 1 (the queue's): a
first failure, a last one, a job given back and one given up. `Candidate`: who may be made
super_admin. A provider changes an identity's e-mail once. One identity and two addresses:
links lead to the identity's own address or another. `MaxFailures` 2 (the code's 10) and
`Lifetime` 2 ticks: a failure below the limit, one at it, a count that is half as old.
`MaxFaults` 2: a fault in a run, and another in the next. `MaxRotations` 2: a token, its
successor, and one more for the answer that arrives last.

Deadlock is checked except in `TwoFactor`: its secrets are a finite supply, and once they
are used up and 2FA is off nothing is left to do.

### Fairness

`RefreshTokens!FairSpec` has weak fairness of `Handle(r)`: a handler that was started is run
on by the event loop, and `Fail` is one of the ways to go on. Nothing makes a request come in.
`MagicLinks!LinksFairSpec` has weak fairness of `Work(t)`: the queue is persistent and workers
take up what waits; a rejection is a way to go on. Rejections and stalls are bounded by the
queue's own limits, and a stall beyond them ends the job. `Service!FairSpec` has weak fairness
of `Tick` alone: Redis drops a count when its lifetime is over, and nobody has to make an
attempt. `Jobs!FairSpec` has it of the hours, of each instance's run (a timer that fires, a
command or query that is answered), of queries already in the database and of the lock's
expiry; not of faults, which are bounded. No other module states fairness or liveness.

## What is proved

Each `*Proofs` module has an inductive invariant (`IInv`, or one per component where it covers
several), a lemma that it holds initially, one lemma per action, and theorems read off it, for
every number of users, tokens, requests and so on,
from the ASSUMEs on the constants alone (nulls differ from values; bounds are
numbers; the limit on failed logins is above one).

- `RefreshTokensProofs`. The properties alone are not inductive: that a presented token is
  useless when its successor is created needs what the handler knows (`RequestOK`), that
  its row is not live in that window (`Consumed`), that a stale request is stopped by a row
  that can no longer become live (`StaleInv`), and that a closed family is gone and has no
  rotation on its way (`ClosedInv`). The refinement of `SessionFamilies` maps a family to
  unborn, open or closed and shows each step to be a step of it or a stutter.
- `SignInProofs` has the three ways to prove who one is; they share the requests, and their
  names differ so that one module can extend them all.
  - Magic links. `LinksInv` adds to the properties that what is said of tokens is said of
    tokens that were drawn (`TokensKnown`), that a token is queued by the one request that drew
    it (`QueuedOnce`), that a cleared token has left the row before it opens a session
    (`ClearedGone`), and that two requests admitted with one token have been noted
    (`HoldersNoted`): `OpensOnce` speaks of sessions opened, and two requests that both hold a
    token are a step away from it. `ExhaustionReported` rests on the two ways a job fails
    (`LinksTypeOK`): with its attempts used up, or stalled too often.
  - Passkeys. `PasskeysInv` relates what each step has in hand to the row and the drawn
    challenges (`CeremoniesOK`, `RowsOK`), bounds every assertion by its authenticator's count
    (`AssertionsReached`), and says that a challenge that opened a session is not in the cache
    (`AnswersNoted`). `CounterNeverFalls` is an action property that follows from it.
  - Both implement `OneTimeSecrets`: a secret is *open* while the row or the cache has it
    (and, of a link, its time is not over), a holder is a request between lookup and session.
    Deleting by key rather than by value is a `Withdraw` of whatever is open, which is why the
    refinement survives the races in which a newer secret is lost. That a used secret admits
    nobody (`UsedLinksRefused`, `UsedChallengesRefused`) follows from the refinement, since
    only `Admit` gives a holder a secret.
  - Two-factor. `ReadsOK` relates what a handler has read to the row, as long as the row has
    not changed; the four properties follow for each write.
- `PrincipalsProofs`. `EntriesFresh` bounds the age of what a cache entry says by its `exp`,
  `RequestsSound` that of what a handler has read: TTL is counted from the start of the
  lookup, before the query, which is what makes the bound hold.
- `DocumentsProofs`. `OwnersRelated` (a settled document has its owner's tuple) and
  `TuplesSound` give the agreement of the decisions; `OwnersKnown` and `RequestsSound`
  carry a right from the guard to the write.
- `AccountsProofs`. `AnotherCounted` (a demotion has counted somebody else), `AddressKept`
  (a login holds its identity's address), `BarredOut` (nobody at the door was deactivated
  when the request began). `LinkStays` needs `MissesNoted` besides; `WayIn` is inductive by
  itself, given the types.
- `ServiceProofs`. `CacheInv`: a stale entry has somebody who still owes its deletion, or is
  excused; and readers and writers have a key in hand (`KeyInHand`). `LoginInv`: unless
  attempts are blurred there is at most one (`OneKnows`), it knows the count and is under the
  limit (`UnderLimit`); nobody barred has been found active (`BarredOut`). `KeysInv`: a call
  that came late has not got past the lookup, since a revoked row stays revoked (`LateOut`).
- `JobsProofs`. Tokens of runs differ from each other (`TokensDiffer`), so that the lock is
  that of one run, and the release of another leaves it alone; `OneAtWork` follows from
  `HolderKeepsLock`.
- `BrowserProofs`. Of an uncontested session there is at most one refresh on its way, and the
  cookie in the jar, or in that refresh, or in its answer, is the newest (`Current`); before a
  session is open nobody has its cookie (`NoneYet`). A state in the jar was drawn for it
  (`HeldDrawn`), and one that has passed is gone from the jar and from later requests, unless
  it was repeated (`SpentState`).

Only model-checked: the four liveness properties `ReplayEndsFamily`, `LinkArrivesOrFails`,
`LockoutEnds` and `EventuallyPurged`, for fairness and ENABLED are out of the prover's reach.
Every other property of a passing run is stated by a theorem. Of `LockoutEnds` the safety part
is one: `LockoutsRunDown` says that during a lockout the attempts that may prolong it only get
fewer, and that the lifetime is set again only by one that is then over. Time does the rest.

## Plan

Done in this order, most important behaviour first: `RefreshTokens` with `SessionFamilies`,
`TwoFactor`, `Principals`, `Documents`, `Passkeys`, `MagicLinks`, `Accounts`, `UserCache`,
`Login` and `ApiKeys` composed in `Service`, `Jobs`, `Browser`; the proofs of all of them; and
`OneTimeSecrets`, with the refinements by `MagicLinks` and `Passkeys`.

What would come next:

1. Compositions: `Accounts` with `Principals` (a demotion by a caller whose cached role is
   stale), `MagicLinks` and `TwoFactor` with `RefreshTokens` through `SessionFamilies`.
2. The throttler, should its counters move from the process to Redis.
