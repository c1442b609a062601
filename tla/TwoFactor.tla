------------------------------ MODULE TwoFactor ------------------------------
(***************************************************************************)
(* The second factor of one account: TOTP secret, backup codes, and the    *)
(* setup, enable, disable and verify handlers that read and rewrite them.  *)
(*   src/src/modules/auth/two-factor/two-factor.service.ts                 *)
(*   src/src/modules/auth/two-factor/two-factor.controller.ts              *)
(*                                                                         *)
(* A handler reads the user row with one awaited query and writes it with  *)
(* another; nothing makes the two atomic.  No query touches the row of     *)
(* another user, so one account shows every interleaving.                  *)
(***************************************************************************)
EXTENDS Naturals, FiniteSets, Requests

CONSTANTS
    Secret,      \* TOTP secrets that generateSecret may draw
    BackupCode,  \* backup codes that randomBytes may draw
    BatchSize    \* codes per batch (10)

CONSTANTS NoSecret, NoCode

ASSUME NullsAssumption == NoSecret \notin Secret /\ NoCode \notin BackupCode
ASSUME BatchSizeAssumption == BatchSize \in Nat \ {0}

VARIABLES
    account,   \* the 2FA columns of the user row
    pending,   \* a two_factor_pending token has been issued
    request,   \* the handlers at work, with what they read
    generated, \* history: secrets drawn so far
    batches,   \* history: batches of backup codes handed out, and the latest one
    accepted,  \* history: backup codes that opened a door, once and again
    stale      \* history: some write was based on a read that was out of date

twoFactorVars == <<account, pending, request, generated, batches, accepted, stale>>
history == <<generated, batches, accepted, stale>>

Account == [twoFactorSecret: Secret \cup {NoSecret},
            isTwoFactorEnabled: BOOLEAN,
            twoFactorBackupCodes: SUBSET BackupCode]

Cleared == [twoFactorSecret |-> NoSecret,
            isTwoFactorEnabled |-> FALSE,
            twoFactorBackupCodes |-> {}]

RequestState == [step: {"idle", "activate", "check", "consume", "accept"},
                 op: {"none", "enable", "disable", "verify"},
                 read: Account,
                 code: BackupCode \cup {NoCode}]

Idle == [step |-> "idle", op |-> "none", read |-> Cleared, code |-> NoCode]

-----------------------------------------------------------------------------
TwoFactorInit ==
    /\ account = Cleared
    /\ pending = FALSE
    /\ request = [r \in Request |-> Idle]
    /\ generated = {}
    /\ batches = [all |-> {}, latest |-> {}]
    /\ accepted = [once |-> {}, twice |-> {}]
    /\ stale = FALSE

Finish(r) == request' = [request EXCEPT ![r] = Idle]

Goto(r, step, code) ==
    request' = [request EXCEPT ![r].step = step, ![r].read = account, ![r].code = code]

\* The read that a write of the given columns was based on is out of date.
Outdated(r, columns) == \E c \in columns: account[c] # request[r].read[c]

(***************************************************************************)
(* setup(): the e-mail address is all it reads, so its one write is all    *)
(* there is to it.                                                         *)
(***************************************************************************)
Setup(s) ==
    /\ s \notin generated
    /\ account' = [account EXCEPT !.twoFactorSecret = s]
    /\ generated' = generated \cup {s}
    /\ UNCHANGED <<pending, request, batches, accepted, stale>>

\* Faulty variant: enable() does not look whether a secret was set up.
BeginEnableUnread(r) ==
    /\ request[r].step = "idle"
    /\ ~account.isTwoFactorEnabled
    /\ request' = [request EXCEPT ![r] = [Idle EXCEPT !.step = "activate", !.op = "enable",
                                                      !.read = account]]
    /\ UNCHANGED <<account, pending, generated, batches, accepted, stale>>

\* enable(), up to its update: a secret is set up, 2FA is off, the code is right.
BeginEnable(r) ==
    /\ request[r].step = "idle"
    /\ account.twoFactorSecret # NoSecret
    /\ ~account.isTwoFactorEnabled
    /\ request' = [request EXCEPT ![r] = [Idle EXCEPT !.step = "activate", !.op = "enable",
                                                      !.read = account]]
    /\ UNCHANGED <<account, pending, generated, batches, accepted, stale>>

FreshBatches ==
    {B \in SUBSET (BackupCode \ UNION batches.all): Cardinality(B) = BatchSize}

\* Faulty variant: new codes are added to what is left of the old ones.
ActivateAddingCodes(r) ==
    /\ request[r].step = "activate"
    /\ \E B \in FreshBatches:
         /\ account' = [account EXCEPT !.isTwoFactorEnabled = TRUE,
                                       !.twoFactorBackupCodes = @ \cup B]
         /\ batches' = [all |-> batches.all \cup {B}, latest |-> B]
    /\ stale' = (stale \/ Outdated(r, {"twoFactorSecret", "isTwoFactorEnabled"}))
    /\ Finish(r)
    /\ UNCHANGED <<pending, generated, accepted>>

Activate(r) ==
    /\ request[r].step = "activate"
    /\ \E B \in FreshBatches:
         /\ account' = [account EXCEPT !.isTwoFactorEnabled = TRUE,
                                       !.twoFactorBackupCodes = B]
         /\ batches' = [all |-> batches.all \cup {B}, latest |-> B]
    /\ stale' = (stale \/ Outdated(r, {"twoFactorSecret", "isTwoFactorEnabled"}))
    /\ Finish(r)
    /\ UNCHANGED <<pending, generated, accepted>>

\* disable(), up to its call of verify().
BeginDisable(r) ==
    /\ request[r].step = "idle"
    /\ account.isTwoFactorEnabled
    /\ request' = [request EXCEPT ![r] = [Idle EXCEPT !.step = "check", !.op = "disable"]]
    /\ UNCHANGED <<account, pending, history>>

\* A first factor is passed while 2FA is on: the client gets a pending token.
IssuePending ==
    /\ account.isTwoFactorEnabled
    /\ pending' = TRUE
    /\ UNCHANGED <<account, request, history>>

\* POST /auth/2fa/verify, with a pending token.
BeginVerify(r) ==
    /\ request[r].step = "idle"
    /\ pending
    /\ request' = [request EXCEPT ![r] = [Idle EXCEPT !.step = "check", !.op = "verify"]]
    /\ UNCHANGED <<account, pending, history>>

Active == account.isTwoFactorEnabled /\ account.twoFactorSecret # NoSecret

\* verify() with a code of the stored secret.
CheckTotp(r) ==
    /\ request[r].step = "check"
    /\ Active
    /\ Goto(r, "accept", NoCode)
    /\ UNCHANGED <<account, pending, history>>

\* verify() with a stored backup code.
CheckBackupCode(r, c) ==
    /\ request[r].step = "check"
    /\ Active
    /\ c \in account.twoFactorBackupCodes
    /\ Goto(r, "consume", c)
    /\ UNCHANGED <<account, pending, history>>

\* verify() with any other code, or when 2FA is not active: 401.
CheckFails(r) ==
    /\ request[r].step = "check"
    /\ Finish(r)
    /\ UNCHANGED <<account, pending, history>>

\* A code has opened the door: remember it, and whether it had before.
Accepting(c) ==
    accepted' = [once |-> accepted.once \cup {c},
                 twice |-> accepted.twice \cup ({c} \cap accepted.once)]

\* Faulty variant: the code is accepted and left in place.
ConsumeNothing(r) ==
    /\ request[r].step = "consume"
    /\ Accepting(request[r].code)
    /\ request' = [request EXCEPT ![r].step = "accept"]
    /\ UNCHANGED <<account, pending, generated, batches, stale>>

\* The codes that were read, without the one used, replace the stored ones.
ConsumeBackupCode(r) ==
    /\ request[r].step = "consume"
    /\ account' = [account EXCEPT !.twoFactorBackupCodes =
                     request[r].read.twoFactorBackupCodes \ {request[r].code}]
    /\ Accepting(request[r].code)
    /\ stale' = (stale \/ Outdated(r, {"twoFactorBackupCodes"}))
    /\ request' = [request EXCEPT ![r].step = "accept"]
    /\ UNCHANGED <<pending, generated, batches>>

\* verify() was true for a login: issueTokens, which does not look at 2FA again.
IssueSession(r) ==
    /\ request[r].step = "accept"
    /\ request[r].op = "verify"
    /\ Finish(r)
    /\ UNCHANGED <<account, pending, history>>

\* Faulty variant: disable() forgets the backup codes.
ClearKeepingCodes(r) ==
    /\ request[r].step = "accept"
    /\ request[r].op = "disable"
    /\ account' = [Cleared EXCEPT !.twoFactorBackupCodes = account.twoFactorBackupCodes]
    /\ stale' = (stale \/ Outdated(r, {"twoFactorSecret", "isTwoFactorEnabled"}))
    /\ Finish(r)
    /\ UNCHANGED <<pending, generated, batches, accepted>>

\* verify() was true for disable().
Clear(r) ==
    /\ request[r].step = "accept"
    /\ request[r].op = "disable"
    /\ account' = Cleared
    /\ stale' = (stale \/ Outdated(r, {"twoFactorSecret", "isTwoFactorEnabled"}))
    /\ Finish(r)
    /\ UNCHANGED <<pending, generated, batches, accepted>>

\* A query rejects, or the process dies, between two steps of a handler.
Fail(r) ==
    /\ request[r].step # "idle"
    /\ Finish(r)
    /\ UNCHANGED <<account, pending, history>>

TwoFactorNext ==
    \/ \E s \in Secret: Setup(s)
    \/ IssuePending
    \/ \E r \in Request:
         \/ BeginEnable(r)
         \/ Activate(r)
         \/ BeginDisable(r)
         \/ BeginVerify(r)
         \/ CheckTotp(r)
         \/ \E c \in BackupCode: CheckBackupCode(r, c)
         \/ CheckFails(r)
         \/ ConsumeBackupCode(r)
         \/ IssueSession(r)
         \/ Clear(r)
         \/ Fail(r)

TwoFactorSpec == TwoFactorInit /\ [][TwoFactorNext]_twoFactorVars

-----------------------------------------------------------------------------
(* Properties *)

\* Every column and every local of a handler holds a value of its kind.
TwoFactorTypeOK ==
    /\ account \in Account
    /\ pending \in BOOLEAN
    /\ request \in [Request -> RequestState]
    /\ generated \in SUBSET Secret
    /\ batches \in [all: SUBSET SUBSET BackupCode, latest: SUBSET BackupCode]
    /\ accepted \in [once: SUBSET BackupCode, twice: SUBSET BackupCode]
    /\ stale \in BOOLEAN

\* However the handlers interleave, the stored backup codes all come from one
\* batch: codes of two enable() calls never mix in the row.
OneBatch ==
    account.twoFactorBackupCodes = {}
        \/ \E B \in batches.all: account.twoFactorBackupCodes \subseteq B

\* As long as no write was based on an outdated read, the row holds exactly the
\* latest batch without the codes already accepted, and none when 2FA is off.
StoredCodesExact ==
    ~stale => account.twoFactorBackupCodes =
                IF account.isTwoFactorEnabled THEN batches.latest \ accepted.once ELSE {}

\* As long as no write was based on an outdated read, a backup code is accepted
\* once: a lost update is the only way to use it again.
SingleUseUnlessStale == ~stale => accepted.twice = {}

\* As long as no write was based on an outdated read, an account with 2FA on has a
\* secret to verify codes with: its user is not locked out.
EnabledHasSecretUnlessStale ==
    ~stale /\ account.isTwoFactorEnabled => account.twoFactorSecret # NoSecret

-----------------------------------------------------------------------------
(* What the documentation says, and the code does not keep. *)

\* usecases/03: a backup code, once used, is consumed.
BackupCodeSingleUse == accepted.twice = {}
==============================================================================
