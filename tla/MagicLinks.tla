----------------------------- MODULE MagicLinks -----------------------------
(***************************************************************************)
(* Signing in with a link from an e-mail: the token in the user row, the   *)
(* e-mail job that carries it, and the requests that bring it back.        *)
(*   src/src/modules/auth/magic-link/magic-link.service.ts, .controller.ts *)
(*   src/src/core/queues/ (queue, processor, dead letters)                 *)
(*   src/src/core/mailer/mailer.service.ts                                 *)
(*   src/src/core/scheduler/jobs/cleanup.scheduler.ts (expired links)      *)
(*                                                                         *)
(* A row holds one token, and the queue treats its jobs one by one, so one *)
(* account shows every interleaving.                                       *)
(***************************************************************************)
EXTENDS Naturals, Requests

CONSTANTS
    Token,      \* tokens that randomBytes may draw
    Attempts,   \* DEFAULT_JOB_ATTEMPTS (3)
    MaxStalled  \* maxStalledCount of BullMQ (1): how often a stalled job is tried again

CONSTANT NoToken

ASSUME NoTokenAssumption == NoToken \notin Token
ASSUME AttemptsAssumption == Attempts \in Nat \ {0} /\ MaxStalled \in Nat

VARIABLES
    magicLinkTokenHash, \* the token in the user row
    expired,   \* tokens whose 15 minutes are over
    job,       \* the e-mail job of every token
    mailbox,   \* tokens that have arrived
    reported,  \* tokens whose job the dead-letter service has logged
    visit,     \* the requests for a link or with one: their handlers at work
    drawn,     \* history: tokens drawn, and the last one
    cleared,   \* history: tokens that a verification has cleared itself
    clobbered, \* history: some verification has cleared another token than its own
    contested, \* history: tokens that two verifications have held at the same time
    opened,    \* history: tokens that have opened a session, once and again
    missed     \* history: tokens whose worker died before it reported the failure

link == <<magicLinkTokenHash, expired>>
queue == <<job, mailbox, reported, missed>>
linkHistory == <<cleared, clobbered, contested, opened>>
linkVars == <<link, queue, visit, drawn, linkHistory>>

Job == [state: {"none", "waiting", "active", "completed", "failed"},
        attemptsMade: 0 .. Attempts, stalled: 0 .. MaxStalled + 1]

VisitState == [step: {"idle", "enqueue", "clear", "issue"}, token: Token \cup {NoToken}]

NoVisit == [step |-> "idle", token |-> NoToken]

-----------------------------------------------------------------------------
LinksInit ==
    /\ magicLinkTokenHash = NoToken
    /\ expired = {}
    /\ job = [t \in Token |-> [state |-> "none", attemptsMade |-> 0, stalled |-> 0]]
    /\ mailbox = {}
    /\ reported = {}
    /\ visit = [r \in Request |-> NoVisit]
    /\ drawn = [all |-> {}, last |-> NoToken]
    /\ cleared = {}
    /\ clobbered = FALSE
    /\ contested = {}
    /\ opened = [once |-> {}, twice |-> {}]
    /\ missed = {}

EndVisit(r) == visit' = [visit EXCEPT ![r] = NoVisit]
Proceed(r, step) == visit' = [visit EXCEPT ![r].step = step]

(* Asking for a link *)

\* send(), up to its job: the new token takes the place of any other.
Send(r, t) ==
    /\ visit[r].step = "idle"
    /\ t \notin drawn.all
    /\ drawn' = [all |-> drawn.all \cup {t}, last |-> t]
    /\ magicLinkTokenHash' = t
    /\ visit' = [visit EXCEPT ![r] = [step |-> "enqueue", token |-> t]]
    /\ UNCHANGED <<expired, queue, linkHistory>>

Enqueue(r) ==
    /\ visit[r].step = "enqueue"
    /\ job' = [job EXCEPT ![visit[r].token].state = "waiting"]
    /\ EndVisit(r)
    /\ UNCHANGED <<link, mailbox, reported, missed, drawn, linkHistory>>

(* The worker of the queue *)

Take(t) ==
    /\ job[t].state = "waiting"
    /\ job' = [job EXCEPT ![t].state = "active"]
    /\ UNCHANGED <<link, mailbox, reported, missed, visit, drawn, linkHistory>>

\* process() returns: the mail is out.
Complete(t) ==
    /\ job[t].state = "active"
    /\ job' = [job EXCEPT ![t].state = "completed"]
    /\ mailbox' = mailbox \cup {t}
    /\ UNCHANGED <<link, reported, missed, visit, drawn, linkHistory>>

\* The queue's own rule: a job with no attempt left has failed.
AfterAttempts(n) == IF n < Attempts THEN "waiting" ELSE "failed"

\* Faulty variant: the last attempt is not taken for the last.
ExhaustedAfter(n) == n > Attempts

\* onFailed(): is there an attempt left?
Exhausted(n) == n >= Attempts

\* onFailed() is called after the queue has taken note, unless the worker dies first.
ReportFailure(t, n) ==
    \/ /\ reported' = IF Exhausted(n) THEN reported \cup {t} ELSE reported
       /\ UNCHANGED missed
    \/ /\ missed' = IF n = Attempts THEN missed \cup {t} ELSE missed
       /\ UNCHANGED reported

\* Faulty variant: the attempt is not counted.
RejectUncounted(t) ==
    /\ job[t].state = "active"
    /\ job' = [job EXCEPT ![t].state = "waiting"]
    /\ mailbox' \in {mailbox, mailbox \cup {t}}
    /\ UNCHANGED <<link, reported, missed, visit, drawn, linkHistory>>

\* process() rejects, for a mail that may be out all the same.
Reject(t) ==
    LET n == job[t].attemptsMade + 1 IN
    /\ job[t].state = "active"
    /\ job' = [job EXCEPT ![t].state = AfterAttempts(n), ![t].attemptsMade = n]
    /\ mailbox' \in {mailbox, mailbox \cup {t}}
    /\ ReportFailure(t, n)
    /\ UNCHANGED <<link, visit, drawn, linkHistory>>

\* The worker dies at it, before or after the mail is out; the job waits again.
Stall(t) ==
    /\ job[t].state = "active"
    /\ job[t].stalled < MaxStalled
    /\ job' = [job EXCEPT ![t].state = "waiting", ![t].stalled = @ + 1]
    /\ mailbox' \in {mailbox, mailbox \cup {t}}
    /\ UNCHANGED <<link, reported, missed, visit, drawn, linkHistory>>

\* The worker dies at it once too often: the queue fails the job, whatever attempts it
\* has left, and onFailed() sees attempts left.  Whether the queue counts the last one
\* depends on its version, and here it may do either.
StallOut(t) ==
    /\ job[t].state = "active"
    /\ job[t].stalled = MaxStalled
    /\ \E n \in {job[t].attemptsMade, job[t].attemptsMade + 1}:
         /\ job' = [job EXCEPT ![t] = [state |-> "failed", attemptsMade |-> n,
                                      stalled |-> MaxStalled + 1]]
         /\ ReportFailure(t, n)
    /\ mailbox' \in {mailbox, mailbox \cup {t}}
    /\ UNCHANGED <<link, visit, drawn, linkHistory>>

(* Coming back with the link *)

\* Faulty variant: the lookup does not compare magicLinkExpiresAt.
VerifyAnyTime(r, t) ==
    /\ visit[r].step = "idle"
    /\ t \in mailbox
    /\ magicLinkTokenHash = t
    /\ visit' = [visit EXCEPT ![r] = [step |-> "clear", token |-> t]]
    /\ contested' = IF \E q \in Request: visit[q] = [step |-> "clear", token |-> t]
                    THEN contested \cup {t} ELSE contested
    /\ UNCHANGED <<link, queue, drawn, cleared, clobbered, opened>>

\* verify(), its lookup.
Verify(r, t) ==
    /\ visit[r].step = "idle"
    /\ t \in mailbox
    /\ magicLinkTokenHash = t
    /\ t \notin expired
    /\ visit' = [visit EXCEPT ![r] = [step |-> "clear", token |-> t]]
    /\ contested' = IF \E q \in Request: visit[q] = [step |-> "clear", token |-> t]
                    THEN contested \cup {t} ELSE contested
    /\ UNCHANGED <<link, queue, drawn, cleared, clobbered, opened>>

\* Faulty variant: the token stays until it expires.
ClearNothing(r) ==
    /\ visit[r].step = "clear"
    /\ cleared' = cleared \cup {visit[r].token}
    /\ Proceed(r, "issue")
    /\ UNCHANGED <<link, queue, drawn, clobbered, contested, opened>>

\* verify(), its update by user id: of whatever token the row holds by now.
ClearToken(r) ==
    /\ visit[r].step = "clear"
    /\ magicLinkTokenHash' = NoToken
    /\ cleared' = cleared \cup {visit[r].token}
    /\ clobbered' = (clobbered \/ magicLinkTokenHash \notin {visit[r].token, NoToken})
    /\ Proceed(r, "issue")
    /\ UNCHANGED <<expired, queue, drawn, contested, opened>>

\* The controller goes on to issueTokens(), which does not look at 2FA; a user who
\* is not active gets an error, as in FailVisit.
IssueTokens(r) ==
    LET t == visit[r].token IN
    /\ visit[r].step = "issue"
    /\ opened' = [once |-> opened.once \cup {t},
                  twice |-> opened.twice \cup ({t} \cap opened.once)]
    /\ EndVisit(r)
    /\ UNCHANGED <<link, queue, drawn, cleared, clobbered, contested>>

\* A lookup finds nothing, a query rejects or the process dies, before any step.
FailVisit(r) ==
    /\ visit[r].step # "idle"
    /\ EndVisit(r)
    /\ UNCHANGED <<link, queue, drawn, linkHistory>>

(* The rest of the world *)

Expire(t) ==
    /\ t \in drawn.all
    /\ expired' = expired \cup {t}
    /\ UNCHANGED <<magicLinkTokenHash, queue, visit, drawn, linkHistory>>

\* Faulty variant: links are purged whether they have expired or not.
PurgeAll ==
    /\ magicLinkTokenHash' = NoToken
    /\ UNCHANGED <<expired, queue, visit, drawn, linkHistory>>

\* The cleanup job.
PurgeExpired ==
    /\ magicLinkTokenHash \in expired
    /\ magicLinkTokenHash' = NoToken
    /\ UNCHANGED <<expired, queue, visit, drawn, linkHistory>>

Work(t) == Take(t) \/ Complete(t) \/ Reject(t)

LinksNext ==
    \/ \E r \in Request, t \in Token: Send(r, t)
    \/ \E r \in Request: Enqueue(r)
    \/ \E t \in Token: Work(t)
    \/ \E t \in Token: Stall(t)
    \/ \E t \in Token: StallOut(t)
    \/ \E r \in Request, t \in Token: Verify(r, t)
    \/ \E r \in Request: ClearToken(r)
    \/ \E r \in Request: IssueTokens(r)
    \/ \E r \in Request: FailVisit(r)
    \/ \E t \in Token: Expire(t)
    \/ PurgeExpired

LinksSpec == LinksInit /\ [][LinksNext]_linkVars

\* The queue is persistent and its workers take every job in the end.
LinksFairSpec == LinksSpec /\ \A t \in Token: WF_linkVars(Work(t))

-----------------------------------------------------------------------------
(* Properties *)

\* Whose worker died more often than the queue allows.
StalledOut(t) == job[t].stalled > MaxStalled

\* The row, the jobs and the locals of the handlers are of their kinds, and a job has
\* failed exactly when it has used up its attempts or stalled too often.
LinksTypeOK ==
    /\ magicLinkTokenHash \in Token \cup {NoToken}
    /\ expired \in SUBSET Token
    /\ job \in [Token -> Job]
    /\ \A t \in Token:
         job[t].state = "failed" <=> job[t].attemptsMade = Attempts \/ StalledOut(t)
    /\ mailbox \in SUBSET Token
    /\ reported \in SUBSET Token
    /\ visit \in [Request -> VisitState]
    /\ drawn \in [all: SUBSET Token, last: Token \cup {NoToken}]
    /\ cleared \in SUBSET Token
    /\ clobbered \in BOOLEAN
    /\ contested \in SUBSET Token
    /\ opened \in [once: SUBSET Token, twice: SUBSET Token]
    /\ missed \in SUBSET Token

\* A link opens one session, unless two verifications held it at the same time:
\* neither a second mail, nor a failure, nor a new link in between brings it back.
OpensOnce == opened.twice \subseteq contested

\* The newest link works until it is used or expires: neither the cleanup job nor
\* the use of older links takes it away, except when a verification that had
\* already found an older one clears the row after the newest was written.
NewestWorks ==
    /\ drawn.last # NoToken
    /\ drawn.last \notin cleared \cup expired
    /\ ~clobbered
    => magicLinkTokenHash = drawn.last

\* The attempt that is the last for the queue is the last for onFailed(): a job that has
\* used up its attempts, by rejections or a stall, was reported, or its worker died at
\* that very moment; and none is reported that has an attempt left, so that one given up
\* as stalled before that is lost in silence.
ExhaustionReported ==
    \A t \in Token: job[t].attemptsMade = Attempts <=> t \in reported \cup missed

\* Who has found the row by its token, and has not been let in yet.
Admitted(r) == visit[r].step \in {"clear", "issue"}

LinkHeld == [r \in Request |-> IF Admitted(r) THEN visit[r].token ELSE NoToken]

\* The link that would be found is on offer, and those before it no longer are.
LinkOffer ==
    [t \in Token |-> IF t \notin drawn.all THEN "new"
                     ELSE IF t = magicLinkTokenHash /\ t \notin expired THEN "open"
                     ELSE "closed"]

Links == INSTANCE OneTimeSecrets
           WITH Secret <- Token, Holder <- Request, Nothing <- NoToken,
                offer <- LinkOffer, held <- LinkHeld, entered <- opened.once

\* Links are one-time secrets: a link is offered until the next one, its expiry or its
\* first use, and is no longer on offer when somebody is let in with it.
LinkIsOneTime == Links!Spec

\* Nobody is admitted with a link that has let somebody in.
UsedLinkRefused ==
    [][\A r \in Request:
         ~Admitted(r) /\ Admitted(r)' => visit'[r].token \notin opened.once]_linkVars

\* A link that was queued arrives, or its failure is reported or missed, or its workers
\* have died so often that the queue gave it up.
LinkArrivesOrFails ==
    \A t \in Token: job[t].state = "waiting"
                       ~> t \in mailbox \cup reported \cup missed \/ StalledOut(t)
=============================================================================
