---------------------------- MODULE SignInProofs ----------------------------
(***************************************************************************)
(* The ways to prove who one is, each for any number of concurrent         *)
(* requests: links from e-mails (MagicLinks) and passkeys (Passkeys), each *)
(* of them shown to implement OneTimeSecrets, and the second factor        *)
(* (TwoFactor).  The three share the requests and nothing else.            *)
(***************************************************************************)
EXTENDS MagicLinks, Passkeys, TwoFactor, TLAPS

(***************************************************************************)
(* Magic links                                                             *)
(***************************************************************************)

\* Whatever is said of tokens is said of tokens that were drawn.
TokensKnown ==
    /\ magicLinkTokenHash \in drawn.all \cup {NoToken}
    /\ expired \subseteq drawn.all
    /\ cleared \subseteq drawn.all
    /\ \A r \in Request: visit[r].step # "idle" => visit[r].token \in drawn.all
    /\ \A t \in Token: t \notin drawn.all => job[t].state = "none"

\* Each token is queued once: by the one request that drew it.
QueuedOnce ==
    \A r \in Request: visit[r].step = "enqueue" =>
        /\ job[visit[r].token].state = "none"
        /\ \A q \in Request: q # r /\ visit[q].step = "enqueue" => visit[q].token # visit[r].token

\* A token that was cleared stays away from the row, and no other opens a session.
ClearedGone ==
    /\ magicLinkTokenHash \notin cleared
    /\ \A r \in Request: visit[r].step = "issue" => visit[r].token \in cleared
    /\ opened.once \subseteq cleared

\* Two requests that were admitted with one token, at once or one after the other's
\* session was opened, have been noted.
HoldersNoted ==
    \A r \in Request: Admitted(r) =>
        /\ visit[r].token \in opened.once => visit[r].token \in contested
        /\ \A q \in Request: q # r /\ Admitted(q) /\ visit[q].token = visit[r].token
                             => visit[r].token \in contested

LinksInv ==
    /\ LinksTypeOK
    /\ TokensKnown
    /\ QueuedOnce
    /\ ClearedGone
    /\ HoldersNoted
    /\ OpensOnce
    /\ NewestWorks
    /\ ExhaustionReported

\* What is said of a job is said in terms of its record.
USE DEF StalledOut

LEMMA NoVisitState == NoVisit \in VisitState /\ NoVisit.step = "idle"
BY DEF NoVisit, VisitState

LEMMA LinksInitially == LinksInit => LinksInv
<1> SUFFICES ASSUME LinksInit PROVE LinksInv
  OBVIOUS
<1>1. LinksTypeOK
  <2>1. [state |-> "none", attemptsMade |-> 0, stalled |-> 0] \in Job
    BY AttemptsAssumption DEF Job
  <2>2. job \in [Token -> Job]
    BY <2>1 DEF LinksInit
  <2>3. \A t \in Token: /\ job[t].state = "none"
                       /\ job[t].attemptsMade # Attempts
                       /\ ~StalledOut(t)
    BY AttemptsAssumption DEF LinksInit
  <2> QED
    BY <2>2, <2>3, NoVisitState DEF LinksInit, LinksTypeOK
<1>2. TokensKnown /\ QueuedOnce /\ ClearedGone /\ HoldersNoted
  BY NoVisitState
  DEF LinksInit, TokensKnown, QueuedOnce, ClearedGone, HoldersNoted, Admitted
<1>3. OpensOnce /\ NewestWorks
  BY DEF LinksInit, OpensOnce, NewestWorks
<1>4. ExhaustionReported
  BY AttemptsAssumption DEF LinksInit, ExhaustionReported
<1> QED
  BY <1>1, <1>2, <1>3, <1>4 DEF LinksInv

-----------------------------------------------------------------------------
(* How a visit moves on: the others are left alone. *)

LEMMA EndedVisit ==
    ASSUME LinksTypeOK, NEW r \in Request, EndVisit(r)
    PROVE  /\ visit' \in [Request -> VisitState]
           /\ visit'[r].step = "idle"
           /\ \A q \in Request: q # r => visit'[q] = visit[q]
BY NoVisitState DEF EndVisit, LinksTypeOK

LEMMA ProceededVisit ==
    ASSUME LinksTypeOK, NEW r \in Request, Proceed(r, "issue")
    PROVE  /\ visit' \in [Request -> VisitState]
           /\ visit'[r].step = "issue" /\ visit'[r].token = visit[r].token
           /\ \A q \in Request: q # r => visit'[q] = visit[q]
BY DEF Proceed, LinksTypeOK, VisitState

LEMMA BegunVisit ==
    ASSUME LinksTypeOK, NEW r \in Request, NEW t \in Token, NEW step \in {"enqueue", "clear"},
           visit' = [visit EXCEPT ![r] = [step |-> step, token |-> t]]
    PROVE  /\ visit' \in [Request -> VisitState]
           /\ visit'[r].step = step /\ visit'[r].token = t
           /\ \A q \in Request: q # r => visit'[q] = visit[q]
BY DEF LinksTypeOK, VisitState

-----------------------------------------------------------------------------
(* One lemma per action of MagicLinks *)

LEMMA SendStep ==
    ASSUME LinksInv, NEW r \in Request, NEW t \in Token, Send(r, t)
    PROVE  LinksInv'
<1>0. /\ LinksTypeOK
      /\ UNCHANGED <<expired, queue, linkHistory>>
      /\ magicLinkTokenHash' = t
      /\ t \notin drawn.all
      /\ drawn'.all = drawn.all \cup {t} /\ drawn'.last = t
  BY DEF LinksInv, Send
<1>1. /\ visit' \in [Request -> VisitState]
      /\ visit'[r].step = "enqueue" /\ visit'[r].token = t
      /\ \A q \in Request: q # r => visit'[q] = visit[q]
  BY <1>0, BegunVisit DEF Send
<1>2. LinksTypeOK'
  BY <1>0, <1>1 DEF LinksTypeOK, Send, queue, linkHistory
<1>3. TokensKnown'
  BY <1>0, <1>1 DEF LinksInv, TokensKnown, queue, linkHistory
<1>4. QueuedOnce'
  BY <1>0, <1>1 DEF LinksInv, TokensKnown, QueuedOnce, queue
<1>5. ClearedGone'
  BY <1>0, <1>1 DEF LinksInv, TokensKnown, ClearedGone, linkHistory
<1>6. HoldersNoted'
  BY <1>0, <1>1 DEF LinksInv, HoldersNoted, Admitted, linkHistory
<1>7. OpensOnce' /\ NewestWorks' /\ ExhaustionReported'
  BY <1>0 DEF LinksInv, OpensOnce, NewestWorks, ExhaustionReported, queue, linkHistory
<1> QED
  BY <1>2, <1>3, <1>4, <1>5, <1>6, <1>7 DEF LinksInv

\* A visit that is over, while the row, the tokens and their sessions stay.
LEMMA EndVisitStep ==
    ASSUME LinksInv, NEW r \in Request, EndVisit(r), LinksTypeOK', ExhaustionReported',
           UNCHANGED <<link, drawn, linkHistory>>,
           \A t \in Token: \/ job'[t].state = job[t].state
                         \/ visit[r] = [step |-> "enqueue", token |-> t]
    PROVE  LinksInv'
<1>0. LinksTypeOK
  BY DEF LinksInv
<1>1. /\ visit' \in [Request -> VisitState]
      /\ visit'[r].step = "idle"
      /\ \A q \in Request: q # r => visit'[q] = visit[q]
  BY <1>0, EndedVisit
<1>2. TokensKnown'
  BY <1>0, <1>1 DEF LinksInv, LinksTypeOK, TokensKnown, link, linkHistory
<1>3. QueuedOnce'
  <2> SUFFICES ASSUME NEW q \in Request, visit'[q].step = "enqueue"
               PROVE  /\ job'[visit'[q].token].state = "none"
                      /\ \A p \in Request: p # q /\ visit'[p].step = "enqueue"
                                            => visit'[p].token # visit'[q].token
    BY DEF QueuedOnce
  <2>1. q # r /\ visit'[q] = visit[q] /\ visit[q].token \in Token
    BY <1>0, <1>1 DEF LinksInv, LinksTypeOK, TokensKnown
  <2>2. job[visit[q].token].state = "none" /\ visit[q].step = "enqueue"
    BY <2>1 DEF LinksInv, QueuedOnce
  <2>3. visit[r] # [step |-> "enqueue", token |-> visit[q].token]
    BY <2>1, <2>2 DEF LinksInv, QueuedOnce
  <2>4. job'[visit[q].token].state = "none"
    BY <2>1, <2>2, <2>3
  <2> QED
    BY <1>1, <2>1, <2>4 DEF LinksInv, QueuedOnce
<1>4. ClearedGone' /\ HoldersNoted'
  BY <1>1 DEF LinksInv, ClearedGone, HoldersNoted, Admitted, link, linkHistory
<1>5. OpensOnce' /\ NewestWorks'
  BY DEF LinksInv, OpensOnce, NewestWorks, link, linkHistory
<1> QED
  BY <1>2, <1>3, <1>4, <1>5 DEF LinksInv

LEMMA EnqueueStep ==
    ASSUME LinksInv, NEW r \in Request, Enqueue(r)
    PROVE  LinksInv'
<1> DEFINE t == visit[r].token
<1>1. /\ LinksTypeOK /\ TokensKnown
      /\ EndVisit(r)
      /\ job' = [job EXCEPT ![t].state = "waiting"]
      /\ UNCHANGED <<link, mailbox, reported, missed, drawn, linkHistory>>
  BY DEF LinksInv, Enqueue
<1>2. t \in Token /\ job[t].state = "none" /\ visit[r].step = "enqueue"
  BY <1>1 DEF LinksInv, Enqueue, QueuedOnce, LinksTypeOK, TokensKnown
<1>3. /\ job' \in [Token -> Job]
      /\ job'[t].state = "waiting" /\ job'[t].attemptsMade = job[t].attemptsMade
      /\ job'[t].stalled = job[t].stalled
      /\ \A u \in Token: u # t => job'[u] = job[u]
  BY <1>1, <1>2 DEF LinksTypeOK, Job
<1>4. LinksTypeOK'
  BY <1>1, <1>2, <1>3, EndedVisit DEF LinksTypeOK, link, linkHistory
<1>5. ExhaustionReported'
  BY <1>1, <1>2, <1>3 DEF LinksInv, ExhaustionReported
<1>6. visit[r] = [step |-> "enqueue", token |-> t]
  BY <1>1, <1>2 DEF LinksTypeOK, VisitState
<1> QED
  BY <1>1, <1>3, <1>4, <1>5, <1>6, EndVisitStep

LEMMA FailVisitStep ==
    ASSUME LinksInv, NEW r \in Request, FailVisit(r)
    PROVE  LinksInv'
<1>1. LinksTypeOK /\ EndVisit(r) /\ UNCHANGED <<link, queue, drawn, linkHistory>>
  BY DEF LinksInv, FailVisit
<1>2. LinksTypeOK'
  BY <1>1, EndedVisit DEF LinksTypeOK, link, queue, linkHistory
<1>3. ExhaustionReported'
  BY <1>1 DEF LinksInv, ExhaustionReported, queue
<1> QED
  BY <1>1, <1>2, <1>3, EndVisitStep DEF queue

\* The worker leaves the rows and the requests alone, and takes up no job that was
\* never queued.
LEMMA WorkerStep ==
    ASSUME LinksInv, LinksTypeOK', ExhaustionReported',
           UNCHANGED <<link, visit, drawn, linkHistory>>,
           \A t \in Token: job[t].state = "none" => job'[t].state = "none"
    PROVE  LinksInv'
<1>1. TokensKnown'
  BY DEF LinksInv, LinksTypeOK, TokensKnown, link, linkHistory
<1>2. QueuedOnce'
  BY DEF LinksInv, LinksTypeOK, TokensKnown, QueuedOnce, link
<1>3. ClearedGone' /\ HoldersNoted' /\ OpensOnce' /\ NewestWorks'
  BY DEF LinksInv, ClearedGone, HoldersNoted, Admitted, OpensOnce, NewestWorks, link, linkHistory
<1> QED
  BY <1>1, <1>2, <1>3 DEF LinksInv

\* A job changes its state, and no failure is about it.
LEMMA JobStep ==
    ASSUME LinksInv, NEW t \in Token, job[t].state \notin {"none", "failed"},
           job' \in [Token -> Job],
           job'[t].state # "failed", job'[t].attemptsMade = job[t].attemptsMade,
           ~StalledOut(t)',
           \A u \in Token: u # t => job'[u] = job[u],
           mailbox' \in {mailbox, mailbox \cup {t}},
           UNCHANGED <<link, reported, missed, visit, drawn, linkHistory>>
    PROVE  LinksInv'
<1>1. LinksTypeOK'
  BY DEF LinksInv, LinksTypeOK, link, linkHistory
<1>2. ExhaustionReported'
  BY DEF LinksInv, LinksTypeOK, ExhaustionReported
<1>3. \A u \in Token: job[u].state = "none" => job'[u].state = "none"
  OBVIOUS
<1> QED
  BY <1>1, <1>2, <1>3, WorkerStep

LEMMA TakeStep ==
    ASSUME LinksInv, NEW t \in Token, Take(t)
    PROVE  LinksInv'
<1>1. job \in [Token -> Job] /\ job[t].state = "waiting"
  BY DEF LinksInv, LinksTypeOK, Take
<1>2. /\ job' \in [Token -> Job]
      /\ job'[t].state = "active" /\ job'[t].attemptsMade = job[t].attemptsMade
      /\ job'[t].stalled = job[t].stalled
      /\ \A u \in Token: u # t => job'[u] = job[u]
  BY <1>1 DEF Job, Take
<1>3. ~StalledOut(t)
  BY <1>1 DEF LinksInv, LinksTypeOK
<1> QED
  BY <1>1, <1>2, <1>3, JobStep DEF Take

LEMMA CompleteStep ==
    ASSUME LinksInv, NEW t \in Token, Complete(t)
    PROVE  LinksInv'
<1>1. job \in [Token -> Job] /\ job[t].state = "active"
  BY DEF LinksInv, LinksTypeOK, Complete
<1>2. /\ job' \in [Token -> Job]
      /\ job'[t].state = "completed" /\ job'[t].attemptsMade = job[t].attemptsMade
      /\ job'[t].stalled = job[t].stalled
      /\ \A u \in Token: u # t => job'[u] = job[u]
  BY <1>1 DEF Job, Complete
<1>3. ~StalledOut(t)
  BY <1>1 DEF LinksInv, LinksTypeOK
<1> QED
  BY <1>1, <1>2, <1>3, JobStep DEF Complete

LEMMA StallStep ==
    ASSUME LinksInv, NEW t \in Token, Stall(t)
    PROVE  LinksInv'
<1>1. /\ job \in [Token -> Job]
      /\ job[t].state = "active" /\ job[t].stalled < MaxStalled
  BY DEF LinksInv, LinksTypeOK, Stall
<1>2. /\ job' \in [Token -> Job]
      /\ job'[t].state = "waiting" /\ job'[t].attemptsMade = job[t].attemptsMade
      /\ ~StalledOut(t)'
      /\ \A u \in Token: u # t => job'[u] = job[u]
  BY <1>1, AttemptsAssumption DEF Job, Stall
<1> QED
  BY <1>1, <1>2, JobStep DEF Stall

\* The attempt that is the last for the queue is the last for onFailed() too.
LEMMA FailureReported ==
    ASSUME LinksTypeOK, NEW t \in Token, NEW n \in 0 .. Attempts, ReportFailure(t, n)
    PROVE  \/ /\ reported' = IF n = Attempts THEN reported \cup {t} ELSE reported
              /\ UNCHANGED missed
           \/ /\ missed' = IF n = Attempts THEN missed \cup {t} ELSE missed
              /\ UNCHANGED reported
<1>1. Exhausted(n) <=> n = Attempts
  BY AttemptsAssumption DEF Exhausted
<1> QED
  BY <1>1 DEF ReportFailure

\* A job that was at work is given back or fails, and onFailed() hears of it.
LEMMA FailedJobStep ==
    ASSUME LinksInv, NEW t \in Token, NEW n \in 0 .. Attempts,
           job[t].state = "active",
           job' \in [Token -> Job],
           job'[t].attemptsMade = n,
           job'[t].state = "failed" <=> n = Attempts \/ StalledOut(t)',
           job'[t].state # "none",
           \A u \in Token: u # t => job'[u] = job[u],
           ReportFailure(t, n),
           mailbox' \in {mailbox, mailbox \cup {t}},
           UNCHANGED <<link, visit, drawn, linkHistory>>
    PROVE  LinksInv'
<1>1. /\ LinksTypeOK /\ ExhaustionReported
      /\ job[t].attemptsMade # Attempts
  BY DEF LinksInv, LinksTypeOK
<1>2. \/ /\ reported' = IF n = Attempts THEN reported \cup {t} ELSE reported
         /\ UNCHANGED missed
      \/ /\ missed' = IF n = Attempts THEN missed \cup {t} ELSE missed
         /\ UNCHANGED reported
  BY <1>1, FailureReported
<1>3. LinksTypeOK'
  BY <1>1, <1>2 DEF LinksTypeOK, link, linkHistory
<1>4. ExhaustionReported'
  BY <1>1, <1>2 DEF LinksTypeOK, ExhaustionReported
<1>5. \A u \in Token: job[u].state = "none" => job'[u].state = "none"
  OBVIOUS
<1> QED
  BY <1>3, <1>4, <1>5, WorkerStep

LEMMA RejectStep ==
    ASSUME LinksInv, NEW t \in Token, Reject(t)
    PROVE  LinksInv'
<1> DEFINE n == job[t].attemptsMade + 1
<1>1. /\ job \in [Token -> Job] /\ job[t] \in Job
      /\ job[t].state = "active" /\ job[t].attemptsMade # Attempts /\ ~StalledOut(t)
  BY DEF LinksInv, LinksTypeOK, Reject
<1>2. n \in 1 .. Attempts
  BY <1>1, AttemptsAssumption DEF Job
<1>3. /\ AfterAttempts(n) \in {"waiting", "failed"}
      /\ AfterAttempts(n) = "failed" <=> n = Attempts
  BY <1>2, AttemptsAssumption DEF AfterAttempts
<1>4. /\ job' \in [Token -> Job]
      /\ job'[t].state \in {"waiting", "failed"}
      /\ job'[t].state = "failed" <=> n = Attempts
      /\ job'[t].attemptsMade = n
      /\ job'[t].stalled = job[t].stalled
      /\ \A u \in Token: u # t => job'[u] = job[u]
  BY <1>1, <1>2, <1>3, AttemptsAssumption DEF Job, Reject
<1>5. ReportFailure(t, n) /\ n \in 0 .. Attempts
  BY <1>2 DEF Reject
<1> HIDE DEF n
<1> QED
  BY <1>1, <1>4, <1>5, FailedJobStep DEF Reject

LEMMA StallOutStep ==
    ASSUME LinksInv, NEW t \in Token, StallOut(t)
    PROVE  LinksInv'
<1>1. /\ job \in [Token -> Job] /\ job[t] \in Job
      /\ job[t].state = "active" /\ job[t].attemptsMade # Attempts
  BY DEF LinksInv, LinksTypeOK, StallOut
<1>2. PICK n \in {job[t].attemptsMade, job[t].attemptsMade + 1}:
        /\ job' = [job EXCEPT ![t] = [state |-> "failed", attemptsMade |-> n,
                                      stalled |-> MaxStalled + 1]]
        /\ ReportFailure(t, n)
  BY DEF StallOut
<1>3. n \in 0 .. Attempts
  BY <1>1, AttemptsAssumption DEF Job
<1>4. /\ job' \in [Token -> Job]
      /\ job'[t].state = "failed" /\ job'[t].attemptsMade = n
      /\ StalledOut(t)'
      /\ \A u \in Token: u # t => job'[u] = job[u]
  BY <1>1, <1>2, <1>3, AttemptsAssumption DEF Job
<1> QED
  BY <1>1, <1>2, <1>3, <1>4, FailedJobStep DEF StallOut

LEMMA VerifyStep ==
    ASSUME LinksInv, NEW r \in Request, NEW t \in Token, Verify(r, t)
    PROVE  LinksInv'
<1>0. /\ LinksTypeOK /\ TokensKnown
      /\ UNCHANGED <<link, queue, drawn, cleared, clobbered, opened>>
      /\ magicLinkTokenHash = t
  BY DEF LinksInv, Verify
<1>1. /\ visit' \in [Request -> VisitState]
      /\ visit'[r].step = "clear" /\ visit'[r].token = t
      /\ \A q \in Request: q # r => visit'[q] = visit[q]
  BY <1>0, BegunVisit DEF Verify
<1>2. t \in drawn.all /\ t \notin cleared /\ t \notin opened.once
  BY <1>0, NoTokenAssumption DEF LinksInv, TokensKnown, ClearedGone
<1>3. \A q \in Request: q # r /\ Admitted(q) /\ visit[q].token = t => t \in contested'
  <2> SUFFICES ASSUME NEW q \in Request, q # r, Admitted(q), visit[q].token = t
               PROVE  t \in contested'
    OBVIOUS
  <2>1. visit[q].step = "clear"
    BY <1>2 DEF LinksInv, ClearedGone, Admitted
  <2>2. visit[q] = [step |-> "clear", token |-> t]
    BY <1>0, <2>1 DEF LinksTypeOK, VisitState
  <2> QED
    BY <2>2 DEF Verify
<1>4. contested \subseteq contested' /\ contested' \subseteq contested \cup {t}
  BY DEF Verify
<1>5. LinksTypeOK'
  BY <1>0, <1>1, <1>4 DEF LinksTypeOK, link, queue
<1>6. TokensKnown' /\ QueuedOnce' /\ ClearedGone'
  BY <1>0, <1>1, <1>2 DEF LinksInv, TokensKnown, QueuedOnce, ClearedGone, link, queue
<1>7. HoldersNoted'
  BY <1>0, <1>1, <1>2, <1>3, <1>4 DEF LinksInv, HoldersNoted, Admitted
<1>8. OpensOnce' /\ NewestWorks' /\ ExhaustionReported'
  BY <1>0, <1>4 DEF LinksInv, OpensOnce, NewestWorks, ExhaustionReported, link, queue
<1> QED
  BY <1>5, <1>6, <1>7, <1>8 DEF LinksInv

LEMMA ClearTokenStep ==
    ASSUME LinksInv, NEW r \in Request, ClearToken(r)
    PROVE  LinksInv'
<1> DEFINE t == visit[r].token
<1>0. /\ LinksTypeOK /\ TokensKnown
      /\ UNCHANGED <<expired, queue, drawn, contested, opened>>
      /\ magicLinkTokenHash' = NoToken
      /\ cleared' = cleared \cup {t}
      /\ clobbered' = (clobbered \/ magicLinkTokenHash \notin {t, NoToken})
      /\ visit[r].step = "clear"
  BY DEF LinksInv, ClearToken
<1>1. /\ visit' \in [Request -> VisitState]
      /\ visit'[r].step = "issue" /\ visit'[r].token = t
      /\ \A q \in Request: q # r => visit'[q] = visit[q]
  BY <1>0, ProceededVisit DEF ClearToken
<1>2. t \in drawn.all /\ t \in Token /\ NoToken \notin cleared'
  BY <1>0, NoTokenAssumption DEF LinksTypeOK, TokensKnown
<1>3. LinksTypeOK'
  BY <1>0, <1>1, <1>2 DEF LinksTypeOK, queue
<1>4. TokensKnown' /\ QueuedOnce' /\ ClearedGone'
  BY <1>0, <1>1, <1>2 DEF LinksInv, TokensKnown, QueuedOnce, ClearedGone, queue
<1>5. HoldersNoted'
  BY <1>0, <1>1 DEF LinksInv, HoldersNoted, Admitted
<1>6. OpensOnce' /\ ExhaustionReported'
  BY <1>0 DEF LinksInv, OpensOnce, ExhaustionReported, queue
<1>7. NewestWorks'
  BY <1>0, <1>2 DEF LinksInv, NewestWorks
<1> QED
  BY <1>3, <1>4, <1>5, <1>6, <1>7 DEF LinksInv

LEMMA IssueTokensStep ==
    ASSUME LinksInv, NEW r \in Request, IssueTokens(r)
    PROVE  LinksInv'
<1> DEFINE t == visit[r].token
<1>0. /\ LinksTypeOK /\ TokensKnown
      /\ UNCHANGED <<link, queue, drawn, cleared, clobbered, contested>>
      /\ opened'.once = opened.once \cup {t}
      /\ opened'.twice = opened.twice \cup ({t} \cap opened.once)
      /\ visit[r].step = "issue"
  BY DEF LinksInv, IssueTokens
<1>1. /\ visit' \in [Request -> VisitState]
      /\ visit'[r].step = "idle"
      /\ \A q \in Request: q # r => visit'[q] = visit[q]
  BY <1>0, EndedVisit DEF IssueTokens
<1>2. t \in Token /\ t \in cleared
  BY <1>0 DEF LinksInv, LinksTypeOK, TokensKnown, ClearedGone
<1>3. t \in opened.once => t \in contested
  BY <1>0 DEF LinksInv, HoldersNoted, Admitted
<1>4. LinksTypeOK'
  BY <1>0, <1>1, <1>2 DEF LinksTypeOK, link, queue, IssueTokens
<1>5. TokensKnown' /\ QueuedOnce' /\ ClearedGone'
  BY <1>0, <1>1, <1>2 DEF LinksInv, TokensKnown, QueuedOnce, ClearedGone, link, queue
<1>6. HoldersNoted'
  BY <1>0, <1>1 DEF LinksInv, HoldersNoted, Admitted
<1>7. OpensOnce' /\ NewestWorks' /\ ExhaustionReported'
  BY <1>0, <1>3 DEF LinksInv, OpensOnce, NewestWorks, ExhaustionReported, link, queue
<1> QED
  BY <1>4, <1>5, <1>6, <1>7 DEF LinksInv

LEMMA ExpireStep ==
    ASSUME LinksInv, NEW t \in Token, Expire(t)
    PROVE  LinksInv'
<1>1. LinksTypeOK' /\ TokensKnown'
  BY DEF LinksInv, Expire, LinksTypeOK, TokensKnown, queue, linkHistory
<1>2. QueuedOnce' /\ ClearedGone' /\ HoldersNoted'
  BY DEF LinksInv, Expire, QueuedOnce, ClearedGone, HoldersNoted, Admitted, queue, linkHistory
<1>3. OpensOnce' /\ NewestWorks' /\ ExhaustionReported'
  BY DEF LinksInv, Expire, OpensOnce, NewestWorks, ExhaustionReported, queue, linkHistory
<1> QED
  BY <1>1, <1>2, <1>3 DEF LinksInv

LEMMA PurgeExpiredStep ==
    ASSUME LinksInv, PurgeExpired
    PROVE  LinksInv'
<1>1. LinksTypeOK' /\ TokensKnown'
  BY DEF LinksInv, PurgeExpired, LinksTypeOK, TokensKnown, queue, linkHistory
<1>2. ClearedGone'
  BY NoTokenAssumption
  DEF LinksInv, PurgeExpired, LinksTypeOK, ClearedGone, linkHistory
<1>3. QueuedOnce' /\ HoldersNoted' /\ OpensOnce' /\ ExhaustionReported'
  BY DEF LinksInv, PurgeExpired, QueuedOnce, HoldersNoted, Admitted, OpensOnce, ExhaustionReported,
         queue, linkHistory
<1>4. NewestWorks'
  BY DEF LinksInv, PurgeExpired, NewestWorks, linkHistory
<1> QED
  BY <1>1, <1>2, <1>3, <1>4 DEF LinksInv

LEMMA LinksStutter ==
    ASSUME LinksInv, UNCHANGED linkVars
    PROVE  LinksInv'
BY DEF LinksInv, linkVars, link, queue, linkHistory, LinksTypeOK, TokensKnown, QueuedOnce,
       ClearedGone, HoldersNoted, Admitted, OpensOnce, NewestWorks, ExhaustionReported

LEMMA LinksInductive == LinksInv /\ [LinksNext]_linkVars => LinksInv'
<1> SUFFICES ASSUME LinksInv, [LinksNext]_linkVars PROVE LinksInv'
  OBVIOUS
<1>1. ASSUME NEW r \in Request, NEW t \in Token, Send(r, t) PROVE LinksInv'
  BY <1>1, SendStep
<1>2. ASSUME NEW r \in Request, Enqueue(r) PROVE LinksInv'
  BY <1>2, EnqueueStep
<1>3. ASSUME NEW t \in Token, Work(t) PROVE LinksInv'
  BY <1>3, TakeStep, CompleteStep, RejectStep DEF Work
<1>4. ASSUME NEW t \in Token, Stall(t) PROVE LinksInv'
  BY <1>4, StallStep
<1>5. ASSUME NEW t \in Token, StallOut(t) PROVE LinksInv'
  BY <1>5, StallOutStep
<1>6. ASSUME NEW r \in Request, NEW t \in Token, Verify(r, t) PROVE LinksInv'
  BY <1>6, VerifyStep
<1>7. ASSUME NEW r \in Request, ClearToken(r) PROVE LinksInv'
  BY <1>7, ClearTokenStep
<1>8. ASSUME NEW r \in Request, IssueTokens(r) PROVE LinksInv'
  BY <1>8, IssueTokensStep
<1>9. ASSUME NEW r \in Request, FailVisit(r) PROVE LinksInv'
  BY <1>9, FailVisitStep
<1>10. ASSUME NEW t \in Token, Expire(t) PROVE LinksInv'
  BY <1>10, ExpireStep
<1>11. CASE PurgeExpired
  BY <1>11, PurgeExpiredStep
<1>12. CASE UNCHANGED linkVars
  BY <1>12, LinksStutter
<1> QED
  BY <1>1, <1>2, <1>3, <1>4, <1>5, <1>6, <1>7, <1>8, <1>9, <1>10, <1>11, <1>12
  DEF LinksNext

LEMMA LinksInvariance == LinksSpec => []LinksInv
<1> QED
  BY LinksInitially, LinksInductive, PTL DEF LinksSpec

\* The row, the queue and the requests for links stay what they are declared to be, and a
\* job has failed exactly when it has used up its attempts or stalled too often.
THEOREM LinksTypeCorrect == LinksSpec => []LinksTypeOK
<1>1. LinksInv => LinksTypeOK
  BY DEF LinksInv
<1> QED
  BY <1>1, LinksInvariance, PTL

\* A link opens one session, unless two verifications held it at the same time:
\* MagicLinkService.verify() clears the token before anybody is let in with it.
THEOREM LinkOpensOnce == LinksSpec => []OpensOnce
<1>1. LinksInv => OpensOnce
  BY DEF LinksInv
<1> QED
  BY <1>1, LinksInvariance, PTL

\* The newest link works until it is used or expires, unless a verification that had found
\* an older one clears the row.
THEOREM NewestLinkWorks == LinksSpec => []NewestWorks
<1>1. LinksInv => NewestWorks
  BY DEF LinksInv
<1> QED
  BY <1>1, LinksInvariance, PTL

\* A job that has used up its attempts is in the dead-letter report, or its worker died
\* when it was about to report; no other job is, and so none that the queue gave up with
\* attempts left: onFailed() compares attemptsMade with the number of attempts.
THEOREM ExhaustionIsReported == LinksSpec => []ExhaustionReported
<1>1. LinksInv => ExhaustionReported
  BY DEF LinksInv
<1> QED
  BY <1>1, LinksInvariance, PTL

-----------------------------------------------------------------------------
(* MagicLinks implements OneTimeSecrets. *)

LEMMA LinksInitRefined == LinksInit => Links!Init
BY NoVisitState DEF LinksInit, Links!Init, LinkOffer, LinkHeld, Admitted

\* What the abstract specification sees stays the same.
LEMMA LinksUnseen ==
    ASSUME UNCHANGED <<link, drawn, opened>>,
           \A r \in Request: Admitted(r)' = Admitted(r)
                             /\ (Admitted(r) => visit'[r].token = visit[r].token)
    PROVE  UNCHANGED Links!secretVars
<1>1. LinkHeld' = LinkHeld
  BY DEF LinkHeld
<1> QED
  BY <1>1 DEF Links!secretVars, LinkOffer, link

\* The row no longer says who may come in; whoever was admitted stays admitted.
LEMMA LinkWithdrawn ==
    ASSUME LinksInv, UNCHANGED <<drawn, opened>>,
           \A r \in Request: Admitted(r)' = Admitted(r)
                             /\ (Admitted(r) => visit'[r].token = visit[r].token),
           \A t \in drawn.all: ~(t = magicLinkTokenHash' /\ t \notin expired')
    PROVE  Links!Withdraw
<1>1. LinkHeld' = LinkHeld
  BY DEF LinkHeld
<1>2. LinkOffer' = [t \in Token |-> IF t \notin drawn.all THEN "new" ELSE "closed"]
  BY DEF LinkOffer
<1>3. LinkOffer' = Links!Withdrawn
  BY <1>2 DEF LinkOffer, Links!Withdrawn
<1> QED
  BY <1>1, <1>3 DEF Links!Withdraw

LEMMA SendRefined ==
    ASSUME LinksInv, NEW r \in Request, NEW t \in Token, Send(r, t)
    PROVE  Links!Offer(t)
<1>0. /\ LinksTypeOK /\ t \notin drawn.all /\ t \notin expired
      /\ UNCHANGED <<expired, opened>>
      /\ magicLinkTokenHash' = t /\ drawn'.all = drawn.all \cup {t}
      /\ visit[r].step = "idle"
  BY DEF LinksInv, TokensKnown, Send, linkHistory
<1>1. /\ visit'[r].step = "enqueue"
      /\ \A q \in Request: q # r => visit'[q] = visit[q]
  BY <1>0, BegunVisit DEF Send
<1>2. LinkHeld' = LinkHeld
  BY <1>0, <1>1 DEF LinkHeld, Admitted
<1>3. LinkOffer[t] = "new"
  BY <1>0 DEF LinkOffer
<1>4. LinkOffer' = [Links!Withdrawn EXCEPT ![t] = "open"]
  BY <1>0 DEF LinkOffer, Links!Withdrawn
<1> QED
  BY <1>0, <1>2, <1>3, <1>4 DEF Links!Offer

LEMMA VerifyRefined ==
    ASSUME LinksInv, NEW r \in Request, NEW t \in Token, Verify(r, t)
    PROVE  Links!Admit(r, t)
<1>0. /\ LinksTypeOK /\ t \in drawn.all /\ t = magicLinkTokenHash /\ t \notin expired
      /\ UNCHANGED <<link, drawn, opened>>
      /\ visit[r].step = "idle"
  BY NoTokenAssumption DEF LinksInv, TokensKnown, Verify
<1>1. /\ visit'[r].step = "clear" /\ visit'[r].token = t
      /\ \A q \in Request: q # r => visit'[q] = visit[q]
  BY <1>0, BegunVisit DEF Verify
<1>2. LinkHeld' = [LinkHeld EXCEPT ![r] = t] /\ LinkHeld[r] = NoToken
  BY <1>0, <1>1 DEF LinkHeld, Admitted
<1>3. LinkOffer[t] = "open" /\ LinkOffer' = LinkOffer
  BY <1>0 DEF LinkOffer, link
<1> QED
  BY <1>0, <1>2, <1>3 DEF Links!Admit

LEMMA ClearTokenRefined ==
    ASSUME LinksInv, NEW r \in Request, ClearToken(r)
    PROVE  Links!Withdraw
<1>0. /\ LinksTypeOK /\ magicLinkTokenHash' = NoToken /\ NoToken \notin drawn.all
      /\ UNCHANGED <<drawn, opened>>
      /\ visit[r].step = "clear"
  BY NoTokenAssumption DEF LinksInv, LinksTypeOK, ClearToken
<1>1. /\ visit'[r].step = "issue" /\ visit'[r].token = visit[r].token
      /\ \A q \in Request: q # r => visit'[q] = visit[q]
  BY <1>0, ProceededVisit DEF ClearToken
<1>2. \A q \in Request: Admitted(q)' = Admitted(q)
                        /\ (Admitted(q) => visit'[q].token = visit[q].token)
  BY <1>0, <1>1 DEF Admitted
<1> QED
  BY <1>0, <1>2, LinkWithdrawn

LEMMA IssueTokensRefined ==
    ASSUME LinksInv, NEW r \in Request, IssueTokens(r)
    PROVE  Links!LetIn(r)
<1> DEFINE t == visit[r].token
<1>0. /\ LinksTypeOK /\ visit[r].step = "issue"
      /\ UNCHANGED <<link, drawn>>
      /\ opened'.once = opened.once \cup {t}
      /\ t \in drawn.all /\ t \in Token /\ t # magicLinkTokenHash
  BY DEF LinksInv, LinksTypeOK, TokensKnown, ClearedGone, IssueTokens
<1>1. /\ visit'[r].step = "idle"
      /\ \A q \in Request: q # r => visit'[q] = visit[q]
  BY <1>0, EndedVisit DEF IssueTokens
<1>2. LinkHeld' = [LinkHeld EXCEPT ![r] = NoToken] /\ LinkHeld[r] = t
  BY <1>0, <1>1 DEF LinkHeld, Admitted
<1>3. LinkOffer' = LinkOffer /\ LinkOffer'[t] = "closed"
  BY <1>0 DEF LinkOffer, link
<1> QED
  BY <1>0, <1>2, <1>3, NoTokenAssumption DEF Links!LetIn

\* A visit that is over without a session: a refusal, if it had been admitted.
LEMMA EndVisitRefined ==
    ASSUME LinksInv, NEW r \in Request, EndVisit(r), UNCHANGED <<link, drawn, opened>>
    PROVE  Links!Refuse(r) \/ UNCHANGED Links!secretVars
<1>0. LinksTypeOK
  BY DEF LinksInv
<1>1. /\ visit'[r].step = "idle"
      /\ \A q \in Request: q # r => visit'[q] = visit[q]
  BY <1>0, EndedVisit
<1>2. CASE Admitted(r)
  <2>1. visit[r].token \in Token
    BY <1>0, <1>2 DEF LinksInv, LinksTypeOK, TokensKnown, Admitted
  <2>2. LinkHeld' = [LinkHeld EXCEPT ![r] = NoToken] /\ LinkHeld[r] = visit[r].token
    BY <1>1, <1>2 DEF LinkHeld, Admitted
  <2>3. LinkOffer' = LinkOffer
    BY DEF LinkOffer, link
  <2> QED
    BY <2>1, <2>2, <2>3, NoTokenAssumption DEF Links!Refuse
<1>3. CASE ~Admitted(r)
  BY <1>1, <1>3, LinksUnseen DEF Admitted
<1> QED
  BY <1>2, <1>3

LEMMA ExpireRefined ==
    ASSUME LinksInv, NEW t \in Token, Expire(t)
    PROVE  Links!Withdraw \/ UNCHANGED Links!secretVars
<1>0. /\ expired' = expired \cup {t}
      /\ UNCHANGED <<magicLinkTokenHash, drawn, opened, visit>>
  BY DEF Expire, linkHistory
<1>1. \A q \in Request: Admitted(q)' = Admitted(q) /\ visit'[q].token = visit[q].token
  BY <1>0 DEF Admitted
<1>2. CASE t = magicLinkTokenHash
  BY <1>0, <1>1, <1>2, LinkWithdrawn
<1>3. CASE t # magicLinkTokenHash
  <2>1. LinkOffer' = LinkOffer /\ LinkHeld' = LinkHeld
    BY <1>0, <1>1, <1>3 DEF LinkOffer, LinkHeld
  <2> QED
    BY <1>0, <2>1 DEF Links!secretVars
<1> QED
  BY <1>2, <1>3

LEMMA PurgeExpiredRefined ==
    ASSUME LinksInv, PurgeExpired
    PROVE  Links!Withdraw
<1>0. /\ magicLinkTokenHash' = NoToken /\ NoToken \notin drawn.all
      /\ UNCHANGED <<drawn, opened, visit>>
  BY NoTokenAssumption DEF LinksInv, LinksTypeOK, PurgeExpired, linkHistory
<1>1. \A q \in Request: Admitted(q)' = Admitted(q) /\ visit'[q].token = visit[q].token
  BY <1>0 DEF Admitted
<1> QED
  BY <1>0, <1>1, LinkWithdrawn

LEMMA LinksNextRefined ==
    ASSUME LinksInv, [LinksNext]_linkVars
    PROVE  [Links!Next]_(Links!secretVars)
<1> USE DEF Links!Next
<1>1. ASSUME NEW r \in Request, NEW t \in Token, Send(r, t) PROVE Links!Next
  BY <1>1, SendRefined
<1>2. ASSUME NEW r \in Request, Enqueue(r) \/ FailVisit(r)
      PROVE  Links!Next \/ UNCHANGED Links!secretVars
  BY <1>2, EndVisitRefined DEF Enqueue, FailVisit, linkHistory
<1>3. ASSUME NEW t \in Token, Work(t) \/ Stall(t) \/ StallOut(t)
      PROVE  UNCHANGED Links!secretVars
  <2>1. UNCHANGED <<link, drawn, opened, visit>>
    BY <1>3 DEF Work, Take, Complete, Reject, Stall, StallOut, linkHistory
  <2> QED
    BY <2>1, LinksUnseen DEF Admitted
<1>4. ASSUME NEW r \in Request, NEW t \in Token, Verify(r, t) PROVE Links!Next
  BY <1>4, VerifyRefined
<1>5. ASSUME NEW r \in Request, ClearToken(r) PROVE Links!Next
  BY <1>5, ClearTokenRefined
<1>6. ASSUME NEW r \in Request, IssueTokens(r) PROVE Links!Next
  BY <1>6, IssueTokensRefined
<1>7. ASSUME NEW t \in Token, Expire(t) PROVE Links!Next \/ UNCHANGED Links!secretVars
  BY <1>7, ExpireRefined
<1>8. CASE PurgeExpired
  BY <1>8, PurgeExpiredRefined
<1>9. CASE UNCHANGED linkVars
  BY <1>9, LinksUnseen DEF linkVars, linkHistory, link, Admitted
<1> QED
  BY <1>1, <1>2, <1>3, <1>4, <1>5, <1>6, <1>7, <1>8, <1>9 DEF LinksNext

\* Links are one-time secrets: MagicLinks implements OneTimeSecrets.
THEOREM LinksImplementOneTimeSecrets == LinksSpec => LinkIsOneTime
<1> QED
  BY LinksInitRefined, LinksInvariance, LinksNextRefined, PTL
  DEF LinksSpec, LinkIsOneTime, Links!Spec

\* The lookup by token hash in verify() finds no row for a link that has opened a session,
\* whatever mails, expiries and newer links come in between.
THEOREM UsedLinksRefused == LinksSpec => UsedLinkRefused
<1>1. ASSUME LinksInv, LinksInv', [Links!Next]_(Links!secretVars), NEW r \in Request,
             ~Admitted(r), Admitted(r)'
      PROVE  visit'[r].token \notin opened.once
  <2>1. /\ LinkHeld[r] = NoToken
        /\ LinkHeld'[r] = visit'[r].token
        /\ visit'[r].token \in Token
    BY <1>1, NoTokenAssumption
    DEF LinkHeld, Admitted, LinksInv, LinksTypeOK, TokensKnown, VisitState
  <2>2. PICK h \in Request, t \in Token: Links!Admit(h, t)
    BY <1>1, <2>1, NoTokenAssumption
    DEF Links!Next, Links!secretVars, Links!Offer, Links!Withdraw, Links!LetIn, Links!Refuse,
        LinkHeld
  <2>3. visit'[r].token = t /\ LinkOffer[t] = "open"
    BY <2>1, <2>2, NoTokenAssumption DEF Links!Admit, LinkHeld
  <2> QED
    BY <1>1, <2>3 DEF LinkOffer, LinksInv, ClearedGone
<1>2. LinksInv /\ LinksInv' /\ [LinksNext]_linkVars =>
        [\A r \in Request:
           ~Admitted(r) /\ Admitted(r)' => visit'[r].token \notin opened.once]_linkVars
  BY <1>1, LinksNextRefined
<1> QED
  BY <1>2, LinksInvariance, PTL DEF LinksSpec, UsedLinkRefused

(***************************************************************************)
(* Passkeys                                                                *)
(***************************************************************************)

\* What a ceremony has in hand at each of its steps.
CeremoniesOK ==
    \A r \in Request:
        /\ ceremony[r].step = "upsert" => ceremony[r].response \in Credential
        /\ Answering(r) => /\ ceremony[r].challenge \in challenges.login
                           /\ ceremony[r].response \in Credential
        /\ ceremony[r].step = "update" =>
             /\ ceremony[r].read.id # 0
             /\ ceremony[r].read.credentialId = ceremony[r].response
             /\ ceremony[r].newCounter >= ceremony[r].read.counter

\* A row has a credential; the cached challenges were drawn, each for its purpose.
RowsOK ==
    /\ stored.id # 0 => stored.credentialId \in Credential
    /\ cache.login \in challenges.login \cup {NoChallenge}

\* No assertion is ahead of the authenticator that signed it.
AssertionsReached ==
    /\ \A a \in assertion: a.newCounter <= device[a.credentialId].signatures
    /\ \A r \in Request: Answering(r) =>
         ceremony[r].newCounter <= device[ceremony[r].response].signatures

\* A challenge that has opened a session is not offered again, and requests that had it
\* in hand at the same time have been noted.
AnswersNoted ==
    /\ answered.once \subseteq challenges.login
    /\ cache.login \notin answered.once
    /\ \A r \in Request: Answering(r) =>
         /\ ceremony[r].challenge \in answered.once => ceremony[r].challenge \in shared
         /\ \A q \in Request: q # r /\ Answering(q) /\ ceremony[q].challenge = ceremony[r].challenge
                              => ceremony[r].challenge \in shared

PasskeysInv ==
    /\ PasskeysTypeOK
    /\ CeremoniesOK
    /\ RowsOK
    /\ AssertionsReached
    /\ AnswersNoted
    /\ AnsweredOnce
    /\ CounterReached

LEMMA NoRowStored == NoRow \in Stored /\ NoRow.id = 0 /\ NoRow.counter = 0
BY BoundsAssumption DEF NoRow, Stored, Counter

LEMMA NoCeremonyState ==
    /\ NoCeremony \in CeremonyState
    /\ NoCeremony.step = "idle"
    /\ NoCeremony.challenge = NoChallenge
BY NoRowStored, BoundsAssumption DEF NoCeremony, CeremonyState, Counter

LEMMA PasskeysInitially == PasskeysInit => PasskeysInv
<1> SUFFICES ASSUME PasskeysInit PROVE PasskeysInv
  OBVIOUS
<1>1. PasskeysTypeOK
  <2>1. 0 \in Counter /\ 0 \in 0 .. MaxRow
    BY BoundsAssumption DEF Counter
  <2>2. device \in [Credential -> [madeFor: Challenge \cup {NoChallenge}, signatures: Counter]]
    BY <2>1 DEF PasskeysInit
  <2>3. ceremony \in [Request -> CeremonyState]
    BY NoCeremonyState DEF PasskeysInit
  <2> QED
    BY <2>1, <2>2, <2>3, NoRowStored DEF PasskeysInit, PasskeysTypeOK
<1>2. CeremoniesOK /\ RowsOK /\ AssertionsReached /\ AnswersNoted
  BY NoCeremonyState, NoRowStored
  DEF PasskeysInit, CeremoniesOK, RowsOK, AssertionsReached, AnswersNoted, Answering
<1>3. AnsweredOnce /\ CounterReached
  BY NoRowStored DEF PasskeysInit, AnsweredOnce, CounterReached
<1> QED
  BY <1>1, <1>2, <1>3 DEF PasskeysInv

-----------------------------------------------------------------------------
(* How a ceremony moves on: the others are left alone. *)

LEMMA EndedCeremony ==
    ASSUME PasskeysTypeOK, NEW r \in Request, EndCeremony(r)
    PROVE  /\ ceremony' \in [Request -> CeremonyState]
           /\ ceremony'[r].step = "idle"
           /\ \A q \in Request: q # r => ceremony'[q] = ceremony[q]
BY NoCeremonyState DEF EndCeremony, PasskeysTypeOK

LEMMA ContinuedCeremony ==
    ASSUME PasskeysTypeOK, NEW r \in Request, NEW step \in {"forgetRegister", "forgetLogin"},
           Continue(r, step)
    PROVE  /\ ceremony' \in [Request -> CeremonyState]
           /\ ceremony'[r] = [ceremony[r] EXCEPT !.step = step]
           /\ ceremony'[r].step = step /\ ceremony'[r].challenge = ceremony[r].challenge
           /\ \A q \in Request: q # r => ceremony'[q] = ceremony[q]
BY DEF Continue, PasskeysTypeOK, CeremonyState

\* A ceremony that is over, or that has been refused, says nothing any more.
LEMMA IdleCeremony ==
    ASSUME PasskeysInv, NEW r \in Request, EndCeremony(r),
           UNCHANGED <<client, challenges, shared>>, answered' = answered
    PROVE  /\ CeremoniesOK'
           /\ AssertionsReached'
           /\ \A q \in Request: Answering(q)' => q # r /\ Answering(q) /\ ceremony'[q] = ceremony[q]
<1>0. PasskeysTypeOK
  BY DEF PasskeysInv
<1>1. /\ ceremony'[r].step = "idle"
      /\ \A q \in Request: q # r => ceremony'[q] = ceremony[q]
  BY <1>0, EndedCeremony
<1>2. CeremoniesOK'
  BY <1>1 DEF PasskeysInv, CeremoniesOK, Answering
<1>3. AssertionsReached'
  BY <1>1 DEF PasskeysInv, AssertionsReached, Answering, client
<1>4. \A q \in Request: Answering(q)' => q # r /\ Answering(q) /\ ceremony'[q] = ceremony[q]
  BY <1>1 DEF Answering
<1> QED
  BY <1>2, <1>3, <1>4

\* Every request goes on with what it had, or ends; no assertion, challenge or row is new.
LEMMA EndCeremonyStep ==
    ASSUME PasskeysInv, NEW r \in Request, EndCeremony(r),
           UNCHANGED <<stored, client, challenges, rows, passkeyHistory>>,
           cache' \in [register: Challenge \cup {NoChallenge}, login: Challenge \cup {NoChallenge}],
           cache'.login \in {cache.login, NoChallenge}
    PROVE  PasskeysInv'
<1>0. PasskeysTypeOK
  BY DEF PasskeysInv
<1>1. /\ CeremoniesOK'
      /\ AssertionsReached'
      /\ \A q \in Request: Answering(q)' => q # r /\ Answering(q) /\ ceremony'[q] = ceremony[q]
  BY IdleCeremony DEF passkeyHistory
<1>2. PasskeysTypeOK'
  BY <1>0, EndedCeremony DEF PasskeysTypeOK, client, passkeyHistory
<1>3. RowsOK'
  BY DEF PasskeysInv, RowsOK
<1>4. AnswersNoted'
  BY <1>0, <1>1, NoChallengeAssumption
  DEF PasskeysInv, PasskeysTypeOK, AnswersNoted, passkeyHistory
<1>5. AnsweredOnce' /\ CounterReached'
  BY DEF PasskeysInv, AnsweredOnce, CounterReached, client, passkeyHistory
<1> QED
  BY <1>1, <1>2, <1>3, <1>4, <1>5 DEF PasskeysInv

-----------------------------------------------------------------------------
(* One lemma per action of Passkeys *)

LEMMA AttestStep ==
    ASSUME PasskeysInv, NEW c \in Credential, NEW challenge \in Challenge, Attest(c, challenge)
    PROVE  PasskeysInv'
<1>0. /\ PasskeysTypeOK
      /\ UNCHANGED <<cache, stored, ceremony, assertion, challenges, rows, passkeyHistory>>
  BY DEF PasskeysInv, Attest
<1>1. /\ device' \in [Credential -> [madeFor: Challenge \cup {NoChallenge}, signatures: Counter]]
      /\ \A d \in Credential: device'[d].signatures = device[d].signatures
  BY <1>0 DEF PasskeysTypeOK, Attest
<1>2. PasskeysTypeOK'
  BY <1>0, <1>1 DEF PasskeysTypeOK, passkeyHistory
<1>3. CeremoniesOK' /\ RowsOK' /\ AnswersNoted' /\ AnsweredOnce'
  BY <1>0 DEF PasskeysInv, CeremoniesOK, RowsOK, AnswersNoted, AnsweredOnce, Answering,
              passkeyHistory
<1>4. AssertionsReached'
  BY <1>0, <1>1
  DEF PasskeysInv, PasskeysTypeOK, Assertion, CeremoniesOK, AssertionsReached, Answering
<1>5. CounterReached'
  BY <1>0, <1>1, NoRowStored
  DEF PasskeysInv, PasskeysTypeOK, RowsOK, CounterReached, passkeyHistory
<1> QED
  BY <1>2, <1>3, <1>4, <1>5 DEF PasskeysInv

LEMMA SignStep ==
    ASSUME PasskeysInv, NEW c \in Credential, NEW challenge \in Challenge, Sign(c, challenge)
    PROVE  PasskeysInv'
<1> DEFINE n == device[c].signatures + IF c \in Counting THEN 1 ELSE 0
           a == [credentialId |-> c, challenge |-> challenge, newCounter |-> n]
<1>0. /\ PasskeysTypeOK
      /\ UNCHANGED <<cache, stored, ceremony, challenges, rows, passkeyHistory>>
      /\ assertion' = assertion \cup {a}
      /\ device' = [device EXCEPT ![c].signatures = n]
      /\ c \in Counting => device[c].signatures < MaxCounter
  BY DEF PasskeysInv, Sign
<1>1. n \in Counter /\ device[c].signatures <= n
  BY <1>0, BoundsAssumption DEF PasskeysTypeOK, Counter
<1> HIDE DEF n
<1>2. /\ device' \in [Credential -> [madeFor: Challenge \cup {NoChallenge}, signatures: Counter]]
      /\ device'[c].signatures = n
      /\ \A d \in Credential: d # c => device'[d] = device[d]
  BY <1>0, <1>1 DEF PasskeysTypeOK
<1>3. \A d \in Credential: /\ device[d].signatures \in Counter
                           /\ device'[d].signatures \in Counter
                           /\ device[d].signatures <= device'[d].signatures
  BY <1>0, <1>1, <1>2, BoundsAssumption DEF PasskeysTypeOK, Counter
<1>4. a \in Assertion /\ a.credentialId = c /\ a.newCounter = n
  BY <1>1 DEF Assertion
<1> HIDE DEF a
<1>5. PasskeysTypeOK'
  BY <1>0, <1>2, <1>4 DEF PasskeysTypeOK, passkeyHistory
<1>6. CeremoniesOK' /\ RowsOK' /\ AnswersNoted' /\ AnsweredOnce'
  BY <1>0 DEF PasskeysInv, CeremoniesOK, RowsOK, AnswersNoted, AnsweredOnce, Answering,
              passkeyHistory
<1>7. AssertionsReached'
  <2>1. \A b \in assertion: /\ b.newCounter \in Counter /\ b.credentialId \in Credential
                            /\ b.newCounter <= device[b.credentialId].signatures
    BY <1>0 DEF PasskeysInv, PasskeysTypeOK, Assertion, AssertionsReached
  <2>2. \A b \in assertion': b.newCounter <= device'[b.credentialId].signatures
    BY <1>0, <1>1, <1>2, <1>3, <1>4, <2>1 DEF Counter
  <2>3. \A r \in Request: Answering(r) =>
          /\ ceremony[r].newCounter \in Counter /\ ceremony[r].response \in Credential
          /\ ceremony[r].newCounter <= device[ceremony[r].response].signatures
    BY <1>0 DEF PasskeysInv, PasskeysTypeOK, CeremonyState, CeremoniesOK, AssertionsReached
  <2>4. \A r \in Request: Answering(r) =>
          ceremony[r].newCounter <= device'[ceremony[r].response].signatures
    BY <1>3, <2>3 DEF Counter
  <2> QED
    BY <1>0, <2>2, <2>4 DEF AssertionsReached, Answering
<1>8. CounterReached'
  <2>1. CASE stored = NoRow
    BY <1>0, <2>1, NoRowStored DEF CounterReached
  <2>2. CASE stored # NoRow
    BY <1>0, <1>3, <2>2
    DEF PasskeysInv, PasskeysTypeOK, Stored, RowsOK, CounterReached, Counter, passkeyHistory
  <2> QED
    BY <2>1, <2>2
<1> QED
  BY <1>5, <1>6, <1>7, <1>8 DEF PasskeysInv

\* A challenge that nobody has drawn before; as to logins, it is the cached one from now on.
LEMMA OptionsStep ==
    ASSUME PasskeysInv,
           cache' \in [register: Challenge \cup {NoChallenge}, login: Challenge \cup {NoChallenge}],
           challenges' \in [register: SUBSET Challenge, login: SUBSET Challenge],
           challenges.login \subseteq challenges'.login,
           cache'.login \in {cache.login} \cup (challenges'.login \ challenges.login),
           UNCHANGED <<stored, ceremony, client, rows, passkeyHistory>>
    PROVE  PasskeysInv'
<1>1. PasskeysTypeOK'
  BY DEF PasskeysInv, PasskeysTypeOK, client, passkeyHistory
<1>2. CeremoniesOK' /\ RowsOK' /\ AssertionsReached'
  BY DEF PasskeysInv, CeremoniesOK, RowsOK, AssertionsReached, Answering, client
<1>3. AnswersNoted'
  BY DEF PasskeysInv, AnswersNoted, Answering, passkeyHistory
<1>4. AnsweredOnce' /\ CounterReached'
  BY DEF PasskeysInv, AnsweredOnce, CounterReached, client, passkeyHistory
<1> QED
  BY <1>1, <1>2, <1>3, <1>4 DEF PasskeysInv

LEMMA RegisterOptionsStep ==
    ASSUME PasskeysInv, NEW challenge \in Challenge, RegisterOptions(challenge)
    PROVE  PasskeysInv'
BY OptionsStep DEF PasskeysInv, PasskeysTypeOK, RegisterOptions

LEMMA LoginOptionsStep ==
    ASSUME PasskeysInv, NEW challenge \in Challenge, LoginOptions(challenge)
    PROVE  PasskeysInv'
BY OptionsStep DEF PasskeysInv, PasskeysTypeOK, LoginOptions

LEMMA RegisterVerifyStep ==
    ASSUME PasskeysInv, NEW r \in Request, NEW c \in Credential, RegisterVerify(r, c)
    PROVE  PasskeysInv'
<1> DEFINE new == [NoCeremony EXCEPT !.step = "upsert", !.response = c,
                                     !.challenge = cache.register]
<1>0. /\ PasskeysTypeOK
      /\ UNCHANGED <<cache, stored, client, challenges, rows, passkeyHistory>>
      /\ ceremony' = [ceremony EXCEPT ![r] = new]
  BY DEF PasskeysInv, RegisterVerify
<1>1. new \in CeremonyState /\ new.step = "upsert" /\ new.response = c
  BY <1>0, NoCeremonyState DEF PasskeysTypeOK, CeremonyState
<1> HIDE DEF new
<1>2. /\ ceremony' \in [Request -> CeremonyState]
      /\ ceremony'[r] = new
      /\ \A q \in Request: q # r => ceremony'[q] = ceremony[q]
  BY <1>0, <1>1 DEF PasskeysTypeOK
<1>3. PasskeysTypeOK'
  BY <1>0, <1>2 DEF PasskeysTypeOK, client, passkeyHistory
<1>4. CeremoniesOK' /\ RowsOK' /\ AssertionsReached' /\ AnswersNoted'
  BY <1>0, <1>1, <1>2
  DEF PasskeysInv, CeremoniesOK, RowsOK, AssertionsReached, AnswersNoted, Answering, client,
      passkeyHistory
<1>5. AnsweredOnce' /\ CounterReached'
  BY <1>0 DEF PasskeysInv, AnsweredOnce, CounterReached, client, passkeyHistory
<1> QED
  BY <1>3, <1>4, <1>5 DEF PasskeysInv

LEMMA UpsertStep ==
    ASSUME PasskeysInv, NEW r \in Request, Upsert(r)
    PROVE  PasskeysInv'
<1>0. /\ PasskeysTypeOK /\ ceremony[r] \in CeremonyState
      /\ ceremony[r].step = "upsert" /\ ceremony[r].response \in Credential
      /\ Continue(r, "forgetRegister")
      /\ UNCHANGED <<cache, client, challenges, passkeyHistory>>
  BY DEF PasskeysInv, PasskeysTypeOK, CeremoniesOK, Upsert
<1>1. /\ ceremony' \in [Request -> CeremonyState]
      /\ ceremony'[r].step = "forgetRegister"
      /\ \A q \in Request: q # r => ceremony'[q] = ceremony[q]
  BY <1>0, ContinuedCeremony DEF CeremonyState
<1>2. /\ stored' \in Stored /\ rows' \in 0 .. MaxRow
      /\ stored'.id # 0 /\ stored'.counter = 0 /\ stored'.credentialId = ceremony[r].response
  <2>1. 0 \in Counter
    BY BoundsAssumption DEF Counter
  <2>2. CASE stored = NoRow
    <3>1. /\ rows < MaxRow /\ rows' = rows + 1
          /\ stored' = [id |-> rows + 1, credentialId |-> ceremony[r].response, counter |-> 0]
      BY <2>2 DEF Upsert
    <3>2. rows + 1 \in 1 .. MaxRow
      BY <1>0, <3>1, BoundsAssumption DEF PasskeysTypeOK
    <3> QED
      BY <1>0, <2>1, <3>1, <3>2, BoundsAssumption DEF Stored
  <2>3. CASE stored # NoRow
    <3>1. /\ rows' = rows
          /\ stored' = [stored EXCEPT !.credentialId = ceremony[r].response, !.counter = 0]
      BY <2>3 DEF Upsert
    <3> QED
      BY <1>0, <2>1, <2>3, <3>1 DEF PasskeysTypeOK, Stored
  <2> QED
    BY <2>2, <2>3
<1>3. stored' # NoRow
  BY <1>2, NoRowStored
<1>4. PasskeysTypeOK'
  BY <1>0, <1>1, <1>2, <1>3 DEF PasskeysTypeOK, client, passkeyHistory
<1>5. CeremoniesOK' /\ RowsOK' /\ AssertionsReached' /\ AnswersNoted'
  BY <1>0, <1>1, <1>2
  DEF PasskeysInv, CeremoniesOK, RowsOK, AssertionsReached, AnswersNoted, Answering, client,
      passkeyHistory
<1>6. AnsweredOnce'
  BY <1>0 DEF PasskeysInv, AnsweredOnce, passkeyHistory
<1>7. CounterReached'
  BY <1>0, <1>2, <1>3, <1>4 DEF CounterReached, PasskeysTypeOK, Counter
<1> QED
  BY <1>4, <1>5, <1>6, <1>7 DEF PasskeysInv

LEMMA ForgetRegisterStep ==
    ASSUME PasskeysInv, NEW r \in Request, ForgetRegister(r)
    PROVE  PasskeysInv'
BY EndCeremonyStep DEF PasskeysInv, PasskeysTypeOK, ForgetRegister

LEMMA LoginVerifyStep ==
    ASSUME PasskeysInv, NEW r \in Request, NEW a \in assertion, LoginVerify(r, a)
    PROVE  PasskeysInv'
<1> DEFINE new == [step |-> "findUser", challenge |-> cache.login, response |-> a.credentialId,
                   newCounter |-> a.newCounter, read |-> NoRow]
<1>0. /\ PasskeysTypeOK
      /\ UNCHANGED <<cache, stored, client, challenges, rows, answered, misplaced>>
      /\ cache.login \in challenges.login /\ cache.login \notin answered.once
      /\ ceremony' = [ceremony EXCEPT ![r] = new]
      /\ a \in Assertion
  BY DEF PasskeysInv, RowsOK, AnswersNoted, PasskeysTypeOK, LoginVerify
<1>1. /\ new \in CeremonyState /\ new.step = "findUser" /\ new.challenge = cache.login
      /\ new.response = a.credentialId /\ new.newCounter = a.newCounter
  BY <1>0, NoRowStored DEF PasskeysTypeOK, CeremonyState, Assertion
<1> HIDE DEF new
<1>2. /\ ceremony' \in [Request -> CeremonyState]
      /\ ceremony'[r] = new
      /\ \A q \in Request: q # r => ceremony'[q] = ceremony[q]
  BY <1>0, <1>1 DEF PasskeysTypeOK
<1>3. /\ shared \subseteq shared' /\ shared' \subseteq shared \cup {cache.login}
      /\ \A q \in Request: ceremony[q].challenge = cache.login => cache.login \in shared'
  BY DEF LoginVerify
<1>4. PasskeysTypeOK'
  BY <1>0, <1>2, <1>3 DEF PasskeysTypeOK, client
<1>5. CeremoniesOK' /\ RowsOK' /\ AssertionsReached'
  BY <1>0, <1>1, <1>2
  DEF PasskeysInv, Assertion, CeremoniesOK, RowsOK, AssertionsReached, Answering, client
<1>6. AnswersNoted'
  BY <1>0, <1>1, <1>2, <1>3 DEF PasskeysInv, AnswersNoted, Answering
<1>7. AnsweredOnce' /\ CounterReached'
  BY <1>0, <1>3 DEF PasskeysInv, AnsweredOnce, CounterReached, client
<1> QED
  BY <1>4, <1>5, <1>6, <1>7 DEF PasskeysInv

LEMMA FindUserStep ==
    ASSUME PasskeysInv, NEW r \in Request, FindUser(r)
    PROVE  PasskeysInv'
<1>0. /\ PasskeysTypeOK /\ ceremony[r] \in CeremonyState /\ ceremony[r].step = "findUser"
      /\ UNCHANGED <<cache, stored, client, challenges, rows, passkeyHistory>>
  BY DEF PasskeysInv, PasskeysTypeOK, FindUser
<1>1. /\ ceremony' \in [Request -> CeremonyState]
      /\ ceremony'[r].step = "update" /\ ceremony'[r].read = stored
      /\ ceremony'[r].challenge = ceremony[r].challenge
      /\ ceremony'[r].response = ceremony[r].response
      /\ ceremony'[r].newCounter = ceremony[r].newCounter
      /\ \A q \in Request: q # r => ceremony'[q] = ceremony[q]
  BY <1>0 DEF PasskeysTypeOK, CeremonyState, FindUser
<1>2. /\ stored.id # 0 /\ stored.credentialId = ceremony[r].response
      /\ ceremony[r].newCounter >= stored.counter
  BY <1>0 DEF PasskeysTypeOK, CeremonyState, Stored, Counter, FindUser, Verified
<1>3. PasskeysTypeOK'
  BY <1>0, <1>1 DEF PasskeysTypeOK, client, passkeyHistory
<1>4. CeremoniesOK' /\ RowsOK' /\ AssertionsReached'
  BY <1>0, <1>1, <1>2 DEF PasskeysInv, CeremoniesOK, RowsOK, AssertionsReached, Answering, client
<1>5. AnswersNoted'
  BY <1>0, <1>1 DEF PasskeysInv, AnswersNoted, Answering, passkeyHistory
<1>6. AnsweredOnce' /\ CounterReached'
  BY <1>0 DEF PasskeysInv, AnsweredOnce, CounterReached, client, passkeyHistory
<1> QED
  BY <1>3, <1>4, <1>5, <1>6 DEF PasskeysInv

LEMMA UpdateCounterStep ==
    ASSUME PasskeysInv, NEW r \in Request, UpdateCounter(r)
    PROVE  PasskeysInv'
<1>0. /\ PasskeysTypeOK /\ ceremony[r] \in CeremonyState /\ ceremony[r].step = "update"
      /\ UNCHANGED <<cache, client, challenges, rows, answered, shared>>
      /\ stored.id = ceremony[r].read.id /\ stored.id # 0
      /\ misplaced' = (misplaced \/ stored # ceremony[r].read)
  BY DEF PasskeysInv, PasskeysTypeOK, CeremoniesOK, UpdateCounter
<1>1. /\ ceremony' \in [Request -> CeremonyState]
      /\ ceremony'[r].step = "forgetLogin"
      /\ ceremony'[r].challenge = ceremony[r].challenge
      /\ ceremony'[r].response = ceremony[r].response
      /\ ceremony'[r].newCounter = ceremony[r].newCounter
      /\ \A q \in Request: q # r => ceremony'[q] = ceremony[q]
  BY <1>0, ContinuedCeremony DEF CeremonyState, UpdateCounter
<1>2. /\ stored' \in Stored /\ stored'.id = stored.id
      /\ stored'.credentialId = stored.credentialId
      /\ stored'.counter = ceremony[r].newCounter
  BY <1>0 DEF PasskeysTypeOK, Stored, CeremonyState, UpdateCounter
<1>3. stored' # NoRow
  BY <1>0, <1>2, NoRowStored
<1>4. PasskeysTypeOK'
  BY <1>0, <1>1, <1>2, <1>3 DEF PasskeysTypeOK, client
<1>5. CeremoniesOK' /\ RowsOK' /\ AssertionsReached' /\ AnswersNoted'
  BY <1>0, <1>1, <1>2
  DEF PasskeysInv, CeremoniesOK, RowsOK, AssertionsReached, AnswersNoted, Answering, client
<1>6. AnsweredOnce'
  BY <1>0 DEF PasskeysInv, AnsweredOnce
<1>7. CounterReached'
  <2> SUFFICES ASSUME ~misplaced'
               PROVE  stored'.counter <= device'[stored'.credentialId].signatures
    BY <1>3 DEF CounterReached
  <2>1. stored.credentialId = ceremony[r].response
    BY <1>0 DEF PasskeysInv, CeremoniesOK
  <2> QED
    BY <1>0, <1>2, <2>1 DEF PasskeysInv, AssertionsReached, Answering, client
<1> QED
  BY <1>4, <1>5, <1>6, <1>7 DEF PasskeysInv

LEMMA ForgetLoginStep ==
    ASSUME PasskeysInv, NEW r \in Request, ForgetLogin(r)
    PROVE  PasskeysInv'
<1> DEFINE c == ceremony[r].challenge
<1>0. /\ PasskeysTypeOK /\ ceremony[r].step = "forgetLogin" /\ Answering(r)
      /\ UNCHANGED <<stored, client, challenges, rows, shared, misplaced>>
      /\ cache' = [cache EXCEPT !.login = NoChallenge]
      /\ answered'.once = answered.once \cup {c}
      /\ answered'.twice = answered.twice \cup ({c} \cap answered.once)
  BY DEF PasskeysInv, ForgetLogin, Opening, Answering
<1>1. /\ ceremony' \in [Request -> CeremonyState]
      /\ ceremony'[r].step = "idle"
      /\ \A q \in Request: q # r => ceremony'[q] = ceremony[q]
  BY <1>0, EndedCeremony DEF ForgetLogin
<1>2. c \in challenges.login /\ c \in Challenge /\ c \in answered.once => c \in shared
  BY <1>0 DEF PasskeysInv, PasskeysTypeOK, CeremoniesOK, AnswersNoted
<1>3. cache'.login = NoChallenge /\ NoChallenge \notin answered'.once
  BY <1>0, <1>2, NoChallengeAssumption DEF PasskeysInv, PasskeysTypeOK, CeremoniesOK
<1>4. PasskeysTypeOK'
  <2>1. c \in Challenge
    BY <1>0 DEF PasskeysInv, PasskeysTypeOK, CeremoniesOK
  <2> QED
    BY <1>0, <1>1, <2>1 DEF PasskeysTypeOK, client, ForgetLogin, Opening
<1>5. CeremoniesOK' /\ RowsOK' /\ AssertionsReached'
  BY <1>0, <1>1, <1>3
  DEF PasskeysInv, CeremoniesOK, RowsOK, AssertionsReached, Answering, client
<1>6. AnswersNoted'
  <2>1. answered'.once \subseteq challenges.login
    BY <1>0 DEF PasskeysInv, CeremoniesOK, AnswersNoted
  <2> QED
    BY <1>0, <1>1, <1>3, <2>1 DEF PasskeysInv, AnswersNoted, Answering
<1>7. AnsweredOnce' /\ CounterReached'
  BY <1>0, <1>2 DEF PasskeysInv, AnswersNoted, AnsweredOnce, CounterReached, client
<1> QED
  BY <1>4, <1>5, <1>6, <1>7 DEF PasskeysInv

LEMMA FailCeremonyStep ==
    ASSUME PasskeysInv, NEW r \in Request, FailCeremony(r)
    PROVE  PasskeysInv'
BY EndCeremonyStep DEF PasskeysInv, PasskeysTypeOK, FailCeremony

LEMMA DeleteCredentialStep ==
    ASSUME PasskeysInv, DeleteCredential
    PROVE  PasskeysInv'
<1>0. /\ UNCHANGED <<cache, ceremony, client, challenges, rows, passkeyHistory>>
      /\ stored' = NoRow
  BY DEF DeleteCredential
<1>1. PasskeysTypeOK'
  BY <1>0, NoRowStored DEF PasskeysInv, PasskeysTypeOK, client, passkeyHistory
<1>2. CeremoniesOK' /\ RowsOK' /\ AssertionsReached' /\ AnswersNoted'
  BY <1>0, NoRowStored
  DEF PasskeysInv, CeremoniesOK, RowsOK, AssertionsReached, AnswersNoted, Answering, client,
      passkeyHistory
<1>3. AnsweredOnce' /\ CounterReached'
  BY <1>0, NoRowStored DEF PasskeysInv, AnsweredOnce, CounterReached, passkeyHistory
<1> QED
  BY <1>1, <1>2, <1>3 DEF PasskeysInv

LEMMA ExpireChallengeStep ==
    ASSUME PasskeysInv, NEW purpose \in DOMAIN cache, ExpireChallenge(purpose)
    PROVE  PasskeysInv'
<1>0. /\ PasskeysTypeOK
      /\ UNCHANGED <<stored, ceremony, client, challenges, rows, passkeyHistory>>
  BY DEF PasskeysInv, ExpireChallenge
<1>1. /\ cache' \in [register: Challenge \cup {NoChallenge}, login: Challenge \cup {NoChallenge}]
      /\ cache'.login \in {cache.login, NoChallenge}
  BY <1>0 DEF PasskeysTypeOK, ExpireChallenge
<1>2. PasskeysTypeOK'
  BY <1>0, <1>1 DEF PasskeysTypeOK, client, passkeyHistory
<1>3. CeremoniesOK' /\ RowsOK' /\ AssertionsReached'
  BY <1>0, <1>1 DEF PasskeysInv, CeremoniesOK, RowsOK, AssertionsReached, Answering, client
<1>4. AnswersNoted'
  BY <1>0, <1>1, NoChallengeAssumption
  DEF PasskeysInv, PasskeysTypeOK, AnswersNoted, Answering, passkeyHistory
<1>5. AnsweredOnce' /\ CounterReached'
  BY <1>0 DEF PasskeysInv, AnsweredOnce, CounterReached, client, passkeyHistory
<1> QED
  BY <1>2, <1>3, <1>4, <1>5 DEF PasskeysInv

LEMMA PasskeysStutter ==
    ASSUME PasskeysInv, UNCHANGED passkeyVars
    PROVE  PasskeysInv'
BY DEF PasskeysInv, passkeyVars, PasskeysTypeOK, CeremoniesOK, RowsOK, AssertionsReached,
       AnswersNoted, AnsweredOnce, CounterReached, Answering

LEMMA PasskeysInductive == PasskeysInv /\ [PasskeysNext]_passkeyVars => PasskeysInv'
<1> SUFFICES ASSUME PasskeysInv, [PasskeysNext]_passkeyVars PROVE PasskeysInv'
  OBVIOUS
<1>1. ASSUME NEW c \in Credential, NEW challenge \in Challenge, Attest(c, challenge)
      PROVE  PasskeysInv'
  BY <1>1, AttestStep
<1>2. ASSUME NEW c \in Credential, NEW challenge \in Challenge, Sign(c, challenge)
      PROVE  PasskeysInv'
  BY <1>2, SignStep
<1>3. ASSUME NEW challenge \in Challenge, RegisterOptions(challenge) PROVE PasskeysInv'
  BY <1>3, RegisterOptionsStep
<1>4. ASSUME NEW challenge \in Challenge, LoginOptions(challenge) PROVE PasskeysInv'
  BY <1>4, LoginOptionsStep
<1>5. CASE DeleteCredential
  BY <1>5, DeleteCredentialStep
<1>6. ASSUME NEW purpose \in DOMAIN cache, ExpireChallenge(purpose) PROVE PasskeysInv'
  BY <1>6, ExpireChallengeStep
<1>7. ASSUME NEW r \in Request, NEW c \in Credential, RegisterVerify(r, c) PROVE PasskeysInv'
  BY <1>7, RegisterVerifyStep
<1>8. ASSUME NEW r \in Request, Upsert(r) PROVE PasskeysInv'
  BY <1>8, UpsertStep
<1>9. ASSUME NEW r \in Request, ForgetRegister(r) PROVE PasskeysInv'
  BY <1>9, ForgetRegisterStep
<1>10. ASSUME NEW r \in Request, NEW a \in assertion, LoginVerify(r, a) PROVE PasskeysInv'
  BY <1>10, LoginVerifyStep
<1>11. ASSUME NEW r \in Request, FindUser(r) PROVE PasskeysInv'
  BY <1>11, FindUserStep
<1>12. ASSUME NEW r \in Request, UpdateCounter(r) PROVE PasskeysInv'
  BY <1>12, UpdateCounterStep
<1>13. ASSUME NEW r \in Request, ForgetLogin(r) PROVE PasskeysInv'
  BY <1>13, ForgetLoginStep
<1>14. ASSUME NEW r \in Request, FailCeremony(r) PROVE PasskeysInv'
  BY <1>14, FailCeremonyStep
<1>15. CASE UNCHANGED passkeyVars
  BY <1>15, PasskeysStutter
<1> QED
  BY <1>1, <1>2, <1>3, <1>4, <1>5, <1>6, <1>7, <1>8, <1>9, <1>10, <1>11, <1>12, <1>13, <1>14,
     <1>15 DEF PasskeysNext

LEMMA PasskeysInvariance == PasskeysSpec => []PasskeysInv
<1> QED
  BY PasskeysInitially, PasskeysInductive, PTL DEF PasskeysSpec

\* The cache, the credential row and the ceremonies stay what they are declared to be.
THEOREM PasskeysTypeCorrect == PasskeysSpec => []PasskeysTypeOK
<1>1. PasskeysInv => PasskeysTypeOK
  BY DEF PasskeysInv
<1> QED
  BY <1>1, PasskeysInvariance, PTL

\* A login challenge opens one session, unless two handlers held it at the same time.
THEOREM ChallengeAnsweredOnce == PasskeysSpec => []AnsweredOnce
<1>1. PasskeysInv => AnsweredOnce
  BY DEF PasskeysInv
<1> QED
  BY <1>1, PasskeysInvariance, PTL

\* The stored counter is one that the stored credential has reached, unless loginVerify()
\* has written it to a row that had changed since it was read.
THEOREM StoredCounterReached == PasskeysSpec => []CounterReached
<1>1. PasskeysInv => CounterReached
  BY DEF PasskeysInv
<1> QED
  BY <1>1, PasskeysInvariance, PTL

\* A step that registers nothing and writes to no changed row does not turn the stored
\* counter of a credential back.
LEMMA CounterKept ==
    ASSUME PasskeysInv, PasskeysNext,
           ~misplaced', stored'.id = stored.id, stored'.credentialId = stored.credentialId,
           \A r \in Request: ~Registering(r)
    PROVE  stored'.counter >= stored.counter
<1>0. PasskeysTypeOK /\ stored.counter \in Nat
  BY BoundsAssumption DEF PasskeysInv, PasskeysTypeOK, Stored, Counter
<1>1. CASE stored' = stored
  BY <1>0, <1>1
<1>2. ASSUME NEW r \in Request, Upsert(r) PROVE FALSE
  <2>1. ceremony[r].step = "upsert" /\ Continue(r, "forgetRegister")
    BY <1>2 DEF Upsert
  <2>2. ceremony'[r].step = "forgetRegister"
    BY <1>0, <2>1, ContinuedCeremony
  <2> QED
    BY <2>1, <2>2 DEF Registering
<1>3. CASE DeleteCredential
  BY <1>0, <1>3, NoRowStored DEF DeleteCredential, PasskeysTypeOK
<1>4. ASSUME NEW r \in Request, UpdateCounter(r) PROVE stored'.counter >= stored.counter
  <2>1. stored = ceremony[r].read
    BY <1>4 DEF UpdateCounter
  <2>2. stored'.counter = ceremony[r].newCounter
    BY <1>0, <1>4 DEF UpdateCounter, PasskeysTypeOK, Stored
  <2> QED
    BY <1>4, <2>1, <2>2 DEF UpdateCounter, PasskeysInv, CeremoniesOK
<1> QED
  BY <1>1, <1>2, <1>3, <1>4
  DEF PasskeysNext, Attest, Sign, RegisterOptions, LoginOptions, ExpireChallenge,
      RegisterVerify, ForgetRegister, LoginVerify, FindUser, ForgetLogin, FailCeremony

\* The counter of a stored credential only falls when that credential is registered again,
\* as long as no counter is written to a row that had changed: an old assertion is refused.
THEOREM CountersNeverFall == PasskeysSpec => CounterNeverFalls
<1>1. PasskeysInv /\ [PasskeysNext]_passkeyVars
        => [/\ ~misplaced'
            /\ stored'.id = stored.id
            /\ stored'.credentialId = stored.credentialId
            /\ \A r \in Request: ~Registering(r)
            => stored'.counter >= stored.counter]_passkeyVars
  BY CounterKept
<1> QED
  BY <1>1, PasskeysInvariance, PTL DEF PasskeysSpec, CounterNeverFalls

-----------------------------------------------------------------------------
(* Passkeys implements OneTimeSecrets, with its login challenges. *)

LEMMA PasskeysInitRefined == PasskeysInit => Challenges!Init
BY NoCeremonyState
DEF PasskeysInit, Challenges!Init, ChallengeOffer, ChallengeHeld, Answering

\* Who answers which challenge.
SameAnswers ==
    \A r \in Request: Answering(r)' = Answering(r)
                      /\ (Answering(r) => ceremony'[r].challenge = ceremony[r].challenge)

LEMMA ChallengesUnseen ==
    ASSUME SameAnswers, cache'.login = cache.login, challenges'.login = challenges.login,
           answered' = answered
    PROVE  UNCHANGED Challenges!secretVars
<1>1. ChallengeHeld' = ChallengeHeld
  BY DEF ChallengeHeld, SameAnswers
<1>2. ChallengeOffer' = ChallengeOffer
  BY DEF ChallengeOffer
<1> QED
  BY <1>1, <1>2 DEF Challenges!secretVars

LEMMA LoginOptionsRefined ==
    ASSUME PasskeysInv, NEW challenge \in Challenge, LoginOptions(challenge)
    PROVE  Challenges!Offer(challenge)
<1>0. /\ challenge \notin challenges.login
      /\ challenges'.login = challenges.login \cup {challenge}
      /\ cache'.login = challenge
      /\ UNCHANGED <<ceremony, answered>>
  BY DEF PasskeysInv, PasskeysTypeOK, LoginOptions, passkeyHistory
<1>1. ChallengeHeld' = ChallengeHeld
  BY <1>0 DEF ChallengeHeld, Answering
<1>2. ChallengeOffer[challenge] = "new"
  BY <1>0 DEF ChallengeOffer
<1>3. ChallengeOffer' = [Challenges!Withdrawn EXCEPT ![challenge] = "open"]
  BY <1>0 DEF ChallengeOffer, Challenges!Withdrawn
<1> QED
  BY <1>0, <1>1, <1>2, <1>3 DEF Challenges!Offer

LEMMA LoginVerifyRefined ==
    ASSUME PasskeysInv, NEW r \in Request, NEW a \in assertion, LoginVerify(r, a)
    PROVE  \E c \in Challenge: Challenges!Admit(r, c)
<1> DEFINE c == cache.login
<1>0. /\ PasskeysTypeOK /\ c \in challenges.login /\ c \in Challenge
      /\ UNCHANGED <<cache, challenges, answered>>
      /\ ceremony[r].step = "idle"
  BY DEF PasskeysInv, PasskeysTypeOK, RowsOK, LoginVerify
<1>1. /\ ceremony'[r].step = "findUser" /\ ceremony'[r].challenge = c
      /\ \A q \in Request: q # r => ceremony'[q] = ceremony[q]
  BY <1>0 DEF LoginVerify, PasskeysTypeOK
<1>2. ChallengeHeld' = [ChallengeHeld EXCEPT ![r] = c] /\ ChallengeHeld[r] = NoChallenge
  BY <1>0, <1>1 DEF ChallengeHeld, Answering
<1>3. ChallengeOffer[c] = "open" /\ ChallengeOffer' = ChallengeOffer
  BY <1>0 DEF ChallengeOffer
<1> QED
  BY <1>0, <1>2, <1>3 DEF Challenges!Admit

LEMMA ForgetLoginRefined ==
    ASSUME PasskeysInv, NEW r \in Request, ForgetLogin(r)
    PROVE  Challenges!LetIn(r)
<1> DEFINE c == ceremony[r].challenge
<1>0. /\ PasskeysTypeOK /\ ceremony[r].step = "forgetLogin" /\ Answering(r)
      /\ c \in challenges.login /\ c \in Challenge
      /\ cache'.login = NoChallenge /\ NoChallenge \notin Challenge
      /\ UNCHANGED challenges
      /\ answered'.once = answered.once \cup {c}
  BY NoChallengeAssumption
  DEF PasskeysInv, PasskeysTypeOK, CeremoniesOK, ForgetLogin, Opening, Answering
<1>1. /\ ceremony'[r].step = "idle"
      /\ \A q \in Request: q # r => ceremony'[q] = ceremony[q]
  BY <1>0, EndedCeremony DEF ForgetLogin
<1>2. ChallengeHeld' = [ChallengeHeld EXCEPT ![r] = NoChallenge] /\ ChallengeHeld[r] = c
  BY <1>0, <1>1 DEF ChallengeHeld, Answering
<1>3. ChallengeOffer' = [d \in Challenge |-> IF d \notin challenges.login THEN "new" ELSE "closed"]
  BY <1>0 DEF ChallengeOffer
<1>4. ChallengeOffer' = Challenges!Withdrawn /\ ChallengeOffer'[c] = "closed"
  BY <1>0, <1>3 DEF ChallengeOffer, Challenges!Withdrawn
<1>5. c # NoChallenge
  BY <1>0
<1> QED
  BY <1>0, <1>2, <1>4, <1>5 DEF Challenges!LetIn

\* A ceremony that is over without a session: a refusal, if it was a login.
LEMMA EndCeremonyRefined ==
    ASSUME PasskeysInv, NEW r \in Request, EndCeremony(r),
           UNCHANGED <<challenges, answered>>, cache'.login = cache.login
    PROVE  Challenges!Refuse(r) \/ UNCHANGED Challenges!secretVars
<1>0. PasskeysTypeOK
  BY DEF PasskeysInv
<1>1. /\ ceremony'[r].step = "idle"
      /\ \A q \in Request: q # r => ceremony'[q] = ceremony[q]
  BY <1>0, EndedCeremony
<1>2. CASE Answering(r)
  <2>1. ceremony[r].challenge \in Challenge
    BY <1>0, <1>2 DEF PasskeysInv, PasskeysTypeOK, CeremoniesOK
  <2>2. /\ ChallengeHeld' = [ChallengeHeld EXCEPT ![r] = NoChallenge]
        /\ ChallengeHeld[r] = ceremony[r].challenge
    BY <1>1, <1>2 DEF ChallengeHeld, Answering
  <2>3. ChallengeOffer' = ChallengeOffer
    BY DEF ChallengeOffer
  <2> QED
    BY <2>1, <2>2, <2>3, NoChallengeAssumption DEF Challenges!Refuse
<1>3. CASE ~Answering(r)
  <2>1. SameAnswers
    BY <1>1, <1>3 DEF SameAnswers, Answering
  <2> QED
    BY <2>1, ChallengesUnseen
<1> QED
  BY <1>2, <1>3

LEMMA ExpireChallengeRefined ==
    ASSUME PasskeysInv, NEW purpose \in DOMAIN cache, ExpireChallenge(purpose)
    PROVE  Challenges!Withdraw \/ UNCHANGED Challenges!secretVars
<1>0. /\ UNCHANGED <<ceremony, challenges, answered>>
      /\ cache'.login \in {cache.login, NoChallenge} /\ NoChallenge \notin Challenge
  BY NoChallengeAssumption
  DEF PasskeysInv, PasskeysTypeOK, ExpireChallenge, passkeyHistory
<1>1. SameAnswers
  BY <1>0 DEF SameAnswers, Answering
<1>2. CASE cache'.login = cache.login
  BY <1>0, <1>1, <1>2, ChallengesUnseen
<1>3. CASE cache'.login = NoChallenge
  <2>1. ChallengeHeld' = ChallengeHeld
    BY <1>1 DEF ChallengeHeld, SameAnswers
  <2>2. ChallengeOffer' = [d \in Challenge |-> IF d \notin challenges.login THEN "new"
                                               ELSE "closed"]
    BY <1>0, <1>3 DEF ChallengeOffer
  <2>3. ChallengeOffer' = Challenges!Withdrawn
    BY <2>2 DEF ChallengeOffer, Challenges!Withdrawn
  <2> QED
    BY <1>0, <2>1, <2>3 DEF Challenges!Withdraw
<1> QED
  BY <1>0, <1>2, <1>3

LEMMA PasskeysNextRefined ==
    ASSUME PasskeysInv, [PasskeysNext]_passkeyVars
    PROVE  [Challenges!Next]_(Challenges!secretVars)
<1>0. PasskeysTypeOK
  BY DEF PasskeysInv
<1> USE DEF Challenges!Next
<1>1. ASSUME NEW c \in Credential, NEW challenge \in Challenge,
             Attest(c, challenge) \/ Sign(c, challenge)
      PROVE  UNCHANGED Challenges!secretVars
  BY <1>1, ChallengesUnseen DEF Attest, Sign, SameAnswers, Answering, passkeyHistory
<1>2. ASSUME NEW challenge \in Challenge, RegisterOptions(challenge)
      PROVE  UNCHANGED Challenges!secretVars
  BY <1>0, <1>2, ChallengesUnseen
  DEF RegisterOptions, PasskeysTypeOK, SameAnswers, Answering, passkeyHistory
<1>3. ASSUME NEW challenge \in Challenge, LoginOptions(challenge) PROVE Challenges!Next
  BY <1>3, LoginOptionsRefined
<1>4. CASE DeleteCredential
  BY <1>4, ChallengesUnseen DEF DeleteCredential, SameAnswers, Answering, passkeyHistory
<1>5. ASSUME NEW purpose \in DOMAIN cache, ExpireChallenge(purpose)
      PROVE  Challenges!Next \/ UNCHANGED Challenges!secretVars
  BY <1>5, ExpireChallengeRefined
<1>6. ASSUME NEW r \in Request, NEW c \in Credential, RegisterVerify(r, c)
      PROVE  UNCHANGED Challenges!secretVars
  <2>1. /\ ceremony[r].step = "idle" /\ ceremony'[r].step = "upsert"
        /\ \A q \in Request: q # r => ceremony'[q] = ceremony[q]
    BY <1>0, <1>6, NoCeremonyState DEF RegisterVerify, PasskeysTypeOK, CeremonyState
  <2>2. SameAnswers
    BY <2>1 DEF SameAnswers, Answering
  <2> QED
    BY <1>6, <2>2, ChallengesUnseen DEF RegisterVerify, passkeyHistory
<1>7. ASSUME NEW r \in Request, Upsert(r) \/ UpdateCounter(r)
      PROVE  UNCHANGED Challenges!secretVars
  <2>1. /\ UNCHANGED <<cache, challenges, answered>>
        /\ \/ ceremony[r].step = "upsert" /\ Continue(r, "forgetRegister")
           \/ ceremony[r].step = "update" /\ Continue(r, "forgetLogin")
    BY <1>7 DEF Upsert, UpdateCounter, passkeyHistory
  <2>2. /\ Answering(r)' <=> ceremony[r].step = "update"
        /\ ceremony'[r].challenge = ceremony[r].challenge
        /\ \A q \in Request: q # r => ceremony'[q] = ceremony[q]
    BY <1>0, <2>1, ContinuedCeremony DEF Answering
  <2>3. SameAnswers
    BY <2>1, <2>2 DEF SameAnswers, Answering
  <2> QED
    BY <2>1, <2>3, ChallengesUnseen
<1>8. ASSUME NEW r \in Request, ForgetRegister(r) \/ FailCeremony(r)
      PROVE  Challenges!Next \/ UNCHANGED Challenges!secretVars
  BY <1>0, <1>8, EndCeremonyRefined
  DEF ForgetRegister, FailCeremony, PasskeysTypeOK, passkeyHistory
<1>9. ASSUME NEW r \in Request, NEW a \in assertion, LoginVerify(r, a) PROVE Challenges!Next
  BY <1>9, LoginVerifyRefined
<1>10. ASSUME NEW r \in Request, FindUser(r) PROVE UNCHANGED Challenges!secretVars
  <2>1. /\ UNCHANGED <<cache, challenges, answered>>
        /\ ceremony[r].step = "findUser" /\ ceremony'[r].step = "update"
        /\ ceremony'[r].challenge = ceremony[r].challenge
        /\ \A q \in Request: q # r => ceremony'[q] = ceremony[q]
    BY <1>0, <1>10 DEF FindUser, PasskeysTypeOK, CeremonyState, passkeyHistory
  <2>2. SameAnswers
    BY <2>1 DEF SameAnswers, Answering
  <2> QED
    BY <2>1, <2>2, ChallengesUnseen
<1>11. ASSUME NEW r \in Request, ForgetLogin(r) PROVE Challenges!Next
  BY <1>11, ForgetLoginRefined
<1>12. CASE UNCHANGED passkeyVars
  BY <1>12, ChallengesUnseen DEF passkeyVars, SameAnswers, Answering
<1> QED
  BY <1>1, <1>2, <1>3, <1>4, <1>5, <1>6, <1>7, <1>8, <1>9, <1>10, <1>11, <1>12
  DEF PasskeysNext

\* Login challenges are one-time secrets: Passkeys implements OneTimeSecrets.
THEOREM ChallengesImplementOneTimeSecrets == PasskeysSpec => ChallengeIsOneTime
<1> QED
  BY PasskeysInitRefined, PasskeysInvariance, PasskeysNextRefined, PTL
  DEF PasskeysSpec, ChallengeIsOneTime, Challenges!Spec

\* loginVerify() finds no challenge in the cache that has opened a session, whatever
\* ceremonies, deletions and failures come in between.
THEOREM UsedChallengesRefused == PasskeysSpec => UsedChallengeRefused
<1>1. ASSUME PasskeysInv, PasskeysInv', [Challenges!Next]_(Challenges!secretVars),
             NEW r \in Request, ~Answering(r), Answering(r)'
      PROVE  ceremony'[r].challenge \notin answered.once
  <2>1. /\ ChallengeHeld[r] = NoChallenge
        /\ ChallengeHeld'[r] = ceremony'[r].challenge
        /\ ceremony'[r].challenge \in Challenge
    BY <1>1, NoChallengeAssumption
    DEF ChallengeHeld, PasskeysInv, PasskeysTypeOK, CeremoniesOK
  <2>2. PICK h \in Request, c \in Challenge: Challenges!Admit(h, c)
    BY <1>1, <2>1, NoChallengeAssumption
    DEF Challenges!Next, Challenges!secretVars, Challenges!Offer, Challenges!Withdraw,
        Challenges!LetIn, Challenges!Refuse, ChallengeHeld
  <2>3. ceremony'[r].challenge = c /\ ChallengeOffer[c] = "open"
    BY <2>1, <2>2, NoChallengeAssumption DEF Challenges!Admit, ChallengeHeld
  <2> QED
    BY <1>1, <2>3 DEF ChallengeOffer, PasskeysInv, AnswersNoted
<1>2. PasskeysInv /\ PasskeysInv' /\ [PasskeysNext]_passkeyVars =>
        [\A r \in Request:
           ~Answering(r) /\ Answering(r)' => ceremony'[r].challenge \notin answered.once
        ]_passkeyVars
  BY <1>1, PasskeysNextRefined
<1> QED
  BY <1>2, PasskeysInvariance, PTL DEF PasskeysSpec, UsedChallengeRefused

(***************************************************************************)
(* The second factor: codes of two batches never mix; and while no write   *)
(* is based on an outdated read, a code is accepted once, the row holds    *)
(* just what is left of the latest batch, and 2FA is never on without a    *)
(* secret.                                                                 *)
(***************************************************************************)

\* A set of codes that comes from one batch handed out so far.
FromOneBatch(S) == S = {} \/ \E B \in batches.all: S \subseteq B

\* What the handlers have read.
ReadsOK ==
    \A r \in Request:
        /\ request[r].step = "activate" => /\ request[r].read.twoFactorSecret # NoSecret
                                           /\ ~request[r].read.isTwoFactorEnabled
        /\ request[r].step = "consume" =>
             /\ request[r].code \in request[r].read.twoFactorBackupCodes
             /\ FromOneBatch(request[r].read.twoFactorBackupCodes)

\* Histories never run ahead of the batches handed out.
HistoryOK ==
    /\ batches.latest \subseteq UNION batches.all
    /\ ~stale => accepted.once \subseteq UNION batches.all

TwoFactorInv ==
    /\ TwoFactorTypeOK
    /\ ReadsOK
    /\ OneBatch
    /\ HistoryOK
    /\ StoredCodesExact
    /\ SingleUseUnlessStale
    /\ EnabledHasSecretUnlessStale

LEMMA IdleState == Idle \in RequestState
BY DEF Idle, RequestState, Cleared, Account

LEMMA TwoFactorInitially == TwoFactorInit => TwoFactorInv
<1> SUFFICES ASSUME TwoFactorInit PROVE TwoFactorInv
  OBVIOUS
<1>1. TwoFactorTypeOK
  <2>1. account \in Account
    BY DEF TwoFactorInit, Account, Cleared
  <2>2. request \in [Request -> RequestState]
    BY IdleState DEF TwoFactorInit
  <2> QED
    BY <2>1, <2>2 DEF TwoFactorInit, TwoFactorTypeOK
<1>2. ReadsOK
  BY DEF TwoFactorInit, ReadsOK, Idle
<1>3. /\ account.twoFactorBackupCodes = {}
      /\ ~account.isTwoFactorEnabled
      /\ batches.latest = {}
      /\ accepted.once = {}
      /\ accepted.twice = {}
  BY DEF TwoFactorInit, Cleared
<1> QED
  BY <1>1, <1>2, <1>3
  DEF TwoFactorInv, OneBatch, HistoryOK, StoredCodesExact, SingleUseUnlessStale,
      EnabledHasSecretUnlessStale

-----------------------------------------------------------------------------
(* Lemmas about the handlers' bookkeeping *)

LEMMA FinishedRequest ==
    ASSUME TwoFactorTypeOK, NEW r \in Request, Finish(r)
    PROVE  /\ request' \in [Request -> RequestState]
           /\ request'[r].step = "idle"
           /\ \A q \in Request: q # r => request'[q] = request[q]
BY IdleState DEF Finish, TwoFactorTypeOK, Idle

\* Ending a handler keeps what is said about the reads of the others.
LEMMA FinishReads ==
    ASSUME TwoFactorTypeOK, ReadsOK, NEW r \in Request, Finish(r),
           batches.all \subseteq batches'.all
    PROVE  ReadsOK'
BY FinishedRequest DEF ReadsOK, FromOneBatch

\* A fresh batch is disjoint from all that came before.
LEMMA FreshBatch ==
    ASSUME NEW B \in FreshBatches
    PROVE  B \subseteq BackupCode /\ B \cap UNION batches.all = {}
BY DEF FreshBatches

\* What is true of an account and its histories does not depend on the requests.
LEMMA SameAccount ==
    ASSUME TwoFactorInv, TwoFactorTypeOK', ReadsOK',
           UNCHANGED <<account, batches, accepted, stale>>
    PROVE  TwoFactorInv'
BY DEF TwoFactorInv, OneBatch, HistoryOK, StoredCodesExact, SingleUseUnlessStale,
       EnabledHasSecretUnlessStale

-----------------------------------------------------------------------------
(* One lemma per handler step *)

LEMMA SetupStep ==
    ASSUME TwoFactorInv, NEW s \in Secret, Setup(s)
    PROVE  TwoFactorInv'
<1>1. TwoFactorTypeOK'
  BY DEF TwoFactorInv, TwoFactorTypeOK, Setup, Account
<1>2. /\ account'.twoFactorSecret = s
      /\ account'.isTwoFactorEnabled = account.isTwoFactorEnabled
      /\ account'.twoFactorBackupCodes = account.twoFactorBackupCodes
      /\ s # NoSecret
  BY NullsAssumption DEF TwoFactorInv, TwoFactorTypeOK, Setup, Account
<1>3. UNCHANGED <<request, batches, accepted, stale>>
  BY DEF Setup
<1> QED
  BY <1>1, <1>2, <1>3
  DEF TwoFactorInv, ReadsOK, FromOneBatch, OneBatch, HistoryOK, StoredCodesExact,
      SingleUseUnlessStale,
      EnabledHasSecretUnlessStale

LEMMA BeginEnableStep ==
    ASSUME TwoFactorInv, NEW r \in Request, BeginEnable(r)
    PROVE  TwoFactorInv'
<1>0. TwoFactorTypeOK /\ ReadsOK
  BY DEF TwoFactorInv
<1> DEFINE new == [Idle EXCEPT !.step = "activate", !.op = "enable", !.read = account]
<1>1. /\ new \in RequestState
      /\ new.step = "activate"
      /\ new.read = account
  BY <1>0, IdleState DEF RequestState, TwoFactorTypeOK, Idle
<1> HIDE DEF new
<1>2. /\ request' \in [Request -> RequestState]
      /\ request'[r] = new
      /\ \A q \in Request: q # r => request'[q] = request[q]
  BY <1>0, <1>1 DEF BeginEnable, TwoFactorTypeOK, new
<1>3. TwoFactorTypeOK'
  BY <1>0, <1>2 DEF BeginEnable, TwoFactorTypeOK, Account
<1>4. ReadsOK'
  BY <1>0, <1>1, <1>2 DEF BeginEnable, ReadsOK, FromOneBatch
<1> QED
  BY <1>3, <1>4, SameAccount DEF BeginEnable

LEMMA ActivateStep ==
    ASSUME TwoFactorInv, NEW r \in Request, Activate(r)
    PROVE  TwoFactorInv'
<1>0. TwoFactorTypeOK /\ ReadsOK
  BY DEF TwoFactorInv
<1>1. PICK B \in FreshBatches:
        /\ account' = [account EXCEPT !.isTwoFactorEnabled = TRUE,
                                      !.twoFactorBackupCodes = B]
        /\ batches' = [all |-> batches.all \cup {B}, latest |-> B]
  BY DEF Activate
<1>2. B \subseteq BackupCode /\ B \cap UNION batches.all = {}
  BY FreshBatch
<1>3. /\ account'.twoFactorSecret = account.twoFactorSecret
      /\ account'.isTwoFactorEnabled = TRUE
      /\ account'.twoFactorBackupCodes = B
      /\ batches'.all = batches.all \cup {B}
      /\ batches'.latest = B
  BY <1>0, <1>1 DEF TwoFactorTypeOK, Account
<1>4. TwoFactorTypeOK'
  <2>1. account' \in Account
    BY <1>0, <1>1, <1>2 DEF TwoFactorTypeOK, Account
  <2>2. batches' \in [all: SUBSET SUBSET BackupCode, latest: SUBSET BackupCode]
    BY <1>0, <1>1, <1>2 DEF TwoFactorTypeOK
  <2>3. stale' \in BOOLEAN
    BY <1>0 DEF TwoFactorTypeOK, Activate, Outdated
  <2> QED
    BY <1>0, <2>1, <2>2, <2>3, FinishedRequest DEF TwoFactorTypeOK, Activate
<1>5. ReadsOK'
  BY <1>0, <1>3, FinishReads DEF Activate
<1>6. OneBatch'
  BY <1>3 DEF OneBatch
<1>7. ~stale' => /\ ~stale
                 /\ account.twoFactorSecret = request[r].read.twoFactorSecret
  BY DEF Activate, Outdated
<1>8. account.twoFactorSecret = request[r].read.twoFactorSecret
        => account.twoFactorSecret # NoSecret
  BY <1>0 DEF ReadsOK, Activate
<1>9. UNCHANGED accepted
  BY DEF Activate
<1>10. HistoryOK' /\ SingleUseUnlessStale'
  BY <1>3, <1>7, <1>9 DEF TwoFactorInv, HistoryOK, SingleUseUnlessStale
<1>11. StoredCodesExact'
  BY <1>2, <1>3, <1>7, <1>9 DEF TwoFactorInv, HistoryOK, StoredCodesExact
<1>12. EnabledHasSecretUnlessStale'
  BY <1>3, <1>7, <1>8 DEF EnabledHasSecretUnlessStale
<1> QED
  BY <1>4, <1>5, <1>6, <1>10, <1>11, <1>12 DEF TwoFactorInv

LEMMA ConsumeStep ==
    ASSUME TwoFactorInv, NEW r \in Request, ConsumeBackupCode(r)
    PROVE  TwoFactorInv'
<1>0. TwoFactorTypeOK /\ ReadsOK
  BY DEF TwoFactorInv
<1> DEFINE c == request[r].code
           rest == request[r].read.twoFactorBackupCodes \ {c}
<1>1. /\ request[r].step = "consume"
      /\ c \in BackupCode
      /\ c \in request[r].read.twoFactorBackupCodes
      /\ request[r].read.twoFactorBackupCodes \subseteq BackupCode
      /\ FromOneBatch(request[r].read.twoFactorBackupCodes)
  BY <1>0 DEF ConsumeBackupCode, ReadsOK, TwoFactorTypeOK, RequestState, Account
<1>2. /\ account' \in Account
      /\ account'.twoFactorSecret = account.twoFactorSecret
      /\ account'.isTwoFactorEnabled = account.isTwoFactorEnabled
      /\ account'.twoFactorBackupCodes = rest
  BY <1>0, <1>1 DEF ConsumeBackupCode, TwoFactorTypeOK, Account
<1>3. /\ accepted'.once = accepted.once \cup {c}
      /\ accepted'.twice = accepted.twice \cup ({c} \cap accepted.once)
      /\ accepted' \in [once: SUBSET BackupCode, twice: SUBSET BackupCode]
  BY <1>0, <1>1 DEF ConsumeBackupCode, Accepting, TwoFactorTypeOK
<1>4. /\ request' \in [Request -> RequestState]
      /\ request'[r].step = "accept"
      /\ \A q \in Request: q # r => request'[q] = request[q]
  BY <1>0 DEF ConsumeBackupCode, TwoFactorTypeOK, RequestState
<1>5. stale' \in BOOLEAN
  BY <1>0 DEF TwoFactorTypeOK, ConsumeBackupCode, Outdated
<1>6. TwoFactorTypeOK'
  BY <1>0, <1>2, <1>3, <1>4, <1>5 DEF ConsumeBackupCode, TwoFactorTypeOK
<1>7. ReadsOK'
  BY <1>0, <1>4 DEF ConsumeBackupCode, ReadsOK, FromOneBatch
<1>8. OneBatch'
  BY <1>1, <1>2 DEF ConsumeBackupCode, OneBatch, FromOneBatch
<1>9. ASSUME ~stale'
      PROVE  /\ ~stale
             /\ account.twoFactorBackupCodes = request[r].read.twoFactorBackupCodes
             /\ account.isTwoFactorEnabled
             /\ c \in batches.latest
             /\ c \notin accepted.once
  <2>1. ~stale /\ account.twoFactorBackupCodes = request[r].read.twoFactorBackupCodes
    BY <1>9 DEF ConsumeBackupCode, Outdated
  <2> QED
    BY <1>1, <2>1 DEF TwoFactorInv, StoredCodesExact
<1>10. UNCHANGED batches
  BY DEF ConsumeBackupCode
<1>11. HistoryOK'
  BY <1>3, <1>9, <1>10 DEF TwoFactorInv, HistoryOK
<1>12. StoredCodesExact'
  BY <1>2, <1>3, <1>9, <1>10 DEF TwoFactorInv, StoredCodesExact
<1>13. SingleUseUnlessStale'
  BY <1>3, <1>9 DEF TwoFactorInv, SingleUseUnlessStale
<1>14. EnabledHasSecretUnlessStale'
  BY <1>2, <1>9 DEF TwoFactorInv, EnabledHasSecretUnlessStale
<1> QED
  BY <1>6, <1>7, <1>8, <1>11, <1>12, <1>13, <1>14 DEF TwoFactorInv

LEMMA ClearStep ==
    ASSUME TwoFactorInv, NEW r \in Request, Clear(r)
    PROVE  TwoFactorInv'
<1>0. TwoFactorTypeOK /\ ReadsOK
  BY DEF TwoFactorInv
<1>1. /\ account' \in Account
      /\ account'.isTwoFactorEnabled = FALSE
      /\ account'.twoFactorBackupCodes = {}
  BY DEF Clear, Cleared, Account
<1>2. stale' \in BOOLEAN /\ (stale => stale')
  BY <1>0 DEF TwoFactorTypeOK, Clear, Outdated
<1>3. UNCHANGED <<pending, generated, batches, accepted>>
  BY DEF Clear
<1>4. TwoFactorTypeOK'
  BY <1>0, <1>1, <1>2, <1>3, FinishedRequest DEF TwoFactorTypeOK, Clear
<1>5. ReadsOK'
  BY <1>0, <1>3, FinishReads DEF Clear
<1> QED
  BY <1>1, <1>2, <1>3, <1>4, <1>5
  DEF TwoFactorInv, OneBatch, HistoryOK, StoredCodesExact, SingleUseUnlessStale,
      EnabledHasSecretUnlessStale

\* The steps that change a handler's locals only.
LEMMA LocalStep ==
    ASSUME TwoFactorInv, NEW r \in Request,
           \/ BeginDisable(r)
           \/ BeginVerify(r)
           \/ CheckTotp(r)
           \/ \E c \in BackupCode: CheckBackupCode(r, c)
           \/ CheckFails(r)
           \/ IssueSession(r)
           \/ Fail(r)
    PROVE  TwoFactorInv'
<1>0. TwoFactorTypeOK /\ ReadsOK /\ OneBatch
  BY DEF TwoFactorInv
<1>1. UNCHANGED <<account, pending, history>>
  BY DEF BeginDisable, BeginVerify, CheckTotp, CheckBackupCode, CheckFails, IssueSession, Fail
<1>2. CASE Finish(r)
  <2>1. TwoFactorTypeOK'
    BY <1>0, <1>1, <1>2, FinishedRequest DEF TwoFactorTypeOK, history
  <2>2. ReadsOK'
    BY <1>0, <1>1, <1>2, FinishReads DEF history
  <2> QED
    BY <1>1, <2>1, <2>2, SameAccount DEF history
<1>3. ASSUME NEW new \in RequestState,
             request' = [request EXCEPT ![r] = new],
             new.step \in {"check", "accept"} \/
               (/\ new.code \in account.twoFactorBackupCodes
                /\ new.read = account
                /\ new.step = "consume")
      PROVE  TwoFactorInv'
  <2>1. /\ request' \in [Request -> RequestState]
        /\ request'[r] = new
        /\ \A q \in Request: q # r => request'[q] = request[q]
    BY <1>0, <1>3 DEF TwoFactorTypeOK
  <2>2. TwoFactorTypeOK'
    BY <1>0, <1>1, <2>1 DEF TwoFactorTypeOK, history
  <2>3. ReadsOK'
    BY <1>0, <1>1, <1>3, <2>1 DEF ReadsOK, FromOneBatch, OneBatch, history
  <2> QED
    BY <1>1, <2>2, <2>3, SameAccount DEF history
<1>4. CASE BeginDisable(r)
  <2> DEFINE new == [Idle EXCEPT !.step = "check", !.op = "disable"]
  <2>1. new \in RequestState /\ new.step = "check"
    BY IdleState DEF RequestState, Idle
  <2> QED
    BY <1>3, <1>4, <2>1 DEF BeginDisable
<1>5. CASE BeginVerify(r)
  <2> DEFINE new == [Idle EXCEPT !.step = "check", !.op = "verify"]
  <2>1. new \in RequestState /\ new.step = "check"
    BY IdleState DEF RequestState, Idle
  <2> QED
    BY <1>3, <1>5, <2>1 DEF BeginVerify
<1>6. ASSUME NEW step \in {"accept", "consume"}, NEW code \in BackupCode \cup {NoCode},
             Goto(r, step, code),
             step = "consume" => code \in account.twoFactorBackupCodes
      PROVE  TwoFactorInv'
  <2> DEFINE new == [request[r] EXCEPT !.step = step, !.read = account, !.code = code]
  <2>1. /\ new \in RequestState
        /\ new.step = step
        /\ new.read = account
        /\ new.code = code
    BY <1>0 DEF RequestState, TwoFactorTypeOK
  <2>2. request' = [request EXCEPT ![r] = new]
    BY <1>0, <1>6 DEF Goto, TwoFactorTypeOK, RequestState
  <2> HIDE DEF new
  <2> QED
    BY <1>3, <1>6, <2>1, <2>2
<1> QED
  BY <1>2, <1>4, <1>5, <1>6
  DEF CheckTotp, CheckBackupCode, CheckFails, IssueSession, Fail

LEMMA TwoFactorInductive == TwoFactorInv /\ [TwoFactorNext]_twoFactorVars => TwoFactorInv'
<1> SUFFICES ASSUME TwoFactorInv, [TwoFactorNext]_twoFactorVars PROVE TwoFactorInv'
  OBVIOUS
<1>1. CASE IssuePending
  <2>1. TwoFactorTypeOK' /\ ReadsOK'
    BY <1>1 DEF TwoFactorInv, IssuePending, history, TwoFactorTypeOK, ReadsOK, FromOneBatch
  <2> QED
    BY <1>1, <2>1, SameAccount DEF IssuePending, history
<1>2. CASE UNCHANGED twoFactorVars
  <2>1. TwoFactorTypeOK' /\ ReadsOK'
    BY <1>2 DEF TwoFactorInv, twoFactorVars, TwoFactorTypeOK, ReadsOK, FromOneBatch
  <2> QED
    BY <1>2, <2>1, SameAccount DEF twoFactorVars
<1> QED
  BY <1>1, <1>2, SetupStep, BeginEnableStep, ActivateStep, ConsumeStep, ClearStep, LocalStep
  DEF TwoFactorNext

-----------------------------------------------------------------------------
THEOREM TwoFactorInvariance == TwoFactorSpec => []TwoFactorInv
BY TwoFactorInitially, TwoFactorInductive, PTL DEF TwoFactorSpec

\* The columns, the locals of the handlers and the histories are of their kinds.
THEOREM TwoFactorTypeCorrect == TwoFactorSpec => []TwoFactorTypeOK
BY TwoFactorInvariance, PTL DEF TwoFactorInv

\* Codes of two enable() calls never mix, however the handlers interleave.
THEOREM CodesFromOneBatch == TwoFactorSpec => []OneBatch
BY TwoFactorInvariance, PTL DEF TwoFactorInv

\* Without outdated reads the row is the latest batch less the accepted codes.
THEOREM StoredCodes == TwoFactorSpec => []StoredCodesExact
BY TwoFactorInvariance, PTL DEF TwoFactorInv

\* Without outdated reads a backup code opens the door once.
THEOREM SingleUse == TwoFactorSpec => []SingleUseUnlessStale
BY TwoFactorInvariance, PTL DEF TwoFactorInv

\* Without outdated reads 2FA is never on without a secret.
THEOREM EnabledHasSecret == TwoFactorSpec => []EnabledHasSecretUnlessStale
BY TwoFactorInvariance, PTL DEF TwoFactorInv

=============================================================================
