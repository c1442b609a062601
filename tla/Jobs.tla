-------------------------------- MODULE Jobs --------------------------------
(***************************************************************************)
(* A scheduled job that every instance starts and one is to run: the Redis *)
(* lock with a lifetime, and the deletions that the job makes under it.    *)
(*   src/src/core/scheduler/redis-lock.service.ts                          *)
(*   src/src/core/scheduler/jobs/cleanup.scheduler.ts                      *)
(*                                                                         *)
(* The module is the hourly job; the daily one is the same with one query  *)
(* and a lock of its own.  A run is assumed to be over within the hour.    *)
(***************************************************************************)
EXTENDS Naturals

CONSTANTS
    Instance,  \* server processes
    Token,     \* values of crypto.randomUUID() used as lock tokens
    Query,     \* the deletions that the job awaits together
    MaxFaults  \* bound: lost replies, failed queries and crashes

CONSTANT NoToken

ASSUME NoTokenAssumption == NoToken \notin Token
ASSUME MaxFaultsAssumption == MaxFaults \in Nat
ASSUME QueryAssumption == Query # {}

VARIABLES
    lock,   \* what Redis holds under the key
    run,    \* what the job of each instance is about to do
    due,    \* instances whose timer has yet to fire this hour
    sent,   \* queries still in the database of runs that no longer wait for them
    dirty,  \* the kinds of row that there is something to delete of
    faults  \* faults so far

vars == <<lock, run, due, sent, dirty, faults>>

RunState == [step: {"idle", "acquire", "work", "release"},
             token: Token \cup {NoToken},
             pending: SUBSET Query,
             lapsed: BOOLEAN] \* history: the lock has expired under the run

Idle == [step |-> "idle", token |-> NoToken, pending |-> {}, lapsed |-> FALSE]

-----------------------------------------------------------------------------
Init ==
    /\ lock = NoToken
    /\ run = [i \in Instance |-> Idle]
    /\ due = {}
    /\ sent = {}
    /\ dirty \in SUBSET Query
    /\ faults = 0

Finish(i) == run' = [run EXCEPT ![i] = Idle]

Fault == faults < MaxFaults /\ faults' = faults + 1

\* Tokens that are in use nowhere: randomUUID draws none of the others again.
Fresh == {t \in Token: t # lock /\ \A i \in Instance: run[i].token # t}

\* The top of the hour; the last one's runs, and their lock, are long gone.
NextHour ==
    /\ due = {} /\ sent = {} /\ lock = NoToken
    /\ \A i \in Instance: run[i].step = "idle"
    /\ due' = Instance
    /\ UNCHANGED <<lock, run, sent, dirty, faults>>

\* The timer of an instance fires, at a moment of its own: withLock(), acquire().
Fire(i, t) ==
    /\ i \in due
    /\ due' = due \ {i}
    /\ run' = [run EXCEPT ![i] = [Idle EXCEPT !.step = "acquire", !.token = t]]
    /\ UNCHANGED <<lock, sent, dirty, faults>>

Begin(i) == run' = [run EXCEPT ![i].step = "work", ![i].pending = Query]

\* Faulty variant: SET without NX.
TakeAnyway(i) ==
    /\ run[i].step = "acquire"
    /\ lock' = run[i].token
    /\ Begin(i)
    /\ UNCHANGED <<due, sent, dirty, faults>>

\* SET NX answers OK.
Take(i) ==
    /\ run[i].step = "acquire"
    /\ lock = NoToken
    /\ lock' = run[i].token
    /\ Begin(i)
    /\ UNCHANGED <<due, sent, dirty, faults>>

\* SET NX answers nil: the run is skipped.
Skip(i) ==
    /\ run[i].step = "acquire"
    /\ lock # NoToken
    /\ Finish(i)
    /\ UNCHANGED <<lock, due, sent, dirty, faults>>

\* The lock is taken and the reply is lost: the client gives up, or asks again and is
\* told that the key exists.  Nobody runs, and the lock stays until it expires.
TakeUnheard(i) ==
    /\ Fault
    /\ run[i].step = "acquire"
    /\ lock = NoToken
    /\ lock' = run[i].token
    /\ Finish(i)
    /\ UNCHANGED <<due, sent, dirty>>

\* One of the queries answers; after the last, `finally` is next.
Delete(i, q) ==
    /\ q \in run[i].pending
    /\ dirty' = dirty \ {q}
    /\ run' = [run EXCEPT ![i].pending = @ \ {q},
                          ![i].step = IF run[i].pending = {q} THEN "release" ELSE @]
    /\ UNCHANGED <<lock, due, sent, faults>>

\* One rejects, and with it Promise.all(): the others are no longer waited for.
DeleteFails(i, q) ==
    /\ Fault
    /\ q \in run[i].pending
    /\ sent' = sent \cup (run[i].pending \ {q})
    /\ run' = [run EXCEPT ![i].pending = {}, ![i].step = "release"]
    /\ UNCHANGED <<lock, due, dirty>>

\* Faulty variant: the key is deleted, whoever's it is.
ReleaseAny(i) ==
    /\ run[i].step = "release"
    /\ lock' = NoToken
    /\ Finish(i)
    /\ UNCHANGED <<due, sent, dirty, faults>>

\* The script: delete the key if it still holds the token.
Release(i) ==
    /\ run[i].step = "release"
    /\ lock' = IF lock = run[i].token THEN NoToken ELSE lock
    /\ Finish(i)
    /\ UNCHANGED <<due, sent, dirty, faults>>

\* Any call to Redis fails, or the process dies; the database goes on with what was sent.
Die(i) ==
    /\ Fault
    /\ run[i].step # "idle"
    /\ sent' = sent \cup run[i].pending
    /\ Finish(i)
    /\ UNCHANGED <<lock, due, dirty>>

\* An instance is down when its timer should fire.
Miss(i) ==
    /\ Fault
    /\ i \in due
    /\ due' = due \ {i}
    /\ UNCHANGED <<lock, run, sent, dirty>>

(* The rest of the world *)

\* A query that nobody waits for is done.
Land(q) ==
    /\ q \in sent
    /\ sent' = sent \ {q}
    /\ dirty' = dirty \ {q}
    /\ UNCHANGED <<lock, run, due, faults>>

\* Faulty variant: SET without EX.
ExpireNever == FALSE /\ UNCHANGED vars

\* The lock's lifetime is over, whether its holder is done or not.
Expire ==
    /\ lock # NoToken
    /\ lock' = NoToken
    /\ run' = [i \in Instance |-> [run[i] EXCEPT !.lapsed = @ \/ run[i].token = lock]]
    /\ UNCHANGED <<due, sent, dirty, faults>>

\* Rows come to their end.
Age(q) ==
    /\ dirty' = dirty \cup {q}
    /\ UNCHANGED <<lock, run, due, sent, faults>>

Run(i) ==
    \/ \E t \in Fresh: Fire(i, t)
    \/ Take(i)
    \/ Skip(i)
    \/ \E q \in Query: Delete(i, q)
    \/ Release(i)

Mishap(i) ==
    \/ TakeUnheard(i)
    \/ \E q \in Query: DeleteFails(i, q)
    \/ Die(i)
    \/ Miss(i)

Next ==
    \/ NextHour
    \/ \E i \in Instance: Run(i)
    \/ \E i \in Instance: Mishap(i)
    \/ \E q \in Query: Land(q)
    \/ \E q \in Query: Age(q)
    \/ Expire

Spec == Init /\ [][Next]_vars

\* Hours pass, timers fire, what runs goes on, and Redis drops a lock that is too old.
FairSpec ==
    /\ Spec
    /\ WF_vars(NextHour)
    /\ \A i \in Instance: WF_vars(Run(i))
    /\ \A q \in Query: WF_vars(Land(q))
    /\ WF_vars(Expire)

-----------------------------------------------------------------------------
(* Properties *)

\* The lock, the runs and the queries are of their kinds, and a run waits for queries
\* exactly while it works.
TypeOK ==
    /\ lock \in Token \cup {NoToken}
    /\ run \in [Instance -> RunState]
    /\ \A i \in Instance:
         /\ run[i].step = "work" <=> run[i].pending # {}
         /\ run[i].step = "idle" <=> run[i].token = NoToken
    /\ due \in SUBSET Instance
    /\ sent \in SUBSET Query
    /\ dirty \in SUBSET Query
    /\ faults \in 0 .. MaxFaults

\* Of two runs at work, the lock has expired under one: the job is run by one instance at
\* a time for as long as it ends within the lock's lifetime.
OneAtWork ==
    \A i, j \in Instance:
        /\ i # j
        /\ run[i].step = "work"
        /\ run[j].step = "work"
        => run[i].lapsed \/ run[j].lapsed

\* Nobody takes the lock from a run whose lifetime is not over: the release of a run that
\* was too long, or of one that had failed, is of no lock but its own.
HolderKeepsLock ==
    \A i \in Instance:
        run[i].step \in {"work", "release"} /\ ~run[i].lapsed => lock = run[i].token

\* What is to be deleted is deleted in the end: no crash, lost reply or failed query
\* leaves a lock behind that stops the job for good.
EventuallyPurged == \A q \in Query: q \in dirty ~> q \notin dirty
=============================================================================
