------------------------------- MODULE Login -------------------------------
(***************************************************************************)
(* Signing in with a password: the count of failures that locks an         *)
(* address out, and the login's own change to a cached row.                *)
(*   src/src/modules/auth/auth.service.ts (login), auth.controller.ts      *)
(*                                                                         *)
(* The count is one number in Redis per address and e-mail, read when an   *)
(* attempt begins and written when it ends.  One such key is modelled,     *)
(* Account's; sessions and pending tokens are RefreshTokens' and           *)
(* TwoFactor's.                                                            *)
(***************************************************************************)
EXTENDS UserCache, Naturals

CONSTANTS
    Account,      \* the user of the e-mail address
    MaxFailures,  \* LOGIN_MAX_FAILURES (10)
    Lifetime      \* LOGIN_LOCKOUT_TTL_MS, in ticks of the clock

ASSUME AccountAssumption == Account \in User
ASSUME FailuresAssumption == MaxFailures \in Nat \ {0, 1} /\ Lifetime \in Nat \ {0}

VARIABLES
    failures, \* the count under login:fail:<ip>:<email>, 0 when there is none
    ttl,      \* what is left of its lifetime
    attempt,  \* what each login is about to do
    tested,   \* history: wrong passwords tried since the count was last reset
    blurred   \* history: since then attempts overlapped, or one or the count was lost

loginVars == <<failures, ttl, attempt, tested, blurred>>

AttemptState == [step: {"idle", "compare", "count", "clear", "admit", "stamp"},
                 count: 0 .. MaxFailures, active: BOOLEAN, barred: BOOLEAN]

NoAttempt == [step |-> "idle", count |-> 0, active |-> FALSE, barred |-> FALSE]

-----------------------------------------------------------------------------
LoginInit ==
    /\ failures = 0
    /\ ttl = 0
    /\ attempt = [r \in Request |-> NoAttempt]
    /\ tested = 0
    /\ blurred = FALSE

\* Attempts that have read the count and not written it yet.
Counting == {r \in Request: attempt[r].step \in {"compare", "count", "clear"}}

Proceed(r, step) == attempt' = [attempt EXCEPT ![r].step = step]
EndAttempt(r) == attempt' = [attempt EXCEPT ![r] = NoAttempt]

\* failCount >= LOGIN_MAX_FAILURES
Locked == failures >= MaxFailures

\* login(), up to the count of earlier failures.
BeginAttempt(r) ==
    /\ attempt[r].step = "idle"
    /\ ~Locked
    /\ attempt' = [attempt EXCEPT
         ![r] = [step |-> "compare", count |-> failures, active |-> FALSE,
                 barred |-> row[Account] = "deactivated"]]
    /\ blurred' = (blurred \/ Counting # {})
    /\ tested' = IF blurred' THEN 0 ELSE tested
    /\ UNCHANGED <<failures, ttl>>

\* The count cannot be read, and is taken for 0, whatever it is.
BeginUnread(r) ==
    /\ attempt[r].step = "idle"
    /\ failures > 0
    /\ attempt' = [attempt EXCEPT
         ![r] = [step |-> "compare", count |-> 0, active |-> FALSE,
                 barred |-> row[Account] = "deactivated"]]
    /\ blurred' = TRUE
    /\ tested' = 0
    /\ UNCHANGED <<failures, ttl>>

\* Faulty variant: a refusal counts as a failure and starts the lifetime again.
RefuseAndCount(r) ==
    /\ attempt[r].step = "idle"
    /\ Locked
    /\ ttl' = Lifetime
    /\ UNCHANGED <<failures, attempt, tested, blurred>>

\* 429: nothing is written, so the lockout ends when it would have.
Refuse(r) ==
    /\ attempt[r].step = "idle"
    /\ Locked
    /\ UNCHANGED loginVars

\* The row and bcrypt: a user who is absent, or has no password, is compared with a dummy.
WrongPassword(r) ==
    /\ attempt[r].step = "compare"
    /\ tested' = IF blurred THEN 0 ELSE tested + 1
    /\ Proceed(r, "count")
    /\ UNCHANGED <<failures, ttl, blurred>>

RightPassword(r) ==
    /\ attempt[r].step = "compare"
    /\ row[Account] # "absent"
    /\ attempt' = [attempt EXCEPT ![r].step = "clear",
                                  ![r].active = row[Account] = "active"]
    /\ UNCHANGED <<failures, ttl, tested, blurred>>

\* Faulty variant: the count is set, not raised.
CountOne(r) ==
    /\ attempt[r].step = "count"
    /\ failures' = 1
    /\ ttl' = Lifetime
    /\ EndAttempt(r)
    /\ UNCHANGED <<tested, blurred>>

\* cache.set(failKey, failCount + 1): of the count as it was when the attempt began.
Count(r) ==
    /\ attempt[r].step = "count"
    /\ failures' = attempt[r].count + 1
    /\ ttl' = Lifetime
    /\ EndAttempt(r)
    /\ UNCHANGED <<tested, blurred>>

\* The count is reset; D are the attempts that still hold the old one.
Reset(D) ==
    /\ failures' = 0
    /\ ttl' = 0
    /\ tested' = 0
    /\ blurred' = (D # {})

\* cache.del(failKey), before the account is looked at.
Clear(r) ==
    /\ attempt[r].step = "clear"
    /\ Reset(Counting \ {r})
    /\ Proceed(r, "admit")

\* The deletion has no effect, and the login goes on.
ClearLost(r) ==
    /\ attempt[r].step = "clear"
    /\ Proceed(r, "admit")
    /\ UNCHANGED <<failures, ttl, tested, blurred>>

\* Faulty variant: whoever knows the password is let in.
AdmitAnyone(r) ==
    /\ attempt[r].step = "admit"
    /\ Proceed(r, "stamp")
    /\ UNCHANGED <<failures, ttl, tested, blurred>>

\* An active user gets a session or a pending token; the update of lastLoginAt goes on.
Admit(r) ==
    /\ attempt[r].step = "admit"
    /\ IF attempt[r].active THEN Proceed(r, "stamp") ELSE EndAttempt(r)
    /\ UNCHANGED <<failures, ttl, tested, blurred>>

\* The handler dies or a call rejects; a failure may have gone uncounted.
Abort(r) ==
    /\ attempt[r].step # "idle"
    /\ EndAttempt(r)
    /\ blurred' = (blurred \/ r \in Counting)
    /\ tested' = IF blurred' THEN 0 ELSE tested
    /\ UNCHANGED <<failures, ttl>>

Attempt(r) ==
    \/ BeginAttempt(r)
    \/ BeginUnread(r)
    \/ Refuse(r)
    \/ WrongPassword(r)
    \/ RightPassword(r)
    \/ Count(r)
    \/ Clear(r)
    \/ ClearLost(r)
    \/ Admit(r)
    \/ Abort(r)

\* The update of lastLoginAt, a column of the cached view, for which there is no event.
Stamp(r) ==
    /\ attempt[r].step = "stamp"
    /\ Touch(Account)
    /\ EndAttempt(r)
    /\ UNCHANGED <<failures, ttl, tested, blurred>>

\* Time passes for the count.
Tick ==
    /\ ttl > 0
    /\ \/ ttl > 1 /\ ttl' = ttl - 1 /\ UNCHANGED <<failures, tested, blurred>>
       \/ ttl = 1 /\ Reset(Counting)
    /\ UNCHANGED attempt

-----------------------------------------------------------------------------
(* Properties *)

\* The count and the locals of the logins are of their kinds, and a count that is not
\* zero has a lifetime.
LoginTypeOK ==
    /\ failures \in 0 .. MaxFailures
    /\ ttl \in 0 .. Lifetime
    /\ failures > 0 <=> ttl > 0
    /\ attempt \in [Request -> AttemptState]
    /\ tested \in Nat
    /\ blurred \in BOOLEAN

\* Unless attempts overlap or die, or the count could not be read, every wrong password
\* since the last reset is in the count or about to be, and there are never more of them
\* than the limit.
FailuresCounted ==
    ~blurred =>
        /\ tested = failures
                      + (IF \E r \in Request: attempt[r].step = "count" THEN 1 ELSE 0)
        /\ tested <= MaxFailures

\* Nobody is let in whose account was deactivated before the attempt began.
DeactivatedStayOut ==
    \A r \in Request: attempt[r].step = "stamp" => ~attempt[r].barred

\* Attempts whose wrong password would lock the address out, or prolong its lockout.
Pressing ==
    {r \in Request: attempt[r].step \in {"compare", "count"}
                    /\ attempt[r].count + 1 >= MaxFailures}

\* While an address is locked out, no attempt begins that could prolong the lockout, and one
\* that had begun before it can do so once, and is then over; the attempts that are refused
\* never do.
LockoutRunsDown ==
    [][Locked /\ Locked' => /\ Pressing' \subseteq Pressing
                            /\ ttl' > ttl => Pressing' # Pressing]_loginVars

\* A lockout ends: attempts that it refuses do not prolong it.
LockoutEnds == Locked ~> ~Locked
=============================================================================
