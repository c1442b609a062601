---------------------------- MODULE ServiceProofs ----------------------------
(***************************************************************************)
(* Service for any number of users, requests and keys, any limit and any   *)
(* lifetime: what is stale in the cache and why, which failures count, and *)
(* who is let in.  The three modules share the requests and the rows, but  *)
(* each has an invariant of its own.                                       *)
(***************************************************************************)
EXTENDS Service, TLAPS

-----------------------------------------------------------------------------
(* The cache *)

\* A handler at work has a key in hand.
KeyInHand == \A r \in Request: request[r].step # "idle" => request[r].key \in Key

CacheInv == CacheTypeOK /\ KeyInHand /\ StaleIsExcused

LEMMA IdleRequest ==
    /\ Idle \in RequestState
    /\ Idle.step = "idle" /\ Idle.pending = {} /\ ~Idle.stale
BY DEF Idle, RequestState

LEMMA CacheInitStep == CacheInit => CacheInv
BY IdleRequest DEF CacheInit, CacheInv, CacheTypeOK, KeyInHand, StaleIsExcused

\* Who does not invalidate owes nothing.
LEMMA NothingPending ==
    ASSUME CacheTypeOK, NEW r \in Request, request[r].step # "invalidate"
    PROVE  request[r].pending = {}
BY DEF CacheTypeOK

\* A step of r that leaves the keys of the others pending.
LEMMA StillOwed ==
    ASSUME CacheTypeOK, NEW r \in Request, NEW k,
           \A q \in Request: q # r => request'[q].pending = request[q].pending,
           k \notin request[r].pending \/ k \in request'[r].pending
    PROVE  Owed(k) => Owed(k)'
BY DEF Owed

LEMMA ReadStep ==
    ASSUME CacheInv, NEW r \in Request, NEW k \in Key, Read(r, k)
    PROVE  CacheInv'
<1> DEFINE new == [Idle EXCEPT !.step = "query", !.key = k]
<1>1. new \in RequestState /\ new.step = "query" /\ new.key = k /\ new.pending = {}
  BY DEF Idle, RequestState
<1> HIDE DEF new
<1>2. request' = [request EXCEPT ![r] = new] /\ UNCHANGED <<row, entry, excused>>
  BY DEF Read, new
<1>3. \A j \in Key: Owed(j) => Owed(j)'
  BY <1>1, <1>2, NothingPending, StillOwed DEF CacheInv, CacheTypeOK, Read
<1> QED
  BY <1>1, <1>2, <1>3 DEF CacheInv, CacheTypeOK, KeyInHand, StaleIsExcused

LEMMA QueryStep ==
    ASSUME CacheInv, NEW r \in Request, Query(r)
    PROVE  CacheInv'
<1> DEFINE new == IF request[r].key \in User /\ row[request[r].key] = "absent"
                  THEN Idle ELSE [request[r] EXCEPT !.step = "store"]
<1>1. request[r] \in RequestState /\ request[r].pending = {} /\ request[r].key \in Key
  BY NothingPending DEF CacheInv, CacheTypeOK, KeyInHand, Query
<1>2. /\ new \in RequestState
      /\ new.step \in {"idle", "store"} /\ new.pending = {}
      /\ new.step = "store" => new.key \in Key
  BY <1>1, IdleRequest DEF RequestState
<1>3. request' = [request EXCEPT ![r] = new] /\ UNCHANGED <<row, entry, excused>>
  BY DEF Query
<1> HIDE DEF new
<1>4. \A j \in Key: Owed(j) => Owed(j)'
  BY <1>1, <1>2, <1>3, StillOwed DEF CacheInv, CacheTypeOK
<1> QED
  BY <1>2, <1>3, <1>4 DEF CacheInv, CacheTypeOK, KeyInHand, StaleIsExcused

LEMMA StoreStep ==
    ASSUME CacheInv, NEW r \in Request, Store(r)
    PROVE  CacheInv'
<1> DEFINE k == request[r].key
<1>1. k \in Key /\ request[r].pending = {}
  BY NothingPending DEF CacheInv, KeyInHand, Store
<1>2. /\ request' = [request EXCEPT ![r] = Idle]
      /\ UNCHANGED row
      /\ entry' = [entry EXCEPT ![k] = IF request[r].stale THEN "stale" ELSE "fresh"]
      /\ excused' = IF request[r].stale /\ ~Owed(k) THEN excused \cup {k} ELSE excused \ {k}
  BY DEF Store
<1> HIDE DEF k
<1>3. \A j \in Key: Owed(j) => Owed(j)'
  BY <1>1, <1>2, StillOwed DEF CacheInv, CacheTypeOK
<1>4. CacheTypeOK' /\ KeyInHand'
  BY <1>1, <1>2, IdleRequest DEF CacheInv, CacheTypeOK, KeyInHand
<1>5. StaleIsExcused'
  BY <1>1, <1>2, <1>3 DEF CacheInv, CacheTypeOK, StaleIsExcused
<1> QED
  BY <1>4, <1>5 DEF CacheInv

\* Readers overtaken by a write have read what is stale now, and nothing else changes.
LEMMA OvertakenRequests ==
    ASSUME CacheTypeOK, NEW D
    PROVE  /\ Overtaken(D) \in [Request -> RequestState]
           /\ \A q \in Request: /\ Overtaken(D)[q].step = request[q].step
                                /\ Overtaken(D)[q].key = request[q].key
                                /\ Overtaken(D)[q].pending = request[q].pending
<1> SUFFICES ASSUME NEW q \in Request
             PROVE  /\ Overtaken(D)[q] \in RequestState
                    /\ Overtaken(D)[q].step = request[q].step
                    /\ Overtaken(D)[q].key = request[q].key
                    /\ Overtaken(D)[q].pending = request[q].pending
  BY DEF Overtaken
<1>1. request[q] \in RequestState
  BY DEF CacheTypeOK
<1>2. Overtaken(D)[q] = [request[q] EXCEPT
          !.stale = request[q].stale \/ (request[q].step = "store" /\ request[q].key \in D)]
  BY DEF Overtaken
<1> QED
  BY <1>1, <1>2 DEF RequestState

LEMMA OutdatedEntries ==
    ASSUME CacheTypeOK, NEW D
    PROVE  /\ Outdated(D) \in [Key -> {"none", "fresh", "stale"}]
           /\ \A k \in Key: Outdated(D)[k] = "stale" =>
                  entry[k] = "stale" \/ (entry[k] = "fresh" /\ k \in D)
BY DEF CacheTypeOK, Outdated

\* The keys that an event deletes are those of the views that have changed, or more.
LEMMA EmitStep ==
    ASSUME CacheInv, NEW r \in Request, NEW k \in Key, NEW D \in SUBSET KeysOf(k),
           row' \in [User -> {"absent", "active", "deactivated"}],
           Emit(r, k, D)
    PROVE  CacheInv'
<1> DEFINE new == [Idle EXCEPT !.step = "invalidate", !.key = k, !.pending = KeysOf(k)]
<1>1. KeysOf(k) \in SUBSET Key /\ KeysOf(k) # {}
  BY DEF KeysOf, Key
<1>2. new \in RequestState /\ new.step = "invalidate" /\ new.key = k /\ new.pending = KeysOf(k)
  BY <1>1 DEF Idle, RequestState
<1>3. /\ entry' = Outdated(D)
      /\ request' = [Overtaken(D) EXCEPT ![r] = new]
      /\ excused' = excused
      /\ request[r].step = "idle"
  BY DEF Emit
<1> HIDE DEF new
<1>4. CacheTypeOK
  BY DEF CacheInv
<1>5. /\ request'[r] = new
      /\ \A q \in Request: q # r => request'[q] = Overtaken(D)[q]
      /\ request' \in [Request -> RequestState]
  BY <1>2, <1>3, <1>4, OvertakenRequests
<1>6. \A j \in Key: Owed(j) => Owed(j)'
  BY <1>3, <1>4, <1>5, OvertakenRequests, NothingPending, StillOwed
<1>7. \A j \in D: Owed(j)'
  BY <1>2, <1>5 DEF Owed
<1>8. CacheTypeOK'
  BY <1>1, <1>2, <1>3, <1>4, <1>5, OvertakenRequests, OutdatedEntries DEF CacheTypeOK
<1>9. KeyInHand'
  BY <1>2, <1>4, <1>5, OvertakenRequests DEF CacheInv, KeyInHand
<1>10. StaleIsExcused'
  BY <1>3, <1>4, <1>6, <1>7, OutdatedEntries DEF CacheInv, StaleIsExcused
<1> QED
  BY <1>8, <1>9, <1>10 DEF CacheInv

LEMMA WriteStep ==
    ASSUME CacheInv, NEW r \in Request, NEW u \in User,
           Create(r, u) \/ Update(r, u) \/ Deactivate(r, u)
    PROVE  CacheInv'
<1>1. row \in [User -> {"absent", "active", "deactivated"}]
  BY DEF CacheInv, CacheTypeOK
<1>2. CASE Create(r, u)
  <2>1. Emit(r, All, {All}) /\ row' \in [User -> {"absent", "active", "deactivated"}]
    BY <1>1, <1>2 DEF Create
  <2>2. {All} \in SUBSET KeysOf(All) /\ All \in Key
    BY DEF KeysOf, Key
  <2> QED
    BY <2>1, <2>2, EmitStep
<1>3. CASE Update(r, u) \/ Deactivate(r, u)
  <2>1. Emit(r, u, Views(u)) /\ row' \in [User -> {"absent", "active", "deactivated"}]
    BY <1>1, <1>3 DEF Update, Deactivate
  <2>2. Views(u) \in SUBSET KeysOf(u) /\ u \in Key
    BY DEF Views, KeysOf, Key
  <2> QED
    BY <2>1, <2>2, EmitStep
<1> QED
  BY <1>2, <1>3

LEMMA TouchStep ==
    ASSUME CacheInv, NEW u \in User, Touch(u)
    PROVE  CacheInv'
<1>1. CacheTypeOK /\ Views(u) \in SUBSET Key
  BY DEF CacheInv, Views, Key
<1>2. /\ entry' = Outdated(Views(u))
      /\ request' = Overtaken(Views(u))
      /\ excused' = excused \cup {k \in Views(u): entry[k] = "fresh" /\ ~Owed(k)}
      /\ UNCHANGED row
  BY DEF Touch
<1>3. \A j \in Key: Owed(j) <=> Owed(j)'
  BY <1>1, <1>2, OvertakenRequests DEF Owed
<1>4. CacheTypeOK' /\ KeyInHand'
  BY <1>1, <1>2, OvertakenRequests, OutdatedEntries DEF CacheInv, CacheTypeOK, KeyInHand
<1>5. StaleIsExcused'
  BY <1>1, <1>2, <1>3, OutdatedEntries DEF CacheInv, StaleIsExcused
<1> QED
  BY <1>4, <1>5 DEF CacheInv

\* One deletion less to do.
LEMMA SettledRequest ==
    ASSUME CacheTypeOK, NEW r \in Request, NEW k \in request[r].pending, request' = Settle(r, k)
    PROVE  /\ request' \in [Request -> RequestState]
           /\ \A q \in Request: q # r => request'[q] = request[q]
           /\ request'[r].pending = request[r].pending \ {k}
           /\ request'[r].key = request[r].key
           /\ request'[r].step = "invalidate" <=> request'[r].pending # {}
           /\ request[r].step = "invalidate"
<1> DEFINE new == [request[r] EXCEPT
                     !.pending = @ \ {k},
                     !.step = IF request[r].pending = {k} THEN "publish" ELSE @]
<1>1. request[r] \in RequestState /\ request[r].step = "invalidate"
  BY DEF CacheTypeOK
<1>2. /\ new \in RequestState /\ new.pending = request[r].pending \ {k}
      /\ new.key = request[r].key
      /\ new.step = IF request[r].pending = {k} THEN "publish" ELSE "invalidate"
  BY <1>1 DEF RequestState
<1>3. request' = [request EXCEPT ![r] = new]
  BY DEF Settle
<1> HIDE DEF new
<1> QED
  BY <1>1, <1>2, <1>3 DEF CacheTypeOK

LEMMA InvalidateStep ==
    ASSUME CacheInv, NEW r \in Request, NEW k \in Key, Invalidate(r, k) \/ InvalidateFails(r, k)
    PROVE  CacheInv'
<1>1. CacheTypeOK /\ k \in request[r].pending /\ request' = Settle(r, k) /\ row' = row
  BY DEF CacheInv, Invalidate, InvalidateFails
<1>2. /\ request' \in [Request -> RequestState]
      /\ \A q \in Request: q # r => request'[q] = request[q]
      /\ request'[r].pending = request[r].pending \ {k}
      /\ request'[r].key = request[r].key
      /\ request'[r].step = "invalidate" <=> request'[r].pending # {}
      /\ request[r].step = "invalidate"
  BY <1>1, SettledRequest
<1>3. KeyInHand'
  BY <1>2 DEF CacheInv, KeyInHand
<1>4. \A j \in Key: j # k /\ Owed(j) => Owed(j)'
  BY <1>1, <1>2, StillOwed
<1>5. CASE Invalidate(r, k)
  <2>1. entry' = [entry EXCEPT ![k] = "none"] /\ excused' = excused \ {k}
    BY <1>5 DEF Invalidate, Evict
  <2>2. CacheTypeOK'
    BY <1>1, <1>2, <2>1 DEF CacheTypeOK
  <2>3. StaleIsExcused'
    BY <1>1, <1>4, <2>1 DEF CacheInv, CacheTypeOK, StaleIsExcused
  <2> QED
    BY <1>3, <2>2, <2>3 DEF CacheInv
<1>6. CASE InvalidateFails(r, k)
  <2>1. entry' = entry /\ excused' = excused \cup Abandoned(r, {k})
    BY <1>6 DEF InvalidateFails
  <2>2. CacheTypeOK'
    BY <1>1, <1>2, <2>1 DEF CacheTypeOK, Abandoned
  <2>3. entry[k] = "stale" => k \in Abandoned(r, {k}) \/ Owed(k)'
    BY <1>2 DEF Abandoned, Owed
  <2>4. StaleIsExcused'
    BY <1>4, <2>1, <2>3 DEF CacheInv, StaleIsExcused
  <2> QED
    BY <1>3, <2>2, <2>4 DEF CacheInv
<1> QED
  BY <1>5, <1>6

LEMMA PublishStep ==
    ASSUME CacheInv, NEW r \in Request, Publish(r) \/ PublishFails(r)
    PROVE  CacheInv'
<1> DEFINE new == IF request'[r] = Idle THEN Idle ELSE [request[r] EXCEPT !.step = "deliver"]
<1>1. request[r] \in RequestState /\ request[r].pending = {} /\ request[r].key \in Key
  BY NothingPending DEF CacheInv, CacheTypeOK, KeyInHand, Publish, PublishFails
<1>2. /\ new \in RequestState
      /\ new.step \in {"idle", "deliver"} /\ new.pending = {}
      /\ new.step = "deliver" => new.key \in Key
  BY <1>1, IdleRequest DEF RequestState
<1>3. request' = [request EXCEPT ![r] = new] /\ UNCHANGED <<row, entry, excused>>
  <2>1. CASE Publish(r)
    <3>1. request' = [request EXCEPT ![r] = [request[r] EXCEPT !.step = "deliver"]]
      BY <2>1 DEF Publish
    <3>2. request'[r] = [request[r] EXCEPT !.step = "deliver"]
      BY <3>1 DEF CacheInv, CacheTypeOK
    <3> QED
      BY <2>1, <3>1, <3>2 DEF Publish
  <2>2. CASE PublishFails(r)
    <3>1. request' = [request EXCEPT ![r] = Idle] /\ request'[r] = Idle
      BY <2>2 DEF PublishFails, CacheInv, CacheTypeOK
    <3> QED
      BY <2>2, <3>1 DEF PublishFails
  <2> QED
    BY <2>1, <2>2
<1> HIDE DEF new
<1>4. \A j \in Key: Owed(j) => Owed(j)'
  BY <1>1, <1>2, <1>3, StillOwed DEF CacheInv, CacheTypeOK
<1> QED
  BY <1>2, <1>3, <1>4 DEF CacheInv, CacheTypeOK, KeyInHand, StaleIsExcused

LEMMA EvictStep ==
    ASSUME CacheInv, NEW k \in Key, Evict(k), UNCHANGED <<row, request>>
    PROVE  CacheInv'
<1>1. \A j \in Key: Owed(j) <=> Owed(j)'
  BY DEF Owed
<1> QED
  BY <1>1 DEF CacheInv, CacheTypeOK, KeyInHand, StaleIsExcused, Evict

LEMMA DieStep ==
    ASSUME CacheInv, NEW r \in Request, Die(r)
    PROVE  CacheInv'
<1>1. /\ excused' = excused \cup Abandoned(r, request[r].pending)
      /\ request' = [request EXCEPT ![r] = Idle]
      /\ UNCHANGED <<row, entry>>
  BY DEF Die
<1>2. CacheTypeOK /\ request[r].pending \in SUBSET Key
  BY DEF CacheInv, CacheTypeOK, RequestState
<1>3. \A j \in Key: entry[j] = "stale" /\ Owed(j) => Owed(j)' \/ j \in excused'
  BY <1>1, <1>2, IdleRequest DEF CacheTypeOK, Owed, Abandoned
<1>4. CacheTypeOK' /\ KeyInHand'
  BY <1>1, <1>2, IdleRequest DEF CacheInv, CacheTypeOK, KeyInHand, Abandoned
<1>5. StaleIsExcused'
  BY <1>1, <1>3 DEF CacheInv, StaleIsExcused
<1> QED
  BY <1>4, <1>5 DEF CacheInv

LEMMA ServeStep ==
    ASSUME CacheInv, NEW r \in Request, Serve(r)
    PROVE  CacheInv'
<1>1. ASSUME NEW k \in Key, Deliver(r, k) PROVE CacheInv'
  BY <1>1, EvictStep DEF Deliver
<1> QED
  BY <1>1, ReadStep, QueryStep, StoreStep, WriteStep, InvalidateStep, PublishStep, DieStep
  DEF Serve

LEMMA CacheUnchanged ==
    ASSUME CacheInv, UNCHANGED cacheVars
    PROVE  CacheInv'
BY DEF CacheInv, CacheTypeOK, KeyInHand, StaleIsExcused, Owed, cacheVars

LEMMA CacheInvStep == CacheInv /\ [Next]_vars => CacheInv'
<1> SUFFICES ASSUME CacheInv, [Next]_vars PROVE CacheInv'
  OBVIOUS
<1>1. CASE CacheStep
  <2>1. ASSUME NEW k \in Key, Expire(k) PROVE CacheInv'
    BY <2>1, EvictStep DEF Expire
  <2> QED
    BY <1>1, <2>1, ServeStep, TouchStep DEF CacheStep
<1>2. CASE LoginStep
  <2>1. ASSUME NEW r \in Request, Stamp(r) PROVE CacheInv'
    BY <2>1, TouchStep, AccountAssumption DEF Stamp
  <2> QED
    BY <1>2, <2>1, CacheUnchanged DEF LoginStep
<1>3. CASE KeyStep \/ UNCHANGED vars
  BY <1>3, CacheUnchanged DEF KeyStep, vars
<1> QED
  BY <1>1, <1>2, <1>3 DEF Next

-----------------------------------------------------------------------------
(* Logins *)

\* An attempt that has yet to be counted began under the limit.
UnderLimit ==
    \A r \in Request: attempt[r].step \in {"compare", "count"} => attempt[r].count < MaxFailures

\* While nothing is blurred, there is one attempt at a time, and it knows the count.
OneKnows ==
    ~blurred =>
        /\ \A p, q \in Counting: p = q
        /\ \A p \in Counting: attempt[p].count = failures

Blurred == blurred => tested = 0

\* The account of an attempt that began after its deactivation is seen not to be active.
BarredOut ==
    \A r \in Request: attempt[r].barred =>
        /\ row[Account] = "deactivated"
        /\ attempt[r].step # "stamp"
        /\ attempt[r].step \in {"clear", "admit"} => ~attempt[r].active

CountInv == LoginTypeOK /\ UnderLimit /\ OneKnows /\ Blurred /\ FailuresCounted

LoginInv == CountInv /\ BarredOut /\ row[Account] \in {"absent", "active", "deactivated"}

LEMMA IdleAttempt ==
    /\ NoAttempt \in AttemptState
    /\ NoAttempt.step = "idle" /\ NoAttempt.barred = FALSE
BY FailuresAssumption DEF NoAttempt, AttemptState

LEMMA LoginInitStep == CacheInit /\ LoginInit => LoginInv
<1> SUFFICES ASSUME CacheInit, LoginInit PROVE LoginInv
  OBVIOUS
<1>1. /\ \A r \in Request: attempt[r] = NoAttempt
      /\ attempt \in [Request -> AttemptState]
      /\ failures = 0 /\ ttl = 0 /\ tested = 0 /\ blurred = FALSE
  BY IdleAttempt DEF LoginInit
<1>2. LoginTypeOK
  <2>1. failures \in 0 .. MaxFailures /\ ttl \in 0 .. Lifetime
    BY <1>1, FailuresAssumption
  <2> QED
    BY <1>1, <2>1 DEF LoginTypeOK
<1>3. UnderLimit /\ OneKnows /\ Blurred /\ BarredOut
  BY <1>1, IdleAttempt DEF UnderLimit, OneKnows, Blurred, BarredOut, Counting
<1>4. FailuresCounted
  BY <1>1, IdleAttempt, FailuresAssumption DEF FailuresCounted
<1>5. row[Account] \in {"absent", "active", "deactivated"}
  BY AccountAssumption DEF CacheInit
<1> QED
  BY <1>2, <1>3, <1>4, <1>5 DEF LoginInv, CountInv

\* The ways an attempt moves on.
LEMMA EndedAttempt ==
    ASSUME LoginTypeOK, NEW r \in Request, EndAttempt(r)
    PROVE  /\ attempt' \in [Request -> AttemptState]
           /\ attempt'[r].step = "idle" /\ ~attempt'[r].barred
           /\ \A q \in Request: q # r => attempt'[q] = attempt[q]
BY IdleAttempt DEF EndAttempt, LoginTypeOK

LEMMA ProceededAttempt ==
    ASSUME LoginTypeOK, NEW r \in Request, NEW step \in {"count", "admit", "stamp"},
           Proceed(r, step)
    PROVE  /\ attempt' \in [Request -> AttemptState]
           /\ attempt'[r].step = step
           /\ attempt'[r].count = attempt[r].count
           /\ attempt'[r].active = attempt[r].active
           /\ attempt'[r].barred = attempt[r].barred
           /\ \A q \in Request: q # r => attempt'[q] = attempt[q]
BY DEF Proceed, LoginTypeOK, AttemptState

LEMMA BeginAttemptStep ==
    ASSUME LoginInv, NEW r \in Request, BeginAttempt(r), UNCHANGED row
    PROVE  LoginInv'
<1> DEFINE new == [step |-> "compare", count |-> failures, active |-> FALSE,
                   barred |-> row[Account] = "deactivated"]
<1>1. LoginTypeOK /\ failures < MaxFailures /\ attempt[r].step = "idle"
  BY FailuresAssumption DEF LoginInv, CountInv, BeginAttempt, Locked, LoginTypeOK
<1>2. /\ new \in AttemptState /\ new.step = "compare" /\ new.count = failures
      /\ new.barred => row[Account] = "deactivated"
  BY <1>1 DEF AttemptState, LoginTypeOK
<1>3. /\ attempt' = [attempt EXCEPT ![r] = new]
      /\ blurred' = (blurred \/ Counting # {})
      /\ tested' = IF blurred' THEN 0 ELSE tested
      /\ UNCHANGED <<failures, ttl>>
  BY DEF BeginAttempt
<1> HIDE DEF new
<1>4. attempt'[r] = new /\ \A q \in Request: q # r => attempt'[q] = attempt[q]
  BY <1>1, <1>3 DEF LoginTypeOK
<1>5. LoginTypeOK'
  BY <1>1, <1>2, <1>3 DEF LoginTypeOK
<1>6. UnderLimit' /\ BarredOut'
  BY <1>1, <1>2, <1>3, <1>4 DEF LoginInv, CountInv, UnderLimit, BarredOut
<1>7. OneKnows'
  BY <1>2, <1>3, <1>4 DEF OneKnows, Counting
<1>8. Blurred' /\ FailuresCounted'
  BY <1>2, <1>3, <1>4 DEF LoginInv, CountInv, Blurred, FailuresCounted, Counting
<1> QED
  BY <1>5, <1>6, <1>7, <1>8 DEF LoginInv, CountInv

\* Whoever could not read the count holds a lower one, and everything is blurred.
LEMMA BeginUnreadStep ==
    ASSUME LoginInv, NEW r \in Request, BeginUnread(r), UNCHANGED row
    PROVE  LoginInv'
<1> DEFINE new == [step |-> "compare", count |-> 0, active |-> FALSE,
                   barred |-> row[Account] = "deactivated"]
<1>1. LoginTypeOK /\ attempt[r].step = "idle"
  BY DEF LoginInv, CountInv, BeginUnread
<1>2. /\ new \in AttemptState /\ new.step = "compare" /\ new.count = 0
      /\ new.barred => row[Account] = "deactivated"
  <2>1. 0 \in 0 .. MaxFailures
    BY FailuresAssumption
  <2> QED
    BY <2>1 DEF AttemptState
<1>3. /\ attempt' = [attempt EXCEPT ![r] = new]
      /\ blurred' = TRUE /\ tested' = 0
      /\ UNCHANGED <<failures, ttl>>
  BY DEF BeginUnread
<1> HIDE DEF new
<1>4. attempt'[r] = new /\ \A q \in Request: q # r => attempt'[q] = attempt[q]
  BY <1>1, <1>3 DEF LoginTypeOK
<1>5. LoginTypeOK'
  BY <1>1, <1>2, <1>3 DEF LoginTypeOK
<1>6. UnderLimit' /\ BarredOut'
  BY <1>2, <1>4, FailuresAssumption DEF LoginInv, CountInv, UnderLimit, BarredOut
<1>7. OneKnows' /\ Blurred' /\ FailuresCounted'
  BY <1>3 DEF OneKnows, Blurred, FailuresCounted
<1> QED
  BY <1>5, <1>6, <1>7 DEF LoginInv, CountInv

LEMMA WrongPasswordStep ==
    ASSUME LoginInv, NEW r \in Request, WrongPassword(r), UNCHANGED row
    PROVE  LoginInv'
<1>1. /\ LoginTypeOK /\ attempt[r].step = "compare"
      /\ tested' = IF blurred THEN 0 ELSE tested + 1
      /\ Proceed(r, "count")
      /\ UNCHANGED <<failures, ttl, blurred>>
  BY DEF LoginInv, CountInv, WrongPassword
<1>2. /\ attempt' \in [Request -> AttemptState]
      /\ attempt'[r].step = "count"
      /\ attempt'[r].count = attempt[r].count
      /\ attempt'[r].barred = attempt[r].barred
      /\ \A q \in Request: q # r => attempt'[q] = attempt[q]
  BY <1>1, ProceededAttempt
<1>3. r \in Counting /\ attempt[r].count < MaxFailures
  BY <1>1 DEF Counting, LoginInv, CountInv, UnderLimit
<1>4. LoginTypeOK' /\ Blurred'
  BY <1>1, <1>2 DEF LoginTypeOK, Blurred
<1>5. UnderLimit' /\ BarredOut' /\ OneKnows'
  BY <1>1, <1>2 DEF LoginInv, CountInv, UnderLimit, BarredOut, OneKnows, Counting
<1>6. FailuresCounted'
  <2> SUFFICES ASSUME ~blurred
               PROVE  tested' = failures' + 1 /\ tested' <= MaxFailures
    BY <1>1, <1>2 DEF FailuresCounted
  <2>1. \A q \in Request: attempt[q].step # "count"
    BY <1>1, <1>3 DEF LoginInv, CountInv, OneKnows, Counting
  <2>2. tested = failures /\ attempt[r].count = failures
    BY <1>1, <1>3, <2>1 DEF LoginInv, CountInv, OneKnows, FailuresCounted, LoginTypeOK
  <2> QED
    BY <1>1, <1>3, <2>2, FailuresAssumption DEF LoginTypeOK
<1> QED
  BY <1>1, <1>4, <1>5, <1>6 DEF LoginInv, CountInv

LEMMA RightPasswordStep ==
    ASSUME LoginInv, NEW r \in Request, RightPassword(r), UNCHANGED row
    PROVE  LoginInv'
<1> DEFINE new == [attempt[r] EXCEPT !.step = "clear", !.active = row[Account] = "active"]
<1>1. LoginTypeOK /\ attempt[r].step = "compare" /\ attempt[r] \in AttemptState
  BY DEF LoginInv, CountInv, RightPassword, LoginTypeOK
<1>2. /\ new \in AttemptState /\ new.step = "clear" /\ new.count = attempt[r].count
      /\ new.active = (row[Account] = "active") /\ new.barred = attempt[r].barred
  BY <1>1 DEF AttemptState
<1>3. attempt' = [attempt EXCEPT ![r] = new] /\ UNCHANGED <<failures, ttl, tested, blurred>>
  BY DEF RightPassword
<1> HIDE DEF new
<1>4. attempt'[r] = new /\ \A q \in Request: q # r => attempt'[q] = attempt[q]
  BY <1>1, <1>3 DEF LoginTypeOK
<1>5. LoginTypeOK' /\ Blurred'
  BY <1>1, <1>2, <1>3 DEF LoginInv, CountInv, LoginTypeOK, Blurred
<1>6. UnderLimit' /\ OneKnows'
  BY <1>1, <1>2, <1>3, <1>4 DEF LoginInv, CountInv, UnderLimit, OneKnows, Counting
<1>7. BarredOut'
  BY <1>1, <1>2, <1>4 DEF LoginInv, BarredOut
<1>8. FailuresCounted'
  BY <1>1, <1>2, <1>3, <1>4 DEF LoginInv, CountInv, FailuresCounted
<1> QED
  BY <1>5, <1>6, <1>7, <1>8 DEF LoginInv, CountInv

LEMMA CountStep ==
    ASSUME LoginInv, NEW r \in Request, Count(r), UNCHANGED row
    PROVE  LoginInv'
<1>1. /\ LoginTypeOK /\ attempt[r].step = "count"
      /\ failures' = attempt[r].count + 1
      /\ ttl' = Lifetime
      /\ EndAttempt(r)
      /\ UNCHANGED <<tested, blurred>>
  BY DEF LoginInv, CountInv, Count
<1>2. /\ attempt' \in [Request -> AttemptState]
      /\ attempt'[r].step = "idle" /\ ~attempt'[r].barred
      /\ \A q \in Request: q # r => attempt'[q] = attempt[q]
  BY <1>1, EndedAttempt
<1>3. r \in Counting /\ attempt[r].count \in 0 .. MaxFailures /\ attempt[r].count < MaxFailures
  BY <1>1 DEF Counting, LoginInv, CountInv, UnderLimit, LoginTypeOK, AttemptState
<1>4. LoginTypeOK' /\ Blurred'
  BY <1>1, <1>2, <1>3, FailuresAssumption DEF LoginInv, CountInv, LoginTypeOK, Blurred
<1>5. UnderLimit' /\ BarredOut'
  BY <1>1, <1>2 DEF LoginInv, CountInv, UnderLimit, BarredOut
<1>6. ~blurred => \A q \in Request: q \notin Counting'
  BY <1>1, <1>2, <1>3 DEF LoginInv, CountInv, OneKnows, Counting
<1>7. OneKnows'
  BY <1>1, <1>6 DEF OneKnows, Counting
<1>8. FailuresCounted'
  <2> SUFFICES ASSUME ~blurred
               PROVE  tested' = failures' /\ tested' <= MaxFailures
    BY <1>1, <1>4, <1>6 DEF FailuresCounted, Counting, LoginTypeOK
  <2>1. tested = failures + 1 /\ tested <= MaxFailures
    BY <1>1 DEF LoginInv, CountInv, FailuresCounted
  <2>2. attempt[r].count = failures
    BY <1>3 DEF LoginInv, CountInv, OneKnows
  <2> QED
    BY <1>1, <2>1, <2>2
<1> QED
  BY <1>1, <1>4, <1>5, <1>7, <1>8 DEF LoginInv, CountInv

\* After a reset, what the attempts in D hold is blurred.
LEMMA ResetCounts ==
    ASSUME LoginTypeOK, NEW D, Reset(D), attempt' \in [Request -> AttemptState],
           \A q \in Request: q \in Counting' => q \in D
    PROVE  LoginTypeOK' /\ OneKnows' /\ Blurred' /\ FailuresCounted'
<1>1. failures' = 0 /\ ttl' = 0 /\ tested' = 0 /\ blurred' = (D # {})
  BY DEF Reset
<1>2. LoginTypeOK' /\ Blurred'
  BY <1>1, FailuresAssumption DEF LoginTypeOK, Blurred
<1>3. ~blurred' => \A q \in Request: q \notin Counting'
  BY <1>1
<1>4. OneKnows'
  BY <1>3 DEF OneKnows, Counting
<1>5. FailuresCounted'
  BY <1>1, <1>3, FailuresAssumption DEF FailuresCounted, Counting
<1> QED
  BY <1>2, <1>4, <1>5

LEMMA ClearStep ==
    ASSUME LoginInv, NEW r \in Request, Clear(r), UNCHANGED row
    PROVE  LoginInv'
<1>1. LoginTypeOK /\ attempt[r].step = "clear" /\ Reset(Counting \ {r}) /\ Proceed(r, "admit")
  BY DEF LoginInv, CountInv, Clear
<1>2. /\ attempt' \in [Request -> AttemptState]
      /\ attempt'[r].step = "admit"
      /\ attempt'[r].active = attempt[r].active
      /\ attempt'[r].barred = attempt[r].barred
      /\ \A q \in Request: q # r => attempt'[q] = attempt[q]
  BY <1>1, ProceededAttempt
<1>3. \A q \in Request: q \in Counting' => q \in Counting \ {r}
  BY <1>2 DEF Counting
<1>4. LoginTypeOK' /\ OneKnows' /\ Blurred' /\ FailuresCounted'
  BY <1>1, <1>2, <1>3, ResetCounts
<1>5. UnderLimit' /\ BarredOut'
  BY <1>1, <1>2 DEF LoginInv, CountInv, UnderLimit, BarredOut
<1> QED
  BY <1>4, <1>5 DEF LoginInv, CountInv

LEMMA ClearLostStep ==
    ASSUME LoginInv, NEW r \in Request, ClearLost(r), UNCHANGED row
    PROVE  LoginInv'
<1>1. /\ LoginTypeOK /\ attempt[r].step = "clear" /\ Proceed(r, "admit")
      /\ UNCHANGED <<failures, ttl, tested, blurred>>
  BY DEF LoginInv, CountInv, ClearLost
<1>2. /\ attempt' \in [Request -> AttemptState]
      /\ attempt'[r].step = "admit"
      /\ attempt'[r].active = attempt[r].active
      /\ attempt'[r].barred = attempt[r].barred
      /\ \A q \in Request: q # r => attempt'[q] = attempt[q]
  BY <1>1, ProceededAttempt
<1>3. LoginTypeOK' /\ Blurred'
  BY <1>1, <1>2 DEF LoginInv, CountInv, LoginTypeOK, Blurred
<1>4. UnderLimit' /\ OneKnows' /\ FailuresCounted'
  BY <1>1, <1>2 DEF LoginInv, CountInv, UnderLimit, OneKnows, FailuresCounted, Counting
<1>5. BarredOut'
  BY <1>1, <1>2 DEF LoginInv, BarredOut
<1> QED
  BY <1>3, <1>4, <1>5 DEF LoginInv, CountInv

LEMMA TickStep ==
    ASSUME LoginInv, Tick, UNCHANGED row
    PROVE  LoginInv'
<1>1. LoginTypeOK /\ attempt' = attempt /\ ttl > 0
  BY DEF LoginInv, CountInv, Tick
<1>2. UnderLimit' /\ BarredOut'
  BY <1>1 DEF LoginInv, CountInv, UnderLimit, BarredOut
<1>3. CASE ttl > 1 /\ ttl' = ttl - 1 /\ UNCHANGED <<failures, tested, blurred>>
  <2>1. LoginTypeOK'
    BY <1>1, <1>3, FailuresAssumption DEF LoginTypeOK
  <2>2. OneKnows' /\ Blurred' /\ FailuresCounted'
    BY <1>1, <1>3 DEF LoginInv, CountInv, OneKnows, Blurred, FailuresCounted, Counting
  <2> QED
    BY <1>2, <2>1, <2>2 DEF LoginInv, CountInv
<1>4. CASE ttl = 1 /\ Reset(Counting)
  <2>1. LoginTypeOK' /\ OneKnows' /\ Blurred' /\ FailuresCounted'
    <3>1. attempt' \in [Request -> AttemptState]
      BY <1>1 DEF LoginTypeOK
    <3>2. \A q \in Request: q \in Counting' => q \in Counting
      BY <1>1 DEF Counting
    <3> QED
      BY <1>1, <1>4, <3>1, <3>2, ResetCounts
  <2> QED
    BY <1>2, <2>1 DEF LoginInv, CountInv
<1> QED
  BY <1>3, <1>4 DEF Tick

LEMMA AdmitStep ==
    ASSUME LoginInv, NEW r \in Request, Admit(r), UNCHANGED row
    PROVE  LoginInv'
<1>1. LoginTypeOK /\ attempt[r].step = "admit" /\ UNCHANGED <<failures, ttl, tested, blurred>>
  BY DEF LoginInv, CountInv, Admit
<1>2. /\ attempt' \in [Request -> AttemptState]
      /\ attempt'[r].step \in {"idle", "stamp"}
      /\ attempt'[r].step = "stamp" => attempt[r].active
      /\ attempt'[r].barred => attempt[r].barred
      /\ \A q \in Request: q # r => attempt'[q] = attempt[q]
  <2>1. CASE attempt[r].active
    BY <1>1, <2>1, ProceededAttempt DEF Admit
  <2>2. CASE ~attempt[r].active
    BY <1>1, <2>2, EndedAttempt DEF Admit
  <2> QED
    BY <2>1, <2>2
<1>3. LoginTypeOK' /\ Blurred'
  BY <1>1, <1>2 DEF LoginInv, CountInv, LoginTypeOK, Blurred
<1>4. UnderLimit' /\ OneKnows' /\ FailuresCounted'
  BY <1>1, <1>2 DEF LoginInv, CountInv, UnderLimit, OneKnows, FailuresCounted, Counting
<1>5. BarredOut'
  BY <1>1, <1>2 DEF LoginInv, BarredOut
<1> QED
  BY <1>3, <1>4, <1>5 DEF LoginInv, CountInv

\* An attempt stops: by Abort while it may have a failure to count, or later.
LEMMA StopStep ==
    ASSUME LoginInv, NEW r \in Request, EndAttempt(r),
           UNCHANGED <<failures, ttl>>,
           blurred' = (blurred \/ r \in Counting),
           tested' = IF blurred' THEN 0 ELSE tested,
           row'[Account] = row[Account]
    PROVE  LoginInv'
<1>1. LoginTypeOK
  BY DEF LoginInv, CountInv
<1>2. /\ attempt' \in [Request -> AttemptState]
      /\ attempt'[r].step = "idle" /\ ~attempt'[r].barred
      /\ \A q \in Request: q # r => attempt'[q] = attempt[q]
  BY <1>1, EndedAttempt
<1>3. LoginTypeOK' /\ Blurred'
  BY <1>1, <1>2 DEF LoginTypeOK, Blurred
<1>4. UnderLimit' /\ BarredOut'
  BY <1>2 DEF LoginInv, CountInv, UnderLimit, BarredOut
<1>5. OneKnows'
  BY <1>2 DEF LoginInv, CountInv, OneKnows, Counting
<1>6. FailuresCounted'
  BY <1>2 DEF LoginInv, CountInv, FailuresCounted, Counting
<1> QED
  BY <1>3, <1>4, <1>5, <1>6 DEF LoginInv, CountInv

LEMMA AttemptStep ==
    ASSUME LoginInv, NEW r \in Request, Attempt(r), UNCHANGED row
    PROVE  LoginInv'
<1>1. CASE Abort(r)
  BY <1>1, StopStep DEF Abort
<1>2. CASE Refuse(r)
  BY <1>2 DEF Refuse, LoginInv, CountInv, LoginTypeOK, UnderLimit, OneKnows, Blurred,
              FailuresCounted, BarredOut, Counting, loginVars
<1> QED
  BY <1>1, <1>2, BeginAttemptStep, BeginUnreadStep, WrongPasswordStep, RightPasswordStep,
     CountStep, ClearStep, ClearLostStep, AdmitStep DEF Attempt

LEMMA StampStep ==
    ASSUME LoginInv, NEW r \in Request, Stamp(r)
    PROVE  LoginInv'
<1>1. r \notin Counting /\ EndAttempt(r) /\ UNCHANGED <<failures, ttl, tested, blurred, row>>
  BY DEF Stamp, Touch, Counting
<1>2. tested' = IF blurred' THEN 0 ELSE tested
  BY <1>1 DEF LoginInv, CountInv, Blurred
<1>3. blurred' = (blurred \/ r \in Counting)
  BY <1>1 DEF LoginInv, CountInv, LoginTypeOK
<1> QED
  BY <1>1, <1>2, <1>3, StopStep

\* What the handlers of the cache do to the row of the account.
LEMMA RowStep ==
    ASSUME LoginInv, UNCHANGED loginVars,
           row' = row \/ (\E r \in Request, u \in User: Create(r, u) \/ Deactivate(r, u)),
           row \in [User -> {"absent", "active", "deactivated"}]
    PROVE  LoginInv'
<1>1. /\ row'[Account] \in {"absent", "active", "deactivated"}
      /\ row[Account] = "deactivated" => row'[Account] = "deactivated"
  BY AccountAssumption DEF Create, Deactivate
<1> QED
  BY <1>1 DEF LoginInv, CountInv, LoginTypeOK, UnderLimit, OneKnows, Blurred,
              FailuresCounted, BarredOut, Counting, loginVars

LEMMA LoginInvStep == CacheInv /\ LoginInv /\ [Next]_vars => LoginInv'
<1> SUFFICES ASSUME CacheInv, LoginInv, [Next]_vars PROVE LoginInv'
  OBVIOUS
<1>0. row \in [User -> {"absent", "active", "deactivated"}]
  BY DEF CacheInv, CacheTypeOK
<1>1. CASE CacheStep
  <2>1. UNCHANGED loginVars
    BY <1>1 DEF CacheStep
  <2>2. row' = row \/ (\E r \in Request, u \in User: Create(r, u) \/ Deactivate(r, u))
    BY <1>1 DEF CacheStep, Serve, Read, Query, Store, Update, Touch, Invalidate,
                InvalidateFails, Publish, PublishFails, Deliver, Expire, Die
  <2> QED
    BY <1>0, <2>1, <2>2, RowStep
<1>2. CASE LoginStep
  BY <1>2, AttemptStep, StampStep, TickStep DEF LoginStep, cacheVars
<1>3. CASE KeyStep \/ UNCHANGED vars
  BY <1>0, <1>3, RowStep DEF KeyStep, vars, cacheVars
<1> QED
  BY <1>1, <1>2, <1>3 DEF Next

-----------------------------------------------------------------------------
(* API keys *)

\* Who came with a revoked key has not found it yet, and it still is revoked.
LateOut ==
    \A r \in Request: call[r].late =>
        call[r].step = "find" /\ apiKey[call[r].key] = "revoked"

KeysInv == KeysTypeOK /\ LateOut

LEMMA NoCallState == NoCall \in CallState /\ NoCall.step = "idle" /\ ~NoCall.late
BY DEF NoCall, CallState

LEMMA KeysInitStep == KeysInit => KeysInv
BY NoCallState DEF KeysInit, KeysInv, KeysTypeOK, LateOut

LEMMA HungUp ==
    ASSUME KeysTypeOK, NEW r \in Request, Hang(r)
    PROVE  /\ call' \in [Request -> CallState]
           /\ call'[r].step = "idle" /\ ~call'[r].late
           /\ \A q \in Request: q # r => call'[q] = call[q]
BY NoCallState DEF Hang, KeysTypeOK

LEMMA Advanced ==
    ASSUME KeysTypeOK, NEW r \in Request, NEW step \in {"use", "serve"}, Advance(r, step)
    PROVE  /\ call' \in [Request -> CallState]
           /\ call'[r].step = step
           /\ call'[r].key = call[r].key
           /\ call'[r].late = call[r].late
           /\ \A q \in Request: q # r => call'[q] = call[q]
BY DEF Advance, KeysTypeOK, CallState


\* No step makes a revoked key anything else.
RevokedStay == \A k \in ApiKey: apiKey[k] = "revoked" => apiKey'[k] = "revoked"

LEMMA CreateKeyStep ==
    ASSUME KeysInv, NEW k \in ApiKey, CreateKey(k)
    PROVE  KeysInv' /\ RevokedStay
BY DEF KeysInv, KeysTypeOK, LateOut, CreateKey, RevokedStay

LEMMA ComeInStep ==
    ASSUME KeysInv, NEW r \in Request, NEW k \in ApiKey, Present(r, k) \/ FindOwnKey(r, k)
    PROVE  KeysInv' /\ RevokedStay
<1> DEFINE sent == [step |-> "find", key |-> k, late |-> apiKey[k] = "revoked"]
           own == [NoCall EXCEPT !.step = "revoke", !.key = k]
<1>1. /\ sent \in CallState /\ sent.step = "find" /\ sent.key = k
      /\ sent.late => apiKey[k] = "revoked"
  BY DEF CallState
<1>2. own \in CallState /\ own.step = "revoke" /\ own.key = k /\ ~own.late
  BY DEF CallState, NoCall
<1>3. CASE Present(r, k)
  <2>1. call' = [call EXCEPT ![r] = sent] /\ UNCHANGED apiKey
    BY <1>3 DEF Present
  <2> HIDE DEF sent
  <2> QED
    BY <1>1, <2>1 DEF KeysInv, KeysTypeOK, LateOut, RevokedStay
<1>4. CASE FindOwnKey(r, k)
  <2>1. call' = [call EXCEPT ![r] = own] /\ UNCHANGED apiKey /\ apiKey[k] # "absent"
    BY <1>4 DEF FindOwnKey
  <2> HIDE DEF own
  <2> QED
    BY <1>2, <2>1 DEF KeysInv, KeysTypeOK, LateOut, RevokedStay
<1> QED
  BY <1>3, <1>4

LEMMA FindKeyStep ==
    ASSUME KeysInv, NEW r \in Request, FindKey(r)
    PROVE  KeysInv' /\ RevokedStay
<1>1. KeysTypeOK /\ call[r].step = "find" /\ UNCHANGED apiKey
  BY DEF KeysInv, FindKey
<1>2. CASE apiKey[call[r].key] = "live"
  BY <1>1, <1>2, Advanced DEF FindKey, KeysInv, KeysTypeOK, LateOut, RevokedStay
<1>3. CASE apiKey[call[r].key] # "live"
  BY <1>1, <1>3, HungUp DEF FindKey, KeysInv, KeysTypeOK, LateOut, RevokedStay
<1> QED
  BY <1>2, <1>3

LEMMA LaterCallStep ==
    ASSUME KeysInv, NEW r \in Request, UseKey(r) \/ RevokeKey(r) \/ HangUp(r)
    PROVE  KeysInv' /\ RevokedStay
<1>1. KeysTypeOK
  BY DEF KeysInv
<1>2. CASE UseKey(r)
  BY <1>1, <1>2, Advanced DEF UseKey, KeysInv, KeysTypeOK, LateOut, RevokedStay
<1>3. CASE RevokeKey(r)
  <2>1. call[r].key \in ApiKey /\ apiKey' = [apiKey EXCEPT ![call[r].key] = "revoked"] /\ Hang(r)
    BY <1>1, <1>3 DEF RevokeKey, KeysTypeOK
  <2> QED
    BY <1>1, <2>1, HungUp DEF KeysInv, KeysTypeOK, LateOut, RevokedStay
<1>4. CASE HangUp(r)
  BY <1>1, <1>4, HungUp DEF HangUp, KeysInv, KeysTypeOK, LateOut, RevokedStay
<1> QED
  BY <1>2, <1>3, <1>4

LEMMA KeysInvStep == KeysInv /\ [Next]_vars => KeysInv' /\ RevokedStay
<1> SUFFICES ASSUME KeysInv, [Next]_vars PROVE KeysInv' /\ RevokedStay
  OBVIOUS
<1>1. CASE KeyStep
  BY <1>1, CreateKeyStep, ComeInStep, FindKeyStep, LaterCallStep DEF KeyStep, Call
<1>2. CASE UNCHANGED keyVars
  BY <1>2 DEF KeysInv, KeysTypeOK, LateOut, RevokedStay, keyVars
<1> QED
  BY <1>1, <1>2 DEF Next, CacheStep, LoginStep, vars

-----------------------------------------------------------------------------
(* Theorems *)

THEOREM Invariance == Spec => [](CacheInv /\ LoginInv /\ KeysInv)
<1>1. Init => CacheInv /\ LoginInv /\ KeysInv
  BY CacheInitStep, LoginInitStep, KeysInitStep DEF Init
<1>2. CacheInv /\ LoginInv /\ KeysInv /\ [Next]_vars => (CacheInv /\ LoginInv /\ KeysInv)'
  BY CacheInvStep, LoginInvStep, KeysInvStep
<1> QED
  BY <1>1, <1>2, PTL DEF Spec

\* Rows, entries and handlers are of their kind; whoever invalidates has keys to delete.
THEOREM CacheTypeCorrect == Spec => []CacheTypeOK
<1>1. CacheInv => CacheTypeOK
  BY DEF CacheInv
<1> QED
  BY <1>1, Invariance, PTL

\* users.service.ts and cache-invalidation.service.ts: apart from refills by overtaken
\* readers, lost deletions and writes without an event, a stale entry is about to go.
THEOREM StaleOnlyIfExcused == Spec => []StaleIsExcused
<1>1. CacheInv => StaleIsExcused
  BY DEF CacheInv
<1> QED
  BY <1>1, Invariance, PTL

\* The count of failures never exceeds the limit, and lives exactly while it has a TTL.
THEOREM LoginTypeCorrect == Spec => []LoginTypeOK
<1>1. LoginInv => LoginTypeOK
  BY DEF LoginInv, CountInv
<1> QED
  BY <1>1, Invariance, PTL

\* login(): failures that do not overlap all count, and are never more than the limit.
THEOREM EveryFailureCounts == Spec => []FailuresCounted
<1>1. LoginInv => FailuresCounted
  BY DEF LoginInv, CountInv
<1> QED
  BY <1>1, Invariance, PTL

\* login(): a deactivated user has no way in, whatever the cache says.
THEOREM DeactivatedIsOut == Spec => []DeactivatedStayOut
<1>1. LoginInv => DeactivatedStayOut
  BY DEF LoginInv, BarredOut, DeactivatedStayOut
<1> QED
  BY <1>1, Invariance, PTL

\* login(): a refusal writes nothing, and who reads a count at its limit is refused; only an
\* attempt that had read a count one below the limit may set the lifetime again, once.
THEOREM LockoutsRunDown == Spec => LockoutRunsDown
<1>1. ASSUME LoginInv, [Next]_vars, Locked, Locked'
      PROVE  Pressing' \subseteq Pressing /\ (ttl' > ttl => Pressing' # Pressing)
  <2>0. LoginTypeOK
    BY <1>1 DEF LoginInv, CountInv
  <2>1. CASE UNCHANGED loginVars
    BY <2>0, <2>1 DEF loginVars, Pressing, LoginTypeOK
  <2>2. ASSUME NEW r \in Request, Attempt(r) \/ Stamp(r)
        PROVE  Pressing' \subseteq Pressing /\ (ttl' > ttl => Pressing' # Pressing)
    <3>1. \A q \in Request: q # r => attempt'[q] = attempt[q]
      BY <2>0, <2>2
      DEF Attempt, BeginAttempt, BeginUnread, Refuse, WrongPassword, RightPassword, Count,
          Clear, ClearLost, Admit, Abort, Stamp, Proceed, EndAttempt, loginVars, LoginTypeOK
    <3>2. r \in Pressing' => r \in Pressing
      <4>1. CASE BeginUnread(r)
        <5>1. attempt'[r].count = 0
          BY <2>0, <4>1 DEF BeginUnread, LoginTypeOK
        <5> QED
          BY <5>1, FailuresAssumption DEF Pressing
      <4>2. CASE ~BeginUnread(r)
        BY <1>1, <2>0, <2>2, <4>2, IdleAttempt
        DEF Attempt, BeginAttempt, Refuse, WrongPassword, RightPassword, Count, Clear,
            ClearLost, Admit, Abort, Stamp, Proceed, EndAttempt, loginVars, LoginTypeOK,
            Pressing, AttemptState
      <4> QED
        BY <4>1, <4>2
    <3>3. ttl' > ttl => r \in Pressing /\ r \notin Pressing'
      <4>1. CASE Count(r)
        BY <1>1, <2>0, <4>1, EndedAttempt DEF Count, Pressing, Locked
      <4>2. CASE ~Count(r)
        BY <1>1, <2>0, <2>2, <4>2
        DEF Attempt, BeginAttempt, BeginUnread, Refuse, WrongPassword, RightPassword, Clear,
            ClearLost, Reset, Admit, Abort, Stamp, loginVars, LoginTypeOK
      <4> QED
        BY <4>1, <4>2
    <3>4. Pressing' \subseteq Pressing
      BY <3>1, <3>2 DEF Pressing
    <3> QED
      BY <3>3, <3>4
  <2>3. CASE Tick
    BY <2>0, <2>3 DEF Tick, Reset, Pressing, LoginTypeOK
  <2> QED
    BY <1>1, <2>1, <2>2, <2>3 DEF Next, CacheStep, LoginStep, KeyStep, vars
<1>2. LoginInv /\ [Next]_vars =>
        [Locked /\ Locked' => /\ Pressing' \subseteq Pressing
                              /\ ttl' > ttl => Pressing' # Pressing]_loginVars
  BY <1>1
<1> QED
  BY <1>2, Invariance, PTL DEF Spec, LockoutRunsDown

\* Calls and keys are of their kind, and a key to be updated exists.
THEOREM KeysTypeCorrect == Spec => []KeysTypeOK
<1>1. KeysInv => KeysTypeOK
  BY DEF KeysInv
<1> QED
  BY <1>1, Invariance, PTL

\* validate(): a key revoked before the request came in is refused.
THEOREM RevokedIsRefused == Spec => []RevokedKeysRefused
<1>1. KeysInv => RevokedKeysRefused
  BY DEF KeysInv, LateOut, RevokedKeysRefused
<1> QED
  BY <1>1, Invariance, PTL

\* validate() and revoke(): no step makes a revoked key anything else.
THEOREM RevocationStays == Spec => RevocationFinal
<1>1. KeysInv /\ [Next]_vars => [RevokedStay]_keyVars
  BY KeysInvStep
<1>2. [RevokedStay]_keyVars =>
      [\A k \in ApiKey: apiKey[k] = "revoked" => apiKey'[k] = "revoked"]_keyVars
  BY DEF RevokedStay
<1> QED
  BY <1>1, <1>2, Invariance, PTL DEF Spec, RevocationFinal
=============================================================================
