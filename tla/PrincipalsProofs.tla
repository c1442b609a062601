-------------------------- MODULE PrincipalsProofs --------------------------
(***************************************************************************)
(* Proofs about Principals, for any number of instances and requests, any  *)
(* role sets and any TTL: no request acts as what its user stopped to be   *)
(* a TTL or more before it came in, and no refusal is a stale one.         *)
(***************************************************************************)
EXTENDS Principals, TLAPS

\* What an entry says the row was.
Said(i) == [roles |-> cache[i].roles, isActive |-> cache[i].ok]

\* A row that was inactive once is inactive now.
InactiveForGood(v) == ~v.isActive => ~row.isActive

\* An entry holds what the row was at some time in the life of the entry, or later.
EntriesFresh ==
    \A i \in Instance: cache[i] # NoEntry =>
        /\ cache[i].exp - TTL <= clock
        /\ HeldSince(Said(i), cache[i].exp - TTL)
        /\ InactiveForGood(Said(i))

\* So does what a lookup has read, from the time its request came in; what a
\* request acts as may be as old as an entry was.
Sound(q) ==
    /\ q.step # "idle" => q.at \in Instance /\ q.now <= clock
    /\ q.step = "fill" => /\ q.read \in Row
                          /\ HeldSince(q.read, q.now)
                          /\ InactiveForGood(q.read)
    /\ q.step = "act" => /\ q.read \in Row
                         /\ q.read.isActive
                         /\ HeldSince(q.read, q.now - TTL + 1)

RequestsSound == \A r \in Request: Sound(request[r])

IInv ==
    /\ TypeOK
    /\ EntriesFresh
    /\ RequestsSound

USE NullsAssumption, TimeAssumption

-----------------------------------------------------------------------------
(* Lemmas about rows, entries and requests *)

LEMMA SaidIsRow ==
    ASSUME TypeOK, NEW i \in Instance, cache[i] # NoEntry
    PROVE  cache[i] \in Entry /\ Said(i) \in Row
BY DEF TypeOK, Entry, Row, Said

\* A write is remembered: what was held since a time in the past still counts.
LEMMA WriteKeepsHeld ==
    ASSUME TypeOK, NEW v \in Row, Write(v), NEW w \in Row, NEW t \in Int,
           t <= clock, HeldSince(w, t)
    PROVE  HeldSince(w, t)'
BY DEF TypeOK, Write, HeldSince

LEMMA WriteType ==
    ASSUME TypeOK, NEW v \in Row, Write(v)
    PROVE  row' \in Row /\ lastHeld' \in [Row -> Int]
BY DEF TypeOK, Write

\* What changes no entry and no row keeps what is said about the entries.
LEMMA SameEntries ==
    ASSUME EntriesFresh, UNCHANGED <<row, cache, clock, lastHeld>>
    PROVE  EntriesFresh'
BY DEF EntriesFresh, Said, HeldSince, InactiveForGood

\* Dropping an entry, too.
LEMMA DroppedEntry ==
    ASSUME TypeOK, EntriesFresh, NEW i \in Instance,
           cache' = [cache EXCEPT ![i] = NoEntry], UNCHANGED <<row, clock, lastHeld>>
    PROVE  EntriesFresh'
<1>1. \A j \in Instance: cache'[j] # NoEntry => cache'[j] = cache[j]
  BY DEF TypeOK
<1> QED
  BY <1>1 DEF EntriesFresh, Said, HeldSince, InactiveForGood

\* A request may move on to any state the invariant allows.
LEMMA OneRequest ==
    ASSUME TypeOK, RequestsSound, UNCHANGED <<row, clock, lastHeld>>,
           NEW r \in Request, NEW new \in RequestState, Sound(new),
           request' = [request EXCEPT ![r] = new]
    PROVE  RequestsSound' /\ request' \in [Request -> RequestState]
<1>1. /\ request'[r] = new
      /\ \A q \in Request: q # r => request'[q] = request[q]
      /\ request' \in [Request -> RequestState]
  BY DEF TypeOK
<1> QED
  BY <1>1 DEF RequestsSound, Sound, HeldSince, InactiveForGood

LEMMA IdleSound == Idle \in RequestState /\ Sound(Idle)
BY DEF Idle, RequestState, Sound

\* A step that only moves a request on.
LEMMA RequestStep ==
    ASSUME IInv, UNCHANGED <<row, cache, clock, lastHeld>>,
           NEW r \in Request, NEW new \in RequestState, Sound(new),
           request' = [request EXCEPT ![r] = new]
    PROVE  IInv'
<1>1. RequestsSound' /\ request' \in [Request -> RequestState]
  BY OneRequest DEF IInv
<1>2. EntriesFresh'
  BY SameEntries DEF IInv
<1> QED
  BY <1>1, <1>2 DEF IInv, TypeOK

-----------------------------------------------------------------------------
(* One lemma per action *)

LEMMA Initially == Init => IInv
<1> SUFFICES ASSUME Init PROVE IInv
  OBVIOUS
<1>1. TypeOK
  BY IdleSound DEF Init, TypeOK
<1>2. EntriesFresh
  BY DEF Init, EntriesFresh
<1>3. RequestsSound
  BY IdleSound DEF Init, RequestsSound
<1> QED
  BY <1>1, <1>2, <1>3 DEF IInv

LEMMA ValidateCachedStep ==
    ASSUME IInv, NEW r \in Request, NEW i \in Instance, ValidateCached(r, i)
    PROVE  IInv'
<1> DEFINE new == [step |-> "act", at |-> i, now |-> clock,
                   read |-> [roles |-> cache[i].roles, isActive |-> TRUE]]
<1>1. /\ cache[i] \in Entry
      /\ Said(i) \in Row
      /\ new.read = Said(i)
      /\ cache[i].exp > clock
      /\ HeldSince(Said(i), cache[i].exp - TTL)
  BY SaidIsRow DEF IInv, EntriesFresh, ValidateCached, Usable, Said, Entry
<1>2. HeldSince(Said(i), clock - TTL + 1)
  BY <1>1 DEF IInv, TypeOK, HeldSince, Entry
<1>3. new \in RequestState /\ Sound(new)
  <2>1. /\ new \in RequestState
        /\ clock \in Nat
        /\ new.step = "act"
        /\ new.at = i
        /\ new.now = clock
        /\ new.read.isActive
    BY <1>1 DEF RequestState, IInv, TypeOK
  <2>2. new.read \in Row /\ HeldSince(new.read, new.now - TTL + 1)
    BY <1>1, <1>2
  <2> HIDE DEF new
  <2> QED
    BY <2>1, <2>2 DEF Sound
<1>4. /\ request' = [request EXCEPT ![r] = new]
      /\ UNCHANGED <<row, cache, clock, lastHeld>>
  BY DEF ValidateCached
<1> QED
  BY <1>3, <1>4, RequestStep

LEMMA ValidateStep ==
    ASSUME IInv, NEW r \in Request, NEW i \in Instance, Validate(r, i)
    PROVE  IInv'
<1> DEFINE new == [Idle EXCEPT !.step = "find", !.at = i, !.now = clock]
<1>1. new \in RequestState /\ Sound(new)
  <2>1. /\ new \in RequestState
        /\ clock \in Nat
        /\ new.step = "find"
        /\ new.at = i
        /\ new.now = clock
    BY DEF Idle, RequestState, IInv, TypeOK
  <2> HIDE DEF new
  <2> QED
    BY <2>1 DEF Sound
<1>2. /\ request' = [request EXCEPT ![r] = new]
      /\ UNCHANGED <<row, cache, clock, lastHeld>>
  BY DEF Validate
<1> QED
  BY <1>1, <1>2, RequestStep

LEMMA FindUserStep ==
    ASSUME IInv, NEW r \in Request, FindUser(r)
    PROVE  IInv'
<1> DEFINE new == [request[r] EXCEPT !.step = "fill", !.read = row]
<1>1. /\ request[r] \in RequestState
      /\ row \in Row
      /\ Sound(request[r])
      /\ request[r].step = "find"
  BY DEF FindUser, IInv, TypeOK, RequestsSound
<1>2. new \in RequestState /\ Sound(new)
  BY <1>1 DEF RequestState, Sound, HeldSince, InactiveForGood
<1>3. /\ request' = [request EXCEPT ![r] = new]
      /\ UNCHANGED <<row, cache, clock, lastHeld>>
  BY DEF FindUser
<1> QED
  BY <1>2, <1>3, RequestStep

\* A new entry lives from the time its request came in.
LEMMA SetCacheEntryStep ==
    ASSUME IInv, NEW r \in Request, SetCacheEntry(r)
    PROVE  IInv'
<1> DEFINE i == request[r].at
           e == EntryOf(r, request[r].now)
           new == IF request[r].read.isActive THEN [request[r] EXCEPT !.step = "act"] ELSE Idle
<1>1. /\ request[r] \in RequestState
      /\ request[r].step = "fill"
      /\ i \in Instance
      /\ request[r].read \in Row
      /\ request[r].now \in Nat
      /\ request[r].now <= clock
      /\ HeldSince(request[r].read, request[r].now)
      /\ InactiveForGood(request[r].read)
  BY DEF IInv, TypeOK, RequestsSound, Sound, SetCacheEntry, RequestState
<1>2. /\ e \in Entry
      /\ e.exp = request[r].now + TTL
      /\ [roles |-> e.roles, isActive |-> e.ok] = request[r].read
  BY <1>1 DEF EntryOf, Entry, Row
<1>3. /\ request' = [request EXCEPT ![r] = new]
      /\ cache' = [cache EXCEPT ![i] = e]
      /\ UNCHANGED <<row, clock, lastHeld>>
  BY DEF SetCacheEntry, Answer
<1>4. new \in RequestState /\ Sound(new)
  <2>1. CASE request[r].read.isActive
    <3>1. /\ new \in RequestState
          /\ new.step = "act"
          /\ new.at = i
          /\ new.now = request[r].now
          /\ new.read = request[r].read
      BY <1>1, <2>1 DEF RequestState
    <3>2. HeldSince(request[r].read, request[r].now - TTL + 1)
      BY <1>1 DEF HeldSince, IInv, TypeOK
    <3> HIDE DEF new
    <3> QED
      BY <1>1, <2>1, <3>1, <3>2 DEF Sound
  <2>2. CASE ~request[r].read.isActive
    BY <2>2, IdleSound
  <2> QED
    BY <2>1, <2>2
<1> HIDE DEF new
<1>5. RequestsSound' /\ request' \in [Request -> RequestState]
  BY <1>3, <1>4, OneRequest DEF IInv
<1> HIDE DEF i, e
<1>6. /\ cache' \in [Instance -> Entry \cup {NoEntry}]
      /\ cache'[i] = e
      /\ \A j \in Instance: j # i => cache'[j] = cache[j]
  BY <1>1, <1>2, <1>3 DEF IInv, TypeOK, i
<1>7. EntriesFresh'
  BY <1>1, <1>2, <1>3, <1>6
  DEF IInv, TypeOK, EntriesFresh, Said, HeldSince, InactiveForGood
<1> QED
  BY <1>3, <1>5, <1>6, <1>7 DEF IInv, TypeOK

\* A change of the row outdates entries and reads, but not the times they refer to.
LEMMA WriteStep ==
    ASSUME IInv, NEW r \in Request, NEW i \in Instance, NEW v \in Row,
           Write(v), Changed(r, i), ~row.isActive => ~v.isActive,
           UNCHANGED <<cache, clock>>
    PROVE  IInv'
<1> DEFINE new == [Idle EXCEPT !.step = "emit", !.at = i]
<1>1. /\ new \in RequestState
      /\ new.step = "emit"
      /\ new.at = i
      /\ new.now = 0
  BY DEF Idle, RequestState
<1>2. request' = [request EXCEPT ![r] = new]
  BY DEF Changed
<1> HIDE DEF new
<1>3. /\ request' \in [Request -> RequestState]
      /\ request'[r] = new
      /\ \A q \in Request: q # r => request'[q] = request[q]
  BY <1>1, <1>2 DEF IInv, TypeOK
<1>4. TypeOK'
  BY <1>3, WriteType DEF IInv, TypeOK
<1>5. \A w \in Row: InactiveForGood(w) => (~w.isActive => ~row'.isActive)
  BY DEF InactiveForGood, Write
<1>6. \A w \in Row, t \in Int:
        t <= clock /\ HeldSince(w, t) => row' = w \/ lastHeld'[w] >= t
  BY WriteKeepsHeld DEF IInv, HeldSince
<1>7. EntriesFresh'
  <2> SUFFICES ASSUME NEW j \in Instance, cache[j] # NoEntry
               PROVE  /\ cache[j].exp - TTL <= clock
                      /\ row' = Said(j) \/ lastHeld'[Said(j)] >= cache[j].exp - TTL
                      /\ ~Said(j).isActive => ~row'.isActive
    BY DEF EntriesFresh, HeldSince, InactiveForGood, Said
  <2>1. /\ cache[j].exp - TTL \in Int
        /\ cache[j].exp - TTL <= clock
        /\ Said(j) \in Row
        /\ HeldSince(Said(j), cache[j].exp - TTL)
        /\ InactiveForGood(Said(j))
    BY SaidIsRow DEF IInv, EntriesFresh, Entry
  <2> QED
    BY <1>5, <1>6, <2>1
<1>8. RequestsSound'
  <2> SUFFICES ASSUME NEW q \in Request PROVE Sound(request[q])'
    BY DEF RequestsSound
  <2>1. CASE q = r
    BY <1>1, <1>3, <2>1 DEF Sound, IInv, TypeOK
  <2>2. CASE q # r
    <3>1. /\ request[q] \in RequestState
          /\ request[q].now \in Nat
          /\ clock \in Nat
          /\ Sound(request[q])
          /\ request'[q] = request[q]
      BY <1>3, <2>2 DEF IInv, TypeOK, RequestsSound, RequestState
    <3>2. CASE request[q].step = "fill"
      BY <1>5, <1>6, <3>1, <3>2 DEF Sound, HeldSince, InactiveForGood
    <3>3. CASE request[q].step = "act"
      BY <1>6, <3>1, <3>3 DEF Sound, HeldSince
    <3> QED
      BY <3>1, <3>2, <3>3 DEF Sound
  <2> QED
    BY <2>1, <2>2
<1> QED
  BY <1>4, <1>7, <1>8 DEF IInv

LEMMA SetRolesStep ==
    ASSUME IInv, NEW r \in Request, NEW i \in Instance, NEW R \in Roles, SetRoles(r, i, R)
    PROVE  IInv'
<1>1. /\ [row EXCEPT !.roles = R] \in Row
      /\ [row EXCEPT !.roles = R].isActive = row.isActive
  BY DEF IInv, TypeOK, Row
<1> QED
  BY <1>1, WriteStep DEF SetRoles

LEMMA DeactivateStep ==
    ASSUME IInv, NEW r \in Request, NEW i \in Instance, Deactivate(r, i)
    PROVE  IInv'
<1>1. /\ [row EXCEPT !.isActive = FALSE] \in Row
      /\ [row EXCEPT !.isActive = FALSE].isActive = FALSE
  BY DEF IInv, TypeOK, Row
<1> QED
  BY <1>1, WriteStep DEF Deactivate

LEMMA UpdateProfileStep ==
    ASSUME IInv, NEW r \in Request, UpdateProfile(r)
    PROVE  IInv'
<1> DEFINE new == [Idle EXCEPT !.step = "emit", !.at = request[r].at]
<1>1. request[r].at \in Instance /\ clock \in Nat
  BY DEF UpdateProfile, IInv, TypeOK, RequestsSound, Sound
<1>2. new \in RequestState /\ Sound(new)
  <2>1. /\ new \in RequestState
        /\ new.step = "emit"
        /\ new.at = request[r].at
        /\ new.now = 0
    BY <1>1 DEF Idle, RequestState
  <2> HIDE DEF new
  <2> QED
    BY <1>1, <2>1 DEF Sound
<1>3. /\ request' = [request EXCEPT ![r] = new]
      /\ UNCHANGED <<row, cache, clock, lastHeld>>
  BY DEF UpdateProfile, Changed
<1> QED
  BY <1>2, <1>3, RequestStep

LEMMA EmitChangedStep ==
    ASSUME IInv, NEW r \in Request, EmitChanged(r)
    PROVE  IInv'
<1>1. request[r].at \in Instance
  BY DEF EmitChanged, IInv, RequestsSound, Sound
<1>2. EntriesFresh'
  BY <1>1, DroppedEntry DEF EmitChanged, IInv
<1>3. RequestsSound' /\ request' \in [Request -> RequestState]
  BY IdleSound, OneRequest DEF EmitChanged, Finish, IInv
<1>4. TypeOK'
  BY <1>1, <1>3 DEF EmitChanged, IInv, TypeOK
<1> QED
  BY <1>2, <1>3, <1>4 DEF IInv

LEMMA EndStep ==
    ASSUME IInv, NEW r \in Request, End(r)
    PROVE  IInv'
BY IdleSound, RequestStep DEF End, Finish

LEMMA RestartStep ==
    ASSUME IInv, NEW i \in Instance, Restart(i)
    PROVE  IInv'
<1>1. EntriesFresh'
  BY DroppedEntry DEF Restart, IInv
<1>2. /\ request' \in [Request -> RequestState]
      /\ \A r \in Request: request'[r] = request[r] \/ request'[r] = Idle
  BY IdleSound DEF Restart, IInv, TypeOK
<1>3. TypeOK'
  BY <1>2 DEF Restart, IInv, TypeOK
<1>4. RequestsSound'
  BY <1>2 DEF Restart, IInv, RequestsSound, Sound, Idle, HeldSince, InactiveForGood
<1> QED
  BY <1>1, <1>3, <1>4 DEF IInv

LEMMA TickStep == IInv /\ Tick => IInv'
<1> SUFFICES ASSUME IInv, Tick PROVE IInv'
  OBVIOUS
<1>1. clock \in Nat /\ clock' = clock + 1 /\ UNCHANGED <<row, cache, request, lastHeld>>
  BY DEF Tick, IInv, TypeOK
<1>2. TypeOK'
  BY <1>1 DEF IInv, TypeOK
<1>3. EntriesFresh'
  BY <1>1, SaidIsRow DEF IInv, EntriesFresh, Said, HeldSince, InactiveForGood, Entry
<1>4. RequestsSound'
  BY <1>1 DEF IInv, TypeOK, RequestState, RequestsSound, Sound, HeldSince, InactiveForGood
<1> QED
  BY <1>2, <1>3, <1>4 DEF IInv

-----------------------------------------------------------------------------
(* Theorems *)

\* The inductive invariant holds in every reachable state.
THEOREM Invariance == Spec => []IInv
<1>1. Init => IInv
  BY Initially
<1>2. IInv /\ [Next]_vars => IInv'
  <2> SUFFICES ASSUME IInv, [Next]_vars PROVE IInv'
    OBVIOUS
  <2>1. CASE UNCHANGED vars
    BY <2>1 DEF vars, IInv, TypeOK, EntriesFresh, RequestsSound, Sound, Said,
                HeldSince, InactiveForGood
  <2>2. CASE Next
    BY <2>2, TickStep, RestartStep, ValidateCachedStep, ValidateStep, FindUserStep,
       SetCacheEntryStep, SetRolesStep, DeactivateStep, UpdateProfileStep, EmitChangedStep,
       EndStep
    DEF Next
  <2> QED
    BY <2>1, <2>2
<1> QED
  BY <1>1, <1>2, PTL DEF Spec

\* Rows, caches and handlers stay well-typed.
THEOREM TypeCorrect == Spec => []TypeOK
<1>1. IInv => TypeOK
  BY DEF IInv
<1> QED
  BY <1>1, Invariance, PTL

\* A role change or a deactivation takes effect within the TTL, on every instance.
THEOREM ChangesTakeEffect == Spec => []DecisionsFresh
<1>1. IInv => DecisionsFresh
  BY DEF IInv, RequestsSound, Sound, DecisionsFresh
<1> QED
  BY <1>1, Invariance, PTL

\* No active user is refused because of what a cache holds.
THEOREM NoStaleRefusal == Spec => []RefusalsFinal
<1>1. IInv => RefusalsFinal
  BY DEF IInv, EntriesFresh, RefusalsFinal, Said, InactiveForGood
<1> QED
  BY <1>1, Invariance, PTL
==============================================================================
