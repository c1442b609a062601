----------------------------- MODULE Principals -----------------------------
(***************************************************************************)
(* Who a request acts as.  The roles and the active flag of a user live in *)
(* the database; every instance of the server caches them for a while, and *)
(* a request acts with what its instance knew when it was authenticated.   *)
(*   src/src/modules/auth/strategies/jwt.strategy.ts                       *)
(*   src/src/modules/users/users.service.ts (the writes, and their events) *)
(*                                                                         *)
(* The caches are keyed by user and a lookup reads one row, so one user    *)
(* shows every interleaving.  user.updated and user.deactivated are        *)
(* emitted in process: they reach the cache of the instance that made the  *)
(* change, and no other.                                                   *)
(***************************************************************************)
EXTENDS Integers

CONSTANTS
    Roles,     \* the role sets that the user may be given
    Instance,  \* server processes, each with a cache of its own
    Request,   \* requests in progress at the same time
    TTL,       \* CACHE_TTL, the life of a cache entry (30 s)
    MaxTime    \* bound of the clock, for model checking

CONSTANTS NoEntry, NoInstance, NoRoles

ASSUME NullsAssumption ==
    /\ NoInstance \notin Instance
    /\ NoRoles \notin Roles
    /\ NoEntry \notin [ok: BOOLEAN, roles: Roles, exp: Nat]
ASSUME TimeAssumption == TTL \in Nat \ {0} /\ MaxTime \in Nat

VARIABLES
    row,      \* roles and isActive of the user
    cache,    \* what activeCache of every instance holds for the user
    request,  \* the requests at work, with what they read
    clock,    \* Date.now()
    lastHeld  \* history: when the row last stopped to hold a value, -1 for never

vars == <<row, cache, request, clock, lastHeld>>

Row == [roles: Roles, isActive: BOOLEAN]
Entry == [ok: BOOLEAN, roles: Roles, exp: Nat]

NoRow == [roles |-> NoRoles, isActive |-> FALSE]

RequestState == [step: {"idle", "find", "fill", "act", "emit"},
                 at: Instance \cup {NoInstance},
                 now: Nat,              \* when validate() began
                 read: Row \cup {NoRow}] \* the row found, and then acted on

Idle == [step |-> "idle", at |-> NoInstance, now |-> 0, read |-> NoRow]

-----------------------------------------------------------------------------
Init ==
    /\ row \in {v \in Row: v.isActive}
    /\ cache = [i \in Instance |-> NoEntry]
    /\ request = [r \in Request |-> Idle]
    /\ clock = 0
    /\ lastHeld = [v \in Row |-> -1]

Finish(r) == request' = [request EXCEPT ![r] = Idle]

\* An entry that validate() may answer from: one that has not expired.
Usable(i) == cache[i] # NoEntry /\ cache[i].exp > clock

\* validate(), answered from the cache.
ValidateCached(r, i) ==
    /\ request[r].step = "idle"
    /\ Usable(i)
    /\ cache[i].ok
    /\ request' = [request EXCEPT
         ![r] = [step |-> "act", at |-> i, now |-> clock,
                 read |-> [roles |-> cache[i].roles, isActive |-> TRUE]]]
    /\ UNCHANGED <<row, cache, clock, lastHeld>>

\* validate(), which has to ask the database.
Validate(r, i) ==
    /\ request[r].step = "idle"
    /\ ~Usable(i)
    /\ request' = [request EXCEPT
         ![r] = [Idle EXCEPT !.step = "find", !.at = i, !.now = clock]]
    /\ UNCHANGED <<row, cache, clock, lastHeld>>

\* The database answers; the answer is on its way.
FindUser(r) ==
    /\ request[r].step = "find"
    /\ request' = [request EXCEPT ![r].step = "fill", ![r].read = row]
    /\ UNCHANGED <<row, cache, clock, lastHeld>>

EntryOf(r, from) ==
    [ok |-> request[r].read.isActive, roles |-> request[r].read.roles, exp |-> from + TTL]

\* A user who is not active is refused.
Answer(r) ==
    request' = [request EXCEPT
      ![r] = IF request[r].read.isActive THEN [request[r] EXCEPT !.step = "act"] ELSE Idle]

\* Faulty variant: the life of an entry starts when the answer arrives.
SetCacheEntryLate(r) ==
    /\ request[r].step = "fill"
    /\ cache' = [cache EXCEPT ![request[r].at] = EntryOf(r, clock)]
    /\ Answer(r)
    /\ UNCHANGED <<row, clock, lastHeld>>

\* The answer is cached, whatever has happened to the entry since it was asked for.
SetCacheEntry(r) ==
    /\ request[r].step = "fill"
    /\ cache' = [cache EXCEPT ![request[r].at] = EntryOf(r, request[r].now)]
    /\ Answer(r)
    /\ UNCHANGED <<row, clock, lastHeld>>

-----------------------------------------------------------------------------
\* An update of the users table is committed; its event is still to be emitted.
Changed(r, i) ==
    request' = [request EXCEPT ![r] = [Idle EXCEPT !.step = "emit", !.at = i]]

Write(v) ==
    /\ row' = v
    /\ lastHeld' = [lastHeld EXCEPT ![row] = clock]

\* setRoles() of a super_admin, served by instance i.
SetRoles(r, i, R) ==
    /\ request[r].step = "idle"
    /\ Write([row EXCEPT !.roles = R])
    /\ Changed(r, i)
    /\ UNCHANGED <<cache, clock>>

\* deactivate() of an admin; there is no way back.
Deactivate(r, i) ==
    /\ request[r].step = "idle"
    /\ Write([row EXCEPT !.isActive = FALSE])
    /\ Changed(r, i)
    /\ UNCHANGED <<cache, clock>>

\* update(): of columns that are not in Row, with the same event.
UpdateProfile(r) ==
    /\ request[r].step = "act"
    /\ Changed(r, request[r].at)
    /\ UNCHANGED <<row, cache, clock, lastHeld>>

\* emit(): onUserChanged has run when it returns, on this instance only.
EmitChanged(r) ==
    /\ request[r].step = "emit"
    /\ cache' = [cache EXCEPT ![request[r].at] = NoEntry]
    /\ Finish(r)
    /\ UNCHANGED <<row, clock, lastHeld>>

\* A query rejects, or there is nothing more to do.
End(r) ==
    /\ request[r].step # "idle"
    /\ Finish(r)
    /\ UNCHANGED <<row, cache, clock, lastHeld>>

\* The process is restarted: its requests and its cache are gone.
Restart(i) ==
    /\ request' = [r \in Request |-> IF request[r].at = i THEN Idle ELSE request[r]]
    /\ cache' = [cache EXCEPT ![i] = NoEntry]
    /\ UNCHANGED <<row, clock, lastHeld>>

Tick ==
    /\ clock < MaxTime
    /\ clock' = clock + 1
    /\ UNCHANGED <<row, cache, request, lastHeld>>

Next ==
    \/ Tick
    \/ \E i \in Instance: Restart(i)
    \/ \E r \in Request:
         \/ \E i \in Instance: ValidateCached(r, i)
         \/ \E i \in Instance: Validate(r, i)
         \/ FindUser(r)
         \/ SetCacheEntry(r)
         \/ \E i \in Instance, R \in Roles: SetRoles(r, i, R)
         \/ \E i \in Instance: Deactivate(r, i)
         \/ UpdateProfile(r)
         \/ EmitChanged(r)
         \/ End(r)

Spec == Init /\ [][Next]_vars

-----------------------------------------------------------------------------
(* Properties *)

\* The row, the cache entries and the locals of the handlers are of their kinds.
TypeOK ==
    /\ row \in Row
    /\ cache \in [Instance -> Entry \cup {NoEntry}]
    /\ request \in [Request -> RequestState]
    /\ clock \in Nat
    /\ lastHeld \in [Row -> Int]

\* The row holds v now, or has held it at time t or later.
HeldSince(v, t) == row = v \/ lastHeld[v] >= t

\* A role change or a deactivation takes effect within the TTL on every instance,
\* however lookups, events and restarts interleave: a request acts as what the
\* user was, while active, less than a TTL before the request came in, or later.
DecisionsFresh ==
    \A r \in Request: request[r].step = "act" =>
        /\ request[r].read.isActive
        /\ HeldSince(request[r].read, request[r].now - TTL + 1)

\* The refusal of a user is never a stale one: who is refused is not active.
RefusalsFinal ==
    \A i \in Instance: cache[i] # NoEntry /\ ~cache[i].ok => ~row.isActive
=============================================================================
