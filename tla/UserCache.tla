----------------------------- MODULE UserCache -----------------------------
(***************************************************************************)
(* User profiles read through a cache, and its event-driven invalidation.  *)
(*   src/src/modules/users/users.service.ts, users.controller.ts           *)
(*   src/src/core/cache/cache.module.ts, cache-invalidation.service.ts     *)
(*                                                                         *)
(* The cache is one Redis shared by all instances, so a published message  *)
(* deletes a second time what the publisher has deleted itself.  What an   *)
(* entry says is either what the database says (fresh) or not (stale).  A  *)
(* write keeps its request slot until its message has been delivered.      *)
(***************************************************************************)
EXTENDS Requests

CONSTANTS
    User,      \* accounts; the keys users:id:<id> are named after them
    All        \* the key users:all

CONSTANT NoKey

ASSUME KeyAssumption == All \notin User /\ NoKey \notin User \cup {All}

VARIABLES
    row,      \* the account of each user
    entry,    \* what the cache holds under each key
    request,  \* what each handler is about to do
    excused   \* history: keys whose entry is stale for one of the known reasons

cacheVars == <<row, entry, request, excused>>

Key == User \cup {All}

RequestState == [step: {"idle", "query", "store", "invalidate", "publish",
                         "deliver"},
                 key: Key \cup {NoKey}, stale: BOOLEAN, pending: SUBSET Key]

Idle == [step |-> "idle", key |-> NoKey, stale |-> FALSE, pending |-> {}]

-----------------------------------------------------------------------------
CacheInit ==
    /\ row \in [User -> {"absent", "active"}]
    /\ entry = [k \in Key |-> "none"]
    /\ request = [r \in Request |-> Idle]
    /\ excused = {}

\* Some handler has yet to delete the key.
Owed(k) == \E r \in Request: k \in request[r].pending

\* The cached views that a change of the row shows in: findAll() selects active users.
Views(u) == IF row[u] = "active" THEN {u, All} ELSE {u}

\* The cache, and the readers on their way to it, once the views in D have changed.
Outdated(D) ==
    [k \in Key |-> IF k \in D /\ entry[k] = "fresh" THEN "stale" ELSE entry[k]]
Overtaken(D) ==
    [r \in Request |->
        [request[r] EXCEPT !.stale = @ \/ (request[r].step = "store" /\ request[r].key \in D)]]

\* The entry under k is gone, however it was.
Evict(k) ==
    /\ entry' = [entry EXCEPT ![k] = "none"]
    /\ excused' = excused \ {k}

(* Reading: findAll() and findById() *)

\* The cache has nothing under the key, or cannot be read, which is taken for a miss; a
\* hit is answered and changes nothing.
Read(r, k) ==
    /\ request[r].step = "idle"
    /\ request' = [request EXCEPT ![r] = [Idle EXCEPT !.step = "query", !.key = k]]
    /\ UNCHANGED <<row, entry, excused>>

\* The query; an unknown user is a 404 and is not cached.
Query(r) ==
    /\ request[r].step = "query"
    /\ request' = [request EXCEPT
         ![r] = IF request[r].key \in User /\ row[request[r].key] = "absent"
                THEN Idle ELSE [@ EXCEPT !.step = "store"]]
    /\ UNCHANGED <<row, entry, excused>>

\* cache.set(), of the row as it was when it was read.
Store(r) ==
    LET k == request[r].key IN
    /\ request[r].step = "store"
    /\ entry' = [entry EXCEPT ![k] = IF request[r].stale THEN "stale" ELSE "fresh"]
    /\ excused' = IF request[r].stale /\ ~Owed(k) THEN excused \cup {k} ELSE excused \ {k}
    /\ request' = [request EXCEPT ![r] = Idle]
    /\ UNCHANGED row

(* Writing *)

\* Faulty variant: only the user's own entry.
KeysOfUser(k) == {k}

\* The keys that CacheInvalidationService deletes for user.created (All) and for
\* user.updated and user.deactivated (a user).
KeysOf(k) == {k, All}

\* The write has been committed; its event is emitted before anything else runs.
\* The response does not wait for the deletions.
Emit(r, k, D) ==
    /\ request[r].step = "idle"
    /\ entry' = Outdated(D)
    /\ request' = [Overtaken(D) EXCEPT
         ![r] = [Idle EXCEPT !.step = "invalidate", !.key = k, !.pending = KeysOf(k)]]
    /\ UNCHANGED excused

\* register(), oauthLogin() and the passkey signup create a user.
Create(r, u) ==
    /\ row[u] = "absent"
    /\ row' = [row EXCEPT ![u] = "active"]
    /\ Emit(r, All, {All})

\* update() and setRoles()
Update(r, u) ==
    /\ row[u] # "absent"
    /\ Emit(r, u, Views(u))
    /\ UNCHANGED row

Deactivate(r, u) ==
    /\ row[u] # "absent"
    /\ row' = [row EXCEPT ![u] = "deactivated"]
    /\ Emit(r, u, Views(u))

\* Changes that emit no event: the other updates of the row, all of which set updatedAt.
Touch(u) ==
    /\ row[u] # "absent"
    /\ entry' = Outdated(Views(u))
    /\ request' = Overtaken(Views(u))
    /\ excused' = excused \cup {k \in Views(u): entry[k] = "fresh" /\ ~Owed(k)}
    /\ UNCHANGED row

(* CacheInvalidationService *)

\* The message is next when the last deletion is done.
Settle(r, k) ==
    [request EXCEPT ![r].pending = @ \ {k},
                    ![r].step = IF request[r].pending = {k} THEN "publish" ELSE @]

Invalidate(r, k) ==
    /\ k \in request[r].pending
    /\ Evict(k)
    /\ request' = Settle(r, k)
    /\ UNCHANGED row

\* Stale entries that nobody will delete any more once r does not delete those in D.
Abandoned(r, D) ==
    {k \in D: entry[k] = "stale" /\ \A q \in Request \ {r}: k \notin request[q].pending}

\* The deletion is lost; whether that stops the message is left open in PublishFails.
InvalidateFails(r, k) ==
    /\ k \in request[r].pending
    /\ excused' = excused \cup Abandoned(r, {k})
    /\ request' = Settle(r, k)
    /\ UNCHANGED <<row, entry>>

Publish(r) ==
    /\ request[r].step = "publish"
    /\ request' = [request EXCEPT ![r].step = "deliver"]
    /\ UNCHANGED <<row, entry, excused>>

\* A failed publish is logged and dropped; a rejected deletion skips it.
PublishFails(r) ==
    /\ request[r].step = "publish"
    /\ request' = [request EXCEPT ![r] = Idle]
    /\ UNCHANGED <<row, entry, excused>>

\* A subscriber deletes a key of the message, and other subscribers may yet do so.
Deliver(r, k) ==
    /\ request[r].step = "deliver"
    /\ k \in KeysOf(request[r].key)
    /\ Evict(k)
    /\ UNCHANGED <<row, request>>

(* The rest of the world *)

\* The entry is five minutes old.
Expire(k) ==
    /\ entry[k] # "none"
    /\ Evict(k)
    /\ UNCHANGED <<row, request>>

\* A query rejects or the process dies; a message has reached all that it will reach.
Die(r) ==
    /\ request[r].step # "idle"
    /\ excused' = excused \cup Abandoned(r, request[r].pending)
    /\ request' = [request EXCEPT ![r] = Idle]
    /\ UNCHANGED <<row, entry>>

\* A step of the handler that r stands for.
Serve(r) ==
    \/ \E k \in Key: Read(r, k)
    \/ Query(r)
    \/ Store(r)
    \/ \E u \in User: Create(r, u) \/ Update(r, u) \/ Deactivate(r, u)
    \/ \E k \in Key: Invalidate(r, k) \/ InvalidateFails(r, k)
    \/ Publish(r)
    \/ PublishFails(r)
    \/ \E k \in Key: Deliver(r, k)
    \/ Die(r)

CacheNext ==
    \/ \E r \in Request: Serve(r)
    \/ \E u \in User: Touch(u)
    \/ \E k \in Key: Expire(k)

CacheSpec == CacheInit /\ [][CacheNext]_cacheVars

-----------------------------------------------------------------------------
(* Properties *)

\* The rows, the cache and the locals of the handlers are of their kinds, and a
\* handler has keys to delete exactly while it invalidates.
CacheTypeOK ==
    /\ row \in [User -> {"absent", "active", "deactivated"}]
    /\ entry \in [Key -> {"none", "fresh", "stale"}]
    /\ request \in [Request -> RequestState]
    /\ \A r \in Request: request[r].step = "invalidate" <=> request[r].pending # {}
    /\ excused \in SUBSET Key

\* A stale entry is about to be deleted, or it is one of three known exceptions: it was
\* stored by a reader that had read the row before the write whose deletion came first, its
\* deletion was lost, or the row was changed without an event.
StaleIsExcused ==
    \A k \in Key: entry[k] = "stale" => Owed(k) \/ k \in excused
=============================================================================
