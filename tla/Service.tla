------------------------------ MODULE Service ------------------------------
(***************************************************************************)
(* The server's request handlers at work on one user table and one Redis:  *)
(* profiles and their cache (UserCache), logins (Login), calls with an API *)
(* key (ApiKeys).  A slot in Request is busy with at most one of them.     *)
(***************************************************************************)
EXTENDS Login, ApiKeys

vars == <<cacheVars, loginVars, keyVars>>

Init == CacheInit /\ LoginInit /\ KeysInit

Serving(r) == request[r].step # "idle"
LoggingIn(r) == attempt[r].step # "idle"
Calling(r) == call[r].step # "idle"

CacheStep ==
    /\ \/ \E r \in Request: ~LoggingIn(r) /\ ~Calling(r) /\ Serve(r)
       \/ \E u \in User: Touch(u)
       \/ \E k \in Key: Expire(k)
    /\ UNCHANGED <<loginVars, keyVars>>

LoginStep ==
    /\ \/ \E r \in Request:
            ~Serving(r) /\ ~Calling(r) /\ Attempt(r) /\ UNCHANGED cacheVars
       \/ \E r \in Request: Stamp(r)
       \/ Tick /\ UNCHANGED cacheVars
    /\ UNCHANGED keyVars

KeyStep ==
    /\ \/ \E k \in ApiKey: CreateKey(k)
       \/ \E r \in Request: ~Serving(r) /\ ~LoggingIn(r) /\ Call(r)
    /\ UNCHANGED <<cacheVars, loginVars>>

Next == CacheStep \/ LoginStep \/ KeyStep

Spec == Init /\ [][Next]_vars

\* Redis drops the count of failures when its lifetime is over.
FairSpec == Spec /\ WF_vars(Tick /\ UNCHANGED <<cacheVars, keyVars>>)
=============================================================================
