------------------------------ MODULE ApiKeys ------------------------------
(***************************************************************************)
(* API keys: made and revoked by their owner, and used in place of a token *)
(* by other programs.                                                      *)
(*   src/src/modules/auth/api-key/api-key.service.ts, .controller.ts       *)
(*   src/src/common/guards/api-key.guard.ts                                *)
(*                                                                         *)
(* Nothing caches a key, and a key's owner never changes: a stranger's     *)
(* revoke() finds no row, and is left out.                                 *)
(***************************************************************************)

EXTENDS Requests

CONSTANTS
    ApiKey,   \* raw keys that randomBytes may draw
    NoApiKey

ASSUME NullApiKeyAssumption == NoApiKey \notin ApiKey

VARIABLES
    apiKey, \* the row of each key
    call    \* what each request is about to do

keyVars == <<apiKey, call>>

CallState == [step: {"idle", "find", "use", "serve", "revoke"},
              key: ApiKey \cup {NoApiKey},
              late: BOOLEAN] \* whether the key had been revoked when the request came in

NoCall == [step |-> "idle", key |-> NoApiKey, late |-> FALSE]

-----------------------------------------------------------------------------
KeysInit ==
    /\ apiKey = [k \in ApiKey |-> "absent"]
    /\ call = [r \in Request |-> NoCall]

Hang(r) == call' = [call EXCEPT ![r] = NoCall]
Advance(r, step) == call' = [call EXCEPT ![r].step = step]

CreateKey(k) ==
    /\ apiKey[k] = "absent"
    /\ apiKey' = [apiKey EXCEPT ![k] = "live"]
    /\ UNCHANGED call

(* Using a key: the guard and the middleware *)

Present(r, k) ==
    /\ call[r].step = "idle"
    /\ call' = [call EXCEPT
         ![r] = [step |-> "find", key |-> k, late |-> apiKey[k] = "revoked"]]
    /\ UNCHANGED apiKey

\* validate(), its lookup: a key that is unknown or revoked is refused.
FindKey(r) ==
    /\ call[r].step = "find"
    /\ IF apiKey[call[r].key] = "live" THEN Advance(r, "use") ELSE Hang(r)
    /\ UNCHANGED apiKey

\* Faulty variant: the row is written back as it was read.
UseKeyWhole(r) ==
    /\ call[r].step = "use"
    /\ apiKey' = [apiKey EXCEPT ![call[r].key] = "live"]
    /\ Advance(r, "serve")

\* validate(), its update of lastUsedAt, whatever has become of the key.
UseKey(r) ==
    /\ call[r].step = "use"
    /\ Advance(r, "serve")
    /\ UNCHANGED apiKey

(* Revoking a key *)

\* revoke(), its lookup; a key that is revoked already is no exception.
FindOwnKey(r, k) ==
    /\ call[r].step = "idle"
    /\ apiKey[k] # "absent"
    /\ call' = [call EXCEPT ![r] = [NoCall EXCEPT !.step = "revoke", !.key = k]]
    /\ UNCHANGED apiKey

RevokeKey(r) ==
    /\ call[r].step = "revoke"
    /\ apiKey' = [apiKey EXCEPT ![call[r].key] = "revoked"]
    /\ Hang(r)

\* The request is over, by an answer or by a failure.
HangUp(r) ==
    /\ call[r].step # "idle"
    /\ Hang(r)
    /\ UNCHANGED apiKey

Call(r) ==
    \/ \E k \in ApiKey: Present(r, k) \/ FindOwnKey(r, k)
    \/ FindKey(r)
    \/ UseKey(r)
    \/ RevokeKey(r)
    \/ HangUp(r)

KeysNext ==
    \/ \E k \in ApiKey: CreateKey(k)
    \/ \E r \in Request: Call(r)

KeysSpec == KeysInit /\ [][KeysNext]_keyVars

-----------------------------------------------------------------------------
(* Properties *)

\* The rows and the locals of the handlers are of their kinds, and a row that is to be
\* updated is there.
KeysTypeOK ==
    /\ apiKey \in [ApiKey -> {"absent", "live", "revoked"}]
    /\ call \in [Request -> CallState]
    /\ \A r \in Request:
         /\ call[r].step # "idle" => call[r].key \in ApiKey
         /\ call[r].step \in {"use", "serve", "revoke"} => apiKey[call[r].key] # "absent"

\* A request that comes in after the revocation of its key is never let through.
RevokedKeysRefused ==
    \A r \in Request: call[r].step \in {"use", "serve"} => ~call[r].late

\* A revocation is final: the update by a request that had found the key does not undo it.
RevocationFinal ==
    [][\A k \in ApiKey: apiKey[k] = "revoked" => apiKey'[k] = "revoked"]_keyVars
=============================================================================
