--------------------------- MODULE OneTimeSecrets ---------------------------
(***************************************************************************)
(* What a link from an e-mail and the challenge of a passkey promise, with *)
(* no mails, credentials or database rows in sight.  A secret is offered   *)
(* once, and until the next one at most; whoever comes with it is admitted *)
(* as long as it is on offer; and nobody is let in with it before it has   *)
(* been withdrawn for good, so that nobody else is admitted afterwards.    *)
(* MagicLinks and Passkeys implement this specification.                   *)
(***************************************************************************)
CONSTANTS
    Secret, \* what may be drawn
    Holder  \* whoever is on the way in

CONSTANT Nothing \* what a holder holds that nobody has admitted

VARIABLES
    offer,  \* Secret -> "new", "open" or "closed"
    held,   \* Holder -> the secret it was admitted with
    entered \* secrets that somebody was let in with

secretVars == <<offer, held, entered>>

Init ==
    /\ offer = [s \in Secret |-> "new"]
    /\ held = [h \in Holder |-> Nothing]
    /\ entered = {}

\* No secret is on offer any more.
Withdrawn == [s \in Secret |-> IF offer[s] = "open" THEN "closed" ELSE offer[s]]

\* A secret that was never offered takes the place of the one on offer.
Offer(s) ==
    /\ offer[s] = "new"
    /\ offer' = [Withdrawn EXCEPT ![s] = "open"]
    /\ UNCHANGED <<held, entered>>

Withdraw ==
    /\ offer' = Withdrawn
    /\ UNCHANGED <<held, entered>>

Admit(h, s) ==
    /\ held[h] = Nothing
    /\ offer[s] = "open"
    /\ held' = [held EXCEPT ![h] = s]
    /\ UNCHANGED <<offer, entered>>

\* The holder is in; its secret is closed, by now at the latest.
LetIn(h) ==
    /\ held[h] # Nothing
    /\ offer' \in {offer, Withdrawn}
    /\ offer'[held[h]] = "closed"
    /\ entered' = entered \cup {held[h]}
    /\ held' = [held EXCEPT ![h] = Nothing]

Refuse(h) ==
    /\ held[h] # Nothing
    /\ held' = [held EXCEPT ![h] = Nothing]
    /\ UNCHANGED <<offer, entered>>

Next ==
    \/ \E s \in Secret: Offer(s)
    \/ Withdraw
    \/ \E h \in Holder, s \in Secret: Admit(h, s)
    \/ \E h \in Holder: LetIn(h) \/ Refuse(h)

Spec == Init /\ [][Next]_secretVars
=============================================================================
